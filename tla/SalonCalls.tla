----------------------------- MODULE SalonCalls -----------------------------
(***************************************************************************)
(* SalonCallCoordinator: the receptionist's side of a call.                *)
(*                                                                         *)
(* A call fills in one transaction - an action and its details - over      *)
(* several messages, puts it to the caller once nothing is missing, and    *)
(* writes it to the book when a later message agrees.  The coordinator's   *)
(* lock makes a message one step; other processes change the book and the  *)
(* clock between messages.                                                 *)
(*                                                                         *)
(* What a message means is decided by fixed rules, or by a language model  *)
(* whose decision - an action, details, whether the caller confirmed - may *)
(* be any that its schema allows.  Which of the two is set at              *)
(* construction.                                                           *)
(***************************************************************************)
EXTENDS SalonHarness

CONSTANTS
  Sessions,
  LastMinute, \* bound: the clock stops here
  MaxVersion, \* bound: how often a reservation is written
  NoCall

ASSUME CallBoundsAssumption == LastMinute \in Nat /\ MaxVersion \in Nat

Transaction ==
  [action : Actions \union {Unset}, service : Services \union {Same},
   staff : Staff \union {Anyone}, start : Starts \union {Unset},
   name : Names \union {Unset}, phone : Phones \union {Unset},
   code : Ids \union {Unset}, awaiting : BOOLEAN]

ASSUME NoCallAssumption == NoCall \notin Transaction

\* How the words alone are read: as one of the exact phrases that agree, as a
\* refusal, or as neither.
Answers == {"yes", "no", "other"}

VARIABLES
  mode,      \* "rules" or "model"
  book,      \* the reservations
  now,       \* the clock
  call,      \* the transaction of each session's call
  \* Observation only.
  proposal,  \* the write each caller was last asked to confirm
  heard      \* by the rules: the details told since the transaction was cleared

vars == <<mode, book, now, call, proposal, heard>>

-----------------------------------------------------------------------------
\* Broken variant: who is calling survives the transaction.
ClearedExceptCaller(t) ==
  [t EXCEPT !.action = Unset, !.service = Same, !.staff = Anyone, !.start = Unset,
            !.name = Unset, !.awaiting = FALSE]

\* clear_transaction
Cleared(t) ==
  [t EXCEPT !.action = Unset, !.service = Same, !.staff = Anyone, !.start = Unset,
            !.name = Unset, !.phone = Unset, !.code = Unset, !.awaiting = FALSE]

NewCall ==
  [action |-> Unset, service |-> Same, staff |-> Anyone, start |-> Unset,
   name |-> Unset, phone |-> Unset, code |-> Unset, awaiting |-> FALSE]

\* A detail, once told, replaces the one before.
Filled(t, fact) == IF fact = Nothing THEN t ELSE [t EXCEPT ![fact.field] = fact.value]

Details(action) ==
  CASE action = "book" -> {"service", "start", "name", "phone"}
    [] action = "modify" -> {"code", "phone", "start"}
    [] action = "cancel" -> {"code", "phone"}
    [] OTHER -> {}

Complete(t) == \A f \in Details(t.action) : t[f] \notin {Unset, Same}

\* Some member of staff offers the service and is free.
Available(t, wanted) ==
  Bookable(t.start, t.service, now) /\ Candidates(book, t.service, wanted, t.start, {}) # {}

\* Broken variant: an appointment has to be over before the salon closes.
DaySlotsBeforeClosing(service, day) ==
  IF day \in ClosedDays THEN {}
  ELSE { start \in { day * DayMinutes + Opens + n * SlotMinutes : n \in 0..DayMinutes } :
           /\ start + Duration[service] < day * DayMinutes + Closes
           /\ Bookable(start, service, now)
           /\ Candidates(book, service, Anyone, start, {}) # {} }

\* _model_daily_availability_result: the slots of a day at which somebody is
\* free for the service.  (Opening hours that are not aligned fail the message.)
DaySlots(service, day) ==
  IF day \in ClosedDays THEN {}
  ELSE { start \in { day * DayMinutes + Opens + n * SlotMinutes : n \in 0..DayMinutes } :
           /\ start + Duration[service] <= day * DayMinutes + Closes
           /\ Bookable(start, service, now)
           /\ Candidates(book, service, Anyone, start, {}) # {} }

\* _model_availability_search_result: the next slots, three at most, which the
\* wanted member of staff can take; at one time of day, if one is named, and
\* not before the day after the one that does not suit.  (A time of day that is
\* not aligned fails the message.)
Searched(service, wanted, minute, excluded) ==
  LET today == now \div DayMinutes
      first == IF excluded # Unset /\ excluded >= today THEN excluded + 1 ELSE today
      slots == UNION { DaySlots(service, day) : day \in first..(first + HorizonDays) }
      fitting == { t \in slots : /\ minute \in {Unset, t % DayMinutes}
                                 /\ Candidates(book, service, wanted, t, {}) # {} }
  IN { t \in fitting : Cardinality({ u \in fitting : u < t }) < 3 }

\* The reservations a complete transaction can turn the book's into.
Results(t) ==
  CASE t.action = "book" ->
         { <<i, r>> : i \in { i \in Ids : book[i] = NoReservation },
                      r \in Created(book, t.phone, t.service, t.start, t.staff, now) }
    [] t.action = "modify" ->
         { <<t.code, r>> : r \in Changed(book, t.code, t.phone, t.service, t.start, t.staff, now) }
    [] t.action = "cancel" -> { <<t.code, r>> : r \in Cancelled(book, t.code, t.phone) }

-----------------------------------------------------------------------------
(* How a message can end.  t is the transaction with what the message told.  *)

Hears(s, fact) ==
  IF mode = "model" \/ fact = Nothing THEN heard[s] ELSE heard[s] \union {fact.field}

\* It is answered; the caller still has the proposal to decide, if any.
Keeps(s, t, fact) ==
  /\ call' = [call EXCEPT ![s] = t]
  /\ proposal' = [proposal EXCEPT ![s] = IF t.awaiting THEN @ ELSE Unset]
  /\ heard' = [heard EXCEPT ![s] = Hears(s, fact)]
  /\ UNCHANGED book

\* The write is put to the caller.
Asks(s, t, fact) ==
  /\ call' = [call EXCEPT ![s] = [t EXCEPT !.awaiting = TRUE]]
  /\ proposal' = [proposal EXCEPT ![s] = t.action]
  /\ heard' = [heard EXCEPT ![s] = Hears(s, fact)]
  /\ UNCHANGED book

Forgets(s) ==
  /\ call' = [call EXCEPT ![s] = Cleared(@)]
  /\ proposal' = [proposal EXCEPT ![s] = Unset]
  /\ heard' = [heard EXCEPT ![s] = {}]

\* The write is carried out, or refused by the rules, or the book cannot be
\* written.
Performs(s, t, fact) ==
  \/ /\ \E res \in Results(t) :
          res[2].version <= MaxVersion /\ book' = [book EXCEPT ![res[1]] = res[2]]
     /\ Forgets(s)
  \/ Results(t) = {} /\ Keeps(s, [t EXCEPT !.awaiting = FALSE], fact)
  \/ Keeps(s, t, fact)

-----------------------------------------------------------------------------
Init ==
  /\ mode \in {"rules", "model"}
  /\ book = [i \in Ids |-> NoReservation]
  /\ now = 0
  /\ call = [s \in Sessions |-> NoCall]
  /\ proposal = [s \in Sessions |-> Unset]
  /\ heard = [s \in Sessions |-> {}]

Start(s) ==
  /\ call[s] = NoCall
  /\ call' = [call EXCEPT ![s] = NewCall]
  /\ UNCHANGED <<mode, book, now, proposal, heard>>

\* salon.call.end, or the session expires.
End(s) ==
  /\ call[s] # NoCall
  /\ call' = [call EXCEPT ![s] = NoCall]
  /\ proposal' = [proposal EXCEPT ![s] = Unset]
  /\ heard' = [heard EXCEPT ![s] = {}]
  /\ UNCHANGED <<mode, book, now>>

\* Broken variant: naming another action leaves the question open.
UnderstoodKeeping(t, intent, fact) ==
  LET told == Filled(t, fact) IN
  IF intent \in {Unset, t.action} THEN told ELSE [told EXCEPT !.action = intent]

\* _capture_details, then the action the words name, if any.  Naming another
\* action withdraws the question.
Understood(t, intent, fact) ==
  LET told == Filled(t, fact) IN
  IF intent \in {Unset, t.action} THEN told
  ELSE [told EXCEPT !.action = intent, !.awaiting = FALSE]

\* Broken variant: nothing is asked when the caller already says yes.
WriteByRulesAtOnce(s, t, answer, fact) ==
  /\ t.action \in Writes
  /\ \/ ~Complete(t) /\ Keeps(s, t, fact)
     \/ Complete(t) /\ ~t.awaiting /\ answer # "yes" /\ Asks(s, t, fact)
     \/ Complete(t) /\ t.awaiting /\ answer # "yes" /\ Keeps(s, t, fact)
     \/ Complete(t) /\ answer = "yes" /\ Performs(s, t, fact)

\* _book, _modify, _cancel
WriteByRules(s, t, answer, fact) ==
  /\ t.action \in Writes
  /\ \/ ~Complete(t) /\ Keeps(s, t, fact)
     \/ Complete(t) /\ ~t.awaiting /\ Asks(s, t, fact)
     \/ Complete(t) /\ t.awaiting /\ answer # "yes" /\ Keeps(s, t, fact)
     \/ Complete(t) /\ t.awaiting /\ answer = "yes" /\ Performs(s, t, fact)

\* _availability: a free time turns the question into a booking.
Availability(s, t, fact) ==
  /\ t.action = "availability"
  /\ IF t.service # Same /\ t.start # Unset /\ Available(t, Anyone)
     THEN Keeps(s, [t EXCEPT !.action = "book"], fact)
     ELSE Keeps(s, t, fact)

\* A question about prices, hours or the address is answered, and nothing else
\* in the message is read - unless a write awaits its answer.
Informs(s) ==
  /\ mode = "rules" /\ call[s] # NoCall /\ ~call[s].awaiting
  /\ UNCHANGED vars

\* A date that does not exist: what precedes it in _capture_details is kept, and
\* the message fails.
Unreadable(s, fact) ==
  /\ mode = "rules" /\ call[s] # NoCall
  /\ fact # Nothing => fact.field \in {"service", "staff"}
  /\ Keeps(s, Filled(call[s], fact), fact)
  /\ UNCHANGED <<mode, now>>

\* The phrases that agree tell no detail.
RuleMessage(s, answer, intent, fact) ==
  /\ mode = "rules" /\ call[s] # NoCall
  /\ answer = "yes" => fact = Nothing
  /\ IF answer = "no" /\ call[s].awaiting THEN Forgets(s) /\ UNCHANGED book
     ELSE LET t == Understood(call[s], intent, fact) IN
          \/ t.action = Unset /\ Keeps(s, t, fact)
          \/ Availability(s, t, fact)
          \/ WriteByRules(s, t, answer, fact)
  /\ UNCHANGED <<mode, now>>

-----------------------------------------------------------------------------
(* The model reads. *)

\* _apply_model_slots: a date alone takes back the time.
Applied(t, claim) ==
  IF claim = DateOnly THEN [t EXCEPT !.start = Unset] ELSE Filled(t, claim)

\* The open question is answered: both the model and the words must agree.
Resolves(s, t, d) ==
  \E answer \in Answers :
    IF d.confirmed /\ answer = "yes" THEN Performs(s, t, Nothing)
    ELSE IF answer = "no" THEN Forgets(s) /\ UNCHANGED book ELSE Keeps(s, t, Nothing)

\* _model_book: the time is checked before the booking is put to the caller.
\* One whose name or phone number is missing when it is agreed to - another
\* action had asked - fails an assertion.
ModelBook(s, t, d) ==
  IF t.service = Same \/ t.start = Unset THEN Keeps(s, t, Nothing)
  ELSE IF t.awaiting
       THEN IF Complete(t) THEN Resolves(s, t, d)
            ELSE Keeps(s, t, Nothing) \/ (Forgets(s) /\ UNCHANGED book)
  ELSE IF Complete(t) /\ Available(t, t.staff) THEN Asks(s, t, Nothing)
  ELSE Keeps(s, t, Nothing)

\* _model_modify, _model_cancel: nothing is checked before the caller is asked.
ModelModify(s, t, d) ==
  IF ~Complete(t) THEN Keeps(s, t, Nothing)
  ELSE IF t.awaiting THEN Resolves(s, t, d) ELSE Asks(s, t, Nothing)

ModelCancel(s, t, d) ==
  IF ~Complete(t) THEN Keeps(s, t, Nothing)
  ELSE IF t.awaiting THEN Resolves(s, t, d) ELSE Asks(s, t, Nothing)

\* A time that cannot be booked at all is an error, which withdraws an open
\* question; a time at which nobody is free is an answer.
ModelAvailability(s, t) ==
  IF t.service # Same /\ t.start # Unset /\ ~Bookable(t.start, t.service, now)
  THEN Keeps(s, [t EXCEPT !.awaiting = FALSE], Nothing)
  ELSE Keeps(s, t, Nothing)

\* The words ask for the earliest time: the search replaces what the model
\* decided, and the time that was set.
Searches(s, t) ==
  /\ t.service # Same
  /\ Keeps(s, [t EXCEPT !.action = "availability", !.start = Unset], Nothing)

\* An answer leaves the transaction's action alone.
Responds(s, t) == Keeps(s, t, Nothing)

\* The decision's details are filled in first; one that is rejected, by the
\* harness or for a service or a member of staff nobody knows, changes nothing.
ModelMessage(s, d) ==
  /\ mode = "model" /\ call[s] # NoCall
  /\ IF d = Rejected \/ d.claim \in Spoilt({"service", "staff"})
     THEN Keeps(s, call[s], Nothing)
     ELSE LET t == Applied(call[s], d.claim)
              turn == [t EXCEPT !.action = d.action]
          IN \/ d.action = "outOfScope" /\ Forgets(s) /\ UNCHANGED book
             \/ d.action # "outOfScope" /\ Searches(s, t)
             \/ d.action = "respond" /\ Responds(s, t)
             \/ d.action = "availability" /\ ModelAvailability(s, turn)
             \/ d.action = "book" /\ ModelBook(s, turn, d)
             \/ d.action = "modify" /\ ModelModify(s, turn, d)
             \/ d.action = "cancel" /\ ModelCancel(s, turn, d)
  /\ UNCHANGED <<mode, now>>

\* Another process finishes a change of the book.
Elsewhere ==
  /\ \E i \in Ids, p \in Phones, m \in Services, t \in Starts, a \in Staff \union {Anyone} :
       \E r \in IF book[i] = NoReservation THEN Created(book, p, m, t, a, now)
                ELSE Cancelled(book, i, p) \union Changed(book, i, p, m, t, a, now) :
         r.version <= MaxVersion /\ book' = [book EXCEPT ![i] = r]
  /\ UNCHANGED <<mode, now, call, proposal, heard>>

Tick ==
  /\ now < LastMinute
  /\ now' = now + 1
  /\ UNCHANGED <<mode, book, call, proposal, heard>>

-----------------------------------------------------------------------------
Message(s) ==
  \/ Informs(s)
  \/ \E fact \in Facts \union {Nothing} :
       \/ Unreadable(s, fact)
       \/ \E answer \in Answers, intent \in Actions \union {Unset} :
            RuleMessage(s, answer, intent, fact)
  \/ \E d \in Decisions : ModelMessage(s, d)

Next ==
  \/ \E s \in Sessions : Start(s) \/ End(s) \/ Message(s)
  \/ Elsewhere
  \/ Tick

Spec == Init /\ [][Next]_vars

-----------------------------------------------------------------------------
(* Properties. *)

TypeOK ==
  /\ mode \in {"rules", "model"}
  /\ book \in [Ids -> Reservation \union {NoReservation}]
  /\ now \in Nat
  /\ call \in [Sessions -> Transaction \union {NoCall}]
  /\ proposal \in [Sessions -> Writes \union {Unset}]
  /\ heard \in [Sessions -> SUBSET {"service", "staff", "start", "name", "phone", "code"}]

\* What a caller is offered can be booked, with the member of staff who was
\* named; and when nothing is offered, nothing can be booked up to the horizon.
OffersAreBookable ==
  \A service \in Services, wanted \in Staff \union {Anyone} :
    LET offered == Searched(service, wanted, Unset, Unset)
        bookable == { t \in now..((now \div DayMinutes + HorizonDays + 1) * DayMinutes) :
                        Created(book, Unset, service, t, wanted, now) # {} }
    IN /\ offered \subseteq bookable
       /\ \A t \in bookable \ offered : Cardinality({ u \in offered : u < t }) = 3

\* By the rules, an open question is about the write the transaction stands
\* for, with every detail that write needs, however much was said since.
CallIsSound ==
  /\ TypeOK /\ OffersAreBookable
  /\ mode = "rules" => \A s \in Sessions : call[s] # NoCall /\ call[s].awaiting =>
       Complete(call[s]) /\ proposal[s] = call[s].action

\* What a change does to reservation i.
Kind(i) ==
  IF book[i] = NoReservation THEN "book"
  ELSE IF book'[i].status = "cancelled" THEN "cancel" ELSE "modify"

\* Session s changes reservation i: its call goes on with another transaction.
Writing(s, i) == book'[i] # book[i] /\ call'[s] # call[s]

\* A call writes only after a proposal was put to the caller, by an earlier
\* message of the same transaction.
WritesAreProposed ==
  [][\A s \in Sessions, i \in Ids : Writing(s, i) => proposal[s] # Unset]_vars

\* What the rules write is the kind of change the caller was asked about last,
\* whatever was said in between.
RulesWriteTheProposal ==
  [][mode = "rules" => \A s \in Sessions, i \in Ids : Writing(s, i) => proposal[s] = Kind(i)]_vars

\* By the rules, every detail a write depends on was told by earlier messages
\* since the last write or refusal of the same call: nothing of an earlier
\* transaction is used, nor anything told while agreeing.
RulesUseOwnDetails ==
  [][mode = "rules" => \A s \in Sessions, i \in Ids :
       Writing(s, i) => Details(Kind(i)) \subseteq heard[s]]_vars

=============================================================================
