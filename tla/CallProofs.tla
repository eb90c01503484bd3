----------------------------- MODULE CallProofs -----------------------------
(***************************************************************************)
(* What holds of the calls of a salon for any salon, any number of calls   *)
(* and whatever a language model decides.                                  *)
(*                                                                         *)
(* That a write was proposed is not inductive: what is written is the      *)
(* transaction, what was proposed is past.  It follows from what an open   *)
(* question says of the transaction as it is now (SoundCall), which every  *)
(* message keeps, withdraws, or answers.                                   *)
(*                                                                         *)
(* What is offered depends on the book and the clock alone.  Every time    *)
(* that can be booked is a slot of its day, and the search takes the first *)
(* three of them for the one who is wanted.                                *)
(***************************************************************************)
EXTENDS SalonCalls, FiniteSetTheorems, WellFoundedInduction, TLAPS

Fields == {"service", "staff", "start", "name", "phone", "code"}

\* Each detail a write needs that the transaction has was told.
Told(t, h) == \A f \in Fields \ {"staff"} : t[f] \notin {Unset, Same} => f \in h

\* A call, what its caller was last asked and what was told fit together.
SoundCall(c, p, h) ==
  /\ c \in Transaction \union {NoCall} /\ p \in Writes \union {Unset} /\ h \in SUBSET Fields
  /\ c # NoCall /\ c.awaiting => p \in Writes
  /\ mode = "rules" /\ c # NoCall =>
       /\ c.awaiting => Complete(c) /\ p = c.action
       /\ Told(c, h)

CallsInv ==
  /\ mode \in {"rules", "model"}
  /\ book \in [Ids -> Reservation \union {NoReservation}]
  /\ call \in [Sessions -> Transaction \union {NoCall}]
  /\ proposal \in [Sessions -> Writes \union {Unset}]
  /\ heard \in [Sessions -> SUBSET Fields]
  /\ \A s \in Sessions : SoundCall(call[s], proposal[s], heard[s])

\* What the theorems say of a step.
WritesWell ==
  \A s \in Sessions, i \in Ids : Writing(s, i) =>
    /\ proposal[s] # Unset
    /\ mode = "rules" => proposal[s] = Kind(i) /\ Details(Kind(i)) \subseteq heard[s]

-----------------------------------------------------------------------------
(* The rules of the book. *)

LEMMA CreatedIsNew ==
  ASSUME NEW phone \in Phones, NEW service \in Services, NEW start \in Nat, NEW wanted, NEW clock,
         NEW r \in Created(book, phone, service, start, wanted, clock)
  PROVE  r \in Reservation /\ r.status = "confirmed"
BY DEF Created, Reservation

LEMMA CancelledIsCancelled ==
  ASSUME book \in [Ids -> Reservation \union {NoReservation}], NEW i \in Ids, NEW phone,
         NEW r \in Cancelled(book, i, phone)
  PROVE  r \in Reservation /\ r.status = "cancelled" /\ book[i] # NoReservation
<1> DEFINE old == book[i]
<1>1. old \in Reservation /\ old # NoReservation
      /\ r = [old EXCEPT !.status = "cancelled", !.version = old.version + 1]
  BY DEF Cancelled, Confirmed
<1>2. old.version + 1 \in Nat \ {0}
  BY <1>1 DEF Reservation
<1> HIDE DEF old
<1>3. r \in Reservation /\ r.status = "cancelled"
  BY <1>1, <1>2 DEF Reservation
<1> QED
  BY <1>1, <1>3 DEF old

LEMMA ChangedIsConfirmed ==
  ASSUME book \in [Ids -> Reservation \union {NoReservation}], NEW i \in Ids, NEW phone,
         NEW service \in Services \union {Same}, NEW start \in Nat, NEW wanted, NEW clock,
         NEW r \in Changed(book, i, phone, service, start, wanted, clock)
  PROVE  r \in Reservation /\ r.status = "confirmed" /\ book[i] # NoReservation
<1> DEFINE old == book[i]
<1>1. old \in Reservation /\ old # NoReservation /\ old.status = "confirmed"
  BY DEF Changed, Confirmed
<1>2. old.version + 1 \in Nat \ {0} /\ Kept(old, service) \in Services
  BY <1>1 DEF Reservation, Kept
<1>3. PICK member \in Staff :
        r = [old EXCEPT !.service = Kept(old, service), !.staff = member, !.start = start,
                        !.version = old.version + 1]
  <2>1. PICK q \in {old} :
          r \in { [q EXCEPT !.service = Kept(q, service), !.staff = member, !.start = start, !.version = @ + 1] :
                   member \in { m \in Staff :
                     /\ Bookable(start, Kept(q, service), clock)
                     /\ Chosen(Candidates(book, Kept(q, service), wanted, start, {i}), m) } }
    BY DEF Changed
  <2> QED
    BY <2>1
<1> HIDE DEF old
<1>4. r \in Reservation /\ r.status = "confirmed"
  BY <1>1, <1>2, <1>3 DEF Reservation
<1> QED
  BY <1>1, <1>4 DEF old

\* A complete transaction makes of the book what its action says.
LEMMA ResultsAreOfTheAction ==
  ASSUME book \in [Ids -> Reservation \union {NoReservation}],
         NEW t \in Transaction, t.action \in Writes, Complete(t), NEW res \in Results(t)
  PROVE  /\ res[1] \in Ids /\ res[2] \in Reservation
         /\ t.action = "book" <=> book[res[1]] = NoReservation
         /\ t.action = "cancel" => res[2].status = "cancelled"
         /\ t.action = "modify" => res[2].status = "confirmed"
<1>0. t.service \in Services \union {Same} /\ (t.start # Unset => t.start \in Nat)
  BY DetailsAssumption DEF Transaction
<1>1. CASE t.action = "book"
  <2>1. t.phone \in Phones /\ t.service \in Services /\ t.start \in Nat
    BY <1>0, <1>1 DEF Complete, Details, Transaction
  <2>2. PICK i \in Ids, r \in Created(book, t.phone, t.service, t.start, t.staff, now) :
          book[i] = NoReservation /\ res = <<i, r>>
    BY <1>1 DEF Results
  <2>3. r \in Reservation /\ r.status = "confirmed"
    BY <2>1, CreatedIsNew
  <2> QED
    BY <1>1, <2>2, <2>3
<1>2. CASE t.action = "modify"
  <2>1. t.code \in Ids /\ t.start \in Nat
    BY <1>0, <1>2 DEF Complete, Details, Transaction
  <2>2. PICK r \in Changed(book, t.code, t.phone, t.service, t.start, t.staff, now) : res = <<t.code, r>>
    BY <1>2 DEF Results
  <2>3. r \in Reservation /\ r.status = "confirmed" /\ book[t.code] # NoReservation
    BY <1>0, <2>1, ChangedIsConfirmed
  <2> QED
    BY <1>2, <2>1, <2>2, <2>3
<1>3. CASE t.action = "cancel"
  <2>1. t.code \in Ids
    BY <1>3 DEF Complete, Details, Transaction
  <2>2. PICK r \in Cancelled(book, t.code, t.phone) : res = <<t.code, r>>
    BY <1>3 DEF Results
  <2>3. r \in Reservation /\ r.status = "cancelled" /\ book[t.code] # NoReservation
    BY <2>1, CancelledIsCancelled
  <2> QED
    BY <1>3, <2>1, <2>2, <2>3
<1> QED
  BY <1>1, <1>2, <1>3 DEF Writes

-----------------------------------------------------------------------------
(* How a message can end. *)

\* One call changes, and the book not at all, or to another book.
LEMMA OneCallChanges ==
  ASSUME CallsInv, NEW s \in Sessions, NEW c, NEW p, NEW h, SoundCall(c, p, h),
         call' = [call EXCEPT ![s] = c], proposal' = [proposal EXCEPT ![s] = p],
         heard' = [heard EXCEPT ![s] = h], UNCHANGED mode,
         book' \in [Ids -> Reservation \union {NoReservation}]
  PROVE  CallsInv'
<1>1. /\ call'[s] = c /\ proposal'[s] = p /\ heard'[s] = h
      /\ \A r \in Sessions \ {s} : call'[r] = call[r] /\ proposal'[r] = proposal[r] /\ heard'[r] = heard[r]
  BY DEF CallsInv
<1>2. /\ call' \in [Sessions -> Transaction \union {NoCall}]
      /\ proposal' \in [Sessions -> Writes \union {Unset}]
      /\ heard' \in [Sessions -> SUBSET Fields]
  BY DEF CallsInv, SoundCall
<1>3. ASSUME NEW r \in Sessions PROVE SoundCall(call[r], proposal[r], heard[r])'
  <2>1. CASE r = s
    BY <1>1, <2>1 DEF SoundCall, Complete
  <2>2. CASE r # s
    BY <1>1, <2>2 DEF CallsInv, SoundCall, Complete
  <2> QED
    BY <2>1, <2>2
<1> QED
  BY <1>2, <1>3 DEF CallsInv

\* A transaction that a message makes of the call's: it does not open a
\* question, and by the rules keeps one only as it is.
Fits(s, t, fact) ==
  /\ s \in Sessions /\ call[s] # NoCall
  /\ t \in Transaction /\ fact \in Facts \union {Nothing}
  /\ t.awaiting => call[s].awaiting
  /\ mode = "rules" => /\ t.awaiting => Complete(t) /\ proposal[s] = t.action
                       /\ Told(t, Hears(s, fact))

LEMMA HearsFields ==
  ASSUME CallsInv, NEW s \in Sessions, NEW fact \in Facts \union {Nothing}
  PROVE  Hears(s, fact) \in SUBSET Fields
BY DEF CallsInv, Hears, Facts, Fields

LEMMA KeepsIsSound ==
  ASSUME CallsInv, NEW s, NEW t, NEW fact, Fits(s, t, fact), Keeps(s, t, fact), UNCHANGED mode
  PROVE  CallsInv' /\ WritesWell
<1> DEFINE p == IF t.awaiting THEN proposal[s] ELSE Unset
<1>1. SoundCall(call[s], proposal[s], heard[s]) /\ Hears(s, fact) \in SUBSET Fields
  BY HearsFields DEF CallsInv, Fits
<1>2. SoundCall(t, p, Hears(s, fact))
  BY <1>1 DEF SoundCall, Fits
<1>3. call' = [call EXCEPT ![s] = t] /\ proposal' = [proposal EXCEPT ![s] = p]
      /\ heard' = [heard EXCEPT ![s] = Hears(s, fact)] /\ UNCHANGED book
  BY DEF Keeps
<1> HIDE DEF p
<1>4. CallsInv'
  BY <1>2, <1>3, OneCallChanges DEF Fits, CallsInv
<1> QED
  BY <1>3, <1>4 DEF WritesWell, Writing

LEMMA AsksIsSound ==
  ASSUME CallsInv, NEW s, NEW t, NEW fact, Fits(s, t, fact), Asks(s, t, fact), t.action \in Writes, Complete(t),
         UNCHANGED mode
  PROVE  CallsInv' /\ WritesWell
<1> DEFINE c == [t EXCEPT !.awaiting = TRUE]
<1>1. Hears(s, fact) \in SUBSET Fields
  BY HearsFields DEF Fits
<1>2. c \in Transaction /\ c.action = t.action /\ c.awaiting /\ \A f \in Fields : c[f] = t[f]
  BY DEF Fits, Transaction, Fields
<1>3. Complete(c)
  BY <1>2 DEF Complete, Details, Fields
<1>4. mode = "rules" => Told(c, Hears(s, fact))
  BY <1>2 DEF Told, Fits
<1>5. call' = [call EXCEPT ![s] = c] /\ proposal' = [proposal EXCEPT ![s] = t.action]
      /\ heard' = [heard EXCEPT ![s] = Hears(s, fact)] /\ UNCHANGED book
  BY DEF Asks
<1> HIDE DEF c
<1>6. SoundCall(c, t.action, Hears(s, fact))
  BY <1>1, <1>2, <1>3, <1>4 DEF SoundCall
<1>7. CallsInv'
  BY <1>5, <1>6, OneCallChanges DEF Fits, CallsInv
<1> QED
  BY <1>5, <1>7 DEF WritesWell, Writing

LEMMA ForgetsIsSound ==
  ASSUME CallsInv, NEW s \in Sessions, call[s] # NoCall, Forgets(s), UNCHANGED mode,
         book' \in [Ids -> Reservation \union {NoReservation}]
  PROVE  CallsInv'
<1> DEFINE c == Cleared(call[s])
<1>1. call[s] \in Transaction
  BY DEF CallsInv
<1>2. c \in Transaction /\ ~c.awaiting /\ \A f \in Fields \ {"staff"} : c[f] \in {Unset, Same}
  BY <1>1 DEF Cleared, Transaction, Fields
<1>3. call' = [call EXCEPT ![s] = c] /\ proposal' = [proposal EXCEPT ![s] = Unset]
      /\ heard' = [heard EXCEPT ![s] = {}]
  BY DEF Forgets
<1> HIDE DEF c
<1>4. SoundCall(c, Unset, {})
  BY <1>2 DEF SoundCall, Told
<1> QED
  BY <1>3, <1>4, OneCallChanges DEF CallsInv

\* What is written is what was asked, with what was told.
LEMMA PerformsIsSound ==
  ASSUME CallsInv, NEW s, NEW t, NEW fact, Fits(s, t, fact), Performs(s, t, fact),
         t.awaiting, t.action \in Writes, Complete(t),
         mode = "rules" => t = call[s] /\ proposal[s] = t.action,
         UNCHANGED mode
  PROVE  CallsInv' /\ WritesWell
<1> USE DEF Fits
<1>1. ASSUME NEW res \in Results(t), book' = [book EXCEPT ![res[1]] = res[2]], Forgets(s)
      PROVE  CallsInv' /\ WritesWell
  <2>1. /\ res[1] \in Ids /\ res[2] \in Reservation
        /\ t.action = "book" <=> book[res[1]] = NoReservation
        /\ t.action = "cancel" => res[2].status = "cancelled"
        /\ t.action = "modify" => res[2].status = "confirmed"
    BY ResultsAreOfTheAction DEF CallsInv
  <2>2. book' \in [Ids -> Reservation \union {NoReservation}] /\ book'[res[1]] = res[2]
        /\ \A i \in Ids \ {res[1]} : book'[i] = book[i]
    BY <1>1, <2>1 DEF CallsInv
  <2>3. CallsInv'
    BY <1>1, <2>2, ForgetsIsSound
  <2>4. SoundCall(call[s], proposal[s], heard[s])
    BY DEF CallsInv
  <2>5. ASSUME NEW r \in Sessions, NEW i \in Ids, Writing(r, i)
        PROVE  r = s /\ i = res[1]
    BY <1>1, <2>2, <2>5 DEF Writing, Forgets, CallsInv
  <2>6. proposal[s] # Unset
    BY <2>4, MarksAssumption DEF SoundCall, Writes, Actions
  <2>7. Kind(res[1]) = t.action
    BY <2>1, <2>2 DEF Kind, Writes
  <2>8. mode = "rules" => Details(t.action) \subseteq heard[s]
    <3>1. SUFFICES ASSUME mode = "rules", NEW f \in Details(t.action) PROVE f \in heard[s]
      OBVIOUS
    <3>2. t = call[s] /\ Told(t, heard[s]) /\ f \in Fields \ {"staff"}
      BY <2>4, <3>1 DEF SoundCall, Details, Fields
    <3> QED
      BY <3>1, <3>2 DEF Told, Complete
  <2> QED
    BY <2>3, <2>5, <2>6, <2>7, <2>8 DEF WritesWell
<1>2. CASE Results(t) = {} /\ Keeps(s, [t EXCEPT !.awaiting = FALSE], fact)
  <2> DEFINE c == [t EXCEPT !.awaiting = FALSE]
  <2>1. c \in Transaction /\ ~c.awaiting /\ \A f \in Fields : c[f] = t[f]
    BY DEF Transaction, Fields
  <2> HIDE DEF c
  <2>2. Fits(s, c, fact)
    BY <2>1 DEF Told
  <2>3. Keeps(s, c, fact)
    BY <1>2 DEF c
  <2> QED
    BY <2>2, <2>3, KeepsIsSound
<1>3. CASE Keeps(s, t, fact)
  BY <1>3, KeepsIsSound
<1> QED
  BY <1>1, <1>2, <1>3 DEF Performs

-----------------------------------------------------------------------------
(* What a message makes of the transaction. *)

LEMMA FilledFits ==
  ASSUME NEW t \in Transaction, NEW fact \in Facts \union {Nothing}
  PROVE  /\ Filled(t, fact) \in Transaction
         /\ Filled(t, fact).action = t.action /\ Filled(t, fact).awaiting = t.awaiting
         /\ Complete(t) => Complete(Filled(t, fact))
         /\ fact = Nothing => Filled(t, fact) = t
         /\ \A f \in Fields : (fact # Nothing /\ fact.field = f) \/ Filled(t, fact)[f] = t[f]
<1>1. CASE fact = Nothing
  BY <1>1 DEF Filled
<1>2. CASE fact # Nothing
  <2> DEFINE u == [t EXCEPT ![fact.field] = fact.value]
  <2>1. Filled(t, fact) = u
    BY <1>2 DEF Filled
  <2>2. \/ fact.field = "service" /\ fact.value \in Services
        \/ fact.field = "staff" /\ fact.value \in Staff
        \/ fact.field = "start" /\ fact.value \in Starts
        \/ fact.field = "name" /\ fact.value \in Names
        \/ fact.field = "phone" /\ fact.value \in Phones
        \/ fact.field = "code" /\ fact.value \in Ids
    BY <1>2 DEF Facts
  <2>3. fact.field \in Fields /\ (fact.field # "staff" => fact.value \notin {Unset, Same})
    BY <2>2, DetailsAssumption, MarksAssumption, PolicyAssumption DEF Fields
  <2>4. u \in Transaction
    BY <2>2 DEF Transaction
  <2>5. u.action = t.action /\ u.awaiting = t.awaiting
        /\ \A f \in Fields : u[f] = (IF f = fact.field THEN fact.value ELSE t[f])
    BY <2>3 DEF Transaction, Fields
  <2> HIDE DEF u
  <2>6. Complete(t) => Complete(u)
    BY <2>3, <2>5 DEF Complete, Details, Fields
  <2> QED
    BY <1>2, <2>1, <2>4, <2>5, <2>6
<1> QED
  BY <1>1, <1>2

LEMMA UnderstoodFits ==
  ASSUME CallsInv, NEW s \in Sessions, call[s] # NoCall, NEW fact \in Facts \union {Nothing},
         NEW intent \in Actions \union {Unset}
  PROVE  /\ Fits(s, Understood(call[s], intent, fact), fact)
         /\ Understood(call[s], intent, fact).awaiting /\ fact = Nothing => Understood(call[s], intent, fact) = call[s]
         /\ Fits(s, Filled(call[s], fact), fact)
<1> DEFINE told == Filled(call[s], fact)
<1>0. call[s] \in Transaction /\ SoundCall(call[s], proposal[s], heard[s])
  BY DEF CallsInv
<1>1. /\ told \in Transaction /\ told.action = call[s].action /\ told.awaiting = call[s].awaiting
      /\ Complete(call[s]) => Complete(told)
      /\ fact = Nothing => told = call[s]
      /\ \A f \in Fields : (fact # Nothing /\ fact.field = f) \/ told[f] = call[s][f]
  BY <1>0, FilledFits
<1> HIDE DEF told
<1>2. mode = "rules" => Told(told, Hears(s, fact))
  BY <1>0, <1>1 DEF Told, Hears, SoundCall
<1>3. Fits(s, told, fact)
  BY <1>0, <1>1, <1>2 DEF Fits, SoundCall
<1>4. CASE intent \in {Unset, call[s].action}
  BY <1>1, <1>3, <1>4 DEF Understood, told
<1>5. CASE intent \notin {Unset, call[s].action}
  <2> DEFINE u == [told EXCEPT !.action = intent, !.awaiting = FALSE]
  <2>1. u \in Transaction /\ ~u.awaiting /\ \A f \in Fields : u[f] = told[f]
    BY <1>1, <1>5 DEF Transaction, Fields
  <2>2. Understood(call[s], intent, fact) = u
    BY <1>5 DEF Understood, told
  <2> HIDE DEF u
  <2>3. Fits(s, u, fact)
    BY <1>3, <2>1 DEF Fits, Told
  <2> QED
    BY <1>3, <2>1, <2>2, <2>3 DEF told
<1> QED
  BY <1>4, <1>5

-----------------------------------------------------------------------------
(* The rules read. *)

LEMMA RuleStep ==
  ASSUME CallsInv, NEW s \in Sessions, NEW answer \in Answers, NEW intent \in Actions \union {Unset},
         NEW fact \in Facts \union {Nothing}, RuleMessage(s, answer, intent, fact)
  PROVE  CallsInv' /\ WritesWell
<1> DEFINE t == Understood(call[s], intent, fact)
<1>0. mode = "rules" /\ call[s] # NoCall /\ UNCHANGED mode /\ (answer = "yes" => fact = Nothing)
  BY DEF RuleMessage
<1>1. Fits(s, t, fact) /\ (t.awaiting /\ fact = Nothing => t = call[s])
  BY <1>0, UnderstoodFits
<1>2. ASSUME Forgets(s), UNCHANGED book PROVE CallsInv' /\ WritesWell
  BY <1>0, <1>2, ForgetsIsSound DEF CallsInv, WritesWell, Writing
<1>3. RuleMessage(s, answer, intent, fact) =>
        \/ Forgets(s) /\ UNCHANGED book
        \/ Keeps(s, t, fact)
        \/ Availability(s, t, fact)
        \/ WriteByRules(s, t, answer, fact)
  BY DEF RuleMessage
<1> HIDE DEF t
<1>4. CASE Keeps(s, t, fact)
  BY <1>0, <1>1, <1>4, KeepsIsSound
<1>5. CASE Availability(s, t, fact)
  <2> DEFINE u == [t EXCEPT !.action = "book"]
  <2>1. t.action = "availability" /\ (Keeps(s, u, fact) \/ Keeps(s, t, fact))
    BY <1>5 DEF Availability
  <2>2. ~t.awaiting
    <3>1. SUFFICES ASSUME t.awaiting PROVE FALSE
      OBVIOUS
    <3>2. proposal[s] = "availability" /\ call[s].awaiting
      BY <1>0, <1>1, <2>1, <3>1 DEF Fits
    <3>3. proposal[s] \in Writes
      BY <1>0, <3>2 DEF CallsInv, SoundCall
    <3> QED
      BY <3>2, <3>3 DEF Writes
  <2>3. u \in Transaction /\ ~u.awaiting /\ \A f \in Fields : u[f] = t[f]
    BY <1>1, <2>2 DEF Fits, Transaction, Fields, Actions, Writes
  <2> HIDE DEF u
  <2>4. Fits(s, u, fact)
    BY <1>1, <2>3 DEF Fits, Told
  <2> QED
    BY <1>0, <1>1, <2>1, <2>4, KeepsIsSound
<1>6. CASE WriteByRules(s, t, answer, fact)
  <2>1. CASE Complete(t) /\ ~t.awaiting /\ Asks(s, t, fact)
    BY <1>0, <1>1, <1>6, <2>1, AsksIsSound DEF WriteByRules
  <2>2. CASE Complete(t) /\ t.awaiting /\ answer = "yes" /\ Performs(s, t, fact)
    BY <1>0, <1>1, <1>6, <2>2, PerformsIsSound DEF WriteByRules, Fits
  <2> QED
    BY <1>4, <1>6, <2>1, <2>2 DEF WriteByRules
<1> QED
  BY <1>2, <1>3, <1>4, <1>5, <1>6

-----------------------------------------------------------------------------
(* The model reads: whatever it decides, a question is open only if one was. *)

LEMMA DecisionsAreDecisions ==
  ASSUME NEW d \in Decisions, d # Rejected, d.claim \notin Spoilt({"service", "staff"})
  PROVE  d.action \in Actions \union {"respond", "outOfScope"} /\ d.claim \in Facts \union {DateOnly, Nothing}
<1>1. PICK first \in Bodies, second \in Bodies : d = Decided(first, second)
  BY DEF Decisions
<1>2. \E out \in Bodies : Usable(out) /\ d = Parsed(out.decision)
  <2>1. CASE Usable(first)
    BY <1>1, <2>1 DEF Decided
  <2>2. CASE ~Usable(first)
    BY <1>1, <2>2 DEF Decided
  <2> QED
    BY <2>1, <2>2
<1>3. PICK out \in Outputs : d = Parsed(out.decision)
  BY <1>2 DEF Bodies, Contents, Usable
<1> DEFINE o == out.decision
<1>4. o \in Decision
  BY DEF Outputs
<1> HIDE DEF o
<1>5. d = [o EXCEPT !.claim = IF o.claim \in Spoilt({"phone"}) THEN Nothing ELSE o.claim]
      /\ o.claim \notin Spoilt({"start", "code"})
  BY <1>3 DEF Parsed, o
<1>6. d.action = o.action /\ d.claim = (IF o.claim \in Spoilt({"phone"}) THEN Nothing ELSE o.claim)
  BY <1>4, <1>5 DEF Decision
<1>7. o.claim \in Claims /\ o.action \in Actions \union {"respond", "outOfScope"}
  BY <1>4 DEF Decision
<1> QED
  BY <1>5, <1>6, <1>7 DEF Claims, Spoilt

LEMMA ModelStep ==
  ASSUME CallsInv, NEW s \in Sessions, NEW d \in Decisions, ModelMessage(s, d)
  PROVE  CallsInv' /\ WritesWell
<1>0. mode = "model" /\ call[s] # NoCall /\ UNCHANGED mode /\ call[s] \in Transaction
  BY DEF ModelMessage, CallsInv
<1>1. ASSUME Forgets(s), UNCHANGED book PROVE CallsInv' /\ WritesWell
  BY <1>0, <1>1, ForgetsIsSound DEF CallsInv, WritesWell, Writing
\* By the model, a transaction fits if it opens no question.
<1>2. ASSUME NEW u \in Transaction, u.awaiting => call[s].awaiting PROVE Fits(s, u, Nothing)
  BY <1>0, <1>2 DEF Fits
<1>3. ASSUME NEW u \in Transaction, u.awaiting => call[s].awaiting, Keeps(s, u, Nothing)
      PROVE  CallsInv' /\ WritesWell
  BY <1>0, <1>2, <1>3, KeepsIsSound
<1>4. CASE d = Rejected \/ d.claim \in Spoilt({"service", "staff"})
  BY <1>0, <1>3, <1>4 DEF ModelMessage
<1>5. CASE ~(d = Rejected \/ d.claim \in Spoilt({"service", "staff"}))
  <2> DEFINE t == Applied(call[s], d.claim)
             turn == [t EXCEPT !.action = d.action]
  <2>1. d.action \in Actions \union {"respond", "outOfScope"} /\ d.claim \in Facts \union {DateOnly, Nothing}
    BY <1>5, DecisionsAreDecisions
  <2>2. t \in Transaction /\ t.awaiting = call[s].awaiting
    <3>1. CASE d.claim = DateOnly
      BY <1>0, <3>1 DEF Applied, Transaction
    <3>2. CASE d.claim # DateOnly
      BY <1>0, <2>1, <3>2, FilledFits DEF Applied
    <3> QED
      BY <3>1, <3>2
  <2>3. \/ Forgets(s) /\ UNCHANGED book
        \/ Searches(s, t)
        \/ Responds(s, t)
        \/ d.action = "availability" /\ ModelAvailability(s, turn)
        \/ d.action = "book" /\ ModelBook(s, turn, d)
        \/ d.action = "modify" /\ ModelModify(s, turn, d)
        \/ d.action = "cancel" /\ ModelCancel(s, turn, d)
    BY <1>5 DEF ModelMessage
  <2> HIDE DEF t
  <2>4. d.action \in Actions => turn \in Transaction /\ turn.awaiting = call[s].awaiting /\ turn.action = d.action
    BY <2>2 DEF Transaction
  <2>5. ASSUME Searches(s, t) PROVE CallsInv' /\ WritesWell
    <3> DEFINE u == [t EXCEPT !.action = "availability", !.start = Unset]
    <3>1. u \in Transaction /\ u.awaiting = t.awaiting
      BY <2>2 DEF Transaction, Actions
    <3>2. Keeps(s, u, Nothing)
      BY <2>5 DEF Searches
    <3> HIDE DEF u
    <3> QED
      BY <1>3, <2>2, <3>1, <3>2
  <2>6. ASSUME Responds(s, t) PROVE CallsInv' /\ WritesWell
    BY <1>3, <2>2, <2>6 DEF Responds
  <2> HIDE DEF turn
  <2>7. ASSUME turn \in Transaction, turn.awaiting = call[s].awaiting, Keeps(s, turn, Nothing)
        PROVE  CallsInv' /\ WritesWell
    BY <1>3, <2>7
  <2>8. ASSUME d.action = "availability", ModelAvailability(s, turn) PROVE CallsInv' /\ WritesWell
    <3> DEFINE u == [turn EXCEPT !.awaiting = FALSE]
    <3>1. u \in Transaction /\ ~u.awaiting
      BY <2>4, <2>8 DEF Transaction, Actions
    <3>2. Keeps(s, u, Nothing) \/ Keeps(s, turn, Nothing)
      BY <2>8 DEF ModelAvailability
    <3> HIDE DEF u
    <3> QED
      BY <1>3, <2>4, <2>7, <2>8, <3>1, <3>2 DEF Actions
  <2>9. ASSUME d.action \in Writes, Complete(turn), turn.awaiting, Resolves(s, turn, d)
        PROVE  CallsInv' /\ WritesWell
    <3>1. Performs(s, turn, Nothing) \/ (Forgets(s) /\ UNCHANGED book) \/ Keeps(s, turn, Nothing)
      BY <2>9 DEF Resolves
    <3>2. turn \in Transaction /\ turn.awaiting = call[s].awaiting /\ turn.action \in Writes
      BY <2>4, <2>9 DEF Actions
    <3>3. Fits(s, turn, Nothing)
      BY <1>2, <3>2
    <3> QED
      BY <1>0, <1>1, <2>7, <2>9, <3>1, <3>2, <3>3, PerformsIsSound
  <2>10. ASSUME d.action \in Writes, Complete(turn), Asks(s, turn, Nothing) PROVE CallsInv' /\ WritesWell
    <3>1. turn \in Transaction /\ turn.awaiting = call[s].awaiting /\ turn.action \in Writes
      BY <2>4, <2>10 DEF Actions
    <3> QED
      BY <1>0, <1>2, <2>10, <3>1, AsksIsSound
  <2>11. ASSUME d.action \in Writes, Keeps(s, turn, Nothing) PROVE CallsInv' /\ WritesWell
    BY <2>4, <2>7, <2>11 DEF Actions
  <2>12. ASSUME d.action = "book", ModelBook(s, turn, d) PROVE CallsInv' /\ WritesWell
    BY <1>1, <2>9, <2>10, <2>11, <2>12 DEF ModelBook, Writes
  <2>13. ASSUME d.action = "modify", ModelModify(s, turn, d) PROVE CallsInv' /\ WritesWell
    BY <2>9, <2>10, <2>11, <2>13 DEF ModelModify, Writes
  <2>14. ASSUME d.action = "cancel", ModelCancel(s, turn, d) PROVE CallsInv' /\ WritesWell
    BY <2>9, <2>10, <2>11, <2>14 DEF ModelCancel, Writes
  <2> QED
    BY <1>1, <2>3, <2>5, <2>6, <2>8, <2>12, <2>13, <2>14
<1> QED
  BY <1>4, <1>5

-----------------------------------------------------------------------------
LEMMA CallsStart == Init => CallsInv
<1> SUFFICES ASSUME Init PROVE CallsInv
  OBVIOUS
<1> QED
  BY DEF Init, CallsInv, SoundCall

LEMMA CallsStep == CallsInv /\ [Next]_vars => CallsInv' /\ (WritesWell \/ UNCHANGED vars)
<1> SUFFICES ASSUME CallsInv, [Next]_vars PROVE CallsInv' /\ (WritesWell \/ UNCHANGED vars)
  OBVIOUS
\* Steps that leave the calls alone.
<1>1. ASSUME UNCHANGED <<mode, call, proposal, heard>>, book' \in [Ids -> Reservation \union {NoReservation}]
      PROVE  CallsInv' /\ WritesWell
  BY <1>1 DEF CallsInv, SoundCall, Complete, WritesWell, Writing
<1>2. ASSUME NEW s \in Sessions, Start(s) PROVE CallsInv' /\ WritesWell
  <2>1. NewCall \in Transaction /\ ~NewCall.awaiting /\ \A f \in Fields \ {"staff"} : NewCall[f] \in {Unset, Same}
    BY DEF NewCall, Transaction, Fields
  <2>2. SoundCall(NewCall, proposal[s], heard[s])
    BY <2>1 DEF SoundCall, Told, CallsInv
  <2> DEFINE p == proposal[s]
             h == heard[s]
  <2>3. /\ proposal' = [proposal EXCEPT ![s] = p] /\ heard' = [heard EXCEPT ![s] = h]
        /\ call' = [call EXCEPT ![s] = NewCall]
        /\ UNCHANGED mode /\ book' \in [Ids -> Reservation \union {NoReservation}]
    BY <1>2 DEF Start, CallsInv
  <2>4. SoundCall(NewCall, p, h)
    BY <2>2
  <2> HIDE DEF p, h
  <2>5. CallsInv'
    BY <2>3, <2>4, OneCallChanges
  <2> QED
    BY <1>2, <2>5 DEF Start, WritesWell, Writing
<1>3. ASSUME NEW s \in Sessions, End(s) PROVE CallsInv' /\ WritesWell
  <2>1. SoundCall(NoCall, Unset, {})
    BY DEF SoundCall
  <2>2. CallsInv'
    BY <1>3, <2>1, OneCallChanges DEF End, CallsInv
  <2> QED
    BY <1>3, <2>2 DEF End, WritesWell, Writing
<1>4. ASSUME NEW s \in Sessions, Informs(s) PROVE CallsInv' /\ WritesWell
  BY <1>1, <1>4 DEF Informs, vars, CallsInv
<1>5. ASSUME NEW s \in Sessions, NEW fact \in Facts \union {Nothing}, Unreadable(s, fact)
      PROVE  CallsInv' /\ WritesWell
  <2>1. Fits(s, Filled(call[s], fact), fact)
    <3>1. call[s] # NoCall /\ Unset \in Actions \union {Unset}
      BY <1>5 DEF Unreadable
    <3> QED
      BY <3>1, UnderstoodFits
  <2> QED
    BY <1>5, <2>1, KeepsIsSound DEF Unreadable
<1>6. CASE Elsewhere
  <2>1. PICK i \in Ids, p \in Phones, m \in Services, t \in Starts, a \in Staff \union {Anyone} :
          \E r \in IF book[i] = NoReservation THEN Created(book, p, m, t, a, now)
                   ELSE Cancelled(book, i, p) \union Changed(book, i, p, m, t, a, now) :
            book' = [book EXCEPT ![i] = r]
    BY <1>6 DEF Elsewhere
  <2>2. t \in Nat
    BY DetailsAssumption
  <2>3. PICK r \in Created(book, p, m, t, a, now) \union Cancelled(book, i, p) \union Changed(book, i, p, m, t, a, now) :
          book' = [book EXCEPT ![i] = r]
    BY <2>1
  <2>4. r \in Reservation
    BY <2>2, CreatedIsNew, CancelledIsCancelled, ChangedIsConfirmed DEF CallsInv
  <2> QED
    BY <1>1, <1>6, <2>3, <2>4 DEF Elsewhere, CallsInv
<1>7. CASE Tick
  BY <1>1, <1>7 DEF Tick, CallsInv
<1>8. CASE UNCHANGED vars
  BY <1>1, <1>8 DEF vars, CallsInv
<1> QED
  BY <1>2, <1>3, <1>4, <1>5, <1>6, <1>7, <1>8, RuleStep, ModelStep DEF Next, Message

-----------------------------------------------------------------------------
(* What is offered.  Arithmetic first: days, minutes and least elements.   *)

\* A set of naturals that is not empty has a least element.
LEMMA Least ==
  ASSUME NEW T \in SUBSET Nat, T # {}
  PROVE  \E x \in T : \A y \in T : x <= y
<1> DEFINE R == OpToRel(<, Nat)
<1>1. IsWellFoundedOn(R, Nat)
  BY NatLessThanWellFounded
<1>2. \A x, y \in Nat : <<y, x>> \in R <=> y < x
  BY DEF OpToRel
<1> HIDE DEF R
<1>3. T \subseteq Nat
  OBVIOUS
<1>4. \E x \in T : \A y \in T : ~(<<y, x>> \in R)
  BY <1>1, <1>3, WFMin
<1>5. PICK x \in T : \A y \in T : ~(<<y, x>> \in R)
  BY <1>4
<1>6. ASSUME NEW y \in T  PROVE x <= y
  <2>1. x \in Nat /\ y \in Nat /\ ~(<<y, x>> \in R)  BY <1>3, <1>5
  <2>2. ~(y < x)  BY <2>1, <1>2
  <2> QED  BY <2>1, <2>2
<1> QED
  BY <1>6

\* Days and minutes.
LEMMA DayOf ==
  ASSUME NEW t \in Nat, NEW d \in Nat \ {0}
  PROVE  /\ t \div d \in Nat /\ t % d \in Nat /\ t % d < d
         /\ t = d * (t \div d) + (t % d)
OBVIOUS

\* What multiplication and division keep.
LEMMA Times ==
  ASSUME NEW a \in Nat, NEW b \in Nat, NEW d \in Nat, a <= b
  PROVE  d * a <= d * b /\ d * a \in Nat /\ d * b \in Nat
OBVIOUS

LEMMA DayOrder ==
  ASSUME NEW a \in Nat, NEW b \in Nat, NEW d \in Nat \ {0}, a <= b
  PROVE  a \div d <= b \div d
OBVIOUS

LEMMA Distributes ==
  ASSUME NEW b \in Nat, NEW n \in Nat, NEW k \in Nat \ {0}
  PROVE  k * (b + n) = k * b + n * k /\ n <= n * k /\ n * k \in Nat
OBVIOUS

\* A minute that is aligned, as the opening is, is on the grid that starts there.
LEMMA Grid ==
  ASSUME NEW m \in Nat, NEW o \in Nat, NEW k \in Nat \ {0}, o <= m, m % k = 0, o % k = 0
  PROVE \E n \in 0..m : m = o + n * k
<1>1. m = k * (m \div k) /\ o = k * (o \div k) /\ m \div k \in Nat /\ o \div k \in Nat
  BY DayOf
<1>2. o \div k <= m \div k
  BY DayOrder
<1> DEFINE a == m \div k
           b == o \div k
           n == a - b
<1>3. n \in Nat /\ b \in Nat /\ m = k * (b + n) /\ o = k * b
  BY <1>1, <1>2
<1> HIDE DEF n, b, a
<1>4. m = o + n * k /\ n <= n * k /\ n * k \in Nat
  BY <1>3, Distributes
<1> QED
  BY <1>3, <1>4

\* Of a set of times: those before t, and the first three.
Below(B, t) == { u \in B : u < t }
FirstThree(B) == { t \in B : Cardinality(Below(B, t)) < 3 }

LEMMA ThreeElements ==
  ASSUME NEW a, NEW b, NEW c, a # b, a # c, b # c
  PROVE  /\ IsFiniteSet({a}) /\ Cardinality({a}) = 1
         /\ IsFiniteSet({a, b}) /\ Cardinality({a, b}) = 2
         /\ IsFiniteSet({a, b, c}) /\ Cardinality({a, b, c}) = 3
<1>1. IsFiniteSet({a}) /\ Cardinality({a}) = 1
  BY FS_Singleton
<1>2. IsFiniteSet({a} \union {b}) /\ Cardinality({a} \union {b}) = 2
  BY <1>1, FS_AddElement
<1>3. {a} \union {b} = {a, b}
  OBVIOUS
<1>4. IsFiniteSet({a, b}) /\ Cardinality({a, b}) = 2
  BY <1>2, <1>3
<1>5. IsFiniteSet({a, b} \union {c}) /\ Cardinality({a, b} \union {c}) = 3
  BY <1>4, FS_AddElement
<1>6. {a, b} \union {c} = {a, b, c}
  OBVIOUS
<1> QED  BY <1>1, <1>4, <1>5, <1>6

\* Beyond the first three, there are three before.
LEMMA ThreeAreFirst ==
  ASSUME NEW B \in SUBSET Nat, IsFiniteSet(B), NEW t \in B, t \notin FirstThree(B)
  PROVE  Cardinality(Below(FirstThree(B), t)) = 3
<1> DEFINE L == Below(B, t)
<1>0. B \subseteq Nat /\ t \in Nat
  OBVIOUS
<1>1. IsFiniteSet(L) /\ Cardinality(L) \in Nat /\ ~(Cardinality(L) < 3)
  <2>1. L \in SUBSET B  BY DEF Below
  <2>2. IsFiniteSet(L)  BY <2>1, FS_Subset
  <2> QED  BY <2>2, FS_CardinalityType DEF FirstThree
<1>2. \A u : u \in L <=> u \in B /\ u < t
  BY DEF Below
<1> HIDE DEF L
<1>3. L \in SUBSET Nat
  BY <1>0, <1>2
<1>4. PICK a \in L : \A u \in L : a <= u
  <2>1. L # {}  BY <1>1, FS_EmptySet
  <2> QED  BY <2>1, <1>3, Least
<1> DEFINE M == L \ {a}
<1>5. IsFiniteSet(M) /\ Cardinality(M) \in Nat /\ ~(Cardinality(M) < 2)
  <2>1. IsFiniteSet(M) /\ Cardinality(M) = Cardinality(L) - 1  BY <1>1, <1>4, FS_RemoveElement
  <2> QED  BY <2>1, <1>1, FS_CardinalityType
<1>6. PICK b \in M : \A u \in M : b <= u
  <2>1. M # {}  BY <1>5, FS_EmptySet
  <2>2. M \in SUBSET Nat  BY <1>3
  <2> HIDE DEF M
  <2> QED  BY <2>1, <2>2, Least
<1> DEFINE N == M \ {b}
<1>7. IsFiniteSet(N) /\ ~(Cardinality(N) < 1)
  <2> HIDE DEF M
  <2>1. IsFiniteSet(N) /\ Cardinality(N) = Cardinality(M) - 1  BY <1>5, <1>6, FS_RemoveElement
  <2> QED  BY <2>1, <1>5
<1>8. PICK c \in N : \A u \in N : c <= u
  <2>1. N # {}  BY <1>7, FS_EmptySet
  <2>2. N \in SUBSET Nat  BY <1>3
  <2> HIDE DEF N
  <2> QED  BY <2>1, <2>2, Least
<1>9. /\ a \in Nat /\ b \in Nat /\ c \in Nat /\ a < b /\ b < c /\ a # b /\ a # c /\ b # c
      /\ a \in L /\ b \in L /\ c \in L
      /\ \A u \in L : u \in {a, b, c} \/ c < u
  <2>1. a \in L /\ b \in L /\ c \in L /\ b # a /\ c # a /\ c # b
    BY <1>6, <1>8
  <2>2. a <= b /\ b <= c
    BY <1>4, <1>6, <1>8, <2>1
  <2>3. a \in Nat /\ b \in Nat /\ c \in Nat
    BY <2>1, <1>3
  <2>4. ASSUME NEW u \in L, u \notin {a, b, c}  PROVE c < u
    <3>1. u \in N /\ u \in Nat  BY <2>4, <1>3
    <3> QED  BY <3>1, <2>3, <2>4, <1>8
  <2> QED  BY <2>1, <2>2, <2>3, <2>4
<1>few. /\ IsFiniteSet({a}) /\ Cardinality({a}) = 1
        /\ IsFiniteSet({a, b}) /\ Cardinality({a, b}) = 2
        /\ IsFiniteSet({a, b, c}) /\ Cardinality({a, b, c}) = 3
  <2>1. a # b /\ a # c /\ b # c  BY <1>9
  <2> HIDE DEF M, N
  <2> QED  BY ONLY <2>1, ThreeElements, ZenonT(30)
<1>10. /\ \A u \in B : ~(u < a)
       /\ \A u \in B : u < b => u = a
       /\ \A u \in B : u < c => u \in {a, b}
  <2>1. ASSUME NEW u \in B, u < c  PROVE u \in L /\ u \in Nat
    <3>1. c < t /\ u \in Nat  BY <1>0, <1>2, <1>9
    <3> QED  BY <3>1, <2>1, <1>0, <1>2, <1>9
  <2>2. ASSUME NEW u \in B, u < c  PROVE u \in {a, b}
    BY <2>1, <2>2, <1>9
  <2>3. ASSUME NEW u \in B, u < b  PROVE u = a
    <3>1. u \in Nat /\ u < c  BY <1>0, <1>9, <2>3
    <3> QED  BY <3>1, <2>2, <2>3, <1>9
  <2>4. ASSUME NEW u \in B, u < a  PROVE FALSE
    <3>1. u \in Nat /\ u < b  BY <1>0, <1>9, <2>4
    <3> QED  BY <3>1, <2>3, <2>4, <1>9
  <2> QED  BY <2>2, <2>3, <2>4
<1>11. a \in FirstThree(B) /\ b \in FirstThree(B) /\ c \in FirstThree(B)
  <2>1. /\ IsFiniteSet({a}) /\ Cardinality({a}) = 1
        /\ IsFiniteSet({a, b}) /\ Cardinality({a, b}) = 2
    BY <1>few
  <2>2. a \in B /\ b \in B /\ c \in B
    BY <1>2, <1>9
  <2>3. Below(B, a) \in SUBSET {a} /\ Below(B, b) \in SUBSET {a} /\ Below(B, c) \in SUBSET {a, b}
    BY <1>10 DEF Below
  <2>4. ASSUME NEW u \in {a, b}, NEW S \in SUBSET {a, b}, S = Below(B, u)  PROVE Cardinality(S) < 3
    <3>1. IsFiniteSet(S) /\ Cardinality(S) <= 2  BY <2>1, FS_Subset
    <3> QED  BY <3>1, FS_CardinalityType
  <2>5. Cardinality(Below(B, a)) < 3 /\ Cardinality(Below(B, b)) < 3 /\ Cardinality(Below(B, c)) < 3
    <3>1. ASSUME NEW S \in SUBSET {a, b}  PROVE Cardinality(S) < 3
      <4>1. IsFiniteSet(S) /\ Cardinality(S) <= 2  BY <2>1, FS_Subset
      <4> QED  BY <4>1, FS_CardinalityType
    <3>2. SUBSET {a} \subseteq SUBSET {a, b}  OBVIOUS
    <3> QED  BY <2>3, <3>1, <3>2
  <2> QED  BY <2>2, <2>5 DEF FirstThree
<1>12. ASSUME NEW u \in FirstThree(B), u < t  PROVE u \in {a, b, c}
  <2>1. u \in B /\ u \in L /\ u \in Nat /\ Cardinality(Below(B, u)) < 3
    BY <1>0, <1>2, <1>12 DEF FirstThree
  <2>2. SUFFICES ASSUME c < u  PROVE FALSE
    BY <2>1, <1>9
  <2>3. {a, b, c} \in SUBSET Below(B, u)
    BY <2>1, <2>2, <1>2, <1>9 DEF Below
  <2>4. IsFiniteSet(Below(B, u)) /\ Cardinality(Below(B, u)) \in Nat
    <3>1. Below(B, u) \in SUBSET B  BY DEF Below
    <3> QED  BY <3>1, FS_Subset, FS_CardinalityType
  <2>5. Cardinality({a, b, c}) <= Cardinality(Below(B, u))
    BY <2>3, <2>4, FS_Subset
  <2>6. Cardinality({a, b, c}) = 3
    BY <1>few
  <2> QED  BY <2>1, <2>4, <2>5, <2>6
<1>13. Below(FirstThree(B), t) = {a, b, c}
  BY <1>2, <1>9, <1>11, <1>12 DEF Below
<1> QED
  BY <1>13, <1>few

\* A time that can be booked is one of the slots of its day, and not beyond
\* the horizon.
LEMMA BookableIsASlot ==
  ASSUME Opens % SlotMinutes = 0, NEW t \in Nat, NEW clock \in Nat, NEW service \in Services,
         Bookable(t, service, clock)
  PROVE  /\ t \div DayMinutes \in (clock \div DayMinutes)..(clock \div DayMinutes + HorizonDays)
         /\ t \div DayMinutes \notin ClosedDays
         /\ t \in clock..((clock \div DayMinutes + HorizonDays + 1) * DayMinutes)
         /\ \E n \in 0..DayMinutes : t = (t \div DayMinutes) * DayMinutes + Opens + n * SlotMinutes
         /\ t + Duration[service] <= (t \div DayMinutes) * DayMinutes + Closes
<1> DEFINE day == t \div DayMinutes
           minute == t % DayMinutes
           today == clock \div DayMinutes
<1>1. /\ clock <= t /\ day <= today + HorizonDays /\ day \notin ClosedDays
      /\ minute % SlotMinutes = 0 /\ Opens <= minute /\ minute + Duration[service] <= Closes
  BY PolicyAssumption, DayOf DEF Bookable
<1>2. /\ day \in Nat /\ minute \in Nat /\ minute < DayMinutes /\ t = DayMinutes * day + minute
      /\ today \in Nat
  BY PolicyAssumption, DayOf
<1>3. today <= day
  BY <1>1, PolicyAssumption, DayOrder
<1>4. /\ DayMinutes \in Nat \ {0} /\ SlotMinutes \in Nat \ {0} /\ HorizonDays \in Nat
      /\ Opens \in Nat /\ Closes \in Nat /\ Duration[service] \in Nat
  BY PolicyAssumption
<1> HIDE DEF day, minute, today
<1>5. PICK n \in 0..minute : minute = Opens + n * SlotMinutes
  <2>1. /\ minute \in Nat /\ Opens \in Nat /\ SlotMinutes \in Nat \ {0}
        /\ Opens <= minute /\ minute % SlotMinutes = 0 /\ Opens % SlotMinutes = 0
    BY <1>1, <1>2, <1>4
  <2>2. \E n \in 0..minute : minute = Opens + n * SlotMinutes
    BY <2>1, Grid, Zenon
  <2> QED  BY <2>2
<1>6. DayMinutes * day \in Nat /\ DayMinutes * day = day * DayMinutes
  BY <1>2, <1>4, Times
<1>7. t <= (today + HorizonDays + 1) * DayMinutes
  <2>1. DayMinutes * (day + 1) = DayMinutes * day + DayMinutes
    BY <1>2, <1>4
  <2>2. day + 1 <= today + HorizonDays + 1 /\ day + 1 \in Nat /\ today + HorizonDays + 1 \in Nat
    BY <1>1, <1>2, <1>4
  <2>3. /\ DayMinutes * (day + 1) <= DayMinutes * (today + HorizonDays + 1)
        /\ DayMinutes * (today + HorizonDays + 1) \in Nat
    BY <1>4, <2>2, Times
  <2>4. DayMinutes * (today + HorizonDays + 1) = (today + HorizonDays + 1) * DayMinutes
    BY <1>4, <2>2
  <2> QED  BY <1>2, <1>4, <1>6, <2>1, <2>3, <2>4
<1>8. t \in clock..((today + HorizonDays + 1) * DayMinutes)
  <2>1. (today + HorizonDays + 1) * DayMinutes \in Nat  BY <1>2, <1>4
  <2> QED  BY <2>1, <1>1, <1>7
<1>9. n \in 0..DayMinutes /\ n * SlotMinutes \in Nat
  BY <1>2, <1>4, <1>5
<1>10. t = day * DayMinutes + Opens + n * SlotMinutes
  BY <1>2, <1>4, <1>5, <1>6, <1>9
<1>11. t + Duration[service] <= day * DayMinutes + Closes
  BY <1>1, <1>2, <1>4, <1>6
<1>12. day \in today..(today + HorizonDays)
  BY <1>1, <1>2, <1>3, <1>4
<1> QED
  BY <1>1, <1>8, <1>9, <1>10, <1>11, <1>12 DEF day, today

\* Who calls for the first time can book what somebody can take.
LEMMA BookableByAnybody ==
  ASSUME book \in [Ids -> Reservation \union {NoReservation}], NEW service, NEW wanted, NEW t
  PROVE  Created(book, Unset, service, t, wanted, now) # {} <=>
           Bookable(t, service, now) /\ Candidates(book, service, wanted, t, {}) # {}
<1> DEFINE able == Candidates(book, service, wanted, t, {})
<1>1. ~Duplicate(book, Unset, t)
  BY DetailsAssumption DEF Duplicate, Confirmed, Reservation
<1>2. able \in SUBSET DOMAIN StaffList /\ StaffList \in Seq(Staff)
  BY PolicyAssumption DEF Candidates
<1>3. able \in SUBSET Nat /\ \A n \in able : StaffList[n] \in Staff
  BY <1>2
<1> HIDE DEF able
<1>4. able # {} <=> \E m \in Staff : Chosen(able, m)
  <2>1. ASSUME able # {}  PROVE \E m \in Staff : Chosen(able, m)
    <3>1. PICK n \in able : \A k \in able : n <= k  BY <2>1, <1>3, Least
    <3> QED  BY <3>1, <1>3 DEF Chosen
  <2> QED  BY <2>1 DEF Chosen
<1> QED
  BY <1>1, <1>4 DEF Created, able

\* What is searched are the first three of the times that can be booked.
LEMMA OffersOfAnyBook ==
  ASSUME Opens % SlotMinutes = 0, book \in [Ids -> Reservation \union {NoReservation}], now \in Nat
  PROVE  OffersAreBookable
<1> SUFFICES ASSUME NEW service \in Services, NEW wanted \in Staff \union {Anyone}
    PROVE  LET offered == Searched(service, wanted, Unset, Unset)
               bookable == { t \in now..((now \div DayMinutes + HorizonDays + 1) * DayMinutes) :
                               Created(book, Unset, service, t, wanted, now) # {} }
           IN /\ offered \subseteq bookable
              /\ \A t \in bookable \ offered : Cardinality({ u \in offered : u < t }) = 3
  BY DEF OffersAreBookable
<1> DEFINE today == now \div DayMinutes
           end == (today + HorizonDays + 1) * DayMinutes
           able(t) == Candidates(book, service, wanted, t, {})
           B == { t \in now..end : Created(book, Unset, service, t, wanted, now) # {} }
           slots == UNION { DaySlots(service, day) : day \in today..(today + HorizonDays) }
           F == { t \in slots : able(t) # {} }
<1>1. today \in Nat /\ end \in Nat /\ DayMinutes \in Nat \ {0}
  <2>1. today \in Nat  BY PolicyAssumption, DayOf
  <2> HIDE DEF today
  <2> QED  BY <2>1, PolicyAssumption
<1>2. \A t : t \in B <=> t \in now..end /\ Bookable(t, service, now) /\ able(t) # {}
  BY BookableByAnybody
<1>3. B \in SUBSET Nat /\ IsFiniteSet(B)
  <2>1. B \subseteq now..end
    OBVIOUS
  <2> HIDE DEF B, today, end
  <2>2. IsFiniteSet(now..end)
    <3>1. now \in Int /\ end \in Int  BY <1>1
    <3> QED  BY <3>1, FS_Interval
  <2>3. now..end \subseteq Nat
    BY <1>1
  <2> QED  BY <2>1, <2>2, <2>3, FS_Subset
<1>4. ASSUME NEW t \in F  PROVE t \in B
  <2>1. PICK day \in today..(today + HorizonDays) : t \in DaySlots(service, day)
    OBVIOUS
  <2>2. PICK n \in 0..DayMinutes : t = day * DayMinutes + Opens + n * SlotMinutes
    BY <2>1 DEF DaySlots
  <2>3. Bookable(t, service, now)
    BY <2>1 DEF DaySlots
  <2>4. t \in Nat
    <3>1. day \in Nat /\ n \in Nat  BY <1>1, PolicyAssumption
    <3>2. Opens \in Nat /\ SlotMinutes \in Nat  BY PolicyAssumption
    <3>3. day * DayMinutes \in Nat /\ n * SlotMinutes \in Nat  BY <1>1, <3>1, <3>2
    <3> QED  BY <2>2, <3>2, <3>3
  <2>5. t \in now..end
    BY <2>3, <2>4, BookableIsASlot
  <2>6. able(t) # {}
    OBVIOUS
  <2> HIDE DEF able, end
  <2> QED  BY <1>2, <2>3, <2>5, <2>6
<1>5. ASSUME NEW t \in B  PROVE t \in F
  <2>1. Bookable(t, service, now) /\ able(t) # {} /\ t \in Nat
    BY <1>2, <1>3
  <2> DEFINE day == t \div DayMinutes
  <2>2. /\ day \in today..(today + HorizonDays) /\ day \notin ClosedDays
        /\ \E n \in 0..DayMinutes : t = day * DayMinutes + Opens + n * SlotMinutes
        /\ t + Duration[service] <= day * DayMinutes + Closes
    BY <2>1, BookableIsASlot
  <2>3. Candidates(book, service, Anyone, t, {}) # {}
    BY <2>1 DEF Candidates
  <2> HIDE DEF day
  <2>4. t \in DaySlots(service, day)
    BY <2>1, <2>2, <2>3 DEF DaySlots
  <2> QED  BY <2>1, <2>2, <2>4
<1>6. F = B
  <2> HIDE DEF F, B
  <2>1. F \subseteq B /\ B \subseteq F  BY <1>4, <1>5
  <2> QED  BY <2>1
<1>7. Searched(service, wanted, Unset, Unset) = { t \in F : Cardinality({ u \in F : u < t }) < 3 }
  BY DEF Searched
<1> HIDE DEF F, B
<1>8. Searched(service, wanted, Unset, Unset) = FirstThree(B)
  BY <1>6, <1>7 DEF FirstThree, Below
<1>9. FirstThree(B) \subseteq B
  BY DEF FirstThree
<1>10. \A t \in B \ FirstThree(B) : Cardinality({ u \in FirstThree(B) : u < t }) = 3
  BY <1>3, ThreeAreFirst DEF Below
<1> QED
  BY <1>8, <1>9, <1>10 DEF B

-----------------------------------------------------------------------------
(* The theorems. *)

LEMMA ClockStep == now \in Nat /\ [Next]_vars => now' \in Nat
<1> SUFFICES ASSUME now \in Nat, [Next]_vars PROVE now' \in Nat
  OBVIOUS
<1>1. CASE Tick
  BY <1>1 DEF Tick
<1>2. CASE Elsewhere
  BY <1>2 DEF Elsewhere
<1>3. ASSUME NEW s \in Sessions, Start(s) \/ End(s)  PROVE now' \in Nat
  BY <1>3 DEF Start, End
<1>4. ASSUME NEW s \in Sessions, Message(s)  PROVE now' \in Nat
  BY <1>4 DEF Message, Informs, Unreadable, RuleMessage, ModelMessage, vars
<1>5. CASE UNCHANGED vars
  BY <1>5 DEF vars
<1> QED
  BY <1>1, <1>2, <1>3, <1>4, <1>5 DEF Next

\* With opening hours on the grid of slots, a caller is offered the first times
\* that can be booked, for any book, hour and policy, and is told of none only
\* if there is none; and by the rules an open question is complete and about
\* the write it stands for: _model_availability_search_result and _book,
\* _modify, _cancel.  (Nothing validates that a policy's hours are on the
\* grid.  The code's search raises where they are not.)
THEOREM CallSoundness == Opens % SlotMinutes = 0 => (Spec => []CallIsSound)
<1> SUFFICES ASSUME Opens % SlotMinutes = 0  PROVE Spec => []CallIsSound
  OBVIOUS
<1>1. Init => CallsInv /\ now \in Nat
  BY CallsStart DEF Init
<1>2. (CallsInv /\ now \in Nat) /\ [Next]_vars => (CallsInv /\ now \in Nat)'
  BY CallsStep, ClockStep
<1>3. CallsInv /\ now \in Nat => CallIsSound
  <2> SUFFICES ASSUME CallsInv, now \in Nat  PROVE CallIsSound
    OBVIOUS
  <2>1. TypeOK
    BY DEF CallsInv, TypeOK, Fields
  <2>2. OffersAreBookable
    BY OffersOfAnyBook DEF CallsInv
  <2>3. mode = "rules" => \A s \in Sessions : call[s] # NoCall /\ call[s].awaiting =>
          Complete(call[s]) /\ proposal[s] = call[s].action
    BY DEF CallsInv, SoundCall
  <2> QED  BY <2>1, <2>2, <2>3 DEF CallIsSound
<1> QED
  BY <1>1, <1>2, <1>3, PTL DEF Spec

\* Nothing is written that was not put to the caller before, whatever a
\* language model decides: SalonCallCoordinator.message.
THEOREM WritesProposed == Spec => WritesAreProposed
<1>1. CallsInv /\ [Next]_vars => [\A s \in Sessions, i \in Ids : Writing(s, i) => proposal[s] # Unset]_vars
  BY CallsStep DEF WritesWell
<1>2. CallsInv /\ [Next]_vars => CallsInv'
  BY CallsStep
<1> QED
  BY <1>1, <1>2, CallsStart, PTL DEF Spec, WritesAreProposed

\* By the rules, what is written is the kind of change that was put to the
\* caller last: SalonCallCoordinator._book, _modify, _cancel.
THEOREM ProposalWritten == Spec => RulesWriteTheProposal
<1>1. CallsInv /\ [Next]_vars =>
        [mode = "rules" => \A s \in Sessions, i \in Ids : Writing(s, i) => proposal[s] = Kind(i)]_vars
  BY CallsStep DEF WritesWell
<1>2. CallsInv /\ [Next]_vars => CallsInv'
  BY CallsStep
<1> QED
  BY <1>1, <1>2, CallsStart, PTL DEF Spec, RulesWriteTheProposal

\* By the rules, no detail of an earlier transaction, nor one told while
\* agreeing, is written: clear_transaction and _capture_details.
THEOREM OwnDetails == Spec => RulesUseOwnDetails
<1>1. CallsInv /\ [Next]_vars =>
        [mode = "rules" => \A s \in Sessions, i \in Ids :
           Writing(s, i) => Details(Kind(i)) \subseteq heard[s]]_vars
  BY CallsStep DEF WritesWell
<1>2. CallsInv /\ [Next]_vars => CallsInv'
  BY CallsStep
<1> QED
  BY <1>1, <1>2, CallsStart, PTL DEF Spec, RulesUseOwnDetails

=============================================================================
