------------------------- MODULE SalonReservations -------------------------
(***************************************************************************)
(* The salon's reservation book: SalonReservationService over              *)
(* FileReservationStore.                                                   *)
(*                                                                         *)
(* The book is one JSON file.  A change is a mutation function run between *)
(* loading and replacing the file, under a file lock that other processes  *)
(* of the salon share: load, decide, copy the old file to a backup, write  *)
(* the new one beside it and rename it over the old.  Any of these writes  *)
(* may fail and the process may die between any two of them.  A new        *)
(* booking is checked against the clock before the lock is waited for, a   *)
(* change of a booking while it is held.                                   *)
(***************************************************************************)
EXTENDS SalonRules

CONSTANTS
  Callers,    \* threads and processes that change the book
  Starts,     \* bound: the starting minutes callers ask for
  LastMinute, \* bound: the clock stops here
  MaxChanges, \* bound: successful changes of the book
  NoCaller

ASSUME BoundsAssumption ==
  /\ Starts \subseteq Nat /\ LastMinute \in Nat /\ MaxChanges \in Nat
  /\ NoCaller \notin Callers

VARIABLES
  \* The disk.
  book,        \* reservations.json
  docVersion,  \* its document version
  saved,       \* document versions that some backup container holds
  \* The callers.
  lock,        \* the holder of the file lock
  pc,          \* where each caller stands
  seen,        \* the clock as the caller read it when it was called
  draft,       \* the next content of the book it has computed
  target,      \* the reservation that content changes
  \* The surroundings.
  now,         \* the salon's clock, in minutes
  \* Observation only.
  told         \* the latest reservation record a caller was given, per id

disk  == <<book, docVersion, saved>>
local == <<pc, seen, draft, target>>
vars  == <<disk, lock, local, now, told>>

Phase == {"idle", "waiting", "backup", "write", "reply"}

NoDraft == [i \in Ids |-> NoReservation]

\* The call is over and its local variables with it.
Leave(c) ==
  /\ pc' = [pc EXCEPT ![c] = "idle"]
  /\ seen' = [seen EXCEPT ![c] = 0]
  /\ draft' = [draft EXCEPT ![c] = NoDraft]
  /\ target' = [target EXCEPT ![c] = NoReservation]
  /\ lock' = IF lock = c THEN NoCaller ELSE lock

-----------------------------------------------------------------------------
Init ==
  /\ book = [i \in Ids |-> NoReservation]
  /\ docVersion = 0
  /\ saved = {}
  /\ lock = NoCaller
  /\ pc = [c \in Callers |-> "idle"]
  /\ seen = [c \in Callers |-> 0]
  /\ draft = [c \in Callers |-> NoDraft]
  /\ target = [c \in Callers |-> NoReservation]
  /\ now = 0
  /\ told = [i \in Ids |-> NoReservation]

\* A caller asks for a change; a new booking's window is judged by the clock
\* of this moment.
Call(c) ==
  /\ pc[c] = "idle"
  /\ pc' = [pc EXCEPT ![c] = "waiting"]
  /\ seen' = [seen EXCEPT ![c] = now]
  /\ UNCHANGED <<disk, lock, draft, target, now, told>>

\* The file lock is free for a caller that waits for it.
Enters(c) == pc[c] = "waiting" /\ lock = NoCaller /\ docVersion < MaxChanges

\* The lock is taken and the mutation decides: reservation i becomes r.
Decide(c, i, r) ==
  /\ lock' = c
  /\ pc' = [pc EXCEPT ![c] = "backup"]
  /\ draft' = [draft EXCEPT ![c] = [book EXCEPT ![i] = r]]
  /\ target' = [target EXCEPT ![c] = i]
  /\ UNCHANGED <<disk, seen, now, told>>

Create(c, i, phone, service, start, wanted) ==
  /\ Enters(c)
  /\ book[i] = NoReservation
  /\ \E r \in Created(book, phone, service, start, wanted, seen[c]) : Decide(c, i, r)

Cancel(c, i, phone) ==
  /\ Enters(c)
  /\ \E r \in Cancelled(book, i, phone) : Decide(c, i, r)

\* Judged by the clock under the lock.
Modify(c, i, phone, service, start, wanted) ==
  /\ Enters(c)
  /\ \E r \in Changed(book, i, phone, service, start, wanted, now) : Decide(c, i, r)

\* The rules refuse the request - as they may for some input - or the lock
\* file or the book cannot be read.
Refuse(c) ==
  /\ pc[c] = "waiting" /\ lock = NoCaller
  /\ Leave(c)
  /\ UNCHANGED <<disk, now, told>>

\* _backup_current
BackUp(c, ok) ==
  /\ pc[c] = "backup"
  /\ \/ /\ ok
        /\ saved' = saved \union {docVersion}
        /\ pc' = [pc EXCEPT ![c] = "write"]
        /\ UNCHANGED <<lock, seen, draft, target>>
     \/ ~ok /\ Leave(c) /\ UNCHANGED saved
  /\ UNCHANGED <<book, docVersion, now, told>>

\* _atomic_write: the new document replaces the old one, or nothing changes.
Replace(c, ok) ==
  /\ pc[c] = "write"
  /\ \/ /\ ok
        /\ book' = draft[c]
        /\ docVersion' = docVersion + 1
        /\ pc' = [pc EXCEPT ![c] = "reply"]
        /\ UNCHANGED <<lock, seen, draft, target>>
     \/ ~ok /\ Leave(c) /\ UNCHANGED <<book, docVersion>>
  /\ UNCHANGED <<saved, now, told>>

\* Broken variant: the caller is told before the file is replaced.
ReplyEarly(c) ==
  /\ pc[c] \in {"write", "reply"}
  /\ Leave(c)
  /\ told' = [told EXCEPT ![target[c]] = draft[c][target[c]]]
  /\ UNCHANGED <<disk, now>>

\* mutate returns: the lock is released and the caller has its reservation.
Reply(c) ==
  /\ pc[c] = "reply"
  /\ Leave(c)
  /\ told' = [told EXCEPT ![target[c]] = draft[c][target[c]]]
  /\ UNCHANGED <<disk, now>>

\* The caller's process dies; the kernel releases its file lock.
Crash(c) ==
  /\ pc[c] # "idle"
  /\ Leave(c)
  /\ UNCHANGED <<disk, now, told>>

Tick ==
  /\ now < LastMinute
  /\ now' = now + 1
  /\ UNCHANGED <<disk, lock, local, told>>

-----------------------------------------------------------------------------
Step(c) ==
  \/ \E i \in Ids, phone \in Phones, service \in Services, start \in Starts,
        wanted \in Staff \union {Anyone} : Create(c, i, phone, service, start, wanted)
  \/ \E i \in Ids, phone \in Phones : Cancel(c, i, phone)
  \/ \E i \in Ids, phone \in Phones, service \in Services \union {Same},
        start \in Starts, wanted \in Staff \union {Anyone} :
          Modify(c, i, phone, service, start, wanted)
  \/ Refuse(c) \/ Reply(c)
  \/ \E ok \in BOOLEAN : BackUp(c, ok) \/ Replace(c, ok)

Next ==
  \/ \E c \in Callers : Call(c) \/ Step(c) \/ Crash(c)
  \/ Tick

Spec == Init /\ [][Next]_vars

-----------------------------------------------------------------------------
(* Properties. *)

TypeOK ==
  /\ book \in [Ids -> Reservation \union {NoReservation}]
  /\ docVersion \in Nat /\ saved \subseteq Nat
  /\ lock \in Callers \union {NoCaller}
  /\ pc \in [Callers -> Phase]
  /\ seen \in [Callers -> Nat]
  /\ draft \in [Callers -> [Ids -> Reservation \union {NoReservation}]]
  /\ target \in [Callers -> Ids \union {NoReservation}]
  /\ now \in Nat
  /\ told \in [Ids -> Reservation \union {NoReservation}]

\* No staff member is ever booked for two customers at the same time, by
\* whichever callers, changes and failures.
NoDoubleBooking == StaffIsFree(book)

\* What a caller was told is in the book, or a later version of it is,
\* whoever wrote or died since.
CommittedSurvives ==
  \A i \in Ids : told[i] # NoReservation =>
    /\ book[i] # NoReservation
    /\ book[i] = told[i] \/ book[i].version > told[i].version

\* Every document that was ever replaced can be recovered from a backup.
ReplacedDocumentsAreSaved == \A v \in 0..MaxChanges : v < docVersion => v \in saved

\* A reservation in the book keeps its customer, is never lost, and changes
\* only together with its version; once cancelled it never changes again.
Evolves(i) ==
  book[i] # NoReservation /\ book'[i] # book[i] =>
    /\ book'[i] # NoReservation
    /\ book'[i].phone = book[i].phone
    /\ book'[i].version = book[i].version + 1
    /\ book[i].status = "confirmed"
ReservationsEvolve == [][\A i \in Ids : Evolves(i)]_vars

\* Two bookings that were never moved differ in phone number or start.  (A
\* booking that is moved is not tested against the others' phone numbers.)
NoDuplicateBooking ==
  \A i, j \in Ids : i # j /\ Confirmed(book[i]) /\ Confirmed(book[j])
                     /\ book[i].version = 1 /\ book[j].version = 1 =>
    book[i].phone # book[j].phone \/ book[i].start # book[j].start

\* The file is a book that could be kept by hand: no two customers at once, no
\* customer twice, and every page that was replaced can be had back.
BookIsSound ==
  TypeOK /\ NoDoubleBooking /\ NoDuplicateBooking /\ ReplacedDocumentsAreSaved

=============================================================================
