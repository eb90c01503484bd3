----------------------------- MODULE SalonProofs -----------------------------
(***************************************************************************)
(* What holds of the reservation book for every salon: any staff, services *)
(* and opening hours, and any number of callers and reservations.          *)
(*                                                                         *)
(* That the book is sound is not inductive by itself.  What a caller is    *)
(* about to write was computed from a book that it has read; it is still   *)
(* the present one because the caller holds the file lock (DraftInv).      *)
(***************************************************************************)
EXTENDS SalonReservations, TLAPS

Books == [Ids -> Reservation \union {NoReservation}]

\* NoDuplicateBooking, of any book.
NoneTwice(items) ==
  \A i, j \in Ids : i # j /\ Confirmed(items[i]) /\ Confirmed(items[j])
                     /\ items[i].version = 1 /\ items[j].version = 1 =>
    items[i].phone # items[j].phone \/ items[i].start # items[j].start

\* What the rules let reservation i become.
Allowed(items, i, r) ==
  /\ r \in Reservation
  /\ items[i] # NoReservation =>
       /\ r.phone = items[i].phone
       /\ r.version = items[i].version + 1
       /\ items[i].status = "confirmed"
  /\ StaffIsFree([items EXCEPT ![i] = r])
  /\ NoneTwice([items EXCEPT ![i] = r])

LockInv == \A c \in Callers : pc[c] \in {"backup", "write", "reply"} => lock = c

\* What a caller that holds the lock is about to write, or has written.
DraftInv ==
  \A c \in Callers :
    /\ pc[c] \in {"backup", "write", "reply"} => target[c] \in Ids
    /\ pc[c] \in {"backup", "write"} =>
         /\ draft[c] = [book EXCEPT ![target[c]] = draft[c][target[c]]]
         /\ Allowed(book, target[c], draft[c][target[c]])
    /\ pc[c] = "write" => docVersion \in saved
    /\ pc[c] = "reply" => draft[c] = book /\ book[target[c]] # NoReservation

BookInv ==
  /\ TypeOK /\ LockInv /\ DraftInv
  /\ StaffIsFree(book) /\ NoneTwice(book)
  /\ \A v \in Nat : v < docVersion => v \in saved
  /\ CommittedSurvives

-----------------------------------------------------------------------------
(* The rules. *)

\* A confirmed reservation whose member of staff has no overlap fits in.
LEMMA FreeStaffFits ==
  ASSUME NEW items \in Books, StaffIsFree(items), NEW i \in Ids, NEW r \in Reservation,
         ~StaffHasOverlap(items, r.staff, r.start, Ends(r), {i})
  PROVE  StaffIsFree([items EXCEPT ![i] = r])
<1> DEFINE new == [items EXCEPT ![i] = r]
<1>1. new[i] = r /\ \A j \in Ids \ {i} : new[j] = items[j]
  BY DEF Books
<1>2. \A j \in Ids : Confirmed(items[j]) => items[j].start \in Nat /\ Ends(items[j]) \in Nat
  BY PolicyAssumption DEF Books, Confirmed, Ends, Reservation
<1>3. r.start \in Nat /\ Ends(r) \in Nat
  BY PolicyAssumption DEF Ends, Reservation
<1>4. ASSUME NEW j \in Ids \ {i}, Confirmed(items[j]), items[j].staff = r.staff
      PROVE Ends(items[j]) <= r.start \/ Ends(r) <= items[j].start
  BY <1>2, <1>3, <1>4 DEF StaffHasOverlap
<1> HIDE DEF new
<1>5. StaffIsFree(new)
  BY <1>1, <1>4 DEF StaffIsFree
<1> QED
  BY <1>5 DEF new

LEMMA ChosenIsFree ==
  ASSUME NEW items, NEW service, NEW wanted, NEW start, NEW excluded, NEW m,
         Chosen(Candidates(items, service, wanted, start, excluded), m)
  PROVE  ~StaffHasOverlap(items, m, start, start + Duration[service], excluded)
BY DEF Chosen, Candidates

LEMMA CreatedIsAllowed ==
  ASSUME NEW items \in Books, StaffIsFree(items), NoneTwice(items),
         NEW i \in Ids, items[i] = NoReservation,
         NEW phone \in Phones, NEW service \in Services, NEW start \in Nat,
         NEW wanted, NEW clock,
         NEW r \in Created(items, phone, service, start, wanted, clock)
  PROVE  Allowed(items, i, r)
<1>1. /\ r \in Reservation
      /\ r.phone = phone /\ r.service = service /\ r.start = start
      /\ ~Duplicate(items, phone, start)
      /\ Chosen(Candidates(items, service, wanted, start, {}), r.staff)
  BY DEF Created, Reservation
<1>2. ~StaffHasOverlap(items, r.staff, r.start, Ends(r), {i})
  <2>1. ~StaffHasOverlap(items, r.staff, r.start, Ends(r), {})
    BY <1>1, ChosenIsFree DEF Ends
  <2> QED
    BY <2>1 DEF StaffHasOverlap
<1>3. StaffIsFree([items EXCEPT ![i] = r])
  BY <1>1, <1>2, FreeStaffFits
<1>4. NoneTwice([items EXCEPT ![i] = r])
  BY <1>1 DEF NoneTwice, Duplicate, Books
<1> QED
  BY <1>1, <1>3, <1>4 DEF Allowed

LEMMA CancelledIsAllowed ==
  ASSUME NEW items \in Books, StaffIsFree(items), NoneTwice(items),
         NEW i \in Ids, NEW phone \in Phones,
         NEW r \in Cancelled(items, i, phone)
  PROVE  Allowed(items, i, r)
<1>1. /\ Confirmed(items[i]) /\ items[i] \in Reservation
      /\ r = [items[i] EXCEPT !.status = "cancelled", !.version = @ + 1]
  BY DEF Cancelled, Confirmed, Books
<1>2. /\ r \in Reservation /\ ~Confirmed(r)
      /\ r.phone = items[i].phone /\ r.version = items[i].version + 1
      /\ items[i].status = "confirmed"
  <2> DEFINE old == items[i]
  <2>1. old \in Reservation /\ old.status = "confirmed" /\ old.version + 1 \in Nat \ {0, 1}
    BY <1>1 DEF Reservation, Confirmed
  <2>2. r = [old EXCEPT !.status = "cancelled", !.version = old.version + 1]
    BY <1>1
  <2> HIDE DEF old
  <2>3. /\ r \in Reservation /\ r.status = "cancelled"
        /\ r.phone = old.phone /\ r.version = old.version + 1
    BY <2>1, <2>2 DEF Reservation
  <2> QED
    BY <2>1, <2>3 DEF old, Confirmed
<1>3. StaffIsFree([items EXCEPT ![i] = r]) /\ NoneTwice([items EXCEPT ![i] = r])
  BY <1>2 DEF StaffIsFree, NoneTwice, Books
<1> QED
  BY <1>2, <1>3 DEF Allowed

LEMMA ChangedIsAllowed ==
  ASSUME NEW items \in Books, StaffIsFree(items), NoneTwice(items),
         NEW i \in Ids, NEW phone \in Phones, NEW service \in Services \union {Same},
         NEW start \in Nat, NEW wanted, NEW clock,
         NEW r \in Changed(items, i, phone, service, start, wanted, clock)
  PROVE  Allowed(items, i, r)
<1>1. Confirmed(items[i]) /\ items[i] \in Reservation
  BY DEF Changed, Confirmed, Books
<1>2. PICK member \in Staff :
        /\ Chosen(Candidates(items, Kept(items[i], service), wanted, start, {i}), member)
        /\ r = [items[i] EXCEPT !.service = Kept(items[i], service), !.staff = member,
                                !.start = start, !.version = @ + 1]
  <2>1. PICK old \in {items[i]} :
          r \in { [old EXCEPT !.service = Kept(old, service), !.staff = member, !.start = start,
                             !.version = @ + 1] :
                   member \in { m \in Staff :
                     /\ Bookable(start, Kept(old, service), clock)
                     /\ Chosen(Candidates(items, Kept(old, service), wanted, start, {i}), m) } }
    BY DEF Changed
  <2> QED
    BY <2>1
<1>3. Kept(items[i], service) \in Services
  BY <1>1 DEF Kept, Reservation
<1>4. /\ r \in Reservation /\ r.version # 1
      /\ r.phone = items[i].phone /\ r.version = items[i].version + 1
      /\ r.staff = member /\ r.start = start /\ r.service = Kept(items[i], service)
      /\ items[i].status = "confirmed"
  <2> DEFINE old == items[i]
             kept == Kept(items[i], service)
  <2>1. old \in Reservation /\ old.status = "confirmed" /\ old.version + 1 \in Nat \ {0, 1}
    BY <1>1 DEF Reservation, Confirmed
  <2>2. r = [old EXCEPT !.service = kept, !.staff = member, !.start = start,
                        !.version = old.version + 1]
    BY <1>2
  <2>3. kept \in Services
    BY <1>3
  <2> HIDE DEF old, kept
  <2>4. /\ r \in Reservation /\ r.phone = old.phone /\ r.version = old.version + 1
        /\ r.staff = member /\ r.start = start /\ r.service = kept
    BY <2>1, <2>2, <2>3 DEF Reservation
  <2> QED
    BY <2>1, <2>4 DEF old, kept
<1>5. ~StaffHasOverlap(items, r.staff, r.start, Ends(r), {i})
  BY <1>2, <1>4, ChosenIsFree DEF Ends
<1>6. StaffIsFree([items EXCEPT ![i] = r])
  BY <1>4, <1>5, FreeStaffFits
<1>7. NoneTwice([items EXCEPT ![i] = r])
  BY <1>4 DEF NoneTwice, Books
<1> QED
  BY <1>4, <1>6, <1>7 DEF Allowed

-----------------------------------------------------------------------------
(* The book. *)

LEMMA BookStarts == Init => BookInv
BY NoReservationAssumption
DEF Init, BookInv, TypeOK, LockInv, DraftInv, StaffIsFree, NoneTwice, Confirmed,
    CommittedSurvives, Phase, NoDraft

\* A caller decides, under the lock, what to write.
LEMMA DecisionsKeep ==
  ASSUME BookInv, NEW c \in Callers, Enters(c), NEW i \in Ids, NEW r,
         Decide(c, i, r), Allowed(book, i, r)
  PROVE  BookInv'
<1> USE DEF BookInv
<1>1. /\ UNCHANGED <<disk, seen, now, told>>
      /\ pc' = [pc EXCEPT ![c] = "backup"] /\ lock' = c
      /\ draft' = [draft EXCEPT ![c] = [book EXCEPT ![i] = r]]
      /\ target' = [target EXCEPT ![c] = i]
  BY DEF Decide
<1>2. [book EXCEPT ![i] = r] \in Books
  BY DEF Books, TypeOK, Allowed
<1>3. TypeOK'
  BY <1>1, <1>2 DEF TypeOK, Phase, disk, Books
<1>4. LockInv'
  BY <1>1, BoundsAssumption DEF TypeOK, LockInv, Enters
<1>5. DraftInv'
  <2>1. \A d \in Callers : pc'[d] \in {"backup", "write", "reply"} => d = c
    BY <1>1, BoundsAssumption DEF TypeOK, LockInv, Enters
  <2>2. /\ pc'[c] = "backup" /\ target'[c] = i /\ book' = book
        /\ draft'[c] = [book EXCEPT ![i] = r] /\ draft'[c][i] = r
    BY <1>1 DEF TypeOK, disk
  <2>3. Allowed(book', target'[c], draft'[c][target'[c]])
    BY <2>2
  <2> QED
    BY <2>1, <2>2, <2>3 DEF DraftInv
<1> QED
  BY <1>1, <1>3, <1>4, <1>5 DEF disk, CommittedSurvives

\* The call is over, or was never begun; the disk stays as it is.
LEMMA LeavingKeeps ==
  ASSUME BookInv, NEW c \in Callers, Leave(c), UNCHANGED <<disk, now>>,
         \/ UNCHANGED told
         \/ pc[c] = "reply" /\ told' = [told EXCEPT ![target[c]] = draft[c][target[c]]]
  PROVE  BookInv'
<1> USE DEF BookInv
<1>1. UNCHANGED <<book, docVersion, saved, now>>
  BY DEF disk
<1>2. TypeOK'
  BY <1>1 DEF TypeOK, Leave, Phase, NoDraft, DraftInv
<1>3. LockInv' /\ DraftInv'
  BY <1>1 DEF TypeOK, LockInv, DraftInv, Leave
<1>4. CommittedSurvives'
  BY <1>1 DEF TypeOK, DraftInv, CommittedSurvives
<1> QED
  BY <1>1, <1>2, <1>3, <1>4

LEMMA ReplaceKeeps ==
  ASSUME BookInv, NEW c \in Callers, Replace(c, TRUE)
  PROVE  BookInv' /\ \A i \in Ids : Evolves(i)
<1> USE DEF BookInv
<1> DEFINE i == target[c]
<1>1. /\ pc[c] = "write" /\ pc' = [pc EXCEPT ![c] = "reply"]
      /\ book' = draft[c] /\ docVersion' = docVersion + 1
      /\ UNCHANGED <<lock, seen, draft, target, saved, now, told>>
  BY DEF Replace
<1>2. /\ i \in Ids /\ draft[c] = [book EXCEPT ![i] = draft[c][i]]
      /\ Allowed(book, i, draft[c][i]) /\ docVersion \in saved
  BY <1>1 DEF DraftInv
<1>3. /\ draft[c][i] \in Reservation /\ book' \in Books
      /\ book'[i] = draft[c][i] /\ \A j \in Ids \ {i} : book'[j] = book[j]
  BY <1>1, <1>2 DEF Allowed, Books, TypeOK
<1> HIDE DEF i
<1>4. TypeOK'
  BY <1>1, <1>3 DEF TypeOK, Phase, Books
<1>5. LockInv'
  BY <1>1 DEF LockInv, TypeOK
<1>6. DraftInv'
  <2> SUFFICES ASSUME NEW d \in Callers, pc'[d] \in {"backup", "write", "reply"}
               PROVE d = c /\ pc'[d] = "reply" /\ draft'[d] = book'
                     /\ target'[d] = i /\ book'[i] # NoReservation /\ i \in Ids
    BY DEF DraftInv
  <2> QED
    BY <1>1, <1>2, <1>3, NoReservationAssumption DEF LockInv, TypeOK, i
<1>7. StaffIsFree(book') /\ NoneTwice(book')
  BY <1>1, <1>2 DEF Allowed
<1>8. \A v \in Nat : v < docVersion' => v \in saved'
  <2> TAKE v \in Nat
  <2>1. v < docVersion + 1 => v < docVersion \/ v = docVersion
    BY DEF TypeOK
  <2> QED
    BY <1>1, <1>2, <2>1
<1>9. \A j \in Ids : Evolves(j)
  BY <1>2, <1>3, NoReservationAssumption DEF Evolves, Allowed
<1>10. CommittedSurvives'
  <2> SUFFICES ASSUME NEW j \in Ids, told[j] # NoReservation
               PROVE /\ book'[j] # NoReservation
                     /\ book'[j] = told[j] \/ book'[j].version > told[j].version
    BY <1>1 DEF CommittedSurvives
  <2>1. /\ book[j] # NoReservation /\ told[j] \in Reservation /\ book[j] \in Reservation
        /\ book[j] = told[j] \/ book[j].version > told[j].version
    BY DEF CommittedSurvives, TypeOK
  <2>2. CASE book'[j] = book[j]
    BY <2>1, <2>2
  <2>3. CASE book'[j] # book[j]
    BY <1>9, <2>1, <2>3 DEF Evolves, Reservation
  <2> QED
    BY <2>2, <2>3
<1> QED
  BY <1>4, <1>5, <1>6, <1>7, <1>8, <1>9, <1>10

LEMMA BookStep == BookInv /\ [Next]_vars => BookInv' /\ \A i \in Ids : Evolves(i)
<1> SUFFICES ASSUME BookInv, [Next]_vars PROVE BookInv' /\ \A i \in Ids : Evolves(i)
  OBVIOUS
<1> USE DEF BookInv
<1>0. UNCHANGED book => \A i \in Ids : Evolves(i)
  BY DEF Evolves
<1>1. ASSUME NEW c \in Callers, Enters(c), NEW i \in Ids, NEW r, Decide(c, i, r), Allowed(book, i, r)
      PROVE BookInv' /\ UNCHANGED book
  BY <1>1, DecisionsKeep DEF Decide, disk
<1>2. book \in Books
  BY DEF Books, TypeOK
<1>3. ASSUME NEW c \in Callers, NEW i \in Ids, NEW phone \in Phones, NEW service \in Services,
             NEW start \in Starts, NEW wanted \in Staff \union {Anyone},
             Create(c, i, phone, service, start, wanted)
      PROVE BookInv' /\ UNCHANGED book
  <2>1. PICK r \in Created(book, phone, service, start, wanted, seen[c]) : Decide(c, i, r)
    BY <1>3 DEF Create
  <2>2. Enters(c) /\ book[i] = NoReservation /\ start \in Nat
    BY <1>3, BoundsAssumption DEF Create
  <2>3. Allowed(book, i, r)
    BY <1>2, <2>2, CreatedIsAllowed
  <2> QED
    BY <1>1, <2>1, <2>2, <2>3
<1>4. ASSUME NEW c \in Callers, NEW i \in Ids, NEW phone \in Phones, Cancel(c, i, phone)
      PROVE BookInv' /\ UNCHANGED book
  <2>1. PICK r \in Cancelled(book, i, phone) : Decide(c, i, r)
    BY <1>4 DEF Cancel
  <2>2. Enters(c) /\ Allowed(book, i, r)
    BY <1>2, <1>4, CancelledIsAllowed DEF Cancel
  <2> QED
    BY <1>1, <2>1, <2>2
<1>5. ASSUME NEW c \in Callers, NEW i \in Ids, NEW phone \in Phones,
             NEW service \in Services \union {Same},
             NEW start \in Starts, NEW wanted \in Staff \union {Anyone},
             Modify(c, i, phone, service, start, wanted)
      PROVE BookInv' /\ UNCHANGED book
  <2>1. PICK r \in Changed(book, i, phone, service, start, wanted, now) : Decide(c, i, r)
    BY <1>5 DEF Modify
  <2>2. Enters(c) /\ start \in Nat
    BY <1>5, BoundsAssumption DEF Modify
  <2>3. Allowed(book, i, r)
    BY <1>2, <2>2, ChangedIsAllowed
  <2> QED
    BY <1>1, <2>1, <2>2, <2>3
<1>6. ASSUME NEW c \in Callers, Refuse(c) \/ Reply(c) \/ Crash(c)
      PROVE BookInv' /\ UNCHANGED book
  BY <1>6, LeavingKeeps DEF Refuse, Reply, Crash, disk
<1>7. ASSUME NEW c \in Callers, NEW ok \in BOOLEAN, BackUp(c, ok)
      PROVE BookInv' /\ UNCHANGED book
  <2>1. CASE ~ok
    BY <1>7, <2>1, LeavingKeeps DEF BackUp, disk
  <2>2. CASE ok
    <3>1. /\ pc[c] = "backup" /\ pc' = [pc EXCEPT ![c] = "write"]
          /\ saved' = saved \union {docVersion}
          /\ UNCHANGED <<book, docVersion, lock, seen, draft, target, now, told>>
      BY <1>7, <2>2 DEF BackUp
    <3>2. TypeOK' /\ LockInv'
      BY <3>1 DEF TypeOK, Phase, LockInv
    <3>3. DraftInv'
      BY <3>1 DEF TypeOK, DraftInv
    <3> QED
      BY <3>1, <3>2, <3>3 DEF CommittedSurvives
  <2> QED
    BY <2>1, <2>2
<1>8. ASSUME NEW c \in Callers, NEW ok \in BOOLEAN, Replace(c, ok)
      PROVE BookInv' /\ \A i \in Ids : Evolves(i)
  <2>1. CASE ok
    BY <1>8, <2>1, ReplaceKeeps
  <2>2. CASE ~ok
    BY <1>0, <1>8, <2>2, LeavingKeeps DEF Replace, disk
  <2> QED
    BY <2>1, <2>2
<1>9. ASSUME NEW c \in Callers, Call(c)
      PROVE BookInv' /\ UNCHANGED book
  BY <1>9 DEF Call, disk, TypeOK, Phase, LockInv, DraftInv, CommittedSurvives
<1>10. CASE Tick
  BY <1>0, <1>10 DEF Tick, disk, local, TypeOK, LockInv, DraftInv, CommittedSurvives
<1>11. CASE UNCHANGED vars
  BY <1>0, <1>11 DEF vars, disk, local, TypeOK, LockInv, DraftInv, CommittedSurvives
<1> QED
  BY <1>0, <1>3, <1>4, <1>5, <1>6, <1>7, <1>8, <1>9, <1>10, <1>11 DEF Next, Step

LEMMA BookAlways == Spec => []BookInv
<1>1. BookInv /\ [Next]_vars => BookInv'
  BY BookStep
<1> QED
  BY <1>1, BookStarts, PTL DEF Spec

\* The book never holds two customers of one member of staff at once, nor the
\* same new booking twice, and every document that was replaced is in a backup.
THEOREM BookSoundness == Spec => []BookIsSound
<1>1. BookInv => BookIsSound
  BY DEF BookInv, BookIsSound, NoDoubleBooking, NoDuplicateBooking, NoneTwice,
         ReplacedDocumentsAreSaved
<1> QED
  BY <1>1, BookAlways, PTL

\* What a caller was told is in the book, or a later version of it is.
THEOREM Durability == Spec => []CommittedSurvives
<1>1. BookInv => CommittedSurvives
  BY DEF BookInv
<1> QED
  BY <1>1, BookAlways, PTL

\* Reservations change only with their version, and not once cancelled.
THEOREM Evolution == Spec => ReservationsEvolve
<1>1. BookInv /\ [Next]_vars => [\A i \in Ids : Evolves(i)]_vars
  BY BookStep
<1> QED
  BY <1>1, BookAlways, PTL DEF Spec, ReservationsEvolve

=============================================================================
