----------------------------- MODULE SalonRules -----------------------------
(***************************************************************************)
(* The booking rules of domain/salon_booking.py, as pure operators over a  *)
(* book of reservations: which times are offered, who can take a booking,  *)
(* and what a creation, a cancellation and a change do to a reservation.   *)
(***************************************************************************)
EXTENDS Naturals, Sequences, FiniteSets

CONSTANTS
  Ids,        \* reservation identifiers uuid4 can still hand out
  Phones, Services, Staff,
  Duration,   \* minutes a service takes
  Skills,     \* Skills[m]: the services staff member m offers
  StaffList,  \* policy.staff: the order in which staff are tried
  SlotMinutes, DayMinutes, Opens, Closes, \* opening hours, from midnight
  HorizonDays, ClosedDays,
  NoReservation, Anyone, Same

ASSUME PolicyAssumption ==
  /\ Duration \in [Services -> Nat \ {0}]
  /\ Skills \in [Staff -> SUBSET Services]
  /\ StaffList \in Seq(Staff)
  /\ SlotMinutes \in Nat \ {0} /\ DayMinutes \in Nat \ {0}
  /\ Opens \in Nat /\ Closes \in Nat /\ Closes <= DayMinutes
  /\ HorizonDays \in Nat /\ ClosedDays \subseteq Nat
  /\ Anyone \notin Staff /\ Same \notin Services

Reservation ==
  [phone : Phones, service : Services, staff : Staff, start : Nat,
   status : {"confirmed", "cancelled"}, version : Nat \ {0}]

ASSUME NoReservationAssumption == NoReservation \notin Reservation

Confirmed(r) == r # NoReservation /\ r.status = "confirmed"
Ends(r) == r.start + Duration[r.service]

\* _validated_window: not past, within the horizon, on an open day, aligned,
\* and over before the salon closes.
Bookable(start, service, clock) ==
  LET day == start \div DayMinutes
      minute == start % DayMinutes
  IN /\ start >= clock
     /\ day <= clock \div DayMinutes + HorizonDays
     /\ day \notin ClosedDays
     /\ minute % SlotMinutes = 0
     /\ minute >= Opens
     /\ minute + Duration[service] <= Closes

\* Broken variant: two bookings overlap only if one contains the other's start
\* strictly.
StaffHasOverlapStrict(items, member, start, end, excluded) ==
  \E i \in Ids \ excluded :
    /\ Confirmed(items[i]) /\ items[i].staff = member
    /\ items[i].start < start /\ start < Ends(items[i])

\* _staff_has_overlap: intervals are half open.
StaffHasOverlap(items, member, start, end, excluded) ==
  \E i \in Ids \ excluded :
    /\ Confirmed(items[i]) /\ items[i].staff = member
    /\ start < Ends(items[i]) /\ end > items[i].start

\* The positions in StaffList that can take the booking; _choose_staff takes
\* the first of them.
Candidates(items, service, wanted, start, excluded) ==
  { n \in DOMAIN StaffList :
      /\ wanted \in {Anyone, StaffList[n]}
      /\ service \in Skills[StaffList[n]]
      /\ ~StaffHasOverlap(items, StaffList[n], start, start + Duration[service], excluded) }

Chosen(candidates, member) ==
  \E n \in candidates : (\A k \in candidates : n <= k) /\ member = StaffList[n]

Duplicate(items, phone, start) ==
  \E i \in Ids : Confirmed(items[i]) /\ items[i].phone = phone /\ items[i].start = start

-----------------------------------------------------------------------------
(* What a request may turn into: a set of reservation records, empty when    *)
(* the rules refuse it.                                                      *)

\* create: no second booking of this phone number for this time.
Created(items, phone, service, start, wanted, clock) ==
  { [phone |-> phone, service |-> service, staff |-> member, start |-> start,
     status |-> "confirmed", version |-> 1] :
      member \in { m \in Staff :
        /\ Bookable(start, service, clock)
        /\ ~Duplicate(items, phone, start)
        /\ Chosen(Candidates(items, service, wanted, start, {}), m) } }

\* cancel: the caller must know the phone number, and only once.
Cancelled(items, i, phone) ==
  { [r EXCEPT !.status = "cancelled", !.version = @ + 1] :
      r \in { r \in {items[i]} : Confirmed(r) /\ r.phone = phone } }

Kept(r, service) == IF service = Same THEN r.service ELSE service

\* Broken variant: a cancelled reservation can be moved, which revives it.
ChangedReviving(items, i, phone, service, start, wanted, clock) ==
  UNION { { [r EXCEPT !.service = Kept(r, service), !.staff = member, !.start = start,
                      !.version = @ + 1, !.status = "confirmed"] :
              member \in { m \in Staff :
                /\ Bookable(start, Kept(r, service), clock)
                /\ Chosen(Candidates(items, Kept(r, service), wanted, start, {i}), m) } } :
          r \in { r \in {items[i]} : r # NoReservation /\ r.phone = phone } }

\* modify: its own interval is excluded from the overlap test; the staff
\* member is chosen anew, even when the caller names none.
Changed(items, i, phone, service, start, wanted, clock) ==
  UNION { { [r EXCEPT !.service = Kept(r, service), !.staff = member, !.start = start,
                      !.version = @ + 1] :
              member \in { m \in Staff :
                /\ Bookable(start, Kept(r, service), clock)
                /\ Chosen(Candidates(items, Kept(r, service), wanted, start, {i}), m) } } :
          r \in { r \in {items[i]} : Confirmed(r) /\ r.phone = phone } }

-----------------------------------------------------------------------------
(* Properties of a book that the modules below share. *)

\* No staff member is booked for two customers at the same time.
StaffIsFree(items) ==
  \A i, j \in Ids : i # j /\ Confirmed(items[i]) /\ Confirmed(items[j]) =>
    items[i].staff # items[j].staff
      \/ Ends(items[i]) <= items[j].start \/ Ends(items[j]) <= items[i].start

=============================================================================
