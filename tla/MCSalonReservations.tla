------------------------ MODULE MCSalonReservations ------------------------
(* A salon with two members of staff and a two-hour day for TLC. *)
EXTENDS SalonReservations, TLC

CONSTANTS c1, c2, i1, i2, i3, p1, p2, cut, color, ann, bob

TwoCallers == {c1, c2}
TwoIds == {i1, i2}
ThreeIds == {i1, i2, i3}
TwoPhones == {p1, p2}
BothServices == {cut, color}
BothStaff == {ann, bob}

\* Half-hour units: cutting takes one, colouring two; only ann colours.
DurationTable == (cut :> 1) @@ (color :> 2)
SkillTable == (ann :> {cut, color}) @@ (bob :> {cut})
StaffOrder == <<ann, bob>>
NoDays == {}
WholeDay == 0..2
SecondDay == {1}

Symmetry == Permutations(Callers) \union Permutations(Ids) \union Permutations(Phones)

=============================================================================
