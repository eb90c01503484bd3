---------------------------- MODULE MCSalonCalls ----------------------------
(* One call and a salon with one member of staff for TLC. *)
EXTENDS SalonCalls, TLC

CONSTANTS s1, i1, i2, p1, p2, cut, ann, kim

OneSession == {s1}
TwoIds == {i1, i2}
TwoPhones == {p1, p2}
OnePhone == {p1}
OneName == {kim}
OneService == {cut}
OneStaff == {ann}
DurationTable == cut :> 1
SkillTable == ann :> {cut}
StaffOrder == <<ann>>
SecondDay == {1}
TwoStarts == 0..1

Symmetry == Permutations(Ids) \union Permutations(Phones)

=============================================================================
