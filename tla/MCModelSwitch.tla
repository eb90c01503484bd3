--------------------------- MODULE MCModelSwitch ---------------------------
(* Three requests and one voice turn for TLC. *)
EXTENDS ModelRouter

CONSTANT t1

ThreeRequests == 1..3
ThreeKeys == 1..3
OneTurn == {t1}

=============================================================================
