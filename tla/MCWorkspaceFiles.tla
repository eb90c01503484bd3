-------------------------- MODULE MCWorkspaceFiles --------------------------
(* Two texts, a binary, and three executions for TLC. *)
EXTENDS WorkspaceFiles, TLC

CONSTANTS t1, t2, b1, e1, e2, e3

TwoTexts == {t1, t2}
OneBinary == {b1}
ThreeExecutions == {e1, e2, e3}
Symmetry == Permutations(TwoTexts) \union Permutations(ThreeExecutions)

=============================================================================
