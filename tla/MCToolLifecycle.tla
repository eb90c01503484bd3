--------------------------- MODULE MCToolLifecycle ---------------------------
(* Small instances of ToolLifecycle for TLC. *)
EXTENDS ToolLifecycle, TLC

CONSTANTS s1, s2, e1, e2, e3

OneSession == {s1}
TwoSessions == {s1, s2}
TwoExecutions == {e1, e2}
ThreeExecutions == {e1, e2, e3}

\* Executions and sessions are uuid4 values: which one is used is immaterial.
Symmetry == Permutations(Executions) \union Permutations(Sessions)

=============================================================================
