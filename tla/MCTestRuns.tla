------------------------- MODULE MCTestRuns -------------------------
(* Small instances of TestRuns for TLC. *)
EXTENDS TestRuns, TLC

CONSTANTS t1, t2, original, rekeyed, conflicting, k1, k2, x1, x2

TwoThreads == {t1, t2}

\* One command, another one that reuses its execution id under a second key,
\* and one that reuses its key for a second execution.
ThreeCommands == {original, rekeyed, conflicting}
OneTest == {original}
TwoKeys == {k1, k2}
TwoExecutionIds == {x1, x2}
KeyTable == (original :> k1) @@ (rekeyed :> k2) @@ (conflicting :> k1)
ExecutionTable == (original :> x1) @@ (rekeyed :> x1) @@ (conflicting :> x2)
RiskTable == (original :> 1) @@ (rekeyed :> 0) @@ (conflicting :> 0)

Symmetry == Permutations(Threads)

=============================================================================
