-------------------------- MODULE SessionDelivery --------------------------
(***************************************************************************)
(* What a session promises its client: the events that the server records  *)
(* reach the client in their order, none twice, and none is left out but   *)
(* those the protocol does not replay.  A session may be forgotten and     *)
(* begun anew only while its client has seen nothing of it.                *)
(***************************************************************************)
EXTENDS Naturals, Integers, Sequences

VARIABLES
  log,     \* the events recorded, in the order of their sequence numbers
  cursor   \* the number of the last event the client accepted, or -1

Kinds == {"kept", "transient", "oversized"}
Authors == {"connection", "orphan"}
Events == [kind : Kinds, by : Authors]

\* Streamed text and audio are not replayed.  An orphan is a task of an
\* earlier connection, or a broadcast to it, that outlived it.
MayBeMissed(e) == e.kind = "transient" \/ e.by = "orphan"

Init == log = <<>> /\ cursor = -1

Record(e) == log' = Append(log, e) /\ UNCHANGED cursor

\* Event n is the n+1st of the log.
Deliver(n) ==
  /\ \A k \in (cursor + 1)..(n - 1) : MayBeMissed(log[k + 1])
  /\ cursor' = n
  /\ UNCHANGED log

Renew == cursor = -1 /\ log' = <<>> /\ UNCHANGED cursor

Next ==
  \/ \E e \in Events : Record(e)
  \/ \E n \in (cursor + 1)..(Len(log) - 1) : Deliver(n)
  \/ Renew

Spec == Init /\ [][Next]_<<log, cursor>>

=============================================================================
