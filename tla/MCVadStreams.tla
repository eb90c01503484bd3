---------------------------- MODULE MCVadStreams ----------------------------
(* Two turns of one session, and a worker with room for one of them, for TLC. *)
EXTENDS VadStreams

=============================================================================
