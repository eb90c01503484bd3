------------------------- MODULE MCSessionProtocol -------------------------
(* One session for TLC. *)
EXTENDS SessionProtocol

=============================================================================
