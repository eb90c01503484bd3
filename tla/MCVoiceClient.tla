--------------------------- MODULE MCVoiceClient ---------------------------
(* Two recordings and their responses for TLC. *)
EXTENDS VoiceClient

=============================================================================
