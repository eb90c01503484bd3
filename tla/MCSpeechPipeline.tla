-------------------------- MODULE MCSpeechPipeline --------------------------
(* One response for TLC. *)
EXTENDS SpeechPipeline
=============================================================================
