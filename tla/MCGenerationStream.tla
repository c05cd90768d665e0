-------------------------- MODULE MCGenerationStream --------------------------
(***************************************************************************)
(* A tick of 7.5 seconds: heartbeat after 2, idle timeout after 6, a       *)
(* working connection takes up to 1, and the event loop is blocked for up  *)
(* to 2.                                                                   *)
(***************************************************************************)
EXTENDS GenerationStream
=============================================================================
