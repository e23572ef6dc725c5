--------------------------- MODULE MCWritePipeline ---------------------------
(***************************************************************************)
(* Instances of WritePipeline for TLC.                                      *)
(***************************************************************************)
EXTENDS WritePipeline

\* An account, and the identity of nobody signed in.
CONSTANTS a, nobody
=============================================================================
