---------------------------- MODULE MCOutputPath ----------------------------
(* Two packets and the last one: one being written, one in the write queue  *)
(* and one that has to wait for its place there.                            *)
EXTENDS OutputPath
=============================================================================
