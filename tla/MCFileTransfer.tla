--------------------------- MODULE MCFileTransfer ---------------------------
(* Two files in chunks, where one may be in progress at a time, and a small *)
(* one; the receiver wants to be asked about one of each kind.              *)
EXTENDS FileTransfer
=============================================================================
