--------------------------- MODULE MCEncodeQueue ----------------------------
(* Windows queue work when they are cleaned up, mmap registers a call for   *)
(* the end, encoding too; two threads race to start the encode thread.      *)
EXTENDS EncodeQueue

MCCallers == {"ui", "net"}
MCUI == "ui"
MCSubsystems == {"window", "mmap", "encoding"}
MCWorkOf == {"window"}
MCAtEndOf == {"mmap", "encoding"}
=============================================================================
