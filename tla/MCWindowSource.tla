--------------------------- MODULE MCWindowSource ---------------------------
(* One window and one frame, which may be encoded, unacked or lost while a  *)
(* region is delayed behind it; two expire timers and a soft expire limit   *)
(* of two, so that timers of an earlier region meet a later one.            *)
EXTENDS WindowSource
=============================================================================
