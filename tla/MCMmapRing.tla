----------------------------- MODULE MCMmapRing -----------------------------
(* A ring of 12 bytes, large enough for every branch of mmap_write:         *)
(* write ahead, start again at the beginning, split around the end.         *)
EXTENDS MmapRing

MCMmapSize == HEADER + 12
MCSizes == {2, 3, 7}
=============================================================================
