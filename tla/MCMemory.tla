------------------------------ MODULE MCMemory ------------------------------
(***************************************************************************)
(* An instance of Memory for TLC: eight addresses, so that the vectors,    *)
(* the wrap and the bottom of memory are all within reach of one another.  *)
(***************************************************************************)
EXTENDS Memory

SmallEntries == {<<0, 1>>, <<1, 0>>}
=============================================================================
