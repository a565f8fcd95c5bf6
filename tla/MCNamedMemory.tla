---------------------------- MODULE MCNamedMemory ----------------------------
(***************************************************************************)
(* Instances of NamedMemory for TLC.  Pages have 4 bytes and size_t has 4  *)
(* bits, so that a request of 15 bytes wraps round to an empty mapping.    *)
(***************************************************************************)
EXTENDS NamedMemory, TLC

CONSTANTS p1, p2, p3, o1, o2, o3, o4, long, prefix

(* A name that is longer than 255 bytes is unlinked by its prefix.         *)
MCCopy == [n \in Names |-> IF n = long THEN prefix ELSE n]

MCSymmetry == Permutations(Procs) \cup Permutations(Objects)
=============================================================================
