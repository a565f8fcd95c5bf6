------------------------------ MODULE MCKernel ------------------------------
(* A small kernel: one symbol without a name, two of one name, one that is  *)
(* the last, and a dynamic table with an entry behind its end.              *)
EXTENDS Kernel, TLC

MCSymbols  == <<[name |-> "", value |-> 11], [name |-> "x", value |-> 12],
                [name |-> "x", value |-> 13], [name |-> "z", value |-> 14]>>
MCDynamics == <<[tag |-> "HASH", pointer |-> 7], [tag |-> "STRTAB", pointer |-> 24],
                [tag |-> "SYMTAB", pointer |-> 20], [tag |-> "NULL", pointer |-> 0],
                [tag |-> "STRTAB", pointer |-> 90]>>

MCSymmetry == Permutations(Threads)
=============================================================================
