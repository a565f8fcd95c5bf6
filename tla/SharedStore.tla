----------------------------- MODULE SharedStore -----------------------------
(***************************************************************************)
(* What named memory promises its users ("stable webbrowser reopen and ipc *)
(* memory", source/ps4/namedmemory.c:21): a store of named segments that   *)
(* outlive the processes using them.  A segment only ever grows, so a view *)
(* that was backed when it was made stays backed until its owner drops it. *)
(***************************************************************************)
EXTENDS Integers

CONSTANTS Users, Names, Segments, Lengths, NONE

VARIABLES
  store,   \* segment each name denotes, or NONE
  length,  \* length of each segment, 0 if it is not in use
  view     \* segment a user holds and how much of it is mapped (0: nothing yet)

vars == <<store, length, view>>

NoView == [segment |-> NONE, size |-> 0]

Init ==
  /\ store \in [Names -> Segments \cup {NONE}]
  /\ length \in [Segments -> Lengths]
  /\ \A m, n \in Names : store[m] = store[n] /\ store[m] # NONE => m = n
  /\ view = [u \in Users |-> NoView]

InUse == {s \in Segments : (\E n \in Names : store[n] = s) \/ \E u \in Users : view[u].segment = s}

(* Segments no longer in use go away with their content.                   *)
Collect == length' = [s \in Segments |-> IF s \in InUse' THEN length[s] ELSE 0]

(* A user finds the segment of a name, or makes an empty one.              *)
Hold(u, n) ==
  /\ view[u] = NoView
  /\ \E s \in Segments :
       /\ IF store[n] = NONE THEN s \notin InUse ELSE s = store[n]
       /\ store' = [store EXCEPT ![n] = s]
       /\ view'  = [view EXCEPT ![u] = [segment |-> s, size |-> 0]]
       /\ length' = IF store[n] = NONE THEN [length EXCEPT ![s] = 0] ELSE length

Grow(u) ==
  /\ view[u] # NoView
  /\ \E l \in Lengths : /\ l > length[view[u].segment]
                        /\ length' = [length EXCEPT ![view[u].segment] = l]
  /\ UNCHANGED <<store, view>>

Attach(u) ==
  /\ view[u] # NoView /\ view[u].size = 0
  /\ \E l \in Lengths \ {0} : /\ l <= length[view[u].segment]
                              /\ view' = [view EXCEPT ![u].size = l]
  /\ UNCHANGED <<store, length>>

(* A user drops its view, or dies.                                         *)
Detach(u) ==
  /\ view[u] # NoView
  /\ view' = [view EXCEPT ![u] = NoView]
  /\ UNCHANGED store
  /\ Collect

Remove(n) ==
  /\ store' = [store EXCEPT ![n] = NONE]
  /\ UNCHANGED view
  /\ Collect

Next ==
  \/ \E u \in Users : \/ \E n \in Names : Hold(u, n)
                      \/ Grow(u) \/ Attach(u) \/ Detach(u)
  \/ \E n \in Names : Remove(n)

Spec == Init /\ [][Next]_vars
=============================================================================
