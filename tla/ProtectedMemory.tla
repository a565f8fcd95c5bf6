--------------------------- MODULE ProtectedMemory ---------------------------
(***************************************************************************)
(* source/ps4/protectedmemory.c: one object, mapped once to be written and *)
(* once to be executed.  A step is one system call with the local code     *)
(* around it.  The results of the JIT calls are ignored: a call that fails *)
(* leaves its handle uninitialised, so that it may hold any number.        *)
(* Meanwhile other threads open and close descriptors of their own.        *)
(***************************************************************************)
EXTENDS Integers

CONSTANTS
  Fds,         \* descriptors of the process, 0 among them
  Garbage,     \* values an uninitialised handle may have
  PageSize,
  SizeT,       \* 2^64: arithmetic on sizes is modulo this
  Unset        \* no descriptor, no mapping

VARIABLES
  faults,      \* may calls fail, and do other threads open and close descriptors?
  fds,         \* external: what a descriptor is open for, "jit" or "other", or Unset
  others,      \* external: descriptors that other threads opened and did not close
  label,       \* "none": no memory; "ready": Create returned one; else in Create
  size,        \* memory->size
  views,       \* memory->writable and memory->executable, as what is mapped there
  handles,     \* executableHandle and writableHandle
  unset,       \* handles that no call has set
  confused     \* has an unset handle named a descriptor that was open?

pmVars == <<faults, fds, others, label, size, views, handles, unset, confused>>

Both(x) == [writable |-> x, executable |-> x]

ProtectedInit ==
  /\ others \in IF faults THEN SUBSET {0, 1} ELSE {{0, 1}}
  /\ fds = [f \in Fds |-> IF f \in others THEN "other" ELSE Unset]
  /\ label = "none" /\ size = 0
  /\ views = Both(Unset) /\ handles = Both(Unset) /\ unset = {} /\ confused = FALSE

Free == {f \in Fds : fds[f] = Unset}
Open(f) == f \in Fds /\ fds[f] # Unset
Lowest == CHOOSE f \in Free : \A g \in Free : f <= g

(* Using a handle that no call has set.                                    *)
Use(which) == confused' = (confused \/ (which \in unset /\ Open(handles[which])))

(***************************************************************************)
(* ps4ProtectedMemoryCreate: NULL for size 0 or without a block, else the  *)
(* rounded size and on to the calls.  A full page is added to a size that  *)
(* is a multiple of the page already.                                      *)
(***************************************************************************)
(* Variant: rounds down to the page.                                       *)
RoundedDown(bytes) == (bytes \div PageSize) * PageSize

Rounded(bytes) == ((bytes \div PageSize + 1) * PageSize) % SizeT

Create(bytes) ==
  /\ label = "none"
  /\ \/ (bytes = 0 \/ faults) /\ UNCHANGED <<label, size>>
     \/ bytes # 0 /\ label' = "create" /\ size' = Rounded(bytes)
  /\ unset' = IF label' = "none" THEN {} ELSE {"writable", "executable"}
  /\ UNCHANGED <<faults, fds, others, views, handles, confused>>

(* A JIT call: a new descriptor for the object, or an unset handle; either *)
(* way the code goes by the value, for which 0 is a failure.               *)
JitCall(which, works, next, failed) ==
  /\ \/ /\ works /\ Free # {}
        /\ fds' = [fds EXCEPT ![Lowest] = "jit"]
        /\ handles' = [handles EXCEPT ![which] = Lowest]
        /\ unset' = unset \ {which}
     \/ /\ faults
        /\ \E g \in Garbage : handles' = [handles EXCEPT ![which] = g]
        /\ UNCHANGED <<fds, unset>>
  /\ label' = IF handles'[which] = 0 THEN failed ELSE next
  /\ UNCHANGED <<faults, others, size, views>>

JitCreateSharedMemory ==
  label = "create" /\ JitCall("executable", TRUE, "alias", "freeandreturn") /\ UNCHANGED confused

JitCreateAlias ==
  /\ label = "alias"
  /\ Use("executable")
  /\ JitCall("writable", Open(handles.executable) /\ fds[handles.executable] = "jit",
             "mapExecutable", "closee")

(* mmap of a descriptor: fails for one that is not open, or for no bytes.  *)
Map(which, next, failed) ==
  /\ \/ /\ Open(handles[which]) /\ size # 0
        /\ views' = [views EXCEPT ![which] = fds[handles[which]]]
        /\ label' = next
     \/ (faults \/ size = 0) /\ label' = failed /\ UNCHANGED views
  /\ Use(which)
  /\ UNCHANGED <<faults, fds, others, size, handles, unset>>

(* Variant: the second mapping is not checked.                             *)
MapWritableUnchecked == label = "mapWritable" /\ Map("writable", "closeFirst", "closeFirst")

MapExecutable == label = "mapExecutable" /\ Map("executable", "mapWritable", "closew")
MapWritable == label = "mapWritable" /\ Map("writable", "closeFirst", "munmape")

(* Locals end with the call.                                               *)
EndLocals == handles' = Both(Unset) /\ unset' = {}

Close(which, next) ==
  /\ fds' = IF handles[which] \in Fds THEN [fds EXCEPT ![handles[which]] = Unset] ELSE fds
  /\ Use(which)
  /\ label' = next
  /\ IF next = "ready" THEN EndLocals ELSE UNCHANGED <<handles, unset>>
  /\ UNCHANGED <<faults, others, size, views>>

CloseExecutable == label = "closeFirst" /\ Close("executable", "closeSecond")
CloseWritable == label = "closeSecond" /\ Close("writable", "ready")

(* Variant: the cleanup starts behind the mapping.                         *)
MunmapSkipped ==
  /\ label = "munmape" /\ label' = "closew"
  /\ UNCHANGED <<faults, fds, others, size, views, handles, unset, confused>>

(* Variant: both handles are closed here, and one of them again at closee. *)
CloseBoth ==
  /\ label = "closew" /\ label' = "closee"
  /\ fds' = [f \in Fds |-> IF f \in {handles.writable, handles.executable} THEN Unset ELSE fds[f]]
  /\ Use("writable")
  /\ UNCHANGED <<faults, others, size, views, handles, unset>>

(* The cleanup labels, each falling through to the next.                   *)
Munmape ==
  /\ label = "munmape" /\ label' = "closew"
  /\ views' = [views EXCEPT !.executable = Unset]
  /\ UNCHANGED <<faults, fds, others, size, handles, unset, confused>>
Closew == label = "closew" /\ Close("writable", "closee")
Closee == label = "closee" /\ Close("executable", "freeandreturn")

(* The block is freed.                                                     *)
Freeandreturn ==
  /\ label = "freeandreturn" /\ label' = "none"
  /\ size' = 0 /\ EndLocals
  /\ UNCHANGED <<faults, fds, others, views, confused>>

(***************************************************************************)
(* ps4ProtectedMemoryDestroy, of a memory that Create returned.            *)
(***************************************************************************)
Destroy ==
  /\ label = "ready" /\ label' = "none"
  /\ views' = Both(Unset) /\ size' = 0
  /\ UNCHANGED <<faults, fds, others, handles, unset, confused>>

(* External: another thread, while this one is in Create.                  *)
OtherThread ==
  /\ faults /\ label \notin {"none", "ready"}
  /\ \/ /\ Free # {}
        /\ fds' = [fds EXCEPT ![Lowest] = "other"]
        /\ others' = others \cup {Lowest}
     \/ \E f \in others : fds' = [fds EXCEPT ![f] = Unset] /\ others' = others \ {f}
  /\ UNCHANGED <<faults, label, size, views, handles, unset, confused>>

ProtectedStep ==
  \/ JitCreateSharedMemory \/ JitCreateAlias \/ MapExecutable \/ MapWritable
  \/ CloseExecutable \/ CloseWritable
  \/ Munmape \/ Closew \/ Closee \/ Freeandreturn
  \/ OtherThread
=============================================================================
