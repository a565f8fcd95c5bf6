----------------------------- MODULE NamedMemory -----------------------------
(***************************************************************************)
(* source/ps4/namedmemory.c: memory that several processes open by name,   *)
(* on top of POSIX shared memory objects.  A step is one system call of one*)
(* process with the local code around it.  A process has one memory; it may*)
(* crash at any point, which the kernel answers by dropping its handle and *)
(* its mapping, and start over.                                            *)
(***************************************************************************)
EXTENDS Integers

CONSTANTS
  Procs, Names,
  Objects,     \* external: shared memory objects
  Copy,        \* the copy of a name kept for shm_unlink (cut after 255 bytes)
  Sizes,       \* sizes the program asks for, in bytes
  PageSize,
  SizeRange,   \* 2^w: size_t arithmetic is modulo this
  Faults,      \* calls that may fail: "malloc", "shm_open", "fstat", "ftruncate", "mmap"
  SamePages,   \* do concurrent opens of a name ask for the same number of pages?
  FirstSizes,  \* sizes of the objects other programs left behind
  NONE

ASSUME ConstantTypes ==
  /\ NONE \notin Objects
  /\ PageSize \in Nat \ {0}
  /\ SizeRange \in Nat \ {0}
  /\ Sizes \subseteq Nat
  /\ FirstSizes \subseteq Nat
  /\ Copy \in [Names -> Names]
  /\ SamePages \in BOOLEAN

VARIABLES
  bound,     \* external: the object a name denotes
  length,    \* external: the size of each object, 0 if it is not in use
  pc,        \* per process: "none" outside, "usable" between Open and Close
  handle,    \* per process: the open file descriptor, as the object it is for
  fileSize,  \* per process: st_size as fstat saw it
  memory,    \* per process: the struct; `want` is Open's argument, `object` the mapping
  blocks     \* per process: heap blocks it owns

vars == <<bound, length, pc, handle, fileSize, memory, blocks>>

NoMemory(n) == [name |-> n, want |-> 0, size |-> 0, object |-> NONE]
AnyName     == CHOOSE n \in Names : TRUE

Init ==
  /\ bound \in [Names -> Objects \cup {NONE}]
  /\ \A m, n \in Names : bound[m] = bound[n] /\ bound[m] # NONE => m = n
  /\ length \in [Objects -> FirstSizes \cup {0}]
  /\ \A o \in Objects : (\A n \in Names : bound[n] # o) => length[o] = 0
  /\ pc       = [p \in Procs |-> "none"]
  /\ handle   = [p \in Procs |-> NONE]
  /\ fileSize = [p \in Procs |-> 0]
  /\ memory   = [p \in Procs |-> NoMemory(AnyName)]
  /\ blocks   = [p \in Procs |-> {}]

(***************************************************************************)
(* The kernel: an object lives while a name, a handle or a mapping leads   *)
(* to it.                                                                  *)
(***************************************************************************)
InUse == {o \in Objects : \/ \E n \in Names : bound[n] = o
                          \/ \E p \in Procs : handle[p] = o \/ memory[p].object = o}

Collect == length' = [o \in Objects |-> IF o \in InUse' THEN length[o] ELSE 0]

Goto(p, from, to) == pc[p] = from /\ pc' = [pc EXCEPT ![p] = to]

Fails(call) == IF call \in Faults THEN BOOLEAN ELSE {FALSE}

Return(p) ==
  /\ fileSize' = [fileSize EXCEPT ![p] = 0]
  /\ memory'   = [memory EXCEPT ![p] = NoMemory(AnyName)]

(***************************************************************************)
(* ps4NamedMemoryOpen                                                      *)
(***************************************************************************)
(* The size of the pages that hold so many bytes.                          *)
RoundUp(size) == ((((size - 1) % SizeRange) \div PageSize + 1) * PageSize) % SizeRange

(* Opens in progress, and what a program that keeps to SamePages may add.  *)
Opening == {p \in Procs : pc[p] \notin {"none", "usable", "unlinked"}}

Pages(size) == IF size = 0 THEN 0 ELSE RoundUp(size)

MayOpen(n, size) ==
  SamePages => \A p \in Opening : memory[p].name = n => Pages(memory[p].want) = Pages(size)

Open(p) ==
  /\ \E n \in Names, s \in Sizes, failed \in Fails("malloc") :
       /\ MayOpen(n, s)
       /\ IF failed
          THEN Goto(p, "none", "none") /\ UNCHANGED <<memory, blocks>>
          ELSE /\ Goto(p, "none", "path")
               /\ memory' = [memory EXCEPT ![p] = [NoMemory(n) EXCEPT !.want = s]]
               /\ blocks' = [blocks EXCEPT ![p] = {"memory"}]
  /\ UNCHANGED <<bound, length, handle, fileSize>>

MallocPath(p) ==
  \E failed \in Fails("malloc") :
    IF failed
    THEN /\ Goto(p, "path", "none")
         /\ blocks' = [blocks EXCEPT ![p] = @ \ {"memory"}]
         /\ Return(p)
         /\ UNCHANGED <<bound, length, handle>>
    ELSE /\ Goto(p, "path", "shm_open")
         /\ blocks' = [blocks EXCEPT ![p] = @ \cup {"path"}]
         /\ UNCHANGED <<bound, length, handle, fileSize, memory>>

(* Variant: the failed open frees the struct, but not the path.            *)
ShmOpenLeaks(p) ==
  /\ "shm_open" \in Faults
  /\ Goto(p, "shm_open", "none")
  /\ blocks' = [blocks EXCEPT ![p] = @ \ {"memory"}]
  /\ Return(p)
  /\ UNCHANGED <<bound, length, handle>>

(* Variant: shm_open with O_TRUNC.                                         *)
ShmOpenTruncates(p) ==
  /\ Goto(p, "shm_open", "fstat")
  /\ \E o \in Objects :
       /\ IF bound[memory[p].name] = NONE THEN o \notin InUse ELSE o = bound[memory[p].name]
       /\ bound'  = [bound EXCEPT ![memory[p].name] = o]
       /\ handle' = [handle EXCEPT ![p] = o]
       /\ length' = [length EXCEPT ![o] = 0]
  /\ UNCHANGED <<fileSize, memory, blocks>>

ShmOpen(p) ==
  LET n == memory[p].name
  IN  \/ /\ "shm_open" \in Faults
         /\ Goto(p, "shm_open", "none")
         /\ blocks' = [blocks EXCEPT ![p] = @ \ {"path", "memory"}]
         /\ Return(p)
         /\ UNCHANGED <<bound, length, handle>>
      \/ /\ Goto(p, "shm_open", "fstat")
         /\ \E o \in Objects :
              /\ IF bound[n] = NONE THEN o \notin InUse ELSE o = bound[n]
              /\ bound'  = [bound EXCEPT ![n] = o]
              /\ handle' = [handle EXCEPT ![p] = o]
         /\ UNCHANGED <<length, fileSize, memory, blocks>>

(* Variant: an object of any length is taken to be long enough.            *)
FstatTrusts(p) ==
  LET size == IF memory[p].want > 0 THEN RoundUp(memory[p].want) ELSE PageSize
  IN  /\ Goto(p, "fstat", IF length[handle[p]] = 0 THEN "ftruncate" ELSE "mmap")
      /\ fileSize' = [fileSize EXCEPT ![p] = length[handle[p]]]
      /\ memory'   = [memory EXCEPT ![p].size = size]
      /\ UNCHANGED <<bound, length, handle, blocks>>

Fstat(p) ==
  \E failed \in Fails("fstat") :
    LET found == IF failed THEN 0 ELSE length[handle[p]]
        size  == IF memory[p].want > 0 THEN RoundUp(memory[p].want)
                 ELSE IF found > 0 THEN RoundUp(found) ELSE PageSize
    IN  /\ pc[p] = "fstat"
        /\ Goto(p, "fstat", IF size > found THEN "ftruncate" ELSE "mmap")
        /\ fileSize' = [fileSize EXCEPT ![p] = found]
        /\ memory'   = [memory EXCEPT ![p].size = size]
        /\ UNCHANGED <<bound, length, handle, blocks>>

(* The object may have grown since fstat: then this one cuts it.           *)
Ftruncate(p) ==
  \E failed \in Fails("ftruncate") :
    /\ Goto(p, "ftruncate", IF failed THEN "shmopen" ELSE "mmap")
    /\ length' = IF failed THEN length ELSE [length EXCEPT ![handle[p]] = memory[p].size]
    /\ UNCHANGED <<bound, handle, fileSize, memory, blocks>>

(* mmap refuses an empty mapping.                                          *)
Mmap(p) ==
  \E failed \in Fails("mmap") :
    LET ok == ~failed /\ memory[p].size > 0
    IN  /\ Goto(p, "mmap", IF ok THEN "close" ELSE "shmopen")
        /\ memory' = IF ok THEN [memory EXCEPT ![p].object = handle[p]] ELSE memory
        /\ UNCHANGED <<bound, length, handle, fileSize, blocks>>

CloseHandle(p) ==
  /\ Goto(p, "close", "usable")
  /\ handle'   = [handle EXCEPT ![p] = NONE]
  /\ fileSize' = [fileSize EXCEPT ![p] = 0]
  /\ UNCHANGED <<bound, length, memory, blocks>>

(* The label shmopen of the cleanup chain, then the ones after it.         *)
CleanupClose(p) ==
  /\ Goto(p, "shmopen", "shm_unlink")
  /\ handle' = [handle EXCEPT ![p] = NONE]
  /\ UNCHANGED <<bound, fileSize, memory, blocks>>
  /\ Collect

CleanupUnlink(p) ==
  /\ Goto(p, "shm_unlink", "none")
  /\ bound'  = [bound EXCEPT ![Copy[memory[p].name]] = NONE]
  /\ blocks' = [blocks EXCEPT ![p] = @ \ {"path", "memory"}]
  /\ Return(p)
  /\ UNCHANGED handle
  /\ Collect

(***************************************************************************)
(* ps4NamedMemoryClose, ps4NamedMemoryUnlink, and the end of a process.    *)
(***************************************************************************)
(* Variant: closing takes the name away, as a line commented out would.    *)
CloseUnlinks(p) ==
  /\ \E from \in {"usable", "unlinked"} : Goto(p, from, "none")
  /\ bound'  = [bound EXCEPT ![Copy[memory[p].name]] = NONE]
  /\ blocks' = [blocks EXCEPT ![p] = @ \ {"path", "memory"}]
  /\ Return(p)
  /\ UNCHANGED handle
  /\ Collect

Close(p) ==
  /\ \E from \in {"usable", "unlinked"} : Goto(p, from, "none")
  /\ blocks' = [blocks EXCEPT ![p] = @ \ {"path", "memory"}]
  /\ Return(p)
  /\ UNCHANGED <<bound, handle>>
  /\ Collect

Unlink(p) ==
  /\ Goto(p, "usable", "unlinked")
  /\ bound' = [bound EXCEPT ![Copy[memory[p].name]] = NONE]
  /\ UNCHANGED <<handle, fileSize, memory, blocks>>
  /\ Collect

Crash(p) ==
  /\ pc[p] # "none" /\ pc' = [pc EXCEPT ![p] = "none"]
  /\ handle' = [handle EXCEPT ![p] = NONE]
  /\ blocks' = [blocks EXCEPT ![p] = {}]
  /\ Return(p)
  /\ UNCHANGED bound
  /\ Collect

Next ==
  \E p \in Procs :
    \/ Open(p) \/ MallocPath(p) \/ ShmOpen(p) \/ Fstat(p) \/ Ftruncate(p) \/ Mmap(p)
    \/ CloseHandle(p) \/ CleanupClose(p) \/ CleanupUnlink(p)
    \/ Close(p) \/ Unlink(p) \/ Crash(p)

Spec == Init /\ [][Next]_vars

-----------------------------------------------------------------------------
(* Every byte of a mapping that ps4NamedMemoryOpen has handed out is backed*)
(* by the object: touching it does not fault, whatever other processes     *)
(* open, close, unlink or crash meanwhile.                                 *)
MappingBacked ==
  \A p \in Procs : memory[p].object # NONE => memory[p].size <= length[memory[p].object]

(* No path through ps4NamedMemoryOpen, Close and Unlink leaves a block, a  *)
(* descriptor or a mapping behind, and a usable memory holds no descriptor.*)
NoLeak ==
  \A p \in Procs :
    /\ pc[p] = "none" => blocks[p] = {} /\ handle[p] = NONE /\ memory[p].object = NONE
    /\ pc[p] = "usable" => blocks[p] = {"memory", "path"} /\ handle[p] = NONE

(* Named memory implements the store of growing segments: what it maps     *)
(* stays mapped and only grows, and a name and what it denotes outlive the *)
(* closing and the crash of its users.  The store lets a name be removed at*)
(* any time: nothing is said about whose unlink, or whose failed open, took*)
(* it away.                                                                *)
Store == INSTANCE SharedStore WITH
  Users <- Procs, Segments <- Objects, Lengths <- 0 .. SizeRange, store <- bound,
  view  <- [p \in Procs |->
              [segment |-> IF memory[p].object # NONE THEN memory[p].object ELSE handle[p],
               size    |-> IF memory[p].object # NONE THEN memory[p].size ELSE 0]]
ImplementsStore == Store!Spec
=============================================================================
