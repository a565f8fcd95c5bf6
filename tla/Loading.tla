------------------------------- MODULE Loading -------------------------------
(***************************************************************************)
(* A program that loads images the way the library is made for: elfCreate  *)
(* on the bytes of a file, protected memory of elfMemorySize bytes, calls  *)
(* of the loader with the two addresses of that memory, and everything     *)
(* given back, in any order that does not use what was given back.  Every  *)
(* call may fail, and what it returns is passed on unchecked.              *)
(***************************************************************************)
EXTENDS ElfLoader, ProtectedMemory

CONSTANT FaultyElfs   \* images that are also loaded where calls fail

VARIABLE owned   \* the program's blocks: "data", the bytes; "elf", the Elf object

vars == <<loaderVars, pmVars, owned>>

Init ==
  /\ LoaderInit /\ owned = {"data"}
  /\ faults \in IF elf \in FaultyElfs THEN BOOLEAN ELSE {FALSE}
  /\ ProtectedInit

Quiet == pc = "idle" /\ label \in {"none", "ready"}

(* The magic number decides.  The result of malloc is not looked at.       *)
elfCreate ==
  /\ Quiet /\ owned = {"data"}
  /\ "magic" \in elf.ident
  /\ \/ owned' = {"data", "elf"} /\ UNCHANGED pc
     \/ faults /\ pc' = "crashed" /\ UNCHANGED owned
  /\ UNCHANGED <<elf, memory, entry, index, table, i, r, loads, pmVars>>

(* elfDestroy returns the data; elfDestroyAndFree frees it too.            *)
elfDestroy ==
  /\ Quiet /\ "elf" \in owned
  /\ owned' \in {{"data"}, {}}
  /\ UNCHANGED <<loaderVars, pmVars>>

(* There is no size for a NULL image.                                      *)
MemoryCreate ==
  /\ Quiet /\ loads < MaxLoads
  /\ Create(IF "elf" \in owned THEN elfMemorySize(elf) ELSE 0)
  /\ memory' = [a \in DOMAIN memory |-> Dirt] /\ r' = NULL
  /\ UNCHANGED <<elf, entry, pc, index, table, i, loads, owned>>

MemoryDestroy ==
  /\ Quiet /\ Destroy
  /\ r' = NULL
  /\ UNCHANGED <<elf, memory, entry, pc, index, table, i, loads, owned>>

(* The addresses of no memory are NULL.                                    *)
LoaderCall ==
  /\ Quiet
  /\ Call((IF "elf" \in owned THEN {} ELSE {"elf"})
          \cup (IF label = "ready" THEN {} ELSE {"writable", "executable"}))
  /\ UNCHANGED <<pmVars, owned>>

Next ==
  \/ elfCreate \/ elfDestroy \/ MemoryCreate \/ MemoryDestroy \/ LoaderCall
  \/ LoaderStep /\ UNCHANGED <<pmVars, owned>>
  \/ ProtectedStep /\ UNCHANGED <<loaderVars, owned>>

Spec == Init /\ [][Next]_vars

-----------------------------------------------------------------------------
(* What the loader writes stays inside the pages that are mapped for it,   *)
(* whose number ps4ProtectedMemoryCreate derives from elfMemorySize with   *)
(* arithmetic that wraps.                                                  *)
StaysMapped ==
  label = "ready" /\ HeadersAgree /\ RelocationsAgree =>
    \A a \in DOMAIN memory : memory[a] # Dirt => a < size

(* Both addresses of a memory that Create returned show the object it made *)
(* for it, so that what is written can be executed; unless a JIT call      *)
(* failed and the handle it should have set named an open descriptor.      *)
ViewsAgree ==
  label = "ready" => views = Both("jit") \/ confused

(* Once Create has failed or the memory is destroyed, nothing of it is     *)
(* left: no mapping, and no descriptor but perhaps 0, which Create takes   *)
(* for a failure and does not close.                                       *)
NothingLeaks ==
  label = "none" => views = Both(Unset) /\ \A f \in Fds : fds[f] = "jit" => f = 0

(* Create leaves the descriptors of other threads alone, with the same     *)
(* exception.                                                              *)
OthersKept ==
  confused \/ \A f \in Fds : fds[f] = "other" <=> f \in others

(* The program follows a NULL pointer only where elfCreate had no block,   *)
(* where elfLoaderRelocate was called without what elfLoaderLoad makes     *)
(* sure of, or where an image without .dynsym has relocations that need it.*)
CrashExplained ==
  pc = "crashed" =>
    \/ "elf" \notin owned
    \/ entry = "relocate" /\ ~elf.shoff
    \/ elf.shoff /\ Named(".dynsym") = {} /\ \E x \in AllEntries : x.type \in UsesSymbol
=============================================================================
