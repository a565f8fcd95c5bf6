------------------------------- MODULE Kernel -------------------------------
(***************************************************************************)
(* source/ps4/kernel.c: the lookup of kernel symbols, the allocator of     *)
(* executable kernel memory, their lazy initialisation, and the way of a   *)
(* user-mode caller into the kernel (ps4KernelRunMain).  Threads share the *)
(* static variables without a lock; a step is one access to them.  What    *)
(* makes the run syscall available is an external step that may fail.      *)
(* Pointers are numbers, 0 is NULL; a symbol takes one unit of memory.     *)
(***************************************************************************)
EXTENDS Integers, Sequences, FiniteSets

CONSTANTS
  Threads,
  Names,         \* symbol names the program looks up
  Symbols,       \* the kernel's symbol table: sequence of name and value
  Dynamics,      \* its dynamic table: sequence of tag and pointer
  TextAddress,   \* p_vaddr of its first PT_LOAD
  Seeks,         \* may ps4KernelElfSeek find the kernel image, may it not?
  Installs,      \* external: outcomes of installing the run syscall
  Sizes,         \* sizes asked of ps4KernelExecutableMemoryMalloc
  MaxBlocks      \* bound on the blocks handed out

ASSUME ConstantTypes ==
  /\ TextAddress \in Nat \ {0} /\ Sizes \subseteq Nat \ {0}
  /\ Seeks \subseteq BOOLEAN /\ Installs \subseteq BOOLEAN
  /\ \A i \in DOMAIN Symbols : Symbols[i].value # 0
  /\ \A tag \in {"NULL", "SYMTAB", "STRTAB"} : \E i \in DOMAIN Dynamics : Dynamics[i].tag = tag

VARIABLES
  found,       \* is the kernel image where ps4KernelElfSeek looks for it?
  initialized, elfSymbols, elfStrings, executableAddress,   \* the static variables
  installed,   \* external: is the run syscall there?
  pc, op,      \* per thread: label; operation with its mode and argument
  left,        \* per thread: stores of the initialisation still to be done
  a,           \* per thread: what the operation returns
  blocks,      \* history: blocks handed out, as address and size
  raced        \* history: has an allocation overlapped another or an initialisation?

statics == <<initialized, elfSymbols, elfStrings, executableAddress>>
vars    == <<found, statics, installed, pc, op, left, a, blocks, raced>>

NoOp == [kind |-> "none", mode |-> "kernel", arg |-> 0]

Init ==
  /\ found \in Seeks
  /\ initialized = FALSE /\ elfSymbols = 0 /\ elfStrings = 0 /\ executableAddress = 0
  /\ installed = FALSE
  /\ pc = [t \in Threads |-> "idle"]
  /\ op = [t \in Threads |-> NoOp]
  /\ left = [t \in Threads |-> {}]
  /\ a = [t \in Threads |-> 0]
  /\ blocks = <<>> /\ raced = FALSE

Goto(t, from, to) == pc[t] = from /\ pc' = [pc EXCEPT ![t] = to]

(***************************************************************************)
(* elfLoadedDynamic: the first entry with a tag, in front of DT_NULL.      *)
(***************************************************************************)
elfDynamicsLength ==
  LET ends == {i \in DOMAIN Dynamics : Dynamics[i].tag = "NULL"}
  IN  (CHOOSE i \in ends : \A j \in ends : i <= j) - 1

elfLoadedDynamic(tag) ==
  LET hits == {i \in 1 .. elfDynamicsLength : Dynamics[i].tag = tag}
  IN  Dynamics[CHOOSE i \in hits : \A j \in hits : i <= j].pointer

(***************************************************************************)
(* Calls.  ps4KernelDlSym may be called in both modes.                     *)
(***************************************************************************)
DlSym(t) ==
  /\ \E mode \in {"user", "kernel"}, name \in Names :
       /\ Goto(t, "idle", IF mode = "user" THEN "probe" ELSE "check")
       /\ op' = [op EXCEPT ![t] = [kind |-> "dlsym", mode |-> mode, arg |-> name]]
  /\ a' = [a EXCEPT ![t] = 0]
  /\ UNCHANGED <<found, statics, installed, left, blocks, raced>>

ExecutableMemoryMalloc(t) ==
  /\ Len(blocks) + Cardinality({u \in Threads : op[u].kind = "malloc" /\ pc[u] # "done"}) < MaxBlocks
  /\ \E size \in Sizes : op' = [op EXCEPT ![t] = [kind |-> "malloc", mode |-> "kernel", arg |-> size]]
  /\ Goto(t, "idle", "check")
  /\ a' = [a EXCEPT ![t] = 0]
  /\ UNCHANGED <<found, statics, installed, left, blocks, raced>>

(***************************************************************************)
(* ps4KernelRunMain, from user mode: ask for the run syscall, install it   *)
(* and ask again, then run ps4KernelDlSymWrapper through it.               *)
(***************************************************************************)
Probe(t) ==
  /\ Goto(t, "probe", IF installed THEN "check" ELSE "install")
  /\ UNCHANGED <<found, statics, installed, op, left, a, blocks, raced>>

Install(t) ==
  /\ \E ok \in Installs : installed' = (installed \/ ok)
  /\ Goto(t, "install", "probeAgain")
  /\ UNCHANGED <<found, statics, op, left, a, blocks, raced>>

ProbeAgain(t) ==
  /\ Goto(t, "probeAgain", IF installed THEN "check" ELSE "failed")
  /\ UNCHANGED <<found, statics, installed, op, left, a, blocks, raced>>

(***************************************************************************)
(* if(!ps4KernelInternalInitialized) ps4KernelInternalInitialize();        *)
(***************************************************************************)
Body(t)  == IF op[t].kind = "malloc" THEN "read" ELSE "lookup"
Critical == {"seek", "symtab", "strtab", "last", "read", "add"}

Overlaps(t) ==
  \E u \in Threads \ {t} : pc[u] \in Critical /\ "malloc" \in {op[t].kind, op[u].kind}

Check(t) ==
  LET to == IF initialized THEN Body(t) ELSE "seek"
  IN  /\ Goto(t, "check", to)
      /\ raced' = (raced \/ (to \in Critical /\ Overlaps(t)))
      /\ UNCHANGED <<found, statics, installed, op, left, a, blocks>>

ElfSeek(t) ==
  /\ Goto(t, "seek", IF found THEN "symtab" ELSE Body(t))
  /\ UNCHANGED <<found, statics, installed, op, left, a, blocks, raced>>

(* Variant: the flag is set as soon as the symbols are known.              *)
StoreSymbolsAndFlag(t) ==
  /\ Goto(t, "symtab", "strtab")
  /\ elfSymbols' = elfLoadedDynamic("SYMTAB")
  /\ initialized' = TRUE
  /\ UNCHANGED <<found, elfStrings, executableAddress, installed, op, left, a, blocks, raced>>

StoreSymbols(t) ==
  /\ Goto(t, "symtab", "strtab")
  /\ elfSymbols' = elfLoadedDynamic("SYMTAB")
  /\ UNCHANGED <<found, initialized, elfStrings, executableAddress, installed, op, left, a, blocks, raced>>

StoreStrings(t) ==
  /\ Goto(t, "strtab", "last")
  /\ elfStrings' = elfLoadedDynamic("STRTAB")
  /\ left' = [left EXCEPT ![t] = {"address", "flag"}]
  /\ UNCHANGED <<found, initialized, elfSymbols, executableAddress, installed, op, a, blocks, raced>>

(* No call separates the last two stores: the build may swap them.         *)
StoreLast(t) ==
  /\ \E x \in left[t] :
       /\ left' = [left EXCEPT ![t] = @ \ {x}]
       /\ Goto(t, "last", IF left[t] = {x} THEN Body(t) ELSE "last")
       /\ initialized' = (initialized \/ x = "flag")
       /\ executableAddress' = IF x = "address" THEN TextAddress ELSE executableAddress
  /\ UNCHANGED <<found, elfSymbols, elfStrings, installed, op, a, blocks, raced>>

(***************************************************************************)
(* The lookup: entries are tried while another one fits in front of the    *)
(* strings, which follow the symbols.  An empty name matches none of them. *)
(***************************************************************************)
Lookup(t) ==
  LET hits == {i \in DOMAIN Symbols : /\ elfSymbols + i < elfStrings
                                      /\ Symbols[i].name = op[t].arg /\ op[t].arg # ""}
  IN  /\ Goto(t, "lookup", "done")
      /\ a' = [a EXCEPT ![t] = IF hits = {} THEN 0
                               ELSE Symbols[CHOOSE i \in hits : \A j \in hits : i <= j].value]
      /\ UNCHANGED <<found, statics, installed, op, left, blocks, raced>>

(***************************************************************************)
(* The allocator: a = address; address += size; return a.  The build may   *)
(* read the variable once or twice.                                        *)
(***************************************************************************)
ReadAddress(t) ==
  /\ Goto(t, "read", "add")
  /\ a' = [a EXCEPT ![t] = executableAddress]
  /\ UNCHANGED <<found, statics, installed, op, left, blocks, raced>>

(* Variant: the address moves on by one, not by the size.                  *)
AddOne(t) ==
  /\ Goto(t, "add", "done")
  /\ executableAddress' = a[t] + 1
  /\ blocks' = Append(blocks, <<a[t], op[t].arg>>)
  /\ UNCHANGED <<found, initialized, elfSymbols, elfStrings, installed, op, left, a, raced>>

AddSize(t) ==
  /\ Goto(t, "add", "done")
  /\ \E v \in {a[t], executableAddress} : executableAddress' = v + op[t].arg
  /\ blocks' = Append(blocks, <<a[t], op[t].arg>>)
  /\ UNCHANGED <<found, initialized, elfSymbols, elfStrings, installed, op, left, a, raced>>

Return(t) ==
  /\ \E from \in {"done", "failed"} : Goto(t, from, "idle")
  /\ op' = [op EXCEPT ![t] = NoOp]
  /\ a'  = [a EXCEPT ![t] = 0]
  /\ UNCHANGED <<found, statics, installed, left, blocks, raced>>

Step(t) ==
  \/ DlSym(t) \/ ExecutableMemoryMalloc(t)
  \/ Probe(t) \/ Install(t) \/ ProbeAgain(t)
  \/ Check(t) \/ ElfSeek(t) \/ StoreSymbols(t) \/ StoreStrings(t) \/ StoreLast(t)
  \/ Lookup(t) \/ ReadAddress(t) \/ AddSize(t) \/ Return(t)

Next == \E t \in Threads : Step(t)
Spec == Init /\ [][Next]_vars

(***************************************************************************)
(* A lookup that reaches the kernel answers with the first symbol of that  *)
(* name, however it interleaves with other first users, and NULL if there  *)
(* is none, if the name is empty or if no kernel image was found.  The last*)
(* symbol of the table is excepted: the loop of ps4KernelDlSym ends in     *)
(* front of it.                                                            *)
(***************************************************************************)
Named(name) == {i \in 1 .. Len(Symbols) - 1 : Symbols[i].name = name /\ name # ""}

LookupRight ==
  \A t \in Threads : pc[t] = "done" /\ op[t].kind = "dlsym" =>
    IF found /\ Named(op[t].arg) # {}
    THEN \E i \in Named(op[t].arg) : /\ a[t] = Symbols[i].value
                                     /\ \A j \in Named(op[t].arg) : i <= j
    ELSE a[t] = 0

(***************************************************************************)
(* Blocks of executable memory lie apart, from the kernel's first segment  *)
(* on, as long as no allocation overlapped another one or a first          *)
(* initialisation: ps4KernelExecutableMemoryMalloc has no lock.  Without a *)
(* kernel image it counts up from NULL, so that of all blocks only the     *)
(* first looks like a failure, and no later attempt to initialise hands    *)
(* one out again.                                                          *)
(***************************************************************************)
BlocksApart ==
  ~raced =>
    /\ \A i, j \in DOMAIN blocks : i < j => blocks[i][1] + blocks[i][2] <= blocks[j][1]
    /\ \A i \in DOMAIN blocks : IF found THEN blocks[i][1] >= TextAddress
                                ELSE blocks[i][1] < TextAddress /\ (blocks[i][1] = 0 <=> i = 1)
=============================================================================
