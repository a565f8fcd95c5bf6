------------------------------- MODULE Resolve -------------------------------
(***************************************************************************)
(* Lazy binding of imported functions: threads call stubs (stub.h) or      *)
(* ps4Resolve, and the resolver of source/ps4/internal/resolve.c loads the *)
(* module, looks the symbol up, fills the stub's address slot and lets the *)
(* stub retry.  Nothing in the code takes a lock: module handles, address  *)
(* slots, the cached sceKernelLoadStartModule pointer and the handler      *)
(* pointers are shared by all threads, so a step below is one access to    *)
(* shared memory together with the thread-local code around it.            *)
(***************************************************************************)
EXTENDS Stub, FiniteSets

CONSTANTS
  Threads,         \* threads that call stubs
  Setters,         \* threads that also install handlers
  Functions,       \* stubs linked into the program
  Type,            \* stub type of each function
  Modules,         \* .sprx modules
  ModuleOf,        \* module a function is imported from
  Addresses,       \* code addresses
  Kerncall,        \* address of ps4Kerncall
  UserSymbol,      \* external: what syscall 591 finds in the module, or NULL
  KernelSymbol,    \* external: what ps4KernelDlSym finds, or NULL
  Calls,           \* <<function, mode>> pairs the program calls through stubs
  ResolveCalls,    \* <<function, mode>> pairs the program passes to ps4Resolve
  Handlers,        \* handlers of the program
  HandlersFor,     \* handlers the program installs for each occasion
  HandlerReturn,   \* external: status a handler returns for the one it is given
  HandlerAddress,  \* external: address a handler stores, NULL if it stores none
  MayFail,         \* external calls that may fail: "kernel", "lsm", "load"
  NULL

Status == {"Success", "InterceptContinue", "InterceptFailure", "ArgumentError",
           "KernelLoadError", "LSMResolveError", "ModuleLoadError",
           "FunctionResolveError", "KernelFunctionResolveError"}

Occasions == {"pre", "error", "post"}

(* What may happen to a thread in the course of a call: a load of its      *)
(* module fails, in its own or another call; a lookup stores NULL over the *)
(* address in its kernel slot; a handler breaks its contract.              *)
Events == {"loadFailed", "emptied", "misled"}

ASSUME ConstantTypes ==
  /\ Setters \subseteq Threads
  /\ Functions # {}
  /\ Type \in [Functions -> StubTypes]
  /\ ModuleOf \in [Functions -> Modules]
  /\ NULL \notin Addresses
  /\ NULL \notin Handlers
  /\ Kerncall \in Addresses
  /\ UserSymbol \in [Functions -> Addresses \cup {NULL}]
  /\ KernelSymbol \in [Functions -> Addresses \cup {NULL}]
  /\ Calls \subseteq Functions \X Modes
  /\ ResolveCalls \subseteq Functions \X Modes
  /\ HandlersFor \in [Occasions -> SUBSET Handlers]
  /\ HandlerReturn \in [Handlers -> [Status -> Status]]
  /\ HandlerAddress \in [Handlers -> Addresses \cup {NULL}]

(***************************************************************************)
(* Labels of a thread, in the order of the code.  "stub" is the stub's     *)
(* test of its slot; "called", "failed" and "resolved" are the ways out;   *)
(* "crashed" is a NULL dereference or call, "wild" an access through a     *)
(* pointer that belongs to the stub's caller.                              *)
(***************************************************************************)
Labels == {"idle", "setting", "stub", "pre", "kernelType", "kernelArgs",
           "kernelDlSym", "kernelStored", "userArgs", "moduleId", "lsm", "loadKernel",
           "lsmDlSym", "load", "loaded", "dlSym", "error", "post", "return",
           "called", "failed", "resolved", "crashed", "wild"}

VARIABLES
  userAddress,    \* user address slot of each stub
  kernelAddress,  \* kernel address slot of each stub
  moduleId,       \* module handle cell: 0 unset, 1 loaded, -1 load error
  lsm,            \* static lsm pointer: is it set?
  handler,        \* the three handler pointers
  past,           \* history: events of each thread's present call
  pc, call,       \* per thread: label; function, mode, entry and arguments
  status, resume, \* per thread: status variable, label to continue an error at
  id, k,          \* per thread: module handle as last read (0 once dead); was
                  \* libkernel loaded?
  target,         \* per thread: address jumped to
  setter          \* per thread: occasion, new and previous handler of a setter

shared == <<userAddress, kernelAddress, moduleId, lsm, handler, past>>
local  == <<call, status, resume, id, k, target, setter>>
vars   == <<shared, pc, local>>

(* The record of a thread that is in no call: its content is dead.         *)
NoCall   == [fn |-> CHOOSE f \in Functions : TRUE, mode |-> "user",
             direct |-> FALSE, args |-> [x \in Fields |-> "null"]]
NoSetter == [on |-> "pre", new |-> NULL, old |-> NULL]

Init ==
  /\ userAddress   = [f \in Functions |-> NULL]
  /\ kernelAddress = [f \in Functions |-> NULL]
  /\ moduleId      = [m \in Modules |-> 0]
  /\ lsm           = FALSE
  /\ handler       = [o \in Occasions |-> NULL]
  /\ past          = [t \in Threads |-> {}]
  /\ pc     = [t \in Threads |-> "idle"]
  /\ call   = [t \in Threads |-> NoCall]
  /\ status = [t \in Threads |-> "Success"]
  /\ resume = [t \in Threads |-> "idle"]
  /\ id     = [t \in Threads |-> 0]
  /\ k      = [t \in Threads |-> FALSE]
  /\ target = [t \in Threads |-> NULL]
  /\ setter = [t \in Threads |-> NoSetter]

(***************************************************************************)
(* Control-flow helpers.                                                   *)
(***************************************************************************)
Goto(t, from, to) == pc[t] = from /\ pc' = [pc EXCEPT ![t] = to]

(* A check with an early return: if it fails, the resolver calls the error *)
(* handler with `code`, and goes on at `next` only if that one says so.    *)
Check(t, from, bad, code, next) ==
  /\ Goto(t, from, IF bad THEN "error" ELSE next)
  /\ status' = IF bad THEN [status EXCEPT ![t] = code] ELSE status
  /\ resume' = IF bad THEN [resume EXCEPT ![t] = next] ELSE resume

Fn(t)  == call[t].fn
Arg(t) == call[t].args
Mod(t) == ModuleOf[Fn(t)]

(* A thread whose call has begun and not yet ended.                        *)
Resolving(t) == pc[t] \notin {"idle", "setting", "called", "failed", "resolved"}

(* Event e happens to the threads of S.                                    *)
Befalls(S, e) ==
  past' = [t \in Threads |-> IF t \in S THEN past[t] \cup {e} ELSE past[t]]

(* A handler that supplies an address stores it through the pointer of the *)
(* mode in use; it declines, handing back the status it was given, if that *)
(* pointer does not lead to the stub's slot.                               *)
Declines(t, h) ==
  /\ HandlerAddress[h] # NULL
  /\ Arg(t)[IF call[t].mode = "kernel" THEN "kernelAddress" ELSE "userAddress"] # "own"

HandlerStores(t, h) ==
  LET stores(mode) == /\ h # NULL /\ call[t].mode = mode
                      /\ HandlerAddress[h] # NULL /\ ~Declines(t, h)
  IN  /\ userAddress' = IF stores("user")
           THEN [userAddress EXCEPT ![Fn(t)] = HandlerAddress[h]] ELSE userAddress
      /\ kernelAddress' = IF stores("kernel")
           THEN [kernelAddress EXCEPT ![Fn(t)] = HandlerAddress[h]] ELSE kernelAddress

(* ps4ResolveCallHandler: a NULL handler leaves the status as it was given.*)
HandlerStatus(t, h, code) ==
  IF h = NULL \/ (h # NULL /\ Declines(t, h)) THEN code ELSE HandlerReturn[h][code]

(* What the properties expect of a handler: it answers with the status it  *)
(* was given, fails the call, or, having stored an address, reports Success*)
(* or goes on after an error that leaves something to go on with.          *)
Recoverable == {"ModuleLoadError", "FunctionResolveError", "KernelFunctionResolveError"}

KeepsContract(h, code) ==
  LET s == HandlerReturn[h][code]
  IN  \/ s \in {code, "InterceptFailure"}
      \/ s = "Success" /\ HandlerAddress[h] # NULL
      \/ s = "InterceptContinue" /\ HandlerAddress[h] # NULL /\ code \in Recoverable

(* ps4ResolveCallHandler, apart from what its caller makes of the answer.  *)
CallHandler(t, h, code) ==
  /\ HandlerStores(t, h)
  /\ Befalls({u \in {t} : h # NULL /\ ~Declines(t, h) /\ ~KeepsContract(h, code)}, "misled")

(***************************************************************************)
(* The program: calls of stubs and of ps4Resolve, and what ends a call.    *)
(***************************************************************************)
(* All registers the stub does not load hold the same kind of leftover:    *)
(* one NULL among them already takes the path that all NULL take.          *)
CallStub(t) ==
  \E c \in Calls, leftover \in {"null", "stray"} :
    /\ Goto(t, "idle", "stub")
    /\ call' = [call EXCEPT ![t] =
         [fn |-> c[1], mode |-> c[2], direct |-> FALSE,
          args |-> StubArguments(Type[c[1]], leftover)]]
    /\ UNCHANGED <<shared, status, resume, id, k, target, setter>>

(* The stub tests its slot, jumps through it, or calls the resolver.       *)
EnterStub(t) ==
  LET route == StubRoute(Type[Fn(t)], call[t].mode)
      slot  == IF route = "kerncall" THEN Kerncall
               ELSE IF route = "kernel" THEN kernelAddress[Fn(t)] ELSE userAddress[Fn(t)]
  IN  /\ Goto(t, "stub", IF slot = NULL THEN "pre" ELSE "called")
      /\ target' = [target EXCEPT ![t] = slot]
      /\ UNCHANGED <<shared, call, status, resume, id, k, setter>>

(* Called on a stub, as here, ps4Resolve finds its first byte, its type and*)
(* its own address in it: the early returns for other code do not happen.  *)
ps4Resolve(t) ==
  \E c \in ResolveCalls :
    /\ Goto(t, "idle", IF Type[c[1]] = Syscall THEN "resolved" ELSE "pre")
    /\ call' = [call EXCEPT ![t] =
         [fn |-> c[1], mode |-> c[2], direct |-> TRUE,
          args |-> ResolveArguments(Type[c[1]])]]
    /\ status' = [status EXCEPT ![t] = "Success"]
    /\ UNCHANGED <<shared, resume, id, k, target, setter>>

(* The call is over; the registers of the thread are dead.                 *)
Finish(t) ==
  /\ \E from \in {"called", "failed", "resolved"} : Goto(t, from, "idle")
  /\ call'   = [call   EXCEPT ![t] = NoCall]
  /\ status' = [status EXCEPT ![t] = "Success"]
  /\ resume' = [resume EXCEPT ![t] = "idle"]
  /\ id'     = [id     EXCEPT ![t] = 0]
  /\ k'      = [k      EXCEPT ![t] = FALSE]
  /\ target' = [target EXCEPT ![t] = NULL]
  /\ past'   = [past   EXCEPT ![t] = {}]
  /\ UNCHANGED <<userAddress, kernelAddress, moduleId, lsm, handler, setter>>

(***************************************************************************)
(* ps4ResolveModuleAndSymbolOrKernelSymbol                                 *)
(***************************************************************************)
(* ps4KernelIsInKernel or the type marker select the kernel branch.        *)
TakesKernelBranch(t) ==
  call[t].mode = "kernel" \/ ps4StubType(Type[Fn(t)]) = KernelFunction

PreHandler(t) ==
  LET s == HandlerStatus(t, handler["pre"], "InterceptContinue")
  IN  /\ Goto(t, "pre", IF s # "InterceptContinue" THEN "return"
                        ELSE IF TakesKernelBranch(t) THEN "kernelType"
                        ELSE "userArgs")
      /\ status' = [status EXCEPT ![t] = s]
      /\ CallHandler(t, handler["pre"], "InterceptContinue")
      /\ UNCHANGED <<moduleId, lsm, handler, call, resume, id, k, target, setter>>

CheckKernelType(t) ==
  /\ Check(t, "kernelType", ps4StubType(Type[Fn(t)]) = Function,
           "ArgumentError", "kernelArgs")
  /\ UNCHANGED <<shared, call, id, k, target, setter>>

CheckKernelArguments(t) ==
  /\ Check(t, "kernelArgs",
           Arg(t).symbol = "null" \/ Arg(t).kernelAddress = "null",
           "ArgumentError", "kernelDlSym")
  /\ UNCHANGED <<shared, call, id, k, target, setter>>

(* The looked-up address is stored before it is tested, NULL included.     *)
KernelDlSym(t) ==
  LET used == {Arg(t).symbol, Arg(t).kernelAddress}
  IN  /\ Goto(t, "kernelDlSym", IF "null" \in used THEN "crashed"
                                ELSE IF "stray" \in used THEN "wild"
                                ELSE "kernelStored")
      /\ kernelAddress' = IF used = {"own"}
                          THEN [kernelAddress EXCEPT ![Fn(t)] = KernelSymbol[Fn(t)]]
                          ELSE kernelAddress
      /\ Befalls({u \in Threads : /\ kernelAddress[Fn(t)] # NULL
                                  /\ kernelAddress'[Fn(t)] = NULL
                                  /\ Resolving(u) /\ Fn(u) = Fn(t)}, "emptied")
      /\ UNCHANGED <<userAddress, moduleId, lsm, handler, local>>

(* The slot is read again without synchronisation: the build may use the   *)
(* value it has just stored or what the slot holds by now.                 *)
CheckKernelSymbol(t) ==
  /\ pc[t] = "kernelStored"
  /\ \E v \in {KernelSymbol[Fn(t)], kernelAddress[Fn(t)]} :
       Check(t, "kernelStored", v = NULL, "KernelFunctionResolveError", "post")
  /\ UNCHANGED <<shared, call, id, k, target, setter>>

(* Variant: the module handle pointer is not tested.                       *)
CheckNamesOnly(t) ==
  /\ Check(t, "userArgs", Arg(t).symbol = "null", "ArgumentError", "moduleId")
  /\ UNCHANGED <<shared, call, id, k, target, setter>>

CheckUserArguments(t) ==
  /\ Check(t, "userArgs",
           \E x \in Fields \ {"kernelAddress"} : Arg(t)[x] = "null",
           "ArgumentError", "moduleId")
  /\ UNCHANGED <<shared, call, id, k, target, setter>>

(* Variant: the test takes an earlier load error for a handle.             *)
ReadModuleIdStale(t) ==
  /\ Goto(t, "moduleId", IF moduleId[Mod(t)] = 0 THEN "lsm" ELSE "dlSym")
  /\ id' = [id EXCEPT ![t] = moduleId[Mod(t)]]
  /\ UNCHANGED <<shared, call, status, resume, k, target, setter>>

(* The first test of the module handle cell.                               *)
ReadModuleId(t) ==
  /\ pc[t] = "moduleId"
  /\ \/ /\ Arg(t).moduleId = "own" /\ moduleId[Mod(t)] > 0
        /\ Goto(t, "moduleId", "dlSym")
        /\ id' = [id EXCEPT ![t] = moduleId[Mod(t)]]
     \/ /\ Arg(t).moduleId = "own" /\ moduleId[Mod(t)] <= 0
        /\ Goto(t, "moduleId", "lsm")
        /\ UNCHANGED id
     \/ /\ Arg(t).moduleId # "own"
        /\ Goto(t, "moduleId", IF Arg(t).moduleId = "null" THEN "crashed" ELSE "wild")
        /\ UNCHANGED id
  /\ UNCHANGED <<shared, call, status, resume, k, target, setter>>

(* if(!lsm)                                                                *)
ReadLsm(t) ==
  /\ Goto(t, "lsm", IF lsm THEN "load" ELSE "loadKernel")
  /\ UNCHANGED <<shared, local>>

(* Syscall 594 loads libkernel.sprx.                                       *)
LoadKernel(t) ==
  \E ok \in IF "kernel" \in MayFail THEN BOOLEAN ELSE {TRUE} :
    /\ k' = [k EXCEPT ![t] = ok]
    /\ Check(t, "loadKernel", ~ok, "KernelLoadError", "lsmDlSym")
    /\ UNCHANGED <<shared, call, id, target, setter>>

(* Syscall 591 stores sceKernelLoadStartModule to lsm, if k is a handle.   *)
ResolveLsm(t) ==
  \E ok \in IF "lsm" \in MayFail THEN {k[t], FALSE} ELSE {k[t]} :
    /\ lsm' = (lsm \/ ok)
    /\ k' = [k EXCEPT ![t] = FALSE]
    /\ Check(t, "lsmDlSym", ~ok, "LSMResolveError", "load")
    /\ UNCHANGED <<userAddress, kernelAddress, moduleId, handler, past,
                   call, id, target, setter>>

(* The result of lsm is stored to the module handle cell: it overwrites the*)
(* cell whatever another thread has stored there meanwhile.                *)
LoadModule(t) ==
  \/ /\ lsm /\ pc[t] = "load"
     /\ \E r \in IF "load" \in MayFail THEN {1, -1} ELSE {1} :
          /\ moduleId' = [moduleId EXCEPT ![Mod(t)] = r]
          /\ id' = [id EXCEPT ![t] = r]
          /\ Befalls({u \in Threads : r < 0 /\ Resolving(u) /\ Mod(u) = Mod(t)}, "loadFailed")
     /\ Goto(t, "load", "loaded")
     /\ UNCHANGED <<userAddress, kernelAddress, lsm, handler,
                    call, status, resume, k, target, setter>>
  \/ /\ ~lsm
     /\ Goto(t, "load", "crashed")
     /\ UNCHANGED <<shared, local>>

(* The cell is read again without synchronisation, as the slot above.      *)
CheckLoad(t) ==
  pc[t] = "loaded" /\ \E v \in {id[t], moduleId[Mod(t)]} :
    /\ id' = [id EXCEPT ![t] = IF v <= 0 THEN 0 ELSE v]
    /\ Check(t, "loaded", v <= 0, "ModuleLoadError", "dlSym")
    /\ UNCHANGED <<shared, call, k, target, setter>>

(* Variant: a failed lookup goes unnoticed.                                *)
DlSymUnchecked(t) ==
  /\ Goto(t, "dlSym", "post")
  /\ userAddress' = IF moduleId[Mod(t)] = 1
                    THEN [userAddress EXCEPT ![Fn(t)] = UserSymbol[Fn(t)]]
                    ELSE userAddress
  /\ UNCHANGED <<kernelAddress, moduleId, lsm, handler, past, local>>

(* Syscall 591 stores the symbol's address to the slot if the handle is    *)
(* that of a loaded module that exports the symbol.                        *)
DlSym(t) ==
  pc[t] = "dlSym" /\ \E v \in {id[t], moduleId[Mod(t)]} :
    LET found == v = 1 /\ UserSymbol[Fn(t)] # NULL
    IN  /\ userAddress' = IF found
                          THEN [userAddress EXCEPT ![Fn(t)] = UserSymbol[Fn(t)]]
                          ELSE userAddress
        /\ Check(t, "dlSym", ~found, "FunctionResolveError", "post")
        /\ id' = [id EXCEPT ![t] = 0]
        /\ UNCHANGED <<kernelAddress, moduleId, lsm, handler, past,
                       call, k, target, setter>>

(* Variant: a handler that refuses does not stop the resolver.             *)
ErrorHandlerIgnored(t) ==
  /\ Goto(t, "error", resume[t])
  /\ id' = [id EXCEPT ![t] = moduleId[Mod(t)]]
  /\ CallHandler(t, handler["error"], status[t])
  /\ UNCHANGED <<moduleId, lsm, handler, call, status, resume, k, target, setter>>

(* The handler is an opaque call: the module handle is read afresh after.  *)
ErrorHandler(t) ==
  LET s == HandlerStatus(t, handler["error"], status[t])
      continues == s = "InterceptContinue"
  IN  /\ Goto(t, "error", IF continues THEN resume[t] ELSE "return")
      /\ status' = [status EXCEPT ![t] = s]
      /\ resume' = [resume EXCEPT ![t] = "idle"]
      /\ id' = [id EXCEPT ![t] = IF continues /\ resume[t] = "dlSym"
                                   THEN moduleId[Mod(t)] ELSE 0]
      /\ CallHandler(t, handler["error"], status[t])
      /\ UNCHANGED <<moduleId, lsm, handler, call, k, target, setter>>

PostHandler(t) ==
  LET s == HandlerStatus(t, handler["post"], "InterceptContinue")
  IN  /\ Goto(t, "post", "return")
      /\ status' = [status EXCEPT ![t] =
                      IF s = "InterceptContinue" THEN "Success" ELSE s]
      /\ CallHandler(t, handler["post"], "InterceptContinue")
      /\ UNCHANGED <<moduleId, lsm, handler, call, resume, id, k, target, setter>>

(* Variant: the stub retries whatever the resolver reports.                *)
ReturnAlwaysRetries(t) ==
  /\ Goto(t, "return", IF call[t].direct THEN "resolved" ELSE "stub")
  /\ UNCHANGED <<shared, local>>

(* ps4Resolve hands the status on; a stub jumps back to its first          *)
(* instruction on Success and returns to its caller on anything else.      *)
Return(t) ==
  /\ Goto(t, "return", IF call[t].direct THEN "resolved"
                       ELSE IF status[t] = "Success" THEN "stub" ELSE "failed")
  /\ UNCHANGED <<shared, local>>

(***************************************************************************)
(* ps4ResolveSetErrorHandler, -PreHandler and -PostHandler: read the old   *)
(* pointer, store the new one, return the old one.                         *)
(***************************************************************************)
SetHandlerRead(t) ==
  /\ t \in Setters
  /\ Goto(t, "idle", "setting")
  /\ \E on \in Occasions : \E h \in HandlersFor[on] \cup {NULL} :
       setter' = [setter EXCEPT ![t] = [on |-> on, new |-> h, old |-> handler[on]]]
  /\ UNCHANGED <<shared, call, status, resume, id, k, target>>

SetHandlerStore(t) ==
  /\ Goto(t, "setting", "idle")
  /\ handler' = [handler EXCEPT ![setter[t].on] = setter[t].new]
  /\ setter' = [setter EXCEPT ![t] = NoSetter]
  /\ UNCHANGED <<userAddress, kernelAddress, moduleId, lsm, past,
                 call, status, resume, id, k, target>>

(***************************************************************************)
(* The specification.                                                      *)
(***************************************************************************)
Resolver(t) ==
  \/ EnterStub(t) \/ PreHandler(t)
  \/ CheckKernelType(t) \/ CheckKernelArguments(t) \/ KernelDlSym(t)
  \/ CheckKernelSymbol(t) \/ CheckUserArguments(t) \/ ReadModuleId(t) \/ ReadLsm(t) \/ LoadKernel(t)
  \/ ResolveLsm(t) \/ LoadModule(t) \/ CheckLoad(t) \/ DlSym(t)
  \/ ErrorHandler(t) \/ PostHandler(t) \/ Return(t)

(* A bad access ends the program, or all that can be said of it.           *)
Running == \A t \in Threads : pc[t] \notin {"crashed", "wild"}

Next ==
  /\ Running
  /\ \E t \in Threads :
       \/ CallStub(t) \/ ps4Resolve(t) \/ Finish(t)
       \/ SetHandlerRead(t) \/ SetHandlerStore(t)
       \/ Resolver(t)

Spec == Init /\ [][Next]_vars

(* A runnable thread inside the resolver is eventually scheduled; nobody   *)
(* is obliged to call anything.                                            *)
FairSpec == Spec /\ \A t \in Threads : WF_vars(Running /\ Resolver(t))

(***************************************************************************)
(* The modes a stub is made for: the comments on the stubs warn of calling *)
(* a function stub in kernel mode and a kernel function stub in user mode. *)
(* The combined syscall stub tests the mode itself, but in kernel mode it  *)
(* has its symbol's name in the register of the module: unless its slot is *)
(* filled otherwise, through ps4Resolve, the resolver does not get it.     *)
(***************************************************************************)
Legal(type, mode) ==
  /\ type = Function => mode = "user"
  /\ type = KernelFunction => mode = "kernel"

Served(type, mode) ==
  Legal(type, mode) /\ ~(type = SyscallAndKernelFunction /\ mode = "kernel")

Honest(t) == "misled" \notin past[t]

(***************************************************************************)
(* Properties                                                              *)
(***************************************************************************)
AddressOrNull == Addresses \cup {NULL}

(* Every variable has the type the code declares for it.                   *)
TypeOK ==
  /\ userAddress \in [Functions -> AddressOrNull]
  /\ kernelAddress \in [Functions -> AddressOrNull]
  /\ moduleId \in [Modules -> {-1, 0, 1}]
  /\ lsm \in BOOLEAN
  /\ handler \in [Occasions -> Handlers \cup {NULL}]
  /\ past \in [Threads -> SUBSET Events]
  /\ pc \in [Threads -> Labels]
  /\ call \in [Threads -> [fn : Functions, mode : Modes,
                           direct : BOOLEAN, args : [Fields -> Pointers]]]
  /\ status \in [Threads -> Status]
  /\ resume \in [Threads -> Labels]
  /\ id \in [Threads -> {-1, 0, 1}]
  /\ k \in [Threads -> BOOLEAN]
  /\ target \in [Threads -> AddressOrNull]
  /\ setter \in [Threads -> [on : Occasions, new : Handlers \cup {NULL},
                             old : Handlers \cup {NULL}]]

HandlerAddresses == {HandlerAddress[h] : h \in Handlers} \ {NULL}

UserMeaning(f)   == ({UserSymbol[f]} \ {NULL}) \cup HandlerAddresses
KernelMeaning(f) == ({KernelSymbol[f]} \ {NULL}) \cup HandlerAddresses

CalledRightBy(t) ==
  pc[t] = "called" /\ Legal(Type[Fn(t)], call[t].mode) =>
    \/ target[t] = Kerncall /\ Type[Fn(t)] \in {Syscall, SyscallAndKernelFunction}
    \/ target[t] \in UserMeaning(Fn(t))   /\ call[t].mode = "user"
    \/ target[t] \in KernelMeaning(Fn(t)) /\ call[t].mode = "kernel"

(* A stub called in a mode it is made for jumps only to the address its    *)
(* symbol has in that mode, or to one a handler supplied, whatever other   *)
(* threads resolve at the same time and in whatever modes they call: never *)
(* to NULL, and never from one mode to a function of the other.            *)
CalledRight == \A t \in Threads : CalledRightBy(t)

(* The resolver never follows a NULL pointer or one that is not the stub's *)
(* own: neither the module handle, nor a slot, nor the lsm pointer.        *)
NoBadAccess == \A t \in Threads : pc[t] \notin {"crashed", "wild"}

(* In any program, bad accesses have known causes: the resolver follows a  *)
(* stray pointer only for a stub called in a mode it is not made for, or   *)
(* for the combined syscall stub in kernel mode, and a NULL pointer only if*)
(* a handler of the call broke its contract.                               *)
BadAccessExplained ==
  \A t \in Threads :
    /\ pc[t] = "wild" => /\ ~call[t].direct
                         /\ \/ ~Legal(Type[Fn(t)], call[t].mode)
                            \/ Type[Fn(t)] = SyscallAndKernelFunction /\ call[t].mode = "kernel"
    /\ pc[t] = "crashed" => "misled" \in past[t]

(* What must have gone wrong when the resolver reports a status.           *)
Cause(t, code) ==
  CASE code = "ModuleLoadError"            -> "loadFailed" \in past[t]
    [] code = "FunctionResolveError"       -> UserSymbol[Fn(t)] = NULL \/ "loadFailed" \in past[t]
    [] code = "KernelFunctionResolveError" -> KernelSymbol[Fn(t)] = NULL
    [] code = "KernelLoadError"            -> "kernel" \in MayFail
    [] code = "LSMResolveError"            -> "lsm" \in MayFail
    [] code = "ArgumentError"              -> call[t].direct \/ ~Served(Type[Fn(t)], call[t].mode)
    [] OTHER                               -> TRUE

(* A call fails only for a reason: the status a thread ends with names a   *)
(* lookup that fails, or a load that has failed since the call began, in   *)
(* this thread or in another.  Neither a race between resolving threads nor*)
(* an error an earlier call left in the module handle makes a call fail.   *)
(* A stub gets an argument error only in a mode it is not made for, the    *)
(* combined syscall stub also in kernel mode.                              *)
ErrorsHaveCause ==
  \A t \in Threads :
    pc[t] \in {"failed", "resolved"} /\ Honest(t) => Cause(t, status[t])

(* The slot of the mode the call is made in holds an address, or lost it to*)
(* a lookup during the call.                                               *)
SlotFilled(t) ==
  IF call[t].mode = "kernel"
  THEN kernelAddress[Fn(t)] # NULL \/ "emptied" \in past[t]
  ELSE userAddress[Fn(t)] # NULL

(* When the resolver reports Success the slot of the current mode holds an *)
(* address, so that the stub's retry gets through.  The one exception is a *)
(* kernel slot whose address, a handler's, another thread's lookup has     *)
(* overwritten with NULL since the call began.                             *)
SuccessFillsSlot ==
  \A t \in Threads :
    pc[t] = "return" /\ status[t] = "Success" /\ Honest(t) => SlotFilled(t)

(* Every call of a stub or of ps4Resolve ends, although handlers change    *)
(* and other threads resolve meanwhile: a stub retries for ever only after *)
(* a handler of its call broke its contract, or after another thread's     *)
(* lookup emptied its slot.                                                *)
CallCompletes ==
  \A t \in Threads :
    pc[t] \notin {"idle", "setting"}
      ~> \/ pc[t] \in {"idle", "called", "failed", "resolved"}
         \/ past[t] \cap {"misled", "emptied"} # {}
         \/ ~Running

(***************************************************************************)
(* The inductive invariant behind these: what holds of the shared state,   *)
(* and what holds of a thread at each label, in any call and in one whose  *)
(* handlers keep their contract.                                           *)
(***************************************************************************)
KernelLabels == {"kernelType", "kernelArgs", "kernelDlSym", "kernelStored"}
UserLabels   == {"userArgs", "moduleId", "lsm", "loadKernel", "lsmDlSym",
                 "load", "loaded", "dlSym"}

SharedSound ==
  \A f \in Functions :
    /\ userAddress[f] \in UserMeaning(f) \cup {NULL}
    /\ kernelAddress[f] \in KernelMeaning(f) \cup {NULL}

(* The pointers the resolver uses in a mode.                               *)
Needed(mode) == IF mode = "kernel" THEN {"symbol", "kernelAddress"}
                ELSE Fields \ {"kernelAddress"}

(* ps4Resolve passes NULL for what it cannot read; a stub that serves the  *)
(* mode it is called in passes all that this mode needs.                   *)
CallSound(t) ==
  IF pc[t] \in {"idle", "setting"} THEN past[t] = {}
  ELSE IF call[t].direct
  THEN /\ pc[t] \notin {"stub", "called", "failed"}
       /\ \A x \in Fields : Arg(t)[x] # "stray"
  ELSE \/ /\ StubRoute(Type[Fn(t)], call[t].mode) = "kerncall"
          /\ pc[t] \in {"stub", "called"}
       \/ Served(Type[Fn(t)], call[t].mode) =>
            \A x \in Needed(call[t].mode) : Arg(t)[x] = "own"

(* The branch a label, or the label an error resumes at, belongs to; where *)
(* a bad access can come from.                                             *)
InBranch(label, mode) ==
  /\ label \in KernelLabels => mode = "kernel"
  /\ label \in UserLabels   => mode = "user"

BranchSound(t) ==
  /\ InBranch(pc[t], call[t].mode)
  /\ pc[t] = "error" => /\ InBranch(resume[t], call[t].mode)
                        /\ resume[t] \in KernelLabels \cup UserLabels \cup {"post"}
  /\ pc[t] = "wild"  => ~call[t].direct /\ ~Served(Type[Fn(t)], call[t].mode)

(* What the code before a label has tested.                                *)
PathSound(t) ==
  /\ pc[t] = "kernelDlSym" => \A x \in Needed("kernel") : Arg(t)[x] # "null"
  /\ pc[t] \in UserLabels \ {"userArgs"} => \A x \in Needed("user") : Arg(t)[x] # "null"
  /\ pc[t] = "lsmDlSym" => k[t]
  /\ pc[t] = "load"     => lsm
  /\ pc[t] \in {"loaded", "dlSym"} =>
       /\ id[t] # 0 /\ moduleId[Mod(t)] # 0
       /\ -1 \in {id[t], moduleId[Mod(t)]} => "loadFailed" \in past[t]
  /\ pc[t] = "kernelStored" => KernelSymbol[Fn(t)] = NULL \/ kernelAddress[Fn(t)] # NULL
  /\ pc[t] # "crashed"

(* Where the resolver goes on after an error, and what that relies on.     *)
ErrorSound(t) ==
  pc[t] = "error" =>
    /\ status[t] \notin {"Success", "InterceptContinue", "InterceptFailure"}
    /\ status[t] = "ModuleLoadError" =>
         /\ resume[t] = "dlSym"
         /\ \A x \in Needed("user") : Arg(t)[x] # "null"
         /\ moduleId[Mod(t)] # 0
         /\ moduleId[Mod(t)] = -1 => "loadFailed" \in past[t]
    /\ status[t] \in Recoverable \ {"ModuleLoadError"} => resume[t] = "post"

CauseSound(t) ==
  pc[t] \in {"error", "return", "failed", "resolved"} => Cause(t, status[t])

SuccessSound(t) ==
  pc[t] = "post" \/ (pc[t] = "return" /\ status[t] = "Success") => SlotFilled(t)

ThreadSound(t) ==
  /\ CallSound(t) /\ BranchSound(t) /\ CalledRightBy(t)
  /\ Honest(t) => PathSound(t) /\ ErrorSound(t) /\ CauseSound(t) /\ SuccessSound(t)

Inv == TypeOK /\ SharedSound /\ \A t \in Threads : ThreadSound(t)
=============================================================================
