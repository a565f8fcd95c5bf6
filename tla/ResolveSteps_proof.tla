------------------------- MODULE ResolveSteps_proof -------------------------
(***************************************************************************)
(* The safety invariant.  A step of thread t is shown to keep the shared   *)
(* state sound, to take from every other thread nothing that it relies on, *)
(* and to keep t itself sound.  This module holds the facts all these      *)
(* proofs share, and the steps of callers, setters, stubs and the kernel   *)
(* branch of the resolver.                                                 *)
(***************************************************************************)
EXTENDS ResolveTypes_proof

Untouched(u) ==
  /\ pc'[u] = pc[u] /\ call'[u] = call[u] /\ status'[u] = status[u]
  /\ resume'[u] = resume[u] /\ id'[u] = id[u] /\ k'[u] = k[u]
  /\ target'[u] = target[u]

(* What the steps of others leave to thread u: cells are not unset, and if *)
(* one gets worse this is in the history of u.                             *)
Rely(u) ==
  /\ Untouched(u)
  /\ past[u] \subseteq past'[u]
  /\ "misled" \in past'[u] => "misled" \in past[u]
  /\ ~Resolving(u) => past'[u] = past[u]
  /\ lsm => lsm'
  /\ userAddress[Fn(u)] # NULL => userAddress'[Fn(u)] # NULL
  /\ KernelSymbol[Fn(u)] # NULL /\ kernelAddress[Fn(u)] # NULL => kernelAddress'[Fn(u)] # NULL
  /\ moduleId[Mod(u)] # 0 => moduleId'[Mod(u)] # 0
  /\ Resolving(u) =>
       /\ moduleId'[Mod(u)] = -1 => moduleId[Mod(u)] = -1 \/ "loadFailed" \in past'[u]
       /\ kernelAddress[Fn(u)] # NULL =>
            kernelAddress'[Fn(u)] # NULL \/ "emptied" \in past'[u]

SoundStep(t) ==
  /\ SharedSound'
  /\ \A u \in Threads \ {t} : Rely(u)
  /\ ThreadSound(t)'

(* Whatever is sound of a thread stays so while it can rely on the others. *)
LEMMA Frame ==
  ASSUME NEW u \in Threads, ThreadSound(u), Rely(u)
  PROVE  ThreadSound(u)'
<1>0. Untouched(u)
  BY Zenon DEF Rely
<1>1. Fn(u)' = Fn(u) /\ Arg(u)' = Arg(u) /\ Mod(u)' = Mod(u)
  BY Zenon, <1>0 DEF Untouched, Fn, Arg, Mod
<1>2. CallSound(u)'
  <2>1. CallSound(u)
    BY Zenon DEF ThreadSound
  <2>2. pc[u] \in {"idle", "setting"} => past'[u] = past[u]
    BY Zenon DEF Rely, Resolving
  <2> QED BY Zenon, <1>0, <1>1, <2>1, <2>2 DEF CallSound, Untouched
<1>3. BranchSound(u)'
  <2>1. BranchSound(u)
    BY Zenon DEF ThreadSound
  <2> QED BY Zenon, <1>0, <1>1, <2>1 DEF BranchSound, Untouched
<1>4. CalledRightBy(u)'
  <2>1. CalledRightBy(u)
    BY Zenon DEF ThreadSound
  <2> QED BY Zenon, <1>0, <1>1, <2>1 DEF CalledRightBy, UserMeaning, KernelMeaning, Untouched
<1>5. ASSUME Honest(u)' PROVE PathSound(u)' /\ ErrorSound(u)' /\ CauseSound(u)' /\ SuccessSound(u)'
  <2>0. Honest(u)
    BY Zenon, <1>5 DEF Honest, Rely
  <2>1. PathSound(u) /\ ErrorSound(u) /\ CauseSound(u) /\ SuccessSound(u)
    BY Zenon, <2>0 DEF ThreadSound
  <2>2. Resolving(u) => (SlotFilled(u) => SlotFilled(u)')
    BY Zenon, <1>0, <1>1 DEF SlotFilled, Rely, Untouched
  <2>3. PathSound(u)'
    <3>1. pc[u] \in {"loaded", "dlSym"} =>
            /\ id'[u] # 0 /\ moduleId'[Mod(u)] # 0
            /\ -1 \in {id'[u], moduleId'[Mod(u)]} => "loadFailed" \in past'[u]
      BY <1>0, <2>1 DEF PathSound, Rely, Resolving, Untouched
    <3>2. pc[u] = "kernelStored" => KernelSymbol[Fn(u)] = NULL \/ kernelAddress'[Fn(u)] # NULL
      BY Zenon, <2>1 DEF PathSound, Rely
    <3>3. lsm => lsm'
      BY Zenon DEF Rely
    <3> QED BY Zenon, <1>0, <1>1, <2>1, <3>1, <3>2, <3>3 DEF PathSound, Untouched
  <2>4. ErrorSound(u)'
    <3>1. pc[u] = "error" =>
            /\ moduleId[Mod(u)] # 0 => moduleId'[Mod(u)] # 0
            /\ moduleId'[Mod(u)] = -1 => moduleId[Mod(u)] = -1 \/ "loadFailed" \in past'[u]
      BY Zenon DEF Rely, Resolving
    <3>2. past[u] \subseteq past'[u]
      BY Zenon DEF Rely
    <3> QED BY Zenon, <1>0, <1>1, <2>1, <3>1, <3>2 DEF ErrorSound, Untouched
  <2>5. CauseSound(u)'
    <3>1. "loadFailed" \in past[u] => "loadFailed" \in past'[u]
      BY Zenon DEF Rely
    <3> QED BY <1>0, <1>1, <2>1, <3>1 DEF CauseSound, Cause, Untouched
  <2>6. SuccessSound(u)'
    BY Zenon, <1>0, <2>1, <2>2 DEF SuccessSound, Untouched, Resolving
  <2> QED BY Zenon, <2>3, <2>4, <2>5, <2>6
<1> QED BY Zenon, <1>2, <1>3, <1>4, <1>5 DEF ThreadSound

(* What an event adds to the history of a thread.                          *)
LEMMA BefallsAdds ==
  ASSUME NEW S, NEW e, Befalls(S, e), NEW u \in Threads
  PROVE  /\ past'[u] = IF u \in S THEN past[u] \cup {e} ELSE past[u]
         /\ past[u] \subseteq past'[u]
<1>1. past'[u] = IF u \in S THEN past[u] \cup {e} ELSE past[u]
  BY DEF Befalls
<1> QED BY Zenon, <1>1

(* The byte the resolver takes for the type marker is never a stub type.   *)
LEMMA MarkerByte ==
  ASSUME NEW type \in StubTypes
  PROVE  ps4StubType(type) # Function /\ ps4StubType(type) # KernelFunction
BY DEF ps4StubType, StubBytes, Function, KernelFunction, Syscall, StubTypes

(* A stub passes what the mode it serves needs.                            *)
LEMMA ServedArguments ==
  ASSUME NEW type \in StubTypes, NEW mode \in Modes, NEW leftover \in {"null", "stray"},
         Served(type, mode), StubRoute(type, mode) # "kerncall"
  PROVE  \A x \in Needed(mode) : StubArguments(type, leftover)[x] = "own"
<1> USE DEF Function, KernelFunction, FunctionAndKernelFunction, SyscallAndKernelFunction, Syscall
<1>1. \/ type = Function /\ mode = "user"
      \/ type = KernelFunction /\ mode = "kernel"
      \/ type = FunctionAndKernelFunction
  BY DEF Served, Legal, StubRoute, StubTypes, Modes
<1>2. CASE type = Function /\ mode = "user"
  <2>1. Immediates(type) = [rdi |-> "module", rsi |-> "symbol", rdx |-> "moduleId",
                            rcx |-> "userAddress"]
    BY <1>2 DEF Immediates
  <2> QED BY <1>2, <2>1 DEF StubArguments, ArgumentRegister, Needed, Fields
<1>3. CASE type = KernelFunction /\ mode = "kernel"
  <2>1. Immediates(type) = [rsi |-> "symbol", r8 |-> "kernelAddress"]
    BY <1>3 DEF Immediates
  <2> QED BY <1>3, <2>1 DEF StubArguments, ArgumentRegister, Needed, Fields
<1>4. CASE type = FunctionAndKernelFunction
  <2>1. Immediates(type) = [rdi |-> "module", rsi |-> "symbol", rdx |-> "moduleId",
                            rcx |-> "userAddress", r8 |-> "kernelAddress"]
    BY <1>4 DEF Immediates
  <2> QED BY <1>4, <2>1 DEF StubArguments, ArgumentRegister, Needed, Fields
<1> QED BY <1>1, <1>2, <1>3, <1>4

(* A stub called in a mode it is made for goes through the slot of that    *)
(* mode, or is a syscall stub and goes to ps4Kerncall.                     *)
LEMMA LegalRoute ==
  ASSUME NEW type \in StubTypes, NEW mode \in Modes, Legal(type, mode)
  PROVE  \/ StubRoute(type, mode) = mode
         \/ StubRoute(type, mode) = "kerncall" /\ type \in {Syscall, SyscallAndKernelFunction}
BY DEF Legal, StubRoute, Modes, StubTypes, Function, KernelFunction,
       FunctionAndKernelFunction, SyscallAndKernelFunction, Syscall

(* Steps that change no shared state keep it sound and leave to every      *)
(* thread what it relies on.                                               *)
LEMMA SharedFrame ==
  ASSUME SharedSound, UNCHANGED shared
  PROVE  SharedSound' /\ \A u \in Threads : Untouched(u) => Rely(u)
<1>1. /\ userAddress' = userAddress /\ kernelAddress' = kernelAddress /\ moduleId' = moduleId
      /\ lsm' = lsm /\ past' = past
  BY DEF shared
<1>2. SharedSound'
  BY Zenon, <1>1 DEF SharedSound, UserMeaning, KernelMeaning
<1>3. ASSUME NEW u \in Threads, Untouched(u) PROVE Rely(u)
  BY Zenon, <1>1, <1>3 DEF Rely
<1> QED BY Zenon, <1>2, <1>3

(* What a label does not speak of holds of it.                             *)
LEMMA Vacuous ==
  ASSUME NEW t \in Threads
  PROVE  /\ pc'[t] \notin KernelLabels \cup UserLabels \cup {"error", "wild"} => BranchSound(t)'
         /\ pc'[t] \notin {"kernelDlSym", "kernelStored", "crashed"} \cup (UserLabels \ {"userArgs"})
              => PathSound(t)'
         /\ pc'[t] # "error" => ErrorSound(t)'
         /\ pc'[t] \notin {"error", "return", "failed", "resolved"} => CauseSound(t)'
         /\ pc'[t] \notin {"post", "return"} => SuccessSound(t)'
         /\ pc'[t] # "called" => CalledRightBy(t)'
<1>1. pc'[t] \notin KernelLabels \cup UserLabels \cup {"error", "wild"} => BranchSound(t)'
  BY Zenon DEF BranchSound, InBranch
<1>2. pc'[t] \notin {"kernelDlSym", "kernelStored", "crashed"} \cup (UserLabels \ {"userArgs"})
        => PathSound(t)'
  BY DEF PathSound, UserLabels
<1>3. pc'[t] # "error" => ErrorSound(t)'
  BY Zenon DEF ErrorSound
<1>4. pc'[t] \notin {"error", "return", "failed", "resolved"} => CauseSound(t)'
  BY Zenon DEF CauseSound
<1>5. pc'[t] \notin {"post", "return"} => SuccessSound(t)'
  BY Zenon DEF SuccessSound
<1>6. pc'[t] # "called" => CalledRightBy(t)'
  BY Zenon DEF CalledRightBy
<1> QED BY Zenon, <1>1, <1>2, <1>3, <1>4, <1>5, <1>6

(* At the labels outside the resolver all but the call is vacuous.         *)
LEMMA Outside ==
  ASSUME NEW t \in Threads, CallSound(t)', pc'[t] \in {"idle", "setting", "stub", "pre"}
  PROVE  ThreadSound(t)'
<1>1. /\ pc'[t] \notin KernelLabels \cup UserLabels \cup {"error", "wild"}
      /\ pc'[t] \notin {"kernelDlSym", "kernelStored", "crashed"} \cup (UserLabels \ {"userArgs"})
      /\ pc'[t] \notin {"error", "return", "failed", "resolved", "post", "called"}
  BY DEF KernelLabels, UserLabels
<1> QED BY Zenon, <1>1, Vacuous DEF ThreadSound

(* What a thread's call is stays sound while the resolver works on it.     *)
LEMMA CallFrame ==
  ASSUME NEW t \in Threads, CallSound(t), call'[t] = call[t],
         pc[t] \notin {"idle", "setting", "stub", "called"},
         pc'[t] \notin {"idle", "setting", "stub", "called", "failed"}
  PROVE  CallSound(t)'
<1>1. Fn(t)' = Fn(t) /\ Arg(t)' = Arg(t)
  BY Zenon DEF Fn, Arg
<1> QED BY Zenon, <1>1 DEF CallSound

(* A thread that stays inside the resolver is sound if its new label is.   *)
LEMMA Assemble ==
  ASSUME NEW t \in Threads, ThreadSound(t), call'[t] = call[t], past[t] \subseteq past'[t],
         pc[t] \notin {"idle", "setting", "stub", "called"},
         pc'[t] \notin {"idle", "setting", "stub", "called", "failed"},
         BranchSound(t)',
         Honest(t)' /\ Honest(t) => PathSound(t)' /\ ErrorSound(t)' /\ CauseSound(t)' /\ SuccessSound(t)'
  PROVE  ThreadSound(t)'
<1>1. CallSound(t)
  BY Zenon DEF ThreadSound
<1>2. CallSound(t)'
  BY Zenon, <1>1, CallFrame
<1>3. CalledRightBy(t)'
  BY Zenon, Vacuous
<1>4. Honest(t)' => Honest(t)
  BY Zenon DEF Honest
<1> QED BY Zenon, <1>2, <1>3, <1>4 DEF ThreadSound

(* A thread inside the resolver has what its mode needs, or was called     *)
(* directly and has NULL for what is missing, or the stub does not serve   *)
(* the mode.                                                               *)
LEMMA Arguments ==
  ASSUME NEW t \in Threads, CallSound(t),
         pc[t] \notin {"idle", "setting", "stub", "called"}
  PROVE  \/ call[t].direct /\ \A x \in Fields : Arg(t)[x] # "stray"
         \/ ~call[t].direct /\ ~Served(Type[Fn(t)], call[t].mode)
         \/ ~call[t].direct /\ \A x \in Needed(call[t].mode) : Arg(t)[x] = "own"
BY Zenon DEF CallSound

(* A call of a stub starts soundly, in whatever mode.                      *)
LEMMA CallStubSound ==
  ASSUME Inv, NEW t \in Threads, CallStub(t) PROVE SoundStep(t)
<1>0. TypeOK /\ SharedSound /\ ThreadSound(t)
  BY Zenon DEF Inv
<1> PICK c \in Calls, leftover \in {"null", "stray"} :
      /\ Goto(t, "idle", "stub")
      /\ call' = [call EXCEPT ![t] =
           [fn |-> c[1], mode |-> c[2], direct |-> FALSE,
            args |-> StubArguments(Type[c[1]], leftover)]]
      /\ UNCHANGED <<shared, status, resume, id, k, target, setter>>
  BY Zenon DEF CallStub
<1>1. c[1] \in Functions /\ c[2] \in Modes /\ Type[c[1]] \in StubTypes
  BY ConstantTypes
<1>2. pc'[t] = "stub" /\ \A u \in Threads \ {t} : Untouched(u)
  BY <1>0 DEF Goto, Untouched, TypeOK
<1>3. call'[t] = [fn |-> c[1], mode |-> c[2], direct |-> FALSE,
                  args |-> StubArguments(Type[c[1]], leftover)]
  BY <1>0 DEF TypeOK
<1>4. SharedSound' /\ \A u \in Threads : Untouched(u) => Rely(u)
  BY <1>0, SharedFrame
<1>5. /\ Fn(t)' = c[1] /\ Arg(t)' = StubArguments(Type[c[1]], leftover)
      /\ call'[t].mode = c[2] /\ ~call'[t].direct
  BY <1>3 DEF Fn, Arg
<1>6. CallSound(t)'
  <2>1. CASE StubRoute(Type[c[1]], c[2]) = "kerncall"
    BY Zenon, <1>2, <1>5, <2>1 DEF CallSound
  <2>2. CASE StubRoute(Type[c[1]], c[2]) # "kerncall"
    <3>1. Served(Type[c[1]], c[2]) =>
            \A x \in Needed(c[2]) : StubArguments(Type[c[1]], leftover)[x] = "own"
      BY Zenon, <1>1, <2>2, ServedArguments
    <3> QED BY Zenon, <1>2, <1>5, <3>1 DEF CallSound
  <2> QED BY Zenon, <2>1, <2>2
<1>7. ThreadSound(t)'
  BY Zenon, <1>2, <1>6, Outside
<1> QED BY Zenon, <1>2, <1>4, <1>7 DEF SoundStep

(* ps4Resolve passes only pointers of the stub, and NULL.                  *)
LEMMA ps4ResolveSound ==
  ASSUME Inv, NEW t \in Threads, ps4Resolve(t) PROVE SoundStep(t)
<1>0. TypeOK /\ SharedSound /\ ThreadSound(t)
  BY Zenon DEF Inv
<1> PICK c \in ResolveCalls :
      /\ Goto(t, "idle", IF Type[c[1]] = Syscall THEN "resolved" ELSE "pre")
      /\ call' = [call EXCEPT ![t] =
           [fn |-> c[1], mode |-> c[2], direct |-> TRUE,
            args |-> ResolveArguments(Type[c[1]])]]
      /\ status' = [status EXCEPT ![t] = "Success"]
      /\ UNCHANGED <<shared, resume, id, k, target, setter>>
  BY Zenon DEF ps4Resolve
<1>1. /\ pc'[t] \in {"resolved", "pre"} /\ status'[t] = "Success"
      /\ \A u \in Threads \ {t} : Untouched(u)
  BY <1>0 DEF Goto, Untouched, TypeOK
<1>2. call'[t] = [fn |-> c[1], mode |-> c[2], direct |-> TRUE,
                  args |-> ResolveArguments(Type[c[1]])]
  BY <1>0 DEF TypeOK
<1>3. SharedSound' /\ \A u \in Threads : Untouched(u) => Rely(u)
  BY <1>0, SharedFrame
<1>4. CallSound(t)'
  <2>1. call'[t].direct /\ \A x \in Fields : Arg(t)'[x] # "stray"
    BY <1>2 DEF Arg, ResolveArguments
  <2> QED BY <1>1, <2>1 DEF CallSound
<1>5. CASE pc'[t] = "pre"
  BY Zenon, <1>1, <1>3, <1>4, <1>5, Outside DEF SoundStep
<1>6. CASE pc'[t] = "resolved"
  <2>1. CauseSound(t)'
    BY <1>1 DEF CauseSound, Cause
  <2>2. /\ pc'[t] \notin KernelLabels \cup UserLabels \cup {"error", "wild"}
        /\ pc'[t] \notin {"kernelDlSym", "kernelStored", "crashed"} \cup (UserLabels \ {"userArgs"})
        /\ pc'[t] \notin {"error", "post", "return", "called"}
    BY <1>6 DEF KernelLabels, UserLabels
  <2>3. ThreadSound(t)'
    BY Zenon, <1>4, <2>1, <2>2, Vacuous DEF ThreadSound
  <2> QED BY Zenon, <1>1, <1>3, <2>3 DEF SoundStep
<1> QED BY Zenon, <1>1, <1>5, <1>6

(* A thread that is in no call has nothing to keep.                        *)
LEMMA FinishSound ==
  ASSUME Inv, NEW t \in Threads, Finish(t) PROVE SoundStep(t)
<1>0. TypeOK /\ SharedSound
  BY Zenon DEF Inv
<1>1. pc'[t] = "idle" /\ past'[t] = {} /\ \A u \in Threads \ {t} : Untouched(u) /\ past'[u] = past[u]
  BY <1>0 DEF Finish, Goto, Untouched, TypeOK
<1>2. /\ userAddress' = userAddress /\ kernelAddress' = kernelAddress
      /\ moduleId' = moduleId /\ lsm' = lsm
  BY Zenon DEF Finish
<1>3. SharedSound'
  BY Zenon, <1>0, <1>2 DEF SharedSound, UserMeaning, KernelMeaning
<1>4. \A u \in Threads \ {t} : Rely(u)
  BY Zenon, <1>1, <1>2 DEF Rely
<1>5. ThreadSound(t)'
  BY Zenon, <1>1, Outside DEF CallSound
<1> QED BY Zenon, <1>3, <1>4, <1>5 DEF SoundStep

(* Reading the old handler and choosing a new one.                         *)
LEMMA SetHandlerReadSound ==
  ASSUME Inv, NEW t \in Threads, SetHandlerRead(t) PROVE SoundStep(t)
<1>0. TypeOK /\ SharedSound /\ CallSound(t)
  BY Zenon DEF Inv, ThreadSound
<1>1. pc[t] = "idle" /\ pc'[t] = "setting" /\ \A u \in Threads \ {t} : Untouched(u)
  BY <1>0 DEF SetHandlerRead, Goto, Untouched, TypeOK
<1>2. UNCHANGED shared
  BY Zenon DEF SetHandlerRead
<1>3. past'[t] = past[t]
  BY <1>2 DEF shared
<1>4. SharedSound' /\ \A u \in Threads : Untouched(u) => Rely(u)
  BY Zenon, <1>0, <1>2, SharedFrame
<1>5. CallSound(t)'
  BY Zenon, <1>0, <1>1, <1>3 DEF CallSound
<1> QED BY Zenon, <1>1, <1>4, <1>5, Outside DEF SoundStep

(* Installing it.                                                          *)
LEMMA SetHandlerStoreSound ==
  ASSUME Inv, NEW t \in Threads, SetHandlerStore(t) PROVE SoundStep(t)
<1>0. TypeOK /\ SharedSound /\ CallSound(t)
  BY Zenon DEF Inv, ThreadSound
<1>1. pc[t] = "setting" /\ pc'[t] = "idle" /\ \A u \in Threads \ {t} : Untouched(u)
  BY <1>0 DEF SetHandlerStore, Goto, Untouched, TypeOK
<1>2. /\ userAddress' = userAddress /\ kernelAddress' = kernelAddress
      /\ moduleId' = moduleId /\ lsm' = lsm /\ past' = past
  BY Zenon DEF SetHandlerStore
<1>3. SharedSound'
  BY Zenon, <1>0, <1>2 DEF SharedSound, UserMeaning, KernelMeaning
<1>4. \A u \in Threads \ {t} : Rely(u)
  BY Zenon, <1>1, <1>2 DEF Rely
<1>5. CallSound(t)'
  BY Zenon, <1>0, <1>1, <1>2 DEF CallSound
<1> QED BY Zenon, <1>1, <1>3, <1>4, <1>5, Outside DEF SoundStep

(* The stub jumps through a slot of its own mode, or to ps4Kerncall.       *)
LEMMA EnterStubSound ==
  ASSUME Inv, NEW t \in Threads, EnterStub(t) PROVE SoundStep(t)
<1> DEFINE route == StubRoute(Type[Fn(t)], call[t].mode)
           slot  == IF route = "kerncall" THEN Kerncall
                    ELSE IF route = "kernel" THEN kernelAddress[Fn(t)] ELSE userAddress[Fn(t)]
<1>0. TypeOK /\ SharedSound /\ CallSound(t)
  BY Zenon DEF Inv, ThreadSound
<1>1. /\ pc[t] = "stub" /\ pc'[t] = (IF slot = NULL THEN "pre" ELSE "called")
      /\ target'[t] = slot /\ call'[t] = call[t]
      /\ \A u \in Threads \ {t} : Untouched(u)
  BY <1>0 DEF EnterStub, Goto, Untouched, TypeOK
<1>2. SharedSound' /\ \A u \in Threads : Untouched(u) => Rely(u)
  BY <1>0, SharedFrame DEF EnterStub
<1>3. Fn(t) \in Functions /\ call[t].mode \in Modes /\ Type[Fn(t)] \in StubTypes
  BY <1>0, HandleType, ConstantTypes DEF TypeOK
<1>4. Fn(t)' = Fn(t) /\ Arg(t)' = Arg(t)
  BY Zenon, <1>1 DEF Fn, Arg
<1>5. Kerncall # NULL
  BY ConstantTypes
<1>6. CallSound(t)'
  BY <1>0, <1>1, <1>4, <1>5 DEF CallSound
<1>7. CASE slot = NULL
  BY Zenon, <1>1, <1>2, <1>6, <1>7, Outside DEF SoundStep
<1>8. CASE slot # NULL
  <2>1. pc'[t] = "called"
    BY Zenon, <1>1, <1>8
  <2>2. ASSUME Legal(Type[Fn(t)], call[t].mode)
        PROVE  \/ slot = Kerncall /\ Type[Fn(t)] \in {Syscall, SyscallAndKernelFunction}
               \/ slot \in UserMeaning(Fn(t)) /\ call[t].mode = "user"
               \/ slot \in KernelMeaning(Fn(t)) /\ call[t].mode = "kernel"
    <3>1. \/ route = call[t].mode
          \/ route = "kerncall" /\ Type[Fn(t)] \in {Syscall, SyscallAndKernelFunction}
      BY Zenon, <1>3, <2>2, LegalRoute
    <3>2. call[t].mode \in {"user", "kernel"}
      BY <1>3 DEF Modes
    <3>3. /\ userAddress[Fn(t)] \in UserMeaning(Fn(t)) \cup {NULL}
          /\ kernelAddress[Fn(t)] \in KernelMeaning(Fn(t)) \cup {NULL}
      BY Zenon, <1>0, <1>3 DEF SharedSound
    <3> QED BY <1>8, <3>1, <3>2, <3>3
  <2>3. CalledRightBy(t)'
    BY Zenon, <1>1, <1>4, <2>2 DEF CalledRightBy, UserMeaning, KernelMeaning
  <2>4. /\ pc'[t] \notin KernelLabels \cup UserLabels \cup {"error", "wild"}
        /\ pc'[t] \notin {"kernelDlSym", "kernelStored", "crashed"} \cup (UserLabels \ {"userArgs"})
        /\ pc'[t] \notin {"error", "return", "failed", "resolved", "post"}
    BY <2>1 DEF KernelLabels, UserLabels
  <2>5. ThreadSound(t)'
    BY Zenon, <1>6, <2>3, <2>4, Vacuous DEF ThreadSound
  <2> QED BY Zenon, <1>1, <1>2, <2>5 DEF SoundStep
<1> QED BY Zenon, <1>7, <1>8

(* The slots stay sound, and filled, when a handler stores its address.    *)
LEMMA HandlerSlots ==
  ASSUME TypeOK, SharedSound, NEW t \in Threads, NEW h \in Handlers \cup {NULL},
         HandlerStores(t, h)
  PROVE  /\ \A f \in Functions :
              /\ userAddress'[f] \in UserMeaning(f) \cup {NULL}
              /\ kernelAddress'[f] \in KernelMeaning(f) \cup {NULL}
              /\ userAddress[f] # NULL => userAddress'[f] # NULL
              /\ kernelAddress[f] # NULL => kernelAddress'[f] # NULL
         /\ h # NULL /\ HandlerAddress[h] # NULL /\ ~Declines(t, h) =>
              IF call[t].mode = "kernel" THEN kernelAddress'[Fn(t)] # NULL
                                         ELSE userAddress'[Fn(t)] # NULL
<1>1. Fn(t) \in Functions /\ call[t].mode \in Modes
  BY HandleType DEF TypeOK
<1>2. h # NULL /\ HandlerAddress[h] # NULL => HandlerAddress[h] \in HandlerAddresses
  BY DEF HandlerAddresses
<1> QED BY <1>1, <1>2 DEF HandlerStores, SharedSound, UserMeaning, KernelMeaning, TypeOK, Modes

(* A call of a handler takes nothing from other threads.                   *)
LEMMA HandlerStep ==
  ASSUME TypeOK, SharedSound, NEW t \in Threads, NEW h \in Handlers \cup {NULL}, NEW code \in Status,
         CallHandler(t, h, code), moduleId' = moduleId, lsm' = lsm
  PROVE  /\ SharedSound'
         /\ \A u \in Threads \ {t} : Untouched(u) => Rely(u)
         /\ past[t] \subseteq past'[t]
<1> DEFINE S == {u \in {t} : h # NULL /\ ~Declines(t, h) /\ ~KeepsContract(h, code)}
<1>1. HandlerStores(t, h) /\ Befalls(S, "misled")
  BY Zenon DEF CallHandler
<1>2. \A u \in Threads : /\ past[u] \subseteq past'[u]
                         /\ u # t => past'[u] = past[u]
  <2> HIDE DEF S
  <2>1. \A u \in Threads : u # t => u \notin S
    BY DEF S
  <2> QED BY Zenon, <1>1, <2>1, BefallsAdds
<1>3. \A f \in Functions :
        /\ userAddress'[f] \in UserMeaning(f) \cup {NULL}
        /\ kernelAddress'[f] \in KernelMeaning(f) \cup {NULL}
        /\ userAddress[f] # NULL => userAddress'[f] # NULL
        /\ kernelAddress[f] # NULL => kernelAddress'[f] # NULL
  BY Zenon, <1>1, HandlerSlots
<1>4. SharedSound'
  BY Zenon, <1>3 DEF SharedSound, UserMeaning, KernelMeaning
<1>5. ASSUME NEW u \in Threads \ {t}, Untouched(u) PROVE Rely(u)
  <2>1. Fn(u) \in Functions /\ u \in Threads /\ u # t
    BY HandleType
  <2> QED BY Zenon, <1>2, <1>3, <1>5, <2>1 DEF Rely
<1> QED BY Zenon, <1>2, <1>4, <1>5

(* What a handler that keeps its contract can answer: what it was given, a *)
(* refusal, or an answer that comes with a filled slot.                    *)
LEMMA HandlerAnswers ==
  ASSUME TypeOK, SharedSound, NEW t \in Threads, NEW h \in Handlers \cup {NULL}, NEW code \in Status,
         CallHandler(t, h, code), call'[t] = call[t], Honest(t)'
  PROVE  LET s == HandlerStatus(t, h, code)
         IN  \/ s \in {code, "InterceptFailure"}
             \/ s = "Success" /\ SlotFilled(t)'
             \/ s = "InterceptContinue" /\ code \in Recoverable /\ SlotFilled(t)'
<1> DEFINE S == {u \in {t} : h # NULL /\ ~Declines(t, h) /\ ~KeepsContract(h, code)}
           s == HandlerStatus(t, h, code)
<1>1. HandlerStores(t, h) /\ Befalls(S, "misled")
  BY Zenon DEF CallHandler
<1>2. CASE h = NULL \/ Declines(t, h)
  BY Zenon, <1>2 DEF HandlerStatus
<1>3. CASE h # NULL /\ ~Declines(t, h)
  <2>1. s = HandlerReturn[h][code]
    BY Zenon, <1>3 DEF HandlerStatus
  <2>2. t \notin S
    <3> HIDE DEF S
    <3>1. past'[t] = IF t \in S THEN past[t] \cup {"misled"} ELSE past[t]
      BY Zenon, <1>1, BefallsAdds
    <3> QED BY <3>1 DEF Honest
  <2>3. KeepsContract(h, code)
    BY <1>3, <2>2
  <2>4. HandlerAddress[h] # NULL => SlotFilled(t)'
    <3>1. HandlerAddress[h] # NULL =>
            IF call[t].mode = "kernel" THEN kernelAddress'[Fn(t)] # NULL
                                       ELSE userAddress'[Fn(t)] # NULL
      BY Zenon, <1>1, <1>3, HandlerSlots
    <3> QED BY Zenon, <3>1 DEF SlotFilled, Fn
  <2> QED BY Zenon, <2>1, <2>3, <2>4 DEF KeepsContract
<1> QED BY Zenon, <1>2, <1>3

(* The pre-handler may end the resolution, then with a filled slot.        *)
LEMMA PreHandlerSound ==
  ASSUME Inv, NEW t \in Threads, PreHandler(t) PROVE SoundStep(t)
<1>0. TypeOK /\ SharedSound /\ ThreadSound(t)
  BY Zenon DEF Inv
<1> DEFINE h == handler["pre"]
           s == HandlerStatus(t, h, "InterceptContinue")
<1>1. h \in Handlers \cup {NULL} /\ "InterceptContinue" \in Status
  BY <1>0 DEF TypeOK, Occasions, Status
<1>2. TakesKernelBranch(t) <=> call[t].mode = "kernel"
  BY <1>0, HandleType, ConstantTypes, MarkerByte DEF TakesKernelBranch
<1>3. /\ CallHandler(t, h, "InterceptContinue") /\ moduleId' = moduleId /\ lsm' = lsm
      /\ call' = call
  BY Zenon DEF PreHandler
<1>4. /\ pc[t] = "pre" /\ status'[t] = s
      /\ pc'[t] = (IF s # "InterceptContinue" THEN "return"
                   ELSE IF call[t].mode = "kernel" THEN "kernelType" ELSE "userArgs")
      /\ \A u \in Threads \ {t} : Untouched(u)
  BY <1>0, <1>2 DEF PreHandler, Goto, Untouched, TypeOK
<1>5. /\ SharedSound' /\ past[t] \subseteq past'[t]
      /\ \A u \in Threads \ {t} : Untouched(u) => Rely(u)
  BY Zenon, <1>0, <1>1, <1>3, HandlerStep
<1>6. BranchSound(t)'
  <2>1. call[t].mode \in {"user", "kernel"}
    BY <1>0 DEF TypeOK, Modes
  <2> QED BY <1>3, <1>4, <2>1 DEF BranchSound, InBranch, KernelLabels, UserLabels
<1>7. PathSound(t)' /\ ErrorSound(t)'
  <2>1. /\ pc'[t] # "error"
        /\ pc'[t] \notin {"kernelDlSym", "kernelStored", "crashed"} \cup (UserLabels \ {"userArgs"})
    BY <1>4 DEF UserLabels
  <2> QED BY Zenon, <2>1, Vacuous
<1>8. ASSUME Honest(t)' PROVE CauseSound(t)' /\ SuccessSound(t)'
  <2>1. \/ s \in {"InterceptContinue", "InterceptFailure"}
        \/ s = "Success" /\ SlotFilled(t)'
    BY Zenon, <1>0, <1>1, <1>3, <1>8, HandlerAnswers
  <2>2. CauseSound(t)'
    BY <1>4, <2>1 DEF CauseSound, Cause
  <2>3. SuccessSound(t)'
    BY <1>4, <2>1 DEF SuccessSound
  <2> QED BY Zenon, <2>2, <2>3
<1>9. ThreadSound(t)'
  <2>1. /\ pc[t] \notin {"idle", "setting", "stub", "called"}
        /\ pc'[t] \notin {"idle", "setting", "stub", "called", "failed"}
    BY <1>4
  <2> QED BY Zenon, <1>0, <1>3, <1>5, <1>6, <1>7, <1>8, <2>1, Assemble
<1> QED BY Zenon, <1>4, <1>5, <1>9 DEF SoundStep

(* A step of the resolver that leaves the shared state alone is sound if   *)
(* the new label of the thread is.                                         *)
LEMMA QuietStep ==
  ASSUME Inv, NEW t \in Threads, UNCHANGED shared, call' = call,
         \A u \in Threads \ {t} : Untouched(u),
         pc[t] \notin {"idle", "setting", "stub", "called"},
         pc'[t] \notin {"idle", "setting", "stub", "called", "failed"},
         BranchSound(t)',
         Honest(t) => PathSound(t)' /\ ErrorSound(t)' /\ CauseSound(t)' /\ SuccessSound(t)'
  PROVE  SoundStep(t)
<1>0. SharedSound /\ ThreadSound(t)
  BY Zenon DEF Inv
<1>1. past[t] \subseteq past'[t]
  BY DEF shared
<1>2. SharedSound' /\ \A u \in Threads : Untouched(u) => Rely(u)
  BY Zenon, <1>0, SharedFrame
<1>3. ThreadSound(t)'
  BY Zenon, <1>0, <1>1, Assemble
<1> QED BY Zenon, <1>2, <1>3 DEF SoundStep

(* The type check of the kernel branch never fires: the byte it looks at is*)
(* no stub type.                                                           *)
LEMMA CheckKernelTypeSound ==
  ASSUME Inv, NEW t \in Threads, CheckKernelType(t) PROVE SoundStep(t)
<1>0. TypeOK /\ BranchSound(t)
  BY Zenon DEF Inv, ThreadSound
<1>1. ps4StubType(Type[Fn(t)]) # Function
  BY <1>0, HandleType, ConstantTypes, MarkerByte
<1>2. /\ pc[t] = "kernelType" /\ pc'[t] = "kernelArgs"
      /\ \A u \in Threads \ {t} : Untouched(u)
  BY <1>0, <1>1 DEF CheckKernelType, Check, Goto, Untouched, TypeOK
<1>3. UNCHANGED shared /\ call' = call
  BY Zenon DEF CheckKernelType
<1>4. BranchSound(t)'
  BY <1>0, <1>2, <1>3 DEF BranchSound, InBranch, KernelLabels, UserLabels
<1>5. /\ pc'[t] \notin {"kernelDlSym", "kernelStored", "crashed"} \cup (UserLabels \ {"userArgs"})
      /\ pc'[t] \notin {"error", "return", "failed", "resolved", "post", "idle", "setting", "stub", "called"}
      /\ pc[t] \notin {"idle", "setting", "stub", "called"}
  BY <1>2 DEF UserLabels
<1> QED BY Zenon, <1>2, <1>3, <1>4, <1>5, Vacuous, QuietStep

(* An argument error is sound: it has a cause, and going on after it leads *)
(* to the same branch.                                                     *)
LEMMA ArgumentErrorSound ==
  ASSUME Inv, NEW t \in Threads, UNCHANGED shared, call' = call,
         \A u \in Threads \ {t} : Untouched(u),
         pc[t] \in {"kernelArgs", "userArgs"}, pc'[t] = "error", status'[t] = "ArgumentError",
         resume'[t] = (IF pc[t] = "kernelArgs" THEN "kernelDlSym" ELSE "moduleId"),
         \E x \in Needed(call[t].mode) : Arg(t)[x] = "null"
  PROVE  SoundStep(t)
<1>0. CallSound(t) /\ BranchSound(t)
  BY Zenon DEF Inv, ThreadSound
<1>1. pc[t] \notin {"idle", "setting", "stub", "called"}
  OBVIOUS
<1>2. call[t].direct \/ ~Served(Type[Fn(t)], call[t].mode)
  BY <1>0, <1>1, Arguments
<1>3. BranchSound(t)'
  BY <1>0 DEF BranchSound, InBranch, KernelLabels, UserLabels
<1>4. CauseSound(t)'
  BY <1>2 DEF CauseSound, Cause, Fn
<1>5. ErrorSound(t)'
  BY DEF ErrorSound, Recoverable
<1>6. /\ pc'[t] \notin {"kernelDlSym", "kernelStored", "crashed"} \cup (UserLabels \ {"userArgs"})
      /\ pc'[t] \notin {"idle", "setting", "stub", "called", "failed", "post", "return"}
  BY DEF UserLabels
<1> QED BY Zenon, <1>1, <1>3, <1>4, <1>5, <1>6, Vacuous, QuietStep

(* The argument check of the kernel branch.                                *)
LEMMA CheckKernelArgumentsSound ==
  ASSUME Inv, NEW t \in Threads, CheckKernelArguments(t) PROVE SoundStep(t)
<1>0. TypeOK /\ BranchSound(t)
  BY Zenon DEF Inv, ThreadSound
<1> DEFINE bad == Arg(t).symbol = "null" \/ Arg(t).kernelAddress = "null"
<1>1. /\ pc[t] = "kernelArgs" /\ pc'[t] = (IF bad THEN "error" ELSE "kernelDlSym")
      /\ bad => status'[t] = "ArgumentError" /\ resume'[t] = "kernelDlSym"
      /\ \A u \in Threads \ {t} : Untouched(u)
  BY <1>0 DEF CheckKernelArguments, Check, Goto, Untouched, TypeOK
<1>2. UNCHANGED shared /\ call' = call
  BY Zenon DEF CheckKernelArguments
<1>3. call[t].mode = "kernel"
  BY <1>0, <1>1 DEF BranchSound, InBranch, KernelLabels
<1>4. bad <=> \E x \in Needed("kernel") : Arg(t)[x] = "null"
  BY DEF Needed
<1>5. CASE bad
  BY Zenon, <1>1, <1>2, <1>3, <1>4, <1>5, ArgumentErrorSound
<1>6. CASE ~bad
  <2>1. pc'[t] = "kernelDlSym"
    BY Zenon, <1>1, <1>6
  <2>2. BranchSound(t)'
    BY <1>2, <1>3, <2>1 DEF BranchSound, InBranch, KernelLabels, UserLabels
  <2>3. \A x \in Needed("kernel") : Arg(t)'[x] # "null"
    BY Zenon, <1>2, <1>4, <1>6 DEF Arg
  <2>4. PathSound(t)'
    BY <2>1, <2>3 DEF PathSound, UserLabels
  <2>5. /\ pc'[t] \notin {"error", "return", "failed", "resolved", "post", "idle", "setting", "stub", "called"}
        /\ pc[t] \notin {"idle", "setting", "stub", "called"}
    BY <1>1, <2>1
  <2> QED BY Zenon, <1>1, <1>2, <2>2, <2>4, <2>5, Vacuous, QuietStep
<1> QED BY Zenon, <1>5, <1>6

(* The argument check of the user branch.                                  *)
LEMMA CheckUserArgumentsSound ==
  ASSUME Inv, NEW t \in Threads, CheckUserArguments(t) PROVE SoundStep(t)
<1>0. TypeOK /\ BranchSound(t)
  BY Zenon DEF Inv, ThreadSound
<1> DEFINE bad == \E x \in Fields \ {"kernelAddress"} : Arg(t)[x] = "null"
<1>1. /\ pc[t] = "userArgs" /\ pc'[t] = (IF bad THEN "error" ELSE "moduleId")
      /\ bad => status'[t] = "ArgumentError" /\ resume'[t] = "moduleId"
      /\ \A u \in Threads \ {t} : Untouched(u)
  BY <1>0 DEF CheckUserArguments, Check, Goto, Untouched, TypeOK
<1>2. UNCHANGED shared /\ call' = call
  BY Zenon DEF CheckUserArguments
<1>3. call[t].mode = "user"
  BY <1>0, <1>1 DEF BranchSound, InBranch, UserLabels
<1>4. bad <=> \E x \in Needed("user") : Arg(t)[x] = "null"
  BY DEF Needed
<1>5. CASE bad
  BY Zenon, <1>1, <1>2, <1>3, <1>4, <1>5, ArgumentErrorSound
<1>6. CASE ~bad
  <2>1. pc'[t] = "moduleId"
    BY Zenon, <1>1, <1>6
  <2>2. BranchSound(t)'
    BY <1>2, <1>3, <2>1 DEF BranchSound, InBranch, KernelLabels, UserLabels
  <2>3. \A x \in Needed("user") : Arg(t)'[x] # "null"
    BY Zenon, <1>2, <1>4, <1>6 DEF Arg
  <2>4. PathSound(t)'
    BY <2>1, <2>3 DEF PathSound, UserLabels
  <2>5. /\ pc'[t] \notin {"error", "return", "failed", "resolved", "post", "idle", "setting", "stub", "called"}
        /\ pc[t] \notin {"idle", "setting", "stub", "called"}
    BY <1>1, <2>1
  <2> QED BY Zenon, <1>1, <1>2, <2>2, <2>4, <2>5, Vacuous, QuietStep
<1> QED BY Zenon, <1>5, <1>6

(* The kernel lookup stores what the kernel exports under the stub's name, *)
(* and only for a missing symbol takes an address out of the slot.         *)
LEMMA KernelDlSymSound ==
  ASSUME Inv, NEW t \in Threads, KernelDlSym(t) PROVE SoundStep(t)
<1> DEFINE used == {Arg(t).symbol, Arg(t).kernelAddress}
           S == {u \in Threads : /\ kernelAddress[Fn(t)] # NULL
                                 /\ kernelAddress'[Fn(t)] = NULL
                                 /\ Resolving(u) /\ Fn(u) = Fn(t)}
<1>0. TypeOK /\ SharedSound /\ ThreadSound(t) /\ Fn(t) \in Functions
  BY Zenon, HandleType DEF Inv
<1>1. /\ Befalls(S, "emptied") /\ call' = call
      /\ userAddress' = userAddress /\ moduleId' = moduleId /\ lsm' = lsm
  BY DEF KernelDlSym, local
<1>2. /\ pc[t] = "kernelDlSym"
      /\ pc'[t] = (IF "null" \in used THEN "crashed"
                   ELSE IF "stray" \in used THEN "wild" ELSE "kernelStored")
      /\ \A u \in Threads \ {t} : Untouched(u)
  BY <1>0 DEF KernelDlSym, Goto, Untouched, TypeOK, local
<1>3. \A u \in Threads : /\ past'[u] = IF u \in S THEN past[u] \cup {"emptied"} ELSE past[u]
                         /\ past[u] \subseteq past'[u]
  <2> HIDE DEF S
  <2> QED BY Zenon, <1>1, BefallsAdds
<1>4. \A f \in Functions : \/ kernelAddress'[f] = kernelAddress[f]
                           \/ f = Fn(t) /\ kernelAddress'[f] = KernelSymbol[f]
  BY <1>0 DEF KernelDlSym, TypeOK
<1>5. SharedSound'
  BY Zenon, <1>0, <1>1, <1>4 DEF SharedSound, UserMeaning, KernelMeaning
<1>6. ASSUME NEW u \in Threads \ {t} PROVE Rely(u)
  <2>1. Fn(u) \in Functions /\ u \in Threads
    BY <1>0, HandleType
  <2>2. u \in S <=> /\ kernelAddress[Fn(t)] # NULL /\ kernelAddress'[Fn(t)] = NULL
                    /\ Resolving(u) /\ Fn(u) = Fn(t)
    BY Zenon, <2>1
  <2> HIDE DEF S
  <2>3. /\ "misled" \in past'[u] => "misled" \in past[u]
        /\ u \in S => "emptied" \in past'[u]
    <3>1. past'[u] = IF u \in S THEN past[u] \cup {"emptied"} ELSE past[u]
      BY Zenon, <1>3, <2>1
    <3> QED BY <3>1
  <2>4. /\ ~Resolving(u) => past'[u] = past[u]
        /\ Resolving(u) /\ kernelAddress[Fn(u)] # NULL =>
             kernelAddress'[Fn(u)] # NULL \/ "emptied" \in past'[u]
    BY Zenon, <1>3, <1>4, <2>1, <2>2, <2>3
  <2>5. KernelSymbol[Fn(u)] # NULL /\ kernelAddress[Fn(u)] # NULL => kernelAddress'[Fn(u)] # NULL
    BY Zenon, <1>4, <2>1
  <2> QED BY Zenon, <1>1, <1>2, <1>3, <1>6, <2>1, <2>3, <2>4, <2>5 DEF Rely
<1>7. call[t].mode = "kernel"
  BY <1>0, <1>2 DEF ThreadSound, BranchSound, InBranch, KernelLabels
<1>8. Honest(t) => "null" \notin used
  BY <1>0, <1>2 DEF ThreadSound, PathSound, Needed
<1>9. "stray" \in used => ~call[t].direct /\ ~Served(Type[Fn(t)], call[t].mode)
  <2>1. CallSound(t) /\ pc[t] \notin {"idle", "setting", "stub", "called"}
    BY <1>0, <1>2 DEF ThreadSound
  <2>2. \/ call[t].direct /\ \A x \in Fields : Arg(t)[x] # "stray"
        \/ ~call[t].direct /\ ~Served(Type[Fn(t)], call[t].mode)
        \/ ~call[t].direct /\ \A x \in Needed(call[t].mode) : Arg(t)[x] = "own"
    BY Zenon, <2>1, Arguments
  <2> QED BY <1>7, <2>2 DEF Needed, Fields
<1>10. BranchSound(t)'
  <2>1. Fn(t)' = Fn(t)
    BY Zenon, <1>1 DEF Fn
  <2> QED BY <1>1, <1>2, <1>7, <1>9, <2>1 DEF BranchSound, InBranch, KernelLabels, UserLabels
<1>11. ASSUME Honest(t) PROVE PathSound(t)'
  <2>1. CASE "stray" \in used
    <3>1. pc'[t] = "wild"
      BY Zenon, <1>2, <1>8, <1>11, <2>1
    <3> QED BY <3>1 DEF PathSound, UserLabels
  <2>2. CASE "stray" \notin used
    <3>1. pc'[t] = "kernelStored"
      BY Zenon, <1>2, <1>8, <1>11, <2>2
    <3>2. Arg(t).symbol \in Pointers /\ Arg(t).kernelAddress \in Pointers
      BY <1>0 DEF TypeOK, Arg, Fields
    <3>3. used = {"own"}
      BY <1>8, <1>11, <2>2, <3>2 DEF Pointers
    <3>4. kernelAddress'[Fn(t)] = KernelSymbol[Fn(t)]
      BY <1>0, <3>3 DEF KernelDlSym, TypeOK
    <3>5. KernelSymbol[Fn(t)'] = NULL \/ kernelAddress'[Fn(t)'] # NULL
      BY <1>1, <3>4 DEF Fn
    <3> QED BY <3>1, <3>5 DEF PathSound, UserLabels
  <2> QED BY Zenon, <2>1, <2>2
<1>12. /\ pc'[t] \notin {"error", "return", "failed", "resolved", "post", "idle", "setting", "stub", "called"}
       /\ pc[t] \notin {"idle", "setting", "stub", "called"}
  BY <1>2
<1>13. past[t] \subseteq past'[t] /\ call'[t] = call[t]
  BY Zenon, <1>1, <1>3
<1>14. ThreadSound(t)'
  BY Zenon, <1>0, <1>10, <1>11, <1>12, <1>13, Vacuous, Assemble
<1> QED BY Zenon, <1>5, <1>6, <1>14 DEF SoundStep

(* A missing kernel symbol is the only reason to report one.               *)
LEMMA CheckKernelSymbolSound ==
  ASSUME Inv, NEW t \in Threads, CheckKernelSymbol(t) PROVE SoundStep(t)
<1>0. TypeOK /\ ThreadSound(t)
  BY Zenon DEF Inv
<1> PICK v \in {KernelSymbol[Fn(t)], kernelAddress[Fn(t)]} :
      Check(t, "kernelStored", v = NULL, "KernelFunctionResolveError", "post")
  BY DEF CheckKernelSymbol
<1>1. /\ pc[t] = "kernelStored" /\ pc'[t] = (IF v = NULL THEN "error" ELSE "post")
      /\ v = NULL => status'[t] = "KernelFunctionResolveError" /\ resume'[t] = "post"
      /\ \A u \in Threads \ {t} : Untouched(u)
  BY <1>0 DEF CheckKernelSymbol, Check, Goto, Untouched, TypeOK
<1>2. UNCHANGED shared /\ call' = call
  BY Zenon DEF CheckKernelSymbol
<1>3. kernelAddress' = kernelAddress /\ Fn(t)' = Fn(t)
  BY <1>2 DEF shared, Fn
<1>4. call[t].mode = "kernel"
  BY <1>0, <1>1 DEF ThreadSound, BranchSound, InBranch, KernelLabels
<1>5. Honest(t) => KernelSymbol[Fn(t)] = NULL \/ kernelAddress[Fn(t)] # NULL
  BY Zenon, <1>0, <1>1 DEF ThreadSound, PathSound
<1>6. BranchSound(t)'
  BY <1>1, <1>2 DEF BranchSound, InBranch, KernelLabels, UserLabels
<1>7. /\ pc'[t] \notin {"kernelDlSym", "kernelStored", "crashed"} \cup (UserLabels \ {"userArgs"})
      /\ pc'[t] \notin {"return", "failed", "resolved", "idle", "setting", "stub", "called"}
      /\ pc[t] \notin {"idle", "setting", "stub", "called"}
  BY <1>1 DEF UserLabels
<1>8. ASSUME Honest(t) PROVE ErrorSound(t)' /\ CauseSound(t)' /\ SuccessSound(t)'
  <2>1. v = NULL => KernelSymbol[Fn(t)] = NULL
    BY Zenon, <1>5, <1>8
  <2>2. v # NULL => kernelAddress[Fn(t)] # NULL
    BY Zenon, <1>5, <1>8
  <2>3. ErrorSound(t)'
    BY <1>1 DEF ErrorSound, Recoverable
  <2>4. CauseSound(t)'
    BY <1>1, <1>3, <2>1 DEF CauseSound, Cause
  <2>5. SuccessSound(t)'
    BY Zenon, <1>1, <1>2, <1>3, <1>4, <2>2 DEF SuccessSound, SlotFilled
  <2> QED BY Zenon, <2>3, <2>4, <2>5
<1> QED BY Zenon, <1>1, <1>2, <1>6, <1>7, <1>8, Vacuous, QuietStep
=============================================================================
