--------------------------- MODULE Resolve_proof ----------------------------
(***************************************************************************)
(* The steps of the user branch of the resolver, and the theorems about    *)
(* Resolve: with the steps of ResolveSteps_proof they show that Inv is     *)
(* inductive, and each safety property follows from Inv.  Nothing is       *)
(* assumed of the program: neither of the modes it calls stubs in nor of   *)
(* its handlers.                                                           *)
(***************************************************************************)
EXTENDS ResolveSteps_proof

(* The user branch after its argument check: a thread keeps its mode and   *)
(* its arguments from one label to the next.                               *)
LEMMA UserPath ==
  ASSUME NEW t \in Threads, ThreadSound(t), call' = call, past[t] \subseteq past'[t],
         pc[t] \in UserLabels \ {"userArgs"},
         pc'[t] \in {"lsm", "loadKernel", "lsmDlSym", "load", "loaded", "dlSym"},
         pc'[t] = "lsmDlSym" => k'[t],
         pc'[t] = "load" => lsm',
         pc'[t] \in {"loaded", "dlSym"} /\ Honest(t) =>
           /\ id'[t] # 0 /\ moduleId'[Mod(t)] # 0
           /\ -1 \in {id'[t], moduleId'[Mod(t)]} => "loadFailed" \in past'[t]
  PROVE  ThreadSound(t)'
<1>1. call[t].mode = "user"
  BY Zenon DEF ThreadSound, BranchSound, InBranch
<1>2. Mod(t)' = Mod(t) /\ Arg(t)' = Arg(t)
  BY Zenon DEF Mod, Fn, Arg
<1>3. BranchSound(t)'
  BY <1>1 DEF BranchSound, InBranch, KernelLabels, UserLabels
<1>4. ASSUME Honest(t) PROVE PathSound(t)'
  <2>1. \A x \in Needed("user") : Arg(t)[x] # "null"
    BY Zenon, <1>4 DEF ThreadSound, PathSound
  <2>2. pc'[t] \notin {"kernelDlSym", "kernelStored", "crashed"}
    OBVIOUS
  <2> QED BY Zenon, <1>2, <1>4, <2>1, <2>2 DEF PathSound
<1>5. /\ pc[t] \notin {"idle", "setting", "stub", "called"}
      /\ pc'[t] \notin {"idle", "setting", "stub", "called", "failed", "error", "return", "resolved", "post"}
  BY DEF UserLabels
<1> QED BY Zenon, <1>3, <1>4, <1>5, Vacuous, Assemble

(* An error of the user branch that is not about arguments.                *)
LEMMA UserError ==
  ASSUME NEW t \in Threads, ThreadSound(t), call' = call, past[t] \subseteq past'[t],
         pc[t] \in UserLabels \ {"userArgs"}, pc'[t] = "error",
         NEW code \in Status \ {"Success", "InterceptContinue", "InterceptFailure"},
         status'[t] = code, resume'[t] \in UserLabels \cup {"post"},
         Honest(t) => Cause(t, code)',
         code = "ModuleLoadError" =>
           /\ resume'[t] = "dlSym"
           /\ Honest(t) => /\ moduleId'[Mod(t)] # 0
                           /\ moduleId'[Mod(t)] = -1 => "loadFailed" \in past'[t],
         code \in Recoverable \ {"ModuleLoadError"} => resume'[t] = "post"
  PROVE  ThreadSound(t)'
<1>1. call[t].mode = "user"
  BY Zenon DEF ThreadSound, BranchSound, InBranch
<1>2. Mod(t)' = Mod(t) /\ Arg(t)' = Arg(t)
  BY Zenon DEF Mod, Fn, Arg
<1>3. BranchSound(t)'
  BY <1>1 DEF BranchSound, InBranch, KernelLabels, UserLabels
<1>4. ASSUME Honest(t) PROVE ErrorSound(t)' /\ CauseSound(t)'
  <2>1. \A x \in Needed("user") : Arg(t)[x] # "null"
    BY Zenon, <1>4 DEF ThreadSound, PathSound
  <2> QED BY Zenon, <1>2, <1>4, <2>1 DEF ErrorSound, CauseSound
<1>5. /\ pc[t] \notin {"idle", "setting", "stub", "called"}
      /\ pc'[t] \notin {"idle", "setting", "stub", "called", "failed", "post", "return"}
      /\ pc'[t] \notin {"kernelDlSym", "kernelStored", "crashed"} \cup (UserLabels \ {"userArgs"})
  BY DEF UserLabels
<1> QED BY Zenon, <1>3, <1>4, <1>5, Vacuous, Assemble

(* A NULL dereference or a stray pointer in the user branch.               *)
LEMMA UserBadAccess ==
  ASSUME NEW t \in Threads, ThreadSound(t), call' = call, past[t] \subseteq past'[t],
         pc[t] \in UserLabels, pc'[t] \in {"crashed", "wild"},
         pc'[t] = "crashed" => ~Honest(t),
         pc'[t] = "wild" => ~call[t].direct /\ ~Served(Type[Fn(t)], call[t].mode)
  PROVE  ThreadSound(t)'
<1>1. Fn(t)' = Fn(t)
  BY Zenon DEF Fn
<1>2. BranchSound(t)'
  BY <1>1 DEF BranchSound, InBranch, KernelLabels, UserLabels
<1>3. Honest(t) => PathSound(t)'
  BY DEF PathSound, UserLabels
<1>4. /\ pc[t] \notin {"idle", "setting", "stub", "called"}
      /\ pc'[t] \notin {"idle", "setting", "stub", "called", "failed", "error", "return", "resolved", "post"}
  BY DEF UserLabels
<1> QED BY Zenon, <1>2, <1>3, <1>4, Vacuous, Assemble

(* The first access through a pointer that the stub passes.                *)
LEMMA ReadModuleIdSound ==
  ASSUME Inv, NEW t \in Threads, ReadModuleId(t) PROVE SoundStep(t)
<1>0. TypeOK /\ SharedSound /\ ThreadSound(t)
  BY Zenon DEF Inv
<1>1. pc[t] = "moduleId" /\ UNCHANGED shared /\ call' = call
  BY Zenon DEF ReadModuleId
<1>2. \A u \in Threads \ {t} : Untouched(u)
  BY <1>0 DEF ReadModuleId, Goto, Untouched, TypeOK
<1>3. SharedSound' /\ \A u \in Threads : Untouched(u) => Rely(u)
  BY Zenon, <1>0, <1>1, SharedFrame
<1>4. moduleId' = moduleId /\ past[t] \subseteq past'[t] /\ past'[t] = past[t]
  BY <1>1 DEF shared
<1>5. pc[t] \in UserLabels \ {"userArgs"}
  BY <1>1 DEF UserLabels
<1>6. CASE Arg(t).moduleId = "own"
  <2>1. \/ pc'[t] = "lsm"
        \/ pc'[t] = "dlSym" /\ moduleId[Mod(t)] > 0 /\ id'[t] = moduleId[Mod(t)]
    BY <1>0, <1>6 DEF ReadModuleId, Goto, TypeOK
  <2>2. moduleId[Mod(t)] \in {-1, 0, 1}
    BY <1>0, HandleType
  <2>3. pc'[t] = "dlSym" => /\ id'[t] # 0 /\ moduleId'[Mod(t)] # 0
                            /\ -1 \notin {id'[t], moduleId'[Mod(t)]}
    BY <1>4, <2>1, <2>2
  <2>4. pc'[t] \in {"lsm", "dlSym"}
    BY Zenon, <2>1
  <2>5. ThreadSound(t)'
    BY Zenon, <1>0, <1>1, <1>4, <1>5, <2>3, <2>4, UserPath
  <2> QED BY Zenon, <1>2, <1>3, <2>5 DEF SoundStep
<1>7. CASE Arg(t).moduleId # "own"
  <2>1. pc'[t] = IF Arg(t).moduleId = "null" THEN "crashed" ELSE "wild"
    BY <1>0, <1>7 DEF ReadModuleId, Goto, TypeOK
  <2>2. Arg(t).moduleId \in Pointers /\ "moduleId" \in Fields
    BY <1>0 DEF TypeOK, Arg, Fields
  <2>3. "moduleId" \in Needed("user")
    BY DEF Needed, Fields
  <2>4. pc'[t] = "crashed" => ~Honest(t)
    BY Zenon, <1>0, <1>5, <2>1, <2>3 DEF ThreadSound, PathSound
  <2>5. pc'[t] = "wild" => ~call[t].direct /\ ~Served(Type[Fn(t)], call[t].mode)
    <3>1. call[t].mode = "user" /\ CallSound(t)
      BY Zenon, <1>0, <1>5 DEF ThreadSound, BranchSound, InBranch
    <3>2. pc[t] \notin {"idle", "setting", "stub", "called"}
      BY <1>1
    <3>3. \/ call[t].direct /\ \A x \in Fields : Arg(t)[x] # "stray"
          \/ ~call[t].direct /\ ~Served(Type[Fn(t)], call[t].mode)
          \/ ~call[t].direct /\ \A x \in Needed("user") : Arg(t)[x] = "own"
      BY Zenon, <3>1, <3>2, Arguments
    <3>4. pc'[t] = "wild" => Arg(t).moduleId = "stray"
      BY <1>7, <2>1, <2>2 DEF Pointers
    <3> QED BY Zenon, <1>7, <2>2, <2>3, <3>3, <3>4
  <2>6. ThreadSound(t)'
    BY Zenon, <1>0, <1>1, <1>4, <1>5, <2>1, <2>4, <2>5, UserBadAccess
  <2> QED BY Zenon, <1>2, <1>3, <2>6 DEF SoundStep
<1> QED BY Zenon, <1>6, <1>7

(* The lsm pointer, once seen set, stays set.                              *)
LEMMA ReadLsmSound ==
  ASSUME Inv, NEW t \in Threads, ReadLsm(t) PROVE SoundStep(t)
<1>0. TypeOK /\ SharedSound /\ ThreadSound(t)
  BY Zenon DEF Inv
<1>1. /\ pc[t] = "lsm" /\ pc'[t] = (IF lsm THEN "load" ELSE "loadKernel")
      /\ \A u \in Threads \ {t} : Untouched(u)
  BY <1>0 DEF ReadLsm, Goto, Untouched, TypeOK, local
<1>2. UNCHANGED shared /\ call' = call
  BY DEF ReadLsm, local
<1>3. SharedSound' /\ \A u \in Threads : Untouched(u) => Rely(u)
  BY Zenon, <1>0, <1>2, SharedFrame
<1>4. lsm' = lsm /\ past[t] \subseteq past'[t]
  BY <1>2 DEF shared
<1>5. pc[t] \in UserLabels \ {"userArgs"}
  BY <1>1 DEF UserLabels
<1>6. ThreadSound(t)'
  BY Zenon, <1>0, <1>1, <1>2, <1>4, <1>5, UserPath
<1> QED BY Zenon, <1>1, <1>3, <1>6 DEF SoundStep

(* libkernel fails to load only if it may.                                 *)
LEMMA LoadKernelSound ==
  ASSUME Inv, NEW t \in Threads, LoadKernel(t) PROVE SoundStep(t)
<1>0. TypeOK /\ SharedSound /\ ThreadSound(t)
  BY Zenon DEF Inv
<1> PICK ok \in BOOLEAN :
      /\ ~ok => "kernel" \in MayFail
      /\ k' = [k EXCEPT ![t] = ok]
      /\ Check(t, "loadKernel", ~ok, "KernelLoadError", "lsmDlSym")
      /\ UNCHANGED <<shared, call, id, target, setter>>
  BY Zenon DEF LoadKernel
<1>1. /\ pc[t] = "loadKernel" /\ pc'[t] = (IF ok THEN "lsmDlSym" ELSE "error")
      /\ ~ok => status'[t] = "KernelLoadError" /\ resume'[t] = "lsmDlSym"
      /\ k'[t] = ok /\ \A u \in Threads \ {t} : Untouched(u)
  BY <1>0 DEF Check, Goto, Untouched, TypeOK
<1>2. UNCHANGED shared /\ call' = call
  OBVIOUS
<1>3. SharedSound' /\ \A u \in Threads : Untouched(u) => Rely(u)
  BY Zenon, <1>0, <1>2, SharedFrame
<1>4. past[t] \subseteq past'[t]
  BY <1>2 DEF shared
<1>5. pc[t] \in UserLabels \ {"userArgs"} /\ "lsmDlSym" \in UserLabels
  BY <1>1 DEF UserLabels
<1>6. CASE ok
  <2>1. ThreadSound(t)'
    BY Zenon, <1>0, <1>1, <1>2, <1>4, <1>5, <1>6, UserPath
  <2> QED BY Zenon, <1>1, <1>3, <2>1 DEF SoundStep
<1>7. CASE ~ok
  <2>1. Cause(t, "KernelLoadError")'
    BY <1>7 DEF Cause
  <2>2. /\ "KernelLoadError" \in Status \ {"Success", "InterceptContinue", "InterceptFailure"}
        /\ "KernelLoadError" \notin Recoverable
    BY DEF Status, Recoverable
  <2>3. ThreadSound(t)'
    BY Zenon, <1>0, <1>1, <1>2, <1>4, <1>5, <1>7, <2>1, <2>2, UserError
  <2> QED BY Zenon, <1>1, <1>3, <2>3 DEF SoundStep
<1> QED BY Zenon, <1>6, <1>7

(* The lsm pointer is set when the resolver goes on to use it.             *)
LEMMA ResolveLsmSound ==
  ASSUME Inv, NEW t \in Threads, ResolveLsm(t) PROVE SoundStep(t)
<1>0. TypeOK /\ SharedSound /\ ThreadSound(t)
  BY Zenon DEF Inv
<1> PICK ok \in {k[t], FALSE} :
      /\ ok # k[t] => "lsm" \in MayFail
      /\ lsm' = (lsm \/ ok)
      /\ k' = [k EXCEPT ![t] = FALSE]
      /\ Check(t, "lsmDlSym", ~ok, "LSMResolveError", "load")
      /\ UNCHANGED <<userAddress, kernelAddress, moduleId, handler, past,
                     call, id, target, setter>>
  BY Zenon DEF ResolveLsm
<1>1. /\ pc[t] = "lsmDlSym" /\ pc'[t] = (IF ok THEN "load" ELSE "error")
      /\ ~ok => status'[t] = "LSMResolveError" /\ resume'[t] = "load"
      /\ \A u \in Threads \ {t} : Untouched(u)
  BY <1>0 DEF Check, Goto, Untouched, TypeOK
<1>2. /\ userAddress' = userAddress /\ kernelAddress' = kernelAddress
      /\ moduleId' = moduleId /\ past' = past /\ call' = call /\ (lsm => lsm') /\ (ok => lsm')
  BY Zenon
<1>3. SharedSound'
  BY Zenon, <1>0, <1>2 DEF SharedSound, UserMeaning, KernelMeaning
<1>4. \A u \in Threads \ {t} : Rely(u)
  BY Zenon, <1>1, <1>2 DEF Rely
<1>5. pc[t] \in UserLabels \ {"userArgs"} /\ "load" \in UserLabels /\ past[t] \subseteq past'[t]
  BY <1>1, <1>2 DEF UserLabels
<1>6. CASE ok
  <2>1. ThreadSound(t)'
    BY Zenon, <1>0, <1>1, <1>2, <1>5, <1>6, UserPath
  <2> QED BY Zenon, <1>3, <1>4, <2>1 DEF SoundStep
<1>7. CASE ~ok
  <2>1. Honest(t) => k[t]
    BY Zenon, <1>0, <1>1 DEF ThreadSound, PathSound
  <2>2. Honest(t) => "lsm" \in MayFail
    BY Zenon, <1>7, <2>1
  <2>3. Honest(t) => Cause(t, "LSMResolveError")'
    BY <2>2 DEF Cause
  <2>4. /\ "LSMResolveError" \in Status \ {"Success", "InterceptContinue", "InterceptFailure"}
        /\ "LSMResolveError" \notin Recoverable
    BY DEF Status, Recoverable
  <2>5. ThreadSound(t)'
    BY Zenon, <1>0, <1>1, <1>2, <1>5, <1>7, <2>3, <2>4, UserError
  <2> QED BY Zenon, <1>3, <1>4, <2>5 DEF SoundStep
<1> QED BY Zenon, <1>6, <1>7

(* The result of the load is never 0, and an error is in the history of    *)
(* every call that could meet it.                                          *)
LEMMA LoadModuleSound ==
  ASSUME Inv, NEW t \in Threads, LoadModule(t) PROVE SoundStep(t)
<1>0. TypeOK /\ SharedSound /\ ThreadSound(t) /\ Mod(t) \in Modules
  BY Zenon, HandleType DEF Inv
<1>1. pc[t] = "load"
  BY DEF LoadModule, Goto
<1>2. pc[t] \in UserLabels \ {"userArgs"}
  BY <1>1 DEF UserLabels
<1>3. CASE ~lsm
  <2>1. UNCHANGED <<shared, local>> /\ Goto(t, "load", "crashed")
    BY Zenon, <1>3 DEF LoadModule
  <2>2. pc'[t] = "crashed" /\ \A u \in Threads \ {t} : Untouched(u)
    BY <1>0, <2>1 DEF Goto, Untouched, TypeOK, local
  <2>3. UNCHANGED shared /\ call' = call /\ past[t] \subseteq past'[t]
    BY <2>1 DEF local, shared
  <2>4. SharedSound' /\ \A u \in Threads : Untouched(u) => Rely(u)
    BY Zenon, <1>0, <2>3, SharedFrame
  <2>5. ~Honest(t)
    BY Zenon, <1>0, <1>1, <1>3 DEF ThreadSound, PathSound
  <2>6. ThreadSound(t)'
    BY Zenon, <1>0, <1>2, <2>2, <2>3, <2>5, UserBadAccess
  <2> QED BY Zenon, <2>2, <2>4, <2>6 DEF SoundStep
<1>4. CASE lsm
  <2>0. PICK r \in {1, -1} :
        /\ moduleId' = [moduleId EXCEPT ![Mod(t)] = r]
        /\ id' = [id EXCEPT ![t] = r]
        /\ Befalls({u \in Threads : r < 0 /\ Resolving(u) /\ Mod(u) = Mod(t)}, "loadFailed")
        /\ Goto(t, "load", "loaded")
        /\ UNCHANGED <<userAddress, kernelAddress, lsm, handler,
                       call, status, resume, k, target, setter>>
    BY <1>4 DEF LoadModule
  <2> DEFINE S == {u \in Threads : r < 0 /\ Resolving(u) /\ Mod(u) = Mod(t)}
  <2>1. /\ pc'[t] = "loaded" /\ id'[t] = r
        /\ \A u \in Threads \ {t} : Untouched(u)
    BY <1>0, <2>0 DEF Goto, Untouched, TypeOK
  <2>2. /\ userAddress' = userAddress /\ kernelAddress' = kernelAddress
        /\ lsm' = lsm /\ call' = call
    BY Zenon, <2>0
  <2>3. r # 0 /\ (r = -1 => r < 0)
    OBVIOUS
  <2>4. \A m \in Modules : moduleId'[m] = IF m = Mod(t) THEN r ELSE moduleId[m]
    BY <1>0, <2>0 DEF TypeOK
  <2>5. Befalls(S, "loadFailed")
    BY Zenon, <2>0
  <2>6. ASSUME NEW u \in Threads
        PROVE  /\ past[u] \subseteq past'[u]
               /\ "misled" \in past'[u] => "misled" \in past[u]
               /\ ~Resolving(u) => past'[u] = past[u]
               /\ r = -1 /\ Resolving(u) /\ Mod(u) = Mod(t) => "loadFailed" \in past'[u]
    <3>1. u \in S <=> r < 0 /\ Resolving(u) /\ Mod(u) = Mod(t)
      BY Zenon
    <3> HIDE DEF S
    <3>2. past'[u] = (IF u \in S THEN past[u] \cup {"loadFailed"} ELSE past[u])
          /\ past[u] \subseteq past'[u]
      BY Zenon, <2>5, BefallsAdds
    <3>3. /\ "misled" \in past'[u] => "misled" \in past[u]
          /\ u \in S => "loadFailed" \in past'[u]
      BY <3>2
    <3> QED BY Zenon, <2>3, <3>1, <3>2, <3>3
  <2>7. SharedSound'
    BY Zenon, <1>0, <2>2 DEF SharedSound, UserMeaning, KernelMeaning
  <2>8. ASSUME NEW u \in Threads \ {t} PROVE Rely(u)
    <3>1. Mod(u) \in Modules /\ u \in Threads
      BY <1>0, HandleType
    <3>2. /\ moduleId[Mod(u)] # 0 => moduleId'[Mod(u)] # 0
          /\ moduleId'[Mod(u)] = -1 => moduleId[Mod(u)] = -1 \/ (Mod(u) = Mod(t) /\ r = -1)
      BY Zenon, <2>3, <2>4, <3>1
    <3>3. /\ past[u] \subseteq past'[u]
          /\ "misled" \in past'[u] => "misled" \in past[u]
          /\ ~Resolving(u) => past'[u] = past[u]
          /\ r = -1 /\ Resolving(u) /\ Mod(u) = Mod(t) => "loadFailed" \in past'[u]
      BY Zenon, <2>6, <3>1
    <3>4. Untouched(u)
      BY Zenon, <2>1
    <3> QED BY Zenon, <2>2, <3>2, <3>3, <3>4 DEF Rely
  <2>9. /\ id'[t] # 0 /\ moduleId'[Mod(t)] # 0
        /\ -1 \in {id'[t], moduleId'[Mod(t)]} => "loadFailed" \in past'[t]
    <3>1. moduleId'[Mod(t)] = r
      BY Zenon, <1>0, <2>4
    <3>2. Resolving(t)
      BY <1>1 DEF Resolving
    <3>3. r = -1 => "loadFailed" \in past'[t]
      BY Zenon, <2>6, <3>2
    <3> QED BY <2>1, <2>3, <3>1, <3>3
  <2>10. ThreadSound(t)'
    BY Zenon, <1>0, <1>2, <2>1, <2>2, <2>6, <2>9, UserPath
  <2> QED BY Zenon, <2>7, <2>8, <2>10 DEF SoundStep
<1> QED BY Zenon, <1>3, <1>4

(* A load is reported as failed only if one did fail, here or elsewhere.   *)
LEMMA CheckLoadSound ==
  ASSUME Inv, NEW t \in Threads, CheckLoad(t) PROVE SoundStep(t)
<1>0. TypeOK /\ SharedSound /\ ThreadSound(t)
  BY Zenon DEF Inv
<1>1. pc[t] = "loaded"
  BY Zenon DEF CheckLoad
<1>2. moduleId[Mod(t)] \in {-1, 0, 1} /\ id[t] \in {-1, 0, 1}
  BY <1>0, HandleType DEF TypeOK
<1>3. Honest(t) => /\ moduleId[Mod(t)] # 0 /\ id[t] # 0
                   /\ -1 \in {id[t], moduleId[Mod(t)]} => "loadFailed" \in past[t]
  BY Zenon, <1>0, <1>1 DEF ThreadSound, PathSound
<1> PICK v \in {id[t], moduleId[Mod(t)]} :
      /\ id' = [id EXCEPT ![t] = IF v <= 0 THEN 0 ELSE v]
      /\ Check(t, "loaded", v <= 0, "ModuleLoadError", "dlSym")
      /\ UNCHANGED <<shared, call, k, target, setter>>
  BY Zenon DEF CheckLoad
<1>4. /\ pc'[t] = (IF v <= 0 THEN "error" ELSE "dlSym")
      /\ v <= 0 => status'[t] = "ModuleLoadError" /\ resume'[t] = "dlSym"
      /\ id'[t] = (IF v <= 0 THEN 0 ELSE v)
      /\ \A u \in Threads \ {t} : Untouched(u)
  BY <1>0 DEF Check, Goto, Untouched, TypeOK
<1>5. UNCHANGED shared /\ call' = call
  OBVIOUS
<1>6. SharedSound' /\ \A u \in Threads : Untouched(u) => Rely(u)
  BY Zenon, <1>0, <1>5, SharedFrame
<1>7. moduleId' = moduleId /\ past'[t] = past[t] /\ past[t] \subseteq past'[t]
  BY <1>5 DEF shared
<1>8. pc[t] \in UserLabels \ {"userArgs"} /\ "dlSym" \in UserLabels
  BY <1>1 DEF UserLabels
<1>9. CASE v <= 0
  <2>1. Honest(t) => "loadFailed" \in past[t]
    BY <1>2, <1>3, <1>9
  <2>2. Honest(t) => Cause(t, "ModuleLoadError")'
    BY <1>7, <2>1 DEF Cause
  <2>3. "ModuleLoadError" \in Status \ {"Success", "InterceptContinue", "InterceptFailure"}
    BY DEF Status
  <2>4. Honest(t) => /\ moduleId'[Mod(t)] # 0
                     /\ moduleId'[Mod(t)] = -1 => "loadFailed" \in past'[t]
    BY Zenon, <1>3, <1>7
  <2>5. ThreadSound(t)'
    BY Zenon, <1>0, <1>4, <1>5, <1>7, <1>8, <1>9, <2>2, <2>3, <2>4, UserError
  <2> QED BY Zenon, <1>4, <1>6, <2>5 DEF SoundStep
<1>10. CASE ~(v <= 0)
  <2>1. Honest(t) => /\ id'[t] # 0 /\ moduleId'[Mod(t)] # 0
                     /\ -1 \in {id'[t], moduleId'[Mod(t)]} => "loadFailed" \in past'[t]
    BY <1>2, <1>3, <1>4, <1>7, <1>10
  <2>2. ThreadSound(t)'
    BY Zenon, <1>0, <1>4, <1>5, <1>7, <1>8, <1>10, <2>1, UserPath
  <2> QED BY Zenon, <1>4, <1>6, <2>2 DEF SoundStep
<1> QED BY Zenon, <1>9, <1>10

(* The user lookup fills the slot or reports a missing symbol or module.   *)
LEMMA DlSymSound ==
  ASSUME Inv, NEW t \in Threads, DlSym(t) PROVE SoundStep(t)
<1>0. TypeOK /\ SharedSound /\ ThreadSound(t) /\ Fn(t) \in Functions
  BY Zenon, HandleType DEF Inv
<1>1. pc[t] = "dlSym"
  BY Zenon DEF DlSym
<1>2. moduleId[Mod(t)] \in {-1, 0, 1} /\ id[t] \in {-1, 0, 1}
  BY <1>0, HandleType DEF TypeOK
<1>3. Honest(t) => /\ moduleId[Mod(t)] # 0 /\ id[t] # 0
                   /\ -1 \in {id[t], moduleId[Mod(t)]} => "loadFailed" \in past[t]
  BY Zenon, <1>0, <1>1 DEF ThreadSound, PathSound
<1>4. call[t].mode = "user"
  BY <1>0, <1>1 DEF ThreadSound, BranchSound, InBranch, UserLabels
<1>lookup. PICK v \in {id[t], moduleId[Mod(t)]} :
      LET found == v = 1 /\ UserSymbol[Fn(t)] # NULL
      IN  /\ userAddress' = IF found
                            THEN [userAddress EXCEPT ![Fn(t)] = UserSymbol[Fn(t)]]
                            ELSE userAddress
          /\ Check(t, "dlSym", ~found, "FunctionResolveError", "post")
          /\ id' = [id EXCEPT ![t] = 0]
          /\ UNCHANGED <<kernelAddress, moduleId, lsm, handler, past,
                         call, k, target, setter>>
  BY Zenon DEF DlSym
<1> DEFINE found == v = 1 /\ UserSymbol[Fn(t)] # NULL
<1>5. /\ pc'[t] = (IF found THEN "post" ELSE "error")
      /\ ~found => status'[t] = "FunctionResolveError" /\ resume'[t] = "post"
      /\ \A u \in Threads \ {t} : Untouched(u)
  BY <1>0, <1>lookup DEF Check, Goto, Untouched, TypeOK
<1>6. /\ kernelAddress' = kernelAddress /\ moduleId' = moduleId /\ lsm' = lsm
      /\ past' = past /\ call' = call
  BY Zenon, <1>lookup
<1>7. /\ \A f \in Functions : \/ userAddress'[f] = userAddress[f]
                              \/ userAddress'[f] = UserSymbol[f] /\ UserSymbol[f] # NULL
      /\ found => userAddress'[Fn(t)] # NULL
  BY <1>0, <1>lookup DEF TypeOK
<1>8. SharedSound'
  BY Zenon, <1>0, <1>6, <1>7 DEF SharedSound, UserMeaning, KernelMeaning
<1>9. ASSUME NEW u \in Threads \ {t} PROVE Rely(u)
  <2>1. Fn(u) \in Functions
    BY <1>0, HandleType
  <2>2. userAddress[Fn(u)] # NULL => userAddress'[Fn(u)] # NULL
    BY Zenon, <1>7, <2>1
  <2>3. Untouched(u)
    BY Zenon, <1>5
  <2> QED BY Zenon, <1>6, <2>2, <2>3 DEF Rely
<1>10. past[t] \subseteq past'[t] /\ Fn(t)' = Fn(t)
  BY Zenon, <1>6 DEF Fn
<1>11. CASE found
  <2>1. pc'[t] = "post"
    BY Zenon, <1>5, <1>11
  <2>2. SuccessSound(t)'
    BY Zenon, <1>4, <1>6, <1>7, <1>10, <1>11 DEF SuccessSound, SlotFilled
  <2>3. /\ pc'[t] \notin KernelLabels \cup UserLabels \cup {"error", "wild"}
        /\ pc'[t] \notin {"kernelDlSym", "kernelStored", "crashed"} \cup (UserLabels \ {"userArgs"})
        /\ pc'[t] \notin {"error", "return", "failed", "resolved", "idle", "setting", "stub", "called"}
        /\ pc[t] \notin {"idle", "setting", "stub", "called"}
    BY <1>1, <2>1 DEF KernelLabels, UserLabels
  <2>4. ThreadSound(t)'
    BY Zenon, <1>0, <1>6, <1>10, <2>2, <2>3, Vacuous, Assemble
  <2> QED BY Zenon, <1>8, <1>9, <2>4 DEF SoundStep
<1>12. CASE ~found
  <2>1. Honest(t) => UserSymbol[Fn(t)] = NULL \/ "loadFailed" \in past[t]
    BY <1>2, <1>3, <1>12
  <2>2. Honest(t) => Cause(t, "FunctionResolveError")'
    BY <1>6, <1>10, <2>1 DEF Cause
  <2>3. "FunctionResolveError" \in Status \ {"Success", "InterceptContinue", "InterceptFailure"}
    BY DEF Status
  <2>4. pc[t] \in UserLabels \ {"userArgs"} /\ pc'[t] = "error"
    BY <1>1, <1>5, <1>12 DEF UserLabels
  <2>5. ThreadSound(t)'
    BY Zenon, <1>0, <1>5, <1>6, <1>10, <1>12, <2>2, <2>3, <2>4, UserError
  <2> QED BY Zenon, <1>8, <1>9, <2>5 DEF SoundStep
<1> QED BY Zenon, <1>11, <1>12

(* After an error the resolver goes on only where it has what it needs.    *)
LEMMA ErrorHandlerSound ==
  ASSUME Inv, NEW t \in Threads, ErrorHandler(t) PROVE SoundStep(t)
<1>0. TypeOK /\ SharedSound /\ ThreadSound(t)
  BY Zenon DEF Inv
<1> DEFINE h == handler["error"]
           code == status[t]
           s == HandlerStatus(t, h, code)
<1>1. h \in Handlers \cup {NULL} /\ code \in Status
  BY <1>0 DEF TypeOK, Occasions
<1>2. CallHandler(t, h, code) /\ moduleId' = moduleId /\ lsm' = lsm /\ call' = call
  BY Zenon DEF ErrorHandler
<1>3. /\ pc[t] = "error" /\ status'[t] = s
      /\ pc'[t] = (IF s = "InterceptContinue" THEN resume[t] ELSE "return")
      /\ id'[t] = (IF s = "InterceptContinue" /\ resume[t] = "dlSym"
                   THEN moduleId[Mod(t)] ELSE 0)
      /\ \A u \in Threads \ {t} : Untouched(u)
  BY <1>0 DEF ErrorHandler, Goto, Untouched, TypeOK
<1>4. /\ SharedSound' /\ past[t] \subseteq past'[t]
      /\ \A u \in Threads \ {t} : Untouched(u) => Rely(u)
  BY Zenon, <1>0, <1>1, <1>2, HandlerStep
<1>5. /\ Fn(t)' = Fn(t) /\ Mod(t)' = Mod(t) /\ Arg(t)' = Arg(t)
      /\ call'[t] = call[t]
  BY Zenon, <1>2 DEF Fn, Mod, Arg
<1> HIDE DEF s, h, code
<1>6. InBranch(resume[t], call[t].mode) /\ resume[t] \in KernelLabels \cup UserLabels \cup {"post"}
  BY Zenon, <1>0, <1>3 DEF ThreadSound, BranchSound
<1>7. /\ pc[t] \notin {"idle", "setting", "stub", "called"}
      /\ pc'[t] \notin {"idle", "setting", "stub", "called", "failed", "resolved", "error", "wild"}
  BY <1>3, <1>6 DEF KernelLabels, UserLabels
<1>8. BranchSound(t)'
  <2>1. "return" \notin KernelLabels \cup UserLabels
    BY DEF KernelLabels, UserLabels
  <2>2. InBranch(pc'[t], call[t].mode)
    BY Zenon, <1>3, <1>6, <2>1 DEF InBranch
  <2> QED BY Zenon, <1>5, <1>7, <2>2 DEF BranchSound
<1>9. ASSUME Honest(t), Honest(t)'
      PROVE  PathSound(t)' /\ ErrorSound(t)' /\ CauseSound(t)' /\ SuccessSound(t)'
  <2>1. ErrorSound(t) /\ CauseSound(t)
    BY Zenon, <1>0, <1>9 DEF ThreadSound
  <2>2. code \notin {"Success", "InterceptContinue", "InterceptFailure"}
    BY Zenon, <1>3, <2>1 DEF ErrorSound, code
  <2>3. \/ s \in {code, "InterceptFailure"}
        \/ s = "Success" /\ SlotFilled(t)'
        \/ s = "InterceptContinue" /\ code \in Recoverable /\ SlotFilled(t)'
    BY Zenon, <1>0, <1>1, <1>2, <1>5, <1>9, HandlerAnswers DEF s
  <2>4. CASE s # "InterceptContinue"
    <3>1. pc'[t] = "return"
      BY Zenon, <1>3, <2>4
    <3>2. PathSound(t)' /\ ErrorSound(t)'
      <4>1. /\ pc'[t] # "error"
            /\ pc'[t] \notin {"kernelDlSym", "kernelStored", "crashed"} \cup (UserLabels \ {"userArgs"})
        BY <3>1 DEF UserLabels
      <4> QED BY Zenon, <4>1, Vacuous
    <3>3. Cause(t, code)
      BY Zenon, <1>3, <2>1 DEF CauseSound, code
    <3>4. s = code \/ s \in {"Success", "InterceptFailure"}
      BY Zenon, <2>3, <2>4
    <3>5. "loadFailed" \in past[t] => "loadFailed" \in past'[t]
      BY Zenon, <1>4
    <3>6. status'[t] = code \/ status'[t] \in {"Success", "InterceptFailure"}
      BY Zenon, <1>3, <3>4
    <3>7. CauseSound(t)'
      BY <1>5, <3>3, <3>5, <3>6 DEF CauseSound, Cause
    <3>8. SuccessSound(t)'
      BY Zenon, <1>3, <2>2, <2>3, <3>1 DEF SuccessSound
    <3> QED BY Zenon, <3>2, <3>7, <3>8
  <2>5. CASE s = "InterceptContinue"
    <3>1. code \in Recoverable /\ SlotFilled(t)' /\ pc'[t] = resume[t]
      BY Zenon, <1>3, <2>2, <2>3, <2>5
    <3>2. CASE code = "ModuleLoadError"
      <4>1. /\ resume[t] = "dlSym" /\ (\A x \in Needed("user") : Arg(t)[x] # "null")
            /\ moduleId[Mod(t)] # 0
            /\ moduleId[Mod(t)] = -1 => "loadFailed" \in past[t]
        BY Zenon, <1>3, <2>1, <3>2 DEF ErrorSound, code
      <4>2. pc'[t] = "dlSym" /\ id'[t] = moduleId[Mod(t)]
        BY Zenon, <1>3, <2>5, <3>1, <4>1
      <4>3. /\ id'[t] # 0 /\ moduleId'[Mod(t)] # 0
            /\ -1 \in {id'[t], moduleId'[Mod(t)]} => "loadFailed" \in past'[t]
        BY Zenon, <1>2, <1>4, <4>1, <4>2
      <4>4. PathSound(t)'
        BY Zenon, <1>5, <4>1, <4>2, <4>3 DEF PathSound
      <4>5. pc'[t] \notin {"error", "return", "failed", "resolved", "post"}
        BY <4>2
      <4> QED BY Zenon, <4>4, <4>5, Vacuous
    <3>3. CASE code # "ModuleLoadError"
      <4>1. pc'[t] = "post"
        BY Zenon, <1>3, <2>1, <3>1, <3>3 DEF ErrorSound, code
      <4>2. /\ pc'[t] \notin {"error", "return", "failed", "resolved"}
            /\ pc'[t] \notin {"kernelDlSym", "kernelStored", "crashed"} \cup (UserLabels \ {"userArgs"})
        BY <4>1 DEF UserLabels
      <4>3. SuccessSound(t)'
        BY Zenon, <3>1 DEF SuccessSound
      <4> QED BY Zenon, <4>2, <4>3, Vacuous
    <3> QED BY Zenon, <3>2, <3>3
  <2> QED BY Zenon, <2>4, <2>5
<1>10. ThreadSound(t)'
  BY Zenon, <1>0, <1>4, <1>5, <1>7, <1>8, <1>9, Assemble
<1> QED BY Zenon, <1>3, <1>4, <1>10 DEF SoundStep

(* The slot is still filled after the post-handler.                        *)
LEMMA PostHandlerSound ==
  ASSUME Inv, NEW t \in Threads, PostHandler(t) PROVE SoundStep(t)
<1>0. TypeOK /\ SharedSound /\ ThreadSound(t) /\ Fn(t) \in Functions
  BY Zenon, HandleType DEF Inv
<1> DEFINE h == handler["post"]
           s == HandlerStatus(t, h, "InterceptContinue")
<1>1. h \in Handlers \cup {NULL} /\ "InterceptContinue" \in Status
  BY <1>0 DEF TypeOK, Occasions, Status
<1>2. /\ CallHandler(t, h, "InterceptContinue") /\ moduleId' = moduleId /\ lsm' = lsm
      /\ call' = call
  BY Zenon DEF PostHandler
<1>3. /\ pc[t] = "post" /\ pc'[t] = "return"
      /\ status'[t] = (IF s = "InterceptContinue" THEN "Success" ELSE s)
      /\ \A u \in Threads \ {t} : Untouched(u)
  BY <1>0 DEF PostHandler, Goto, Untouched, TypeOK
<1>4. /\ SharedSound' /\ past[t] \subseteq past'[t]
      /\ \A u \in Threads \ {t} : Untouched(u) => Rely(u)
  BY Zenon, <1>0, <1>1, <1>2, HandlerStep
<1>5. SlotFilled(t) => SlotFilled(t)'
  <2>1. HandlerStores(t, h)
    BY Zenon, <1>2 DEF CallHandler
  <2>2. /\ userAddress[Fn(t)] # NULL => userAddress'[Fn(t)] # NULL
        /\ kernelAddress[Fn(t)] # NULL => kernelAddress'[Fn(t)] # NULL
    BY Zenon, <1>0, <1>1, <2>1, HandlerSlots
  <2> QED BY Zenon, <1>2, <1>4, <2>2 DEF SlotFilled, Fn
<1>6. /\ pc'[t] \notin KernelLabels \cup UserLabels \cup {"error", "wild"}
      /\ pc'[t] \notin {"kernelDlSym", "kernelStored", "crashed"} \cup (UserLabels \ {"userArgs"})
      /\ pc'[t] \notin {"idle", "setting", "stub", "called", "failed"}
      /\ pc[t] \notin {"idle", "setting", "stub", "called"}
  BY <1>3 DEF KernelLabels, UserLabels
<1>7. ASSUME Honest(t), Honest(t)' PROVE CauseSound(t)' /\ SuccessSound(t)'
  <2>1. SlotFilled(t)'
    BY Zenon, <1>0, <1>3, <1>5, <1>7 DEF ThreadSound, SuccessSound
  <2>2. s \in {"Success", "InterceptContinue", "InterceptFailure"}
    BY Zenon, <1>0, <1>1, <1>2, <1>7, HandlerAnswers
  <2>3. CauseSound(t)'
    BY <1>3, <2>2 DEF CauseSound, Cause
  <2> QED BY Zenon, <2>1, <2>3 DEF SuccessSound
<1>8. call'[t] = call[t]
  BY Zenon, <1>2
<1>9. ThreadSound(t)'
  BY Zenon, <1>0, <1>4, <1>6, <1>7, <1>8, Vacuous, Assemble
<1> QED BY Zenon, <1>3, <1>4, <1>9 DEF SoundStep

(* The way back to the stub or to the caller of ps4Resolve.                *)
LEMMA ReturnSound ==
  ASSUME Inv, NEW t \in Threads, Return(t) PROVE SoundStep(t)
<1>0. TypeOK /\ SharedSound /\ ThreadSound(t)
  BY Zenon DEF Inv
<1>1. /\ pc[t] = "return"
      /\ pc'[t] = (IF call[t].direct THEN "resolved"
                   ELSE IF status[t] = "Success" THEN "stub" ELSE "failed")
      /\ \A u \in Threads \ {t} : Untouched(u)
  BY <1>0 DEF Return, Goto, Untouched, TypeOK, local
<1>2. UNCHANGED shared /\ call' = call /\ status' = status
  BY DEF Return, local
<1>3. SharedSound' /\ \A u \in Threads : Untouched(u) => Rely(u)
  BY Zenon, <1>0, <1>2, SharedFrame
<1>4. past' = past /\ Fn(t)' = Fn(t) /\ Arg(t)' = Arg(t)
  BY <1>2 DEF shared, Fn, Arg
<1>5. CallSound(t)'
  <2>1. CallSound(t)
    BY Zenon, <1>0 DEF ThreadSound
  <2> QED BY <1>1, <1>2, <1>4, <2>1 DEF CallSound
<1>6. Honest(t)' => CauseSound(t)'
  <2>1. Honest(t) => Cause(t, status[t])
    BY Zenon, <1>0, <1>1 DEF ThreadSound, CauseSound
  <2>2. Honest(t)' => Honest(t)
    BY Zenon, <1>4 DEF Honest
  <2>3. Cause(t, status[t]) => Cause(t, status[t])'
    BY <1>2, <1>4 DEF Cause
  <2> QED BY Zenon, <1>2, <2>1, <2>2, <2>3 DEF CauseSound
<1>7. /\ pc'[t] \notin KernelLabels \cup UserLabels \cup {"error", "wild"}
      /\ pc'[t] \notin {"kernelDlSym", "kernelStored", "crashed"} \cup (UserLabels \ {"userArgs"})
      /\ pc'[t] \notin {"error", "post", "return", "called"}
  BY <1>1 DEF KernelLabels, UserLabels
<1>8. ThreadSound(t)'
  BY Zenon, <1>5, <1>6, <1>7, Vacuous DEF ThreadSound
<1> QED BY Zenon, <1>1, <1>3, <1>8 DEF SoundStep

(* Every step of a program is a sound one.                                 *)
LEMMA NextSound ==
  ASSUME Inv, Next
  PROVE  \E t \in Threads : SoundStep(t)
<1> PICK t \in Threads :
      \/ CallStub(t) \/ ps4Resolve(t) \/ Finish(t)
      \/ SetHandlerRead(t) \/ SetHandlerStore(t) \/ Resolver(t)
  BY Zenon DEF Next
<1>1. SoundStep(t)
  BY Zenon, CallStubSound, ps4ResolveSound, FinishSound, SetHandlerReadSound, SetHandlerStoreSound,
     EnterStubSound, PreHandlerSound, CheckKernelTypeSound, CheckKernelArgumentsSound,
     KernelDlSymSound, CheckKernelSymbolSound, CheckUserArgumentsSound, ReadModuleIdSound,
     ReadLsmSound, LoadKernelSound, ResolveLsmSound, LoadModuleSound, CheckLoadSound,
     DlSymSound, ErrorHandlerSound, PostHandlerSound, ReturnSound
  DEF Resolver
<1> QED BY Zenon, <1>1

(* The invariant holds initially.                                          *)
LEMMA InvInit == Init => Inv
<1> SUFFICES ASSUME Init PROVE Inv
  OBVIOUS
<1>1. TypeOK
  BY TypeInit
<1>2. SharedSound
  BY DEF Init, SharedSound
<1>3. ASSUME NEW t \in Threads PROVE ThreadSound(t)
  <2>1. pc[t] = "idle" /\ past[t] = {}
    BY DEF Init
  <2>2. CallSound(t)
    BY Zenon, <2>1 DEF CallSound
  <2>3. BranchSound(t)
    BY <2>1 DEF BranchSound, InBranch, KernelLabels, UserLabels
  <2>4. PathSound(t)
    BY <2>1 DEF PathSound, UserLabels
  <2>5. ErrorSound(t) /\ CauseSound(t) /\ SuccessSound(t) /\ CalledRightBy(t)
    BY Zenon, <2>1 DEF ErrorSound, CauseSound, SuccessSound, CalledRightBy
  <2> QED BY Zenon, <2>2, <2>3, <2>4, <2>5 DEF ThreadSound
<1> QED BY Zenon, <1>1, <1>2, <1>3 DEF Inv

(* The invariant is inductive.                                             *)
LEMMA InvStep == Inv /\ [Next]_vars => Inv'
<1> SUFFICES ASSUME Inv, [Next]_vars PROVE Inv'
  OBVIOUS
<1>1. TypeOK'
  BY Zenon, TypeStep DEF Inv
<1>2. CASE Next
  <2> PICK t \in Threads : SoundStep(t)
    BY Zenon, <1>2, NextSound
  <2>1. ASSUME NEW u \in Threads \ {t} PROVE ThreadSound(u)'
    BY Zenon, Frame DEF Inv, SoundStep
  <2> QED BY Zenon, <1>1, <2>1 DEF Inv, SoundStep
<1>3. CASE UNCHANGED vars
  <2>1. UNCHANGED shared /\ SharedSound
    BY <1>3 DEF Inv, vars
  <2>2. SharedSound' /\ \A u \in Threads : Untouched(u) => Rely(u)
    BY Zenon, <2>1, SharedFrame
  <2>3. \A u \in Threads : Untouched(u)
    BY <1>3 DEF vars, local, Untouched
  <2>4. ASSUME NEW u \in Threads PROVE ThreadSound(u)'
    BY Zenon, <2>2, <2>3, Frame DEF Inv
  <2> QED BY Zenon, <1>1, <2>2, <2>4 DEF Inv
<1> QED BY Zenon, <1>2, <1>3

(* The invariant holds in every program: however many threads resolve, in  *)
(* whatever modes they call and whatever their handlers answer.            *)
THEOREM InvHolds == Spec => []Inv
BY InvInit, InvStep, PTL DEF Spec

(* A stub called in a mode it is made for jumps only to what its symbol    *)
(* means in that mode, however many threads resolve at once.               *)
THEOREM JumpsAreRight == Spec => []CalledRight
<1>1. Inv => CalledRight
  BY Zenon DEF Inv, ThreadSound, CalledRight
<1> QED BY <1>1, InvHolds, PTL

(* In every program the resolver follows a stray pointer only for a stub   *)
(* called in a mode it is not made for, or for the combined syscall stub in*)
(* kernel mode, and a NULL pointer only after a handler of the call broke  *)
(* its contract.                                                           *)
THEOREM BadAccessesAreExplained == Spec => []BadAccessExplained
<1>1. Inv => BadAccessExplained
  <2> SUFFICES ASSUME Inv, NEW t \in Threads
               PROVE  /\ pc[t] = "wild" => /\ ~call[t].direct
                                           /\ \/ ~Legal(Type[Fn(t)], call[t].mode)
                                              \/ /\ Type[Fn(t)] = SyscallAndKernelFunction
                                                 /\ call[t].mode = "kernel"
                      /\ pc[t] = "crashed" => "misled" \in past[t]
    BY Zenon DEF BadAccessExplained
  <2>1. BranchSound(t) /\ (Honest(t) => PathSound(t))
    BY Zenon DEF Inv, ThreadSound
  <2>2. pc[t] = "crashed" => ~Honest(t)
    BY Zenon, <2>1 DEF PathSound
  <2>3. pc[t] = "wild" => ~call[t].direct /\ ~Served(Type[Fn(t)], call[t].mode)
    BY Zenon, <2>1 DEF BranchSound
  <2> QED BY Zenon, <2>2, <2>3 DEF Honest, Served
<1> QED BY <1>1, InvHolds, PTL

(* A call whose handlers keep their contract fails only for a lookup or a  *)
(* load that really failed, or for arguments its stub did not pass.        *)
THEOREM FailuresAreReal == Spec => []ErrorsHaveCause
<1>1. Inv => ErrorsHaveCause
  BY Zenon DEF Inv, ThreadSound, CauseSound, ErrorsHaveCause
<1> QED BY <1>1, InvHolds, PTL

(* The resolver reports Success only with a filled slot, so that the retry *)
(* of the stub gets through, unless a lookup emptied the slot during the   *)
(* call.                                                                   *)
THEOREM RetriesGetThrough == Spec => []SuccessFillsSlot
<1>1. Inv => SuccessFillsSlot
  BY Zenon DEF Inv, ThreadSound, SuccessSound, SuccessFillsSlot
<1> QED BY <1>1, InvHolds, PTL
=============================================================================
