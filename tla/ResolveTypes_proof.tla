------------------------- MODULE ResolveTypes_proof -------------------------
(***************************************************************************)
(* Type correctness of Resolve, for any number of threads, functions,      *)
(* modules and handlers, and the lemmas on types the other proofs use.     *)
(***************************************************************************)
EXTENDS Resolve, TLAPS

(* A handler returns a status and leaves addresses in the slots.           *)
LEMMA HandlerType ==
  ASSUME TypeOK, NEW t \in Threads, NEW h \in Handlers \cup {NULL}, NEW code \in Status
  PROVE  /\ HandlerStatus(t, h, code) \in Status
         /\ HandlerStores(t, h) => /\ userAddress' \in [Functions -> AddressOrNull]
                                   /\ kernelAddress' \in [Functions -> AddressOrNull]
<1>1. HandlerStatus(t, h, code) \in Status
  BY ConstantTypes DEF HandlerStatus
<1>2. h # NULL => HandlerAddress[h] \in AddressOrNull
  BY ConstantTypes DEF AddressOrNull
<1>3. ASSUME HandlerStores(t, h)
      PROVE  /\ userAddress' \in [Functions -> AddressOrNull]
             /\ kernelAddress' \in [Functions -> AddressOrNull]
  BY Zenon, <1>2, <1>3 DEF HandlerStores, TypeOK
<1> QED BY <1>1, <1>3

(* The history of a call grows by an event.                                *)
LEMMA BefallsType ==
  ASSUME TypeOK, NEW S, NEW e \in Events, Befalls(S, e)
  PROVE  past' \in [Threads -> SUBSET Events]
<1>1. past \in [Threads -> SUBSET Events]
  BY DEF TypeOK
<1> QED BY <1>1 DEF Befalls

(* What a call of a handler leaves in the slots and in the history.        *)
LEMMA CallHandlerType ==
  ASSUME TypeOK, NEW t \in Threads, NEW h \in Handlers \cup {NULL}, NEW code \in Status,
         CallHandler(t, h, code)
  PROVE  /\ HandlerStatus(t, h, code) \in Status
         /\ userAddress' \in [Functions -> AddressOrNull]
         /\ kernelAddress' \in [Functions -> AddressOrNull]
         /\ past' \in [Threads -> SUBSET Events]
<1>1. "misled" \in Events
  BY DEF Events
<1>2. HandlerStores(t, h) /\ \E S : Befalls(S, "misled")
  BY Zenon DEF CallHandler
<1> QED BY Zenon, <1>1, <1>2, HandlerType, BefallsType

(* The arguments a stub or ps4Resolve passes are pointers.                 *)
LEMMA ArgumentTypes ==
  ASSUME NEW type \in StubTypes, NEW leftover \in {"null", "stray"}
  PROVE  /\ StubArguments(type, leftover) \in [Fields -> Pointers]
         /\ ResolveArguments(type) \in [Fields -> Pointers]
BY DEF StubArguments, ResolveArguments, Pointers

(* The record of a thread that is in no call has the type of a call.       *)
LEMMA NoCallType == NoCall \in [fn : Functions, mode : Modes, direct : BOOLEAN,
                                args : [Fields -> Pointers]]
<1>1. (CHOOSE f \in Functions : TRUE) \in Functions
  BY ConstantTypes
<1> QED BY <1>1 DEF NoCall, Modes, Pointers

(* The module of the function a thread calls, and its handle cell.         *)
LEMMA HandleType ==
  ASSUME TypeOK, NEW t \in Threads
  PROVE  /\ Fn(t) \in Functions
         /\ Mod(t) \in Modules
         /\ moduleId[Mod(t)] \in {-1, 0, 1}
<1>1. Fn(t) \in Functions
  BY DEF TypeOK, Fn
<1>2. Mod(t) \in Modules
  BY <1>1, ConstantTypes DEF Mod
<1> QED BY <1>1, <1>2 DEF TypeOK

(* A check changes a thread's label, status and continuation.              *)
LEMMA CheckType ==
  ASSUME TypeOK, NEW t \in Threads, NEW from, NEW bad, NEW code \in Status,
         NEW next \in Labels, Check(t, from, bad, code, next)
  PROVE  /\ pc' \in [Threads -> Labels]
         /\ status' \in [Threads -> Status]
         /\ resume' \in [Threads -> Labels]
<1>1. "error" \in Labels
  BY DEF Labels
<1> QED BY Zenon, <1>1 DEF Check, Goto, TypeOK

(* Every variable keeps the type the code declares for it.                 *)
LEMMA TypeStep == TypeOK /\ [Next]_vars => TypeOK'
<1> SUFFICES ASSUME TypeOK, [Next]_vars PROVE TypeOK'
  OBVIOUS
<1> USE ConstantTypes
<1>1. CASE UNCHANGED vars
  BY <1>1 DEF vars, shared, local, TypeOK
<1>2. CASE Next
  <2> PICK t \in Threads :
        \/ CallStub(t) \/ ps4Resolve(t) \/ Finish(t)
        \/ SetHandlerRead(t) \/ SetHandlerStore(t) \/ Resolver(t)
    BY Zenon, <1>2 DEF Next
  <2>1. CASE CallStub(t)
    <3> PICK c \in Calls, leftover \in {"null", "stray"} :
          /\ Goto(t, "idle", "stub")
          /\ call' = [call EXCEPT ![t] =
               [fn |-> c[1], mode |-> c[2], direct |-> FALSE,
                args |-> StubArguments(Type[c[1]], leftover)]]
          /\ UNCHANGED <<shared, status, resume, id, k, target, setter>>
      BY Zenon, <2>1 DEF CallStub
    <3>1. c[1] \in Functions /\ c[2] \in Modes /\ Type[c[1]] \in StubTypes
      OBVIOUS
    <3>2. StubArguments(Type[c[1]], leftover) \in [Fields -> Pointers]
      BY <3>1, ArgumentTypes
    <3> QED BY <3>1, <3>2 DEF Goto, TypeOK, Labels, shared
  <2>2. CASE ps4Resolve(t)
    <3> PICK c \in ResolveCalls :
          /\ Goto(t, "idle", IF Type[c[1]] = Syscall THEN "resolved" ELSE "pre")
          /\ call' = [call EXCEPT ![t] =
               [fn |-> c[1], mode |-> c[2], direct |-> TRUE,
                args |-> ResolveArguments(Type[c[1]])]]
          /\ status' = [status EXCEPT ![t] = "Success"]
          /\ UNCHANGED <<shared, resume, id, k, target, setter>>
      BY Zenon, <2>2 DEF ps4Resolve
    <3>1. c[1] \in Functions /\ c[2] \in Modes /\ Type[c[1]] \in StubTypes
      OBVIOUS
    <3>2. ResolveArguments(Type[c[1]]) \in [Fields -> Pointers]
      BY <3>1, ArgumentTypes
    <3> QED BY <3>1, <3>2 DEF Goto, TypeOK, Labels, Status, shared
  <2>3. CASE Finish(t)
    BY <2>3, NoCallType DEF Finish, Goto, TypeOK, Labels, shared, Status, AddressOrNull
  <2>4. CASE SetHandlerRead(t)
    <3>1. pc' \in [Threads -> Labels]
      BY Zenon, <2>4 DEF SetHandlerRead, Goto, TypeOK, Labels
    <3> PICK on \in Occasions : \E h \in HandlersFor[on] \cup {NULL} :
          setter' = [setter EXCEPT ![t] = [on |-> on, new |-> h, old |-> handler[on]]]
      BY Zenon, <2>4 DEF SetHandlerRead
    <3> PICK h \in HandlersFor[on] \cup {NULL} :
          setter' = [setter EXCEPT ![t] = [on |-> on, new |-> h, old |-> handler[on]]]
      OBVIOUS
    <3>2. h \in Handlers \cup {NULL} /\ handler[on] \in Handlers \cup {NULL}
      BY DEF TypeOK
    <3>3. setter' \in [Threads -> [on : Occasions, new : Handlers \cup {NULL},
                                  old : Handlers \cup {NULL}]]
      BY <3>2 DEF TypeOK
    <3> QED BY Zenon, <2>4, <3>1, <3>3 DEF SetHandlerRead, TypeOK, shared
  <2>5. CASE SetHandlerStore(t)
    BY <2>5 DEF SetHandlerStore, Goto, TypeOK, Labels, NoSetter, Occasions
  <2>6. CASE Resolver(t)
    <3>1. CASE EnterStub(t)
      BY <3>1, HandleType DEF EnterStub, Goto, TypeOK, Labels, shared, AddressOrNull
    <3>2. CASE PreHandler(t)
      <4>1. handler["pre"] \in Handlers \cup {NULL} /\ "InterceptContinue" \in Status
        BY DEF TypeOK, Occasions, Status
      <4>2. /\ HandlerStatus(t, handler["pre"], "InterceptContinue") \in Status
            /\ userAddress' \in [Functions -> AddressOrNull]
            /\ kernelAddress' \in [Functions -> AddressOrNull]
            /\ past' \in [Threads -> SUBSET Events]
        BY Zenon, <3>2, <4>1, CallHandlerType DEF PreHandler
      <4> QED BY <3>2, <4>2 DEF PreHandler, Goto, TypeOK, Labels
    <3>3. CASE CheckKernelType(t)
      BY <3>3 DEF CheckKernelType, Check, Goto, TypeOK, Labels, Status, shared
    <3>4. CASE CheckKernelArguments(t)
      BY <3>4 DEF CheckKernelArguments, Check, Goto, TypeOK, Labels, Status, shared
    <3>5. CASE KernelDlSym(t)
      <4>1. "emptied" \in Events /\ \E S : Befalls(S, "emptied")
        BY Zenon, <3>5 DEF Events, KernelDlSym
      <4>2. past' \in [Threads -> SUBSET Events]
        BY Zenon, <4>1, BefallsType
      <4> QED BY Zenon, <3>5, <4>2 DEF KernelDlSym, Goto, TypeOK, Labels, AddressOrNull, local
    <3>6. CASE CheckKernelSymbol(t)
      <4>1. "KernelFunctionResolveError" \in Status /\ "post" \in Labels
        BY DEF Status, Labels
      <4>2. /\ \E bad : Check(t, "kernelStored", bad, "KernelFunctionResolveError", "post")
            /\ UNCHANGED <<shared, call, id, k, target, setter>>
        BY Zenon, <3>6 DEF CheckKernelSymbol
      <4> QED BY Zenon, <4>1, <4>2, CheckType DEF TypeOK, shared
    <3>7. CASE CheckUserArguments(t)
      BY <3>7 DEF CheckUserArguments, Check, Goto, TypeOK, Labels, Status, shared
    <3>8. CASE ReadModuleId(t)
      <4>1. id' \in [Threads -> {-1, 0, 1}]
        BY <3>8, HandleType DEF ReadModuleId, TypeOK
      <4>2. pc' \in [Threads -> Labels]
        <5>1. "dlSym" \in Labels /\ "lsm" \in Labels /\ "crashed" \in Labels /\ "wild" \in Labels
          BY DEF Labels
        <5>2. \/ Goto(t, "moduleId", "dlSym") \/ Goto(t, "moduleId", "lsm")
              \/ Goto(t, "moduleId", IF Arg(t).moduleId = "null" THEN "crashed" ELSE "wild")
          BY Zenon, <3>8 DEF ReadModuleId
        <5>3. \E to \in Labels : Goto(t, "moduleId", to)
          BY Zenon, <5>1, <5>2
        <5> QED BY Zenon, <5>3 DEF Goto, TypeOK
      <4> QED BY Zenon, <3>8, <4>1, <4>2 DEF ReadModuleId, TypeOK, shared
    <3>9. CASE ReadLsm(t)
      BY <3>9 DEF ReadLsm, Goto, TypeOK, Labels, shared, local
    <3>10. CASE LoadKernel(t)
      <4> PICK ok \in BOOLEAN : /\ k' = [k EXCEPT ![t] = ok]
                                /\ Check(t, "loadKernel", ~ok, "KernelLoadError", "lsmDlSym")
                                /\ UNCHANGED <<shared, call, id, target, setter>>
        BY Zenon, <3>10 DEF LoadKernel
      <4>1. "KernelLoadError" \in Status /\ "lsmDlSym" \in Labels
        BY DEF Status, Labels
      <4> QED BY Zenon, <4>1, CheckType DEF TypeOK, shared
    <3>11. CASE ResolveLsm(t)
      <4>1. "LSMResolveError" \in Status /\ "load" \in Labels
        BY DEF Status, Labels
      <4>2. /\ \E bad : Check(t, "lsmDlSym", bad, "LSMResolveError", "load")
            /\ \E ok : lsm' = (lsm \/ ok)
            /\ k' = [k EXCEPT ![t] = FALSE]
            /\ UNCHANGED <<userAddress, kernelAddress, moduleId, handler, past,
                           call, id, target, setter>>
        BY Zenon, <3>11 DEF ResolveLsm
      <4> QED BY Zenon, <4>1, <4>2, CheckType DEF TypeOK
    <3>12. CASE LoadModule(t)
      <4>1. CASE ~lsm
        <5>1. Goto(t, "load", "crashed") /\ UNCHANGED <<shared, local>>
          BY Zenon, <3>12, <4>1 DEF LoadModule
        <5>2. pc' \in [Threads -> Labels]
          BY Zenon, <5>1 DEF Goto, TypeOK, Labels
        <5> QED BY Zenon, <5>1, <5>2 DEF TypeOK, shared, local
      <4>2. CASE lsm
        <5>0. (IF "load" \in MayFail THEN {1, -1} ELSE {1}) \subseteq {1, -1}
          OBVIOUS
        <5> PICK r \in IF "load" \in MayFail THEN {1, -1} ELSE {1} :
              /\ moduleId' = [moduleId EXCEPT ![Mod(t)] = r]
              /\ id' = [id EXCEPT ![t] = r]
              /\ Befalls({u \in Threads : r < 0 /\ Resolving(u) /\ Mod(u) = Mod(t)}, "loadFailed")
          BY Zenon, <3>12, <4>2 DEF LoadModule
        <5>1. Mod(t) \in Modules /\ "loadFailed" \in Events
          BY HandleType DEF Events
        <5>2. /\ moduleId' \in [Modules -> {-1, 0, 1}]
              /\ id' \in [Threads -> {-1, 0, 1}]
          BY <5>0, <5>1 DEF TypeOK
        <5>3. past' \in [Threads -> SUBSET Events]
          BY Zenon, <5>1, BefallsType
        <5>4. /\ Goto(t, "load", "loaded")
              /\ UNCHANGED <<userAddress, kernelAddress, lsm, handler,
                             call, status, resume, k, target, setter>>
          BY Zenon, <3>12, <4>2 DEF LoadModule
        <5>5. pc' \in [Threads -> Labels]
          BY Zenon, <5>4 DEF Goto, TypeOK, Labels
        <5> QED BY Zenon, <5>2, <5>3, <5>4, <5>5 DEF TypeOK
      <4> QED BY <4>1, <4>2
    <3>13. CASE CheckLoad(t)
      <4>1. id' \in [Threads -> {-1, 0, 1}]
        BY Zenon, <3>13, HandleType DEF CheckLoad, TypeOK
      <4>2. /\ \E bad : Check(t, "loaded", bad, "ModuleLoadError", "dlSym")
            /\ UNCHANGED <<shared, call, k, target, setter>>
        BY Zenon, <3>13 DEF CheckLoad
      <4>3. "ModuleLoadError" \in Status /\ "dlSym" \in Labels
        BY DEF Status, Labels
      <4> QED BY Zenon, <4>1, <4>2, <4>3, CheckType DEF TypeOK, shared
    <3>14. CASE DlSym(t)
      <4>1. userAddress' \in [Functions -> AddressOrNull]
        <5> PICK found : userAddress' = IF found
                           THEN [userAddress EXCEPT ![Fn(t)] = UserSymbol[Fn(t)]]
                           ELSE userAddress
          BY Zenon, <3>14 DEF DlSym
        <5>1. UserSymbol[Fn(t)] \in AddressOrNull
          BY HandleType DEF AddressOrNull
        <5> QED BY Zenon, <5>1 DEF TypeOK
      <4>2. /\ \E bad : Check(t, "dlSym", bad, "FunctionResolveError", "post")
            /\ id' = [id EXCEPT ![t] = 0]
            /\ UNCHANGED <<kernelAddress, moduleId, lsm, handler, past,
                           call, k, target, setter>>
        BY Zenon, <3>14 DEF DlSym
      <4>3. "FunctionResolveError" \in Status /\ "post" \in Labels
        BY DEF Status, Labels
      <4>4. id' \in [Threads -> {-1, 0, 1}]
        BY <4>2 DEF TypeOK
      <4> QED BY Zenon, <4>1, <4>2, <4>3, <4>4, CheckType DEF TypeOK
    <3>15. CASE ErrorHandler(t)
      <4>1. handler["error"] \in Handlers \cup {NULL} /\ status[t] \in Status
        BY DEF TypeOK, Occasions
      <4>2. id' \in [Threads -> {-1, 0, 1}]
        BY <3>15, HandleType DEF ErrorHandler, TypeOK
      <4>3. /\ HandlerStatus(t, handler["error"], status[t]) \in Status
            /\ userAddress' \in [Functions -> AddressOrNull]
            /\ kernelAddress' \in [Functions -> AddressOrNull]
            /\ past' \in [Threads -> SUBSET Events]
        BY Zenon, <3>15, <4>1, CallHandlerType DEF ErrorHandler
      <4> QED BY <3>15, <4>2, <4>3 DEF ErrorHandler, Goto, TypeOK, Labels
    <3>16. CASE PostHandler(t)
      <4>1. /\ handler["post"] \in Handlers \cup {NULL}
            /\ "InterceptContinue" \in Status /\ "Success" \in Status
        BY DEF TypeOK, Occasions, Status
      <4>2. /\ HandlerStatus(t, handler["post"], "InterceptContinue") \in Status
            /\ userAddress' \in [Functions -> AddressOrNull]
            /\ kernelAddress' \in [Functions -> AddressOrNull]
            /\ past' \in [Threads -> SUBSET Events]
        BY Zenon, <3>16, <4>1, CallHandlerType DEF PostHandler
      <4> QED BY <3>16, <4>1, <4>2 DEF PostHandler, Goto, TypeOK, Labels
    <3>17. CASE Return(t)
      BY <3>17 DEF Return, Goto, TypeOK, Labels, shared, local
    <3> QED BY <2>6, <3>1, <3>2, <3>3, <3>4, <3>5, <3>6, <3>7, <3>8, <3>9, <3>10,
               <3>11, <3>12, <3>13, <3>14, <3>15, <3>16, <3>17 DEF Resolver
  <2> QED BY <2>1, <2>2, <2>3, <2>4, <2>5, <2>6
<1> QED BY <1>1, <1>2

(* The initial values have the declared types.                             *)
LEMMA TypeInit == Init => TypeOK
<1> SUFFICES ASSUME Init PROVE TypeOK
  OBVIOUS
<1>1. call \in [Threads -> [fn : Functions, mode : Modes, direct : BOOLEAN,
                           args : [Fields -> Pointers]]]
  BY NoCallType DEF Init
<1>2. NoSetter \in [on : Occasions, new : Handlers \cup {NULL}, old : Handlers \cup {NULL}]
  BY DEF NoSetter, Occasions
<1>3. moduleId \in [Modules -> {-1, 0, 1}] /\ id \in [Threads -> {-1, 0, 1}]
  BY DEF Init
<1> QED BY Zenon, <1>1, <1>2, <1>3 DEF Init, TypeOK, Labels, Status, AddressOrNull

(* Type correctness of the resolver.                                       *)
THEOREM TypeCorrect == Spec => []TypeOK
BY TypeInit, TypeStep, PTL DEF Spec
=============================================================================
