----------------------------- MODULE MCResolve ------------------------------
(***************************************************************************)
(* Instances of Resolve: one function per stub type, and one that neither  *)
(* its module nor the kernel exports.  They share one module.              *)
(***************************************************************************)
EXTENDS Resolve, TLC

CONSTANTS fUser, fKernel, fBoth, fSyscall, fPlain, fMissing,
          m1, supply, refuse, stubborn

MCType == [f \in Functions |->
  CASE f = fUser    -> Function
    [] f = fKernel  -> KernelFunction
    [] f = fSyscall -> SyscallAndKernelFunction
    [] f = fPlain   -> Syscall
    [] OTHER        -> FunctionAndKernelFunction]

MCModuleOf == [f \in Functions |-> m1]

(* An address is told apart by what it is the address of.                  *)
MCAddresses    == ({"user", "kernel"} \X Functions) \cup {<<"kerncall">>, <<"handler">>}
MCKerncall     == <<"kerncall">>
MCUserSymbol   == [f \in Functions |->
  IF f \in {fMissing, fKernel} THEN NULL ELSE <<"user", f>>]
MCKernelSymbol == [f \in Functions |->
  IF f \in {fMissing, fUser} THEN NULL ELSE <<"kernel", f>>]

MCLegalCalls == {c \in Functions \X Modes : Legal(MCType[c[1]], c[2])}
MCAllCalls   == Functions \X Modes

(* ps4Resolve in the mode that its stub serves badly or not at all, and on *)
(* the two kinds of syscall stub.                                          *)
MCResolveCalls == {<<fUser, "kernel">>, <<fKernel, "user">>, <<fPlain, "user">>}
                  \cup {fSyscall} \X Modes

(* Threads are alike, for the invariants of Spec.                          *)
MCSymmetry == Permutations(Threads)

(* `supply` provides an address in place of a lookup, `refuse` fails every *)
(* call, and `stubborn` provides an address and goes on after any error:   *)
(* after a failed lookup the contract lets it, after others it does not.   *)
MCNoHandlers     == [o \in Occasions |-> {}]
MCHandlersFor    == [pre |-> {supply}, error |-> {stubborn}, post |-> {refuse}]
MCHandlerReturn  == [h \in Handlers |-> [code \in Status |->
  CASE h = refuse   -> "InterceptFailure"
    [] h = stubborn -> "InterceptContinue"
    [] h = supply   -> "Success"]]
MCHandlerAddress == [h \in Handlers |-> IF h = refuse THEN NULL ELSE <<"handler">>]
=============================================================================
