-------------------------------- MODULE Stub --------------------------------
(***************************************************************************)
(* The five stub shapes of include/ps4/internal/stub.h, as far as the      *)
(* resolver depends on them: the type marker in the first bytes of a stub, *)
(* the pointers a stub hands to ps4ResolveModuleAndSymbolOrKernelSymbol,   *)
(* and the pointers ps4Resolve reads back out of the stub's code.          *)
(*                                                                         *)
(* A pointer argument is abstracted to what the resolver can do with it:   *)
(* "own" points at the datum of this stub (its name, its module handle,    *)
(* its address slot), "null" is NULL, and "stray" is any other value, such *)
(* as an argument register the stub left as its caller set it.             *)
(***************************************************************************)
EXTENDS Integers, Sequences

Function                  == 0
KernelFunction            == 1
FunctionAndKernelFunction == 2
SyscallAndKernelFunction  == 3
Syscall                   == 4

StubTypes == 0 .. 4
Modes     == {"user", "kernel"}
Pointers  == {"own", "null", "stray"}
Fields    == {"module", "symbol", "moduleId", "userAddress", "kernelAddress"}

(***************************************************************************)
(* The first three bytes of a stub.  `test $n, %al` assembles to a8 n; the *)
(* next instruction is `mov %rax, %r11` (49 89 c3), or `movq $number, %rax`*)
(* (48 c7 c0 ...) in a plain syscall stub.                                 *)
(***************************************************************************)
StubBytes(type) == <<168, type, IF type = Syscall THEN 72 ELSE 73>>

(* The C macro indexes from 0, a TLA+ sequence from 1.                     *)
ps4StubType(type) == StubBytes(type)[2 + 1]

(* The registers the resolver's parameters arrive in.                      *)
ArgumentRegister == [module |-> "rdi", symbol |-> "rsi", moduleId |-> "rdx",
                     userAddress |-> "rcx", kernelAddress |-> "r8"]

(* What the movabs instructions in front of the call of the resolver put   *)
(* into which register; a plain syscall stub never calls it.               *)
Immediates(type) ==
  CASE type = Function       -> [rdi |-> "module", rsi |-> "symbol", rdx |-> "moduleId",
                                 rcx |-> "userAddress"]
    [] type = KernelFunction -> [rsi |-> "symbol", r8 |-> "kernelAddress"]
    [] type = FunctionAndKernelFunction -> [rdi |-> "module", rsi |-> "symbol",
                                            rdx |-> "moduleId", rcx |-> "userAddress",
                                            r8 |-> "kernelAddress"]
    [] type = SyscallAndKernelFunction  -> [rdi |-> "symbol", r8 |-> "kernelAddress"]
    [] type = Syscall                   -> [r \in {} |-> "none"]

(***************************************************************************)
(* What the resolver receives from a stub whose caller left its registers  *)
(* pointing at `caller`: its parameter's own datum, if the stub loaded the *)
(* parameter's register with that.                                         *)
(***************************************************************************)
StubArguments(type, caller) ==
  [x \in Fields |->
     LET r == ArgumentRegister[x]
     IN  IF r \notin DOMAIN Immediates(type) THEN caller
         ELSE IF Immediates(type)[r] = x THEN "own" ELSE "stray"]

(* The immediates ps4Resolve reads out of the code of each stub.           *)
ResolveReads(type) ==
  CASE type = Function                  -> Fields \ {"kernelAddress"}
    [] type = KernelFunction            -> {"symbol", "kernelAddress"}
    [] type = FunctionAndKernelFunction -> Fields
    [] type = SyscallAndKernelFunction  -> {"symbol", "kernelAddress"}
    [] type = Syscall                   -> {}

(* What the resolver receives from ps4Resolve: NULL for what is not read.  *)
ResolveArguments(type) ==
  [x \in Fields |-> IF x \in ResolveReads(type) THEN "own" ELSE "null"]

(* Variant: the combined stub tests the ring the wrong way round.          *)
StubRouteSwapped(type, mode) ==
  CASE type = Function                  -> "user"
    [] type = KernelFunction            -> "kernel"
    [] type = FunctionAndKernelFunction -> IF mode = "user" THEN "kernel" ELSE "user"
    [] OTHER                            -> "kerncall"

(* Where a call of a stub goes: straight to ps4Kerncall, or through the    *)
(* user or the kernel address slot.                                        *)
StubRoute(type, mode) ==
  CASE type = Function                  -> "user"
    [] type = KernelFunction            -> "kernel"
    [] type = FunctionAndKernelFunction -> mode
    [] type = SyscallAndKernelFunction  -> IF mode = "kernel" THEN "kernel"
                                           ELSE "kerncall"
    [] type = Syscall                   -> "kerncall"
=============================================================================
