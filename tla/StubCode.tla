------------------------------ MODULE StubCode ------------------------------
(***************************************************************************)
(* The code of the import stubs (include/ps4/internal/stub.h) around the   *)
(* call of the resolver, with ps4Pushall and ps4Popall                     *)
(* (source/ps4/internal/pushpop.s) instruction by instruction: a call of an*)
(* imported function must reach it as if the stub were not there.          *)
(*                                                                         *)
(* The stack is counted in words of eight bytes; the stub is entered with  *)
(* rsp = 0, where the return address of the caller lies, and lower words   *)
(* are free.  A register holds a name: its own, for what the caller left   *)
(* in it, or the name of what the code has put there.                      *)
(***************************************************************************)
EXTENDS Stub, SequencesExt

CONSTANT Depth   \* words of stack below the stub's entry

ASSUME DepthAssumption == Depth \in Nat /\ Depth >= 32

XmmLow  == <<"xmm0l", "xmm1l", "xmm2l", "xmm3l", "xmm4l", "xmm5l", "xmm6l", "xmm7l">>
XmmHigh == <<"xmm0h", "xmm1h", "xmm2h", "xmm3h", "xmm4h", "xmm5h", "xmm6h", "xmm7h">>

(* The registers saved in words 2 to 13 of the frame.                      *)
Saved == <<"rbx", "rcx", "rdx", "rsi", "rdi", "r8", "r9", "r10", "r12", "r13", "r14", "r15">>

Registers == Range(XmmLow) \cup Range(XmmHigh) \cup Range(Saved) \cup {"rax", "rbp", "r11"}

(* Registers a called C function leaves as they were.                      *)
CalleeSaved == {"rbx", "rbp", "r12", "r13", "r14", "r15"}

VARIABLES
  type, mode,  \* the stub and the mode it is called in
  filled,      \* slots that hold an address: a set of modes
  pc,          \* routine and index of the next instruction
  reg, rsp, stack

vars == <<type, mode, filled, pc, reg, rsp, stack>>

Init ==
  /\ type \in StubTypes /\ mode \in Modes
  /\ filled \in SUBSET Modes
  /\ pc = <<"enter", 1>>
  /\ reg = [r \in Registers |-> r]
  /\ rsp = 0
  /\ stack = [w \in -Depth .. 1 |-> IF w = 0 THEN "caller" ELSE "junk"]

(***************************************************************************)
(* Instructions.                                                           *)
(***************************************************************************)
Store(r, w) == [op |-> "store", r |-> r, w |-> w]
Load(r, w)  == [op |-> "load", r |-> r, w |-> w]
AddRsp(w)   == [op |-> "add", r |-> "rsp", w |-> w]
Ret         == [op |-> "ret", r |-> "rsp", w |-> 0]

(* A movdqu is two moves of eight bytes.                                   *)
Half(i)     == IF i % 2 = 1 THEN XmmLow[(i + 1) \div 2] ELSE XmmHigh[i \div 2]
XmmStores   == [i \in 1 .. 16 |-> Store(Half(i), 14 + i)]
XmmLoads    == [i \in 1 .. 16 |-> Load(Half(i), 14 + i)]

(* The two routines, for a frame of n words.                               *)
Pushall(n) ==
  <<AddRsp(-n), Store("rax", 1), Load("rax", 30)>>
  \o Reverse(XmmStores) \o Reverse([i \in 1 .. 12 |-> Store(Saved[i], i + 1)])
  \o <<Store("rax", 0), Ret>>

Popall(n, words) ==
  <<Load("rax", 0), Store("rax", 30), Load("rax", 1)>>
  \o [i \in 1 .. 12 |-> Load(Saved[i], words[i])] \o XmmLoads \o <<AddRsp(n), Ret>>

(* Variants: a frame of the wrong size; r12 and its followers loaded from a*)
(* word too low.                                                           *)
ps4PushallShort  == Pushall(29)
ps4PopallShifted == Popall(30, [i \in 1 .. 12 |-> IF i > 8 THEN i ELSE i + 1])

ps4Pushall == Pushall(30)
ps4Popall == Popall(30, [i \in 1 .. 12 |-> i + 1])

Code(routine) == IF routine = "pushall" THEN ps4Pushall ELSE ps4Popall

(* One instruction of ps4Pushall or ps4Popall.                             *)
Step ==
  /\ pc[1] \in {"pushall", "popall"}
  /\ LET i == Code(pc[1])[pc[2]]
     IN  /\ stack' = IF i.op = "store" THEN [stack EXCEPT ![rsp + i.w] = reg[i.r]] ELSE stack
         /\ reg'   = IF i.op = "load" THEN [reg EXCEPT ![i.r] = stack[rsp + i.w]] ELSE reg
         /\ rsp'   = IF i.op = "ret" THEN rsp + 1 ELSE IF i.op = "add" THEN rsp + i.w ELSE rsp
         /\ pc'    = IF i.op = "ret" THEN <<stack[rsp], 1>> ELSE <<pc[1], pc[2] + 1>>
  /\ UNCHANGED <<type, mode, filled>>

Call(routine, back) ==
  /\ rsp' = rsp - 1
  /\ stack' = [stack EXCEPT ![rsp - 1] = back]
  /\ pc' = <<routine, 1>>

(***************************************************************************)
(* The stub.  In front of the slot test rax goes through r11 and back.     *)
(***************************************************************************)
Enter ==
  /\ pc = <<"enter", 1>>
  /\ LET route == StubRoute(type, mode)
     IN  IF route = "kerncall"
         THEN /\ reg' = [reg EXCEPT !["rax"] = "number",
                                   !["r11"] = IF type = Syscall THEN @ ELSE reg["rax"]]
              /\ pc' = <<"kerncall", 1>> /\ UNCHANGED <<rsp, stack>>
         ELSE IF route \in filled
         THEN /\ reg' = [reg EXCEPT !["r11"] = "address"]
              /\ pc' = <<"function", 1>> /\ UNCHANGED <<rsp, stack>>
         ELSE /\ reg' = [reg EXCEPT !["r11"] = "null"]
              /\ Call("pushall", "arguments")
  /\ UNCHANGED <<type, mode, filled>>

(* The movabs instructions in front of the call of the resolver.           *)
LoadArguments ==
  /\ pc = <<"arguments", 1>>
  /\ reg' = [r \in Registers |-> IF r \in DOMAIN Immediates(type) THEN Immediates(type)[r]
                                 ELSE IF r = "r9" THEN "function"
                                 ELSE IF r = "rax" THEN "zero" ELSE reg[r]]
  /\ Call("resolver", "retry")
  /\ UNCHANGED <<type, mode, filled>>

(* The resolver, by the calling convention: it may change what it need not *)
(* save and all words below its return address, and reports Success only   *)
(* with the slot filled (Resolve, SuccessFillsSlot).                       *)
Resolver ==
  /\ pc = <<"resolver", 1>>
  /\ \E status \in {"success", "error"} :
       /\ reg' = [r \in Registers |-> IF r = "rax" THEN status
                                      ELSE IF r \in CalleeSaved THEN reg[r] ELSE "junk"]
       /\ filled' = IF status = "success" THEN filled \cup {StubRoute(type, mode)} ELSE filled
  /\ stack' = [w \in DOMAIN stack |-> IF w <= rsp THEN "junk" ELSE stack[w]]
  /\ rsp' = rsp + 1
  /\ pc' = <<stack[rsp], 1>>
  /\ UNCHANGED <<type, mode>>

CallPopall ==
  /\ pc = <<"retry", 1>>
  /\ reg' = [reg EXCEPT !["r11"] = reg["rax"]]
  /\ Call("popall", "test")
  /\ UNCHANGED <<type, mode, filled>>

(* On Success the stub starts over, else it returns to its caller.         *)
TestStatus ==
  /\ pc = <<"test", 1>>
  /\ pc' = IF reg["r11"] = "success" THEN <<"enter", 1>> ELSE <<"failed", 1>>
  /\ UNCHANGED <<type, mode, filled, reg, rsp, stack>>

(* A signal or an interrupt overwrites what is below the stack pointer.    *)
Interrupt ==
  /\ pc[1] \notin {"function", "failed", "kerncall"}
  /\ stack' = [w \in DOMAIN stack |-> IF w < rsp THEN "junk" ELSE stack[w]]
  /\ UNCHANGED <<type, mode, filled, pc, reg, rsp>>

Next == Enter \/ Step \/ LoadArguments \/ Resolver \/ CallPopall \/ TestStatus \/ Interrupt

Spec == Init /\ [][Next]_vars

-----------------------------------------------------------------------------
(* When a stub jumps to the function it stands for, after any number of    *)
(* resolutions and interrupts, every register but r11, which is free, holds*)
(* what the caller left there, and the stack is as at entry.  xmm7h is     *)
(* left to AllRegistersSurvive.                                            *)
CallIsTransparent ==
  pc[1] = "function" =>
    /\ rsp = 0
    /\ \A r \in Registers \ {"r11", "xmm7h"} : reg[r] = r

(* ps4Pushall and ps4Popall keep all registers but st0, as their FIXME     *)
(* has it.                                                                 *)
AllRegistersSurvive ==
  pc[1] = "function" => \A r \in Registers \ {"r11"} : reg[r] = r

(* The caller's frame is out of reach: its return address and what is above*)
(* are never written, and the ret after a failed resolution finds them.    *)
CallerFrameIntact ==
  /\ stack[0] = "caller" /\ stack[1] = "junk"
  /\ pc[1] \in {"failed", "kerncall"} => rsp = 0
=============================================================================
