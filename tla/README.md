# libps4: TLA+ models of the runtime

libps4 lets a program use the console's system libraries and kernel without
their import libraries.  The repository is mostly declarations: of some 50000
lines of source, 48000 are the system's C headers.  The library's own code is
small, takes no locks, and is shared by all threads of a program (named memory:
by all processes of the machine).  The headers add inline code that programs in
kernel mode compile in: a lock-free ring, the send queues of network interfaces,
the list macros.  This directory models both, checks them with TLC and proves the
resolver's safety with TLAPS.

Source paths are relative to `src/`.

## The system

| Part | Source | State | Operations | What makes it hard |
|---|---|---|---|---|
| Import stubs | `include/ps4/internal/stub.h` | address slots, module handle of each import | call in user or kernel mode; retry after resolution | the loop back after Success, two modes, layout shared with the resolver by convention |
| Resolver | `source/ps4/internal/resolve.c` | slots, module handles, static `lsm`, three handler pointers | resolve, `ps4Resolve`, three handler setters | no lock: tests and uses of shared cells are separate accesses; loads fail; handlers of the program intervene |
| Register save and restore | `source/ps4/internal/pushpop.s` | stack frame, registers | `ps4Pushall`, `ps4Popall` | hand-made frame, signals, repeated rounds |
| Named memory | `source/ps4/namedmemory.c` | names, objects, mappings, heap blocks | Open, Close, Unlink | several processes, any call may fail, crashes, rounding |
| ELF loader | `source/ps4/elfloader.c` | image memory, two views of it | create, memory size, Load, Instantiate, Relocate, destroy; lookups | overlapping headers, 16-bit lengths, string lookups, partial failure, reload |
| Kernel services | `source/ps4/kernel.c` | four static variables | `ps4KernelDlSym`, executable-memory allocation, `ps4KernelRunMain` | racing lazy initialisation, unsynchronised bump pointer, missing image |
| Protected memory | `source/ps4/protectedmemory.c` | two mappings of one object, descriptors | Create, Destroy | results ignored, handles uninitialised, cleanup chain, other threads' descriptors |
| Packet ring | `include/sys/buf_ring.h`, `drbr_*` in `include/net/if_var.h` | slots, four indices | enqueue, two dequeues, peek, flush, counts | no lock, several producers and consumers, indices that wrap |
| Send queues | `include/net/if_var.h` | two lists per interface, a flag | enqueue, poll, dequeue, batch, put back, purge | two locks, a flag read without its lock |
| List macros | `include/sys/queue.h` | links, end pointers | insert, remove, concatenate, swap, safe loops | end pointers, heads read as elements, checks of the debugging build |

The parts meet in four places.  A stub hands the resolver pointers to its own
data in argument registers; `Stub` has the immediates that each stub loads into
which register and the register of each parameter, and both `Resolve` (what the
resolver finds in its parameters) and `StubCode` (which executes the loads) are built
on the same table, so a wrong register shows in both.  The
resolver looks kernel symbols up with `ps4KernelDlSym`, an external function in
`Resolve`; `Kernel` models it separately, and the two are not composed.  The ELF
loader writes to a memory of `elfMemorySize` bytes that its caller provides,
usually protected memory; `Loading` composes the two.  The ring and the send queues
are two ways to do the same job: both implement `PacketQueue`.

## Modules

**`Stub`, `Resolve`, `MCResolve`.**  Every label of a thread is a place in
`ps4ResolveModuleAndSymbolOrKernelSymbol`, and every action one access to shared
memory with the local code around it: `ReadModuleId`, `ReadLsm`, `LoadKernel`,
`ResolveLsm`, `LoadModule` (load and store), `CheckLoad` (the second read) and so
on.  `Check` is the pattern of an error with its handler.  Module handles are 0
(unset), 1 (loaded) or -1 (load error).  System calls and kernel lookups are
external: they find what the constants say, or fail as `MayFail` allows.  So are the
program and its handlers: it calls any stub in any mode, and a handler answers any
status.  What the properties expect of them is a premise, not a restriction of the
model: `Legal` has the modes a stub is made for, by the comments on the stubs,
`KeepsContract` what a handler may answer.  The history variable `past` has, for the
call a thread is in, whether a handler broke that contract (`misled`), a load of its
module failed (`loadFailed`), or a lookup stored NULL over the address in its kernel
slot (`emptied`).

**`StubCode`.**  The instructions of each stub type with `ps4Pushall` and
`ps4Popall`.  A register or stack word holds the name of what was put in it.  A
signal may clobber everything below the stack pointer between instructions.

**`NamedMemory`, `SharedStore`, `MCNamedMemory`.**  One action per system call of
Open with its cleanup labels; Close, Unlink, and Crash.  Objects, names and
descriptors are external POSIX behaviour.  `size_t` arithmetic is modulo
`SizeRange`; `Copy` maps a name to its copy cut after 255 bytes.  `SharedStore` is
the abstract promise: segments that outlive their users and only grow.

**`Elf`, `ElfLoader`.**  `Elf` has the pure lookups, `ElfLoader` one
action per header and per relocation.  A word of memory is old content, zero, a
word of the file, or an address in one of the two views.  The 16-bit length of a
relocation table is modulo `IndexRange`.  A NULL dereference ends in `crashed`.

**`ProtectedMemory`.**  One action per system call of Create and per cleanup label.
A JIT call that fails leaves its handle with any value of `Garbage`; other threads
open and close descriptors meanwhile.  `confused` records that an unset handle
named an open descriptor.

**`Loading`, `MCLoading`.**  The composition: a program creates an Elf object and a
protected memory for its `elfMemorySize`, calls the loader on the two addresses and
destroys both, in any order that the interfaces allow.

**`PacketQueue`.**  The abstract promise of a transmit queue: bounded, first in first
out, each packet once.  `pqNextWithReturns` adds putting a packet back in front,
which the send queues can and the ring cannot.

**`BufRing`.**  One action per access to the shared indices and slots, in program
order, which amd64 keeps.  `Late` is the one reordering that the source leaves to
the compiler: the single consumer's slot is not volatile.  A thread whose index
was overtaken is `stale`; if its compare-and-swap still succeeds the ring has gone
round (`lap`).  Behaviours end there, and the properties speak of what is before.

**`IfQueue`.**  The list macros as functions on links, the sections under the queue's
lock as single steps, and a driver that takes packets in one of the three ways the
macros are made for.  Driver, device and the driver's lock are external.

**`QueueMacros`.**  Each macro as a function on the links and back pointers of heads
and elements; a client that keeps to the rules calls them in any order on one of
the four kinds of list, and runs the safe loops with removal of the current
element.  `lists` is what the client has in mind.

**`Kernel`, `MCKernel`.**  Each store of `ps4KernelInternalInitialize` is a step.
The last two have no call between them, so the build may swap them.  The
allocator's read and addition are separate, and the addition may use either
value.  Making the run syscall available is one opaque external step that
succeeds or not.

**`ResolveTypes_proof`, `ResolveSteps_proof`, `Resolve_proof`.**  The proofs.

## Runs

| Run | Asks | Result |
|---|---|---|
| `resolve` | two threads, all five stub types called in both modes, `ps4Resolve`, failing libkernel, lsm lookup and loads | right jumps, bad accesses have only the known causes, failures have a cause, Success fills the slot |
| `resolve_handlers` | one thread changes handlers, one of which breaks its contract, while both resolve a missing symbol in both modes, under fairness | `Inv` holds; every call ends unless it was misled or its slot emptied |
| `resolve_syscall` | stubs called only in the modes they are made for | **violated**: `NoBadAccess` |
| `stub_code` | all stub types, repeated resolution, signals | the call is transparent but for r11 and the upper half of xmm7 |
| `stub_code_xmm7` | every register but r11 survives | **violated** |
| `named_memory` | two processes, two names, failing calls, crashes | mappings backed, no leak, implements `SharedStore` |
| `named_race` | the same with opens of different sizes | **violated**: `MappingBacked` |
| `elf_loader` | create, two calls in a row on small images, destroy; failing calls in Create | writes stay inside the image and the mapping, image and pointers right, lookups agree, NULL dereferences explained, both views of one object, no leak, other threads' descriptors kept |
| `kernel` | three threads, first use from both modes | lookups right; blocks apart unless an allocation raced |
| `buf_ring` | two producers, two consumers, both ways of dequeuing | implements `PacketQueue` up to a lap or late load; what `drbr_inuse` reports stays there, assertions hold, turns come, calls return |
| `if_queue` | two senders, an interrupt, three kinds of driver, purges | implements `PacketQueue` with returns; lists sound and within limits; no packet stranded |
| `queue_macros` | all macros on two heads and four elements | pointers spell the lists, ends right, checks hold, safe loops visit all |

### Findings

* `stub.h:284` (`resolve_syscall`): the combined syscall and kernel function stub loads
  the name of its symbol into the register of the module.  In kernel mode, with an
  empty slot, the resolver looks up what the caller left in `%rsi`, or reports an
  argument error if that is NULL.  The stub tests the mode itself, and the warnings
  at `stub.h:117` and `stub.h:169` are about the plain stubs; `ps4Resolve` reads the
  same immediate as the symbol, so a program can fill the slot with it first.
* `pushpop.s:46` (`stub_code_xmm7`): the return address of `ps4Popall` overwrites the
  saved upper half of xmm7.
* `namedmemory.c:61` (`named_race`): an open with a smaller size can cut the object
  under a larger mapping made meanwhile.

What the models have built in, because the code does it, and no run states:

* `stub.h:23`: `ps4StubType` reads byte 2 of a stub; the marker is byte 1.  The type
  checks of the resolver never fire (`BadAccessExplained` allows for it).
* `resolve.c:81`: a failing kernel lookup stores its NULL over an address that a
  handler supplied in another thread (`emptied`).
* `namedmemory.c:74`: a failed open unlinks a name that existed before it.
* `namedmemory.c:31`: of a name longer than 255 bytes Unlink removes its prefix.
* `kernel.c:143`: the loop ends in front of the last symbol (`LookupRight` leaves it
  out).
* `protectedmemory.c:36`: descriptor 0 counts as a failure and is then not closed
  (`NothingLeaks` excepts it).
* `buf_ring.h:97`: a producer that read `prod_head` and was then overtaken can be
  refused although the ring has room.  `PacketQueue` lets a queue refuse.
* `buf_ring.h:268`: `buf_ring_count` reads two indices one after the other.  Under the
  driver's lock the result is at most what is there (`CountIsKept`).  Without a lock
  it can be any number: in a ring of four, `prod_tail` 1, then one more packet and both
  taken, then `cons_tail` 2 gives 3 for an empty ring.
* `resolve.c:181`: of two threads that set the same handler, one may be told of a
  handler that it did not replace.
* `kernel.c:116`: `ps4KernelRunMain` returns -1 both when it could not run the
  function and when the function returned -1.

### Bounds

* Two threads in `Resolve`: enough for one to come between any two accesses of the
  other.  For the safety properties the proofs remove this bound; `CallCompletes`
  is checked for two threads only.  `resolve` uses thread symmetry; the liveness
  run does not.  One module, which all functions share, so that threads meet in its
  handle; one function per stub type, and in `resolve_handlers` one that no one
  exports, with a handler that supplies an address, one that refuses and one that
  goes on after any error.
* Three threads and two blocks in `Kernel`: two racing initialisations and a third
  thread that uses what they leave.  The symbol table has a name twice, a symbol
  without a name and a last symbol; the dynamic table has an entry behind its end.
* Two processes and two names in `NamedMemory`, with as many objects as they can
  hold at once.  `PageSize` 4 and `SizeRange` 16 put 0, one page, more than a page and the
  overflow of rounding up among four sizes.
* `ElfLoader`: four layouts (separate, touching, thread-local with and without
  .tbss), all relocation types and an unknown one, tables of 0, 1, 2 and
  `IndexRange` entries, two calls so that the second meets the first's memory.
* `ProtectedMemory`: descriptors 0 to 3, of which others may hold 0 and 1; an unset
  handle may be 0, another thread's descriptor, one that Create gets itself, or
  none.  `PageSize` 4 and `SizeT` 64.  Failing calls are combined with a few images
  only (`MCFaultyElfs`): Create depends on nothing but the size.
* `StubCode`: the code goes 31 words deep; `Depth` 33 leaves a signal words to clobber
  below that.
* `BufRing`: rings of two and four slots, so of one and three packets, and two packets
  that travel: the smaller ring fills, both wrap and are lapped, and two producers
  or consumers can be in progress at once in the larger.  With three packets the
  same properties held too; that run takes longer than is practical to repeat.
  Producers are alike, and consumers: `TurnComes` follows one of each.
* `IfQueue`: `MaxLen` 3, so that a batch moves two packets, with and without a list of
  the driver's; a device of one slot, so that packets come back.
* `QueueMacros`: four elements: a first, a last, and two in between or in the other
  list.

### Assumptions

* `CalledRight` is about stubs called in a mode they are made for (`Legal`).  The
  combined syscall stub in kernel mode is one of these, and its jumps are right; its
  argument errors and stray pointers are the finding above, and excepted from
  `ErrorsHaveCause` and `BadAccessExplained` by name.
* `Honest`: `ErrorsHaveCause` and `SuccessFillsSlot` are about calls whose handlers kept
  their contract: a handler that reports Success has supplied an address, and an
  error handler lets the resolver go on only after a recoverable error.
* `SuccessFillsSlot` and `CallCompletes` except a call whose kernel slot was emptied
  while it went on (`resolve.c:81` above).
* `ps4Resolve` is called on stubs; its early returns for other code do not happen then
  and are left out.
* One thread sets handlers.  With two, the setters' separate read and write can
  tell one of them of a handler that it did not replace.
* `SamePages`: concurrent opens of a name ask for the same number of pages.
  `named_race` drops it.  fstat does not fail; with it in `Faults`, `MappingBacked`
  fails, since the code then takes the size for 0.
* `HeadersAgree`, `Separated`, `NamesAgree`, `RelocationsAgree`: the images the loader is
  made for.  Linkers produce them, with one exception: a thread-local template with a
  .tbss does not meet `HeadersAgree`, and the loader clears what lies behind it.
  Without `HeadersAgree` TLC finds a counterexample to `ImageIsRight` among the images
  of `MCLoading`, and without `Separated`, `NamesAgree` or the first clause of
  `RelocationsAgree` (table lengths) one to `PointersAreRight`.  The other two clauses
  of `RelocationsAgree` (targets in a segment, one relocation per word) and
  `filesz <= memsz` are premises that no image there breaks on its own, and
  `StaysInside` holds for these images without `HeadersAgree` too, so the run says
  nothing about images for which they would matter.
* `BlocksApart` assumes that no allocation overlapped another or an initialisation;
  without that TLC finds a counterexample.  `LookupRight` assumes nothing about
  scheduling, and leaves out the last symbol, which the loop never compares.
* `ViewsAgree`, `NothingLeaks` and `OthersKept` hold unless an unset handle named an open
  descriptor, or for descriptor 0, as their comments say.  A mapping of the alias
  shows the object: the source maps it with `MAP_PRIVATE | MAP_TYPE`, and the model
  takes it that the system shares JIT memory all the same.
* `BufRing` promises nothing after a lap or a late load.  The driver's lock, and that
  a ring is used in one of the two ways only, are external.
* `IfQueue`: drivers check the queue again after each packet, set the flag when the
  device is full and clear it when it has room.

### Fairness

`Resolve`'s `FairSpec` has weak fairness of each thread's steps inside the stub and
resolver while the program runs: a runnable thread is scheduled, and the code there
never waits.  Nobody is obliged
to call, return from a called function or set handlers.

`BufRing`: weak fairness of each thread's steps inside the functions, which run in
a critical section or under the driver's lock and are not preempted for ever.  A
thread that loses every compare-and-swap may starve, so `SomeoneReturns` speaks of
all threads together.  `IfQueue`: weak fairness of senders and driver once they are in
the kernel, and of the device's interrupt; nobody has to send.

### Deadlock

Off where the system stops: `resolve` and `resolve_handlers` (a bad access ends the
program), `stub_code` and
`stub_code_xmm7` (one call), `elf_loader` (bounded calls), `buf_ring` (behaviours end at a
lap or late load).

## Proofs

`Resolve` is proved for any sets of threads, functions, modules and handlers, and for
any program: which stubs it calls in which modes, what `MayFail` lists and what its
handlers answer are arbitrary.  The one assumption is `ConstantTypes`, the types of
the constants.

* `TypeCorrect`: `Spec => []TypeOK`.
* `InvHolds`: `Spec => []Inv`.
* From it `JumpsAreRight` (`CalledRight`), `BadAccessesAreExplained`
  (`BadAccessExplained`), `FailuresAreReal` (`ErrorsHaveCause`) and `RetriesGetThrough`
  (`SuccessFillsSlot`).

None of the four is inductive alone.  That only a misled call follows a NULL pointer
needs to know that a thread about to load a module has seen `lsm` set, and that no
thread resets it; that a load error is real needs to know that an error in a module
handle was put there by a load that failed since the call began, also when another
thread stored it between the two reads.  `Inv` says this in two parts: `SharedSound`,
what the shared cells hold at any time, and `ThreadSound`, what one thread may rely
on at each label: in any call what its arguments and branch are, and in an honest
one what the code before the label has tested.

The step proof has one lemma per action.  Each shows three things: the shared cells
stay sound, the acting thread is sound at its next label, and the step keeps to what
every other thread relies on (`Rely`): its locals are its own, `lsm` stays set, a
handle once written is not unset, a user slot is not emptied, and a load error or an
emptied kernel slot is on record in its `past`.  Lemma `Frame` shows once that a
thread stays sound through any such step, and `Assemble` puts the three together.

TLC checks `Inv` in `resolve_handlers`.  Model-checked only: liveness
(`CallCompletes`), which is out of the prover's reach, and for now everything about
the other modules.

## Not modelled

* `kernelexploit.c`, `kernelexploitpayload.c`, `asmpayload.s`: depend on undocumented
  behaviour of one firmware and have no state of the library's own.  The wrappers
  of `kernel.c` that only pass a payload to `ps4KernelRunMain` go with them.
* ELF: `elfEntry`, `elfLargestAlignment`, `elfCreateLocal` and its unchecked form,
  and the functions that select one attribute of a header.
* The rest of the system headers.  Nearly all of it is constants, types, prototypes
  and system call numbers, which have no behaviour; they are most lines of the
  repository, so the models stand for a few per cent of its lines.  By a rough count
  the headers have some 3900 lines of functions and longer macros, of which
  `queue.h`, `if_var.h` and `buf_ring.h` have about 800.  The largest of the others:
  `machine/cpufunc.h` and `machine/atomic.h` (single instructions), `sys/mbuf.h` (the
  allocator behind it is not in the repository), `sys/sysctl.h` and `net/vnet.h`
  (macros that declare), `sys/mutex.h` and `sys/sx.h` (the fast paths of locks whose
  slow paths are not in the repository), `sys/eventhandler.h`, `sys/refcount.h`,
  and the arithmetic of `sys/time.h`.  The last three could be modelled, and are not.
* ALTQ's disciplines in `if_var.h`; the traces of the debugging build and
  `SLIST_FOREACH_PREVPTR` in `queue.h`.
* `kerncall.s`, `crt0.s`: straight-line code.  Symbol lists and headers: one macro
  line per import.
* `buf_ring_full`, which nothing calls, and the counters of packets, bytes and drops in
  `drbr_enqueue`.
* Debug output; stack alignment at the call of the resolver.

## Plan

1. Compose `Kernel` with `Resolve`: the kernel branch with the real lookup.
2. `sys/refcount.h`, `sys/eventhandler.h` and the arithmetic of `sys/time.h`.
3. Proofs: `LookupRight` for any number of threads; `MappingBacked` and the refinement
   of `SharedStore`; `StaysInside`; the list macros for any number of elements.
