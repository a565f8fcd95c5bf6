------------------------------- MODULE BufRing -------------------------------
(***************************************************************************)
(* The lock-free ring of include/sys/buf_ring.h, and the transmit queues   *)
(* that include/net/if_var.h makes of it (drbr_*, without ALTQ).  A step   *)
(* is one access to the shared ring with the local code around it, in the  *)
(* order of the program, which amd64 keeps.  The one access that the       *)
(* compiler may move is in buf_ring_dequeue_sc: see Late.  A ring is used  *)
(* either with buf_ring_dequeue_mc by all consumers or with the drbr       *)
(* functions under the driver's lock.  The build is the one with           *)
(* DEBUG_BUFRING, which also clears a slot that was read; another build    *)
(* only differs in the old pointers that stay in slots nobody reads.       *)
(***************************************************************************)
EXTENDS Integers, Sequences

CONSTANTS
  Producers, Consumers,
  Packets,     \* mbufs that travel through the ring, and come back
  Sizes,       \* sizes rings are made with, powers of two
  None

ASSUME RingSizes == Sizes \subseteq Nat \ {0, 1}

VARIABLES
  size,        \* br_prod_size = br_cons_size
  mode,        \* "mc", or "sc" under the lock
  ring,        \* br_ring
  prodHead, prodTail, consHead, consTail,
  lock,        \* the consumer that holds the driver's lock, or None
  pc,          \* per thread: "idle" outside of the functions
  head,        \* per thread: prod_head or cons_head
  buf,         \* per thread: the packet it is putting in or has taken out
  flushing,    \* is the holder of the lock in drbr_flush?
  peeked,      \* what drbr_dequeue_cond showed to its function, or None
  stale,       \* threads whose `head` has been overtaken by another thread
  excused      \* what has gone wrong with the ring: "lap", "late"

ringVars == <<ring, prodHead, prodTail, consHead, consTail>>
scVars   == <<lock, flushing, peeked>>
kind     == <<size, mode>>
vars     == <<kind, ringVars, scVars, pc, head, buf, stale, excused>>

Threads == Producers \cup Consumers

Init ==
  /\ size \in Sizes /\ mode \in {"mc", "sc"}
  /\ ring = [k \in 0 .. size - 1 |-> None]
  /\ prodHead = 0 /\ prodTail = 0 /\ consHead = 0 /\ consTail = 0
  /\ lock = None /\ flushing = FALSE /\ peeked = None
  /\ pc = [t \in Threads |-> "idle"]
  /\ head = [t \in Threads |-> 0] /\ buf = [t \in Threads |-> None]
  /\ stale = {} /\ excused = {}

(* (x + 1) & mask                                                          *)
After(x) == (x + 1) % size

Goto(t, from, to) == pc[t] = from /\ pc' = [pc EXCEPT ![t] = to]

(* Locals end with the call.                                               *)
Leave(t, from) ==
  /\ Goto(t, from, "idle")
  /\ head' = [head EXCEPT ![t] = 0] /\ buf' = [buf EXCEPT ![t] = None]
  /\ stale' = stale \ {t}

(* The threads that hold a value of an index that is about to change.      *)
Overtakes(t, others) == stale' = (stale \cup {o \in others : pc[o] \in {"tail", "cas"}}) \ {t}

(***************************************************************************)
(* drbr_enqueue and buf_ring_enqueue_bytes.  An mbuf that is refused or    *)
(* transmitted is freed, and may be offered again; nothing depends on      *)
(* which of the free ones it is.  Nothing reads the counters of drops,     *)
(* packets and bytes, nor the statistics of the interface: they are left   *)
(* out.                                                                    *)
(***************************************************************************)
Contents == [k \in 1 .. (prodTail - consHead) % size |-> ring[(consHead + k - 1) % size]]
InRing   == {Contents[k] : k \in DOMAIN Contents}
Held     == {buf[t] : t \in Threads}
            \cup {ring[head[c]] : c \in {c \in Consumers : pc[c] \in {"load", "scLoad"}}}

drbr_enqueue(p) ==
  /\ Goto(p, "idle", "tail")
  /\ head' = [head EXCEPT ![p] = prodHead]
  /\ Packets \ (InRing \cup Held) # {}
  /\ buf' = [buf EXCEPT ![p] = CHOOSE b \in Packets : b \notin InRing \cup Held]
  /\ UNCHANGED <<kind, ringVars, stale, excused, scVars>>

(* The next attempt, and likewise the first.                               *)
ReadHead(p) ==
  /\ Goto(p, "head", "tail")
  /\ head' = [head EXCEPT ![p] = prodHead]
  /\ UNCHANGED <<kind, ringVars, buf, stale, excused, scVars>>

Refuses(p) == pc[p] = "tail" /\ After(head[p]) = consTail

(* Variant: enqueues without looking for room.                             *)
ReadTailUnchecked(p) ==
  /\ Goto(p, "tail", "cas")
  /\ UNCHANGED <<kind, ringVars, head, buf, stale, excused, scVars>>

(* ENOBUFS, or on to the cmpset.                                           *)
ReadTail(p) ==
  /\ IF Refuses(p)
     THEN Leave(p, "tail")
     ELSE Goto(p, "tail", "cas") /\ UNCHANGED <<head, buf, stale>>
  /\ UNCHANGED <<kind, ringVars, excused, scVars>>

(* Variant: a failed cmpset is tried again with the index read before.     *)
ReserveAgain(p) ==
  /\ prodHead = head[p] /\ Goto(p, "cas", "store")
  /\ prodHead' = After(head[p])
  /\ Overtakes(p, Producers)
  /\ excused' = IF p \in stale THEN {"lap"} ELSE {}
  /\ UNCHANGED <<kind, ring, prodTail, consHead, consTail, head, buf, scVars>>

(* The cmpset compares indices: it also succeeds when the ring went once   *)
(* around in the meantime, though the room that was seen may be gone.      *)
Reserve(p) ==
  /\ IF prodHead = head[p]
     THEN /\ Goto(p, "cas", "store")
          /\ prodHead' = After(head[p])
          /\ Overtakes(p, Producers)
          /\ excused' = IF p \in stale THEN {"lap"} ELSE {}
     ELSE /\ Goto(p, "cas", "head")
          /\ stale' = stale \ {p}
          /\ UNCHANGED <<prodHead, excused>>
  /\ UNCHANGED <<kind, ring, prodTail, consHead, consTail, head, buf, scVars>>

Store(p) ==
  /\ Goto(p, "store", "turn")
  /\ ring' = [ring EXCEPT ![head[p]] = buf[p]]
  /\ UNCHANGED <<kind, prodHead, prodTail, consHead, consTail, head, buf, stale, excused, scVars>>

(* Variant: waits for later enqueues as well.                              *)
PublishAlone(p) ==
  /\ prodTail = head[p] /\ prodHead = After(head[p])
  /\ Leave(p, "turn")
  /\ prodTail' = After(head[p])
  /\ UNCHANGED <<kind, ring, prodHead, consHead, consTail, excused, scVars>>

(* Once the enqueues before this one are done.                             *)
Publish(p) ==
  /\ prodTail = head[p]
  /\ Leave(p, "turn")
  /\ prodTail' = After(head[p])
  /\ UNCHANGED <<kind, ring, prodHead, consHead, consTail, excused, scVars>>

(***************************************************************************)
(* buf_ring_dequeue_mc                                                     *)
(***************************************************************************)
buf_ring_dequeue_mc(c) ==
  /\ mode = "mc" /\ Goto(c, "idle", "tail")
  /\ head' = [head EXCEPT ![c] = consHead]
  /\ UNCHANGED <<kind, ringVars, buf, stale, excused, scVars>>

ReadConsHead(c) ==
  /\ Goto(c, "head", "tail")
  /\ head' = [head EXCEPT ![c] = consHead]
  /\ UNCHANGED <<kind, ringVars, buf, stale, excused, scVars>>

ReadProdTail(c) ==
  /\ IF head[c] = prodTail
     THEN Leave(c, "tail")
     ELSE Goto(c, "tail", "cas") /\ UNCHANGED <<head, buf, stale>>
  /\ UNCHANGED <<kind, ringVars, excused, scVars>>

Claim(c) ==
  /\ IF consHead = head[c]
     THEN /\ Goto(c, "cas", "load")
          /\ consHead' = After(head[c])
          /\ Overtakes(c, Consumers)
          /\ excused' = IF c \in stale THEN {"lap"} ELSE {}
     ELSE /\ Goto(c, "cas", "head")
          /\ stale' = stale \ {c}
          /\ UNCHANGED <<consHead, excused>>
  /\ UNCHANGED <<kind, ring, prodHead, prodTail, consTail, head, buf, scVars>>

(* Variant: the slot keeps its pointer.                                    *)
LoadKeeps(c, from, to) ==
  /\ Goto(c, from, to)
  /\ buf' = [buf EXCEPT ![c] = ring[head[c]]]
  /\ UNCHANGED <<kind, ringVars, head, stale, excused, scVars>>

(* The slot is read, and cleared.                                          *)
LoadSlot(c, from, to) ==
  /\ Goto(c, from, to)
  /\ buf' = [buf EXCEPT ![c] = ring[head[c]]]
  /\ ring' = [ring EXCEPT ![head[c]] = None]
  /\ UNCHANGED <<kind, prodHead, prodTail, consHead, consTail, head, stale, excused, scVars>>

Load(c) == LoadSlot(c, "load", "turn")

Release(c) ==
  /\ consTail = head[c]
  /\ Leave(c, "turn")
  /\ consTail' = After(head[c])
  /\ UNCHANGED <<kind, ring, prodHead, prodTail, consHead, excused, scVars>>

(***************************************************************************)
(* drbr_dequeue, drbr_flush, drbr_dequeue_cond and drbr_inuse, under the   *)
(* lock                                                                    *)
(***************************************************************************)
Lock(c) ==
  /\ mode = "sc" /\ lock = None /\ lock' = c
  /\ \/ Goto(c, "idle", "sc") /\ flushing' \in BOOLEAN
     \/ Goto(c, "idle", "peek") /\ UNCHANGED flushing
     \/ Goto(c, "idle", "inuse") /\ UNCHANGED flushing
  /\ UNCHANGED <<kind, ringVars, head, buf, peeked, stale, excused>>

Unlock(c, from) == Leave(c, from) /\ lock' = None /\ flushing' = FALSE /\ peeked' = None

buf_ring_empty == consHead = prodTail

(* buf_ring_peek                                                           *)
Peek(c) ==
  /\ IF buf_ring_empty
     THEN Unlock(c, "peek")
     ELSE Goto(c, "peek", "peekLoad") /\ UNCHANGED <<head, buf, stale, scVars>>
  /\ UNCHANGED <<kind, ringVars, excused>>

(* Variant: shows the packet behind the first.                             *)
PeekNext(c) ==
  /\ Goto(c, "peekLoad", "sc")
  /\ peeked' = ring[After(consHead)]
  /\ UNCHANGED <<kind, ringVars, lock, flushing, head, buf, stale, excused>>

(* The function given to drbr_dequeue_cond says yes or no.                 *)
PeekLoad(c) ==
  /\ \/ Unlock(c, "peekLoad")
     \/ /\ Goto(c, "peekLoad", "sc")
        /\ peeked' = ring[consHead]
        /\ UNCHANGED <<lock, flushing, head, buf, stale>>
  /\ UNCHANGED <<kind, ringVars, excused>>

(* buf_ring_dequeue_sc                                                     *)
ScReadProdTail(c) ==
  /\ IF buf_ring_empty
     THEN Unlock(c, "sc")
     ELSE Goto(c, "sc", "scHead") /\ UNCHANGED <<head, buf, stale, scVars>>
  /\ UNCHANGED <<kind, ringVars, excused>>

ScAdvance(c) ==
  /\ Goto(c, "scHead", "scLoad")
  /\ head' = [head EXCEPT ![c] = consHead]
  /\ consHead' = After(consHead)
  /\ UNCHANGED <<kind, ring, prodHead, prodTail, consTail, buf, stale, excused, scVars>>

ScLoad(c) == LoadSlot(c, "scLoad", "scTail")

(* br_ring is not volatile: the build may store br_cons_tail first.        *)
Late(c) ==
  /\ Goto(c, "scLoad", "lateLoad")
  /\ consTail' = After(head[c])
  /\ excused' = {"late"}
  /\ UNCHANGED <<kind, ring, prodHead, prodTail, consHead, head, buf, stale, scVars>>

(* drbr_flush goes on until the ring is empty.                             *)
ScRelease(c) ==
  /\ IF flushing
     THEN /\ Goto(c, "scTail", "sc")
          /\ buf' = [buf EXCEPT ![c] = None]
          /\ UNCHANGED <<head, stale, scVars>>
     ELSE Unlock(c, "scTail")
  /\ consTail' = After(head[c])
  /\ UNCHANGED <<kind, ring, prodHead, prodTail, consHead, excused>>

(* Variant: counts from the producers' head.                               *)
CountReadsHead(c) ==
  /\ Goto(c, "inuse", "inuseTail")
  /\ head' = [head EXCEPT ![c] = prodHead]
  /\ UNCHANGED <<kind, ringVars, buf, stale, excused, scVars>>

(* buf_ring_count, for drbr_inuse: prod_tail and cons_tail are two reads.  *)
CountReadsTail(c) ==
  /\ Goto(c, "inuse", "inuseTail")
  /\ head' = [head EXCEPT ![c] = prodTail]
  /\ UNCHANGED <<kind, ringVars, buf, stale, excused, scVars>>

buf_ring_count(c) == (size + head[c] - consTail) % size

CountReturns(c) ==
  /\ Unlock(c, "inuseTail")
  /\ UNCHANGED <<kind, ringVars, excused>>

ProducerStep(p) == ReadHead(p) \/ ReadTail(p) \/ Reserve(p) \/ Store(p) \/ Publish(p)
ConsumerStep(c) ==
  \/ ReadConsHead(c) \/ ReadProdTail(c) \/ Claim(c) \/ Load(c) \/ Release(c)
  \/ Peek(c) \/ PeekLoad(c) \/ ScReadProdTail(c) \/ ScAdvance(c) \/ ScLoad(c) \/ ScRelease(c)
  \/ CountReadsTail(c) \/ CountReturns(c)

(* Once something has gone wrong nothing is promised, nor followed.        *)
Next ==
  /\ excused = {}
  /\ \/ \E p \in Producers : drbr_enqueue(p) \/ ProducerStep(p)
     \/ \E c \in Consumers : buf_ring_dequeue_mc(c) \/ Lock(c) \/ Late(c) \/ ConsumerStep(c)

Spec == Init /\ [][Next]_vars

(* A thread in one of the functions is in a critical section, or holds the *)
(* driver's lock, and is not kept off its processor.                       *)
FairSpec ==
  /\ Spec
  /\ \A p \in Producers : WF_vars(excused = {} /\ ProducerStep(p))
  /\ \A c \in Consumers : WF_vars(excused = {} /\ ConsumerStep(c))

-----------------------------------------------------------------------------
Queue == INSTANCE PacketQueue WITH
  room <- size - 1,
  queue <- Contents,
  putting <- [p \in Producers |-> buf[p]],
  taken <- [c \in Consumers |-> IF pc[c] \in {"load", "scLoad"} THEN ring[head[c]] ELSE buf[c]]

(* A ring is a transmit queue: as long as no thread is lapped and no load  *)
(* is late, packets leave buf_ring_dequeue_mc, drbr_dequeue, its _cond and *)
(* drbr_flush in the order in which the enqueues were published, each once *)
(* and none is overwritten while a consumer is about to read it.           *)
IsQueue == Queue!pqInit /\ [][Queue!pqNext \/ excused' # {}]_(Queue!pqVars)

(* What drbr_inuse tells the holder of the driver's lock can be relied on: *)
(* although producers go on between its two reads and after them, at least *)
(* that many published packets wait for as long as the lock is held.       *)
CountIsKept ==
  \A c \in Consumers :
    pc[c] = "inuseTail" /\ excused = {} => buf_ring_count(c) <= Len(Contents)

(* The packet that drbr_dequeue_cond takes out is the one that its         *)
(* function has agreed to.                                                 *)
TakesWhatItShowed ==
  \A c \in Consumers : pc[c] = "scTail" /\ peeked # None => buf[c] = peeked

(* The assertions of the debugging build hold: the slot of an enqueue is   *)
(* empty, the packet is not in the ring, and a single consumer finds both  *)
(* of its indices equal.                                                   *)
NoPanic ==
  excused = {} =>
    /\ \A p \in Producers :
         /\ pc[p] = "store" => ring[head[p]] = None
         /\ pc[p] \in {"tail", "cas", "head"} => buf[p] \notin InRing
    /\ \A c \in Consumers : pc[c] = "scTail" => consTail = head[c] /\ lock = c

(* Who has reserved a slot or claimed a packet gets its turn: the thread   *)
(* before it publishes or releases.  Producers are alike, and so are       *)
(* consumers: it is enough to follow one of each.                          *)
TurnComes ==
  \A t \in {CHOOSE p \in Producers : TRUE, CHOOSE c \in Consumers : TRUE} :
    pc[t] = "turn" ~> (pc[t] # "turn" \/ excused # {})

InCall == \E t \in Threads : pc[t] # "idle"
Returns == \E t \in Threads : pc[t] # "idle" /\ pc'[t] = "idle"

(* A thread may lose the cmpset for ever, but then others get through: the *)
(* ring as a whole does not stand still while calls are in progress.       *)
SomeoneReturns ==
  []<>(~InCall \/ excused # {}) \/ []<><<Returns \/ flushing>>_vars
=============================================================================
