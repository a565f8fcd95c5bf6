------------------------------- MODULE IfQueue -------------------------------
(***************************************************************************)
(* The output queue of a network interface in include/net/if_var.h: IF_*,  *)
(* IFQ_* and IFQ_DRV_* (without ALTQ).  Senders append to the list under   *)
(* the queue's lock; the driver takes packets in batches to a list of its  *)
(* own, which needs only the driver's lock.  A section under the queue's   *)
(* lock is one step: nothing but the length is read outside of it.  The    *)
(* driver and its device are external: they use the macros as drivers do.  *)
(***************************************************************************)
EXTENDS Integers, Sequences, FiniteSets

CONSTANTS
  Senders,      \* threads that send
  Interrupt,    \* the driver's interrupt thread
  Packets,
  MaxLen,       \* ifq_maxlen
  DrvMaxLens,   \* values of ifq_drv_maxlen
  Slots,        \* external: packets the device can hold
  NULL

Threads == Senders \cup {Interrupt}

VARIABLES
  next,         \* m_nextpkt of each packet
  ifq, drv,     \* the two lists: head, tail and length
  api,          \* the macros this driver takes packets with
  drvMaxLen,    \* ifq_drv_maxlen
  oactive,      \* IFF_DRV_OACTIVE
  lock,         \* external: holder of the driver's lock
  device,       \* external: packets the device has
  pc,
  hand          \* per thread: the packet it is sending or transmitting

vars == <<next, ifq, drv, api, drvMaxLen, oactive, lock, device, pc, hand>>

Empty == [head |-> NULL, tail |-> NULL, len |-> 0]

Init ==
  /\ next = [m \in Packets |-> NULL]
  /\ ifq = Empty /\ drv = Empty
  /\ \/ api = "drv" /\ drvMaxLen \in DrvMaxLens
     \/ api \in {"prepend", "poll"} /\ drvMaxLen = 0
  /\ oactive = FALSE /\ lock = NULL /\ device = {}
  /\ pc = [t \in Threads |-> "idle"] /\ hand = [t \in Threads |-> NULL]

(***************************************************************************)
(* The list macros, as functions of a list and the links.                  *)
(***************************************************************************)
List(q, links) == [q |-> q, next |-> links]

_IF_ENQUEUE(l, m) ==
  IF l.q.tail = NULL
  THEN List([head |-> m, tail |-> m, len |-> l.q.len + 1], [l.next EXCEPT ![m] = NULL])
  ELSE List([l.q EXCEPT !.tail = m, !.len = @ + 1], [l.next EXCEPT ![m] = NULL, ![l.q.tail] = m])

(* Variant: put back behind the others.                                    *)
PREPEND_AtTail(l, m) == _IF_ENQUEUE(l, m)

_IF_PREPEND(l, m) ==
  List([head |-> m, tail |-> IF l.q.tail = NULL THEN m ELSE l.q.tail, len |-> l.q.len + 1],
       [l.next EXCEPT ![m] = l.q.head])

(* Variant: the tail of a list that is now empty still leads to a packet.  *)
_DEQUEUE_KeepsTail(l) ==
  IF l.q.head = NULL THEN l
  ELSE List([l.q EXCEPT !.head = l.next[l.q.head], !.len = @ - 1], [l.next EXCEPT ![l.q.head] = NULL])

_IF_DEQUEUE(l) ==
  LET rest == l.next[l.q.head]
  IN  IF l.q.head = NULL THEN l
      ELSE List([head |-> rest, tail |-> IF rest = NULL THEN NULL ELSE l.q.tail, len |-> l.q.len - 1],
                [l.next EXCEPT ![l.q.head] = NULL])

(* Variant: one packet too many.                                           *)
QFullLate == ifq.len > MaxLen

_IF_QFULL == ifq.len >= MaxLen

(* Variant: the packet that came last is shown.                            *)
POLL_Last == ifq.tail

_IF_POLL == ifq.head

(* The loop of IFQ_DRV_DEQUEUE, from the queue's list to the driver's.     *)
RECURSIVE Refill(_, _, _)
Refill(from, to, links) ==
  IF to.len >= drvMaxLen \/ from.head = NULL
  THEN [from |-> from, to |-> to, next |-> links]
  ELSE LET taken == _IF_DEQUEUE(List(from, links))
           put   == _IF_ENQUEUE(List(to, taken.next), from.head)
       IN  Refill(taken.q, put.q, put.next)

Goto(t, from, to) == pc[t] = from /\ pc' = [pc EXCEPT ![t] = to]

(***************************************************************************)
(* IFQ_HANDOFF_ADJ                                                         *)
(***************************************************************************)
RECURSIVE Walk(_, _)
Walk(m, fuel) == IF m = NULL \/ fuel = 0 THEN <<>> ELSE <<m>> \o Walk(next[m], fuel - 1)

Listed(q) == Walk(q.head, 1 + q.len)
Queued    == Listed(drv) \o Listed(ifq)
Members(s) == {s[k] : k \in DOMAIN s}
InQueue   == Members(Queued)

(* Nothing depends on which of the free mbufs is sent.                     *)
Handoff(t) ==
  LET free == Packets \ (InQueue \cup device \cup {hand[u] : u \in Threads})
  IN  /\ Goto(t, "idle", "enqueue")
      /\ free # {} /\ hand' = [hand EXCEPT ![t] = CHOOSE m \in free : TRUE]
      /\ UNCHANGED <<next, ifq, drv, api, drvMaxLen, oactive, lock, device>>

(* IFQ_ENQUEUE; an mbuf that finds no room is freed.                       *)
Enqueue(t) ==
  /\ hand' = [hand EXCEPT ![t] = NULL]
  /\ IF _IF_QFULL
     THEN Goto(t, "enqueue", "idle") /\ UNCHANGED <<next, ifq>>
     ELSE LET l == _IF_ENQUEUE(List(ifq, next), hand[t])
          IN  Goto(t, "enqueue", "flags") /\ ifq' = l.q /\ next' = l.next
  /\ UNCHANGED <<drv, api, drvMaxLen, oactive, lock, device>>

(* The flag is the driver's, and read without its lock.                    *)
ReadFlags(t) ==
  /\ Goto(t, "flags", IF oactive THEN "idle" ELSE "start")
  /\ UNCHANGED <<next, ifq, drv, api, drvMaxLen, oactive, lock, device, hand>>

(***************************************************************************)
(* The driver: if_start, and the end of a transmission.                    *)
(***************************************************************************)
HasRoom == Cardinality(device) < Slots

Leave(t, from) == Goto(t, from, "idle") /\ lock' = NULL

(* Some drivers look whether the queue is empty, some just dequeue.        *)
Start(t) ==
  /\ lock = NULL
  /\ \/ oactive /\ Leave(t, "start")
     \/ ~oactive /\ lock' = t /\ (Goto(t, "start", "check") \/ Goto(t, "start", "take"))
  /\ UNCHANGED <<next, ifq, drv, api, drvMaxLen, oactive, device, hand>>

(* Variant: what waits in the driver's own list is forgotten.              *)
QueueIsEmpty == ifq.len = 0

(* Also IFQ_IS_EMPTY: without the macros for drivers, drv stays empty.     *)
IFQ_DRV_IS_EMPTY == drv.len = 0 /\ ifq.len = 0

Check(t) ==
  /\ IF IFQ_DRV_IS_EMPTY THEN Leave(t, "check") ELSE Goto(t, "check", "take") /\ UNCHANGED lock
  /\ UNCHANGED <<next, ifq, drv, api, drvMaxLen, oactive, device, hand>>

IFQ_POLL(t) ==
  /\ api = "poll" /\ Goto(t, "take", "polled")
  /\ hand' = [hand EXCEPT ![t] = _IF_POLL]
  /\ UNCHANGED <<next, ifq, drv, api, drvMaxLen, oactive, lock, device>>

IFQ_DEQUEUE(t) ==
  LET l == _IF_DEQUEUE(List(ifq, next))
  IN  /\ \/ api = "prepend" /\ Goto(t, "take", "taken")
         \/ hand[t] # NULL /\ HasRoom /\ Goto(t, "polled", "taken")
      /\ hand' = [hand EXCEPT ![t] = ifq.head] /\ ifq' = l.q /\ next' = l.next
      /\ UNCHANGED <<drv, api, drvMaxLen, oactive, lock, device>>

IFQ_DRV_DEQUEUE(t) ==
  LET own   == _IF_DEQUEUE(List(drv, next))
      first == _IF_DEQUEUE(List(ifq, next))
      rest  == Refill(first.q, drv, first.next)
  IN  /\ api = "drv" /\ Goto(t, "take", "taken")
      /\ IF drv.head # NULL
         THEN hand' = [hand EXCEPT ![t] = drv.head] /\ drv' = own.q /\ next' = own.next /\ UNCHANGED ifq
         ELSE hand' = [hand EXCEPT ![t] = ifq.head] /\ ifq' = rest.from /\ drv' = rest.to /\ next' = rest.next
      /\ UNCHANGED <<api, drvMaxLen, oactive, lock, device>>

(* There was no packet.                                                    *)
NothingThere(t) ==
  /\ hand[t] = NULL /\ (Leave(t, "taken") \/ Leave(t, "polled"))
  /\ UNCHANGED <<next, ifq, drv, api, drvMaxLen, oactive, device, hand>>

Transmit(t) ==
  /\ hand[t] # NULL /\ HasRoom /\ Goto(t, "taken", "check")
  /\ device' = device \cup {hand[t]} /\ hand' = [hand EXCEPT ![t] = NULL]
  /\ UNCHANGED <<next, ifq, drv, api, drvMaxLen, oactive, lock>>

(* IFQ_DRV_PREPEND, or IF_PREPEND.                                         *)
Prepend(t) ==
  LET own == _IF_PREPEND(List(drv, next), hand[t])
      l   == _IF_PREPEND(List(ifq, next), hand[t])
  IN  /\ hand[t] # NULL /\ ~HasRoom /\ Leave(t, "taken")
      /\ oactive' = TRUE /\ hand' = [hand EXCEPT ![t] = NULL]
      /\ IF api = "drv" THEN drv' = own.q /\ next' = own.next /\ UNCHANGED ifq
                        ELSE ifq' = l.q /\ next' = l.next /\ UNCHANGED drv
      /\ UNCHANGED <<api, drvMaxLen, device>>

LeaveIt(t) ==
  /\ hand[t] # NULL /\ ~HasRoom /\ Leave(t, "polled")
  /\ oactive' = TRUE /\ hand' = [hand EXCEPT ![t] = NULL]
  /\ UNCHANGED <<next, ifq, drv, api, drvMaxLen, device>>

(* A packet is out: the device has room again and the driver goes on.      *)
Transmitted ==
  /\ lock = NULL /\ lock' = Interrupt /\ Goto(Interrupt, "idle", "check")
  /\ oactive' = FALSE /\ \E m \in device : device' = device \ {m}
  /\ UNCHANGED <<next, ifq, drv, api, drvMaxLen, hand>>

(* The interface goes down: IFQ_DRV_PURGE or IFQ_PURGE.  The packets of    *)
(* the driver's list are freed with their links as they are.               *)
Purge ==
  /\ lock = NULL
  /\ next' = [m \in Packets |-> IF m \in Members(Listed(ifq)) THEN NULL ELSE next[m]]
  /\ ifq' = Empty /\ drv' = Empty /\ oactive' = FALSE /\ device' = {}
  /\ UNCHANGED <<api, drvMaxLen, lock, pc, hand>>

Drive(t) ==
  \/ Start(t) \/ Check(t) \/ IFQ_POLL(t) \/ IFQ_DEQUEUE(t) \/ IFQ_DRV_DEQUEUE(t)
  \/ NothingThere(t) \/ Transmit(t) \/ Prepend(t) \/ LeaveIt(t)

Send(t) == Enqueue(t) \/ ReadFlags(t)

Next ==
  \/ \E t \in Senders : Handoff(t) \/ Send(t)
  \/ \E t \in Threads : Drive(t)
  \/ Transmitted
  \/ Purge

Spec == Init /\ [][Next]_vars

(* A thread that is in the kernel goes on, and the device transmits; that  *)
(* more is sent is nobody's duty.                                          *)
FairSpec ==
  /\ Spec /\ WF_vars(Transmitted)
  /\ \A t \in Senders : WF_vars(Send(t))
  /\ \A t \in Threads : WF_vars(Drive(t))

(***************************************************************************)
(* Properties                                                              *)
(***************************************************************************)
(* Whatever was enqueued, dequeued, put back, moved in batches or purged,  *)
(* both lists end where their tail says, are as long as their length says  *)
(* and have no packet in common with each other, with the device or with a *)
(* thread that has a packet of its own.  Only a packet that is put back    *)
(* can make a list longer than its limit, by one.                          *)
ListsAreSound ==
  /\ ifq.len <= (IF api = "prepend" THEN MaxLen + 1 ELSE MaxLen) /\ drv.len <= drvMaxLen + 1
  /\ \A q \in {ifq, drv} :
       LET s == Listed(q)
       IN  Len(s) = q.len /\ q.tail = IF s = <<>> THEN NULL ELSE s[Len(s)]
  /\ Cardinality(InQueue) = Len(Queued)
  /\ InQueue \cap (device \cup {hand[t] : t \in {u \in Threads : pc[u] # "polled"}}) = {}

(* A driver that looks at the first packet with IFQ_POLL, and takes it if  *)
(* the device has room, takes the packet it looked at: senders that come   *)
(* in between do not matter.                                               *)
TakesWhatItPolled == [][\A t \in Threads : pc[t] = "polled" /\ pc'[t] = "taken" => hand'[t] = hand[t]]_vars

Queue == INSTANCE PacketQueue WITH
  Producers <- Senders, Consumers <- Threads, None <- NULL,
  room <- MaxLen + drvMaxLen + 1, queue <- Queued,
  putting <- [t \in Senders |-> IF pc[t] = "enqueue" THEN hand[t] ELSE NULL],
  taken <- [t \in Threads |-> IF pc[t] = "taken" THEN hand[t] ELSE NULL]

(* The two lists, one behind the other, are one first-in first-out queue:  *)
(* the batches of IFQ_DRV_DEQUEUE and what IFQ_DRV_PREPEND puts back       *)
(* change neither the order nor which packets wait, and a packet goes out  *)
(* at most once.  Only when the interface goes down are packets dropped.   *)
IsQueue == Queue!pqInit /\ [][Queue!pqNextWithReturns \/ (Purge /\ Queue!Clear)]_(Queue!pqVars)

Transmitting == \E t \in Threads : pc[t] = "taken" /\ hand[t] # NULL /\ HasRoom

(* No packet is stranded: a sender that finds IFF_DRV_OACTIVE set leaves   *)
(* its packet to the driver although it reads the flag without the         *)
(* driver's lock, and still the queue gets empty again or another packet   *)
(* is transmitted, the first of the queue.                                 *)
NotStranded == []<>(Queued = <<>> \/ Transmitting)
=============================================================================
