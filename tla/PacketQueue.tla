----------------------------- MODULE PacketQueue -----------------------------
(***************************************************************************)
(* What a transmit queue promises to those who put packets in and to those *)
(* who take them out: packets leave in the order in which they came, each  *)
(* once, and there are never more than it has room for.  In some queues    *)
(* one that was taken out may be put back in front of the others, or all   *)
(* those that wait may be thrown away.                                     *)
(***************************************************************************)
EXTENDS Sequences, Naturals

CONSTANTS Producers, Consumers, Packets, None

VARIABLES
  room,      \* how many packets may wait
  queue,     \* the packets that wait
  putting,   \* the packet a producer is putting in
  taken      \* the packet a consumer has taken out, and not yet used up

pqVars == <<room, queue, putting, taken>>

pqInit ==
  /\ room \in Nat /\ queue = <<>>
  /\ putting = [p \in Producers |-> None]
  /\ taken = [c \in Consumers |-> None]

Members(s) == {s[k] : k \in DOMAIN s}
Around == Members(queue) \cup {putting[p] : p \in Producers} \cup {taken[c] : c \in Consumers}

(* A packet that is nowhere around is offered.                             *)
Offer(p) ==
  /\ putting[p] = None
  /\ \E b \in Packets \ Around : putting' = [putting EXCEPT ![p] = b]
  /\ UNCHANGED <<room, queue, taken>>

Accept(p) ==
  /\ putting[p] # None /\ Len(queue) < room
  /\ queue' = Append(queue, putting[p])
  /\ putting' = [putting EXCEPT ![p] = None]
  /\ UNCHANGED <<room, taken>>

Refuse(p) ==
  /\ putting[p] # None
  /\ putting' = [putting EXCEPT ![p] = None]
  /\ UNCHANGED <<room, queue, taken>>

Take(c) ==
  /\ taken[c] = None /\ queue # <<>>
  /\ taken' = [taken EXCEPT ![c] = Head(queue)]
  /\ queue' = Tail(queue)
  /\ UNCHANGED <<room, putting>>

UseUp(c) ==
  /\ taken[c] # None
  /\ taken' = [taken EXCEPT ![c] = None]
  /\ UNCHANGED <<room, queue, putting>>

pqNext ==
  \/ \E p \in Producers : Offer(p) \/ Accept(p) \/ Refuse(p)
  \/ \E c \in Consumers : Take(c) \/ UseUp(c)

PutBack(c) ==
  /\ taken[c] # None /\ Len(queue) < room
  /\ queue' = <<taken[c]>> \o queue
  /\ taken' = [taken EXCEPT ![c] = None]
  /\ UNCHANGED <<room, putting>>

Clear ==
  /\ queue' = <<>>
  /\ UNCHANGED <<room, putting, taken>>

(* The steps of a queue into which a packet may be put back.               *)
pqNextWithReturns == pqNext \/ \E c \in Consumers : PutBack(c)

pqSpec == pqInit /\ [][pqNext]_pqVars
=============================================================================
