\* Two producers and two consumers on rings of two and four slots, which hold
\* one and three packets.  The system stops where something has gone wrong.
CONSTANTS
  Producers = {p1, p2}
  Consumers = {c1, c2}
  Packets = {m1, m2}
  Sizes = {2, 4}
  None = None
SPECIFICATION FairSpec
INVARIANTS CountIsKept TakesWhatItShowed NoPanic
PROPERTIES IsQueue TurnComes SomeoneReturns
CHECK_DEADLOCK FALSE
