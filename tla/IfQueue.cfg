CONSTANTS
  Senders = {t1, t2}
  Interrupt = intr
  Packets = {m1, m2, m3, m4}
  MaxLen = 3
  DrvMaxLens = {0, 2}
  Slots = 1
  NULL = NULL
SPECIFICATION FairSpec
INVARIANTS
  ListsAreSound
PROPERTIES
  TakesWhatItPolled
  IsQueue
  NotStranded
