\* Two players, one browser that shows the chat, two requests; a copy of a
\* request may arrive until the store forgets its id.
SPECIFICATION Spec
CONSTANTS
  User = {ann, bob}
  Page = {page1}
  Id = {r1, r2}
  ann = ann
  bob = bob
  page1 = page1
  r1 = r1
  r2 = r2
  BubbleTTL = 1
  Cooldown = 2
  Retention = 3
  MsgLife = 3
  MaxPolls = 2
  MaxTime = 5
  MaxVersion = 4
  MaxSeatings = 1
SYMMETRY Interchangeable
\* At the end of the clock, or when a browser goes unanswered, nothing moves.
CHECK_DEADLOCK FALSE
INVARIANTS TakesEffectOnce NothingMissed
