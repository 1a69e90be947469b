\* One user with two requests at a time, two rooms, two loops.
SPECIFICATION Spec
CONSTANTS
  User = {u1}
  Room = {r1, r2}
  Conn = {c1, c2}
  MaxRequests = 3
  MaxStarts = 2
  MaxWins = 2
  Model = {"base", "other"}
  NoModel = ""
  BaseModel = "base"
  Setting <- SomeSettings
  Ops = {"visit", "leave", "logout", "start", "stop", "settings"}
  MaxRestarts = 1
\* When the requests are used up and everybody has gone, nothing moves.
CHECK_DEADLOCK FALSE
PROPERTIES IdleUserLeaves TrainingStops RestartKeepsSettings
