\* src/README.md:155 has an owner who sends the same image again answered with 200.
\* Two virtual users of one employee suffice.
SPECIFICATION Spec
CONSTANTS
  None = None
  Blank = Blank
  Names = {"cafe"}
  Today = 10
  Owners = {e1, e2}
  Workers = {w1}
  Images = {m1}
  Keys = {1, 2}
  Clients = {1, 2}
  Gone = Gone
  FakeData <- Flawless
  MaxFaults = 0
  Modes <- OneOwner
  Sizes = {2}
INVARIANT
  OwnersAreAnswered
