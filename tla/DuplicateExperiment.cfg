\* Two or four virtual users, every mode, one image.
SPECIFICATION Spec
CONSTANTS
  None = None
  Blank = Blank
  Names = {"cafe"}
  Today = 10
  Owners = {e1, e2}
  Workers = {w1}
  Images = {m1}
  Keys = {1, 2, 3, 4}
  Clients = {1, 2, 3, 4}
  Gone = Gone
  FakeData <- Flawless
  MaxFaults = 0
  Modes <- AllModes
  Sizes = {2, 4}
INVARIANTS
  QuietCasePasses
  PassedCaseLostNothing
