\* Two threads, three uploads of two images under one key or none by two
\* employees, and one fault.
SPECIFICATION Spec
CONSTANTS
  None = None
  Blank = Blank
  Names = {"cafe"}
  Today = 10
  Owners = {e1, e2}
  Workers = {w1}
  Images = {m1, m2}
  Keys = {k1}
  Clients = {c1, c2}
  Gone = Gone
  FakeData <- Flawless
  MaxFaults = 1
  MaxSends = 3
SYMMETRY Symmetry
INVARIANTS
  IntakeTypeOK
  OneStoredReceiptPerImage
  AnswersTheSender
  CreatedKeyIsBound
