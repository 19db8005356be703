\* The rules, the router, the corrections and the checksum over bounded inputs.
SPECIFICATION Spec
CONSTANTS
  None = None
  Blank = Blank
  Names = {"cafe"}
  Today = 10
INVARIANTS
  AutoApprovedIffClean
  DuplicateOnlyTightens
  CorrectionIsIdempotent
  SingleDigitErrorDetected
