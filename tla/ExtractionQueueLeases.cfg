\* One receipt, two workers with three slots in all, the attempt limit of the
\* code and two faults: outlived leases, crashes, stops, errors.
SPECIFICATION Spec
CONSTANTS
  None = None
  Blank = Blank
  Names = {"cafe"}
  Today = 10
  Owners = {e1}
  Extractions <- Samples
  Workers = {w1, w2}
  Slots = {s1, s2, s3}
  HostOf <- OneAndTheOthers
  Receipts = {r1}
  Submitters = {u1}
  MaxAttempts = 3
  BatchSize = 4
  MaxFaults = 2
INVARIANTS
  TypeOK
  OwnerIffProcessing
  VerdictIffFinished
  OneVerdict
  ClaimLedger
  RetriesBounded
  SingleOwner
PROPERTIES
  FinishedIsFinal
  OnlyOwnerSettles
