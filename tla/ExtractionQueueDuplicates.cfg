\* One receipt, two workers with one slot each, two uploads that report the
\* same duplicate while the job is claimed, executed and settled.
SPECIFICATION Spec
CONSTANTS
  None = None
  Blank = Blank
  Names = {"cafe"}
  Today = 10
  Owners = {e1}
  Extractions <- Samples
  Workers = {w1, w2}
  Slots = {w1, w2}
  HostOf <- OneSlotEach
  Receipts = {r1}
  Submitters = {u1, u2}
  MaxAttempts = 2
  BatchSize = 4
  MaxFaults = 2
SYMMETRY DuplicateSymmetry
INVARIANTS
  DuplicateNeverAutoApproved
  DuplicateAuditedOnce
PROPERTIES
  DuplicateFlagKept
  PromiseKept
