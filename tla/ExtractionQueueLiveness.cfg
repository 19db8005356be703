\* One worker with two slots.  Two receipts, claimed singly or in one transaction,
\* and one fault, or one receipt with a duplicate upload that can make the worker's
\* commit fail and two faults (LiveSpec).
SPECIFICATION LiveSpec
CONSTANTS
  None = None
  Blank = Blank
  Names = {"cafe"}
  Today = 10
  Owners = {e1}
  Extractions <- OneSample
  Workers = {w1}
  Slots = {s1, s2}
  HostOf <- OneWorker
  Receipts = {r1, r2}
  Submitters = {u1}
  MaxAttempts = 2
  BatchSize = 2
  MaxFaults = 2
PROPERTIES
  PromiseKeptInTime
