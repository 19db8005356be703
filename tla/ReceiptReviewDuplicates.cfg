\* A duplicate reported before the extraction ends, and a correction afterwards.
SPECIFICATION Spec
CONSTANTS
  None = None
  Blank = Blank
  Names = {"cafe"}
  Today = 10
  emp = emp
  rev = rev
  adm = adm
  Owners = {emp, rev}
  Workers = {}
  Employees = {emp, rev, adm}
  RoleOf <- Staff
  Submitters = {u1}
  Extractions <- Samples
  Corrections <- Patches
  MaxVersion = 2
INVARIANTS
  FlaggedNeverAutoApproved
