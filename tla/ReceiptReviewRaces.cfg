\* Owner, reviewer and administrator act at once while a duplicate is reported;
\* one correction after the verdict, made on version 1.
SPECIFICATION Spec
CONSTANTS
  None = None
  Blank = Blank
  Names = {"cafe"}
  Today = 10
  emp = emp
  rev = rev
  adm = adm
  Owners = {emp, rev}
  Workers = {}
  Employees = {emp, rev, adm}
  RoleOf <- Staff
  Submitters = {u1}
  Extractions <- Samples
  Corrections <- Patches
  MaxVersion = 2
INVARIANTS
  TypeOK
  TrailIsChain
  ApprovedIsComplete
  RulesMatchData
  FourEyes
PROPERTIES
  DecidedAsSeen
  DecisionIsFinal
  ChangesAreAudited
