\* The three experiments one after the other on one stack.
SPECIFICATION Spec
CONSTANTS
  Counts <- OneCount
  Repeats = 1
  Pages <- TwoPages
  Images = {"before", "after", "indexOnly"}
  IndexOnly = "indexOnly"
  IdFirst = "after"
  MaxFaults = 1
INVARIANTS
  LoadedOnce
PROPERTIES
  NotedRunsStay
  CompletionIsEarned
