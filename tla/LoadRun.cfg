\* With and without resources and Grafana, Ctrl-C up to twice, up to two kinds of errors.
SPECIFICATION Spec
CONSTANTS
  MaxInterrupts = 2
  MaxErrors = 2
INVARIANTS
  ExitZeroIsClean
PROPERTIES
  RunEnds
