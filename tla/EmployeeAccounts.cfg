\* Two employees, either of whom may administer, three browsers, two tokens each,
\* and up to two activations or deactivations of an account.
SPECIFICATION Spec
CONSTANTS
  People = {p1, p2}
  Browsers = {b1, b2, b3}
  None = None
  MaxTokens = 2
  MaxVersion = 3
SYMMETRY Symmetry
INVARIANTS
  AccountsTypeOK
  LastInvitationSets
PROPERTIES
  DeactivationEndsSessions
