\* Every resource's forms from two tabs; requests that omit the token reach
\* the handlers that insist on it.
SPECIFICATION Spec
CONSTANTS
  Tabs = {t1, t2}
  Resources <- AllResources
  Values = {0, 1}
  BlankTokens = {"required"}
  MaxRev <- Bound
SYMMETRY Symmetry
INVARIANT TypeOK
PROPERTY SavesAreAtomic
CHECK_DEADLOCK FALSE
