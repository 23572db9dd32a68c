\* A project's two forms, as its page renders them.
SPECIFICATION Spec
CONSTANTS
  Tabs = {t1, t2}
  Resources <- ProjectRevisions
  Values = {0, 1}
  BlankTokens = {}
  MaxRev <- TwoWrites
PROPERTY FormsAreConditional
CHECK_DEADLOCK FALSE
