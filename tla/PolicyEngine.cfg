SPECIFICATION FairSpec
CONSTANTS
  Contents <- MCContents
  Absent = absent
  Broken = broken
  Conditions <- MCConditions
  Evaluators = {e1}
  Callers = {c1}
  DefaultAction = "block"
  MaxPolicies = 2
  MaxRulesPerPolicy = 2
  Setups <- MCSetups
INVARIANT DecisionIsExplained
PROPERTY ChangeIsServed
PROPERTY InstalledWasHeld
PROPERTY QuietAfterClose
CHECK_DEADLOCK FALSE
