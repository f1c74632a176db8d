CONSTANTS
  f1 = f1
  f2 = f2
  m1 = m1
  m2 = m2
  Findings <- TwoFindings
  Managers <- TwoManagers
  Origins <- Shipped
  Enforcement <- NotEnforced
  MaxRevisions = 2
  MaxCrashes = 0
SPECIFICATION Spec
PROPERTIES IdsStable
