CONSTANTS
  f1 = f1
  f2 = f2
  m1 = m1
  m2 = m2
  Findings <- TwoFindings
  Managers <- TwoManagers
  Origins <- AllOrigins
  Enforcement <- Enforced
  MaxRevisions = 2
  MaxCrashes = 2
SPECIFICATION Spec
INVARIANTS TypeOK RevisionsInOrder SharedIsLastDecision SchemaComplete
