SPECIFICATION Spec
CONSTANT
  SeedTrees <- MCSeedTrees
INVARIANT TypeOK
INVARIANT FaultlessPasses
INVARIANT CatchesItsFlaw
INVARIANT HonestGapsNeverFail
