SPECIFICATION Spec
CONSTANT
  SeedTrees <- MCSeedTrees
INVARIANT RegressionsFailLoudly
