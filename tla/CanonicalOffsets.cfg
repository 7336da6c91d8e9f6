SPECIFICATION Spec
CONSTANT
  SeedTrees <- MCSeedTrees
INVARIANT PinnedFieldsAreCanonical
