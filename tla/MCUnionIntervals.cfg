\* Every way to add ranges between nine bounds.
SPECIFICATION UnionSpec
CONSTANTS
  Bounds <- NineBounds
INVARIANTS
  StrictlySorted
  CoversExactly
