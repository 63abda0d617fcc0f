SPECIFICATION Spec
CONSTANTS
  N = 2
  MaxOps = 2
  MaxEdits = 1
  MaxFaults = 1
INVARIANTS
  LandedAsApproved
  AbandonedNeverMerges
  ClosedWithEvidence
PROPERTY Settles
