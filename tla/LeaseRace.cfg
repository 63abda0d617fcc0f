SPECIFICATION Spec
CONSTANTS Sessions = {"a", "b"}
          MaxOps = 2
          MaxCalls = 3
INVARIANT OneClaimant
CHECK_DEADLOCK FALSE
