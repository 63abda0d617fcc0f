SPECIFICATION Spec
INVARIANTS TypeOK FoldIsOrderFree SoleWriterCoherent TrainIsSound
  OnePlanPerRun ClosedWasEarned SessionIsPrepared OneHolder DocsHold
PROPERTIES FoldOnlyHardens  WorkIsKept DriftIsNotForgotten
CHECK_DEADLOCK FALSE
