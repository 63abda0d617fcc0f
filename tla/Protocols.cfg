SPECIFICATION Spec
INVARIANTS OneSuccessor JournaledSuffixIsLinear RetainedIsWhole IssuesSurvive
PROPERTIES SupersededLast ProtocolsConclude ImplementsAppendLog
