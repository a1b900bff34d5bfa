SPECIFICATION Spec
CONSTANTS
  NoRef = NoRef
  Blobs <- MCBlobs
  EventRefs <- MCEventRefs
  DecisionFiles <- MCDecisionFiles
INVARIANTS
  VerdictIsHonest
  ReturnedCallsSurvive
PROPERTIES
  KeepsEvidence
