SPECIFICATION Spec
CONSTANTS
  Names <- MCNames
  Calls <- MCCalls
  Knowledge <- MCKnowledge
  Followups <- MCFollowups
  MaxFed = 1
CHECK_DEADLOCK FALSE
INVARIANTS
  TypeAndImplAgree
  MarksSurvive
  ResultsObeyLaws
PROPERTIES
  LearningNeverWidens
