SPECIFICATION Spec
CONSTANTS
  r = r
  a = a
  b = b
  c = c
  d = d
  s = s
  x = x
  f = f
  m1 = m1
  m2 = m2
  Nothing = Nothing
  Parts <- MCParts
  Root = r
  Kids <- MCKids
  Kind <- MCKind
  Marks <- MCMarks
  Given <- MCGiven
  Depth = 6
  Programs <- MCPrograms
  MaxKept = 2
  MaxAnswers = 2
CHECK_DEADLOCK FALSE
INVARIANTS
  PathsLeadToParts
  KeptPathsStay
  UnmarkThenMarkRestores
PROPERTIES
  AnswersAreObeyed
  TraversalsEnd
