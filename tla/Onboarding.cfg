SPECIFICATION Spec
CONSTANTS
  Replies <- MCReplies
  Extractions <- MCExtractions
  Cases <- MCCases
CHECK_DEADLOCK FALSE
INVARIANTS SuccessIsWhole LessAutonomyAsksMore
PROPERTIES AnswersSurvive RecompilingSucceeds
