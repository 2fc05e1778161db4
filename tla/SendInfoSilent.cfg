CONSTANTS
  MaxAnswers = 3
  SilentReplies = TRUE
SPECIFICATION ReqSpec
INVARIANTS
  TrueMeansSent
