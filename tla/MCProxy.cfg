SPECIFICATION Spec
CONSTANTS
  MaxRequests = 2
  MaxResponses = 2
  Window = 1
INVARIANTS InOrder AnswerComplete StatusFaithful NotMisled
PROPERTY RequestEnds
