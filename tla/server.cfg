SPECIFICATION FairSpec
CONSTANTS
  c1 = c1
  c2 = c2
  Clients = {c1, c2}
  Script <- MCScript
  Capacity = 1
  EngineErrors = {"IoError"}
INVARIANTS TypeOK AnswersMatch AnswersInOrder ExecutedOnce RunWaits
PROPERTIES StartedRequestsAnswered LateAcceptShutsDown
CHECK_DEADLOCK FALSE
