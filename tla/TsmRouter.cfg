SPECIFICATION FairSpec
CONSTANTS
  f1 = f1
  f2 = f2
  a1 = a1
  a2 = a2
  v1 = v1
  Server = Server
  NoName = NoName
  Conns <- MCConns
  Names <- MCNames
  Vms = {v1}
  MaxConns = 2
  MaxMsgs = 2
INVARIANTS TypeOK TokensMatchAnswers StopsOnlyOnListedAgent AgentKeepsItsConnection
PROPERTIES AnswersAreTaken RegistrationsAreAcked
\* The process may die, and threads stop on their own lock.
CHECK_DEADLOCK FALSE
