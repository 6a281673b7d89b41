SPECIFICATION Spec
CONSTANTS
  Clients = {alice, bob, carol}
  NoClient = NoClient
  MaxCalls <- OneCall
  MaxPlugins = 1
\* provman exits, and then nothing happens
CHECK_DEADLOCK FALSE
INVARIANTS TypeOK WaitersHaveHolder UnusedHasTimer AnsweredAtMostOnce
PROPERTY SessionsInTurn
