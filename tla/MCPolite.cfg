SPECIFICATION SpecClients
CONSTANTS
  Clients = {alice, bob, carol}
  NoClient = NoClient
  MaxCalls <- OneCall
  MaxPlugins = 2
  Habits = {}
\* provman exits, and then nothing happens
CHECK_DEADLOCK FALSE
INVARIANTS NoStrandedTask CommandInSession StoredBeforeHandover
PROPERTIES EndsAreOwn StaysForSession BeginsClean EveryCallAnswered WaitersServed QuitLeaves
