\* Abort while another client waits
SPECIFICATION SpecClients
CONSTANTS
  Clients = {alice, bob}
  NoClient = NoClient
  MaxCalls <- OneCall
  MaxPlugins = 1
  Habits = {"abort"}
\* provman exits, and then nothing happens
CHECK_DEADLOCK FALSE
INVARIANT NoStrandedTask
