SPECIFICATION Spec
CONSTANTS
  Options <- MCOptions
  Environments <- MCEnvironments
  Hosts <- MCHosts
  UserMappings <- MCUserMappings
  Losses <- MCLosses
  MaxCommands = 2
  Window = 3
  MaxRestarts = 2
  Outputs = {"a", "b", "c"}
  Beats = {"b1", "b2"}
  MaxFaults = 2
  Items = 2
CHECK_DEADLOCK FALSE
INVARIANTS SuccessIsVerified RerunsKeepTheHost 
PROPERTIES StallIsReal StalledIsRestarted
