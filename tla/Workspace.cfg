SPECIFICATION Spec
CONSTANTS
  None <- MCNone
  Reasons <- MCReasons
  RunNames <- MCRunNames
  Events <- MCEvents
  Servers <- MCServers
  Listings <- MCListings
  Names <- MCNames
  Manifests <- MCManifests
  Short <- MCShort
  Memories <- MCMemories
  Cases <- MCCases
CHECK_DEADLOCK FALSE
INVARIANTS NothingIsLost EventsCountOnce SilenceMeansPinned AnalysisIsTrue PlanAccountsForAll
