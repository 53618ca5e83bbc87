SPECIFICATION FairSpec
CONSTANTS
  None = None
  oai = oai
  ask = ask
  other = other
  flow = flow
  unset = unset
  open = open
  Providers <- MCProviders
  Prompts <- MCPrompts
  Scenarios <- MCScenarios
  States <- MCStates
  Clients = {c1, c2}
  Admins = {a1}
  Requests <- MCRequests
  FixtureSets <- MCFixtureSets
  InitialState = unset
  Capacity = 2
  Unbounded = Unbounded
  UiEnabled = TRUE
  RecordOnMiss = TRUE
  UpstreamStatuses = {200}
  MaxCaptures = 3
CHECK_DEADLOCK FALSE
INVARIANTS
  TypeOK
  CapacityRespected
  DispatchIdsOrdered
  FeedIsComplete
  LogExplainsScenarios
PROPERTIES
  DispatchIsAtomic
  RequestsFinish
