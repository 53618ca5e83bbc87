SPECIFICATION Spec
CONSTANTS
  None = None
  NaN = NaN
  Providers <- MCProviders
  Prompts <- MCPrompts
  Scenarios <- MCScenarios
  States <- MCStates
  Language <- MCLanguage
  Path <- MCPath
  Lower <- MCLower
  Unprintable <- MCUnprintable
  Requests <- MCRequests
  Sent <- MCSent
  Files <- MCFiles
  Written <- MCWritten
  Calls <- MCCalls
  Renders <- MCRenders
  MaxCalls = 3
  MaxRecordings = 2
INVARIANTS
  SelectsBest
  OverrideWins
  RecordedIsAnswered
  RepliesAsWritten
  HintIsHonest
  DebuggerAgrees
  EmbeddingsMirrorsChat
PROPERTY
  SpliceKeepsAnswers
