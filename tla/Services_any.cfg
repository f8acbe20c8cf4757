SPECIFICATION MCSpec
CONSTANTS
  Request = {1, 2, 3}
  someone = someone
  another = another
  Subject = {someone, another}
  here = here
  there = there
  Email = {here, there}
  NoEmail = NoEmail
  NoPassword = NoPassword
  Call = {1, 2, 3}
  Model = {"scorer", "talker"}
  CharsPerToken = 4
  Dimension = {1, 2}
  Retrain = {r1, r2, r3}
  Seed = seed
  Server = {server}
  NoModel = NoModel
  Turn = {1, 2, 3}
  MaxChats = 2
  MaxSlips = 2
  None = None
  Earlier = Earlier
  OtherTab = OtherTab
  MaxQueries = 2
  MaxPosts = 3
  NoItem = NoItem
INVARIANTS
  SameAccountEachTime
  AnswersAreOwn
  DocumentsAreKept
  MemoryIsOfOneRun
  DriftIsAgainstOwnSample
  ConversationPerChat
  StopReachesTheTurn
  CapabilitiesAreHonest
  AnswersAreHonest
  EscalationAgrees
  SelectionIsSpread
  
  PreferencesCount
PROPERTY RevokedStaysOut
CHECK_DEADLOCK FALSE
