SPECIFICATION ThreadsSpec
CONSTANTS
  c1 = c1
  c2 = c2
  Conn = {c1, c2}
  Ops <- MCOps
  MAX_PENDING_CORE_NAVIGATIONS = 2
  MAX_PENDING_SOCKET_NAVIGATIONS = 1
  EventCapacity = 3
  MaxContext = 2
  MaxNav = 3
  MaxRequests = 2
  Requester = {core, inspector}
  Capacity = 1
  Kind = {"layout", "capture"}
  Subject = {r1, r2}
  Update = {up}
  Submission = {sub}
  MaxId = 2
  Interrupter = {i1}
  Fetcher = {f1}
  MaxRuns = 2
  MaxInterrupts = 2
  f1 = f1
  f2 = f2
  Fetch = {f1, f2}
  FetchKind <- MCFetchKind
  MAX_ACTIVE_FETCHES = 1
  FETCH_BODY_CHANNEL_CAPACITY = 1
  MaxChunks = 2
  MaxFetchInterrupts = 1
CHECK_DEADLOCK FALSE
INVARIANTS FollowsItsOwn AnswersAreTrue OwedOneAnswer OutboundBounded TerminationIsOwn InterruptsAreHeard NoEffectAfterCancel DoneMeansWhole
PROPERTIES AnsweredInTime WaitersReleased EvaluationsEnd ThreadsEnd
