\* The least instance in which two actors, a fault and a restart meet in each module.
SPECIFICATION Spec
CONSTANTS
  Nobody = "nobody"
  None = "none"
  Msgs = {"m1"}
  Cleaners = {"w1", "w2"}
  NoCleaner = "none"
  MaxDeleteAttempts = 3
  MaxDeleteOrphans = 2
  MaxCleanupFaults = 2
  MaxCleanupStops = 1
  Posters = {"p1", "p2"}
  MaxDays = 2
  MaxPasses = 2
  MaxPostFaults = 1
  MaxEdits = 2
  Saves = {"s1", "s2"}
  Pass = "pass"
  NoPermHolder = "free"
  MaxTurns = 2
  MaxPermEdits = 1
  MaxPermFaults = 1
  LaneUpdates = {"u1", "u2"}
  Keys = {"k1", "k2"}
  LaneWorkers = 1
  LaneSize = 1
  MaxIds = 2
  CheckLimit = 3
  UnhookLimit = 4
  MaxDeliveryFaults = 4
  Requests = {"q1", "q2"}
  Embeds = {"q2"}
  ModelCandidates = 1
  Attempts = 2
  Threshold = 2
  Capacity = 2
  Threads = 1
  FatalPasses = 2
  MaxModelRequests = 3
  Sessions = {"s1", "s2", "s3"}
  NoSession = "none"
  Rank <- MCRank
  MaxWriteFaults = 1
  Exchanges = {"q1", "q2", "q3"}
  Downloads = {"d1"}
  ResetFailures = 2
  MaxConnectors = 4
  Senders = {"s1"}
  PerSender = 2
  Direct <- MCDirect
  Permits = 1
  MaxBatches = 1
  MaxWaiting = 1
  MaxReplyFaults = 1
  MaxReplyStops = 1
  MaxParts = 2
  MaxSendFaults = 4
  MaxMessages = 3
  Window = 2
  KeepRecent = 1
  Automatic = "auto"
  Manual = "manual"
  Unlocked = "unlocked"
  MaxMemoryFaults = 1
  MaxMemoryRestarts = 1
  MaxExpiries = 1
  Processes = {"p1", "p2"}
  Unclaimed = "none"
  CasTries = 2
  MaxTopicEvents = 1
  Members = {"a", "b"}
  Learners = {"w1", "w2"}
  DistillEvery = 2
  SampleCap = 5
  KeepSamples = 3
  MaxTargets = 3
  Calls = {"c1", "c2"}
  PinTries = 2
  MaxCallFaults = 4
  Indexers = {"p1", "p2"}
  Texts = {"a", "b"}
  BlankText = "blank"
  Spaces = {"s", "t"}
  MaxTextEdits = 3
  MaxSpaceChanges = 1
  MaxIndexFaults = 1
  Servers = {"p1", "p2"}
  Pages = {"a1"}
  SettingDocs = {"legacy", "x"}
  Old = "old"
  Legacy = "legacy"
  Secrets = {"k"}
  MaxSaves = 2
  MaxConfigFaults = 1
  MaxServerStarts = 2
  Leased = {"u1"}
  MaxFailedPasses = 2
  MaxOverruns = 2
  MaxFreezes = 1
INVARIANTS
  TypeOK
  WorkKept
  UpdatesAccounted
  ResourcesHeld
  AnswersSettled
  ContextSound
PROPERTIES
  StepsSound
CHECK_DEADLOCK FALSE
