\* One or two faults and a crash or two in each module, and two actors for every race.
SPECIFICATION Spec
CONSTANTS
  Voters = {"v1", "v2", "v3"}
  Starter = "v1"
  Threshold = 3
  Enforcers = {"e1", "loop"}
  Loop = "loop"
  MaxVoteFaults = 1
  MaxVoteCrashes = 1
  MaxPromptFaults = 3
  MaxPromptCrashes = 2
  MaxGens = 2
  MaxNotices = 2
  MaxRaidFaults = 1
  MaxRaidCrashes = 1
  Issuer = "issuer"
  Remover = "remover"
  Arrivals = {"k1"}
  Nobody = "nobody"
  MaxSuspectFaults = 2
  MaxSuspectCrashes = 1
  Hits = {"h1", "h2"}
  Button = "button"
  Command = "command"
  Unlocked = "unlocked"
  NoJournal = "nojournal"
  WarnThreshold = 2
  MaxRuleEdits = 1
  MaxPresses = 1
  MaxModFaults = 1
  Groups = {"g1"}
  Ops = {"o1", "o2"}
  Panel = {"o2"}
  Sweeper = "sweeper"
  Enforcer = "enforcer"
  NoLease = "none"
  MaxBanFaults = 1
  MaxMessages = 1
  ScopePresses = {"p1", "p2", "p3"}
  MaxScopeFaults = 1
  Members = {"m1"}
  Clock = "clock"
  ByPanel = "panel"
  Slots = 1
  MaxDays = 1
  MaxPatrolFaults = 1
  Requests = {"r1", "r2"}
  Buttons = {"b1"}
  NoOne = "none"
  PageSlots = 1
  MaxIssues = 2
  MaxArms = 1
  MaxPageFaults = 2
INVARIANTS
  TypeOK
  VotesSettle
  LockdownsKept
  PunishmentsCounted
  BansFollowPolicy
  PatrolSound
  PageSound
PROPERTIES
  VerdictsStand
CHECK_DEADLOCK FALSE
