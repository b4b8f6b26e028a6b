CONSTANTS
  Picked = {"outbox", "view", "outcomes", "routine", "mirror", "cloud"}
  d1 = d1
  d2 = d2
  NoDrain = NoDrain
  Drains = {d1, d2}
  NRows = 1
  MaxAttempts = 2
  Cap = 1
  MaxFaults = 2
  MaxInbound = 0
  MaxEvents = 1
  Batch = 1
  MaxBreaks = 1
  Hands = {"h1", "h2"}
  MaxStalls = 2
  Delegated = {"r1", "r2"}
  OwedBatch = 1
  MaxErrors = 1
  Compactors = {"j1", "j2"}
  LastSeq = 3
  CompactBatch = 1
  HistoryWindow = 1
  MaxClears = 2
  MaxMishaps = 1
  Wakers = {"w1"}
  LastSlot = 2
  MaxEdits = 1
  MaxBlows = 1
  Sweeps = {"s1", "s2"}
  MaxEpisodes = 2
  MaxLapses = 1
  Mirrorers = {"m1"}
  Peers = {"b1"}
  MaxReplies = 2
  MaxSlips = 1
  Polls = {"p1", "p2"}
  MaxPrompts = 1
  MaxCancels = 1
  MaxTroubles = 1
  AppServices = {"api", "web"}
  Branches = {"main"}
  MaxCommits = 1
  MaxUpsets = 2
SPECIFICATION ServicesLiveSpec
CHECK_DEADLOCK FALSE
PROPERTIES
  OutboxSettles
  ViewArrives
  
  DueFires
  MirrorArrives
  AgentWakes
