CONSTANTS
  \* AgentRegistry: two users of one machine, three connections, two pairings
  Identities = {"m1", "m2"}
  Sockets = {"s1", "s2", "s3"}
  BaseName = BaseName
  None = None
  MaxTokens = 2
  \* DuckSync: two holds of one caller on two hosts, one clip, and agents that reconnect
  Outputs = {"h1", "h2"}
  Levels = {0}
  NoDuck = 1
  Callers = {"c1"}
  Poll = "poll"
  Depth = 1
  Lease = 1
  MaxHolds = 2
  MaxClips = 1
  Reconnects = TRUE
  \* SettleLoop: every queue of up to three entries over three outputs and two priorities,
  \* from every occupancy
  Targets = {"o1", "o2", "o3"}
  Ranks = {0, 1}
  QueueLen = 3
  \* Presence: a speaker of either kind and two addresses, with the thresholds in the order the
  \* code has them
  Speakers = {"d1"}
  Addresses = {"a1", "a2"}
  Unset = Unset
  FailThreshold = 2
  RemoveAfter = 3
  LockLost = 1
  Cooldown = 3
  Grace = 2
  \* HousePresets: two presets of two groups, two outputs and two sources; three requests, two
  \* at a time
  Sinks = {"a", "b"}
  Inputs = {"x", "y"}
  Groups = {1, 2}
  Presets = {"default", "p"}
  Default = "default"
  Handlers = {1, 2}
  MaxCalls = 3
  MaxFaults = 1
  \* SourceStack: two sources of any kind, two changes at once or one after the other, one start
  \* that fails, one restart of the daemon
  Ids = {1, 2}
  Kinds = {"airplay", "rtp", "spotify"}
  Labels = {"blank", "kitchen"}
  Settings = {1}
  Requests = {1, 2}
  MaxRequests = 2
  MaxFailures = 1
  MaxRestarts = 1
  \* AirplayClients: two senders, three addresses, two connections, open at once or not,
  \* one restart
  Senders = {"p", "q"}
  Addrs = {"1", "2", "3"}
  Conns = {1, 2}
  Priorities = {1}
  MaxEdits = 1
  MaxMoves = 2
  MaxConnects = 2
  MaxReboots = 1
  HomeOf <- HomeOfSender
  \* SpotifyDevice: two logins, two drops of the session, one restart of the daemon
  MaxLogins = 2
  ReconnectLimit = 1
  MaxDrops = 2
  MaxEvents = 2
  MaxRefusals = 1
  MaxBoots = 1
SPECIFICATION SuiteSpec
INVARIANTS FollowsUnlessMissed NodeNamesDistinct EntriesHaveSockets LoopComputesSweep
           ActivationRestores RunsWhatIsStored IdleLeavesNothing SettledIsLinked
PROPERTIES AnsweredIsKept BannedStayOut
\* searches and bounded histories end
CHECK_DEADLOCK FALSE
