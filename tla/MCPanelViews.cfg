\* One small instance of every panel.  The Max... constants bound the user's
\* steps and the events of each.
SPECIFICATION PanelsSpec
CONSTANTS
  \* integrations
  DraftTypes = {"mqtt_private", "mqtt_ha", "mqtt_community", "mqtt_community_meshrank",
                "mqtt_community_letsmesh_us", "mqtt_community_letsmesh_eu", "webhook", "apprise", "sqs", "bot", "map_upload"}
  RowIds = {1,2,3}
  ScopeKeys = {"ch", "co"}
  MaxFanoutSteps = 4
  \* repeater dashboards
  Repeaters = {"r1", "r2"}
  PaneOrder <- MCPaneOrder
  HasLocation = {"r2"}
  MaxRetries = 2
  MaxCached = 1
  MaxMounts = 2
  MaxDashSteps = 2
  \* room servers
  Rooms = {"a", "b"}
  RoomPanes = {"status"}
  MaxCachedRooms = 1
  MaxRoomMounts = 3
  MaxRoomSteps = 2
  \* trace pane
  TraceRepeaters = {1,2}
  HeardAt <- MCHeardAt
  DistanceTo <- MCDistanceTo
  SearchMatches = {2}
  HopWidths = {1,2}
  MaxRecentTraces = 2
  MaxRecentNodes = 2
  MaxRendered = 1
  MaxDraft = 3
  MaxTraceMounts = 2
  MaxTraceSteps = 6
  RadioLocated = TRUE
  \* channel finder
  PacketIds = {1,2,3}
  PayloadOf <- MCPayloadOf
  KeyOf <- MCKeyOf
  StoreLimit = 2
  LengthCap = 2
  MaxFinderSteps = 8
  \* radio settings
  HashSupported = TRUE
  ForeignFiles <- MCForeignFiles
  TypedKey = 3
  MaxPolls = 1
  MaxSectionMounts = 2
  MaxRadioJobs = 2
  MaxRadioSteps = 2
  \* application settings
  Nodes = {1}
  Routed = {1}
  MaxCalls = 2
  MaxSettingsSteps = 3
  \* local preferences
  FontSizes = {0,10,50,500}
  SliderStops = {50,400}
  MaxLocalSteps = 4
  \* push notifications
  PushKeys = {"k1"}
  MaxPushJobs = 2
  \* bulk deletion
  BulkContacts = {1,2,3}
  TypeOf <- MCTypeOf
  FirstSeen <- MCFirstSeen
  LastSeen <- MCLastSeen
  Dates = {1}
  MaxBulkSteps = 6
  \* search and mentions
  Queries = {"a", "b"}
  Matches <- MCMatches
  Mentioned = "me"
  SearchPage = 2
  FirstStored = 3
  LastMessage = 5
  MaxSearchSteps = 3
  \* new conversation
  Names = {"ops", "Ops", "odd", "long"}
  PlainNames = {"ops", "Ops", "long"}
  ShortNames = {"ops", "Ops", "odd"}
  Lower <- MCLower
  Pasted <- MCPasted
  MaxNewSteps = 7
  \* packet feed
  Frames <- MCFrames
  KnownTypes = {"Advert", "TextMessage", "Unknown"}
  FeedContacts = {1}
  StartsWith <- MCStartsWith
  MaxBuffered = 1
  MaxObservations = 2
  MaxRanked = 2
  Ticks = {60}
  Skews <- MCSkews
  StartWindows = {"1m"}
  MaxFeedSteps = 4
INVARIANTS
  PanelsTypeOK
  NothingHangs
  StoredAsShown
  ResultsAnswerQuestion
  OnlyAsAsked
CHECK_DEADLOCK FALSE
