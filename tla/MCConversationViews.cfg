\* One small instance of every part.  The Max... constants bound the user's
\* steps and the events of each.
SPECIFICATION ConversationsSpec
CONSTANTS
  \* conversation router
  Public = "pub"
  OtherChannels = {"chan"}
  KeyPrefix = "pre"
  FullKey = "key"
  Views = {"map", "search"}
  Search = "search"
  Sections = {"radio", "local"}
  Nothing = "none"
  Starts <- MCStarts
  MaxSteps = 2
  MaxEvents = 1
  \* unread counts
  Room = "room"
  Prefix = "pre"
  Full = "full"
  FavoriteRoom = TRUE
  Mentioning = {2}
  MaxMessages = 2
  MaxFetches = 1
  MaxOpens = 1
  \* sidebar
  Rows = {1,2,3,4,5}
  KindOf <- MCKindOf
  RecentAt <- MCRecentAt
  PublicRow = 1
  Found = {2,3}
  PageSize = 1
  MaxSidebarSteps = 3
  \* message list
  LastRow = 7
  FirstRows = 6
  RowPage = 3
  ViewRows = 2
  Own = {6}
  Packets = {6}
  Archived = {6}
  MaxScrollSteps = 5
INVARIANTS
  ConversationsTypeOK
  
  AddressNamesView
  UnreadHasBoundary
  OpenIsRead
  IconFollowsBadge
  
CHECK_DEADLOCK FALSE
