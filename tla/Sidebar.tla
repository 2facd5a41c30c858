-------------------------------- MODULE Sidebar --------------------------------
(***************************************************************************)
(* The list of conversations: Sidebar.tsx with the sort orders kept by     *)
(* conversationState.ts.  Sections are collapsed by the user, expanded by  *)
(* a search and put back after it; the list unmounts while the settings    *)
(* are shown and starts from what the device stored.  Effects run before   *)
(* the next event; `effects` says that some are due.                       *)
(***************************************************************************)
EXTENDS Integers, FiniteSets

CONSTANTS
    Rows,              \* 1..n, the conversations by name
    KindOf,            \* "channel", "contact", "room" or "repeater", by row
    RecentAt,          \* time of the last message or of hearing it; 0 is none
    PublicRow,         \* the public channel
    Found,             \* the rows the search finds
    PageSize,          \* SECTION_ROW_PAGE_SIZE
    MaxSidebarSteps    \* bound on events

VARIABLES
    mounted, effects,
    searching,                    \* the query is not empty
    collapsed, snapshot,          \* collapsed sections; as they were before the search
    collapseStored,               \* remoteterm-sidebar-collapse-state
    orders, ordersStored, legacyOrder,
    rowLimits,                    \* sectionRowLimits
    favorites, mutedRows, blocked, unreadRows, \* properties handed in
    userCollapsed,                \* the sections the user has collapsed
    telemetryOn, telemetryLoads, telemetryShown, \* the polling of repeater telemetry
    sidebarSteps

collapseVars == <<collapsed, snapshot, collapseStored, userCollapsed>>
orderVars    == <<orders, ordersStored, legacyOrder>>
sidebarGivenVars    == <<favorites, mutedRows, blocked, unreadRows>>
pollVars     == <<telemetryOn, telemetryLoads, telemetryShown>>
sidebarVars  == <<mounted, effects, searching, collapseVars, orderVars, rowLimits, sidebarGivenVars, pollVars,
                  sidebarSteps>>

Sortable == {"favorites", "channels", "contacts", "rooms", "repeaters"}
ListSections == Sortable \cup {"tools"}
NoSnapshot == {"none"}

SectionOf(kind) ==
    CASE kind = "channel" -> "channels" [] kind = "contact" -> "contacts"
      [] kind = "room" -> "rooms" [] OTHER -> "repeaters"

\* coerceFavoritesSortOrder and coerceBasicSortOrder: only the favorites may be
\* sorted by type.
Orders(s) == {"recent", "alpha"} \cup IF s = "favorites" THEN {"type-recent", "type-alpha"} ELSE {}
Coerced(stored) == [s \in Sortable |-> IF stored[s] \in Orders(s) THEN stored[s] ELSE "recent"]

\* loadInitialSectionSortOrders: the stored orders, or every section in the one
\* order an earlier version stored.
NoOrders == [s \in Sortable |-> "none"]
InitialOrders(stored, legacy) ==
    IF stored # NoOrders THEN Coerced(stored)
    ELSE [s \in Sortable |-> IF legacy = "alpha" THEN "alpha" ELSE "recent"]

FirstLimits == [s \in Sortable |-> PageSize]

SidebarInit ==
    /\ mounted = TRUE /\ effects = TRUE /\ searching = FALSE
    /\ collapseStored \in {{}, {"channels"}}
    /\ collapsed = collapseStored /\ snapshot = NoSnapshot /\ userCollapsed = collapseStored
    /\ legacyOrder \in {"none", "alpha"}
    /\ orders = InitialOrders(NoOrders, legacyOrder) /\ ordersStored = orders
    /\ rowLimits = FirstLimits
    /\ favorites = {} /\ mutedRows = {} /\ blocked = {} /\ unreadRows = {}
    /\ telemetryOn = FALSE /\ telemetryLoads = {} /\ telemetryShown = FALSE
    /\ sidebarSteps = 0

(***************************************************************************)
(* What is listed, and in which order.                                     *)
(***************************************************************************)
\* isContactBlocked hides contacts, never channels.
Listed == {r \in Rows : (r \in blocked => KindOf[r] = "channel") /\ (searching => r \in Found)}

\* The favorites are taken out of their sections.
RowsOf(s) ==
    IF s = "favorites" THEN Listed \cap favorites
    ELSE {r \in Listed \ favorites : SectionOf(KindOf[r]) = s}

\* Known times, latest first, before unknown ones, these by name.
ByRecent(a, b) == \/ RecentAt[a] > RecentAt[b]
                  \/ RecentAt[a] = RecentAt[b] /\ a < b

\* The comparators: Public leads the channels and muted ones follow, unread
\* contacts and rooms lead theirs, favorites may be grouped by type.
ChannelBefore(a, b) ==
    IF PublicRow \in {a, b} THEN a = PublicRow
    ELSE IF (a \in mutedRows) # (b \in mutedRows) THEN b \in mutedRows
    ELSE IF orders["channels"] = "recent" THEN ByRecent(a, b) ELSE a < b

ContactBefore(s, a, b) ==
    IF (a \in unreadRows) # (b \in unreadRows) THEN a \in unreadRows
    ELSE IF orders[s] = "recent" THEN ByRecent(a, b) ELSE a < b

RepeaterBefore(a, b) == IF orders["repeaters"] = "recent" THEN ByRecent(a, b) ELSE a < b

TypeRank(r) ==
    CASE KindOf[r] = "channel" -> 0 [] KindOf[r] = "contact" -> 1
      [] KindOf[r] = "room" -> 2 [] OTHER -> 3

FavoriteBefore(a, b) ==
    LET order == orders["favorites"]
    IN  IF order \in {"type-recent", "type-alpha"} /\ TypeRank(a) # TypeRank(b) THEN TypeRank(a) < TypeRank(b)
        ELSE IF order \in {"recent", "type-recent"} THEN ByRecent(a, b) ELSE a < b

Before(s, a, b) ==
    CASE s = "favorites" -> FavoriteBefore(a, b) [] s = "channels" -> ChannelBefore(a, b)
      [] s = "repeaters" -> RepeaterBefore(a, b) [] OTHER -> ContactBefore(s, a, b)

\* A search shows every section expanded.
Expanded(s) == searching \/ s \notin collapsed

\* renderSectionRows: the first rows, up to the section's limit.
ShownRows(s) ==
    {r \in RowsOf(s) : Cardinality({q \in RowsOf(s) : Before(s, q, r)}) < rowLimits[s]}

(***************************************************************************)
(* Effects.                                                                *)
(***************************************************************************)
\* A search remembers what was collapsed, once, and expands everything; its end
\* puts it back.
MutAfterSearchEffect ==
    IF searching THEN [snapshot |-> collapsed, collapsed |-> {}]
    ELSE IF snapshot # NoSnapshot THEN [snapshot |-> NoSnapshot, collapsed |-> snapshot]
    ELSE [snapshot |-> snapshot, collapsed |-> collapsed]

AfterSearchEffect ==
    IF searching THEN [snapshot |-> IF snapshot = NoSnapshot THEN collapsed ELSE snapshot, collapsed |-> {}]
    ELSE IF snapshot # NoSnapshot THEN [snapshot |-> NoSnapshot, collapsed |-> snapshot]
    ELSE [snapshot |-> snapshot, collapsed |-> collapsed]

\* Then what is rendered is stored, unless it is a search's.
StoredAfterRender == IF searching THEN collapseStored ELSE collapsed

RunEffects ==
    /\ effects
    /\ snapshot' = AfterSearchEffect.snapshot /\ collapsed' = AfterSearchEffect.collapsed
    /\ collapseStored' = StoredAfterRender
    /\ effects' = (collapsed' # collapsed)
    /\ UNCHANGED <<mounted, searching, userCollapsed, orderVars, rowLimits, sidebarGivenVars, pollVars, sidebarSteps>>

(***************************************************************************)
(* The user.                                                               *)
(***************************************************************************)
SidebarStep == ~effects /\ sidebarSteps < MaxSidebarSteps /\ sidebarSteps' = sidebarSteps + 1
OnList == SidebarStep /\ mounted /\ UNCHANGED mounted

\* The search field, its clear button, and handleSelectConversation, which
\* clears it too.
SearchList(on) ==
    /\ OnList /\ searching # on /\ searching' = on /\ effects' = TRUE
    /\ UNCHANGED <<collapseVars, orderVars, rowLimits, sidebarGivenVars, pollVars>>

SelectRow(s, r) ==
    /\ OnList /\ Expanded(s) /\ r \in ShownRows(s) /\ searching
    /\ searching' = FALSE /\ effects' = TRUE
    /\ UNCHANGED <<collapseVars, orderVars, rowLimits, sidebarGivenVars, pollVars>>

\* The header of a section: it is shown when the section has rows (the tools
\* when nothing is searched), toggles it unless a search is on, and changes its
\* order.
HasHeader(s) == IF s = "tools" THEN ~searching ELSE RowsOf(s) # {}

ToggleSection(s) ==
    /\ OnList /\ HasHeader(s) /\ ~searching
    /\ collapsed' = IF s \in collapsed THEN collapsed \ {s} ELSE collapsed \cup {s}
    /\ userCollapsed' = collapsed' /\ effects' = TRUE
    /\ UNCHANGED <<searching, snapshot, collapseStored, orderVars, rowLimits, sidebarGivenVars, pollVars>>

MutNextSortOrder(s, order) ==
    CASE order = "recent" -> "alpha" [] order = "alpha" -> "type-recent"
      [] order = "type-recent" -> "type-alpha" [] OTHER -> "recent"

\* nextSortOrder: only the favorites can be sorted by type.
NextSortOrder(s, order) ==
    IF s # "favorites" THEN (IF order = "alpha" THEN "recent" ELSE "alpha")
    ELSE CASE order = "recent" -> "alpha" [] order = "alpha" -> "type-recent"
           [] order = "type-recent" -> "type-alpha" [] OTHER -> "recent"

HandleSortToggle(s) ==
    /\ OnList /\ HasHeader(s)
    /\ orders' = [orders EXCEPT ![s] = NextSortOrder(s, @)] /\ ordersStored' = orders'
    /\ UNCHANGED <<effects, searching, collapseVars, legacyOrder, rowLimits, sidebarGivenVars, pollVars>>

ShowMore(s) ==
    /\ OnList /\ Expanded(s) /\ RowsOf(s) # ShownRows(s)
    /\ rowLimits' = [rowLimits EXCEPT ![s] = @ + PageSize]
    /\ UNCHANGED <<effects, searching, collapseVars, orderVars, sidebarGivenVars, pollVars>>

\* "Mark all as read", offered while anything is unread, listed or not.
MarkListRead ==
    /\ OnList /\ ~searching /\ unreadRows # {}
    /\ unreadRows' = {}
    /\ UNCHANGED <<effects, searching, collapseVars, orderVars, rowLimits, favorites, mutedRows, blocked, pollVars>>

\* The settings replace the list, and give it back.
HideList ==
    /\ SidebarStep /\ mounted /\ mounted' = FALSE
    /\ searching' = FALSE /\ snapshot' = NoSnapshot /\ collapsed' = {} /\ rowLimits' = FirstLimits
    /\ telemetryLoads' = {[l EXCEPT !.live = FALSE] : l \in telemetryLoads} /\ telemetryShown' = FALSE
    /\ UNCHANGED <<effects, collapseStored, userCollapsed, orderVars, sidebarGivenVars, telemetryOn>>

Loads == IF telemetryOn THEN {[live |-> TRUE, id |-> sidebarSteps]} ELSE {}
ShowList ==
    /\ SidebarStep /\ ~mounted /\ mounted' = TRUE /\ effects' = TRUE
    /\ collapsed' = collapseStored
    /\ orders' = InitialOrders(ordersStored, legacyOrder) /\ ordersStored' = orders'
    /\ telemetryLoads' = telemetryLoads \cup Loads
    /\ UNCHANGED <<searching, snapshot, collapseStored, userCollapsed, legacyOrder, rowLimits, sidebarGivenVars,
                   telemetryOn, telemetryShown>>

(***************************************************************************)
(* What is handed in, and the telemetry.                                   *)
(***************************************************************************)
Toggled(set, r) == IF r \in set THEN set \ {r} ELSE set \cup {r}

GivenChanges(r) ==
    /\ SidebarStep
    /\ \/ favorites' = Toggled(favorites, r) /\ UNCHANGED <<mutedRows, blocked, unreadRows>>
       \/ blocked' = Toggled(blocked, r) /\ UNCHANGED <<favorites, mutedRows, unreadRows>>
       \/ unreadRows' = Toggled(unreadRows, r) /\ UNCHANGED <<favorites, mutedRows, blocked>>
       \/ KindOf[r] = "channel" /\ mutedRows' = Toggled(mutedRows, r) /\ UNCHANGED <<favorites, blocked, unreadRows>>
    /\ UNCHANGED <<mounted, effects, searching, collapseVars, orderVars, rowLimits, pollVars>>

\* The preference changes: what was loading is cancelled, and a load is started.
TelemetryPreference ==
    /\ OnList /\ telemetryOn' = ~telemetryOn
    /\ telemetryLoads' = {[l EXCEPT !.live = FALSE] : l \in telemetryLoads}
                         \cup IF telemetryOn' THEN {[live |-> TRUE, id |-> sidebarSteps]} ELSE {}
    /\ UNCHANGED <<effects, searching, collapseVars, orderVars, rowLimits, sidebarGivenVars, telemetryShown>>

\* Every five minutes.
TelemetryPoll ==
    /\ OnList /\ telemetryOn
    /\ telemetryLoads' = telemetryLoads \cup Loads
    /\ UNCHANGED <<effects, searching, collapseVars, orderVars, rowLimits, sidebarGivenVars, telemetryOn, telemetryShown>>

TelemetryArrives(l) ==
    /\ ~effects /\ l \in telemetryLoads /\ telemetryLoads' = telemetryLoads \ {l}
    /\ telemetryShown' \in {telemetryShown, telemetryShown \/ l.live}
    /\ UNCHANGED <<mounted, effects, searching, collapseVars, orderVars, rowLimits, sidebarGivenVars, telemetryOn,
                   sidebarSteps>>

SidebarNext ==
    \/ RunEffects \/ MarkListRead \/ HideList \/ ShowList \/ TelemetryPreference \/ TelemetryPoll
    \/ \E on \in BOOLEAN : SearchList(on)
    \/ \E s \in ListSections : ToggleSection(s)
    \/ \E s \in Sortable : HandleSortToggle(s) \/ ShowMore(s)
    \/ \E s \in Sortable, r \in Rows : SelectRow(s, r)
    \/ \E r \in Rows : GivenChanges(r)
    \/ \E l \in telemetryLoads : TelemetryArrives(l)

(***************************************************************************)
(* Properties.                                                             *)
(***************************************************************************)
SidebarTypeOK ==
    /\ {collapsed, collapseStored, userCollapsed} \subseteq SUBSET ListSections
    /\ snapshot = NoSnapshot \/ snapshot \subseteq ListSections
    /\ \A s \in Sortable : orders[s] \in Orders(s)
    /\ {favorites, mutedRows, blocked, unreadRows} \subseteq SUBSET Rows
    /\ {mounted, effects, searching, telemetryOn, telemetryShown} \subseteq BOOLEAN

\* The sections the user has collapsed are the ones stored, and the ones shown
\* collapsed when nothing is searched, through any number of searches, list
\* changes and visits to the settings (Sidebar.tsx:499, :550); and the orders
\* shown are the ones stored.
SearchKeepsCollapse ==
    ~effects => /\ collapseStored = userCollapsed
                /\ (mounted /\ ~searching) => collapsed = userCollapsed
                /\ ordersStored = orders

(***************************************************************************)
(* Why it holds.                                                           *)
(***************************************************************************)
\* What the user collapsed is in the list or, while a search or the effects of
\* its end are on, in the snapshot, and is stored unless those effects are due.
SearchSaved ==
    /\ orders \in [Sortable -> UNION {Orders(s) : s \in Sortable}] /\ ordersStored = orders
    /\ snapshot # NoSnapshot => snapshot = userCollapsed /\ collapsed = {}
    /\ (mounted /\ snapshot = NoSnapshot) => collapsed = userCollapsed
    /\ ~mounted => ~effects /\ ~searching /\ snapshot = NoSnapshot
    /\ (searching \/ ~effects) => collapseStored = userCollapsed
    /\ ~effects => (searching <=> snapshot # NoSnapshot)

SidebarInv == SidebarTypeOK /\ SearchSaved
================================================================================
