--------------------------- MODULE ConversationRouter ---------------------------
(***************************************************************************)
(* Which conversation the client shows, and the address that names it:     *)
(* useConversationRouter.ts with urlHash.ts and lastViewedConversation.ts, *)
(* the settings view of useAppShell.ts, and the lists of channels and      *)
(* contacts of useContactsAndChannels.ts as far as they decide it.         *)
(*                                                                         *)
(* A conversation is its identity and a hash is the identity it names, a   *)
(* settings section, or Nothing.  A React render with the effects it runs  *)
(* is one step, Commit: `dirty` holds the states set since the last one.   *)
(* The settings view changes in a transition, whose render React may       *)
(* postpone, so "show" may be left for a later Commit.                     *)
(***************************************************************************)
EXTENDS Integers, Sequences

CONSTANTS
    Public,        \* findPublicChannel's key
    OtherChannels, \* the other channels of the server at the start
    KeyPrefix,     \* a contact known by a prefix of its key ...
    FullKey,       \* ... and the same contact once its key is known
    Views,         \* the map, the raw feed and the other views without a key
    Search,        \* the search view: never remembered as last viewed
    Sections,      \* the sections of the settings view
    Nothing,       \* no conversation, an empty hash
    Starts,        \* what a page may find: an address, and a memory of the device that
                   \* is followed (reopen) or not, [hash, reopen, lastViewed]
    MaxSteps,      \* bound on the user's actions
    MaxEvents      \* bound on the changes at the server

VARIABLES
    history, at,                \* the browser's session history and the place in it
    traversing,                 \* a history.back() the browser has not done yet
    active, activeRef,          \* activeConversation, as set and as last rendered
    show, shown,                \* showSettings, as set and as last rendered
    section,                    \* settingsSection
    dirty,                      \* what was set since the last render
    channels, contacts,         \* the lists of the client
    channelsLoaded, contactsLoaded,
    defaultSet, deleteFallback, \* hasSetDefaultConversation, pendingDeleteFallbackRef
    hashSync, push, popping,    \* hashSyncEnabledRef, shouldPushHistoryRef, isHandlingPopstateRef
    previousHash, opening, pushed, \* previousHashRef, isOpeningSettingsRef, pushedSettingsEntryRef
    lastViewed, reopen,         \* what the device remembers: localStorage
    serverChannels, serverContacts,
    listReply,                  \* answers to GET /channels and /contacts on their way
    wire,                       \* events the server has broadcast
    deleting, creating,         \* the handleDelete... and handleCreate... that await the server
    steps, events

browserVars == <<history, at, traversing>>
viewVars    == <<active, activeRef, show, shown, section, dirty>>
listVars    == <<channels, contacts, channelsLoaded, contactsLoaded>>
refVars     == <<defaultSet, deleteFallback, hashSync, push, popping>>
settingsRefs == <<previousHash, opening, pushed>>
deviceVars  == <<lastViewed, reopen>>
serverVars  == <<serverChannels, serverContacts, wire>>
asked       == <<deleting, creating>>
routerVars  == <<browserVars, viewVars, listVars, refVars, settingsRefs, deviceVars, serverVars,
                 listReply, asked, steps, events>>

Channels == {Public} \cup OtherChannels
Contacts == {KeyPrefix, FullKey}
Convs    == Channels \cup Contacts \cup Views
Hashes   == Convs \cup Sections \cup {Nothing}
hash     == history[at]

\* An identity names one thing: a conversation, a settings section or none.
ASSUME RouterAssumption ==
    /\ Sections # {} /\ Sections \cap Convs = {} /\ Nothing \notin Convs \cup Sections
    /\ Starts \subseteq [hash : Hashes, reopen : BOOLEAN, lastViewed : Convs \cup {Nothing}]

\* parseHashSettingsSection and parseHashConversation.
IsSettings(h)       == h \in Sections
ConversationOf(h)   == IF h \in Convs THEN h ELSE Nothing

\* findPublicChannel on a list of channels.
PublicOf(chs) == IF Public \in chs THEN Public ELSE Nothing

\* resolveChannelFromHashToken and resolveContactFromHashToken.
FromToken(h, chs, cts) == IF h \in chs \cup cts THEN h ELSE Nothing

\* resolveConversationFromHash: the views need no list, a channel and a
\* contact must be in theirs.
Resolved(h, chs, cts) == IF h \in Views THEN h ELSE FromToken(h, chs, cts)

\* The address follows the conversation from the start when it names one.
FollowsFrom(h) == h # Nothing /\ ~IsSettings(h)
DefaultSection == CHOOSE s \in Sections : TRUE

\* The page loads: the settings view opens when the address names it, the
\* lists are requested.
RouterInit ==
    /\ serverChannels = Channels /\ serverContacts = {KeyPrefix, FullKey}
    /\ \E start \in Starts : LET h == start.hash IN
         /\ history = <<h>>
         /\ show = IsSettings(h) /\ shown = IsSettings(h)
         /\ section = IF IsSettings(h) THEN h ELSE DefaultSection
         /\ hashSync = FollowsFrom(h)
         /\ reopen = start.reopen /\ lastViewed = start.lastViewed
    /\ at = 1 /\ traversing = FALSE
    /\ active = Nothing /\ activeRef = Nothing /\ dirty = {"active"}
    /\ channels = {} /\ contacts = {} /\ channelsLoaded = FALSE /\ contactsLoaded = FALSE
    /\ defaultSet = FALSE /\ deleteFallback = FALSE /\ push = FALSE /\ popping = FALSE
    /\ previousHash = Nothing /\ opening = FALSE /\ pushed = FALSE
    /\ listReply = [channels |-> {serverChannels}, contacts |-> {serverContacts}]
    /\ wire = {} /\ deleting = Nothing /\ creating = Nothing
    /\ steps = 0 /\ events = 0

(***************************************************************************)
(* A render and its effects, in the order of the hooks.                    *)
(***************************************************************************)
\* getReopenLastConversationEnabled and getLastViewedConversation.
Remembered == IF reopen THEN lastViewed ELSE Nothing

\* Phase 1: the conversation for a page that shows none yet, from the address,
\* the device's memory or the default; contacts are left to phase 2.
Phase1 ==
    LET h == ConversationOf(hash) IN
    IF defaultSet \/ active # Nothing THEN Nothing
    ELSE IF h \in Views THEN h
    ELSE IF h = Nothing /\ Remembered \in Views THEN Remembered
    ELSE IF channels = {} THEN Nothing
    ELSE IF h \in channels THEN h
    ELSE IF h \in Contacts THEN Nothing
    ELSE IF h = Nothing /\ Remembered \in channels THEN Remembered
    ELSE IF h = Nothing /\ Remembered \in Contacts THEN Nothing
    ELSE PublicOf(channels)

\* Phase 2: a contact of the address or of the device's memory, once the
\* contacts have been loaded.
Phase2 ==
    LET h      == ConversationOf(hash)
        wanted == IF h \in Contacts THEN h
                  ELSE IF h = Nothing /\ Remembered \in Contacts THEN Remembered
                  ELSE Nothing
    IN  IF defaultSet \/ active # Nothing \/ Phase1 # Nothing THEN Nothing
        ELSE IF wanted = Nothing \/ ~contactsLoaded THEN Nothing
        ELSE IF wanted \in contacts THEN wanted ELSE PublicOf(channels)

MutFallback == Nothing

\* A delete that left no conversation falls back to Public.
Fallback ==
    IF deleteFallback /\ active = Nothing THEN PublicOf(channels) ELSE Nothing

\* pushUrlHash and updateUrlHash: a new entry replaces what was ahead; naming
\* the current hash again does nothing.
Pushed(h)   == IF h = hash THEN <<history, at>> ELSE <<Append(SubSeq(history, 1, at), h), at + 1>>
Replaced(h) == <<[history EXCEPT ![at] = h], at>>

\* The effect of useAppShell, which runs before the router's.
SettingsHash(sectionShown) ==
    IF "section" \notin dirty /\ sectionShown = shown THEN <<history, at>>
    ELSE IF ~sectionShown THEN <<history, at>>
    ELSE IF opening THEN Pushed(section) ELSE Replaced(section)

\* The router's effect: the address follows the conversation unless the
\* browser has just set it or the settings view owns it.
RouterHash(sectionShown) ==
    IF popping \/ active = Nothing \/ ~hashSync \/ sectionShown THEN <<history, at>>
    ELSE IF push THEN Pushed(active) ELSE Replaced(active)

\* One render.  Without "show" the settings view keeps its last rendered state.
Commit ==
    /\ dirty # {}
    /\ \E withShow \in IF dirty = {"show"} THEN {TRUE} ELSE BOOLEAN :
         LET nowShown  == IF withShow THEN show ELSE shown
             routes    == "active" \in dirty \/ nowShown # shown
             chosen    == IF Fallback # Nothing THEN Fallback
                          ELSE IF Phase2 # Nothing THEN Phase2 ELSE Phase1
             syncs     == routes /\ ~popping /\ active # Nothing /\ hashSync /\ ~nowShown
             settings  == nowShown /\ (nowShown # shown \/ "section" \in dirty)
             entry     == IF settings THEN SettingsHash(nowShown)
                          ELSE IF syncs THEN RouterHash(nowShown) ELSE <<history, at>>
         IN  /\ shown' = nowShown
             /\ history' = entry[1] /\ at' = entry[2]
             /\ opening' = (opening /\ ~settings)
             /\ popping' = (popping /\ ~routes)
             /\ push' = (push /\ ~syncs)
             /\ lastViewed' = IF routes /\ active \notin {Nothing, Search} THEN active ELSE lastViewed
             /\ defaultSet' = (defaultSet \/ chosen # Nothing)
             /\ deleteFallback' = (deleteFallback /\ active = Nothing /\ Fallback = Nothing)
             /\ active' = IF chosen # Nothing THEN chosen ELSE active
             /\ dirty' = (IF chosen # Nothing THEN {"active"} ELSE {})
                         \cup (IF show # nowShown THEN {"show"} ELSE {})
    /\ activeRef' = active
    /\ UNCHANGED <<traversing, show, section, listVars, hashSync, previousHash, pushed, reopen,
                   serverVars, listReply, asked, steps, events>>

\* React renders what an event set before the next event is handled; only the
\* settings transition may still be on its way, though not by the time the user
\* acts again.
Rendered == dirty \subseteq {"show"}

(***************************************************************************)
(* What sets the conversation.                                             *)
(***************************************************************************)
\* setActiveConversation of the router.
SetActive(c) ==
    /\ active' = c /\ dirty' = dirty \cup {"active"}
    /\ hashSync' = TRUE /\ push' = TRUE

UserStep == dirty = {} /\ steps < MaxSteps /\ steps' = steps + 1 /\ UNCHANGED events
ServerStep == Rendered /\ events < MaxEvents /\ events' = events + 1 /\ UNCHANGED steps
Quiet == Rendered /\ UNCHANGED <<steps, events>>

\* The groups of the command palette: every view, channel and contact.
PaletteGroups == [tools |-> Views, channels |-> channels, contacts |-> contacts]
PaletteItems  == UNION {PaletteGroups[g] : g \in DOMAIN PaletteGroups}

\* What ConversationPane shows for the conversation rendered last.
PaneFor(c) ==
    CASE c = Nothing -> IF channelsLoaded /\ contactsLoaded THEN "empty" ELSE "skeleton"
      [] c \in Views -> c
      [] c \in Contacts \ contacts -> "chat without contact"
      [] OTHER -> "chat"

\* The main area of AppShell.
ViewShown == IF shown THEN "settings" ELSE PaneFor(activeRef)

\* handleSelectConversation, from the sidebar, which the settings view covers,
\* or from the palette, which opens over either.
HandleSelectConversation(c) ==
    /\ UserStep /\ c \in PaletteItems
    /\ SetActive(c)
    /\ UNCHANGED <<browserVars, activeRef, show, shown, section, listVars, defaultSet, deleteFallback,
                   popping, settingsRefs, deviceVars, serverVars, listReply, asked>>

\* The settings view: handleToggleSettingsView and handleOpenSettings open it,
\* handleCloseSettingsView closes it and gives the address back.
OpenSettings(s) ==
    /\ UserStep
    /\ section' = s
    /\ IF shown
       THEN UNCHANGED <<show, previousHash, opening, pushed>>
       ELSE /\ show' = TRUE /\ opening' = TRUE /\ pushed' = TRUE
            /\ previousHash' = IF IsSettings(hash) THEN previousHash ELSE hash
    /\ dirty' = dirty \cup (IF s # section THEN {"section"} ELSE {})
                      \cup (IF show' # shown THEN {"show"} ELSE {})
    /\ UNCHANGED <<browserVars, active, activeRef, shown, listVars, refVars, deviceVars,
                   serverVars, listReply, asked>>

MutCloseSettings ==
    /\ UserStep /\ shown /\ ~traversing
    /\ show' = FALSE /\ dirty' = (IF shown THEN dirty \cup {"show"} ELSE dirty \ {"show"})
    /\ pushed' = FALSE /\ traversing' = pushed
    /\ UNCHANGED <<history, at, active, activeRef, shown, section, listVars, refVars, previousHash, opening,
                   deviceVars, serverVars, listReply, asked>>

CloseSettings ==
    /\ UserStep /\ shown /\ ~traversing
    /\ show' = FALSE /\ dirty' = (IF shown THEN dirty \cup {"show"} ELSE dirty \ {"show"})
    /\ pushed' = FALSE /\ traversing' = pushed
    /\ history' = IF ~pushed /\ IsSettings(hash) THEN Replaced(previousHash)[1] ELSE history
    /\ UNCHANGED <<at, active, activeRef, shown, section, listVars, refVars, previousHash, opening,
                   deviceVars, serverVars, listReply, asked>>

\* The browser moves in its history and both popstate listeners run.
Popstate(to) ==
    LET h    == history[to]
        conv == IF Resolved(h, channels, contacts) # Nothing
                THEN Resolved(h, channels, contacts) ELSE PublicOf(channels)
    IN  /\ at' = to
        /\ IF IsSettings(h)
           THEN /\ show' = TRUE /\ section' = h
                /\ dirty' = dirty \cup (IF h # section THEN {"section"} ELSE {})
                                  \cup (IF ~shown THEN {"show"} ELSE {})
                /\ UNCHANGED <<active, hashSync, popping>>
           ELSE /\ show' = FALSE /\ UNCHANGED section
                /\ dirty' = (IF shown THEN dirty \cup {"show"} ELSE dirty \ {"show"})
                            \cup (IF conv # Nothing THEN {"active"} ELSE {})
                /\ IF conv = Nothing THEN UNCHANGED <<active, hashSync, popping>>
                   ELSE active' = conv /\ hashSync' = TRUE /\ popping' = TRUE
        /\ UNCHANGED <<history, activeRef, shown, listVars, defaultSet, deleteFallback, push,
                       settingsRefs, deviceVars, serverVars, listReply, asked>>

BackOrForward ==
    /\ UserStep /\ ~traversing
    /\ \E to \in {at - 1, at + 1} \cap DOMAIN history : Popstate(to)
    /\ UNCHANGED traversing

\* The traversal history.back() asked for.
Traversed ==
    /\ Quiet /\ traversing
    /\ traversing' = FALSE
    /\ IF at > 1 THEN Popstate(at - 1)
       ELSE UNCHANGED <<history, at, viewVars, listVars, refVars, settingsRefs, deviceVars,
                        serverVars, listReply, asked>>

\* captureLastViewedConversationFromHash.
Captured == IF ConversationOf(hash) # Nothing THEN ConversationOf(hash) ELSE lastViewed

\* The reopen setting of the settings view; the address it captures then names
\* the settings themselves, so nothing is captured.
ToggleReopen ==
    /\ UserStep /\ shown
    /\ reopen' = ~reopen
    /\ lastViewed' = IF reopen THEN Nothing ELSE Captured
    /\ UNCHANGED <<browserVars, viewVars, listVars, refVars, settingsRefs, serverVars,
                   listReply, asked>>

\* The page is reloaded: the address and the device's memory survive.
Reload ==
    /\ UserStep /\ ~traversing
    /\ UNCHANGED <<browserVars, deviceVars, serverChannels, serverContacts>>
    /\ active' = Nothing /\ activeRef' = Nothing /\ dirty' = {"active"}
    /\ show' = IsSettings(hash) /\ shown' = IsSettings(hash)
    /\ section' = IF IsSettings(hash) THEN hash ELSE DefaultSection
    /\ channels' = {} /\ contacts' = {} /\ channelsLoaded' = FALSE /\ contactsLoaded' = FALSE
    /\ defaultSet' = FALSE /\ deleteFallback' = FALSE
    /\ hashSync' = FollowsFrom(hash) /\ push' = FALSE /\ popping' = FALSE
    /\ previousHash' = Nothing /\ opening' = FALSE /\ pushed' = FALSE
    /\ listReply' = [channels |-> {serverChannels}, contacts |-> {serverContacts}]
    /\ wire' = {} /\ deleting' = Nothing /\ creating' = Nothing

(***************************************************************************)
(* Lists, deletions and the server's events.                               *)
(***************************************************************************)
\* The first answers and those after a reconnect: the lists as the server had
\* them when it was asked, or a failure, after which the client goes on with
\* what it has.
ChannelsArrive(list) ==
    /\ Quiet /\ list \in listReply.channels
    /\ channels' \in {list, channels} /\ channelsLoaded' = TRUE
    /\ listReply' = [listReply EXCEPT !.channels = @ \ {list}]
    /\ dirty' = dirty \cup {"lists"}
    /\ UNCHANGED <<browserVars, active, activeRef, show, shown, section, contacts, contactsLoaded,
                   refVars, settingsRefs, deviceVars, serverVars, asked>>

ContactsArrive(list) ==
    /\ Quiet /\ list \in listReply.contacts
    /\ contacts' \in {list, contacts} /\ contactsLoaded' = TRUE
    /\ listReply' = [listReply EXCEPT !.contacts = @ \ {list}]
    /\ dirty' = dirty \cup {"lists"}
    /\ UNCHANGED <<browserVars, active, activeRef, show, shown, section, channels, channelsLoaded,
                   refVars, settingsRefs, deviceVars, serverVars, asked>>

OnReconnect ==
    /\ ServerStep
    /\ listReply' = [channels |-> listReply.channels \cup {serverChannels},
                     contacts |-> listReply.contacts \cup {serverContacts}]
    /\ UNCHANGED <<browserVars, viewVars, listVars, refVars, settingsRefs, deviceVars, serverVars,
                   asked>>

\* handleDeleteChannel and handleDeleteContact up to the server's answer ...
HandleDelete(c) ==
    /\ UserStep /\ deleting = Nothing
    /\ c = activeRef /\ ViewShown \in {"chat", "chat without contact"} /\ c # Public
    /\ deleteFallback' = TRUE /\ deleting' = c
    /\ IF c \in serverChannels \cup serverContacts
       THEN /\ serverChannels' = serverChannels \ {c} /\ serverContacts' = serverContacts \ {c}
            /\ wire' = wire \cup {c}
       ELSE UNCHANGED serverVars
    /\ UNCHANGED <<browserVars, viewVars, listVars, defaultSet, hashSync, push, popping, settingsRefs,
                   deviceVars, listReply, creating>>

\* ... and after it: the lists are brought up to date and Public is opened,
\* whatever the user has opened meanwhile; a failure leaves all as it was.
DeleteReturns ==
    /\ Quiet /\ deleting # Nothing
    /\ deleting' = Nothing
    /\ \/ /\ contacts' = contacts \ {deleting} /\ channels' = serverChannels
          /\ defaultSet' = TRUE
          /\ active' = Public /\ dirty' = dirty \cup {"active", "lists"}
          /\ hashSync' = TRUE /\ push' = TRUE
       \/ UNCHANGED <<contacts, channels, defaultSet, active, dirty, hashSync, push>>
    /\ UNCHANGED <<browserVars, activeRef, show, shown, section, channelsLoaded, contactsLoaded,
                   deleteFallback, popping, settingsRefs, deviceVars, serverVars, listReply, creating>>

\* handleCreateContact and handleCreateChannel: the server adds it ...
HandleCreate(c) ==
    /\ UserStep /\ ~shown /\ creating = Nothing /\ c \in OtherChannels \cup {FullKey}
    /\ creating' = c
    /\ serverChannels' = serverChannels \cup ({c} \cap Channels)
    /\ serverContacts' = serverContacts \cup ({c} \cap Contacts)
    /\ UNCHANGED <<browserVars, viewVars, listVars, refVars, settingsRefs, deviceVars, wire, listReply,
                   deleting>>

\* ... and it is opened with the list as it is by then, unless the server fails.
CreateReturns ==
    /\ Quiet /\ creating # Nothing
    /\ creating' = Nothing
    /\ \/ /\ channels' = IF creating \in Channels THEN serverChannels ELSE channels
          /\ contacts' = IF creating \in Contacts THEN serverContacts ELSE contacts
          /\ SetActive(creating)
       \/ UNCHANGED <<channels, contacts, active, dirty, hashSync, push>>
    /\ UNCHANGED <<browserVars, activeRef, show, shown, section, channelsLoaded, contactsLoaded,
                   defaultSet, deleteFallback, popping, settingsRefs, deviceVars, serverVars, listReply,
                   deleting>>

\* Another client deletes a conversation.
DeletedElsewhere(c) ==
    /\ ServerStep /\ c \in (serverChannels \cup serverContacts) \ {Public}
    /\ serverChannels' = serverChannels \ {c} /\ serverContacts' = serverContacts \ {c}
    /\ wire' = wire \cup {c}
    /\ UNCHANGED <<browserVars, viewVars, listVars, refVars, settingsRefs, deviceVars, listReply,
                   asked>>

\* onChannelDeleted and onContactDeleted: the open conversation is closed and
\* the fallback armed.
OnDeleted(c) ==
    /\ Quiet /\ c \in wire /\ c # "resolved"
    /\ wire' = wire \ {c}
    /\ channels' = channels \ {c} /\ contacts' = contacts \ {c}
    /\ IF activeRef = c
       THEN SetActive(Nothing) /\ deleteFallback' = TRUE
       ELSE UNCHANGED <<active, hashSync, push, deleteFallback, dirty>>
    /\ UNCHANGED <<browserVars, activeRef, show, shown, section, channelsLoaded, contactsLoaded,
                   defaultSet, popping, settingsRefs, deviceVars, serverChannels, serverContacts,
                   listReply, asked>>

\* The server learns the full key of the contact known by a prefix.
KeyLearned ==
    /\ ServerStep /\ KeyPrefix \in serverContacts
    /\ serverContacts' = (serverContacts \ {KeyPrefix}) \cup {FullKey}
    /\ wire' = wire \cup {"resolved"}
    /\ UNCHANGED <<browserVars, viewVars, listVars, refVars, settingsRefs, deviceVars,
                   serverChannels, listReply, asked>>

\* onContactResolved: the entry and the open conversation take the full key.
OnContactResolved ==
    /\ Quiet /\ "resolved" \in wire
    /\ wire' = wire \ {"resolved"}
    /\ contacts' = (contacts \ {KeyPrefix}) \cup {FullKey}
    /\ IF activeRef = KeyPrefix
       THEN SetActive(FullKey)
       ELSE UNCHANGED <<active, hashSync, push, dirty>>
    /\ UNCHANGED <<browserVars, activeRef, show, shown, section, channels, channelsLoaded,
                   contactsLoaded, defaultSet, deleteFallback, popping, settingsRefs, deviceVars,
                   serverChannels, serverContacts, listReply, asked>>

RouterNext ==
    \/ Commit
    \/ \E c \in Convs : HandleSelectConversation(c) \/ HandleDelete(c) \/ HandleCreate(c)
                     \/ DeletedElsewhere(c) \/ OnDeleted(c)
    \/ \E s \in Sections : OpenSettings(s)
    \/ CloseSettings \/ BackOrForward \/ Traversed \/ ToggleReopen \/ Reload
    \/ \E list \in listReply.channels : ChannelsArrive(list)
    \/ \E list \in listReply.contacts : ContactsArrive(list)
    \/ OnReconnect \/ DeleteReturns \/ CreateReturns
    \/ KeyLearned \/ OnContactResolved

(***************************************************************************)
(* Properties.                                                             *)
(***************************************************************************)
Settled == dirty = {} /\ ~traversing

RouterTypeOK ==
    /\ at \in DOMAIN history /\ \A i \in DOMAIN history : history[i] \in Hashes
    /\ {active, activeRef, lastViewed, deleting, creating} \subseteq Convs \cup {Nothing}
    /\ section \in Sections /\ previousHash \in Hashes \ Sections
    /\ channels \subseteq Channels /\ contacts \subseteq Contacts
    /\ dirty \subseteq {"active", "show", "section", "lists"}
    /\ {show, shown, channelsLoaded, contactsLoaded, defaultSet, deleteFallback, hashSync, push,
        popping, opening, pushed, reopen, traversing} \subseteq BOOLEAN

\* Once the lists have been loaded and Public is among the channels, a client
\* with nothing left to render shows a conversation: no deletion, no move in
\* the browser's history and no unresolvable address strands it on the empty
\* view (useConversationRouter.ts:317, :335).
NeverStranded ==
    (Settled /\ channelsLoaded /\ contactsLoaded /\ Public \in channels) => active # Nothing

\* With nothing left to render and no move in the history under way, the
\* address names what is shown: a settings section exactly while the settings
\* view is open and then the one it shows, and a view without a key only while
\* that view is the conversation, or none is until the channels are there to fall
\* back to.  (A channel or a contact it names may be gone, and Public shown
\* instead.)
AddressNamesView ==
    Settled =>
        /\ show = IsSettings(hash)
        /\ show => hash = section
        /\ (hash \in Views /\ active # Nothing) => active = hash

(***************************************************************************)
(* Why they hold: what is true between the renders as well.                *)
(***************************************************************************)
\* The lists of the server, and the answers that carry them.
ListsKnown ==
    /\ history \in Seq(Hashes)
    /\ serverChannels \subseteq Channels /\ serverContacts \subseteq Contacts
    /\ listReply \in [channels : SUBSET SUBSET Channels, contacts : SUBSET SUBSET Contacts]

\* A client without a conversation chooses one in the next render, by its
\* fallback when the phases of the first choice are over.
ChoiceDue ==
    /\ (active = Nothing /\ defaultSet) => deleteFallback
    /\ (active = Nothing /\ channelsLoaded /\ contactsLoaded /\ Public \in channels) =>
           "active" \in dirty \/ "lists" \in dirty

\* The settings view and the address differ only while a render is due that
\* brings them together, or a history.back() is on its way.
SettingsDue ==
    /\ show # shown => "show" \in dirty
    /\ "section" \in dirty => show
    /\ (~traversing /\ ~show) => hash \notin Sections
    /\ (~traversing /\ show) => hash = section \/ "section" \in dirty \/ ~shown

\* There is an entry to go back to: the first one names the settings only while
\* it is the only one, and then they were not opened by the user.
EntryBehind ==
    /\ traversing => at > 1
    /\ history[1] \in Sections => Len(history) = 1 /\ show /\ shown /\ ~pushed /\ ~opening
    /\ (history[1] \notin Sections /\ at = 1 /\ show) => opening

\* An address that names another view than the conversation is rewritten by the
\* next render, which nothing suppresses.
ViewDue ==
    /\ ~hashSync => hash \notin Views /\ previousHash \notin Views
    /\ popping => "active" \in dirty /\ active # Nothing /\ (hash \in Views => active = hash)
    /\ (~traversing /\ hash \in Views /\ active \notin {hash, Nothing}) =>
           "active" \in dirty \/ show # shown

RouterInv == RouterTypeOK /\ ListsKnown /\ ChoiceDue /\ SettingsDue /\ EntryBehind /\ ViewDue
================================================================================
