------------------------------ MODULE PanelViews -------------------------------
(***************************************************************************)
(* The panels and dialogs of the web client beside the conversation, each  *)
(* with its own state, its own requests in flight and its own part of the  *)
(* browser's storage.  They share none of it, so a behaviour of the client *)
(* is an interleaving of behaviours of its panels and what holds in each   *)
(* panel holds in the whole: one panel at a time is followed, the one in   *)
(* `focus`, while the others stay in the state they start in.              *)
(***************************************************************************)
EXTENDS MessageSearch, NewConversation, BulkDelete,
        ServerDashboards, RoomServers, TracePane, ChannelFinder,
        FanoutSettings, RadioSettings, AppSettings, LocalSettings, PushDevices,
        PacketFeed

VARIABLE focus

\* The groups of panels that stay as they are while another one is followed.
queryVars  == <<searchVars, newVars, bulkVars>>
deskVars   == <<dashVars, roomVars, traceVars, finderVars, feedVars>>
configVars == <<fanoutVars, radioVars, settingsVars, localVars, pushVars>>

AtRest(part, rest) == focus = part \/ rest

PanelsInit ==
    /\ focus \in {"search", "new", "bulk", "dash", "rooms", "trace", "finder",
                  "feed", "fanout", "radio", "settings", "local", "push"}
    /\ SearchInit /\ NewInit /\ BulkInit
    /\ DashInit /\ RoomInit /\ TraceInit /\ FinderInit /\ FeedInit
    /\ FanoutInit /\ RadioInit /\ SettingsInit /\ LocalInit /\ PushInit
    /\ AtRest("fanout", rows = {})
    /\ AtRest("rooms", \A k \in Rooms : lastSync[k] = "none")
    /\ AtRest("finder", ~finder.gpu)
    /\ AtRest("feed", skew = 0 /\ feed = Closed)
    /\ AtRest("local", storable /\ osTheme = 0)
    /\ AtRest("push", subscription = "none" /\ pushServer.devices = {} /\ permission = "default")

QueryNext ==
    \/ focus = "search" /\ SearchNext /\ UNCHANGED <<newVars, bulkVars>>
    \/ focus = "new"    /\ NewNext    /\ UNCHANGED <<searchVars, bulkVars>>
    \/ focus = "bulk"   /\ BulkNext   /\ UNCHANGED <<searchVars, newVars>>

DeskNext ==
    \/ focus = "dash"   /\ DashNext   /\ UNCHANGED <<roomVars, traceVars, finderVars, feedVars>>
    \/ focus = "rooms"  /\ RoomNext   /\ UNCHANGED <<dashVars, traceVars, finderVars, feedVars>>
    \/ focus = "trace"  /\ TraceNext  /\ UNCHANGED <<dashVars, roomVars, finderVars, feedVars>>
    \/ focus = "finder" /\ FinderNext /\ UNCHANGED <<dashVars, roomVars, traceVars, feedVars>>
    \/ focus = "feed"   /\ FeedNext   /\ UNCHANGED <<dashVars, roomVars, traceVars, finderVars>>

ConfigNext ==
    \/ focus = "fanout"   /\ FanoutNext   /\ UNCHANGED <<radioVars, settingsVars, localVars, pushVars>>
    \/ focus = "radio"    /\ RadioNext    /\ UNCHANGED <<fanoutVars, settingsVars, localVars, pushVars>>
    \/ focus = "settings" /\ SettingsNext /\ UNCHANGED <<fanoutVars, radioVars, localVars, pushVars>>
    \/ focus = "local"    /\ LocalNext    /\ UNCHANGED <<fanoutVars, radioVars, settingsVars, pushVars>>
    \/ focus = "push"     /\ PushNext     /\ UNCHANGED <<fanoutVars, radioVars, settingsVars, localVars>>

PanelsNext ==
    /\ UNCHANGED focus
    /\ \/ QueryNext  /\ UNCHANGED <<deskVars, configVars>>
       \/ DeskNext   /\ UNCHANGED <<queryVars, configVars>>
       \/ ConfigNext /\ UNCHANGED <<queryVars, deskVars>>

PanelsSpec == PanelsInit /\ [][PanelsNext]_<<queryVars, deskVars, configVars, focus>>

(***************************************************************************)
(* Properties of several panels.                                           *)
(***************************************************************************)
\* What is said of a panel, said while that panel is followed.
Of(part, claim) == focus = part => claim

\* Every variable of every panel has its type, the bounds of its caches, lists
\* and counters included.
PanelsTypeOK ==
    /\ Of("search", SearchTypeOK) /\ Of("new", NewTypeOK) /\ Of("bulk", BulkTypeOK)
    /\ Of("dash", DashTypeOK) /\ Of("rooms", RoomTypeOK) /\ Of("trace", TraceTypeOK) /\ Of("finder", FinderTypeOK)
    /\ Of("feed", FeedTypeOK)
    /\ Of("fanout", FanoutTypeOK) /\ Of("radio", RadioTypeOK) /\ Of("settings", SettingsTypeOK)
    /\ Of("local", LocalTypeOK) /\ Of("push", PushTypeOK)

\* No spinner, disabled button or running search outlives what it waits for,
\* in any panel and whichever way its requests end: answered, failed, aborted,
\* late, or with the panel gone (the finally blocks of the handlers).
NothingHangs ==
    /\ Of("search", SearchLoadingEnds) /\ Of("new", CreatingEnds) /\ Of("bulk", BulkDeletingEnds)
    /\ Of("dash", NoOrphanLoading) /\ Of("trace", TraceLoadingEnds) /\ Of("finder", FinderKeepsGoing)
    /\ Of("radio", RadioBusyEnds) /\ Of("settings", SettingsBusyEnds) /\ Of("push", PushLoadingEnds)

\* What is stored is what the panel promises and shows: the integrations'
\* settings, the preferences, the conversations that notify.
StoredAsShown ==
    /\ Of("fanout", StoredAsPromised) /\ Of("local", PreferencesStored) /\ Of("push", NotifyingStored)

\* A result stands under the question it answers: the trace for the path that
\* is drafted, the messages for the query, the statistics for the window that
\* is chosen.
ResultsAnswerQuestion ==
    Of("trace", ResultIsForDraft) /\ Of("search", SearchShowsQuery) /\ Of("feed", FeedTellsTruth)

\* What is done was asked for: the key that is imported, the contacts that are
\* deleted and the conversation that is added were entered or agreed to in
\* that dialog, and a room whose login the user stopped stays logged out.
OnlyAsAsked ==
    /\ Of("radio", KeyNeedsConsent) /\ Of("bulk", DeletesOnlyPicked) /\ Of("new", ClosedFormIsBlank)
    /\ Of("rooms", StoppedRoomWaits)

(***************************************************************************)
(* The inductive invariants of the panels, each its own.                   *)
(***************************************************************************)
PanelsInv ==
    /\ Of("radio", RadioInv) /\ Of("bulk", BulkInv) /\ Of("new", NewInv) /\ Of("rooms", RoomInv)
    /\ Of("dash", DashInv) /\ Of("fanout", FanoutInv) /\ Of("local", LocalInv) /\ Of("push", PushInv)
    /\ Of("search", SearchInv) /\ Of("trace", TraceInv) /\ Of("finder", FinderInv) /\ Of("settings", SettingsInv)
    /\ Of("feed", FeedInv)
================================================================================
