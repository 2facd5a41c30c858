--------------------------- MODULE PanelViewsProofs ---------------------------
(***************************************************************************)
(* Proofs about PanelViews.  Each panel keeps an invariant of its own,     *)
(* inductive without the others, because the panels share no state; the    *)
(* followed panel makes its steps and the others none.                     *)
(***************************************************************************)
EXTENDS PanelViews, ListPanelsProofs, FormPanelsProofs

-----------------------------------------------------------------------------
(* The panels together                                                      *)

LEMMA PanelsStart ==
    ASSUME PanelsInit
    PROVE  PanelsInv
BY NewStarts, BulkStarts, RadioStarts, RoomStarts, FanoutStarts, LocalStarts, PushBegins,
   SearchStarts, TraceStarts, FinderStarts, SettingsStarts, DashStarts, FeedStarts
DEF PanelsInit, PanelsInv, Of

LEMMA PanelsStep ==
    ASSUME PanelsInv, [PanelsNext]_<<queryVars, deskVars, configVars, focus>>
    PROVE  PanelsInv'
<1>1. /\ focus' = focus
      /\ [NewNext]_newVars /\ [BulkNext]_bulkVars /\ [RadioNext]_radioVars /\ [RoomNext]_roomVars
      /\ [FanoutNext]_fanoutVars /\ [LocalNext]_localVars /\ [PushNext]_pushVars
      /\ [SearchNext]_searchVars /\ [TraceNext]_traceVars /\ [FinderNext]_finderVars
      /\ [SettingsNext]_settingsVars /\ [DashNext]_dashVars /\ [FeedNext]_feedVars
  BY DEF PanelsNext, QueryNext, DeskNext, ConfigNext, queryVars, deskVars, configVars
<1>2. /\ focus = "new" => NewInv'
      /\ focus = "bulk" => BulkInv'
      /\ focus = "radio" => RadioInv'
      /\ focus = "rooms" => RoomInv'
      /\ focus = "fanout" => FanoutInv'
      /\ focus = "local" => LocalInv'
      /\ focus = "push" => PushInv'
      /\ focus = "search" => SearchInv'
      /\ focus = "trace" => TraceInv'
      /\ focus = "finder" => FinderInv'
      /\ focus = "settings" => SettingsInv'
      /\ focus = "dash" => DashInv'
      /\ focus = "feed" => FeedInv'
  BY <1>1, FeedStep, SearchStep, TraceStep, FinderStep, SettingsStep, DashStep,
     NewStep, BulkStep, RadioStep, RoomStep, FanoutStep, LocalStepKeeps, PushStep DEF PanelsInv, Of
<1> QED
  BY <1>1, <1>2 DEF PanelsInv, Of

(* The inductive invariants of the panels hold in every reachable state,    *)
(* for any contacts, rooms, radios, files and bounds.                       *)
THEOREM PanelsInvariance == PanelsSpec => []PanelsInv
BY PanelsStart, PanelsStep, PTL DEF PanelsSpec

(* What is done was asked for: a key is imported only after the user agreed *)
(* to that key, the contacts deleted were picked in the dialog, the form of *)
(* a closed dialog keeps nothing for the next, and a room whose login was   *)
(* stopped or refused stays at its form (SettingsRadioSection.tsx,          *)
(* BulkDeleteContactsModal.tsx, NewMessageModal.tsx, RoomServerPanel.tsx).  *)
THEOREM DoneAsAsked == PanelsSpec => []OnlyAsAsked
<1>1. PanelsInv => OnlyAsAsked
  BY DEF PanelsInv, OnlyAsAsked, Of, RadioInv, BulkInv, NewInv, RoomInv
<1> QED
  BY <1>1, PanelsInvariance, PTL

(* What is stored is what was promised and what is shown: a community       *)
(* integration shares no messages and a broker has a port that is a number, *)
(* whatever drafts, edits and late answers led to it; the preferences a     *)
(* reload would find are those shown as chosen; a conversation the client   *)
(* shows as notifying is one it has stored so (SettingsFanoutSection.tsx,   *)
(* SettingsLocalSection.tsx, useBrowserNotifications.ts).                   *)
THEOREM StorageKept == PanelsSpec => []StoredAsShown
<1>1. FanoutInv => StoredAsPromised
  BY KnownIs DEF FanoutInv, RowsSound, Sound, StoredAsPromised
<1>2. PanelsInv => StoredAsShown
  BY <1>1 DEF PanelsInv, StoredAsShown, Of, LocalInv, PushInv
<1> QED
  BY <1>2, PanelsInvariance, PTL

(* Nothing hangs: a spinner, a disabled button or a search that runs has    *)
(* its request, its timer or its timeout still ahead of it, for any number  *)
(* of panes, retries, messages, contacts, settings and calls, whichever way *)
(* the requests end and whatever panel is left and opened again meanwhile   *)
(* (the finally blocks and guards of useRepeaterDashboard.ts, TracePane.tsx,*)
(* SearchView.tsx, CrackerPanel.tsx, useAppSettings.ts, NewMessageModal.tsx,*)
(* SettingsRadioSection.tsx, BulkDeleteContactsModal.tsx and                *)
(* usePushSubscription.ts).                                                 *)
THEOREM NothingLeftHanging == PanelsSpec => []NothingHangs
<1>1. PanelsInv => /\ Of("search", SearchLoadingEnds) /\ Of("trace", TraceLoadingEnds)
                   /\ Of("finder", FinderKeepsGoing) /\ Of("settings", SettingsBusyEnds)
  BY FinderGoesOn, SettingsBusy DEF PanelsInv, Of, SearchInv, TraceInv, FinderInv
<1>2. PanelsInv => /\ Of("new", CreatingEnds) /\ Of("bulk", BulkDeletingEnds) /\ Of("radio", RadioBusyEnds)
                   /\ Of("push", PushLoadingEnds) /\ Of("dash", NoOrphanLoading)
  BY DEF PanelsInv, Of, NewInv, BulkInv, RadioInv, PushInv, DashInv
<1>3. PanelsInv => NothingHangs
  BY <1>1, <1>2 DEF NothingHangs
<1> QED
  BY <1>3, PanelsInvariance, PTL

(* A result stands under the question it answers: the messages found are a  *)
(* gap-free run of those that match the query, whatever pages, late answers *)
(* and arriving messages they come from; the trace is of the hops that are  *)
(* drafted; every chart of the packet feed counts each packet of its window *)
(* once, a window said to be covered counts every packet that was sent, and *)
(* no neighbour is counted twice or left out (SearchView.tsx, TracePane.tsx,*)
(* rawPacketStore.ts, rawPacketStats.ts, RawPacketFeedView.tsx).            *)
THEOREM AnswersFit == PanelsSpec => []ResultsAnswerQuestion
<1>1. TraceInv => ResultIsForDraft
  BY DEF TraceInv
<1>2. PanelsInv => ResultsAnswerQuestion
  BY <1>1, SearchShows, FeedTells DEF PanelsInv, ResultsAnswerQuestion, Of
<1> QED
  BY <1>2, PanelsInvariance, PTL

(* Every variable of every panel has its type, and the lists, caches and    *)
(* counters keep to their bounds, whatever these are.                       *)
THEOREM PanelTypes == PanelsSpec => []PanelsTypeOK
<1>1. PanelsInv => /\ Of("finder", FinderTypeOK) /\ Of("settings", SettingsTypeOK)
                   /\ Of("fanout", FanoutTypeOK) /\ Of("feed", FeedTypeOK)
  BY FinderTypes, SettingsTypes, FanoutTypes, FeedTypes DEF PanelsInv, Of
<1>2. PanelsInv => /\ Of("search", SearchTypeOK) /\ Of("new", NewTypeOK) /\ Of("bulk", BulkTypeOK)
                   /\ Of("dash", DashTypeOK) /\ Of("rooms", RoomTypeOK) /\ Of("trace", TraceTypeOK)
  BY DEF PanelsInv, Of, SearchInv, SearchShapes, NewInv, BulkInv, DashInv, RoomInv, TraceInv
<1>3. PanelsInv => Of("radio", RadioTypeOK) /\ Of("local", LocalTypeOK) /\ Of("push", PushTypeOK)
  BY DEF PanelsInv, Of, RadioInv, LocalInv, PushInv
<1>4. PanelsInv => PanelsTypeOK
  BY <1>1, <1>2, <1>3 DEF PanelsTypeOK
<1> QED
  BY <1>4, PanelsInvariance, PTL
===============================================================================
