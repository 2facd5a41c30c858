------------------------------- MODULE TracePane -------------------------------
(***************************************************************************)
(* The trace pane: TracePane.tsx.  The user drafts a loop of hops, sends   *)
(* it as a trace, and goes on editing while the trace runs; finished       *)
(* traces are kept in localStorage and can be run again.                   *)
(***************************************************************************)
EXTENDS Integers, Sequences, SequencesExt, Selections

CONSTANTS
    TraceRepeaters,         \* known full-key repeaters, as numbers in order of their names
    HeardAt, DistanceTo,    \* when each was heard, and how far it is (0: unknown)
    RadioLocated,           \* whether the radio has a location
    SearchMatches,          \* the repeaters a search finds
    HopWidths,              \* widths of a custom hop
    MaxRecentTraces, MaxRecentNodes, MaxRendered,  \* the caps of the same names
    MaxDraft, MaxTraceMounts, MaxTraceSteps        \* bounds

\* The dialog of a custom hop starts at a width of one byte.
ASSUME TraceAssumption ==
    /\ HopWidths \subseteq Nat \ {0} /\ 1 \in HopWidths
    /\ MaxRecentTraces \in Nat /\ MaxRecentNodes \in Nat /\ MaxDraft \in Nat /\ MaxTraceMounts \in Nat

VARIABLES
    pane,                   \* the state of the mounted pane
    storedTraces, storedNodes,  \* localStorage
    traceRuns,              \* traces that have not come back
    paneMount, traceSteps

traceVars == <<pane, storedTraces, storedNodes, traceRuns, paneMount, traceSteps>>

\* Hops of the draft and of saved traces; a custom hop has a width.
Repeater(r) == [kind |-> "repeater", key |-> r, bytes |-> 0]
Custom(w)   == [kind |-> "custom", key |-> 0, bytes |-> w]

FirstN(s, n) == IF Len(s) > n THEN SubSeq(s, 1, n) ELSE s

\* saveRecentTrace: newest first, once each.
SaveRecentTrace(hops) ==
    FirstN(<<hops>> \o Picked(storedTraces, {i \in DOMAIN storedTraces : storedTraces[i] # hops}), MaxRecentTraces)

\* repeaterKeysFromHops and saveRecentNodeKeys: the repeaters of this trace, each
\* where it comes first, then those of earlier ones.
RepeaterKeys(hops) ==
    LET first == {i \in DOMAIN hops : /\ hops[i].kind # "custom"
                                      /\ \A j \in 1..(i - 1) : hops[j].kind # "custom" => hops[j].key # hops[i].key}
        repeaters == Picked(hops, first)
    IN  [n \in DOMAIN repeaters |-> repeaters[n].key]
SaveRecentNodes(hops) ==
    LET fresh == RepeaterKeys(hops)
        older == Picked(storedNodes, {i \in DOMAIN storedNodes : storedNodes[i] \notin ToSet(fresh)})
    IN  FirstN(fresh \o older, MaxRecentNodes)

NoDialog == [open |-> FALSE, bytes |-> 1, error |-> FALSE]

\* A pane as it mounts, with the recent traces and nodes it loads.
FreshPane(shown) ==
    [shown |-> shown, draft |-> <<>>, loading |-> FALSE, result |-> <<>>, failed |-> FALSE,
     searching |-> FALSE, sort |-> "alpha", recentOpen |-> FALSE, dialog |-> NoDialog,
     recent |-> storedTraces, nodes |-> storedNodes]

TraceInit ==
    /\ storedTraces = <<>> /\ storedNodes = <<>>
    /\ pane = FreshPane(FALSE)
    /\ traceRuns = {} /\ paneMount = 0 /\ traceSteps = 0

OpenTracePane ==
    /\ ~pane.shown /\ paneMount < MaxTraceMounts
    /\ pane' = FreshPane(TRUE) /\ paneMount' = paneMount + 1
    /\ UNCHANGED <<storedTraces, storedNodes, traceRuns, traceSteps>>

LeaveTracePane ==
    /\ pane.shown /\ pane' = FreshPane(FALSE)
    /\ UNCHANGED <<storedTraces, storedNodes, traceRuns, paneMount, traceSteps>>

TraceUser == pane.shown /\ traceSteps < MaxTraceSteps /\ traceSteps' = traceSteps + 1
StoresUnchanged == UNCHANGED <<storedTraces, storedNodes, paneMount>>

(***************************************************************************)
(* The list of repeaters.                                                  *)
(***************************************************************************)
TracedIndex(r) ==
    IF \E i \in DOMAIN pane.nodes : pane.nodes[i] = r
    THEN CHOOSE i \in DOMAIN pane.nodes : pane.nodes[i] = r ELSE MaxRecentNodes + 1

\* filteredRepeaters: "traced" and "distance" also filter.
Filtered ==
    {r \in (IF pane.searching THEN SearchMatches ELSE TraceRepeaters) :
        CASE pane.sort = "traced" -> TracedIndex(r) <= MaxRecentNodes
          [] pane.sort = "distance" -> RadioLocated => DistanceTo[r] # 0
          [] OTHER -> TRUE}

\* The order of a sort mode; names decide between equals.
SortsBefore(l, r) ==
    LET measure(x) == CASE pane.sort = "traced" -> TracedIndex(x)
                        [] pane.sort = "recent" -> 0 - HeardAt[x]
                        [] pane.sort = "distance" /\ RadioLocated -> DistanceTo[x]
                        [] OTHER -> 0
    IN  measure(l) < measure(r) \/ (measure(l) = measure(r) /\ l < r)

\* MAX_RENDERED_REPEATERS: only the first rows can be clicked.
RenderedNodes == {r \in Filtered : Cardinality({l \in Filtered : SortsBefore(l, r)}) < MaxRendered}

SearchAndSort(searching, mode) ==
    /\ <<searching, mode>> # <<pane.searching, pane.sort>> /\ TraceUser
    /\ pane' = [pane EXCEPT !.searching = searching, !.sort = mode]
    /\ StoresUnchanged /\ UNCHANGED traceRuns

(***************************************************************************)
(* The draft.                                                              *)
(***************************************************************************)
\* clearPendingResult: the run in flight loses its token.
Cleared(p) == [p EXCEPT !.loading = FALSE, !.result = <<>>, !.failed = FALSE]
RunsDropped == {[t EXCEPT !.current = @ /\ t.mount # paneMount] : t \in traceRuns}

MutEdit(draft, p) ==
    /\ TraceUser /\ Len(draft) <= MaxDraft
    /\ pane' = Cleared([p EXCEPT !.draft = draft])
    /\ StoresUnchanged /\ UNCHANGED traceRuns
Edit(draft, p) ==
    /\ TraceUser /\ Len(draft) <= MaxDraft
    /\ pane' = Cleared([p EXCEPT !.draft = draft])
    /\ traceRuns' = RunsDropped /\ StoresUnchanged

HandleAddRepeater(r) == r \in RenderedNodes /\ Edit(Append(pane.draft, Repeater(r)), pane)

\* customHopBytesLocked: the width of the first custom hop binds the others.
Customs(hops) == {i \in DOMAIN hops : hops[i].kind = "custom"}
WidthOf(hops, none) == IF Customs(hops) = {} THEN none ELSE Picked(hops, Customs(hops))[1].bytes
LockedBytes == WidthOf(pane.draft, 0)
EffectiveBytes(draft) == WidthOf(draft, 4)

OpenCustomDialog ==
    /\ ~pane.dialog.open /\ TraceUser
    /\ pane' = [pane EXCEPT !.dialog = [open |-> TRUE, bytes |-> IF LockedBytes # 0 THEN LockedBytes ELSE 1,
                                        error |-> FALSE]]
    /\ StoresUnchanged /\ UNCHANGED traceRuns

ChooseHopWidth(w) ==
    /\ pane.dialog.open /\ LockedBytes \in {0, w} /\ w # pane.dialog.bytes /\ TraceUser
    /\ pane' = [pane EXCEPT !.dialog.bytes = w]
    /\ StoresUnchanged /\ UNCHANGED traceRuns

\* handleAddCustomHop: the digits typed either fill the width or do not.
HandleAddCustomHop(fits) ==
    /\ pane.dialog.open
    /\ IF fits
       THEN Edit(Append(pane.draft, Custom(IF LockedBytes # 0 THEN LockedBytes ELSE pane.dialog.bytes)),
                 [pane EXCEPT !.dialog.open = FALSE])
       ELSE /\ TraceUser /\ pane' = [pane EXCEPT !.dialog.error = TRUE]
            /\ StoresUnchanged /\ UNCHANGED traceRuns

CloseCustomDialog ==
    /\ pane.dialog.open /\ TraceUser /\ pane' = [pane EXCEPT !.dialog.open = FALSE]
    /\ StoresUnchanged /\ UNCHANGED traceRuns

\* The buttons of the row of a hop, and those over the rows.
HopControls(i) ==
    IF i \notin DOMAIN pane.draft THEN {}
    ELSE {"remove"} \cup (IF i = 1 THEN {} ELSE {"up"}) \cup (IF i = Len(pane.draft) THEN {} ELSE {"down"})
DraftControls ==
    (IF pane.draft = <<>> THEN {} ELSE {"clear"}) \cup (IF Len(pane.draft) < 2 THEN {} ELSE {"reverse"})

HandleRemoveHop(i) == "remove" \in HopControls(i) /\ Edit(RemoveAt(pane.draft, i), pane)

\* Up is Down of the hop above.
HandleMoveHop(i) ==
    /\ "down" \in HopControls(i) /\ "up" \in HopControls(i + 1)
    /\ Edit([pane.draft EXCEPT ![i] = pane.draft[i + 1], ![i + 1] = pane.draft[i]], pane)
HandleReverseLink ==
    /\ "reverse" \in DraftControls
    /\ Edit(pane.draft \o Tail(Reverse(pane.draft)), pane)
HandleClear == "clear" \in DraftControls /\ Edit(<<>>, pane)

(***************************************************************************)
(* Running.                                                                *)
(***************************************************************************)
Run(hops) ==
    /\ pane' = [Cleared(pane) EXCEPT !.draft = hops, !.loading = TRUE]
    /\ traceRuns' = RunsDropped \cup
         {[hops |-> hops, bytes |-> EffectiveBytes(hops), current |-> TRUE, mount |-> paneMount]}
    /\ StoresUnchanged

SendOffered == pane.draft # <<>> /\ ~pane.loading
HandleRunTrace == SendOffered /\ TraceUser /\ Run(pane.draft)

ToggleRecent ==
    /\ pane.recent # <<>> /\ TraceUser /\ pane' = [pane EXCEPT !.recentOpen = ~@]
    /\ StoresUnchanged /\ UNCHANGED traceRuns

RecentOffered == IF pane.recentOpen /\ ~pane.loading THEN DOMAIN pane.recent ELSE {}
HandleLoadRecentTrace(i) ==
    /\ i \in RecentOffered /\ TraceUser /\ Run(pane.recent[i])

\* The trace comes back.  A run whose pane is gone still has its token, and is
\* still saved.
TraceReturns(t, ok) ==
    /\ traceRuns' = traceRuns \ {t}
    /\ IF t.current /\ ok
       THEN storedTraces' = SaveRecentTrace(t.hops) /\ storedNodes' = SaveRecentNodes(t.hops)
       ELSE UNCHANGED <<storedTraces, storedNodes>>
    /\ pane' = IF t.current /\ pane.shown /\ t.mount = paneMount
               THEN IF ok THEN [pane EXCEPT !.loading = FALSE, !.result = t.hops,
                                            !.recent = storedTraces', !.nodes = storedNodes']
                    ELSE [pane EXCEPT !.loading = FALSE, !.failed = TRUE]
               ELSE pane
    /\ UNCHANGED <<paneMount, traceSteps>>

ClearResult ==
    /\ pane.result # <<>> \/ pane.failed
    /\ TraceUser /\ pane' = [pane EXCEPT !.result = <<>>, !.failed = FALSE]
    /\ StoresUnchanged /\ UNCHANGED traceRuns

\* The dialog is modal.
TraceNext ==
    \/ OpenTracePane \/ LeaveTracePane
    \/ CloseCustomDialog
    \/ \E w \in HopWidths : ChooseHopWidth(w)
    \/ \E fits \in BOOLEAN : HandleAddCustomHop(fits)
    \/ \E t \in traceRuns, ok \in BOOLEAN : TraceReturns(t, ok)
    \/ /\ ~pane.dialog.open
       /\ \/ OpenCustomDialog \/ ToggleRecent
          \/ \E searching \in BOOLEAN, mode \in {"alpha", "recent", "traced", "distance"} :
                SearchAndSort(searching, mode)
          \/ \E r \in TraceRepeaters : HandleAddRepeater(r)
          \/ \E i \in 1..MaxDraft : HandleRemoveHop(i) \/ HandleMoveHop(i) \/ HandleLoadRecentTrace(i)
          \/ HandleReverseLink \/ HandleClear \/ HandleRunTrace \/ ClearResult

(***************************************************************************)
(* Properties.                                                             *)
(***************************************************************************)
TraceHops == {Repeater(r) : r \in TraceRepeaters} \cup {Custom(w) : w \in HopWidths}
Drafts == {s \in Seq(TraceHops) : Len(s) <= MaxDraft}

TraceTypeOK ==
    /\ pane.draft \in Drafts /\ pane.recent \in Seq(Drafts) /\ pane.nodes \in Seq(TraceRepeaters)
    /\ pane.shown \in BOOLEAN /\ pane.loading \in BOOLEAN /\ pane.failed \in BOOLEAN /\ pane.dialog.bytes \in HopWidths
    /\ storedTraces \in Seq(Drafts) /\ Len(storedTraces) <= MaxRecentTraces
    /\ storedNodes \in Seq(TraceRepeaters) /\ Len(storedNodes) <= MaxRecentNodes
    /\ traceRuns \subseteq [hops : Drafts, bytes : Nat, current : BOOLEAN, mount : 0..paneMount]
    /\ paneMount \in 0..MaxTraceMounts

\* The result shown is that of the hops shown: edits and reruns while a trace is
\* in flight never bring up the answer of another loop; and every loop sent
\* has custom hops of one width, the width it is sent with, whatever was
\* removed, loaded and added before (TracePane.tsx:354, :466).
ResultIsForDraft ==
    /\ pane.result # <<>> => pane.result = pane.draft
    /\ \A t \in traceRuns : \A i \in DOMAIN t.hops : t.hops[i].kind = "custom" => t.hops[i].bytes = t.bytes

\* Tracing... ends: a run with the token is on its way.
TraceLoadingEnds == pane.loading => \E t \in traceRuns : t.current /\ t.mount = paneMount /\ pane.shown

(***************************************************************************)
(* The inductive invariant.  A run with the token of the pane that is      *)
(* shown runs the loop that is drafted there; loops of one width are all   *)
(* that is drafted, sent, stored and loaded.                               *)
(***************************************************************************)
PaneFields == {"shown", "draft", "loading", "result", "failed", "searching", "sort", "recentOpen", "dialog",
               "recent", "nodes"}

OneWidth(hops) == \A i, j \in Customs(hops) : hops[i].bytes = hops[j].bytes

LoopsOfOneWidth ==
    /\ OneWidth(pane.draft)
    /\ \A i \in DOMAIN pane.recent : OneWidth(pane.recent[i])
    /\ \A i \in DOMAIN storedTraces : OneWidth(storedTraces[i])
    /\ \A t \in traceRuns : OneWidth(t.hops)

RunsForDraft == \A t \in traceRuns : t.current /\ t.mount = paneMount /\ pane.shown => t.hops = pane.draft

TraceInv ==
    /\ PaneFields \subseteq DOMAIN pane /\ {"open", "bytes", "error"} \subseteq DOMAIN pane.dialog
    /\ TraceTypeOK /\ LoopsOfOneWidth /\ RunsForDraft /\ ResultIsForDraft /\ TraceLoadingEnds
================================================================================
