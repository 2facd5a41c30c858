---------------------------- MODULE ServerDashboards ----------------------------
(***************************************************************************)
(* The dashboards of repeaters: useRepeaterDashboard.ts with               *)
(* RepeaterDashboard.tsx, its login form, its console and actions, and the *)
(* passwords of useRememberedServerPassword.ts.                            *)
(*                                                                         *)
(* One dashboard is mounted at a time; each mount is an instance with its  *)
(* own state, started from a cache that outlives it.  What an instance     *)
(* awaits (a login, a pane with its retries, a command) goes on after the  *)
(* user has left, and comes back to an instance that is gone.              *)
(***************************************************************************)
EXTENDS Integers, Sequences

CONSTANTS
    Repeaters,      \* the repeaters
    PaneOrder,      \* the panes in the order of loadAll
    HasLocation,    \* the repeaters whose adverts carry a location
    MaxRetries,     \* MAX_RETRIES
    MaxCached,      \* MAX_CACHED_REPEATERS
    MaxMounts, MaxDashSteps \* bounds on mounts and on what the user does in them

VARIABLES
    shownRepeater, mount,   \* the dashboard mounted, and which mount it is
    dash,                   \* its state
    dashCache, dashOrder,   \* repeaterDashboardCache and its order of insertion
    remembered,             \* passwords in memory and in localStorage
    dashTasks,              \* what was started and has not returned
    dashSteps

dashVars == <<shownRepeater, mount, dash, dashCache, dashOrder, remembered, dashTasks, dashSteps>>

PaneNames == {PaneOrder[i] : i \in DOMAIN PaneOrder}
NoServer  == "none"

\* "none" stands for no dashboard; there are panes, and a first attempt.
ASSUME DashAssumption ==
    /\ NoServer \notin Repeaters /\ PaneOrder \in Seq(PaneNames) \ {<<>>}
    /\ {MaxRetries, MaxCached} \subseteq Nat \ {0} /\ MaxMounts \in Nat

PaneState == [loading : BOOLEAN, attempt : 0..MaxRetries, error : BOOLEAN, fetched : BOOLEAN]

InitialPaneState == [loading |-> FALSE, attempt |-> 0, error |-> FALSE, fetched |-> FALSE]
InitialEntry ==
    [loggedIn |-> FALSE, attempt |-> "none", panes |-> [p \in PaneNames |-> InitialPaneState], console |-> 0]

\* normalizePaneStates: nothing read from the cache is loading.
MutNormalizePaneStates(panes) == panes
NormalizePaneStates(panes) == [p \in PaneNames |-> [panes[p] EXCEPT !.loading = FALSE]]

\* getCachedState.
CachedState(k) ==
    IF k \notin DOMAIN dashCache THEN InitialEntry
    ELSE [dashCache[k] EXCEPT !.panes = NormalizePaneStates(@)]

\* cacheState of the first render puts the entry last, and the oldest goes when
\* there are too many; later renders only rewrite it, so the cache is brought
\* up to date (Saved) when the instance goes.
Entry == [loggedIn |-> dash.loggedIn, attempt |-> dash.attempt,
          panes |-> NormalizePaneStates(dash.panes), console |-> dash.console]
Saved == IF shownRepeater = NoServer THEN dashCache ELSE [dashCache EXCEPT ![shownRepeater] = Entry]
DashOrderWithout(k) ==
    IF \E i \in DOMAIN dashOrder : dashOrder[i] = k
    THEN LET at == CHOOSE i \in DOMAIN dashOrder : dashOrder[i] = k
         IN  [i \in 1..(Len(dashOrder) - 1) |-> dashOrder[IF i < at THEN i ELSE i + 1]]
    ELSE dashOrder
CacheState(k) ==
    LET order == Append(DashOrderWithout(k), k)
        kept  == IF Len(order) > MaxCached THEN Tail(order) ELSE order
    IN  /\ dashOrder' = kept
        /\ dashCache' = [j \in {kept[i] : i \in DOMAIN kept} |-> IF j = k THEN CachedState(k) ELSE Saved[j]]

DashUser == shownRepeater # NoServer /\ dashSteps < MaxDashSteps /\ dashSteps' = dashSteps + 1

(***************************************************************************)
(* Passwords.                                                              *)
(***************************************************************************)
\* loadInitialPassword: what the device stores, or what this page remembers.
LoadInitialPassword(k) ==
    IF remembered[k].disk THEN [password |-> TRUE, remember |-> TRUE]
    ELSE [password |-> remembered[k].memory, remember |-> FALSE]

\* persistAfterLogin, with the choice the form had when it was submitted.
PersistAfterLogin(k, password, remember) ==
    IF password THEN [remembered EXCEPT ![k] = [memory |-> TRUE, disk |-> remember]] ELSE remembered

(***************************************************************************)
(* Mounting.                                                               *)
(***************************************************************************)
\* The state of a fresh instance: the telemetry history is the live one when
\* the cached status has it, and otherwise asked for once logged in.
Mounted(k) ==
    LET cached == CachedState(k) IN
    [loggedIn |-> cached.loggedIn, attempt |-> cached.attempt, panes |-> cached.panes,
     console |-> cached.console, loginLoading |-> FALSE, consoleLoading |-> FALSE, confirmReboot |-> FALSE,
     password |-> LoadInitialPassword(k).password, remember |-> LoadInitialPassword(k).remember,
     source |-> IF "status" \in PaneNames /\ cached.panes["status"].fetched THEN "live" ELSE "none"]

Task(kind) == [kind |-> kind, mount |-> mount, key |-> shownRepeater, pane |-> "", attempt |-> 0,
               waiting |-> FALSE, prefetch |-> FALSE, todo |-> <<>>,
               password |-> FALSE, remember |-> FALSE]
HistoryTask(m, k) == [Task("history") EXCEPT !.mount = m, !.key = k]

\* Nothing is mounted.
Unmounted ==
    [loggedIn |-> FALSE, attempt |-> "none", panes |-> [p \in PaneNames |-> InitialPaneState],
     console |-> 0, loginLoading |-> FALSE, consoleLoading |-> FALSE, confirmReboot |-> FALSE,
     password |-> FALSE, remember |-> FALSE, source |-> "none"]

DashInit ==
    /\ shownRepeater = NoServer /\ mount = 0
    /\ dash = Unmounted
    /\ dashCache = [k \in {} |-> InitialEntry] /\ dashOrder = <<>>
    /\ remembered = [k \in Repeaters |-> [memory |-> FALSE, disk |-> FALSE]]
    /\ dashTasks = {} /\ dashSteps = 0

\* A dashboard is opened, from the command palette with the login and the load
\* of all panes it then starts by itself.
OpenDashboard(k, auto) ==
    /\ shownRepeater # k /\ mount < MaxMounts /\ (auto => dashSteps < MaxDashSteps)
    /\ shownRepeater' = k /\ mount' = mount + 1
    /\ dash' = [Mounted(k) EXCEPT !.loginLoading = auto]
    /\ CacheState(k)
    /\ dashTasks' = dashTasks
         \cup (IF Mounted(k).loggedIn THEN {HistoryTask(mount + 1, k)} ELSE {})
         \cup (IF auto THEN {[Task("login") EXCEPT !.mount = mount + 1, !.key = k, !.todo = PaneOrder]} ELSE {})
    /\ dashSteps' = IF auto THEN dashSteps + 1 ELSE dashSteps
    /\ UNCHANGED remembered

CloseDashboard ==
    /\ shownRepeater # NoServer
    /\ dashCache' = Saved
    /\ shownRepeater' = NoServer /\ dash' = Unmounted
    /\ UNCHANGED <<dashOrder, mount, remembered, dashTasks, dashSteps>>

\* A task of a mount that is gone sets no state.
Heard(t) == shownRepeater # NoServer /\ t.mount = mount

(***************************************************************************)
(* Login.                                                                  *)
(***************************************************************************)
\* What the login form offers, and the status banner above the panes.
FormControls == IF dash.loginLoading THEN {} ELSE {"password", "guest", "type"}
BannerControls ==
    IF dash.attempt = "confirmed" THEN {}
    ELSE {"reenter"} \cup (IF dash.loginLoading THEN {} ELSE {"guest"})
                    \cup (IF dash.loginLoading \/ ~dash.password THEN {} ELSE {"password"})
LoginControls ==
    IF shownRepeater = NoServer THEN {} ELSE IF dash.loggedIn THEN BannerControls ELSE FormControls

TypePassword(typed, remember) ==
    /\ "type" \in LoginControls /\ <<typed, remember>> # <<dash.password, dash.remember>>
    /\ DashUser
    /\ dash' = [dash EXCEPT !.password = typed, !.remember = remember]
    /\ UNCHANGED <<shownRepeater, mount, dashCache, dashOrder, remembered, dashTasks>>

Login(how) ==
    /\ how \in LoginControls \cap {"password", "guest"}
    /\ DashUser
    /\ dash' = [dash EXCEPT !.loginLoading = TRUE]
    /\ dashTasks' = dashTasks \cup
         {[Task("login") EXCEPT !.password = how = "password" /\ dash.password, !.remember = dash.remember]}
    /\ UNCHANGED <<shownRepeater, mount, dashCache, dashOrder, remembered>>

\* buildServerLoginAttemptFromResponse and ...FromError.
LoginOutcomes == {"confirmed", "not_confirmed", "request_failed"}

\* The dashboard opens whatever the outcome; a changed login asks for the
\* telemetry history again.
LoggedIn(outcome) ==
    [dash EXCEPT !.loggedIn = TRUE, !.loginLoading = FALSE, !.attempt = outcome,
                 !.source = IF dash.loggedIn THEN @ ELSE "none"]

LoginReturns(t, outcome) ==
    /\ t.kind = "login"
    /\ dash' = IF Heard(t) THEN LoggedIn(outcome) ELSE dash
    /\ remembered' = PersistAfterLogin(t.key, t.password, t.remember)
    /\ dashTasks' = (dashTasks \ {t})
         \cup (IF Heard(t) /\ ~dash.loggedIn THEN {HistoryTask(mount, t.key)} ELSE {})
         \cup (IF t.todo # <<>> THEN {[t EXCEPT !.kind = "load"]} ELSE {})
    /\ UNCHANGED <<shownRepeater, mount, dashCache, dashOrder, dashSteps>>

\* handleReenterPassword: the password is forgotten and the form shown.
HandleReenterPassword ==
    /\ "reenter" \in LoginControls /\ DashUser
    /\ remembered' = [remembered EXCEPT ![shownRepeater] = [memory |-> FALSE, disk |-> FALSE]]
    /\ dash' = [dash EXCEPT !.loggedIn = FALSE, !.attempt = "none", !.password = FALSE,
                            !.remember = FALSE, !.source = "none"]
    /\ UNCHANGED <<shownRepeater, mount, dashCache, dashOrder, dashTasks>>

\* The stored telemetry history arrives; a live one is not replaced.
HistoryArrives(t) ==
    /\ t.kind = "history" /\ dashTasks' = dashTasks \ {t}
    /\ dash' = IF Heard(t) /\ dash.loggedIn /\ dash.source # "live"
               THEN [dash EXCEPT !.source = "preload"] ELSE dash
    /\ UNCHANGED <<shownRepeater, mount, dashCache, dashOrder, remembered, dashSteps>>

(***************************************************************************)
(* Panes.                                                                  *)
(***************************************************************************)
AnyLoading == \E p \in PaneNames : dash.panes[p].loading

\* A pane's refresh button, and Load All, are off while any pane loads.
RefreshOffered(p) == p \in PaneNames /\ ~dash.panes[p].loading
LoadAllOffered == dash.loggedIn /\ ~AnyLoading
PaneControls == IF shownRepeater = NoServer \/ ~dash.loggedIn \/ AnyLoading THEN {}
                ELSE {p \in PaneNames : RefreshOffered(p)} \cup (IF LoadAllOffered THEN {"all"} ELSE {})

\* The neighbors are placed on a map: without a location of the repeater its
\* node info is fetched first.
NeedsNodeInfo(panes, p) ==
    /\ p = "neighbors" /\ shownRepeater \notin HasLocation /\ "nodeInfo" \in PaneNames
    /\ panes["nodeInfo"].error \/ ~panes["nodeInfo"].fetched

\* refreshPane for the first of the panes left: an attempt begins, of the pane
\* or of the node info it waits for.
Begun(t, panes) ==
    IF ~t.prefetch /\ NeedsNodeInfo(panes, Head(t.todo))
    THEN [t EXCEPT !.kind = "pane", !.pane = "nodeInfo", !.attempt = 1, !.waiting = FALSE, !.prefetch = TRUE]
    ELSE [t EXCEPT !.kind = "pane", !.pane = Head(t.todo), !.attempt = 1, !.waiting = FALSE,
                   !.prefetch = FALSE, !.todo = Tail(t.todo)]
Trying(state, n) == [state EXCEPT !.loading = TRUE, !.attempt = n, !.error = FALSE]
Attempting(p, n) == [dash EXCEPT !.panes[p] = Trying(@, n)]

RefreshPane(p) ==
    /\ p \in PaneControls /\ DashUser
    /\ LET t == Begun([Task("pane") EXCEPT !.todo = IF p = "all" THEN PaneOrder ELSE <<p>>], dash.panes)
       IN  dashTasks' = dashTasks \cup {t} /\ dash' = Attempting(t.pane, 1)
    /\ UNCHANGED <<shownRepeater, mount, dashCache, dashOrder, remembered>>

\* Load All of the palette's login begins, if the dashboard is still there.
LoadBegins(t) ==
    /\ t.kind = "load"
    /\ IF Heard(t)
       THEN LET b == Begun(t, dash.panes)
            IN  dashTasks' = (dashTasks \ {t}) \cup {b} /\ dash' = Attempting(b.pane, 1)
       ELSE dashTasks' = dashTasks \ {t} /\ UNCHANGED dash
    /\ UNCHANGED <<shownRepeater, mount, dashCache, dashOrder, remembered, dashSteps>>

\* The pane ends and the next one begins.
PaneEnds(t, panes, source) ==
    LET done == [dash EXCEPT !.panes = panes, !.source = source]
    IN  IF t.todo = <<>>
        THEN dashTasks' = dashTasks \ {t} /\ dash' = done
        ELSE LET b == Begun(t, panes)
             IN  /\ dashTasks' = (dashTasks \ {t}) \cup {b}
                 /\ dash' = [done EXCEPT !.panes[b.pane] = Trying(@, 1)]

\* The answer of an attempt: success, an error the server stands by, or a
\* failure that is tried again while attempts are left.
PaneReturns(t, result) ==
    /\ t.kind = "pane" /\ ~t.waiting
    /\ IF ~Heard(t) THEN dashTasks' = dashTasks \ {t} /\ UNCHANGED dash
       ELSE IF result = "ok"
       THEN PaneEnds(t, [dash.panes EXCEPT ![t.pane] =
                           [loading |-> FALSE, attempt |-> t.attempt, error |-> FALSE, fetched |-> TRUE]],
                     IF t.pane = "status" THEN "live" ELSE dash.source)
       ELSE IF result = "4xx" \/ t.attempt = MaxRetries
       THEN PaneEnds(t, [dash.panes EXCEPT ![t.pane] = [@ EXCEPT !.loading = FALSE, !.attempt = t.attempt,
                                                                 !.error = TRUE]], dash.source)
       ELSE dashTasks' = (dashTasks \ {t}) \cup {[t EXCEPT !.waiting = TRUE]} /\ UNCHANGED dash
    /\ UNCHANGED <<shownRepeater, mount, dashCache, dashOrder, remembered, dashSteps>>

\* RETRY_DELAY_MS later.
RetryTimer(t) ==
    /\ t.kind = "pane" /\ t.waiting
    /\ IF Heard(t)
       THEN /\ dashTasks' = (dashTasks \ {t}) \cup {[t EXCEPT !.waiting = FALSE, !.attempt = @ + 1]}
            /\ dash' = Attempting(t.pane, t.attempt + 1)
       ELSE dashTasks' = dashTasks \ {t} /\ UNCHANGED dash
    /\ UNCHANGED <<shownRepeater, mount, dashCache, dashOrder, remembered, dashSteps>>

(***************************************************************************)
(* Console and actions.                                                    *)
(***************************************************************************)
ConsoleControls == IF shownRepeater = NoServer \/ ~dash.loggedIn \/ dash.consoleLoading THEN {}
                   ELSE {"send", "advert", "clock", "reboot"}

\* sendConsoleCommand, which the actions use too; the first click on Reboot
\* only asks for confirmation.
SendConsoleCommand(c) ==
    /\ c \in ConsoleControls /\ DashUser
    /\ IF c = "reboot" /\ ~dash.confirmReboot
       THEN dash' = [dash EXCEPT !.confirmReboot = TRUE] /\ UNCHANGED dashTasks
       ELSE /\ dash' = [dash EXCEPT !.consoleLoading = TRUE, !.console = @ + 1,
                                    !.confirmReboot = @ /\ c # "reboot"]
            /\ dashTasks' = dashTasks \cup {Task("command")}
    /\ UNCHANGED <<shownRepeater, mount, dashCache, dashOrder, remembered>>

ConfirmationExpires ==
    /\ shownRepeater # NoServer /\ dash.confirmReboot
    /\ dash' = [dash EXCEPT !.confirmReboot = FALSE]
    /\ UNCHANGED <<shownRepeater, mount, dashCache, dashOrder, remembered, dashTasks, dashSteps>>

CommandReturns(t) ==
    /\ t.kind = "command" /\ dashTasks' = dashTasks \ {t}
    /\ dash' = IF Heard(t) THEN [dash EXCEPT !.consoleLoading = FALSE, !.console = @ + 1] ELSE dash
    /\ UNCHANGED <<shownRepeater, mount, dashCache, dashOrder, remembered, dashSteps>>

DashNext ==
    \/ \E k \in Repeaters, auto \in BOOLEAN : OpenDashboard(k, auto)
    \/ CloseDashboard \/ HandleReenterPassword \/ ConfirmationExpires
    \/ \E typed, remember \in BOOLEAN : TypePassword(typed, remember)
    \/ \E how \in {"password", "guest"} : Login(how)
    \/ \E p \in PaneNames \cup {"all"} : RefreshPane(p)
    \/ \E c \in {"send", "advert", "clock", "reboot"} : SendConsoleCommand(c)
    \/ \E t \in dashTasks :
          \/ \E o \in LoginOutcomes : LoginReturns(t, o)
          \/ \E r \in {"ok", "4xx", "fail"} : PaneReturns(t, r)
          \/ HistoryArrives(t) \/ LoadBegins(t) \/ RetryTimer(t) \/ CommandReturns(t)

(***************************************************************************)
(* Properties.                                                             *)
(***************************************************************************)
DashTypeOK ==
    /\ shownRepeater \in Repeaters \cup {NoServer} /\ mount \in 0..MaxMounts
    /\ dash.panes \in [PaneNames -> PaneState] /\ dash.console \in Nat
    /\ dash.attempt \in LoginOutcomes \cup {"none"} /\ dash.source \in {"none", "preload", "live"}
    /\ DOMAIN dashCache = {dashOrder[i] : i \in DOMAIN dashOrder} /\ Len(dashOrder) <= MaxCached
    /\ remembered \in [Repeaters -> [memory : BOOLEAN, disk : BOOLEAN]]

\* Whatever a mounted dashboard shows as loading is being worked on for this
\* very mount, and so ends: leaving during a fetch, a retry's delay, a login or
\* a command and coming back never leaves a spinner that nobody stops, nor the
\* buttons it disables (useRepeaterDashboard.ts:100, :343).
NoOrphanLoading ==
    shownRepeater # NoServer =>
        /\ \A p \in PaneNames : dash.panes[p].loading =>
              \E t \in dashTasks : Heard(t) /\ t.kind = "pane" /\ t.pane = p
        /\ dash.loginLoading => \E t \in dashTasks : Heard(t) /\ t.kind = "login"
        /\ dash.consoleLoading => \E t \in dashTasks : Heard(t) /\ t.kind = "command"

(***************************************************************************)
(* The invariant that NoOrphanLoading needs: what is shown, cached and in  *)
(* flight has its type; a pane is tried again only while attempts are left *)
(* and a load has panes left, so whatever goes on loading has its task.    *)
(***************************************************************************)
DashEntries == [loggedIn : BOOLEAN, attempt : LoginOutcomes \cup {"none"}, panes : [PaneNames -> PaneState],
                console : Nat]
DashStates == [loggedIn : BOOLEAN, attempt : LoginOutcomes \cup {"none"}, panes : [PaneNames -> PaneState],
               console : Nat, loginLoading : BOOLEAN, consoleLoading : BOOLEAN, confirmReboot : BOOLEAN,
               password : BOOLEAN, remember : BOOLEAN, source : {"none", "preload", "live"}]
DashWork == [kind : {"login", "load", "pane", "history", "command"}, mount : Nat, key : Repeaters,
             pane : PaneNames \cup {""}, attempt : 0..MaxRetries, waiting : BOOLEAN, prefetch : BOOLEAN,
             todo : Seq(PaneNames), password : BOOLEAN, remember : BOOLEAN]

DashTyped ==
    /\ dash \in DashStates /\ dashOrder \in Seq(Repeaters)
    /\ dashCache \in [DOMAIN dashCache -> DashEntries]
DashWorkSound ==
    \A t \in dashTasks :
       /\ t \in DashWork /\ (t.kind = "load" => t.todo # <<>>)
       /\ t.kind = "pane" => t.pane \in PaneNames /\ (t.waiting => t.attempt < MaxRetries)

DashInv == DashTypeOK /\ NoOrphanLoading /\ DashTyped /\ DashWorkSound
================================================================================
