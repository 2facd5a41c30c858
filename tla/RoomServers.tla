------------------------------ MODULE RoomServers ------------------------------
(***************************************************************************)
(* The panel of a room server: RoomServerPanel.tsx.                        *)
(*                                                                         *)
(* A room logs in by itself when it is opened, unless it was left at the   *)
(* login form; a login may be cancelled, but its request cannot, and a     *)
(* post from the room confirms a login whose answer was lost.  One panel   *)
(* is mounted at a time; answers come back to mounts that are gone.        *)
(***************************************************************************)
EXTENDS Integers, Sequences

CONSTANTS
    Rooms, RoomPanes,        \* the rooms; the panes of the tools sheet
    MaxCachedRooms,          \* MAX_CACHED_ROOMS
    MaxRoomMounts, MaxRoomSteps   \* bounds on mounts, and on what users and the mesh do

\* "none" stands for no room.
ASSUME RoomAssumption == "none" \notin Rooms /\ {MaxCachedRooms, MaxRoomMounts} \subseteq Nat \ {0}

VARIABLES
    roomShown, roomMount,    \* the panel mounted, and which mount it is
    room,                    \* its state
    roomCache, roomOrder,    \* roomCache and its order
    lastSync,                \* the sync times of localStorage
    roomPasswords,           \* passwords in memory and in localStorage
    roomTasks,               \* requests in flight
    stopped,                 \* rooms whose last login was cancelled or refused
    roomSteps

roomVars == <<roomShown, roomMount, room, roomCache, roomOrder, lastSync, roomPasswords, roomTasks,
              stopped, roomSteps>>

NoRoom == "none"
Idle == [loading |-> FALSE, error |-> FALSE, fetched |-> FALSE]
InitialRoom == [authenticated |-> FALSE, attempt |-> "none", heard |-> FALSE, error |-> FALSE,
                panes |-> [p \in RoomPanes |-> Idle]]

RoomUser == roomSteps < MaxRoomSteps /\ roomSteps' = roomSteps + 1

\* What a mounted panel keeps beyond what it caches.
Panel(entry, password, remember) ==
    [kept |-> entry, loginLoading |-> FALSE, tools |-> FALSE,
     consoleLoading |-> FALSE, password |-> password, remember |-> remember]

\* getCachedRoom, and what a room starts from: once synced it opens to chat.
OpensWith(k) ==
    IF k \in DOMAIN roomCache
    THEN [roomCache[k] EXCEPT !.panes = [p \in RoomPanes |-> [@[p] EXCEPT !.loading = FALSE]]]
    ELSE [InitialRoom EXCEPT !.authenticated = lastSync[k] # "none"]

\* setCachedRoom: of the first render (the oldest entry may go), and of the
\* last one of a mount.
SavedRooms == IF roomShown = NoRoom THEN roomCache ELSE [roomCache EXCEPT ![roomShown] = room.kept]
OrderWithout(k) ==
    IF \E i \in DOMAIN roomOrder : roomOrder[i] = k
    THEN LET at == CHOOSE i \in DOMAIN roomOrder : roomOrder[i] = k
         IN  [i \in 1..(Len(roomOrder) - 1) |-> roomOrder[IF i < at THEN i ELSE i + 1]]
    ELSE roomOrder

MutCacheRoom(k, entry) ==
    LET left == Append(OrderWithout(k), k)
    IN  /\ roomOrder' = left
        /\ roomCache' = [j \in {left[i] : i \in DOMAIN left} |-> IF j = k THEN entry ELSE SavedRooms[j]]

CacheRoom(k, entry) ==
    LET order == Append(OrderWithout(k), k)
        left  == IF Len(order) > MaxCachedRooms THEN Tail(order) ELSE order
    IN  /\ roomOrder' = left
        /\ roomCache' = [j \in {left[i] : i \in DOMAIN left} |-> IF j = k THEN entry ELSE SavedRooms[j]]

Unconfirmed(entry) == entry.attempt \notin {"none", "confirmed"}

\* A post at or after an unconfirmed attempt proves that the login landed.
PostConfirms(entry) ==
    IF Unconfirmed(entry) /\ entry.heard THEN [entry EXCEPT !.attempt = "confirmed", !.error = FALSE] ELSE entry
SyncAfter(k, entry) ==
    IF Unconfirmed(entry) /\ entry.heard THEN [lastSync EXCEPT ![k] = "fresh"] ELSE lastSync

RoomTask(kind, what) ==
    [kind |-> kind, what |-> what, mount |-> roomMount, key |-> roomShown,
     current |-> TRUE, heard |-> FALSE, persist |-> FALSE, remember |-> FALSE]

NoPanel == Panel(InitialRoom, FALSE, FALSE)

RoomInit ==
    /\ roomShown = NoRoom /\ roomMount = 0 /\ room = NoPanel
    /\ roomCache = [k \in {} |-> InitialRoom] /\ roomOrder = <<>>
    /\ lastSync \in {[k \in Rooms |-> s] : s \in {"none", "fresh"}}
    /\ roomPasswords = [k \in Rooms |-> [memory |-> FALSE, disk |-> FALSE]]
    /\ roomTasks = {} /\ stopped = {} /\ roomSteps = 0

\* autoSyncFiredRef: a room left at the form waits for the user, a recent sync
\* is enough.
AutoSyncs(k) ==
    /\ ~(k \in DOMAIN roomCache /\ ~roomCache[k].authenticated)
    /\ lastSync[k] # "fresh"

OpenRoom(k) ==
    /\ k # roomShown /\ roomMount < MaxRoomMounts
    /\ LET entry == OpensWith(k)
           stored == roomPasswords[k].memory \/ roomPasswords[k].disk
           panel == Panel(PostConfirms(entry), stored, roomPasswords[k].disk)
       IN  /\ room' = IF AutoSyncs(k)
                      THEN [panel EXCEPT !.loginLoading = TRUE, !.kept.error = FALSE] ELSE panel
           /\ CacheRoom(k, PostConfirms(entry))
           /\ lastSync' = SyncAfter(k, entry)
           /\ roomTasks' = roomTasks \cup
                (IF AutoSyncs(k)
                 THEN {[RoomTask("login", "") EXCEPT !.mount = roomMount + 1, !.key = k]} ELSE {})
    /\ roomShown' = k /\ roomMount' = roomMount + 1
    \* A room that fell out of the cache is forgotten.
    /\ stopped' = stopped \cap (DOMAIN roomCache' \ (IF k \in DOMAIN roomCache THEN {} ELSE {k}))
    /\ UNCHANGED <<roomPasswords, roomSteps>>

CloseRoom ==
    /\ roomShown # NoRoom
    /\ roomCache' = SavedRooms /\ roomShown' = NoRoom /\ room' = NoPanel
    /\ UNCHANGED <<roomMount, roomOrder, lastSync, roomPasswords, roomTasks, stopped, roomSteps>>

HeardRoom(t) == roomShown # NoRoom /\ t.mount = roomMount

(***************************************************************************)
(* Login.                                                                  *)
(***************************************************************************)
LoginFailed == Unconfirmed(room.kept)

\* What the panel shows: connecting or the form, or the toolbar over the chat
\* and the sheet of tools.
ToolbarControls ==
    {"tools"} \cup (IF LoginFailed THEN {"change password"} ELSE {})
              \cup (IF room.loginLoading THEN {} ELSE {"sync"})
ToolsControls == IF room.tools THEN RoomPanes \cup {"console"} ELSE {}
RoomControls ==
    IF roomShown = NoRoom THEN {}
    ELSE IF room.kept.authenticated THEN ToolbarControls \cup ToolsControls
    ELSE IF room.loginLoading THEN {"cancel"} ELSE {"login", "guest"}

\* loginAttemptRef moves on: a login of this panel still in flight is deaf.
GivenUp == {IF t.kind = "login" /\ HeardRoom(t) THEN [t EXCEPT !.current = FALSE] ELSE t : t \in roomTasks}

\* performLogin; the form's logins remember the password afterwards, a sync
\* uses the one the panel has.
PerformLogin(persist, remember, panel) ==
    /\ room' = [panel EXCEPT !.loginLoading = TRUE, !.kept.error = FALSE]
    /\ roomTasks' = GivenUp \cup {[RoomTask("login", "") EXCEPT !.persist = persist, !.remember = remember]}
    /\ stopped' = stopped \ {roomShown}
    /\ UNCHANGED <<roomShown, roomMount, roomCache, roomOrder, lastSync, roomPasswords>>

HandleLogin(remember) ==
    /\ "login" \in RoomControls /\ RoomUser
    /\ PerformLogin(TRUE, remember, [room EXCEPT !.password = TRUE, !.remember = remember])

HandleLoginAsGuest == "guest" \in RoomControls /\ RoomUser /\ PerformLogin(FALSE, FALSE, room)
SyncNow == "sync" \in RoomControls /\ RoomUser /\ PerformLogin(FALSE, FALSE, room)

\* Cancel: the answer of the login in flight will be ignored.
MutHandleCancelLogin ==
    /\ "cancel" \in RoomControls /\ RoomUser
    /\ room' = [room EXCEPT !.loginLoading = FALSE, !.kept.authenticated = FALSE]
    /\ stopped' = stopped \cup {roomShown}
    /\ UNCHANGED <<roomShown, roomMount, roomCache, roomOrder, lastSync, roomPasswords, roomTasks>>
HandleCancelLogin ==
    /\ "cancel" \in RoomControls /\ RoomUser
    /\ room' = [room EXCEPT !.loginLoading = FALSE, !.kept.authenticated = FALSE]
    /\ roomTasks' = GivenUp /\ stopped' = stopped \cup {roomShown}
    /\ UNCHANGED <<roomShown, roomMount, roomCache, roomOrder, lastSync, roomPasswords>>

\* persistAfterLogin, whatever became of the login.
Persisted(t) ==
    IF t.persist THEN [roomPasswords EXCEPT ![t.key] = [memory |-> TRUE, disk |-> t.remember]] ELSE roomPasswords

\* The attempt a login leaves behind, and whether it leads to the chat: only a
\* room that answered and said no goes back to the form.
Answered(t, result) ==
    [room.kept EXCEPT
        !.attempt = CASE result = "ok" -> "confirmed" [] result = "refused" -> "refused"
                      [] result = "timeout" -> "unanswered" [] result = "error" -> "failed",
        !.heard = t.heard,
        !.authenticated = result # "refused",
        !.error = result \in {"refused", "error"}]

\* A login given up is dropped; one whose panel is gone changes nothing shown
\* but still stores the sync time.
RoomLoginReturns(t, result) ==
    /\ t.kind = "login" /\ roomTasks' = roomTasks \ {t}
    /\ roomPasswords' = Persisted(t)
    /\ LET entry == Answered(t, result) IN
       IF HeardRoom(t) /\ t.current
       THEN /\ room' = [room EXCEPT !.loginLoading = FALSE, !.kept = PostConfirms(entry)]
            /\ stopped' = IF result = "refused" THEN stopped \cup {t.key} ELSE stopped
       ELSE UNCHANGED <<room, stopped>>
    /\ lastSync' = IF t.current /\ result \in {"ok", "timeout"} THEN [lastSync EXCEPT ![t.key] = "fresh"]
                   ELSE IF t.current /\ HeardRoom(t) THEN SyncAfter(t.key, Answered(t, result)) ELSE lastSync
    /\ UNCHANGED <<roomShown, roomMount, roomCache, roomOrder, roomSteps>>

\* handleReenterPassword.
ChangePassword ==
    /\ "change password" \in RoomControls /\ RoomUser
    /\ roomPasswords' = [roomPasswords EXCEPT ![roomShown] = [memory |-> FALSE, disk |-> FALSE]]
    /\ lastSync' = [lastSync EXCEPT ![roomShown] = "none"]
    /\ room' = [room EXCEPT !.kept.authenticated = FALSE, !.kept.error = FALSE, !.kept.attempt = "none",
                            !.password = FALSE, !.remember = FALSE]
    /\ UNCHANGED <<roomShown, roomMount, roomCache, roomOrder, roomTasks, stopped>>

\* A post arrives in a room.
PostArrives(k) ==
    /\ RoomUser
    /\ roomTasks' = {IF t.key = k /\ t.kind = "login" THEN [t EXCEPT !.heard = TRUE] ELSE t : t \in roomTasks}
    /\ LET entry == [room.kept EXCEPT !.heard = TRUE] IN
       IF k = roomShown
       THEN /\ room' = [room EXCEPT !.kept = PostConfirms(entry)]
            /\ lastSync' = SyncAfter(k, entry) /\ UNCHANGED roomCache
       ELSE /\ roomCache' = [j \in DOMAIN roomCache |->
                               IF j = k THEN [roomCache[j] EXCEPT !.heard = TRUE] ELSE roomCache[j]]
            /\ UNCHANGED <<room, lastSync>>
    /\ UNCHANGED <<roomShown, roomMount, roomOrder, roomPasswords, stopped>>

\* AUTO_SYNC_INTERVAL_MS goes by.
SyncAges(k) ==
    /\ lastSync[k] = "fresh" /\ RoomUser
    /\ lastSync' = [lastSync EXCEPT ![k] = "old"]
    /\ UNCHANGED <<roomShown, roomMount, room, roomCache, roomOrder, roomPasswords, roomTasks, stopped>>

(***************************************************************************)
(* The tools sheet: panes and console.                                     *)
(***************************************************************************)
ShowTools ==
    /\ "tools" \in RoomControls /\ RoomUser
    /\ room' = [room EXCEPT !.tools = ~@]
    /\ UNCHANGED <<roomShown, roomMount, roomCache, roomOrder, lastSync, roomPasswords, roomTasks, stopped>>

RefreshRoomPane(p) ==
    /\ p \in RoomControls \cap RoomPanes /\ ~room.kept.panes[p].loading /\ RoomUser
    /\ room' = [room EXCEPT !.kept.panes[p] = [@ EXCEPT !.loading = TRUE, !.error = FALSE]]
    /\ roomTasks' = roomTasks \cup {RoomTask("pane", p)}
    /\ UNCHANGED <<roomShown, roomMount, roomCache, roomOrder, lastSync, roomPasswords, stopped>>

RoomPaneReturns(t, ok) ==
    /\ t.kind = "pane" /\ roomTasks' = roomTasks \ {t}
    /\ room' = IF HeardRoom(t)
               THEN [room EXCEPT !.kept.panes[t.what] =
                       [loading |-> FALSE, error |-> ~ok, fetched |-> @.fetched \/ ok]] ELSE room
    /\ UNCHANGED <<roomShown, roomMount, roomCache, roomOrder, lastSync, roomPasswords, stopped, roomSteps>>

HandleConsoleCommand ==
    /\ "console" \in RoomControls /\ ~room.consoleLoading /\ RoomUser
    /\ room' = [room EXCEPT !.consoleLoading = TRUE]
    /\ roomTasks' = roomTasks \cup {RoomTask("command", "")}
    /\ UNCHANGED <<roomShown, roomMount, roomCache, roomOrder, lastSync, roomPasswords, stopped>>

RoomCommandReturns(t) ==
    /\ t.kind = "command" /\ roomTasks' = roomTasks \ {t}
    /\ room' = IF HeardRoom(t) THEN [room EXCEPT !.consoleLoading = FALSE] ELSE room
    /\ UNCHANGED <<roomShown, roomMount, roomCache, roomOrder, lastSync, roomPasswords, stopped, roomSteps>>

RoomNext ==
    \/ \E k \in Rooms : OpenRoom(k) \/ PostArrives(k) \/ SyncAges(k)
    \/ CloseRoom \/ HandleLoginAsGuest \/ SyncNow \/ HandleCancelLogin \/ ChangePassword
    \/ \E remember \in BOOLEAN : HandleLogin(remember)
    \/ ShowTools \/ HandleConsoleCommand \/ \E p \in RoomPanes : RefreshRoomPane(p)
    \/ \E t \in roomTasks :
          \/ \E result \in {"ok", "refused", "timeout", "error"} : RoomLoginReturns(t, result)
          \/ \E ok \in BOOLEAN : RoomPaneReturns(t, ok)
          \/ RoomCommandReturns(t)

(***************************************************************************)
(* Properties.                                                             *)
(***************************************************************************)
RoomTypeOK ==
    /\ roomShown \in Rooms \cup {NoRoom} /\ roomMount \in 0..MaxRoomMounts
    /\ room.kept.panes \in [RoomPanes -> [loading : BOOLEAN, error : BOOLEAN, fetched : BOOLEAN]]
    /\ room.kept.attempt \in {"none", "confirmed", "refused", "unanswered", "failed"}
    /\ DOMAIN roomCache = {roomOrder[i] : i \in DOMAIN roomOrder} /\ Len(roomOrder) <= MaxCachedRooms
    /\ lastSync \in [Rooms -> {"none", "fresh", "old"}] /\ stopped \subseteq Rooms

\* A room whose login the user cancelled, or which refused it, stays at its
\* login form until the user logs in again: no late answer of the login given
\* up, no post, no passing of time and no leaving and coming back opens it or
\* sends another login over the mesh, as long as the room is in the cache
\* (RoomServerPanel.tsx:258, :317).
StoppedRoomWaits ==
    /\ roomShown \in stopped => ~room.kept.authenticated /\ ~room.loginLoading
    /\ \A k \in stopped : k # roomShown /\ k \in DOMAIN roomCache => ~AutoSyncs(k)

(***************************************************************************)
(* The invariant that StoppedRoomWaits needs: what is cached and in flight *)
(* has its type, the room shown and the rooms stopped are in the cache,    *)
(* requests belong to the mount that sent them, a panel listens to one     *)
(* login at most, and to none in a room that is stopped.                   *)
(***************************************************************************)
RoomEntries == [authenticated : BOOLEAN, attempt : {"none", "confirmed", "refused", "unanswered", "failed"},
                heard : BOOLEAN, error : BOOLEAN,
                panes : [RoomPanes -> [loading : BOOLEAN, error : BOOLEAN, fetched : BOOLEAN]]]
RoomPanels == [kept : RoomEntries, loginLoading : BOOLEAN, tools : BOOLEAN, consoleLoading : BOOLEAN,
               password : BOOLEAN, remember : BOOLEAN]
RoomRequests == [kind : {"login", "pane", "command"}, what : RoomPanes \cup {""}, mount : Nat, key : Rooms,
                 current : BOOLEAN, heard : BOOLEAN, persist : BOOLEAN, remember : BOOLEAN]

RoomTyped ==
    /\ room \in RoomPanels /\ roomOrder \in Seq(Rooms) /\ roomCache \in [DOMAIN roomCache -> RoomEntries]
    /\ roomPasswords \in [Rooms -> [memory : BOOLEAN, disk : BOOLEAN]]

Awaited(t) == t.kind = "login" /\ HeardRoom(t) /\ t.current
RequestsOwned ==
    \A t \in roomTasks :
       /\ t \in RoomRequests /\ t.mount <= roomMount /\ (HeardRoom(t) => t.key = roomShown)
       /\ t.kind = "pane" => t.what \in RoomPanes
       /\ \A u \in roomTasks : Awaited(t) /\ Awaited(u) => t = u
StoppedInCache ==
    /\ stopped \cup ({roomShown} \ {NoRoom}) \subseteq DOMAIN roomCache
    /\ \A k \in stopped \ {roomShown} : ~roomCache[k].authenticated
    /\ roomShown \in stopped => ~\E t \in roomTasks : Awaited(t)

RoomInv == RoomTypeOK /\ StoppedRoomWaits /\ RoomTyped /\ RequestsOwned /\ StoppedInCache
================================================================================
