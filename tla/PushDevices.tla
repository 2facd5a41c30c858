------------------------------ MODULE PushDevices ------------------------------
(***************************************************************************)
(* Web push and the notifications of the open tab: usePushSubscription.ts, *)
(* the bell menu of ChatHeader.tsx, the device list of                     *)
(* SettingsLocalSection.tsx and useBrowserNotifications.ts.                *)
(*                                                                         *)
(* An operation of the hook is a job that awaits the server, the service   *)
(* worker or the browser at each stage; jobs interleave.  The devices the  *)
(* server knows are this browser and the others; the browser itself holds  *)
(* no subscription, one made with an old key of the server, or a good one. *)
(***************************************************************************)
EXTENDS Integers

CONSTANTS
    PushKeys,     \* conversations
    MaxPushJobs   \* bound on the operations started

VARIABLES
    subscription,     \* the browser's: "none", "stale" or "good"
    pushServer,       \* the server's devices and push-enabled conversations
    currentSubscription, \* currentSubscriptionId: this browser's record is known
    allSubscriptions, pushConversations, \* as the client shows them
    pushLoading,
    pushJobs, started,
    permission,       \* Notification.permission as the hook has it
    notifying,        \* enabledByConversation ...
    notifyingStored,  \* ... and its copy in localStorage
    notified          \* the conversations a notification was shown for

pushDeviceVars == <<subscription, pushServer, currentSubscription, allSubscriptions, pushConversations>>
notifyVars == <<permission, notifying, notifyingStored, notified>>
pushVars   == <<pushDeviceVars, pushLoading, pushJobs, started, notifyVars>>

Here == "this browser"
Devices == {Here, "another"}
NoPushKey == "no key"

\* A job: what it is, the stage it awaits, the conversation it goes on to
\* toggle, and what it has read or captured.
PushJob(kind, stage, key) ==
    [kind |-> kind, stage |-> stage, key |-> key, id |-> started + 1, read |-> {}, mine |-> FALSE]

\* The page loads: the devices and the conversations are asked for.
PushInit ==
    /\ subscription \in {"none", "stale", "good"}
    /\ \E devices \in SUBSET Devices : pushServer = [devices |-> devices, conversations |-> {}]
    /\ currentSubscription = FALSE /\ allSubscriptions = {} /\ pushConversations = {}
    /\ pushLoading = FALSE /\ started = 0
    /\ pushJobs = {[PushJob("refresh", "list", NoPushKey) EXCEPT !.id = 0],
                   [PushJob("toggle", "answer", NoPushKey) EXCEPT !.id = -1]}
    /\ permission \in {"default", "granted", "denied"}
    /\ notifying = {} /\ notifyingStored = {} /\ notified = {}

PushStarts(job) == started < MaxPushJobs /\ started' = started + 1 /\ pushJobs' = pushJobs \cup {job}
GoOn(j, next) == pushJobs' = (pushJobs \ {j}) \cup {next}

(***************************************************************************)
(* What the user starts.                                                   *)
(***************************************************************************)
\* "Subscribe This Browser", offered while this browser has no record and
\* disabled while one is being made.
OfferSubscribe == ~currentSubscription /\ ~pushLoading

StartSubscribe ==
    /\ OfferSubscribe
    /\ PushStarts(PushJob("subscribe", "key", NoPushKey))
    /\ pushLoading' = TRUE
    /\ UNCHANGED <<pushDeviceVars, notifyVars>>

\* onTogglePush: enabling push for a conversation subscribes the browser first.
\* The box is not disabled meanwhile.
TogglePush(k) ==
    /\ IF k \notin pushConversations /\ ~currentSubscription
       THEN PushStarts(PushJob("subscribe", "key", k)) /\ pushLoading' = TRUE
       ELSE PushStarts(PushJob("toggle", "ask", k)) /\ UNCHANGED pushLoading
    /\ UNCHANGED <<pushDeviceVars, notifyVars>>

\* The chips of the device list take a conversation off the list.
RemoveConversation(k) ==
    /\ k \in pushConversations
    /\ PushStarts(PushJob("toggle", "ask", k))
    /\ UNCHANGED <<pushDeviceVars, pushLoading, notifyVars>>

\* deleteSubscription of a listed device; whether it is this one is taken from
\* the render the button was in.
StartDelete(d) ==
    /\ d \in allSubscriptions
    /\ PushStarts([PushJob("delete", "ask", NoPushKey) EXCEPT
                 !.read = {d}, !.mine = (d = Here /\ currentSubscription)])
    /\ UNCHANGED <<pushDeviceVars, pushLoading, notifyVars>>

\* The device list refreshes as it opens.
StartRefresh ==
    /\ PushStarts(PushJob("refresh", "list", NoPushKey))
    /\ UNCHANGED <<pushDeviceVars, pushLoading, notifyVars>>

(***************************************************************************)
(* Stages.                                                                 *)
(***************************************************************************)
\* The job ends: subscribe clears loading in its finally and, when it worked,
\* the bell goes on to toggle the conversation.
MutEnds(j, worked) ==
    IF j.kind = "subscribe" /\ worked /\ j.key # NoPushKey
    THEN GoOn(j, [j EXCEPT !.kind = "toggle", !.stage = "ask", !.read = {}]) /\ pushLoading' = FALSE
    ELSE /\ pushJobs' = pushJobs \ {j}
         /\ pushLoading' = (pushLoading /\ (j.kind # "subscribe" \/ ~worked))

Ends(j, worked) ==
    IF j.kind = "subscribe" /\ worked /\ j.key # NoPushKey
    THEN GoOn(j, [j EXCEPT !.kind = "toggle", !.stage = "ask", !.read = {}]) /\ pushLoading' = FALSE
    ELSE pushJobs' = pushJobs \ {j} /\ pushLoading' = (pushLoading /\ j.kind # "subscribe")

\* subscribe, after the server's public key and the service worker: a browser
\* subscription with another key is replaced; the browser may refuse.
SubscribeBrowser(j) ==
    /\ j \in pushJobs /\ j.kind = "subscribe" /\ j.stage = "key"
    /\ \/ /\ subscription' = "good" /\ GoOn(j, [j EXCEPT !.stage = "register"])
          /\ UNCHANGED pushLoading
       \/ /\ subscription' \in {subscription, IF subscription = "stale" THEN "none" ELSE subscription}
          /\ Ends(j, FALSE)
    /\ UNCHANGED <<pushServer, currentSubscription, allSubscriptions, pushConversations, started, notifyVars>>

\* The server records it, and the list is refreshed.
SubscribeRegister(j) ==
    /\ j \in pushJobs /\ j.kind = "subscribe" /\ j.stage = "register"
    /\ \/ /\ pushServer' = [pushServer EXCEPT !.devices = @ \cup {Here}]
          /\ currentSubscription' = TRUE
          /\ GoOn(j, [j EXCEPT !.stage = "list"]) /\ UNCHANGED pushLoading
       \/ Ends(j, FALSE) /\ UNCHANGED <<pushServer, currentSubscription>>
    /\ UNCHANGED <<subscription, allSubscriptions, pushConversations, started, notifyVars>>

\* refreshSubscriptions: the server's list is read, then the browser's own
\* subscription; a failure of either leaves everything as it was, but for the
\* list asked for as the page loads, which counts as empty.
RefreshRead(j) ==
    /\ j \in pushJobs /\ j.stage = "list"
    /\ \/ GoOn(j, [j EXCEPT !.stage = "reconcile", !.read = pushServer.devices]) /\ UNCHANGED pushLoading
       \/ IF j.id = 0 THEN GoOn(j, [j EXCEPT !.stage = "reconcile"]) /\ UNCHANGED pushLoading
          ELSE Ends(j, TRUE)
    /\ UNCHANGED <<pushDeviceVars, started, notifyVars>>

\* reconcileCurrentSubscription: this browser's record is the one with its
\* endpoint.
Reconcile(subs) ==
    /\ allSubscriptions' = subs
    /\ currentSubscription' = (subscription # "none" /\ Here \in subs)

RefreshReconcile(j) ==
    /\ j \in pushJobs /\ j.stage = "reconcile"
    /\ \/ Reconcile(j.read) \/ UNCHANGED <<allSubscriptions, currentSubscription>>
    /\ Ends(j, TRUE)
    /\ UNCHANGED <<subscription, pushServer, pushConversations, started, notifyVars>>

\* deleteSubscription: the server first, then the browser's own subscription
\* when it was this device's, then a refresh.
DeleteDevice(j) ==
    /\ j \in pushJobs /\ j.kind = "delete" /\ j.stage = "ask"
    /\ \/ /\ pushServer' = [pushServer EXCEPT !.devices = @ \ j.read]
          /\ currentSubscription' = (currentSubscription /\ ~j.mine)
          /\ subscription' \in IF j.mine THEN {"none", subscription} ELSE {subscription}
          /\ GoOn(j, [j EXCEPT !.stage = "list"]) /\ UNCHANGED pushLoading
       \/ Ends(j, FALSE) /\ UNCHANGED <<pushServer, currentSubscription, subscription>>
    /\ UNCHANGED <<allSubscriptions, pushConversations, started, notifyVars>>

\* toggleConversation: the server flips and answers with its list ...
ToggleAtServer(j) ==
    /\ j \in pushJobs /\ j.kind = "toggle" /\ j.stage = "ask"
    /\ \/ LET c == pushServer.conversations
              new == IF j.key \in c THEN c \ {j.key} ELSE c \cup {j.key}
          IN  /\ pushServer' = [pushServer EXCEPT !.conversations = new]
              /\ GoOn(j, [j EXCEPT !.stage = "answer", !.read = new]) /\ UNCHANGED pushLoading
       \/ Ends(j, FALSE) /\ UNCHANGED pushServer
    /\ UNCHANGED <<subscription, currentSubscription, allSubscriptions, pushConversations, started, notifyVars>>

\* ... which is shown when it arrives, late or not, unless it is lost.
ToggleAnswered(j) ==
    /\ j \in pushJobs /\ j.kind = "toggle" /\ j.stage = "answer"
    /\ pushConversations' \in {j.read, pushConversations}
    /\ Ends(j, TRUE)
    /\ UNCHANGED <<subscription, pushServer, currentSubscription, allSubscriptions, started, notifyVars>>

(***************************************************************************)
(* Notifications of the open tab.                                          *)
(***************************************************************************)
\* toggleConversationNotifications: off at once; on after the browser's
\* permission, which a tab that was denied it does not ask for again.
ToggleNotifications(k) ==
    /\ IF k \in notifying
       THEN /\ notifying' = notifying \ {k} /\ notifyingStored' = notifying'
            /\ UNCHANGED <<pushJobs, started>>
       ELSE /\ permission # "denied"
            /\ PushStarts(PushJob("permission", "ask", k)) /\ UNCHANGED <<notifying, notifyingStored>>
    /\ UNCHANGED <<pushDeviceVars, pushLoading, permission, notified>>

PermissionAnswered(j) ==
    /\ j \in pushJobs /\ j.kind = "permission"
    /\ permission' \in IF permission = "default" THEN {"default", "granted", "denied"} ELSE {permission}
    /\ notifying' = IF permission' = "granted" THEN notifying \cup {j.key} ELSE notifying
    /\ notifyingStored' = IF permission' = "granted" THEN notifying' ELSE notifyingStored
    /\ Ends(j, TRUE)
    /\ UNCHANGED <<pushDeviceVars, started, notified>>

\* notifyIncomingMessage, while the page is hidden.
NotifyIncomingMessage(k) ==
    /\ permission = "granted" /\ k \in notifying
    /\ notified' = notified \cup {k}
    /\ UNCHANGED <<pushDeviceVars, pushLoading, pushJobs, started, permission, notifying, notifyingStored>>

PushNext ==
    \/ StartSubscribe \/ StartRefresh
    \/ \E k \in PushKeys : TogglePush(k) \/ RemoveConversation(k) \/ ToggleNotifications(k)
                           \/ NotifyIncomingMessage(k)
    \/ \E d \in Devices : StartDelete(d)
    \/ \E j \in pushJobs : \/ SubscribeBrowser(j) \/ SubscribeRegister(j) \/ RefreshRead(j)
                           \/ RefreshReconcile(j) \/ DeleteDevice(j)
                           \/ ToggleAtServer(j) \/ ToggleAnswered(j) \/ PermissionAnswered(j)

(***************************************************************************)
(* Properties.                                                             *)
(***************************************************************************)
PushTypeOK ==
    /\ subscription \in {"none", "stale", "good"}
    /\ {allSubscriptions, pushServer.devices} \subseteq SUBSET Devices
    /\ {pushConversations, pushServer.conversations, notifying, notifyingStored, notified} \subseteq SUBSET PushKeys
    /\ currentSubscription \in BOOLEAN /\ pushLoading \in BOOLEAN
    /\ \A j \in pushJobs : j.kind \in {"subscribe", "refresh", "toggle", "delete", "permission"}

\* The button of the device list says "Subscribing..." only while a subscription
\* is being made, whichever of its stages fails (usePushSubscription.ts:231).
PushLoadingEnds == pushLoading => \E j \in pushJobs : j.kind = "subscribe"

\* What a reload will notify about is what the tab notifies about
\* (useBrowserNotifications.ts:163, :196).
NotifyingStored == notifyingStored = notifying

(***************************************************************************)
(* The inductive invariant: what a job carries is what it will put into    *)
(* the state.                                                              *)
(***************************************************************************)
PushJobsOK ==
    /\ pushJobs \subseteq [kind : {"subscribe", "refresh", "toggle", "delete", "permission"},
                           stage : {"key", "register", "list", "reconcile", "ask", "answer"},
                           key : PushKeys \cup {NoPushKey}, id : Int,
                           read : SUBSET (Devices \cup PushKeys), mine : BOOLEAN]
    /\ \A j \in pushJobs :
         /\ j.read \subseteq IF j.kind = "toggle" THEN PushKeys ELSE Devices
         /\ (j.kind = "permission" \/ (j.stage = "ask" /\ j.kind = "toggle")) => j.key \in PushKeys
         /\ j.stage \in {"list", "reconcile"} => j.kind # "toggle"

PushInv ==
    /\ PushTypeOK /\ PushLoadingEnds /\ NotifyingStored /\ PushJobsOK
    /\ pushServer \in [devices : SUBSET Devices, conversations : SUBSET PushKeys] /\ started \in Nat
================================================================================
