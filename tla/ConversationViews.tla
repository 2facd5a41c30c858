--------------------------- MODULE ConversationViews ---------------------------
(***************************************************************************)
(* The parts of the web client around the open conversation: which one is  *)
(* open and what the address says, the unread counts, the sidebar and the  *)
(* scrolling of the message list.  Each has its own state and its own      *)
(* requests in flight; what one is given by another is an event of its     *)
(* own model.  They share nothing else, so what holds in each holds in the *)
(* whole: one part at a time is followed, the one in `focus`, while the    *)
(* others stay in the state they start in.  The messages themselves, and   *)
(* what couples them to the socket and the server, are RealtimeClient.     *)
(***************************************************************************)
EXTENDS ConversationRouter, UnreadCounts, Sidebar, MessageScroll

VARIABLE focus

Parts == {"router", "unread", "sidebar", "scroll"}

AtRest(part, rest) == focus = part \/ rest

ConversationsInit ==
    /\ focus \in Parts
    /\ RouterInit /\ UnreadInit /\ SidebarInit /\ ScrollInit
    /\ AtRest("router", reopen)
    /\ AtRest("sidebar", collapseStored = {} /\ legacyOrder = "none")
    /\ AtRest("scroll", target = 0 /\ boundary = 0)

ConversationsNext ==
    /\ UNCHANGED focus
    /\ \/ focus = "router"  /\ RouterNext  /\ UNCHANGED <<unreadVars, sidebarVars, scrollVars>>
       \/ focus = "unread"  /\ UnreadNext  /\ UNCHANGED <<routerVars, sidebarVars, scrollVars>>
       \/ focus = "sidebar" /\ SidebarNext /\ UNCHANGED <<routerVars, unreadVars, scrollVars>>
       \/ focus = "scroll"  /\ ScrollNext  /\ UNCHANGED <<routerVars, unreadVars, sidebarVars>>

ConversationsSpec ==
    ConversationsInit /\ [][ConversationsNext]_<<routerVars, unreadVars, sidebarVars, scrollVars, focus>>

(***************************************************************************)
(* Properties of several parts.                                            *)
(***************************************************************************)
\* What is said of a part, said while that part is followed.
Of(part, claim) == focus = part => claim

\* Every variable of every part has its type.
ConversationsTypeOK ==
    /\ focus \in Parts
    /\ Of("router", RouterTypeOK) /\ Of("unread", UnreadTypeOK)
    /\ Of("sidebar", SidebarTypeOK) /\ Of("scroll", ScrollTypeOK)

\* What the proofs carry along: the inductive invariant of every part.
ConversationsInv == focus \in Parts /\ RouterInv /\ UnreadInv /\ SidebarInv /\ ScrollInv

\* The view stays as the user left it, whatever arrives: a finished search
\* leaves the collapsed sections of the sidebar as they were (Sidebar.tsx:528),
\* rows that come, go or are paged in leave the row the reader scrolled to
\* where it was, the way to the unread boundary stays on offer and a spinner
\* or an offer ends with what it waits for (MessageList.tsx:1108-1160).
KeptAsLeft ==
    /\ Of("sidebar", SearchKeepsCollapse)
    /\ Of("scroll", ReaderStaysPut /\ BoundaryOffered /\ OffersEnd)
================================================================================
