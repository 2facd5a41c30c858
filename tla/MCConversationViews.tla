-------------------------- MODULE MCConversationViews --------------------------
(* Values of the constants of ConversationViews that a configuration file    *)
(* cannot write.                                                             *)
EXTENDS ConversationViews

\* The tab is opened with no address and a remembered channel, on a contact or
\* on the settings.
MCStarts == {[hash |-> "none", reopen |-> TRUE, lastViewed |-> "chan"],
             [hash |-> "key", reopen |-> FALSE, lastViewed |-> "none"],
             [hash |-> "radio", reopen |-> FALSE, lastViewed |-> "none"]}

\* The sidebar: two channels, a contact, a room and a repeater.
MCKindOf   == <<"channel", "channel", "contact", "room", "repeater">>
MCRecentAt == <<0, 2, 1, 0, 3>>
================================================================================
