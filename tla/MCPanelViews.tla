------------------------------ MODULE MCPanelViews ------------------------------
(* Values of the constants of PanelViews that a configuration file cannot    *)
(* write: functions, sequences and records.                                  *)
EXTENDS PanelViews

\* The dashboard: one pane without a precondition, one that needs another first.
MCPaneOrder == <<"nodeInfo", "neighbors">>

\* The trace pane: a repeater with a position and one without.
MCHeardAt    == <<2, 3>>
MCDistanceTo == <<0, 5>>

\* The channel finder: two packets of one payload, a third of another.
MCPayloadOf == <<1, 1, 2>>
MCKeyOf     == <<1, 1, 1>>

\* Backup files of other radios: with a key, without one, and with two fields
\* missing.
MCForeignFiles ==
    {[config |-> [f \in {"name", "modem", "hash"} |-> 2], key |-> 1],
     [config |-> [f \in {"name", "modem", "place"} |-> 2], key |-> 0],
     [config |-> [f \in {"name"} |-> 2], key |-> 2]}

\* Bulk deletion: types and dates of three contacts, 0 for an unknown date.
MCTypeOf    == <<1, 2, 1>>
MCFirstSeen == <<1, 0, 2>>
MCLastSeen  == <<2, 1, 0>>

\* Which messages a query matches.
MCMatches == [q \in {"a", "b", "me"} |-> CASE q = "a" -> 1..5 [] q = "b" -> {2, 4} [] OTHER -> 1..4]

\* Channel names, two of which differ in case only, and what a user may paste.
MCLower  == [n \in {"ops", "Ops", "odd", "long"} |-> IF n = "Ops" THEN "ops" ELSE n]
MCPasted == {{}, {"ops", "Ops"}, {"ops", "odd"}}

\* The packet feed: packets of a sender known by its key, by the hash of its
\* key and by its name; the last cannot be decoded.  The server's clock is
\* behind, right or ahead.
MCFrames ==
    {[valid |-> TRUE, type |-> "Advert", stated |-> "Advert", contact |-> 0, sender |-> 0, key |-> 1,
      hops |-> 1, width |-> 1, rssi |-> -60, decrypted |-> FALSE, matches |-> TRUE],
     [valid |-> TRUE, type |-> "TextMessage", stated |-> "TextMessage", contact |-> 0, sender |-> 0, key |-> 1,
      hops |-> 3, width |-> 4, rssi |-> -80, decrypted |-> FALSE, matches |-> FALSE],
     [valid |-> FALSE, type |-> "GroupText", stated |-> "GroupText", contact |-> 0, sender |-> 1, key |-> 0,
      hops |-> 2, width |-> 1, rssi |-> NoRssi, decrypted |-> TRUE, matches |-> TRUE]}
MCStartsWith == [s \in {<<"key", 1>>, <<"hash", 1>>} |-> {1}]
MCSkews      == {-60, 0, 60}
=================================================================================
