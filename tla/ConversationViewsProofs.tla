------------------------ MODULE ConversationViewsProofs ------------------------
(***************************************************************************)
(* Proofs about ConversationViews: each part's invariant is inductive on   *)
(* its own, and a step of the whole is a step of one part that leaves the  *)
(* others alone.  The router's argument is about what an effect still owes *)
(* when a render has run and the next has not; the sidebar's about the     *)
(* collapsed sections a search puts aside; the list's about the index of   *)
(* the row the reader scrolled to; that of the counts about the boundary   *)
(* that whatever is counted has, in the rows and in the answers.           *)
(***************************************************************************)
EXTENDS ConversationViews, FiniteSetTheorems, TLAPS

-----------------------------------------------------------------------------
(* Which conversation is open, and what the address says                    *)

\* A new entry of the history, and a rewritten one.
LEMMA NewEntry ==
    ASSUME NEW H, NEW s \in Seq(H), NEW a \in 1..Len(s), NEW h \in H
    PROVE  LET q == Append(SubSeq(s, 1, a), h)
           IN  q \in Seq(H) /\ Len(q) = a + 1 /\ q[a + 1] = h /\ q[1] = s[1]
<1>1. SubSeq(s, 1, a) \in Seq(H) /\ Len(SubSeq(s, 1, a)) = a /\ SubSeq(s, 1, a)[1] = s[1]
  OBVIOUS
<1> QED
  BY <1>1

LEMMA OldEntry ==
    ASSUME NEW H, NEW s \in Seq(H), NEW a \in 1..Len(s), NEW h \in H
    PROVE  LET q == [s EXCEPT ![a] = h]
           IN  /\ q \in Seq(H) /\ Len(q) = Len(s) /\ q[a] = h
               /\ \A i \in 1..Len(s) : i # a => q[i] = s[i]
OBVIOUS

\* What a render does to the address, whichever hook writes it.
Entered(e, h) ==
    /\ e[1] \in Seq(Hashes) /\ e[2] \in 1..Len(e[1]) /\ e[1][e[2]] = h
    /\ \/ e[2] = at /\ Len(e[1]) = Len(history) /\ (at # 1 => e[1][1] = history[1])
       \/ e[2] = at + 1 /\ Len(e[1]) = at + 1 /\ e[1][1] = history[1]

LEMMA EntryWritten ==
    ASSUME RouterTypeOK, ListsKnown, NEW h \in Hashes
    PROVE  /\ Entered(Replaced(h), h) /\ Replaced(h)[2] = at
           /\ Entered(Pushed(h), h) /\ (h # hash => Pushed(h)[2] = at + 1)
<1>1. history \in Seq(Hashes) /\ at \in 1..Len(history) /\ Len(history) \in Nat
  BY DEF RouterTypeOK, ListsKnown
<1>2. Entered(Replaced(h), h) /\ Replaced(h)[2] = at
  <2>1. /\ [history EXCEPT ![at] = h] \in Seq(Hashes) /\ Len([history EXCEPT ![at] = h]) = Len(history)
        /\ [history EXCEPT ![at] = h][at] = h
        /\ at # 1 => [history EXCEPT ![at] = h][1] = history[1]
    BY <1>1, OldEntry
  <2> QED
    BY <1>1, <2>1 DEF Entered, Replaced
<1>3. CASE h = hash
  BY <1>1, <1>2, <1>3 DEF Entered, Pushed, hash
<1>4. CASE h # hash
  <2>1. PICK q : q = Append(SubSeq(history, 1, at), h)
    OBVIOUS
  <2>2. q \in Seq(Hashes) /\ Len(q) = at + 1 /\ q[at + 1] = h /\ q[1] = history[1]
    BY <1>1, <2>1, NewEntry
  <2>3. Pushed(h) = <<q, at + 1>>
    BY <1>4, <2>1 DEF Pushed
  <2> QED
    BY <1>1, <1>2, <2>2, <2>3 DEF Entered
<1> QED
  BY <1>2, <1>3, <1>4

\* A render as the invariants see it.
RenderedAs(nowShown) ==
    /\ nowShown \in {show, shown} /\ shown' = nowShown
    /\ (dirty = {"show"}) => nowShown = show
    /\ LET routes   == "active" \in dirty \/ nowShown # shown
           syncs    == routes /\ ~popping /\ active # Nothing /\ hashSync /\ ~nowShown
           settings == nowShown /\ (nowShown # shown \/ "section" \in dirty)
       IN  /\ settings => Entered(<<history', at'>>, section)
           /\ (settings /\ ~opening) => at' = at
           /\ (settings /\ opening /\ section # hash) => at' = at + 1
           /\ syncs => Entered(<<history', at'>>, active)
           /\ (~settings /\ ~syncs) => history' = history /\ at' = at
           /\ opening' = (opening /\ ~settings)
           /\ popping' = (popping /\ ~routes)
    /\ \/ active' = active
       \/ active = Nothing /\ active' \in Convs /\ "active" \in dirty'
    /\ "section" \notin dirty' /\ "lists" \notin dirty'
    /\ show # nowShown => "show" \in dirty'
    /\ dirty' \subseteq {"active", "show"} /\ lastViewed' \in {active, lastViewed}
    /\ {push', defaultSet', deleteFallback'} \subseteq BOOLEAN
    /\ active' = Nothing => defaultSet' = defaultSet /\ deleteFallback' = deleteFallback

LEMMA ChosenIsKnown ==
    ASSUME RouterTypeOK, NEW c \in {Fallback, Phase1, Phase2}, c # Nothing
    PROVE  active = Nothing /\ c \in Convs
<1>1. channels \subseteq Channels /\ contacts \subseteq Contacts
  BY DEF RouterTypeOK
<1>2. PublicOf(channels) \in Convs \cup {Nothing}
  BY <1>1 DEF PublicOf, Convs
<1>3. CASE c = Fallback
  BY <1>2, <1>3 DEF Fallback
<1>4. CASE c = Phase1
  BY <1>1, <1>2, <1>4 DEF Phase1, ConversationOf, Convs
<1>5. CASE c = Phase2
  BY <1>1, <1>2, <1>5 DEF Phase2, ConversationOf, Convs
<1> QED
  BY <1>3, <1>4, <1>5

LEMMA CommitRenders ==
    ASSUME RouterTypeOK, ListsKnown, Commit
    PROVE  \E nowShown \in BOOLEAN : RenderedAs(nowShown)
<1>0. PICK withShow \in IF dirty = {"show"} THEN {TRUE} ELSE BOOLEAN :
        LET nowShown  == IF withShow THEN show ELSE shown
            routes    == "active" \in dirty \/ nowShown # shown
            chosen    == IF Fallback # Nothing THEN Fallback
                         ELSE IF Phase2 # Nothing THEN Phase2 ELSE Phase1
            syncs     == routes /\ ~popping /\ active # Nothing /\ hashSync /\ ~nowShown
            settings  == nowShown /\ (nowShown # shown \/ "section" \in dirty)
            entry     == IF settings THEN SettingsHash(nowShown)
                         ELSE IF syncs THEN RouterHash(nowShown) ELSE <<history, at>>
        IN  /\ shown' = nowShown
            /\ history' = entry[1] /\ at' = entry[2]
            /\ opening' = (opening /\ ~settings)
            /\ popping' = (popping /\ ~routes)
            /\ push' = (push /\ ~syncs)
            /\ lastViewed' = IF routes /\ active \notin {Nothing, Search} THEN active ELSE lastViewed
            /\ defaultSet' = (defaultSet \/ chosen # Nothing)
            /\ deleteFallback' = (deleteFallback /\ active = Nothing /\ Fallback = Nothing)
            /\ active' = IF chosen # Nothing THEN chosen ELSE active
            /\ dirty' = (IF chosen # Nothing THEN {"active"} ELSE {})
                        \cup (IF show # nowShown THEN {"show"} ELSE {})
  BY DEF Commit
<1>1. withShow \in BOOLEAN /\ (dirty = {"show"} => withShow)
  OBVIOUS
<1> DEFINE nowShown == IF withShow THEN show ELSE shown
           routes   == "active" \in dirty \/ nowShown # shown
           chosen   == IF Fallback # Nothing THEN Fallback
                       ELSE IF Phase2 # Nothing THEN Phase2 ELSE Phase1
           syncs    == routes /\ ~popping /\ active # Nothing /\ hashSync /\ ~nowShown
           settings == nowShown /\ (nowShown # shown \/ "section" \in dirty)
<1>2. show \in BOOLEAN /\ shown \in BOOLEAN /\ section \in Hashes /\ active \in Convs \cup {Nothing}
  BY DEF RouterTypeOK, Hashes
<1>3. nowShown \in BOOLEAN
  BY <1>2
<1>4. ASSUME settings
      PROVE  /\ Entered(<<history', at'>>, section)
             /\ (~opening => at' = at) /\ ((opening /\ section # hash) => at' = at + 1)
  <2>1. history' = SettingsHash(nowShown)[1] /\ at' = SettingsHash(nowShown)[2]
    BY <1>0, <1>1, <1>4
  <2>2. SettingsHash(nowShown) = IF opening THEN Pushed(section) ELSE Replaced(section)
    BY <1>4 DEF SettingsHash
  <2>3. Entered(SettingsHash(nowShown), section)
    BY <1>2, <2>2, EntryWritten
  <2>4. Entered(<<history', at'>>, section)
    BY <2>1, <2>3 DEF Entered
  <2> QED
    BY <1>2, <2>1, <2>2, <2>4, EntryWritten
<1>5. ASSUME syncs
      PROVE  Entered(<<history', at'>>, active)
  <2>1. ~settings
    BY <1>5
  <2>2. history' = RouterHash(nowShown)[1] /\ at' = RouterHash(nowShown)[2]
    BY <1>0, <1>1, <1>5, <2>1
  <2>3. RouterHash(nowShown) = IF push THEN Pushed(active) ELSE Replaced(active)
    BY <1>5 DEF RouterHash
  <2>4. active \in Hashes
    BY <1>2 DEF Hashes
  <2>5. Entered(RouterHash(nowShown), active)
    BY <2>3, <2>4, EntryWritten
  <2> QED
    BY <2>2, <2>5 DEF Entered
<1>6. ASSUME ~settings, ~syncs
      PROVE  history' = history /\ at' = at
  BY <1>0, <1>1, <1>6
<1>7. chosen # Nothing => active = Nothing /\ chosen \in Convs
  BY ChosenIsKnown
<1>8. \/ active' = active
      \/ active = Nothing /\ active' \in Convs /\ "active" \in dirty'
  BY <1>0, <1>1, <1>7
<1>9. /\ "section" \notin dirty' /\ "lists" \notin dirty'
      /\ show # nowShown => "show" \in dirty'
  BY <1>0, <1>1
<1>10. /\ nowShown \in {show, shown} /\ shown' = nowShown
       /\ (dirty = {"show"}) => nowShown = show
       /\ opening' = (opening /\ ~settings)
       /\ popping' = (popping /\ ~routes)
  BY <1>0, <1>1
<1>12. /\ dirty' \subseteq {"active", "show"} /\ lastViewed' \in {active, lastViewed}
       /\ {push', defaultSet', deleteFallback'} \subseteq BOOLEAN
  BY <1>0
<1>13. ASSUME active' = Nothing
       PROVE  defaultSet' = defaultSet /\ deleteFallback' = deleteFallback
  <2>1. chosen = Nothing /\ Fallback = Nothing /\ active = Nothing
    BY <1>0, <1>13
  <2> QED
    BY <1>0, <2>1 DEF RouterTypeOK
<1>11. RenderedAs(nowShown)
  BY <1>4, <1>5, <1>6, <1>8, <1>9, <1>10, <1>12, <1>13 DEF RenderedAs
<1> QED
  BY <1>3, <1>11

LEMMA ChoiceMade ==
    ASSUME RouterTypeOK, ChoiceDue, channelsLoaded, contactsLoaded, Public \in channels, active = Nothing
    PROVE  Fallback # Nothing \/ Phase2 # Nothing \/ Phase1 # Nothing
<1>1. /\ channels \subseteq Channels /\ contacts \subseteq Contacts /\ Public # Nothing
      /\ Nothing \notin channels /\ Nothing \notin Contacts /\ Nothing \notin Views
  BY RouterAssumption DEF RouterTypeOK, Channels, Convs
<1>2. PublicOf(channels) = Public
  BY DEF PublicOf
<1>3. CASE deleteFallback
  BY <1>1, <1>2, <1>3 DEF Fallback
<1>4. CASE ~deleteFallback
  <2>1. ~defaultSet
    BY <1>4 DEF ChoiceDue
  <2>2. CASE Phase1 # Nothing
    BY <2>2
  <2>3. CASE Phase1 = Nothing
    <3>1. ~(ConversationOf(hash) \in Views) /\ channels # {}
      BY <1>1, <2>1, <2>3 DEF Phase1
    <3>2. \/ ConversationOf(hash) \in Contacts
          \/ ConversationOf(hash) = Nothing /\ Remembered \in Contacts
      BY <1>1, <1>2, <2>1, <2>3 DEF Phase1
    <3>3. Phase2 # Nothing
      BY <1>1, <1>2, <2>1, <2>3, <3>2 DEF Phase2
    <3> QED
      BY <3>3
  <2> QED
    BY <2>2, <2>3
<1> QED
  BY <1>3, <1>4

LEMMA CommitChooses ==
    ASSUME RouterTypeOK, ListsKnown, ChoiceDue, Commit
    PROVE  ChoiceDue'
<1>1. PICK nowShown \in BOOLEAN : RenderedAs(nowShown)
  BY CommitRenders
<1>2. \/ active' # Nothing
      \/ Fallback = Nothing /\ Phase2 = Nothing /\ Phase1 = Nothing
  BY DEF Commit
<1>3. UNCHANGED listVars
  BY DEF Commit
<1>4. active' = Nothing => active = Nothing
  BY <1>1, RouterAssumption DEF RenderedAs
<1>5. ~(active' = Nothing /\ channelsLoaded /\ contactsLoaded /\ Public \in channels)
  BY <1>2, <1>4, ChoiceMade
<1> QED
  BY <1>1, <1>3, <1>4, <1>5 DEF RenderedAs, ChoiceDue, listVars

LEMMA CommitTyped ==
    ASSUME RouterTypeOK, ListsKnown, Commit
    PROVE  RouterTypeOK' /\ ListsKnown'
<1>1. PICK nowShown \in BOOLEAN : RenderedAs(nowShown)
  BY CommitRenders
<1>2. history' \in Seq(Hashes) /\ at' \in 1..Len(history')
  BY <1>1 DEF RenderedAs, Entered, RouterTypeOK, ListsKnown
<1>3. at' \in DOMAIN history' /\ \A i \in DOMAIN history' : history'[i] \in Hashes
  BY <1>2
<1>4. UNCHANGED <<traversing, show, section, listVars, hashSync, previousHash, pushed, reopen,
                  serverVars, listReply, asked>> /\ activeRef' = active
  BY DEF Commit
<1>5. {active, activeRef, lastViewed, deleting, creating}' \subseteq Convs \cup {Nothing}
  BY <1>1, <1>4 DEF RenderedAs, RouterTypeOK, asked
<1>6. {show, shown, channelsLoaded, contactsLoaded, defaultSet, deleteFallback, hashSync, push,
        popping, opening, pushed, reopen, traversing}' \subseteq BOOLEAN
  BY <1>1, <1>4 DEF RenderedAs, RouterTypeOK, listVars
<1>7. section' = section /\ previousHash' = previousHash /\ channels' = channels /\ contacts' = contacts
      /\ dirty' \subseteq {"active", "show", "section", "lists"}
      /\ serverChannels' = serverChannels /\ serverContacts' = serverContacts /\ listReply' = listReply
  BY <1>1, <1>4 DEF RenderedAs, listVars, serverVars
<1> QED
  BY <1>2, <1>3, <1>5, <1>6, <1>7 DEF RouterTypeOK, ListsKnown

\* Sections, views and Nothing are different things.
LEMMA Apart ==
    /\ Sections \cap Views = {} /\ Nothing \notin Sections /\ Nothing \notin Views
    /\ \A c \in Convs \cup {Nothing} : c \notin Sections
BY RouterAssumption DEF Convs

LEMMA CommitSettles ==
    ASSUME RouterInv, Commit
    PROVE  SettingsDue' /\ EntryBehind' /\ ViewDue'
<1>1. PICK nowShown \in BOOLEAN : RenderedAs(nowShown)
  BY CommitRenders DEF RouterInv
<1> DEFINE routes   == "active" \in dirty \/ nowShown # shown
           syncs    == routes /\ ~popping /\ active # Nothing /\ hashSync /\ ~nowShown
           settings == nowShown /\ (nowShown # shown \/ "section" \in dirty)
<1>2. /\ show \in BOOLEAN /\ shown \in BOOLEAN /\ section \in Sections /\ active \in Convs \cup {Nothing}
      /\ at \in 1..Len(history) /\ Len(history) \in Nat /\ previousHash \notin Sections
  BY DEF RouterInv, RouterTypeOK, ListsKnown
<1>3. /\ traversing' = traversing /\ show' = show /\ section' = section /\ hashSync' = hashSync
      /\ previousHash' = previousHash /\ pushed' = pushed
  BY DEF Commit
<1>4. /\ settings => Entered(<<history', at'>>, section)
      /\ (settings /\ ~opening) => at' = at
      /\ (settings /\ opening /\ section # hash) => at' = at + 1
      /\ syncs => Entered(<<history', at'>>, active)
      /\ (~settings /\ ~syncs) => history' = history /\ at' = at
      /\ opening' = (opening /\ ~settings)
      /\ popping' = (popping /\ ~routes)
      /\ nowShown \in {show, shown} /\ shown' = nowShown
  BY <1>1 DEF RenderedAs
<1>5. /\ settings => hash' = section
      /\ syncs => hash' = active
      /\ (~settings /\ ~syncs) => hash' = hash
  BY <1>4 DEF Entered, hash
<1>6. SettingsDue
  BY DEF RouterInv
<1>7. SettingsDue'
  <2>1. show' # shown' => "show" \in dirty'
    BY <1>1, <1>3 DEF RenderedAs
  <2>2. "section" \notin dirty'
    BY <1>1 DEF RenderedAs
  <2>3. ASSUME ~traversing, ~show
        PROVE  hash' \notin Sections
    <3>1. ~settings
      BY <1>2, <1>4, <1>6, <2>3 DEF SettingsDue
    <3> QED
      BY <1>2, <1>5, <1>6, <2>3, <3>1, Apart DEF SettingsDue
  <2>4. ASSUME ~traversing, show
        PROVE  hash' = section \/ ~shown'
    <3>1. CASE nowShown
      <4>1. CASE settings
        BY <1>5, <4>1
      <4>2. CASE ~settings
        BY <1>2, <1>5, <1>6, <2>4, <3>1, <4>2 DEF SettingsDue
      <4> QED
        BY <4>1, <4>2
    <3>2. CASE ~nowShown
      BY <1>4, <3>2
    <3> QED
      BY <3>1, <3>2
  <2> QED
    BY <1>3, <2>1, <2>2, <2>3, <2>4 DEF SettingsDue
<1>8. EntryBehind'
  <2>1. EntryBehind
    BY DEF RouterInv
  <2>2. at' \in {at, at + 1}
    BY <1>4 DEF Entered
  <2>3. traversing' => at' > 1
    BY <1>2, <1>3, <2>1, <2>2 DEF EntryBehind
  <2>4. CASE history[1] \in Sections
    <3>1. Len(history) = 1 /\ at = 1 /\ show /\ shown /\ ~pushed /\ ~opening
      <4>1. Len(history) = 1 /\ show /\ shown /\ ~pushed /\ ~opening
        BY <2>1, <2>4, Zenon DEF EntryBehind
      <4>2. at = 1
        BY <1>2, <4>1
      <4> QED
        BY <4>1, <4>2
    <3>2. nowShown /\ ~syncs /\ ~opening' /\ shown' /\ show' /\ ~pushed'
      BY <1>3, <1>4, <3>1
    <3>3. at' = 1 /\ Len(history') = 1 /\ history'[1] \in Sections
      BY <1>2, <1>4, <2>4, <3>1, <3>2 DEF Entered
    <3> QED
      BY <2>3, <3>2, <3>3 DEF EntryBehind
  <2>5. CASE history[1] \notin Sections
    <3>1. at = 1 => hash \notin Sections /\ (show => opening)
      BY <2>1, <2>5 DEF EntryBehind, hash
    <3>2. at = 1 /\ settings => opening /\ at' = at + 1
      <4>1. ASSUME at = 1, settings PROVE show
        BY <1>2, <1>4, <1>6, <4>1 DEF SettingsDue
      <4> QED
        BY <1>2, <1>4, <3>1, <4>1
    <3>3. history'[1] \notin Sections
      <4>1. CASE settings
        <5>1. Entered(<<history', at'>>, section)
          BY <1>4, <4>1
        <5>2. at = 1 => at' = at + 1
          BY <3>2, <4>1
        <5>3. history'[1] = history[1]
          BY <1>2, <5>1, <5>2 DEF Entered
        <5> QED
          BY <2>5, <5>3
      <4>2. CASE syncs
        <5>1. CASE at # 1
          BY <1>2, <1>4, <2>5, <4>2, <5>1 DEF Entered
        <5>2. CASE at = 1 /\ at' = at
          <6>1. history'[1] = active
            BY <1>2, <1>4, <4>2, <5>2 DEF Entered
          <6> QED
            BY <1>2, <6>1, Apart
        <5>3. CASE at = 1 /\ at' = at + 1
          BY <1>2, <1>4, <2>5, <4>2, <5>3 DEF Entered
        <5> QED
          BY <2>2, <5>1, <5>2, <5>3
      <4>3. CASE ~settings /\ ~syncs
        BY <1>4, <2>5, <4>3
      <4> QED
        BY <4>1, <4>2, <4>3
    <3>4. ASSUME at' = 1, show
          PROVE  opening'
      <4>1. at = 1 /\ ~settings
        BY <1>2, <2>2, <3>2, <3>4
      <4> QED
        BY <1>4, <3>1, <3>4, <4>1
    <3> QED
      BY <1>3, <2>3, <3>3, <3>4 DEF EntryBehind
  <2> QED
    BY <2>4, <2>5
<1>9. ViewDue'
  <2>1. ViewDue
    BY DEF RouterInv
  <2>2. ASSUME ~hashSync
        PROVE  hash' \notin Views /\ previousHash' \notin Views
    BY <1>2, <1>3, <1>5, <2>1, <2>2, Apart DEF ViewDue
  <2>3. ~popping'
    BY <1>4, <2>1 DEF ViewDue
  <2>4. ASSUME ~traversing, hash' \in Views, active' \notin {hash', Nothing}
        PROVE  "active" \in dirty' \/ show # shown'
    <3>1. CASE active' # active
      BY <1>1, <3>1 DEF RenderedAs
    <3>2. CASE active' = active
      <4>1. ~settings /\ ~syncs /\ hash' = hash
        BY <1>2, <1>5, <2>4, <3>2, Apart
      <4>2. ~popping /\ hashSync /\ ("active" \in dirty \/ show # shown)
        BY <2>1, <2>4, <3>2, <4>1 DEF ViewDue
      <4>3. CASE nowShown
        <5>1. shown /\ "section" \notin dirty
          BY <1>2, <4>1, <4>3
        <5>2. ~show
          BY <1>2, <1>6, <2>4, <4>1, <5>1, Apart DEF SettingsDue
        <5> QED
          BY <1>4, <4>3, <5>2
      <4>4. CASE ~nowShown
        <5>1. ~routes
          BY <2>4, <3>2, <4>1, <4>2, <4>4
        <5>2. show # shown /\ shown = nowShown
          BY <4>2, <5>1
        <5> QED
          BY <1>4, <5>2
      <4> QED
        BY <4>3, <4>4
    <3> QED
      BY <3>1, <3>2
  <2> QED
    BY <1>3, <2>2, <2>3, <2>4 DEF ViewDue
<1> QED
  BY <1>7, <1>8, <1>9

-----------------------------------------------------------------------------
(* Steps that leave the address and the settings view alone.                *)

LEMMA AddressKept ==
    ASSUME RouterInv, Rendered, UNCHANGED <<browserVars, show, shown, section, popping, settingsRefs>>,
           dirty \subseteq dirty', "section" \notin dirty', hashSync => hashSync',
           active' = active \/ "active" \in dirty'
    PROVE  SettingsDue' /\ EntryBehind' /\ ViewDue'
<1>1. /\ history' = history /\ at' = at /\ traversing' = traversing /\ hash' = hash
      /\ show' = show /\ shown' = shown /\ section' = section /\ popping' = popping
      /\ previousHash' = previousHash /\ opening' = opening /\ pushed' = pushed
  BY DEF browserVars, settingsRefs, hash
<1>2. SettingsDue /\ EntryBehind /\ ViewDue
  BY DEF RouterInv
<1>3. "active" \notin dirty /\ "section" \notin dirty /\ ~popping
  BY <1>2 DEF Rendered, ViewDue
<1>4. SettingsDue'
  BY <1>1, <1>2, <1>3 DEF SettingsDue
<1>5. EntryBehind'
  BY <1>1, <1>2 DEF EntryBehind
<1>6. ViewDue'
  BY <1>1, <1>2, <1>3 DEF ViewDue
<1> QED
  BY <1>4, <1>5, <1>6

LEMMA ChoiceKept ==
    ASSUME ChoiceDue, Rendered, deleteFallback => deleteFallback', dirty \subseteq dirty',
           \/ active' \notin {Nothing}
           \/ active' = Nothing /\ deleteFallback' /\ "active" \in dirty'
           \/ /\ active' = active /\ defaultSet' = defaultSet
              /\ \/ "lists" \in dirty'
                 \/ /\ channelsLoaded' = channelsLoaded /\ contactsLoaded' = contactsLoaded
                    /\ Public \in channels' => Public \in channels
    PROVE  ChoiceDue'
BY DEF ChoiceDue

\* The types of what a step other than a render leaves alone.
LEMMA PlaceTyped ==
    ASSUME RouterInv, UNCHANGED browserVars
    PROVE  /\ at' \in DOMAIN history' /\ (\A i \in DOMAIN history' : history'[i] \in Hashes)
           /\ history' \in Seq(Hashes) /\ traversing' \in BOOLEAN
BY DEF RouterInv, RouterTypeOK, ListsKnown, browserVars

USE DEF Quiet, UserStep, ServerStep

LEMMA SelectKeeps ==
    ASSUME RouterInv, NEW c \in Convs, HandleSelectConversation(c)
    PROVE  RouterInv'
<1>1. /\ Rendered /\ UNCHANGED <<browserVars, show, shown, section, popping, settingsRefs>>
      /\ dirty' = dirty \cup {"active"} /\ active' = c /\ hashSync' = TRUE /\ push' = TRUE
      /\ UNCHANGED <<activeRef, listVars, defaultSet, deleteFallback, deviceVars, serverVars, listReply, asked>>
  BY DEF HandleSelectConversation, SetActive, Rendered
<1>2. RouterTypeOK /\ ListsKnown /\ ChoiceDue
  BY DEF RouterInv
<1>3. "section" \notin dirty' /\ c # Nothing
  BY <1>1, RouterAssumption DEF Rendered
<1>4. SettingsDue' /\ EntryBehind' /\ ViewDue'
  BY <1>1, <1>3, AddressKept
<1>5. ChoiceDue'
  BY <1>1, <1>2, <1>3, ChoiceKept
<1>6. RouterTypeOK' /\ ListsKnown'
  BY <1>1, <1>2, PlaceTyped DEF RouterTypeOK, ListsKnown, listVars, deviceVars, serverVars, asked, browserVars, settingsRefs
<1> QED
  BY <1>4, <1>5, <1>6 DEF RouterInv

LEMMA DeleteKeeps ==
    ASSUME RouterInv, NEW c \in Convs, HandleDelete(c)
    PROVE  RouterInv'
<1>1. /\ Rendered /\ UNCHANGED <<browserVars, show, shown, section, popping, settingsRefs>>
      /\ UNCHANGED <<active, activeRef, dirty, channels, contacts, channelsLoaded, contactsLoaded,
                     defaultSet, hashSync, push, deviceVars, listReply, creating>>
      /\ deleteFallback' = TRUE /\ deleting' = c
      /\ serverChannels' \subseteq serverChannels /\ serverContacts' \subseteq serverContacts
  BY DEF HandleDelete, Rendered, viewVars, listVars, serverVars
<1>2. RouterTypeOK /\ ListsKnown /\ ChoiceDue
  BY DEF RouterInv
<1>4. SettingsDue' /\ EntryBehind' /\ ViewDue'
  BY <1>1, AddressKept DEF Rendered
<1>5. ChoiceDue'
  BY <1>1, <1>2, ChoiceKept
<1>6. RouterTypeOK' /\ ListsKnown'
  BY <1>1, <1>2, PlaceTyped DEF RouterTypeOK, ListsKnown, listVars, refVars, viewVars, deviceVars, serverVars, asked, browserVars, settingsRefs
<1> QED
  BY <1>4, <1>5, <1>6 DEF RouterInv

LEMMA CreateKeeps ==
    ASSUME RouterInv, NEW c \in Convs, HandleCreate(c)
    PROVE  RouterInv'
<1>1. /\ Rendered /\ UNCHANGED <<browserVars, show, shown, section, popping, settingsRefs>>
      /\ UNCHANGED <<active, activeRef, dirty, channels, contacts, channelsLoaded, contactsLoaded,
                     defaultSet, deleteFallback, hashSync, push, deviceVars, listReply, deleting>>
      /\ creating' = c
      /\ serverChannels' = serverChannels \cup ({c} \cap Channels)
      /\ serverContacts' = serverContacts \cup ({c} \cap Contacts)
  BY DEF HandleCreate, Rendered, viewVars, listVars, refVars
<1>2. RouterTypeOK /\ ListsKnown /\ ChoiceDue
  BY DEF RouterInv
<1>4. SettingsDue' /\ EntryBehind' /\ ViewDue'
  BY <1>1, AddressKept DEF Rendered
<1>5. ChoiceDue'
  BY <1>1, <1>2, ChoiceKept
<1>6. RouterTypeOK' /\ ListsKnown'
  BY <1>1, <1>2, PlaceTyped DEF RouterTypeOK, ListsKnown, listVars, refVars, viewVars, deviceVars, serverVars, asked, browserVars, settingsRefs
<1> QED
  BY <1>4, <1>5, <1>6 DEF RouterInv

LEMMA ElsewhereKeeps ==
    ASSUME RouterInv, NEW c \in Convs, DeletedElsewhere(c)
    PROVE  RouterInv'
<1>1. /\ Rendered /\ UNCHANGED <<browserVars, show, shown, section, popping, settingsRefs>>
      /\ UNCHANGED <<active, activeRef, dirty, channels, contacts, channelsLoaded, contactsLoaded,
                     defaultSet, deleteFallback, hashSync, push, deviceVars, listReply, asked>>
      /\ serverChannels' \subseteq serverChannels /\ serverContacts' \subseteq serverContacts
  BY DEF DeletedElsewhere, viewVars, listVars, refVars
<1>2. RouterTypeOK /\ ListsKnown /\ ChoiceDue
  BY DEF RouterInv
<1>4. SettingsDue' /\ EntryBehind' /\ ViewDue'
  BY <1>1, AddressKept DEF Rendered
<1>5. ChoiceDue'
  BY <1>1, <1>2, ChoiceKept
<1>6. RouterTypeOK' /\ ListsKnown'
  BY <1>1, <1>2, PlaceTyped DEF RouterTypeOK, ListsKnown, listVars, refVars, viewVars, deviceVars, serverVars, asked, browserVars, settingsRefs
<1> QED
  BY <1>4, <1>5, <1>6 DEF RouterInv

LEMMA OnDeletedKeeps ==
    ASSUME RouterInv, NEW c \in Convs, OnDeleted(c)
    PROVE  RouterInv'
<1>1. /\ Rendered /\ UNCHANGED <<browserVars, show, shown, section, popping, settingsRefs>>
      /\ UNCHANGED <<activeRef, channelsLoaded, contactsLoaded, defaultSet, deviceVars,
                     serverChannels, serverContacts, listReply, asked>>
      /\ channels' \subseteq channels /\ contacts' \subseteq contacts
      /\ \/ /\ active' = Nothing /\ dirty' = dirty \cup {"active"} /\ deleteFallback' = TRUE
            /\ hashSync' = TRUE /\ push' = TRUE
         \/ UNCHANGED <<active, hashSync, push, deleteFallback, dirty>>
  BY DEF OnDeleted, SetActive
<1>2. RouterTypeOK /\ ListsKnown /\ ChoiceDue
  BY DEF RouterInv
<1>4. SettingsDue' /\ EntryBehind' /\ ViewDue'
  BY <1>1, AddressKept DEF Rendered
<1>5. ChoiceDue'
  BY <1>1, <1>2, ChoiceKept
<1>6. RouterTypeOK' /\ ListsKnown'
  BY <1>1, <1>2, PlaceTyped DEF RouterTypeOK, ListsKnown, listVars, refVars, viewVars, deviceVars, serverVars, asked, browserVars, settingsRefs
<1> QED
  BY <1>4, <1>5, <1>6 DEF RouterInv

LEMMA ReopenKeeps ==
    ASSUME RouterInv, ToggleReopen
    PROVE  RouterInv'
<1>1. /\ Rendered /\ UNCHANGED <<browserVars, show, shown, section, popping, settingsRefs>>
      /\ UNCHANGED <<active, activeRef, dirty, channels, contacts, channelsLoaded, contactsLoaded,
                     defaultSet, deleteFallback, hashSync, push, serverVars, listReply, asked>>
      /\ reopen' \in BOOLEAN /\ lastViewed' \in Convs \cup {Nothing, lastViewed}
  BY DEF ToggleReopen, Captured, ConversationOf, Rendered, viewVars, listVars, refVars
<1>2. RouterTypeOK /\ ListsKnown /\ ChoiceDue
  BY DEF RouterInv
<1>4. SettingsDue' /\ EntryBehind' /\ ViewDue'
  BY <1>1, AddressKept DEF Rendered
<1>5. ChoiceDue'
  BY <1>1, <1>2, ChoiceKept
<1>6. RouterTypeOK' /\ ListsKnown'
  BY <1>1, <1>2, PlaceTyped DEF RouterTypeOK, ListsKnown, listVars, refVars, viewVars, deviceVars, serverVars, asked, browserVars, settingsRefs
<1> QED
  BY <1>4, <1>5, <1>6 DEF RouterInv

LEMMA ChannelsArriveKeeps ==
    ASSUME RouterInv, NEW list \in listReply.channels, ChannelsArrive(list)
    PROVE  RouterInv'
<1>1. /\ Rendered /\ UNCHANGED <<browserVars, show, shown, section, popping, settingsRefs>>
      /\ UNCHANGED <<active, activeRef, contacts, contactsLoaded, defaultSet, deleteFallback, hashSync, push,
                     deviceVars, serverVars, asked>>
      /\ channels' \in {list, channels} /\ channelsLoaded' = TRUE /\ dirty' = dirty \cup {"lists"}
      /\ listReply' = [listReply EXCEPT !.channels = @ \ {list}]
  BY DEF ChannelsArrive, refVars
<1>2. RouterTypeOK /\ ListsKnown /\ ChoiceDue
  BY DEF RouterInv
<1>3. /\ list \subseteq Channels
      /\ listReply' \in [channels : SUBSET SUBSET Channels, contacts : SUBSET SUBSET Contacts]
  BY <1>1, <1>2 DEF ListsKnown
<1>4. SettingsDue' /\ EntryBehind' /\ ViewDue'
  BY <1>1, <1>3, AddressKept DEF Rendered
<1>5. ChoiceDue'
  BY <1>1, <1>2, <1>3, ChoiceKept
<1>6. RouterTypeOK' /\ ListsKnown'
  BY <1>1, <1>2, <1>3, PlaceTyped DEF RouterTypeOK, ListsKnown, listVars, refVars, viewVars, deviceVars, serverVars, asked, browserVars, settingsRefs
<1> QED
  BY <1>4, <1>5, <1>6 DEF RouterInv

LEMMA ContactsArriveKeeps ==
    ASSUME RouterInv, NEW list \in listReply.contacts, ContactsArrive(list)
    PROVE  RouterInv'
<1>1. /\ Rendered /\ UNCHANGED <<browserVars, show, shown, section, popping, settingsRefs>>
      /\ UNCHANGED <<active, activeRef, channels, channelsLoaded, defaultSet, deleteFallback, hashSync, push,
                     deviceVars, serverVars, asked>>
      /\ contacts' \in {list, contacts} /\ contactsLoaded' = TRUE /\ dirty' = dirty \cup {"lists"}
      /\ listReply' = [listReply EXCEPT !.contacts = @ \ {list}]
  BY DEF ContactsArrive, refVars
<1>2. RouterTypeOK /\ ListsKnown /\ ChoiceDue
  BY DEF RouterInv
<1>3. /\ list \subseteq Contacts
      /\ listReply' \in [channels : SUBSET SUBSET Channels, contacts : SUBSET SUBSET Contacts]
  BY <1>1, <1>2 DEF ListsKnown
<1>4. SettingsDue' /\ EntryBehind' /\ ViewDue'
  BY <1>1, <1>3, AddressKept DEF Rendered
<1>5. ChoiceDue'
  BY <1>1, <1>2, <1>3, ChoiceKept
<1>6. RouterTypeOK' /\ ListsKnown'
  BY <1>1, <1>2, <1>3, PlaceTyped DEF RouterTypeOK, ListsKnown, listVars, refVars, viewVars, deviceVars, serverVars, asked, browserVars, settingsRefs
<1> QED
  BY <1>4, <1>5, <1>6 DEF RouterInv

LEMMA ReconnectKeeps ==
    ASSUME RouterInv, OnReconnect
    PROVE  RouterInv'
<1>1. /\ Rendered /\ UNCHANGED <<browserVars, show, shown, section, popping, settingsRefs>>
      /\ UNCHANGED <<active, activeRef, dirty, channels, contacts, channelsLoaded, contactsLoaded,
                     defaultSet, deleteFallback, hashSync, push, deviceVars, serverVars, asked>>
      /\ listReply' = [channels |-> listReply.channels \cup {serverChannels},
                       contacts |-> listReply.contacts \cup {serverContacts}]
  BY DEF OnReconnect, viewVars, listVars, refVars
<1>2. RouterTypeOK /\ ListsKnown /\ ChoiceDue
  BY DEF RouterInv
<1>3. listReply' \in [channels : SUBSET SUBSET Channels, contacts : SUBSET SUBSET Contacts]
  BY <1>1, <1>2 DEF ListsKnown
<1>4. SettingsDue' /\ EntryBehind' /\ ViewDue'
  BY <1>1, <1>3, AddressKept DEF Rendered
<1>5. ChoiceDue'
  BY <1>1, <1>2, <1>3, ChoiceKept
<1>6. RouterTypeOK' /\ ListsKnown'
  BY <1>1, <1>2, <1>3, PlaceTyped DEF RouterTypeOK, ListsKnown, listVars, refVars, viewVars, deviceVars, serverVars, asked, browserVars, settingsRefs
<1> QED
  BY <1>4, <1>5, <1>6 DEF RouterInv

LEMMA DeleteReturnsKeeps ==
    ASSUME RouterInv, DeleteReturns
    PROVE  RouterInv'
<1>1. /\ Rendered /\ UNCHANGED <<browserVars, show, shown, section, popping, settingsRefs>>
      /\ UNCHANGED <<activeRef, channelsLoaded, contactsLoaded, deleteFallback, deviceVars,
                     serverVars, listReply, creating>>
      /\ deleting' = Nothing
      /\ \/ /\ contacts' = contacts \ {deleting} /\ channels' = serverChannels
            /\ defaultSet' = TRUE
            /\ active' = Public /\ dirty' = dirty \cup {"active", "lists"}
            /\ hashSync' = TRUE /\ push' = TRUE
         \/ UNCHANGED <<contacts, channels, defaultSet, active, dirty, hashSync, push>>
  BY DEF DeleteReturns
<1>2. RouterTypeOK /\ ListsKnown /\ ChoiceDue
  BY DEF RouterInv
<1>3. Public \in Convs /\ Public # Nothing
  BY RouterAssumption DEF Convs, Channels
<1>4. SettingsDue' /\ EntryBehind' /\ ViewDue'
  BY <1>1, <1>3, AddressKept DEF Rendered
<1>5. ChoiceDue'
  BY <1>1, <1>2, <1>3, ChoiceKept
<1>6. RouterTypeOK' /\ ListsKnown'
  BY <1>1, <1>2, <1>3, PlaceTyped DEF RouterTypeOK, ListsKnown, listVars, refVars, viewVars, deviceVars, serverVars, asked, browserVars, settingsRefs
<1> QED
  BY <1>4, <1>5, <1>6 DEF RouterInv

LEMMA CreateReturnsKeeps ==
    ASSUME RouterInv, CreateReturns
    PROVE  RouterInv'
<1>1. /\ Rendered /\ UNCHANGED <<browserVars, show, shown, section, popping, settingsRefs>>
      /\ UNCHANGED <<activeRef, channelsLoaded, contactsLoaded, defaultSet, deleteFallback, deviceVars,
                     serverVars, listReply, deleting>>
      /\ creating' = Nothing /\ creating # Nothing
      /\ \/ /\ channels' \in {serverChannels, channels} /\ contacts' \in {serverContacts, contacts}
            /\ active' = creating /\ dirty' = dirty \cup {"active"} /\ hashSync' = TRUE /\ push' = TRUE
         \/ UNCHANGED <<channels, contacts, active, dirty, hashSync, push>>
  BY DEF CreateReturns, SetActive
<1>2. RouterTypeOK /\ ListsKnown /\ ChoiceDue
  BY DEF RouterInv
<1>4. SettingsDue' /\ EntryBehind' /\ ViewDue'
  BY <1>1, AddressKept DEF Rendered
<1>5. ChoiceDue'
  BY <1>1, <1>2, ChoiceKept
<1>6. RouterTypeOK' /\ ListsKnown'
  BY <1>1, <1>2, PlaceTyped DEF RouterTypeOK, ListsKnown, listVars, refVars, viewVars, deviceVars, serverVars, asked, browserVars, settingsRefs
<1> QED
  BY <1>4, <1>5, <1>6 DEF RouterInv

LEMMA KeyLearnedKeeps ==
    ASSUME RouterInv, KeyLearned
    PROVE  RouterInv'
<1>1. /\ Rendered /\ UNCHANGED <<browserVars, show, shown, section, popping, settingsRefs>>
      /\ UNCHANGED <<active, activeRef, dirty, channels, contacts, channelsLoaded, contactsLoaded,
                     defaultSet, deleteFallback, hashSync, push, deviceVars, serverChannels, listReply, asked>>
      /\ serverContacts' = (serverContacts \ {KeyPrefix}) \cup {FullKey}
  BY DEF KeyLearned, viewVars, listVars, refVars
<1>2. RouterTypeOK /\ ListsKnown /\ ChoiceDue
  BY DEF RouterInv
<1>3. FullKey \in Contacts
  BY DEF Contacts
<1>4. SettingsDue' /\ EntryBehind' /\ ViewDue'
  BY <1>1, <1>3, AddressKept DEF Rendered
<1>5. ChoiceDue'
  BY <1>1, <1>2, <1>3, ChoiceKept
<1>6. RouterTypeOK' /\ ListsKnown'
  BY <1>1, <1>2, <1>3, PlaceTyped DEF RouterTypeOK, ListsKnown, listVars, refVars, viewVars, deviceVars, serverVars, asked, browserVars, settingsRefs
<1> QED
  BY <1>4, <1>5, <1>6 DEF RouterInv

LEMMA ResolvedKeeps ==
    ASSUME RouterInv, OnContactResolved
    PROVE  RouterInv'
<1>1. /\ Rendered /\ UNCHANGED <<browserVars, show, shown, section, popping, settingsRefs>>
      /\ UNCHANGED <<activeRef, channels, channelsLoaded, contactsLoaded, defaultSet, deleteFallback,
                     deviceVars, serverChannels, serverContacts, listReply, asked>>
      /\ contacts' = (contacts \ {KeyPrefix}) \cup {FullKey}
      /\ \/ active' = FullKey /\ dirty' = dirty \cup {"active"} /\ hashSync' = TRUE /\ push' = TRUE
         \/ UNCHANGED <<active, hashSync, push, dirty>>
  BY DEF OnContactResolved, SetActive
<1>2. RouterTypeOK /\ ListsKnown /\ ChoiceDue
  BY DEF RouterInv
<1>3. FullKey \in Contacts /\ FullKey \in Convs /\ FullKey # Nothing
  BY RouterAssumption DEF Contacts, Convs
<1>4. SettingsDue' /\ EntryBehind' /\ ViewDue'
  BY <1>1, <1>3, AddressKept DEF Rendered
<1>5. ChoiceDue'
  BY <1>1, <1>2, <1>3, ChoiceKept
<1>6. RouterTypeOK' /\ ListsKnown'
  BY <1>1, <1>2, <1>3, PlaceTyped DEF RouterTypeOK, ListsKnown, listVars, refVars, viewVars, deviceVars, serverVars, asked, browserVars, settingsRefs
<1> QED
  BY <1>4, <1>5, <1>6 DEF RouterInv

-----------------------------------------------------------------------------
(* The settings view, the browser's history and the page.                   *)

LEMMA OpenSettingsKeeps ==
    ASSUME RouterInv, NEW s \in Sections, OpenSettings(s)
    PROVE  RouterInv'
<1>1. /\ RouterTypeOK /\ ListsKnown /\ ChoiceDue /\ SettingsDue /\ EntryBehind /\ ViewDue
  BY DEF RouterInv
<1>2. /\ dirty = {} /\ section' = s
      /\ dirty' = (IF s # section THEN {"section"} ELSE {}) \cup (IF show' # shown THEN {"show"} ELSE {})
      /\ UNCHANGED <<browserVars, active, activeRef, shown, listVars, refVars, deviceVars,
                     serverVars, listReply, asked>>
  BY DEF OpenSettings
<1>3. \/ shown /\ UNCHANGED <<show, previousHash, opening, pushed>>
      \/ /\ ~shown /\ show' = TRUE /\ opening' = TRUE /\ pushed' = TRUE
         /\ previousHash' = IF IsSettings(hash) THEN previousHash ELSE hash
  BY DEF OpenSettings
<1>4. show = shown /\ show \in BOOLEAN /\ shown \in BOOLEAN /\ ~popping
  BY <1>1, <1>2 DEF RouterTypeOK, SettingsDue, ViewDue
<1>5. show' = TRUE /\ dirty' \subseteq {"show", "section"}
  BY <1>2, <1>3, <1>4
<1>6. hash \in Hashes /\ previousHash' \in Hashes \ Sections
  BY <1>1, <1>3 DEF RouterTypeOK, hash, IsSettings
<1>7. RouterTypeOK' /\ ListsKnown'
  BY <1>1, <1>2, <1>3, <1>5, <1>6, PlaceTyped
     DEF RouterTypeOK, ListsKnown, listVars, refVars, deviceVars, serverVars, asked, browserVars
<1>8. ChoiceDue'
  BY <1>1, <1>2 DEF ChoiceDue, listVars, refVars
<1>9. /\ history' = history /\ at' = at /\ traversing' = traversing /\ hash' = hash
      /\ shown' = shown /\ popping' = popping /\ hashSync' = hashSync /\ active' = active
  BY <1>2 DEF browserVars, refVars, hash
<1>10. SettingsDue'
  <2>1. show' # shown' => "show" \in dirty'
    BY <1>2, <1>9
  <2>2. ~traversing => hash' = section' \/ "section" \in dirty' \/ ~shown'
    BY <1>1, <1>2, <1>4, <1>9 DEF SettingsDue
  <2> QED
    BY <1>5, <1>9, <2>1, <2>2 DEF SettingsDue
<1>11. EntryBehind'
  <2>1. CASE shown
    BY <1>1, <1>3, <1>4, <1>9, <2>1 DEF EntryBehind
  <2>2. CASE ~shown
    BY <1>1, <1>3, <1>4, <1>9, <2>2 DEF EntryBehind
  <2> QED
    BY <2>1, <2>2
<1>12. ViewDue'
  <2>1. ~hashSync' => hash' \notin Views /\ previousHash' \notin Views
    BY <1>1, <1>3, <1>9 DEF ViewDue
  <2>2. (~traversing' /\ hash' \in Views /\ active' \notin {hash', Nothing}) => FALSE
    BY <1>1, <1>2, <1>4, <1>9 DEF ViewDue
  <2> QED
    BY <1>4, <1>9, <2>1, <2>2 DEF ViewDue
<1> QED
  BY <1>7, <1>8, <1>10, <1>11, <1>12 DEF RouterInv

LEMMA CloseSettingsKeeps ==
    ASSUME RouterInv, CloseSettings
    PROVE  RouterInv'
<1>1. /\ RouterTypeOK /\ ListsKnown /\ ChoiceDue /\ SettingsDue /\ EntryBehind /\ ViewDue
  BY DEF RouterInv
<1>2. /\ dirty = {} /\ shown /\ ~traversing /\ show' = FALSE /\ dirty' = {"show"}
      /\ pushed' = FALSE /\ traversing' = pushed
      /\ history' = IF ~pushed /\ IsSettings(hash) THEN Replaced(previousHash)[1] ELSE history
      /\ UNCHANGED <<at, active, activeRef, shown, section, listVars, refVars, previousHash, opening,
                     deviceVars, serverVars, listReply, asked>>
  BY DEF CloseSettings
<1>3. show /\ hash = section /\ IsSettings(hash)
  BY <1>1, <1>2 DEF RouterTypeOK, SettingsDue, IsSettings
<1>4. /\ previousHash \in Hashes /\ previousHash \notin Sections /\ at \in 1..Len(history) /\ Len(history) \in Nat
      /\ pushed \in BOOLEAN
  BY <1>1 DEF RouterTypeOK, ListsKnown
<1>5. ~pushed => /\ Entered(<<history', at'>>, previousHash) /\ at' = at
                 /\ hash' = previousHash
  <2>1. SUFFICES ASSUME ~pushed
                 PROVE  /\ Entered(<<history', at'>>, previousHash) /\ at' = at
                        /\ hash' = previousHash
    OBVIOUS
  <2>2. history' = Replaced(previousHash)[1] /\ at' = at
    BY <1>2, <1>3, <2>1
  <2>3. Entered(<<history', at'>>, previousHash)
    BY <1>1, <1>4, <2>2, EntryWritten DEF Entered
  <2> QED
    BY <2>2, <2>3 DEF Entered, hash
<1>6. pushed => history' = history /\ at' = at /\ hash' = hash
  BY <1>2 DEF hash
<1>7. history' \in Seq(Hashes) /\ at' \in 1..Len(history')
  BY <1>1, <1>4, <1>5, <1>6 DEF Entered, ListsKnown
<1>8. RouterTypeOK' /\ ListsKnown'
  <2>1. at' \in DOMAIN history' /\ \A i \in DOMAIN history' : history'[i] \in Hashes
    BY <1>7
  <2> QED
    BY <1>1, <1>2, <1>4, <1>7, <2>1
       DEF RouterTypeOK, ListsKnown, listVars, refVars, deviceVars, serverVars, asked
<1>9. ChoiceDue'
  BY <1>1, <1>2 DEF ChoiceDue, listVars, refVars
<1>10. SettingsDue'
  BY <1>2, <1>4, <1>5 DEF SettingsDue
<1>11. EntryBehind'
  <2>1. pushed => at > 1
    BY <1>1, <1>3, <1>4 DEF EntryBehind, hash, IsSettings
  <2>2. history'[1] \notin Sections
    <3>1. CASE pushed
      BY <1>1, <1>6, <3>1 DEF EntryBehind
    <3>2. CASE ~pushed /\ at = 1
      BY <1>4, <1>5, <3>2 DEF hash
    <3>3. CASE ~pushed /\ at # 1
      BY <1>1, <1>4, <1>5, <3>3 DEF EntryBehind, Entered
    <3> QED
      BY <1>4, <3>1, <3>2, <3>3
  <2> QED
    BY <1>2, <1>5, <1>6, <2>1, <2>2 DEF EntryBehind
<1>12. ViewDue'
  <2>1. hashSync' = hashSync /\ popping' = popping /\ previousHash' = previousHash /\ shown' = shown
    BY <1>2 DEF refVars
  <2>2. ~popping
    BY <1>1, <1>2 DEF ViewDue
  <2>3. ~hashSync => hash' \notin Views /\ previousHash \notin Views
    BY <1>1, <1>4, <1>5, <1>6 DEF ViewDue
  <2>4. shown = TRUE
    BY <1>1, <1>2 DEF RouterTypeOK
  <2> QED
    BY <1>2, <2>1, <2>2, <2>3, <2>4 DEF ViewDue
<1> QED
  BY <1>8, <1>9, <1>10, <1>11, <1>12 DEF RouterInv

\* Wherever the browser arrives, unless an unfinished traversal is left behind.
LEMMA PopstateKeeps ==
    ASSUME RouterInv, Rendered, NEW to \in DOMAIN history, Popstate(to), traversing' = FALSE
    PROVE  RouterInv'
<1>1. /\ RouterTypeOK /\ ListsKnown /\ ChoiceDue /\ SettingsDue /\ EntryBehind /\ ViewDue
  BY DEF RouterInv
<1> DEFINE h    == history[to]
           conv == IF Resolved(h, channels, contacts) # Nothing
                   THEN Resolved(h, channels, contacts) ELSE PublicOf(channels)
<1>2. /\ at' = to /\ history' = history /\ hash' = h
      /\ UNCHANGED <<activeRef, shown, listVars, defaultSet, deleteFallback, push,
                     settingsRefs, deviceVars, serverVars, listReply, asked>>
  BY DEF Popstate, hash
<1>3. CASE IsSettings(h)
  <2>1. /\ show' = TRUE /\ section' = h
        /\ dirty' = dirty \cup (IF h # section THEN {"section"} ELSE {}) \cup (IF ~shown THEN {"show"} ELSE {})
        /\ UNCHANGED <<active, hashSync, popping>>
    BY <1>3 DEF Popstate
  <2>2. "active" \notin dirty /\ "section" \notin dirty /\ "lists" \notin dirty /\ ~popping
    BY <1>1 DEF Rendered, ViewDue
  <2>3. RouterTypeOK' /\ ListsKnown'
    BY <1>1, <1>2, <1>3, <2>1
       DEF RouterTypeOK, ListsKnown, listVars, settingsRefs, deviceVars, serverVars, asked, IsSettings
  <2>4. ChoiceDue'
    BY <1>1, <1>2, <2>1 DEF ChoiceDue, listVars
  <2>5. SettingsDue'
    BY <1>1, <1>2, <2>1 DEF SettingsDue, RouterTypeOK
  <2>6. EntryBehind'
    <3>1. Len(history) \in Nat /\ to \in 1..Len(history) /\ history \in Seq(Hashes)
      BY <1>1 DEF ListsKnown
    <3>2. opening' = opening /\ pushed' = pushed /\ shown' = shown
      BY <1>2 DEF settingsRefs
    <3>3. CASE history[1] \in Sections
      <4>1. Len(history) = 1 /\ show /\ shown /\ ~pushed /\ ~opening
        BY <1>1, <3>3, Zenon DEF EntryBehind
      <4> QED
        BY <1>2, <2>1, <3>1, <3>2, <3>3, <4>1 DEF EntryBehind
    <3>4. CASE history[1] \notin Sections
      <4>1. to # 1
        BY <1>3, <3>4 DEF IsSettings
      <4> QED
        BY <1>2, <3>4, <4>1 DEF EntryBehind
    <3> QED
      BY <3>3, <3>4
  <2>7. ViewDue'
    <3>1. h \notin Views
      BY <1>3, Apart DEF IsSettings
    <3>2. hashSync' = hashSync /\ popping' = popping /\ previousHash' = previousHash
      BY <1>2, <2>1 DEF settingsRefs
    <3> QED
      BY <1>1, <1>2, <2>2, <3>1, <3>2 DEF ViewDue
  <2> QED
    BY <2>3, <2>4, <2>5, <2>6, <2>7 DEF RouterInv
<1>4. CASE ~IsSettings(h)
  <2>1. /\ show' = FALSE /\ section' = section
        /\ dirty' = (IF shown THEN dirty \cup {"show"} ELSE dirty \ {"show"})
                    \cup (IF conv # Nothing THEN {"active"} ELSE {})
        /\ \/ conv = Nothing /\ UNCHANGED <<active, hashSync, popping>>
           \/ conv # Nothing /\ active' = conv /\ hashSync' = TRUE /\ popping' = TRUE
    BY <1>4 DEF Popstate
  <2>2. "active" \notin dirty /\ "section" \notin dirty /\ "lists" \notin dirty /\ ~popping
    BY <1>1 DEF Rendered, ViewDue
  <2>3. conv \in Convs \cup {Nothing} /\ (h \in Views => conv = h /\ h # Nothing)
    <3>1. h \in Views => Resolved(h, channels, contacts) = h /\ h # Nothing
      BY Apart DEF Resolved
    <3>2. Resolved(h, channels, contacts) \in Convs \cup {Nothing}
      BY <1>1 DEF Resolved, FromToken, RouterTypeOK, Convs
    <3>3. PublicOf(channels) \in Convs \cup {Nothing}
      BY <1>1 DEF PublicOf, Convs, RouterTypeOK
    <3> QED
      BY <3>1, <3>2, <3>3
  <2> HIDE DEF conv
  <2>4. RouterTypeOK' /\ ListsKnown'
    BY <1>1, <1>2, <2>1, <2>3
       DEF RouterTypeOK, ListsKnown, listVars, settingsRefs, deviceVars, serverVars, asked
  <2>5. ChoiceDue'
    BY <1>1, <1>2, <2>1, <2>2 DEF ChoiceDue, listVars
  <2>6. SettingsDue'
    <3>1. shown' = shown /\ shown \in BOOLEAN /\ "section" \notin dirty'
      BY <1>1, <1>2, <2>1, <2>2 DEF RouterTypeOK
    <3> QED
      BY <1>2, <1>4, <2>1, <3>1 DEF SettingsDue, IsSettings
  <2>7. EntryBehind'
    <3>1. Len(history) \in Nat /\ to \in 1..Len(history) /\ history \in Seq(Hashes)
      BY <1>1 DEF ListsKnown
    <3>2. history[1] \notin Sections
      <4>1. SUFFICES ASSUME history[1] \in Sections PROVE FALSE
        OBVIOUS
      <4>2. Len(history) = 1
        BY <1>1, <4>1, Zenon DEF EntryBehind
      <4> QED
        BY <1>4, <3>1, <4>1, <4>2 DEF IsSettings
    <3> QED
      BY <1>2, <2>1, <3>2 DEF EntryBehind
  <2>8. ViewDue'
    <3>1. previousHash' = previousHash
      BY <1>2 DEF settingsRefs
    <3>2. CASE conv = Nothing
      BY <1>1, <1>2, <2>1, <2>2, <2>3, <3>1, <3>2 DEF ViewDue
    <3>3. CASE conv # Nothing
      BY <1>2, <2>1, <2>3, <3>1, <3>3 DEF ViewDue
    <3> QED
      BY <3>2, <3>3
  <2> QED
    BY <2>4, <2>5, <2>6, <2>7, <2>8 DEF RouterInv
<1> QED
  BY <1>3, <1>4

LEMMA HistoryKeeps ==
    ASSUME RouterInv, BackOrForward \/ Traversed
    PROVE  RouterInv'
<1>1. /\ Len(history) \in Nat /\ at \in 1..Len(history) /\ DOMAIN history = 1..Len(history)
      /\ traversing \in BOOLEAN
  BY DEF RouterInv, RouterTypeOK, ListsKnown
<1>2. CASE BackOrForward
  <2>1. Rendered /\ traversing' = FALSE
    BY <1>1, <1>2 DEF BackOrForward, Rendered
  <2>2. PICK to \in DOMAIN history : Popstate(to)
    BY <1>2 DEF BackOrForward
  <2> QED
    BY <2>1, <2>2, PopstateKeeps
<1>3. CASE Traversed
  <2>1. at > 1
    BY <1>3 DEF Traversed, RouterInv, EntryBehind
  <2>2. Rendered /\ traversing' = FALSE /\ Popstate(at - 1)
    BY <1>3, <2>1 DEF Traversed
  <2>3. at - 1 \in DOMAIN history
    BY <1>1, <2>1
  <2> QED
    BY <2>2, <2>3, PopstateKeeps
<1> QED
  BY <1>2, <1>3

LEMMA LoadedPage ==
    ASSUME RouterAssumption, NEW h \in Hashes
    PROVE  (IF IsSettings(h) THEN h ELSE DefaultSection) \in Sections
BY DEF IsSettings, DefaultSection, RouterAssumption

LEMMA ReloadKeeps ==
    ASSUME RouterInv, Reload
    PROVE  RouterInv'
<1>1. /\ RouterTypeOK /\ ListsKnown /\ EntryBehind
  BY DEF RouterInv
<1>2. /\ UNCHANGED <<browserVars, deviceVars, serverChannels, serverContacts>> /\ ~traversing
      /\ active' = Nothing /\ activeRef' = Nothing /\ dirty' = {"active"}
      /\ show' = IsSettings(hash) /\ shown' = IsSettings(hash)
      /\ section' = IF IsSettings(hash) THEN hash ELSE DefaultSection
      /\ channels' = {} /\ contacts' = {} /\ channelsLoaded' = FALSE /\ contactsLoaded' = FALSE
      /\ defaultSet' = FALSE /\ deleteFallback' = FALSE
      /\ hashSync' = FollowsFrom(hash) /\ push' = FALSE /\ popping' = FALSE
      /\ previousHash' = Nothing /\ opening' = FALSE /\ pushed' = FALSE
      /\ listReply' = [channels |-> {serverChannels}, contacts |-> {serverContacts}]
      /\ deleting' = Nothing /\ creating' = Nothing
  BY DEF Reload
<1>3. hash \in Hashes /\ hash' = hash /\ traversing' = traversing /\ history' = history /\ at' = at
  BY <1>1, <1>2 DEF RouterTypeOK, hash, browserVars
<1>4. section' \in Sections
  BY <1>2, <1>3, LoadedPage, RouterAssumption
<1>5. Nothing \in Hashes \ Sections
  BY Apart DEF Hashes
<1>6. show' \in BOOLEAN /\ shown' \in BOOLEAN /\ hashSync' \in BOOLEAN
  BY <1>2 DEF IsSettings, FollowsFrom
<1>7. RouterTypeOK' /\ ListsKnown'
  <2>1. ListsKnown'
    BY <1>1, <1>2, <1>3 DEF ListsKnown
  <2>2. at' \in DOMAIN history' /\ \A i \in DOMAIN history' : history'[i] \in Hashes
    BY <1>1, <1>3 DEF RouterTypeOK
  <2>3. {active, activeRef, lastViewed, deleting, creating}' \subseteq Convs \cup {Nothing}
    BY <1>1, <1>2 DEF RouterTypeOK, deviceVars
  <2>4. reopen' \in BOOLEAN /\ traversing' \in BOOLEAN
    BY <1>1, <1>2, <1>3 DEF RouterTypeOK, deviceVars
  <2> QED
    BY <1>2, <1>4, <1>5, <1>6, <2>1, <2>2, <2>3, <2>4 DEF RouterTypeOK
<1>8. ChoiceDue'
  BY <1>2 DEF ChoiceDue
<1>9. SettingsDue'
  BY <1>2, <1>3 DEF SettingsDue, IsSettings
<1>10. EntryBehind'
  <2>1. Len(history) \in Nat /\ at \in 1..Len(history)
    BY <1>1 DEF ListsKnown, RouterTypeOK
  <2>2. history[1] \in Sections => Len(history) = 1
    BY <1>1, Zenon DEF EntryBehind
  <2>3. show' = (hash \in Sections) /\ shown' = (hash \in Sections)
    BY <1>2 DEF IsSettings
  <2>4. CASE history[1] \in Sections
    <3>0. Len(history) = 1
      BY <2>2, <2>4
    <3>1. at = 1
      BY <2>1, <3>0
    <3>2. hash \in Sections
      BY <2>4, <3>1 DEF hash
    <3> QED
      BY <1>2, <1>3, <2>2, <2>3, <2>4, <3>1, <3>2 DEF EntryBehind
  <2>5. CASE history[1] \notin Sections
    <3>1. at = 1 => ~show'
      BY <2>3, <2>5 DEF hash
    <3> QED
      BY <1>2, <1>3, <2>5, <3>1 DEF EntryBehind
  <2> QED
    BY <2>4, <2>5
<1>11. ViewDue'
  BY <1>2, <1>3, Apart DEF ViewDue, FollowsFrom, IsSettings
<1> QED
  BY <1>7, <1>8, <1>9, <1>10, <1>11 DEF RouterInv

LEMMA RouterStarts ==
    ASSUME RouterInit
    PROVE  RouterInv
<1>1. PICK start \in Starts : LET h == start.hash IN
         /\ history = <<h>>
         /\ show = IsSettings(h) /\ shown = IsSettings(h)
         /\ section = IF IsSettings(h) THEN h ELSE DefaultSection
         /\ hashSync = FollowsFrom(h)
         /\ reopen = start.reopen /\ lastViewed = start.lastViewed
  BY DEF RouterInit
<1>2. start \in [hash : Hashes, reopen : BOOLEAN, lastViewed : Convs \cup {Nothing}]
  BY RouterAssumption
<1> DEFINE h == start.hash
<1>3. h \in Hashes /\ reopen \in BOOLEAN /\ lastViewed \in Convs \cup {Nothing}
  BY <1>1, <1>2
<1> HIDE DEF h
<1>4. /\ history = <<h>> /\ at = 1 /\ hash = h /\ history \in Seq(Hashes) /\ Len(history) = 1
      /\ history[1] = h /\ DOMAIN history = {1}
  BY <1>1, <1>3 DEF RouterInit, hash, h
<1>5. section \in Sections /\ show = IsSettings(h) /\ shown = IsSettings(h) /\ hashSync = FollowsFrom(h)
      /\ (IsSettings(h) => section = h)
  BY <1>1, <1>3, LoadedPage, RouterAssumption DEF h
<1>6. /\ active = Nothing /\ activeRef = Nothing /\ dirty = {"active"} /\ traversing = FALSE
      /\ channels = {} /\ contacts = {} /\ channelsLoaded = FALSE /\ contactsLoaded = FALSE
      /\ defaultSet = FALSE /\ deleteFallback = FALSE /\ push = FALSE /\ popping = FALSE
      /\ previousHash = Nothing /\ opening = FALSE /\ pushed = FALSE
      /\ listReply = [channels |-> {serverChannels}, contacts |-> {serverContacts}]
      /\ deleting = Nothing /\ creating = Nothing
      /\ serverChannels = Channels /\ serverContacts = Contacts
  BY DEF RouterInit, Contacts
<1>7. Nothing \in Hashes \ Sections
  BY Apart DEF Hashes
<1>8. show \in BOOLEAN /\ shown \in BOOLEAN /\ hashSync \in BOOLEAN
  BY <1>5 DEF IsSettings, FollowsFrom
<1>9. RouterTypeOK
  BY <1>3, <1>4, <1>5, <1>6, <1>7, <1>8 DEF RouterTypeOK
<1>10. ListsKnown
  BY <1>4, <1>6 DEF ListsKnown
<1>11. ChoiceDue
  BY <1>6 DEF ChoiceDue
<1>12. SettingsDue
  BY <1>4, <1>5, <1>6 DEF SettingsDue, IsSettings
<1>13. EntryBehind
  BY <1>4, <1>5, <1>6 DEF EntryBehind, IsSettings
<1>14. ViewDue
  BY <1>4, <1>5, <1>6, Apart DEF ViewDue, FollowsFrom, IsSettings
<1> QED
  BY <1>9, <1>10, <1>11, <1>12, <1>13, <1>14 DEF RouterInv

LEMMA RouterStep ==
    ASSUME RouterInv, [RouterNext]_routerVars
    PROVE  RouterInv'
<1>1. CASE Commit
  BY <1>1, CommitTyped, CommitChooses, CommitSettles DEF RouterInv
<1>2. ASSUME NEW c \in Convs,
             \/ HandleSelectConversation(c) \/ HandleDelete(c) \/ HandleCreate(c)
             \/ DeletedElsewhere(c) \/ OnDeleted(c)
      PROVE  RouterInv'
  BY <1>2, SelectKeeps, DeleteKeeps, CreateKeeps, ElsewhereKeeps, OnDeletedKeeps
<1>3. ASSUME NEW s \in Sections, OpenSettings(s)
      PROVE  RouterInv'
  BY <1>3, OpenSettingsKeeps
<1>4. CASE CloseSettings \/ BackOrForward \/ Traversed \/ ToggleReopen \/ Reload
  BY <1>4, CloseSettingsKeeps, HistoryKeeps, ReopenKeeps, ReloadKeeps
<1>5. ASSUME NEW list \in listReply.channels, ChannelsArrive(list)
      PROVE  RouterInv'
  BY <1>5, ChannelsArriveKeeps
<1>6. ASSUME NEW list \in listReply.contacts, ContactsArrive(list)
      PROVE  RouterInv'
  BY <1>6, ContactsArriveKeeps
<1>7. CASE OnReconnect \/ DeleteReturns \/ CreateReturns \/ KeyLearned \/ OnContactResolved
  BY <1>7, ReconnectKeeps, DeleteReturnsKeeps, CreateReturnsKeeps, KeyLearnedKeeps, ResolvedKeeps
<1>8. CASE UNCHANGED routerVars
  BY <1>8 DEF RouterInv, RouterTypeOK, ListsKnown, ChoiceDue, SettingsDue, EntryBehind, ViewDue, hash,
     routerVars, browserVars, viewVars, listVars, refVars, settingsRefs, deviceVars, serverVars, asked
<1> QED
  BY <1>1, <1>2, <1>3, <1>4, <1>5, <1>6, <1>7, <1>8 DEF RouterNext

LEMMA RouterSettles ==
    ASSUME RouterInv
    PROVE  NeverStranded /\ AddressNamesView
<1>1. NeverStranded
  BY DEF RouterInv, ChoiceDue, NeverStranded, Settled
<1>2. AddressNamesView
  BY DEF RouterInv, RouterTypeOK, SettingsDue, ViewDue, AddressNamesView, Settled, IsSettings
<1> QED
  BY <1>1, <1>2

-----------------------------------------------------------------------------
(* The sidebar                                                              *)

LEMMA OrdersTyped ==
    /\ \A kept, before : \A s \in Sortable : InitialOrders(kept, before)[s] \in Orders(s)
    /\ \A kept, before : InitialOrders(kept, before) \in [Sortable -> UNION {Orders(q) : q \in Sortable}]
    /\ \A s \in Sortable : \A o \in Orders(s) : NextSortOrder(s, o) \in Orders(s)
    /\ \A s \in Sortable : Orders(s) \subseteq UNION {Orders(q) : q \in Sortable}
<1>1. \A s \in Sortable : Orders(s) \subseteq UNION {Orders(q) : q \in Sortable} /\ "recent" \in Orders(s) /\ "alpha" \in Orders(s)
  BY DEF Orders
<1>2. \A kept : Coerced(kept) \in [Sortable -> UNION {Orders(q) : q \in Sortable}]
  BY <1>1 DEF Coerced
<1>3. \A kept : \A s \in Sortable : Coerced(kept)[s] \in Orders(s)
  BY <1>1 DEF Coerced
<1>4. \A kept, before : \A s \in Sortable : InitialOrders(kept, before)[s] \in Orders(s)
  BY <1>1, <1>3 DEF InitialOrders
<1>5. \A kept, before : InitialOrders(kept, before) \in [Sortable -> UNION {Orders(q) : q \in Sortable}]
  BY <1>1, <1>2 DEF InitialOrders
<1>6. \A s \in Sortable : \A o \in Orders(s) : NextSortOrder(s, o) \in Orders(s)
  <2>1. "favorites" \in Sortable
    BY DEF Sortable
  <2> QED
    BY DEF NextSortOrder, Orders
<1> QED
  BY <1>1, <1>4, <1>5, <1>6

LEMMA SidebarStarts ==
    ASSUME SidebarInit
    PROVE  SidebarInv
<1>1. collapseStored \subseteq ListSections
  BY DEF SidebarInit, ListSections, Sortable
<1>2. SidebarTypeOK
  BY <1>1, OrdersTyped DEF SidebarInit, SidebarTypeOK
<1>3. SearchSaved
  BY OrdersTyped DEF SidebarInit, SearchSaved
<1> QED
  BY <1>2, <1>3 DEF SidebarInv

LEMMA SidebarFrame ==
    ASSUME SidebarInv, UNCHANGED <<mounted, effects, searching, collapseVars, orderVars>>,
           {favorites, mutedRows, blocked, unreadRows}' \subseteq SUBSET Rows,
           {telemetryOn', telemetryShown'} \subseteq BOOLEAN
    PROVE  SidebarInv'
<1>1. SidebarTypeOK'
  BY DEF SidebarInv, SidebarTypeOK, collapseVars, orderVars
<1>2. SearchSaved'
  BY DEF SidebarInv, SearchSaved, collapseVars, orderVars
<1> QED
  BY <1>1, <1>2 DEF SidebarInv

LEMMA EffectsKeep ==
    ASSUME SidebarInv, RunEffects
    PROVE  SidebarInv'
<1>1. /\ effects /\ snapshot' = AfterSearchEffect.snapshot /\ collapsed' = AfterSearchEffect.collapsed
      /\ collapseStored' = StoredAfterRender /\ effects' = (collapsed' # collapsed)
      /\ UNCHANGED <<mounted, searching, userCollapsed, orderVars, sidebarGivenVars, pollVars>>
  BY DEF RunEffects
<1>2. SidebarTypeOK /\ SearchSaved /\ mounted
  BY <1>1 DEF SidebarInv, SearchSaved
<1>3. userCollapsed \subseteq ListSections /\ userCollapsed # NoSnapshot
  BY <1>2 DEF SidebarTypeOK, NoSnapshot, ListSections, Sortable
<1>4. CASE searching
  <2>1. /\ snapshot' = userCollapsed /\ collapsed' = {} /\ collapseStored' = userCollapsed
    BY <1>1, <1>2, <1>4 DEF AfterSearchEffect, StoredAfterRender, SearchSaved
  <2>2. SearchSaved'
    BY <1>1, <1>2, <1>3, <1>4, <2>1 DEF SearchSaved, orderVars
  <2>3. SidebarTypeOK'
    BY <1>1, <1>2, <1>3, <2>1 DEF SidebarTypeOK, orderVars, sidebarGivenVars, pollVars
  <2> QED
    BY <2>2, <2>3 DEF SidebarInv
<1>5. CASE ~searching
  <2>1. /\ snapshot' = NoSnapshot /\ collapsed' = userCollapsed /\ collapseStored' = collapsed
    BY <1>1, <1>2, <1>5 DEF AfterSearchEffect, StoredAfterRender, SearchSaved
  <2>2. SearchSaved'
    BY <1>1, <1>2, <1>3, <1>5, <2>1 DEF SearchSaved, orderVars
  <2>3. SidebarTypeOK'
    BY <1>1, <1>2, <1>3, <2>1 DEF SidebarTypeOK, orderVars, sidebarGivenVars, pollVars
  <2> QED
    BY <2>2, <2>3 DEF SidebarInv
<1> QED
  BY <1>4, <1>5

LEMMA SearchKeeps ==
    ASSUME SidebarInv, NEW on \in BOOLEAN,
           OnList /\ searching # on /\ searching' = on /\ effects' = TRUE,
           UNCHANGED <<collapseVars, orderVars, sidebarGivenVars, pollVars>>
    PROVE  SidebarInv'
<1>1. SidebarTypeOK'
  BY DEF SidebarInv, SidebarTypeOK, collapseVars, orderVars, sidebarGivenVars, pollVars, OnList
<1>2. mounted /\ ~effects /\ mounted' = mounted
  BY DEF OnList, SidebarStep
<1>3. SearchSaved'
  BY <1>2 DEF SidebarInv, SearchSaved, collapseVars, orderVars
<1> QED
  BY <1>1, <1>3 DEF SidebarInv

LEMMA ToggleKeeps ==
    ASSUME SidebarInv, NEW s \in ListSections, ToggleSection(s)
    PROVE  SidebarInv'
<1>1. /\ mounted /\ ~effects /\ ~searching /\ UNCHANGED <<mounted, searching, snapshot, collapseStored, orderVars, sidebarGivenVars, pollVars>>
      /\ collapsed' = IF s \in collapsed THEN collapsed \ {s} ELSE collapsed \cup {s}
      /\ userCollapsed' = collapsed' /\ effects' = TRUE
  BY DEF ToggleSection, OnList, SidebarStep
<1>2. SidebarTypeOK /\ SearchSaved
  BY DEF SidebarInv
<1>3. collapsed' \subseteq ListSections
  BY <1>1, <1>2 DEF SidebarTypeOK
<1>4. SidebarTypeOK'
  BY <1>1, <1>2, <1>3 DEF SidebarTypeOK, orderVars, sidebarGivenVars, pollVars
<1>5. SearchSaved'
  BY <1>1, <1>2 DEF SearchSaved, orderVars
<1> QED
  BY <1>4, <1>5 DEF SidebarInv

LEMMA SortKeeps ==
    ASSUME SidebarInv, NEW s \in Sortable, HandleSortToggle(s)
    PROVE  SidebarInv'
<1>1. /\ UNCHANGED <<mounted, effects, searching, collapseVars, sidebarGivenVars, pollVars>>
      /\ orders' = [orders EXCEPT ![s] = NextSortOrder(s, orders[s])] /\ ordersStored' = orders'
  BY DEF HandleSortToggle, OnList
<1>2. SidebarTypeOK /\ SearchSaved
  BY DEF SidebarInv
<1>3. NextSortOrder(s, orders[s]) \in Orders(s) /\ Orders(s) \subseteq UNION {Orders(q) : q \in Sortable}
  BY <1>2, OrdersTyped DEF SidebarTypeOK
<1>4. /\ orders' \in [Sortable -> UNION {Orders(q) : q \in Sortable}]
      /\ \A t \in Sortable : orders'[t] = IF t = s THEN NextSortOrder(s, orders[s]) ELSE orders[t]
  BY <1>1, <1>2, <1>3 DEF SearchSaved
<1>5. \A t \in Sortable : orders'[t] \in Orders(t)
  BY <1>2, <1>3, <1>4 DEF SidebarTypeOK
<1>6. SidebarTypeOK'
  BY <1>1, <1>2, <1>5 DEF SidebarTypeOK, collapseVars, sidebarGivenVars, pollVars
<1>7. SearchSaved'
  BY <1>1, <1>2, <1>4 DEF SearchSaved, collapseVars
<1> QED
  BY <1>6, <1>7 DEF SidebarInv

LEMMA ListComesAndGoes ==
    ASSUME SidebarInv, HideList \/ ShowList
    PROVE  SidebarInv'
<1>1. SidebarTypeOK /\ SearchSaved
  BY DEF SidebarInv
<1>2. CASE HideList
  <2>1. /\ ~effects /\ mounted' = FALSE /\ searching' = FALSE /\ snapshot' = NoSnapshot /\ collapsed' = {}
        /\ telemetryShown' = FALSE
        /\ UNCHANGED <<effects, collapseStored, userCollapsed, orderVars, sidebarGivenVars, telemetryOn>>
    BY <1>2 DEF HideList, SidebarStep
  <2>2. SidebarTypeOK'
    BY <1>1, <2>1 DEF SidebarTypeOK, orderVars, sidebarGivenVars
  <2>3. SearchSaved'
    BY <1>1, <2>1 DEF SearchSaved, orderVars
  <2> QED
    BY <2>2, <2>3 DEF SidebarInv
<1>3. CASE ShowList
  <2>1. /\ ~effects /\ ~mounted /\ mounted' = TRUE /\ effects' = TRUE /\ collapsed' = collapseStored
        /\ orders' = InitialOrders(ordersStored, legacyOrder) /\ ordersStored' = orders'
        /\ UNCHANGED <<searching, snapshot, collapseStored, userCollapsed, sidebarGivenVars, telemetryOn, telemetryShown>>
    BY <1>3 DEF ShowList, SidebarStep
  <2>2. /\ \A s \in Sortable : orders'[s] \in Orders(s)
        /\ orders' \in [Sortable -> UNION {Orders(q) : q \in Sortable}]
    BY <2>1, OrdersTyped
  <2>3. SidebarTypeOK'
    BY <1>1, <2>1, <2>2 DEF SidebarTypeOK, sidebarGivenVars
  <2>4. SearchSaved'
    BY <1>1, <2>1, <2>2 DEF SearchSaved
  <2> QED
    BY <2>3, <2>4 DEF SidebarInv
<1> QED
  BY <1>2, <1>3

LEMMA SidebarStepKeeps ==
    ASSUME SidebarInv, [SidebarNext]_sidebarVars
    PROVE  SidebarInv'
<1>0. {favorites, mutedRows, blocked, unreadRows} \subseteq SUBSET Rows /\ {telemetryOn, telemetryShown} \subseteq BOOLEAN
  BY DEF SidebarInv, SidebarTypeOK
<1>1. CASE RunEffects
  BY <1>1, EffectsKeep
<1>2. CASE MarkListRead
  BY <1>0, <1>2, SidebarFrame DEF MarkListRead, OnList, pollVars
<1>3. CASE HideList \/ ShowList
  BY <1>3, ListComesAndGoes
<1>4. CASE TelemetryPreference
  BY <1>0, <1>4, SidebarFrame DEF TelemetryPreference, OnList, sidebarGivenVars
<1>5. CASE TelemetryPoll
  BY <1>0, <1>5, SidebarFrame DEF TelemetryPoll, OnList, sidebarGivenVars
<1>6. ASSUME NEW on \in BOOLEAN, SearchList(on)
      PROVE  SidebarInv'
  BY <1>6, SearchKeeps DEF SearchList
<1>7. ASSUME NEW s \in ListSections, ToggleSection(s)
      PROVE  SidebarInv'
  BY <1>7, ToggleKeeps
<1>8. ASSUME NEW s \in Sortable, HandleSortToggle(s)
      PROVE  SidebarInv'
  BY <1>8, SortKeeps
<1>9. ASSUME NEW s \in Sortable, ShowMore(s)
      PROVE  SidebarInv'
  BY <1>0, <1>9, SidebarFrame DEF ShowMore, OnList, sidebarGivenVars, pollVars
<1>10. ASSUME NEW s \in Sortable, NEW r \in Rows, SelectRow(s, r)
       PROVE  SidebarInv'
  <2>1. OnList /\ searching # FALSE /\ searching' = FALSE /\ effects' = TRUE
        /\ UNCHANGED <<collapseVars, orderVars, sidebarGivenVars, pollVars>>
    BY <1>10 DEF SelectRow
  <2> QED
    BY <2>1, SearchKeeps
<1>11. ASSUME NEW r \in Rows, GivenChanges(r)
       PROVE  SidebarInv'
  BY <1>0, <1>11, SidebarFrame DEF GivenChanges, Toggled, pollVars
<1>12. ASSUME NEW l \in telemetryLoads, TelemetryArrives(l)
       PROVE  SidebarInv'
  <2>1. telemetryShown' \in BOOLEAN
    BY <1>0, <1>12 DEF TelemetryArrives
  <2> QED
    BY <1>0, <1>12, <2>1, SidebarFrame DEF TelemetryArrives, sidebarGivenVars
<1>13. CASE UNCHANGED sidebarVars
  BY <1>0, <1>13, SidebarFrame DEF sidebarVars, sidebarGivenVars, pollVars
<1> QED
  BY <1>1, <1>2, <1>3, <1>4, <1>5, <1>6, <1>7, <1>8, <1>9, <1>10, <1>11, <1>12, <1>13 DEF SidebarNext

LEMMA SidebarKept ==
    ASSUME SidebarInv
    PROVE  SearchKeepsCollapse
BY DEF SidebarInv, SearchSaved, SearchKeepsCollapse

-----------------------------------------------------------------------------
(* The scrolling of the message list                                        *)

\* A set of naturals that is not empty has a least element.
LEMMA LeastNat ==
    ASSUME NEW T \in SUBSET Nat, T # {}
    PROVE  \E x \in T : \A y \in T : x <= y
<1> DEFINE I == {0..x : x \in T}
<1>1. I # {} /\ I \subseteq FiniteSubsetsOf(Nat)
  <2>1. \A x \in T : 0..x \in SUBSET Nat /\ IsFiniteSet(0..x)
    BY FS_Interval
  <2> QED
    BY <2>1 DEF FiniteSubsetsOf
<1> HIDE DEF I
<1>2. PICK s \in I : \A t \in I : ~(<<t, s>> \in StrictSubsetOrdering(Nat))
  BY <1>1, WFMin, FS_StrictSubsetOrderingWellFounded
<1>3. PICK x \in T : s = 0..x
  BY DEF I
<1>4. ASSUME NEW y \in T
      PROVE  x <= y
  <2>1. 0..y \in I
    BY DEF I
  <2>2. SUFFICES ASSUME y < x
                 PROVE  FALSE
    OBVIOUS
  <2>3. 0..y \subseteq 0..x /\ 0..y # 0..x /\ 0..y \in SUBSET Nat /\ 0..x \in SUBSET Nat
    <3>1. x \in 0..x /\ x \notin 0..y
      BY <2>2
    <3> QED
      BY <2>2, <3>1
  <2>4. <<0..y, 0..x>> \in StrictSubsetOrdering(Nat)
    BY <2>3, Zenon DEF StrictSubsetOrdering
  <2> QED
    BY <1>2, <1>3, <2>1, <2>4
<1> QED
  BY <1>4

\* A set of naturals below a bound has a greatest one.
LEMMA GreatestNat ==
    ASSUME NEW n \in Nat, NEW T \in SUBSET (0..n), T # {}
    PROVE  \E x \in T : \A y \in T : x >= y
<1> DEFINE D == {n - y : y \in T}
<1>0. \A y \in T : n - y \in Nat
  OBVIOUS
<1>1. D \in SUBSET Nat /\ D # {}
  BY <1>0
<1>2. PICK d \in D : \A e \in D : d <= e
  BY <1>1, LeastNat
<1>3. PICK x \in T : d = n - x
  OBVIOUS
<1>4. \A y \in T : n - y \in D
  OBVIOUS
<1>5. \A y \in T : x >= y
  BY <1>2, <1>3, <1>4
<1> QED
  BY <1>5

-----------------------------------------------------------------------------
(* Rows and their indices.                                                  *)

LEMMA RowsFinite ==
    ASSUME NEW n \in Nat, NEW R \in SUBSET (1..n)
    PROVE  IsFiniteSet(R) /\ Cardinality(R) \in Nat /\ (R # {} => Cardinality(R) >= 1)
<1>1. IsFiniteSet(R)
  <2>1. IsFiniteSet(1..n)
    BY FS_Interval
  <2> QED
    BY <2>1, FS_Subset
<1>2. Cardinality(R) \in Nat
  BY <1>1, FS_CardinalityType
<1>3. R # {} => Cardinality(R) # 0
  BY <1>1, FS_EmptySet
<1> QED
  BY <1>1, <1>2, <1>3

LEMMA RowsAreNumbers ==
    ASSUME NEW n \in Nat, NEW R \in SUBSET (1..n)
    PROVE  \A r \in R : r \in Nat /\ 1 <= r /\ r <= n
OBVIOUS

LEMMA IndexRange ==
    ASSUME NEW n \in Nat, NEW R \in SUBSET (1..n), NEW m \in Nat
    PROVE  /\ IndexOf(m, R) \in Nat /\ IndexOf(m, R) <= Cardinality(R)
           /\ m \in R => IndexOf(m, R) < Cardinality(R)
<1>1. IsFiniteSet(R) /\ Cardinality(R) \in Nat
  BY RowsFinite
<1>2. PICK B : B = {r \in R : r < m}
  OBVIOUS
<1>3. B \subseteq R /\ (m \in R => B # R)
  BY <1>2
<1>4. IsFiniteSet(B) /\ Cardinality(B) \in Nat /\ Cardinality(B) <= Cardinality(R)
      /\ (B # R => Cardinality(B) # Cardinality(R))
  BY <1>1, <1>3, FS_Subset, FS_CardinalityType
<1>5. IndexOf(m, R) = Cardinality(B)
  BY <1>2 DEF IndexOf
<1> QED
  BY <1>1, <1>3, <1>4, <1>5

LEMMA IndexGrows ==
    ASSUME NEW n \in Nat, NEW R \in SUBSET (1..n), NEW a \in R, NEW b \in R, a < b
    PROVE  IndexOf(a, R) < IndexOf(b, R)
<1>1. PICK A : A = {r \in R : r < a}
  OBVIOUS
<1>2. PICK B : B = {r \in R : r < b}
  OBVIOUS
<1>3. A \subseteq B /\ a \in B /\ a \notin A /\ B \in SUBSET (1..n)
  <2>1. a \in Nat /\ b \in Nat /\ \A r \in R : r \in Nat
    BY RowsAreNumbers
  <2>2. \A r \in R : r < a => r < b
    BY <2>1
  <2>3. ~(a < a) /\ a < b
    BY <2>1
  <2> QED
    BY <1>1, <1>2, <2>2, <2>3
<1>4. A # B
  BY <1>3
<1>5. IsFiniteSet(B) /\ Cardinality(B) \in Nat
  BY <1>3, RowsFinite
<1>6. Cardinality(A) \in Nat /\ Cardinality(A) <= Cardinality(B) /\ Cardinality(A) # Cardinality(B)
  BY <1>3, <1>4, <1>5, FS_Subset, FS_CardinalityType
<1> QED
  BY <1>1, <1>2, <1>5, <1>6 DEF IndexOf

LEMMA RowIsAt ==
    ASSUME NEW n \in Nat, NEW R \in SUBSET (1..n), NEW r \in R
    PROVE  RowAt(IndexOf(r, R), R) = r
<1>1. ASSUME NEW q \in R, IndexOf(q, R) = IndexOf(r, R)
      PROVE  q = r
  <2>1. q \in Nat /\ r \in Nat /\ IndexOf(q, R) \in Nat
    <3>1. q \in Nat /\ r \in Nat
      BY RowsAreNumbers
    <3> QED
      BY <3>1, IndexRange
  <2>2. ~(q < r) /\ ~(r < q)
    <3>1. q < r => IndexOf(q, R) < IndexOf(r, R)
      BY IndexGrows
    <3>2. r < q => IndexOf(r, R) < IndexOf(q, R)
      BY IndexGrows
    <3> QED
      BY <1>1, <2>1, <3>1, <3>2
  <2> QED
    BY <2>1, <2>2
<1> QED
  BY <1>1 DEF RowAt

\* Every index below the number of rows has its row.
LEMMA RowExists ==
    ASSUME NEW n \in Nat, NEW R \in SUBSET (1..n), NEW i \in Nat, i < Cardinality(R)
    PROVE  RowAt(i, R) \in R /\ IndexOf(RowAt(i, R), R) = i
<1>0. /\ Cardinality(R) \in Nat /\ IsFiniteSet(R)
      /\ \A r \in R : r \in Nat /\ IndexOf(r, R) \in Nat
  <2>1. \A r \in R : r \in Nat
    BY RowsAreNumbers
  <2>2. \A r \in R : IndexOf(r, R) \in Nat
    BY <2>1, IndexRange
  <2> QED
    BY <2>1, <2>2, RowsFinite
<1>1. ASSUME NEW P \in SUBSET R, P # {}
      PROVE  \E p \in P : {r \in P : r < p} = P \ {p}
  <2>1. P \in SUBSET (0..n)
    OBVIOUS
  <2>2. PICK p \in P : \A q \in P : p >= q
    BY <1>1, <2>1, GreatestNat
  <2>3. \A q \in P : q < p <=> q # p
    BY <1>0, <2>2
  <2>4. {r \in P : r < p} = P \ {p}
    BY <2>3
  <2> QED
    BY <2>4
<1> DEFINE T == {r \in R : IndexOf(r, R) >= i}
<1>2. R # {}
  BY FS_EmptySet
<1>3. T # {}
  <2>1. PICK p \in R : {r \in R : r < p} = R \ {p}
    BY <1>1, <1>2
  <2>2. IndexOf(p, R) = Cardinality(R) - 1
    BY <1>0, <2>1, FS_RemoveElement DEF IndexOf
  <2> QED
    BY <1>0, <2>2
<1>4. PICK t \in T : \A q \in T : t <= q
  <2>1. T \in SUBSET Nat
    BY <1>0
  <2> QED
    BY <1>3, <2>1, LeastNat
<1>5. IndexOf(t, R) = i
  <2>1. SUFFICES ASSUME IndexOf(t, R) > i
                 PROVE  FALSE
    BY <1>0, <1>4
  <2>2. PICK P : P = {r \in R : r < t}
    OBVIOUS
  <2>3. P \in SUBSET R /\ IsFiniteSet(P) /\ Cardinality(P) = IndexOf(t, R) /\ Cardinality(P) \in Nat
    BY <1>0, <2>2, FS_Subset DEF IndexOf
  <2>4. P # {}
    BY <2>1, <2>3, FS_EmptySet
  <2>5. PICK p \in P : {r \in P : r < p} = P \ {p}
    BY <1>1, <2>3, <2>4
  <2>6. {r \in R : r < p} = P \ {p}
    <3>1. \A r \in R : r < p => r < t
      BY <1>0, <2>2
    <3> QED
      BY <2>2, <2>5, <3>1
  <2>7. IndexOf(p, R) = Cardinality(P) - 1
    BY <2>3, <2>6, FS_RemoveElement DEF IndexOf
  <2>8. p \in R /\ p < t /\ IndexOf(p, R) >= i
    BY <1>0, <2>1, <2>2, <2>3, <2>7
  <2> QED
    BY <1>0, <1>4, <2>8
<1> QED
  BY <1>5 DEF RowAt

LEMMA TopAndEnd ==
    ASSUME NEW n \in Nat, NEW R \in SUBSET (1..n)
    PROVE  /\ Top(R) \in 0..n /\ End(R) \in 0..n
           /\ R # {} => Min(R) \in R /\ \A r \in R : Min(R) <= r
<1>1. CASE R = {}
  BY <1>1 DEF Top, End
<1>2. CASE R # {}
  <2>1. R \in SUBSET Nat /\ R \in SUBSET (0..n)
    OBVIOUS
  <2>2. \E x \in R : \A y \in R : x <= y
    BY <1>2, <2>1, LeastNat
  <2>3. \E x \in R : \A y \in R : x >= y
    BY <1>2, <2>1, GreatestNat
  <2>4. Min(R) \in R /\ \A r \in R : Min(R) <= r
    BY <2>2 DEF Min
  <2>5. Max(R) \in R
    BY <2>3 DEF Max
  <2> QED
    BY <1>2, <2>1, <2>4, <2>5 DEF Top, End
<1> QED
  BY <1>1, <1>2

\* Rows added in front move every other row by their number.
LEMMA PrependMoves ==
    ASSUME NEW n \in Nat, NEW R \in SUBSET (1..n), NEW prev \in SUBSET R, IsPrependOf(prev, R), NEW r \in prev
    PROVE  IndexOf(r, R) = IndexOf(r, prev) + Cardinality(R) - Cardinality(prev)
<1>1. prev \in SUBSET (1..n) /\ IsFiniteSet(R) /\ IsFiniteSet(prev)
      /\ Cardinality(R) \in Nat /\ Cardinality(prev) \in Nat /\ Cardinality(prev) >= 1
  BY RowsFinite
<1> DEFINE added == Cardinality(R) - Cardinality(prev)
<1>2. added \in Nat /\ added < Cardinality(R) /\ RowAt(added, R) = Min(prev)
  BY <1>1 DEF IsPrependOf
<1>3. IndexOf(Min(prev), R) = added
  BY <1>2, RowExists
<1>4. Min(prev) \in prev /\ \A q \in prev : Min(prev) <= q
  BY <1>1, TopAndEnd
<1>5. PICK m : m = Min(prev)
  OBVIOUS
<1>6. PICK F : F = {q \in R : q < m}
  OBVIOUS
<1>7. Cardinality(F) = added /\ IsFiniteSet(F) /\ F \in SUBSET R
  BY <1>1, <1>3, <1>5, <1>6, FS_Subset DEF IndexOf
<1>8. F \cap prev = {}
  <2>1. \A q \in R : q \in Nat
    BY RowsAreNumbers
  <2>2. \A q \in prev : ~(q < m)
    <3>1. m \in Nat
      BY <1>4, <1>5, <2>1
    <3>2. \A q \in prev : q \in Nat /\ m <= q
      BY <1>4, <1>5, <2>1
    <3> QED
      BY <3>1, <3>2
  <2> QED
    BY <1>6, <2>2
<1>9. F \cup prev = R
  <2>1. Cardinality(F \cup prev) = added + Cardinality(prev)
    <3>1. Cardinality(F \cup prev) = Cardinality(F) + Cardinality(prev) - Cardinality(F \cap prev)
      BY <1>1, <1>7, FS_Union
    <3>2. Cardinality(F \cap prev) = 0
      BY <1>8, FS_EmptySet
    <3> QED
      BY <1>1, <1>2, <1>7, <3>1, <3>2
  <2>2. F \cup prev \in SUBSET R
    BY <1>7
  <2> QED
    BY <1>1, <1>2, <2>1, <2>2, FS_Subset
<1>10. PICK B : B = {q \in prev : q < r}
  OBVIOUS
<1>11. {q \in R : q < r} = F \cup B /\ F \cap B = {} /\ IsFiniteSet(B) /\ Cardinality(B) \in Nat
  <2>1. \A q \in F : q < r
    <3>1. \A q \in R : q \in Nat
      BY RowsAreNumbers
    <3>2. m \in Nat /\ m <= r /\ r \in Nat
      BY <1>4, <1>5, <3>1
    <3> QED
      BY <1>6, <3>1, <3>2
  <2>2. {q \in R : q < r} = F \cup B
    BY <1>6, <1>9, <1>10, <2>1
  <2>3. B \in SUBSET prev
    BY <1>10
  <2> QED
    BY <1>1, <1>8, <2>2, <2>3, FS_Subset, FS_CardinalityType
<1>12. Cardinality(F \cup B) = added + Cardinality(B)
  <2>1. Cardinality(F \cup B) = Cardinality(F) + Cardinality(B) - Cardinality(F \cap B)
    BY <1>7, <1>11, FS_Union
  <2>2. Cardinality(F \cap B) = 0
    BY <1>11, FS_EmptySet
  <2> QED
    BY <1>2, <1>7, <1>11, <2>1, <2>2
<1>13. IndexOf(r, R) = added + Cardinality(B)
  BY <1>11, <1>12 DEF IndexOf
<1> QED
  BY <1>1, <1>10, <1>11, <1>13 DEF IndexOf

-----------------------------------------------------------------------------
(* The view.                                                                *)

LEMMA OffsetRange ==
    ASSUME NEW n \in Nat, NEW R \in SUBSET (1..n)
    PROVE  /\ MaxOffset(R) \in Nat /\ (R # {} => MaxOffset(R) < Cardinality(R))
           /\ \A i \in Nat : Clamped(i, R) \in 0..MaxOffset(R) /\ (i <= MaxOffset(R) => Clamped(i, R) = i)
           /\ \A m \in Nat : Centred(m, R) \in 0..MaxOffset(R)
<1>1. Cardinality(R) \in Nat /\ (R # {} => Cardinality(R) >= 1) /\ ViewRows \in Nat \ {0}
  BY RowsFinite, ScrollAssumption
<1>2. MaxOffset(R) \in Nat /\ (R # {} => MaxOffset(R) < Cardinality(R))
  BY <1>1 DEF MaxOffset
<1>3. \A i \in Nat : Clamped(i, R) \in 0..MaxOffset(R) /\ (i <= MaxOffset(R) => Clamped(i, R) = i)
  BY <1>2 DEF Clamped
<1>4. ASSUME NEW m \in Nat
      PROVE  Centred(m, R) \in 0..MaxOffset(R)
  <2>1. IndexOf(m, R) \in Nat
    BY IndexRange
  <2>2. ViewRows \div 2 \in Nat
    BY <1>1
  <2>3. (IF IndexOf(m, R) > ViewRows \div 2 THEN IndexOf(m, R) - ViewRows \div 2 ELSE 0) \in Nat
    BY <2>1, <2>2
  <2> QED
    BY <1>3, <2>3 DEF Centred
<1> QED
  BY <1>2, <1>3, <1>4

\* Where the view is put is a place in the list.
LEMMA PlaceRange ==
    ASSUME ScrollInv, NEW n \in Nat, NEW R \in SUBSET (1..n), NEW loading \in BOOLEAN, NEW more \in BOOLEAN,
           NEW wanted \in Nat, Shown(loading, R)
    PROVE  Placed(R, loading, more, wanted) \in 0..MaxOffset(R)
<1>1. last \in Nat /\ listRows \in SUBSET (1..last) /\ anchor \in Nat
  BY ScrollAssumption DEF ScrollInv, ScrollTypeOK
<1>2. /\ MaxOffset(R) \in Nat /\ MaxOffset(listRows) \in Nat
      /\ \A i \in Nat : Clamped(i, R) \in 0..MaxOffset(R)
  BY <1>1, OffsetRange
<1>3. Cardinality(R) \in Nat /\ Cardinality(listRows) \in Nat
  BY <1>1, RowsFinite
<1>4. Kept(R, loading) \in 0..MaxOffset(R)
  <2>1. CASE ~Shown(listLoading, listRows)
    BY <1>2, <2>1 DEF Kept
  <2>2. CASE Shown(listLoading, listRows)
    <3>1. offset \in Nat
      BY <1>2, <2>2 DEF ScrollInv, ScrollTypeOK
    <3>2. CASE IsPrependOf(listRows, R)
      <4>1. offset + Cardinality(R) - Cardinality(listRows) \in Nat
        BY <1>3, <3>1, <3>2 DEF IsPrependOf
      <4> QED
        BY <1>2, <2>2, <3>2, <4>1 DEF Kept
    <3>3. CASE ~IsPrependOf(listRows, R)
      BY <1>2, <2>2, <3>1, <3>3 DEF Kept
    <3> QED
      BY <3>2, <3>3
  <2> QED
    BY <2>1, <2>2
<1>5. Clamped(IndexOf(anchor, R), R) \in 0..MaxOffset(R)
  BY <1>1, <1>2, IndexRange
<1>6. MaxOffset(R) \in 0..MaxOffset(R)
  BY <1>2
<1> QED
  BY <1>4, <1>5, <1>6 DEF Placed

\* A list that grew, or lost rows, leaves the reader's row at the top.
LEMMA ReaderFollowed ==
    ASSUME ScrollInv, NEW n \in Nat, NEW R \in SUBSET (1..n), NEW loading \in BOOLEAN, NEW more \in BOOLEAN,
           NEW wanted \in Nat, Shown(loading, R), readerAt # 0, readerAt \in R,
           IndexOf(readerAt, R) <= MaxOffset(R),
           listRows \subseteq R \/ Cardinality(R) <= Cardinality(listRows)
    PROVE  Placed(R, loading, more, wanted) = IndexOf(readerAt, R)
<1>1. /\ Shown(listLoading, listRows) /\ readerAt \in listRows /\ IndexOf(readerAt, listRows) = offset
      /\ anchor = readerAt /\ ~atBottom
  BY DEF ScrollInv, ReaderHeld
<1>2. last \in Nat /\ listRows \in SUBSET (1..last) /\ readerAt \in Nat
  BY ScrollAssumption DEF ScrollInv, ScrollTypeOK
<1>3. /\ Cardinality(R) \in Nat /\ Cardinality(listRows) \in Nat
      /\ IndexOf(readerAt, R) \in Nat /\ offset \in Nat /\ listRows # {}
  BY <1>1, <1>2, RowsFinite, IndexRange
<1>4. \A i \in Nat : i <= MaxOffset(R) => Clamped(i, R) = i
  BY OffsetRange
<1>5. CASE IsPrependOf(listRows, R)
  <2>1. listRows \in SUBSET R
    BY <1>3, <1>5 DEF IsPrependOf
  <2>2. IndexOf(readerAt, R) = offset + Cardinality(R) - Cardinality(listRows)
    BY <1>1, <1>5, <2>1, PrependMoves
  <2>3. Kept(R, loading) = Clamped(offset + Cardinality(R) - Cardinality(listRows), R)
    BY <1>1, <1>5 DEF Kept
  <2>4. Kept(R, loading) = IndexOf(readerAt, R)
    BY <1>3, <1>4, <2>2, <2>3
  <2> QED
    BY <1>1, <1>3, <1>5, <2>4 DEF Placed
<1>6. CASE ~IsPrependOf(listRows, R) /\ IndexOf(anchor, R) # IndexOf(anchor, listRows)
  <2>1. Placed(R, loading, more, wanted) = Clamped(IndexOf(anchor, R), R)
    BY <1>1, <1>3, <1>6 DEF Placed
  <2> QED
    BY <1>1, <1>3, <1>4, <2>1
<1>7. CASE ~IsPrependOf(listRows, R) /\ IndexOf(anchor, R) = IndexOf(anchor, listRows)
  <2>1. Placed(R, loading, more, wanted) = Kept(R, loading)
    BY <1>1, <1>3, <1>7 DEF Placed
  <2>2. Kept(R, loading) = Clamped(offset, R)
    BY <1>1, <1>7 DEF Kept
  <2> QED
    BY <1>1, <1>3, <1>4, <1>7, <2>1, <2>2
<1> QED
  BY <1>5, <1>6, <1>7

\* The effects of a change of rows keep the invariant.
LEMMA RowsKept ==
    ASSUME ScrollInv, NEW R \in SUBSET (1..last'), NEW loading \in BOOLEAN, NEW more \in BOOLEAN,
           NEW wanted \in 0..LastRow, CommitRows(R, loading, more, wanted),
           last' \in 0..LastRow, gone' \subseteq 1..last', older' \in BOOLEAN, paging' \subseteq {"older", "newer"},
           \/ listRows \subseteq R
           \/ Cardinality(R) <= Cardinality(listRows)
           \/ ~Shown(listLoading, listRows) \/ ~Shown(loading, R)
    PROVE  ScrollInv'
<1> DEFINE reached == Reached(R, loading, wanted)
           place   == IF reached THEN Centred(wanted, R) ELSE Placed(R, loading, more, wanted)
           moved   == IndexOf(boundary, R) # IndexOf(boundary, listRows) \/ (boundary \in R) # (boundary \in listRows)
<1>1. /\ listRows' = R /\ listLoading' = loading /\ newer' = more
      /\ target' = IF reached THEN 0 ELSE wanted
      /\ offset' = place
      /\ atBottom' = IF reached THEN FALSE
                     ELSE atBottom \/ (listRows = {} /\ Shown(loading, R) /\ wanted = 0)
      /\ event' = IF Shown(loading, R) /\ place # offset THEN "list" ELSE event
      /\ jumpDismissed' = (jumpDismissed /\ ~moved)
      /\ jumpShown' = (Shown(loading, R) /\ JumpVisible(boundary, R, place, jumpDismissed'))
      /\ offered' = (R \cap Own) \ aged /\ timers' = offered'
      /\ readerAt' = IF reached \/ ~Shown(loading, R) \/ readerAt \notin R \/ IndexOf(readerAt, R) > MaxOffset(R)
                     THEN 0 ELSE readerAt
      /\ UNCHANGED <<anchor, toBottomShown, boundary, aged, packetVars>>
  BY DEF CommitRows
<1>2. ScrollTypeOK /\ ReaderHeld /\ BoundaryOffered /\ OffersEnd /\ last \in 0..LastRow /\ LastRow \in Nat
  BY ScrollAssumption DEF ScrollInv
<1>3. PICK n \in Nat : n = last'
  BY <1>2
<1>4. R \in SUBSET (1..n) /\ wanted \in Nat /\ readerAt \in Nat
  BY <1>2, <1>3 DEF ScrollTypeOK
<1>5. MaxOffset(R) \in Nat
  BY <1>4, OffsetRange
<1>6. Shown(loading, R) => place \in 0..MaxOffset(R)
  <2>1. Shown(loading, R) => Placed(R, loading, more, wanted) \in 0..MaxOffset(R)
    BY <1>4, PlaceRange
  <2>2. Centred(wanted, R) \in 0..MaxOffset(R)
    BY <1>4, OffsetRange
  <2> QED
    BY <2>1, <2>2
<1>7. IndexOf(readerAt, R) \in Nat
  BY <1>4, IndexRange
<1> HIDE DEF reached, place, moved
<1>8. ScrollTypeOK'
  <2>1. listRows' \subseteq 1..last' /\ gone' \subseteq 1..last' /\ {target, anchor, boundary, readerAt}' \subseteq 0..LastRow
    BY <1>1, <1>2 DEF ScrollTypeOK
  <2>2. paging' \subseteq {"older", "newer"} /\ event' \in {"none", "user", "list"}
    BY <1>1, <1>2 DEF ScrollTypeOK
  <2>3. Shown(listLoading', listRows') => offset' \in 0..MaxOffset(listRows')
    BY <1>1, <1>6
  <2>4. offered' \subseteq Own /\ fetched' \subseteq Archived /\ fetching' \subseteq Archived
    BY <1>1, <1>2 DEF ScrollTypeOK, packetVars
  <2>5. atBottom' \in BOOLEAN /\ jumpDismissed' \in BOOLEAN /\ jumpShown' \in BOOLEAN /\ toBottomShown' \in BOOLEAN
    BY <1>1, <1>2 DEF ScrollTypeOK
  <2>6. {listLoading, older, newer, atBottom, toBottomShown, jumpShown, jumpDismissed}' \subseteq BOOLEAN
    BY <1>1, <2>5
  <2> QED
    BY <2>1, <2>2, <2>3, <2>4, <2>6 DEF ScrollTypeOK, Shown, MaxOffset
<1>9. ReaderHeld'
  <2>1. SUFFICES ASSUME readerAt' # 0
                 PROVE  /\ Shown(loading, R) /\ readerAt' \in R /\ IndexOf(readerAt', R) = offset'
                        /\ anchor' = readerAt' /\ ~atBottom'
    BY <1>1 DEF ReaderHeld, Shown, IndexOf
  <2>2. /\ readerAt' = readerAt /\ ~reached /\ Shown(loading, R) /\ readerAt \in R
        /\ IndexOf(readerAt, R) <= MaxOffset(R)
    BY <1>1, <1>5, <1>7, <2>1
  <2>3. Shown(listLoading, listRows) /\ anchor = readerAt /\ ~atBottom /\ listRows # {}
    BY <1>2, <2>1, <2>2 DEF ReaderHeld, Shown
  <2>4. place = Placed(R, loading, more, wanted)
    BY <2>2 DEF place
  <2>5. Placed(R, loading, more, wanted) = IndexOf(readerAt, R)
    BY <1>4, <2>1, <2>2, <2>3, ReaderFollowed
  <2> QED
    BY <1>1, <2>2, <2>3, <2>4, <2>5
<1>10. BoundaryOffered'
  BY <1>1 DEF BoundaryOffered, JumpVisible, Shown
<1>11. OffersEnd'
  BY <1>1, <1>2 DEF OffersEnd, packetVars
<1> QED
  BY <1>8, <1>9, <1>10, <1>11 DEF ScrollInv

\* A step that leaves the rows and the place alone.
LEMMA ScrollFrame ==
    ASSUME ScrollInv, UNCHANGED <<scrollGivenVars, offset, atBottom, anchor, readerAt>>,
           event' \in {"none", "user", "list"}, {toBottomShown, jumpShown, jumpDismissed}' \subseteq BOOLEAN,
           boundary' \in {0, boundary}, offered' \subseteq Own, fetched' \subseteq Archived,
           fetching' \subseteq Archived, BoundaryOffered', OffersEnd'
    PROVE  ScrollInv'
<1>1. UNCHANGED <<last, gone, listRows, listLoading, older, newer, paging, target, offset, atBottom, anchor, readerAt>>
  BY DEF scrollGivenVars
<1>2. ScrollTypeOK /\ last \in 0..LastRow /\ ReaderHeld /\ LastRow \in Nat
  BY ScrollAssumption DEF ScrollInv
<1>3. ScrollTypeOK'
  BY <1>1, <1>2 DEF ScrollTypeOK, Shown, MaxOffset
<1>4. ReaderHeld'
  BY <1>1, <1>2 DEF ReaderHeld, Shown, IndexOf
<1> QED
  BY <1>1, <1>2, <1>3, <1>4 DEF ScrollInv

\* The reader's row is let go: anywhere in the list will do.
LEMMA ReaderLetGo ==
    ASSUME ScrollInv, UNCHANGED <<last, gone, listRows, listLoading, older, newer, target, boundary, packetVars, resendVars>>,
           readerAt' = 0, anchor' \in 0..LastRow, paging' \subseteq {"older", "newer"},
           Shown(listLoading, listRows), offset' \in 0..MaxOffset(listRows), event' \in {"none", "user", "list"},
           {atBottom, toBottomShown, jumpShown, jumpDismissed}' \subseteq BOOLEAN, BoundaryOffered'
    PROVE  ScrollInv'
<1>1. ScrollTypeOK /\ last \in 0..LastRow /\ OffersEnd /\ LastRow \in Nat
  BY ScrollAssumption DEF ScrollInv
<1>2. ScrollTypeOK'
  BY <1>1 DEF ScrollTypeOK, Shown, MaxOffset, packetVars, resendVars
<1>3. ReaderHeld'
  BY DEF ReaderHeld
<1>4. OffersEnd'
  BY <1>1 DEF OffersEnd, packetVars, resendVars
<1> QED
  BY <1>1, <1>2, <1>3, <1>4 DEF ScrollInv

LEMMA HandleScrollKeeps ==
    ASSUME ScrollInv, HandleScroll
    PROVE  ScrollInv'
<1> DEFINE near == offset >= MaxOffset(listRows)
<1>1. /\ event # "none" /\ Shown(listLoading, listRows) /\ event' = "none"
      /\ anchor' = RowAt(offset, listRows) /\ atBottom' = near /\ toBottomShown' = ~near
      /\ paging' = paging \cup (IF older /\ offset = 0 THEN {"older"} ELSE {})
                          \cup (IF newer /\ near THEN {"newer"} ELSE {})
      /\ jumpShown' = JumpVisible(boundary, listRows, offset, jumpDismissed)
      /\ readerAt' = IF near THEN 0 ELSE IF event = "user" THEN anchor' ELSE readerAt
      /\ UNCHANGED <<last, gone, listRows, listLoading, older, newer, target, offset, boundary, jumpDismissed,
                     resendVars, packetVars>>
  BY DEF HandleScroll
<1>2. ScrollTypeOK /\ last \in 0..LastRow /\ LastRow \in Nat /\ ReaderHeld /\ OffersEnd
  BY ScrollAssumption DEF ScrollInv
<1>3. last \in Nat /\ listRows \in SUBSET (1..last) /\ listRows # {} /\ offset \in 0..MaxOffset(listRows)
  BY <1>1, <1>2 DEF ScrollTypeOK, Shown
<1>4. /\ MaxOffset(listRows) \in Nat /\ MaxOffset(listRows) < Cardinality(listRows)
      /\ Cardinality(listRows) \in Nat
  BY <1>3, OffsetRange, RowsFinite
<1>5. offset \in Nat /\ offset < Cardinality(listRows)
  BY <1>3, <1>4
<1>6. anchor' \in listRows /\ IndexOf(anchor', listRows) = offset
  BY <1>1, <1>3, <1>5, RowExists
<1>7. anchor' \in 0..LastRow
  BY <1>2, <1>3, <1>6
<1>8. readerAt' # 0 => readerAt' = anchor' /\ ~near
  <2>1. readerAt # 0 => anchor' = readerAt
    BY <1>1, <1>2, <1>3, RowIsAt DEF ReaderHeld
  <2> QED
    BY <1>1, <2>1
<1>9. ScrollTypeOK'
  <2>1. {target, anchor, boundary, readerAt}' \subseteq 0..LastRow
    BY <1>1, <1>2, <1>7, <1>8 DEF ScrollTypeOK
  <2>2. paging' \subseteq {"older", "newer"}
    BY <1>1, <1>2 DEF ScrollTypeOK
  <2>3. atBottom' \in BOOLEAN /\ toBottomShown' \in BOOLEAN /\ jumpShown' \in BOOLEAN
    BY <1>1 DEF JumpVisible
  <2> QED
    BY <1>1, <1>2, <2>1, <2>2, <2>3 DEF ScrollTypeOK, Shown, MaxOffset, resendVars, packetVars
<1>10. ReaderHeld'
  BY <1>1, <1>6, <1>8 DEF ReaderHeld, Shown, IndexOf
<1>11. BoundaryOffered'
  BY <1>1 DEF BoundaryOffered, JumpVisible, Shown
<1>12. OffersEnd'
  BY <1>1, <1>2 DEF OffersEnd, resendVars, packetVars
<1> QED
  BY <1>1, <1>2, <1>9, <1>10, <1>11, <1>12 DEF ScrollInv

\* The actions that change the rows.
LEMMA ListKeeps ==
    ASSUME ScrollInv,
           ListLoaded \/ RowArrives \/ OlderArrive \/ NewerArrive \/ RowsReturn \/ \E m \in 1..LastRow : RowsFiltered(m)
    PROVE  ScrollInv'
<1>1. /\ ScrollTypeOK /\ last \in 0..LastRow /\ LastRow \in Nat /\ last \in Nat
      /\ listRows \in SUBSET (1..last) /\ gone \in SUBSET (1..last) /\ target \in 0..LastRow
      /\ listLoading \in BOOLEAN /\ older \in BOOLEAN /\ newer \in BOOLEAN /\ paging \subseteq {"older", "newer"}
  BY ScrollAssumption DEF ScrollInv, ScrollTypeOK
<1>2. Top(listRows) \in 0..last /\ End(listRows) \in 0..last
  BY <1>1, TopAndEnd
<1>3. CASE ListLoaded
  <2>1. PICK R : /\ R = IF target = 0 THEN LatestPage \cup listRows ELSE Around(target)
                 /\ older' = (\E m \in 1..last \ gone : m < Top(R))
                 /\ CommitRows(R, FALSE, target # 0 /\ \E m \in 1..last \ gone : m > End(R), target)
    BY <1>3 DEF ListLoaded
  <2>2. R \in SUBSET (1..last)
    BY <1>1, <2>1 DEF LatestPage, Around
  <2>3. listLoading /\ paging' = {} /\ last' = last /\ gone' = gone /\ older' \in BOOLEAN
    BY <1>3, <2>1 DEF ListLoaded
  <2>4. PICK more \in BOOLEAN : more = (target # 0 /\ \E m \in 1..last \ gone : m > End(R))
    OBVIOUS
  <2>5. R \in SUBSET (1..last') /\ CommitRows(R, FALSE, more, target)
    BY <2>1, <2>2, <2>3, <2>4
  <2>6. ~Shown(listLoading, listRows)
    BY <2>3 DEF Shown
  <2> QED
    BY <1>1, <2>3, <2>5, <2>6, RowsKept
<1>4. CASE RowArrives
  <2>1. /\ last < LastRow /\ last' = last + 1
        /\ CommitRows(IF newer THEN listRows ELSE listRows \cup {last + 1}, listLoading, newer, target)
        /\ UNCHANGED <<gone, older, paging>>
    BY <1>4 DEF RowArrives
  <2>2. PICK R : R = IF newer THEN listRows ELSE listRows \cup {last + 1}
    OBVIOUS
  <2>3. R \in SUBSET (1..last') /\ listRows \subseteq R /\ gone' \subseteq 1..last' /\ last' \in 0..LastRow
    BY <1>1, <2>1, <2>2
  <2> QED
    BY <1>1, <2>1, <2>2, <2>3, RowsKept
<1>5. CASE OlderArrive
  <2>1. PICK P : /\ P = {m \in 1..(Top(listRows) - 1) \ gone :
                          Cardinality({k \in m..(Top(listRows) - 1) : k \notin gone}) <= RowPage}
                 /\ older' = (Cardinality(P) >= RowPage)
                 /\ CommitRows(listRows \cup P, listLoading, newer, target)
    BY <1>5 DEF OlderArrive
  <2>2. P \subseteq 1..last
    BY <1>1, <1>2, <2>1
  <2>3. last' = last /\ gone' = gone /\ paging' \subseteq paging /\ older' \in BOOLEAN
    BY <1>5, <2>1 DEF OlderArrive
  <2>4. listRows \cup P \in SUBSET (1..last') /\ listRows \subseteq listRows \cup P
    BY <1>1, <2>2, <2>3
  <2> QED
    BY <1>1, <2>1, <2>3, <2>4, RowsKept
<1>6. CASE NewerArrive
  <2>1. PICK P : /\ P = {m \in (End(listRows) + 1)..last \ gone :
                          Cardinality({k \in (End(listRows) + 1)..m : k \notin gone}) <= RowPage}
                 /\ CommitRows(listRows \cup P, listLoading, Cardinality(P) >= RowPage, target)
    BY <1>6 DEF NewerArrive
  <2>2. P \subseteq 1..last
    BY <1>1, <1>2, <2>1
  <2>3. last' = last /\ gone' = gone /\ paging' \subseteq paging /\ older' = older
    BY <1>6 DEF NewerArrive
  <2>4. listRows \cup P \in SUBSET (1..last') /\ listRows \subseteq listRows \cup P
    BY <1>1, <2>2, <2>3
  <2>5. PICK more \in BOOLEAN : more = (Cardinality(P) >= RowPage)
    <3>1. (Cardinality(P) >= RowPage) \in BOOLEAN
      BY <1>1, <2>2, RowsFinite, ScrollAssumption
    <3> QED
      BY <3>1
  <2>6. CommitRows(listRows \cup P, listLoading, more, target)
    BY <2>1, <2>5
  <2> QED
    BY <1>1, <2>3, <2>4, <2>6, RowsKept
<1>7. CASE RowsReturn
  <2>1. PICK P : /\ P = {m \in gone : Top(listRows) < m /\ (newer => m < End(listRows)) /\ listRows # {}}
                 /\ CommitRows(listRows \cup P, listLoading, newer, target)
    BY <1>7 DEF RowsReturn
  <2>2. last' = last /\ gone' = {} /\ UNCHANGED <<older, paging>>
    BY <1>7 DEF RowsReturn
  <2>3. listRows \cup P \in SUBSET (1..last') /\ listRows \subseteq listRows \cup P
    BY <1>1, <2>1, <2>2
  <2> QED
    BY <1>1, <2>1, <2>2, <2>3, RowsKept
<1>8. ASSUME NEW m \in 1..LastRow, RowsFiltered(m)
      PROVE  ScrollInv'
  <2>1. /\ m \in listRows /\ gone' = {m} /\ last' = last /\ UNCHANGED <<older, paging>>
        /\ CommitRows(listRows \ {m}, listLoading, newer, target)
    BY <1>8 DEF RowsFiltered
  <2>2. IsFiniteSet(listRows) /\ Cardinality(listRows) \in Nat
    BY <1>1, RowsFinite
  <2>3. Cardinality(listRows \ {m}) <= Cardinality(listRows)
    <3>1. Cardinality(listRows \ {m}) = Cardinality(listRows) - 1
      BY <2>1, <2>2, FS_RemoveElement
    <3> QED
      BY <2>2, <3>1
  <2>4. listRows \ {m} \in SUBSET (1..last') /\ gone' \subseteq 1..last'
    BY <1>1, <2>1
  <2> QED
    BY <1>1, <2>1, <2>3, <2>4, RowsKept
<1> QED
  BY <1>3, <1>4, <1>5, <1>6, <1>7, <1>8

\* The actions of the reader.
LEMMA ReaderKeeps ==
    ASSUME ScrollInv,
           \/ EventLost \/ ScrollToBottom \/ JumpToUnread \/ DismissJump \/ DismissDivider
           \/ \E o \in 0..LastRow : UserScrolls(o)
    PROVE  ScrollInv'
<1>1. /\ ScrollTypeOK /\ last \in 0..LastRow /\ LastRow \in Nat /\ last \in Nat /\ OffersEnd /\ BoundaryOffered
      /\ listRows \in SUBSET (1..last) /\ gone \subseteq 1..last /\ {target, boundary, anchor} \subseteq 0..LastRow
      /\ {listLoading, older, newer, atBottom, toBottomShown, jumpShown, jumpDismissed} \subseteq BOOLEAN
      /\ paging \subseteq {"older", "newer"} /\ offered \subseteq Own
      /\ fetched \subseteq Archived /\ fetching \subseteq Archived /\ event \in {"none", "user", "list"}
  BY ScrollAssumption DEF ScrollInv, ScrollTypeOK
<1>2. MaxOffset(listRows) \in Nat /\ (\A m \in Nat : Centred(m, listRows) \in 0..MaxOffset(listRows))
  BY <1>1, OffsetRange
<1>3. CASE EventLost
  <2>1. event' = "none" /\ UNCHANGED <<scrollGivenVars, offset, atBottom, anchor, toBottomShown, markerVars, resendVars,
                                      packetVars, readerAt>>
    BY <1>3 DEF EventLost
  <2>2. BoundaryOffered' /\ OffersEnd'
    BY <1>1, <2>1 DEF BoundaryOffered, OffersEnd, Shown, scrollGivenVars, markerVars, resendVars, packetVars
  <2> QED
    BY <1>1, <2>1, <2>2, ScrollFrame DEF markerVars, resendVars, packetVars
<1>4. CASE DismissJump
  <2>1. jumpShown' = FALSE /\ jumpDismissed' = TRUE
        /\ UNCHANGED <<scrollGivenVars, placeVars, boundary, resendVars, packetVars, readerAt>>
    BY <1>4 DEF DismissJump
  <2>2. BoundaryOffered' /\ OffersEnd'
    BY <1>1, <2>1 DEF BoundaryOffered, OffersEnd, resendVars, packetVars
  <2> QED
    BY <1>1, <2>1, <2>2, ScrollFrame DEF placeVars, resendVars, packetVars
<1>5. CASE DismissDivider
  <2>1. jumpShown' = FALSE /\ jumpDismissed' = FALSE /\ boundary' = 0
        /\ UNCHANGED <<scrollGivenVars, placeVars, resendVars, packetVars, readerAt>>
    BY <1>5 DEF DismissDivider
  <2>2. BoundaryOffered' /\ OffersEnd'
    BY <1>1, <2>1 DEF BoundaryOffered, OffersEnd, resendVars, packetVars
  <2> QED
    BY <1>1, <2>1, <2>2, ScrollFrame DEF placeVars, resendVars, packetVars
<1>6. ASSUME NEW o \in 0..LastRow, UserScrolls(o)
      PROVE  ScrollInv'
  <2>1. /\ Shown(listLoading, listRows) /\ o \in 0..MaxOffset(listRows)
        /\ offset' = o /\ event' = "user" /\ readerAt' = 0
        /\ UNCHANGED <<scrollGivenVars, atBottom, anchor, toBottomShown, markerVars, resendVars, packetVars>>
    BY <1>6 DEF UserScrolls
  <2>2. BoundaryOffered'
    BY <1>1, <2>1 DEF BoundaryOffered, Shown, scrollGivenVars, markerVars
  <2> QED
    BY <1>1, <2>1, <2>2, ReaderLetGo DEF scrollGivenVars, markerVars
<1>7. CASE ScrollToBottom
  <2>1. CASE newer
    <3>1. CommitRows({}, TRUE, FALSE, target) /\ paging' = {} /\ UNCHANGED <<last, gone, older>>
      BY <1>7, <2>1 DEF ScrollToBottom
    <3>2. ~Shown(TRUE, {})
      BY DEF Shown
    <3>3. {} \in SUBSET (1..last')
      OBVIOUS
    <3> QED
      BY <1>1, <3>1, <3>2, <3>3, RowsKept
  <2>2. CASE ~newer
    <3>1. /\ Shown(listLoading, listRows) /\ atBottom' = TRUE /\ offset' = MaxOffset(listRows) /\ readerAt' = 0
          /\ event' \in {"list", event}
          /\ UNCHANGED <<last, gone, older, listRows, listLoading, newer, paging, target, anchor, toBottomShown,
                         markerVars, resendVars, packetVars>>
      BY <1>7, <2>2 DEF ScrollToBottom
    <3>2. BoundaryOffered'
      BY <1>1, <3>1 DEF BoundaryOffered, Shown, markerVars
    <3>3. offset' \in 0..MaxOffset(listRows)
      BY <1>2, <3>1
    <3> QED
      BY <1>1, <3>1, <3>2, <3>3, ReaderLetGo DEF markerVars
  <2> QED
    BY <2>1, <2>2
<1>8. CASE JumpToUnread
  <2>1. CASE boundary \in listRows
    <3>1. /\ Shown(listLoading, listRows) /\ offset' = Centred(boundary, listRows) /\ event' = "user" /\ readerAt' = 0
          /\ jumpShown' = FALSE /\ jumpDismissed' = TRUE
          /\ UNCHANGED <<last, gone, older, listRows, listLoading, newer, paging, target, atBottom, anchor,
                         toBottomShown, boundary, resendVars, packetVars>>
      BY <1>8, <2>1 DEF JumpToUnread
    <3>2. BoundaryOffered'
      BY <3>1 DEF BoundaryOffered
    <3>3. offset' \in 0..MaxOffset(listRows)
      BY <1>1, <1>2, <3>1
    <3> QED
      BY <1>1, <3>1, <3>2, <3>3, ReaderLetGo
  <2>2. CASE boundary \notin listRows
    <3>1. CommitRows({}, TRUE, newer, boundary) /\ paging' = {} /\ UNCHANGED <<last, gone, older>>
      BY <1>8, <2>2 DEF JumpToUnread
    <3>2. ~Shown(TRUE, {})
      BY DEF Shown
    <3>3. {} \in SUBSET (1..last')
      OBVIOUS
    <3> QED
      BY <1>1, <3>1, <3>2, <3>3, RowsKept
  <2> QED
    BY <2>1, <2>2
<1> QED
  BY <1>3, <1>4, <1>5, <1>6, <1>7, <1>8

\* Sending again, and the packet of a message.
LEMMA OffersKeep ==
    ASSUME ScrollInv,
           \/ CloseInspector \/ \E m \in Own : WindowCloses(m) \/ ResendTimer(m)
           \/ \E m \in Packets : HandleAnalyzePacket(m)
           \/ \E m \in fetching : PacketArrives(m)
    PROVE  ScrollInv'
<1>1. /\ OffersEnd /\ BoundaryOffered /\ offered \subseteq Own /\ event \in {"none", "user", "list"}
      /\ {toBottomShown, jumpShown, jumpDismissed} \subseteq BOOLEAN
      /\ fetched \subseteq Archived /\ fetching \subseteq Archived
  BY DEF ScrollInv, ScrollTypeOK
<1>2. ASSUME UNCHANGED <<scrollGivenVars, placeVars, markerVars, readerAt>>,
             offered' \subseteq Own, fetched' \subseteq Archived, fetching' \subseteq Archived, OffersEnd'
      PROVE  ScrollInv'
  <2>1. BoundaryOffered'
    BY <1>1, <1>2 DEF BoundaryOffered, Shown, scrollGivenVars, markerVars
  <2> QED
    BY <1>1, <1>2, <2>1, ScrollFrame DEF placeVars, markerVars
<1>3. CASE CloseInspector
  BY <1>1, <1>2, <1>3 DEF CloseInspector, resendVars, OffersEnd
<1>4. ASSUME NEW m \in Own, WindowCloses(m) \/ ResendTimer(m)
      PROVE  ScrollInv'
  BY <1>1, <1>2, <1>4 DEF WindowCloses, ResendTimer, packetVars, OffersEnd
<1>5. ASSUME NEW m \in Packets, HandleAnalyzePacket(m)
      PROVE  ScrollInv'
  <2>1. PICK k \in {"unavailable", "packet", "loading"} :
          /\ inspector' = [kind |-> k, of |-> m] /\ (k = "loading" => m \in Archived)
          /\ fetching' = IF k = "loading" THEN fetching \cup {m} ELSE fetching
    BY <1>5 DEF HandleAnalyzePacket
  <2>2. UNCHANGED <<scrollGivenVars, placeVars, markerVars, resendVars, fetched, readerAt>>
    BY <1>5 DEF HandleAnalyzePacket
  <2>3. OffersEnd'
    BY <1>1, <2>1, <2>2 DEF OffersEnd, resendVars
  <2> QED
    BY <1>1, <1>2, <2>1, <2>2, <2>3 DEF resendVars
<1>6. ASSUME NEW m \in fetching, PacketArrives(m)
      PROVE  ScrollInv'
  <2>1. PICK k \in {"unavailable", "packet"} : inspector' = [kind |-> k, of |-> m]
    BY <1>6 DEF PacketArrives
  <2>2. /\ fetching' \subseteq fetching /\ fetched' \subseteq fetched \cup {m}
        /\ UNCHANGED <<scrollGivenVars, placeVars, markerVars, resendVars, readerAt>>
    BY <1>6 DEF PacketArrives
  <2>3. OffersEnd'
    BY <1>1, <2>1, <2>2 DEF OffersEnd, resendVars
  <2> QED
    BY <1>1, <1>2, <2>2, <2>3 DEF resendVars
<1> QED
  BY <1>3, <1>4, <1>5, <1>6

LEMMA ScrollStarts ==
    ASSUME ScrollInit
    PROVE  ScrollInv
<1>1. LastRow \in Nat /\ LastRow >= 2 /\ FirstRows \in 0..LastRow
  BY ScrollAssumption
<1>2. ScrollTypeOK
  <2>1. listRows = {} /\ gone = {} /\ target \in 0..LastRow /\ anchor = 0 /\ boundary \in 0..LastRow /\ readerAt = 0
    BY <1>1 DEF ScrollInit
  <2>2. ~Shown(listLoading, listRows)
    BY <2>1 DEF Shown
  <2>3. {target, anchor, boundary, readerAt} \subseteq 0..LastRow
    BY <1>1, <2>1
  <2>4. /\ paging = {} /\ event = "none" /\ offered = {} /\ fetched = {} /\ fetching = {}
        /\ listLoading = TRUE /\ older = FALSE /\ newer = FALSE /\ atBottom = TRUE /\ toBottomShown = FALSE
        /\ jumpShown = FALSE /\ jumpDismissed = FALSE
    BY DEF ScrollInit
  <2> QED
    BY <2>1, <2>2, <2>3, <2>4 DEF ScrollTypeOK
<1>3. last \in 0..LastRow /\ ReaderHeld /\ BoundaryOffered /\ OffersEnd
  BY <1>1 DEF ScrollInit, ReaderHeld, BoundaryOffered, OffersEnd, Shown
<1> QED
  BY <1>2, <1>3 DEF ScrollInv

LEMMA ScrollStep ==
    ASSUME ScrollInv, [ScrollNext]_scrollVars
    PROVE  ScrollInv'
<1>1. CASE UNCHANGED scrollVars
  <2>1. /\ UNCHANGED <<scrollGivenVars, offset, atBottom, anchor, readerAt>>
        /\ UNCHANGED <<event, toBottomShown, jumpShown, jumpDismissed, boundary, offered, timers, fetched, fetching, inspector>>
    BY <1>1 DEF scrollVars, placeVars, markerVars, resendVars, packetVars
  <2>2. BoundaryOffered' /\ OffersEnd'
    BY <2>1 DEF ScrollInv, BoundaryOffered, OffersEnd, Shown, scrollGivenVars
  <2> QED
    BY <2>1, <2>2, ScrollFrame DEF ScrollInv, ScrollTypeOK
<1> QED
  BY <1>1, ListKeeps, ReaderKeeps, HandleScrollKeeps, OffersKeep DEF ScrollNext

LEMMA ScrollKept ==
    ASSUME ScrollInv
    PROVE  ReaderStaysPut /\ BoundaryOffered /\ OffersEnd
<1>1. readerAt # 0 => RowAt(offset, listRows) = readerAt
  <2>1. last \in Nat /\ listRows \in SUBSET (1..last)
    BY ScrollAssumption DEF ScrollInv, ScrollTypeOK
  <2> QED
    BY <2>1, RowIsAt DEF ScrollInv, ReaderHeld
<1> QED
  BY <1>1 DEF ScrollInv, ReaderStaysPut

-----------------------------------------------------------------------------
(* The unread counts and the icon                                           *)

\* The actions are taken in groups by what they change: the server's side,
\* the answers, the counts.  The icon needs the counts only through Badge,
\* which stays unexpanded.
USE DEF Bounded

(* The icon                                                                 *)

\* What the effect of useFaviconBadge keeps, whatever the counts became.
LEMMA FaviconStep ==
    ASSUME LoadsCurrent, IconFollowsBadge, FaviconEffect
    PROVE  LoadsCurrent' /\ IconFollowsBadge'
<1>1. CASE Badge' = Badge
  BY <1>1 DEF FaviconEffect, iconVars, LoadsCurrent, IconFollowsBadge
<1>2. CASE Badge' # Badge /\ Badge' = "none"
  <2>1. icon' = "none" /\ loads' = {[l EXCEPT !.live = FALSE] : l \in loads}
    BY <1>2 DEF FaviconEffect
  <2>2. \A l \in loads' : l \in [badge : {"red", "green"}, live : BOOLEAN] /\ l.live = FALSE
    BY <2>1 DEF LoadsCurrent
  <2> QED
    BY <1>2, <2>1, <2>2 DEF LoadsCurrent, IconFollowsBadge
<1>3. CASE Badge' # Badge /\ Badge' # "none"
  <2>1. PICK b : b = Badge'
    OBVIOUS
  <2>2. /\ icon' = icon /\ b \in {"red", "green"}
        /\ loads' = {[l EXCEPT !.live = FALSE] : l \in loads} \cup {[badge |-> b, live |-> TRUE]}
    BY <1>3, <2>1 DEF FaviconEffect, Badge
  <2>3. \A l \in loads' : /\ l \in [badge : {"red", "green"}, live : BOOLEAN]
                          /\ l.live => l.badge = b
    <3> SUFFICES ASSUME NEW l \in loads'
                 PROVE  l \in [badge : {"red", "green"}, live : BOOLEAN] /\ (l.live => l.badge = b)
      OBVIOUS
    <3>1. CASE l = [badge |-> b, live |-> TRUE]
      BY <2>2, <3>1
    <3>2. CASE \E o \in loads : l = [o EXCEPT !.live = FALSE]
      <4>1. PICK o \in loads : l = [o EXCEPT !.live = FALSE]
        BY <3>2
      <4>2. o \in [badge : {"red", "green"}, live : BOOLEAN]
        BY DEF LoadsCurrent
      <4>3. l \in [badge : {"red", "green"}, live : BOOLEAN] /\ l.live = FALSE
        BY <4>1, <4>2
      <4> QED
        BY <4>3
    <3> QED
      BY <2>2, <3>1, <3>2
  <2>4. [badge |-> b, live |-> TRUE] \in loads' /\ [badge |-> b, live |-> TRUE].live
    BY <2>2
  <2> QED
    BY <2>1, <2>3, <2>4 DEF LoadsCurrent, IconFollowsBadge
<1> QED
  BY <1>1, <1>2, <1>3

\* A step that leaves the counts and the icon alone.
LEMMA IconKept ==
    ASSUME LoadsCurrent, IconFollowsBadge, UNCHANGED <<countVars, iconVars>>
    PROVE  LoadsCurrent' /\ IconFollowsBadge'
<1>1. Badge' = Badge
  BY DEF Badge, countVars
<1> QED
  BY <1>1 DEF LoadsCurrent, IconFollowsBadge, iconVars

\* A step that leaves the client's counts, its conversation and its icon alone.
LEMMA ClientKept ==
    ASSUME UnreadInv, UNCHANGED <<countVars, open, absorbed, iconVars>>
    PROVE  LoadsCurrent' /\ UnreadHasBoundary' /\ OpenIsRead' /\ IconFollowsBadge'
<1>1. LoadsCurrent' /\ IconFollowsBadge'
  BY IconKept DEF UnreadInv
<1> QED
  BY <1>1 DEF UnreadInv, countVars, UnreadHasBoundary, OpenIsRead


(* The server                                                               *)

LEMMA LeastFact ==
    ASSUME NEW a \in Nat, NEW b \in Nat
    PROVE  Least(a, b) \in Nat /\ (a # 0 \/ b # 0 => Least(a, b) # 0)
BY DEF Least

LEMMA RowFields ==
    ASSUME NEW row \in UnreadRow
    PROVE  row.n \in Nat /\ row.first \in Nat /\ row.last \in Nat
BY DEF UnreadRow

LEMMA RowMade ==
    ASSUME NEW n \in Nat, NEW first \in Nat, NEW mention \in BOOLEAN, NEW latest \in Nat,
           n > 0 => first # 0
    PROVE  /\ [n |-> n, first |-> first, mention |-> mention, last |-> latest] \in UnreadRow
           /\ Bounded([n |-> n, first |-> first, mention |-> mention, last |-> latest])
BY DEF UnreadRow

LEMMA StoredStep ==
    ASSUME UnreadInv, NEW k \in Keys, UnreadStored(k)
    PROVE  UnreadInv'
<1>1. LoadsCurrent' /\ UnreadHasBoundary' /\ OpenIsRead' /\ IconFollowsBadge'
  BY ClientKept DEF UnreadStored
<1>2. unreads[k] \in UnreadRow /\ stored \in Nat
  BY DEF UnreadInv, UnreadTypeOK
<1> DEFINE named == unreads[k].mention \/ stored + 1 \in Mentioning
           row   == [n |-> unreads[k].n + 1, first |-> Least(unreads[k].first, stored + 1),
                     mention |-> named, last |-> stored + 1]
<1>n. named \in BOOLEAN
  OBVIOUS
<1>l. unreads[k].n \in Nat /\ Least(unreads[k].first, stored + 1) \in Nat \ {0}
  <2>1. unreads[k].n \in Nat /\ unreads[k].first \in Nat /\ stored + 1 \in Nat /\ stored + 1 # 0
    BY <1>2, RowFields
  <2> QED
    BY <2>1, LeastFact
<1> HIDE DEF named
<1>3. row \in UnreadRow /\ Bounded(row)
  BY <1>2, <1>n, <1>l, RowMade
<1>4. unreads' = [unreads EXCEPT ![k] = row]
  BY DEF UnreadStored, named
<1> HIDE DEF row
<1>5. UnreadTypeOK' /\ RowsBounded'
  BY <1>3, <1>4 DEF UnreadInv, UnreadTypeOK, RowsBounded, UnreadStored, countVars, muteVars
<1>6. EventsTyped'
  BY <1>2 DEF UnreadInv, EventsTyped, UnreadStored
<1> QED
  BY <1>1, <1>5, <1>6 DEF UnreadInv

LEMMA KeyLearnedStep ==
    ASSUME UnreadInv, UnreadKeyLearned
    PROVE  UnreadInv'
<1>1. LoadsCurrent' /\ UnreadHasBoundary' /\ OpenIsRead' /\ IconFollowsBadge'
  BY ClientKept DEF UnreadKeyLearned
<1>2. /\ unreads[Full] \in UnreadRow /\ unreads[Prefix] \in UnreadRow /\ stored \in Nat
      /\ Bounded(unreads[Full]) /\ Bounded(unreads[Prefix])
  BY DEF UnreadInv, UnreadTypeOK, RowsBounded, Keys
<1> DEFINE named == unreads[Full].mention \/ unreads[Prefix].mention
           first == Least(unreads[Full].first, unreads[Prefix].first)
           latest  == Later(unreads[Full].last, unreads[Prefix].last)
           row   == [n |-> unreads[Full].n + unreads[Prefix].n, first |-> first,
                     mention |-> named, last |-> latest]
<1>n. named \in BOOLEAN
  OBVIOUS
<1>l. /\ unreads[Full].n + unreads[Prefix].n \in Nat /\ first \in Nat /\ latest \in Nat
      /\ unreads[Full].n + unreads[Prefix].n > 0 => first # 0
  <2>1. /\ unreads[Full].n \in Nat /\ unreads[Full].first \in Nat /\ unreads[Full].last \in Nat
        /\ unreads[Prefix].n \in Nat /\ unreads[Prefix].first \in Nat /\ unreads[Prefix].last \in Nat
    BY <1>2, RowFields
  <2>2. first \in Nat /\ (unreads[Full].first # 0 \/ unreads[Prefix].first # 0 => first # 0)
    BY <2>1, LeastFact
  <2>3. latest \in Nat
    BY <2>1 DEF Later
  <2> QED
    BY <1>2, <2>1, <2>2, <2>3
<1> HIDE DEF named, first, latest
<1>3. row \in UnreadRow /\ Bounded(row)
  BY <1>2, <1>n, <1>l, RowMade
<1>5. None \in UnreadRow /\ Bounded(None)
  BY DEF None, UnreadRow
<1>6. unreads' = [unreads EXCEPT ![Full] = row, ![Prefix] = None]
  BY DEF UnreadKeyLearned, named, first, latest
<1> HIDE DEF row
<1>7. UnreadTypeOK' /\ RowsBounded'
  <2>1. unreads \in [Keys -> UnreadRow] /\ \A k \in Keys : Bounded(unreads[k])
    BY DEF UnreadInv, UnreadTypeOK, RowsBounded
  <2>2. unreads' \in [Keys -> UnreadRow] /\ \A k \in Keys : Bounded(unreads'[k])
    BY <1>3, <1>5, <1>6, <2>1
  <2>3. UNCHANGED <<countVars, open, absorbed, marker, muteVars, answers, marks>> /\ stored' \in Nat
    BY <1>2 DEF UnreadKeyLearned
  <2> QED
    BY <2>2, <2>3 DEF UnreadInv, UnreadTypeOK, RowsBounded, countVars, muteVars
<1>8. EventsTyped'
  BY <1>2 DEF UnreadInv, EventsTyped, UnreadKeyLearned, Keys
<1> QED
  BY <1>1, <1>7, <1>8 DEF UnreadInv

LEMMA DeletedElsewhereStep ==
    ASSUME UnreadInv, NEW k \in Keys, UnreadDeletedElsewhere(k)
    PROVE  UnreadInv'
<1>1. LoadsCurrent' /\ UnreadHasBoundary' /\ OpenIsRead' /\ IconFollowsBadge'
  BY ClientKept DEF UnreadDeletedElsewhere
<1>2. None \in UnreadRow /\ Bounded(None)
  BY DEF None, UnreadRow
<1>3. UnreadTypeOK' /\ RowsBounded'
  BY <1>2 DEF UnreadInv, UnreadTypeOK, RowsBounded, UnreadDeletedElsewhere, countVars, muteVars
<1>4. EventsTyped'
  BY DEF UnreadInv, UnreadTypeOK, EventsTyped, UnreadDeletedElsewhere
<1> QED
  BY <1>1, <1>3, <1>4 DEF UnreadInv

LEMMA ReadFact ==
    ASSUME NEW row \in UnreadRow
    PROVE  Read(row) \in UnreadRow /\ Bounded(Read(row))
<1>1. None \in UnreadRow /\ None.n = 0
  BY DEF None, UnreadRow
<1>2. row.last \in Nat
  BY RowFields
<1> QED
  BY <1>1, <1>2 DEF Read, UnreadRow

LEMMA MarkedReadStep ==
    ASSUME UnreadInv, NEW k \in Keys, MarkedRead(k)
    PROVE  UnreadInv'
<1>1. LoadsCurrent' /\ UnreadHasBoundary' /\ OpenIsRead' /\ IconFollowsBadge'
  BY ClientKept DEF MarkedRead
<1>2. Read(unreads[k]) \in UnreadRow /\ Bounded(Read(unreads[k]))
  BY ReadFact DEF UnreadInv, UnreadTypeOK
<1>3. UnreadTypeOK' /\ RowsBounded' /\ EventsTyped'
  BY <1>2 DEF UnreadInv, UnreadTypeOK, RowsBounded, EventsTyped, MarkedRead, countVars, muteVars
<1> QED
  BY <1>1, <1>3 DEF UnreadInv


(* Requests, and answers that change nothing but the marks                  *)

LEMMA AnswerFact ==
    ASSUME UnreadInv, NEW quiet \in BOOLEAN
    PROVE  /\ Answer(quiet).data \in [Keys -> UnreadRow] /\ Answer(quiet).marks \in BOOLEAN
           /\ \A k \in Keys : Bounded(Answer(quiet).data[k])
<1>1. unreads \in [Keys -> UnreadRow] /\ Room \in Keys /\ \A k \in Keys : Bounded(unreads[k])
  BY DEF UnreadInv, UnreadTypeOK, RowsBounded, Keys
<1>2. Read(unreads[Room]) \in UnreadRow /\ Bounded(Read(unreads[Room]))
  BY <1>1, ReadFact
<1> QED
  BY <1>1, <1>2 DEF Answer

LEMMA RequestStep ==
    ASSUME UnreadInv, FetchUnreads \/ HandleToggleMute \/ MuteReturns \/ DismissMarker
    PROVE  UnreadInv'
<1>1. LoadsCurrent' /\ UnreadHasBoundary' /\ OpenIsRead' /\ IconFollowsBadge'
  BY ClientKept DEF FetchUnreads, HandleToggleMute, MuteReturns, DismissMarker
<1>2. EventsTyped'
  BY DEF UnreadInv, EventsTyped, FetchUnreads, HandleToggleMute, MuteReturns, DismissMarker
<1>3. muted \in BOOLEAN /\ ServerMuted \in BOOLEAN
  BY DEF UnreadInv, UnreadTypeOK, ServerMuted
<1>4. \A a \in answers' : \/ a \in answers
                          \/ \E quiet \in BOOLEAN : a = Answer(quiet)
  BY <1>3 DEF FetchUnreads, HandleToggleMute, MuteReturns, DismissMarker
<1>5. /\ \A a \in answers' : a.data \in [Keys -> UnreadRow] /\ a.marks \in BOOLEAN
      /\ \A a \in answers' : \A k \in Keys : Bounded(a.data[k])
  BY <1>4, AnswerFact DEF UnreadInv, UnreadTypeOK, RowsBounded
<1>6. /\ UNCHANGED <<countVars, open, absorbed, serverSide, marks>>
      /\ marker' \in Int /\ muted' \in BOOLEAN /\ muting' \in BOOLEAN
  <2>1. marker \in Int /\ muting \in BOOLEAN /\ -1 \in Int
    BY DEF UnreadInv, UnreadTypeOK
  <2> QED
    BY <1>3, <2>1, Zenon DEF FetchUnreads, HandleToggleMute, MuteReturns, DismissMarker, muteVars, serverSide
<1>7. UnreadTypeOK' /\ RowsBounded'
  BY <1>5, <1>6 DEF UnreadInv, UnreadTypeOK, RowsBounded, countVars, serverSide
<1> QED
  BY <1>1, <1>2, <1>7 DEF UnreadInv

LEMMA FailStep ==
    ASSUME UnreadInv, NEW a \in answers, UnreadsFail(a)
    PROVE  UnreadInv'
<1>1. LoadsCurrent' /\ UnreadHasBoundary' /\ OpenIsRead' /\ IconFollowsBadge'
  BY ClientKept DEF UnreadsFail
<1>2. UnreadTypeOK' /\ RowsBounded' /\ EventsTyped'
  BY DEF UnreadInv, UnreadTypeOK, RowsBounded, EventsTyped, UnreadsFail, countVars, muteVars, serverSide
<1> QED
  BY <1>1, <1>2 DEF UnreadInv

LEMMA IconStep ==
    ASSUME UnreadInv, NEW l \in loads, IconLoads(l)
    PROVE  UnreadInv'
<1>1. Badge' = Badge
  BY DEF IconLoads, countVars, Badge
<1>2. LoadsCurrent' /\ IconFollowsBadge'
  BY <1>1 DEF UnreadInv, LoadsCurrent, IconFollowsBadge, IconLoads
<1>3. UnreadTypeOK' /\ RowsBounded' /\ EventsTyped' /\ UnreadHasBoundary' /\ OpenIsRead'
  BY DEF UnreadInv, UnreadTypeOK, RowsBounded, EventsTyped, UnreadHasBoundary, OpenIsRead, IconLoads,
         countVars, muteVars, serverSide
<1> QED
  BY <1>2, <1>3 DEF UnreadInv


(* The counts                                                               *)

LEMMA MarkerFact ==
    ASSUME NEW m \in Int, NEW conv, NEW count \in Nat, NEW first \in Nat
    PROVE  Marker(m, conv, count, first) \in Int
BY DEF Marker

\* What a step that goes through the effects of the counts has to show.
LEMMA CountsStep ==
    ASSUME UnreadInv, FaviconEffect,
           unreadCounts' \in [Keys -> Nat], mentions' \in [Keys -> BOOLEAN],
           firstUnreadIds' \in [Keys -> Nat], lastMessageTimes' \in [Keys -> Nat],
           open' \in Keys \cup {Closed}, absorbed' \in BOOLEAN, marker' \in Int,
           marks' \subseteq Keys, answers' \subseteq answers, unreadEvents' \subseteq unreadEvents,
           UNCHANGED <<muteVars, serverSide>>,
           UnreadHasBoundary', OpenIsRead'
    PROVE  UnreadInv'
<1>1. LoadsCurrent' /\ IconFollowsBadge'
  BY FaviconStep DEF UnreadInv
<1>2. UnreadTypeOK'
  BY DEF UnreadInv, UnreadTypeOK, muteVars, serverSide
<1>3. RowsBounded' /\ EventsTyped'
  BY DEF UnreadInv, RowsBounded, EventsTyped, serverSide
<1> QED
  BY <1>1, <1>2, <1>3 DEF UnreadInv

\* The parts of UnreadInv that the next lemmas need.
LEMMA CountFacts ==
    ASSUME UnreadInv
    PROVE  /\ unreadCounts \in [Keys -> Nat] /\ mentions \in [Keys -> BOOLEAN]
           /\ firstUnreadIds \in [Keys -> Nat] /\ lastMessageTimes \in [Keys -> Nat]
           /\ open \in Keys \cup {Closed} /\ absorbed \in BOOLEAN /\ marker \in Int
           /\ marks \subseteq Keys /\ {Room, Prefix, Full} \subseteq Keys
           /\ UnreadHasBoundary /\ OpenIsRead
BY DEF UnreadInv, UnreadTypeOK, Keys

LEMMA OpenStep ==
    ASSUME UnreadInv, NEW k \in Keys \cup {Closed}, OpenConversation(k)
    PROVE  UnreadInv'
<1> USE CountFacts
<1>1. /\ open' = k /\ absorbed' = FALSE /\ firstUnreadIds' = firstUnreadIds
      /\ lastMessageTimes' = lastMessageTimes /\ answers' = answers /\ unreadEvents' = unreadEvents
      /\ UNCHANGED <<muteVars, serverSide>> /\ FaviconEffect
      /\ unreadCounts' = IF k = Closed THEN unreadCounts ELSE [unreadCounts EXCEPT ![k] = 0]
      /\ mentions' = IF k = Closed THEN mentions ELSE [mentions EXCEPT ![k] = FALSE]
      /\ marks' = IF k = Closed THEN marks ELSE marks \cup {k}
      /\ marker' = Marker(IF k = open THEN marker ELSE -1, k, unreadCounts[Room], firstUnreadIds[Room])
  BY DEF OpenConversation, Opened
<1>2. marker' \in Int
  BY <1>1, MarkerFact
<1>3. unreadCounts' \in [Keys -> Nat] /\ marks' \subseteq Keys
  BY <1>1
<1>4. mentions' \in [Keys -> BOOLEAN]
  BY <1>1
<1>5. UnreadHasBoundary' /\ OpenIsRead'
  BY <1>1 DEF UnreadHasBoundary, OpenIsRead
<1> QED
  BY <1>1, <1>2, <1>3, <1>4, <1>5, CountsStep

LEMMA MarkAllStep ==
    ASSUME UnreadInv, MarkAllRead
    PROVE  UnreadInv'
<1> USE CountFacts
<1>1. /\ unreadCounts' = [k \in Keys |-> 0] /\ mentions' = [k \in Keys |-> FALSE]
      /\ firstUnreadIds' = [k \in Keys |-> 0] /\ marks' = marks \cup Keys /\ absorbed' = FALSE
      /\ lastMessageTimes' = lastMessageTimes /\ open' = open /\ answers' = answers
      /\ unreadEvents' = unreadEvents /\ UNCHANGED <<muteVars, serverSide>> /\ FaviconEffect
      /\ marker' = Marker(marker, open, unreadCounts'[Room], firstUnreadIds'[Room])
  BY DEF MarkAllRead, MarkerEffect
<1>2. marker' \in Int
  BY <1>1, MarkerFact
<1>3. UnreadHasBoundary' /\ OpenIsRead'
  BY <1>1 DEF UnreadHasBoundary, OpenIsRead
<1> QED
  BY <1>1, <1>2, <1>3, CountsStep

LEMMA ArriveStep ==
    ASSUME UnreadInv, NEW a \in answers, UnreadsArrive(a)
    PROVE  UnreadInv'
<1> USE CountFacts
<1>1. /\ a.data \in [Keys -> UnreadRow]
      /\ \A k \in Keys : Bounded(a.data[k])
  BY DEF UnreadInv, UnreadTypeOK, RowsBounded
<1>2. \A k \in Keys : a.data[k].n \in Nat /\ a.data[k].first \in Nat /\ a.data[k].last \in Nat
  BY <1>1, RowFields
<1>3. /\ answers' \subseteq answers /\ absorbed' = FALSE /\ open' = open /\ unreadEvents' = unreadEvents
      /\ marks' = IF a.marks /\ open # Closed THEN marks \cup {open} ELSE marks
      /\ UNCHANGED <<muteVars, serverSide>> /\ FaviconEffect
      /\ unreadCounts' = [k \in Keys |-> IF k = open THEN 0 ELSE a.data[k].n]
      /\ mentions' = [k \in Keys |-> k # open /\ a.data[k].mention]
      /\ firstUnreadIds' = [k \in Keys |-> a.data[k].first]
      /\ lastMessageTimes' = [k \in Keys |-> IF a.data[k].last > 0 THEN a.data[k].last ELSE lastMessageTimes[k]]
      /\ marker' = Marker(marker, open, unreadCounts'[Room], firstUnreadIds'[Room])
  BY DEF UnreadsArrive, ApplyUnreads, MarkerEffect
<1>4. /\ unreadCounts' \in [Keys -> Nat] /\ firstUnreadIds' \in [Keys -> Nat]
      /\ lastMessageTimes' \in [Keys -> Nat] /\ marks' \subseteq Keys
  BY <1>2, <1>3
<1>5. mentions' \in [Keys -> BOOLEAN]
  BY <1>3
<1>6. marker' \in Int
  BY <1>3, <1>4, MarkerFact
<1>7. UnreadHasBoundary' /\ OpenIsRead'
  BY <1>1, <1>2, <1>3 DEF UnreadHasBoundary, OpenIsRead
<1> QED
  BY <1>3, <1>4, <1>5, <1>6, <1>7, CountsStep

LEMMA MessageStep ==
    ASSUME UnreadInv, NEW e \in unreadEvents, OnUnreadMessage(e)
    PROVE  UnreadInv'
<1> USE CountFacts
<1>1. e.k \in Keys /\ e.id \in Nat \ {0}
  BY DEF UnreadInv, EventsTyped
<1>2. /\ unreadEvents' \subseteq unreadEvents /\ open' = open /\ absorbed' = absorbed
      /\ answers' = answers /\ marks' = marks /\ UNCHANGED <<muteVars, serverSide>>
  BY DEF OnUnreadMessage
<1>3. CASE muted /\ e.k = Room
  <2>1. UNCHANGED <<countVars, marker, iconVars>>
    BY <1>3 DEF OnUnreadMessage
  <2>2. LoadsCurrent' /\ UnreadHasBoundary' /\ OpenIsRead' /\ IconFollowsBadge'
    BY <1>2, <2>1, ClientKept
  <2>3. UnreadTypeOK' /\ RowsBounded' /\ EventsTyped'
    BY <1>2, <2>1 DEF UnreadInv, UnreadTypeOK, RowsBounded, EventsTyped, countVars, muteVars, serverSide
  <2> QED
    BY <2>2, <2>3 DEF UnreadInv
<1>4. CASE ~(muted /\ e.k = Room)
  <2>1. /\ lastMessageTimes' = [lastMessageTimes EXCEPT ![e.k] = e.id] /\ FaviconEffect
        /\ marker' = Marker(marker, open, unreadCounts'[Room], firstUnreadIds'[Room])
        /\ IF e.k # open THEN IncrementUnread(e.k, e.id)
           ELSE UNCHANGED <<unreadCounts, firstUnreadIds, mentions>>
    BY <1>4 DEF OnUnreadMessage, RecordMessageEvent, MarkerEffect
  <2>2. /\ unreadCounts' \in [Keys -> Nat] /\ firstUnreadIds' \in [Keys -> Nat]
        /\ lastMessageTimes' \in [Keys -> Nat]
    BY <1>1, <2>1 DEF IncrementUnread
  <2>3. mentions' \in [Keys -> BOOLEAN]
    BY <1>1, <2>1 DEF IncrementUnread
  <2>4. marker' \in Int
    BY <2>1, <2>2, MarkerFact
  <2>5. UnreadHasBoundary' /\ OpenIsRead'
    BY <1>1, <1>2, <2>1 DEF UnreadHasBoundary, OpenIsRead, IncrementUnread
  <2> QED
    BY <1>2, <2>1, <2>2, <2>3, <2>4, <2>5, CountsStep
<1> QED
  BY <1>3, <1>4

LEMMA DeletedStep ==
    ASSUME UnreadInv, NEW e \in unreadEvents, OnUnreadDeleted(e)
    PROVE  UnreadInv'
<1> USE CountFacts
<1>1. e.k \in Keys
  BY DEF UnreadInv, EventsTyped
<1>2. /\ unreadEvents' \subseteq unreadEvents /\ answers' = answers /\ marks' = marks
      /\ lastMessageTimes' = lastMessageTimes /\ UNCHANGED <<muteVars, serverSide>> /\ FaviconEffect
      /\ unreadCounts' = [unreadCounts EXCEPT ![e.k] = 0] /\ mentions' = [mentions EXCEPT ![e.k] = FALSE]
      /\ firstUnreadIds' = [firstUnreadIds EXCEPT ![e.k] = 0]
      /\ IF open = e.k THEN open' = Closed /\ absorbed' = FALSE ELSE open' = open /\ absorbed' = absorbed
      /\ marker' = IF e.k = Room THEN -1 ELSE marker
  BY DEF OnUnreadDeleted, RemoveConversationState
<1>3. unreadCounts' \in [Keys -> Nat] /\ firstUnreadIds' \in [Keys -> Nat] /\ marker' \in Int
  BY <1>1, <1>2
<1>4. mentions' \in [Keys -> BOOLEAN] /\ open' \in Keys \cup {Closed} /\ absorbed' \in BOOLEAN
  BY <1>1, <1>2
<1>5. UnreadHasBoundary' /\ OpenIsRead'
  BY <1>1, <1>2 DEF UnreadHasBoundary, OpenIsRead
<1> QED
  BY <1>2, <1>3, <1>4, <1>5, CountsStep

LEMMA ResolvedStep ==
    ASSUME UnreadInv, NEW e \in unreadEvents, OnUnreadResolved(e)
    PROVE  UnreadInv'
<1> USE CountFacts, UnreadAssumption
<1>1. /\ unreadEvents' \subseteq unreadEvents /\ answers' = answers /\ marker' = marker
      /\ UNCHANGED <<muteVars, serverSide>> /\ FaviconEffect
  BY DEF OnUnreadResolved
<1>2. CASE open = Prefix
  <2>1. /\ open' = Full /\ marks' = marks \cup {Full} /\ absorbed' = FALSE
        /\ unreadCounts' = [unreadCounts EXCEPT ![Full] = 0, ![Prefix] = 0]
        /\ mentions' = [mentions EXCEPT ![Full] = FALSE, ![Prefix] = FALSE]
        /\ firstUnreadIds' = [firstUnreadIds EXCEPT
                                 ![Full] = IF @ # 0 THEN @ ELSE firstUnreadIds[Prefix], ![Prefix] = 0]
        /\ lastMessageTimes' = [lastMessageTimes EXCEPT ![Prefix] = 0, ![Full] =
                                   Later(@, lastMessageTimes[Prefix])]
    BY <1>2 DEF OnUnreadResolved
  <2>2. /\ unreadCounts' \in [Keys -> Nat] /\ firstUnreadIds' \in [Keys -> Nat]
        /\ lastMessageTimes' \in [Keys -> Nat]
    BY <2>1 DEF Later
  <2>3. mentions' \in [Keys -> BOOLEAN]
    BY <2>1
  <2>4. UnreadHasBoundary' /\ OpenIsRead'
    BY <2>1 DEF UnreadHasBoundary, OpenIsRead, Keys
  <2> QED
    BY <1>1, <2>1, <2>2, <2>3, <2>4, CountsStep
<1>3. CASE open # Prefix
  <2>1. /\ open' = open /\ marks' = marks
        /\ absorbed' = (absorbed \/ (open = Full /\ unreadCounts[Prefix] > 0))
        /\ unreadCounts' = [unreadCounts EXCEPT ![Full] = @ + unreadCounts[Prefix], ![Prefix] = 0]
        /\ mentions' = [mentions EXCEPT ![Full] = @ \/ mentions[Prefix], ![Prefix] = FALSE]
        /\ firstUnreadIds' = [firstUnreadIds EXCEPT
                                 ![Full] = IF @ # 0 THEN @ ELSE firstUnreadIds[Prefix], ![Prefix] = 0]
        /\ lastMessageTimes' = [lastMessageTimes EXCEPT
                                   ![Full] = Later(@, lastMessageTimes[Prefix]), ![Prefix] = 0]
    BY <1>3 DEF OnUnreadResolved, RenameConversationState
  <2>2. /\ unreadCounts' \in [Keys -> Nat] /\ firstUnreadIds' \in [Keys -> Nat]
        /\ lastMessageTimes' \in [Keys -> Nat]
    BY <2>1 DEF Later
  <2>3. mentions' \in [Keys -> BOOLEAN] /\ absorbed' \in BOOLEAN
    BY <2>1
  <2>4. UnreadHasBoundary'
    BY <2>1 DEF UnreadHasBoundary, Keys
  <2>5. OpenIsRead'
    <3> SUFFICES ASSUME open' # Closed, ~absorbed' PROVE unreadCounts'[open'] = 0
      BY DEF OpenIsRead
    <3>1. ~absorbed /\ ~(open = Full /\ unreadCounts[Prefix] > 0)
      BY <2>1, Zenon
    <3>2. open # Closed /\ open \in Keys /\ unreadCounts[open] = 0
      BY <2>1, <3>1 DEF OpenIsRead
    <3>3. CASE open = Full
      BY <2>1, <3>1, <3>2, <3>3
    <3>4. CASE open # Full
      BY <1>3, <2>1, <3>2, <3>4
    <3> QED
      BY <3>3, <3>4
  <2> QED
    BY <1>1, <2>1, <2>2, <2>3, <2>4, <2>5, CountsStep
<1> QED
  BY <1>2, <1>3


(* The theorems                                                             *)

LEMMA UnreadStarts ==
    ASSUME UnreadInit
    PROVE  UnreadInv
<1>1. None \in UnreadRow /\ Bounded(None)
  BY DEF None, UnreadRow
<1>2. answers = {[data |-> [k \in Keys |-> None], marks |-> FALSE]} /\ unreads = [k \in Keys |-> None]
  BY DEF UnreadInit
<1>3. UnreadTypeOK /\ RowsBounded
  <2>1. unreads \in [Keys -> UnreadRow] /\ \A k \in Keys : unreads[k] = None
    BY <1>1, <1>2
  <2>2. \A a \in answers : a.data = unreads /\ a.marks = FALSE
    BY <1>2
  <2>3. RowsBounded
    BY <1>1, <2>1, <2>2 DEF RowsBounded
  <2>4. /\ unreadCounts \in [Keys -> Nat] /\ firstUnreadIds \in [Keys -> Nat]
        /\ lastMessageTimes \in [Keys -> Nat] /\ marker \in Int /\ stored \in Nat
    BY DEF UnreadInit
  <2>5. /\ mentions \in [Keys -> BOOLEAN] /\ absorbed \in BOOLEAN /\ muted \in BOOLEAN
        /\ muting \in BOOLEAN /\ marks \subseteq Keys /\ open \in Keys \cup {Closed}
    BY DEF UnreadInit
  <2>6. \A a \in answers : a.data \in [Keys -> UnreadRow] /\ a.marks \in BOOLEAN
    BY <2>1, <2>2
  <2>7. UnreadTypeOK
    BY <2>1, <2>4, <2>5, <2>6 DEF UnreadTypeOK
  <2> QED
    BY <2>3, <2>7
<1>4. EventsTyped /\ LoadsCurrent /\ UnreadHasBoundary /\ OpenIsRead
  BY DEF UnreadInit, EventsTyped, LoadsCurrent, UnreadHasBoundary, OpenIsRead
<1>5. Badge = "none"
  BY DEF UnreadInit, Badge, Keys
<1>6. IconFollowsBadge
  BY <1>5 DEF UnreadInit, IconFollowsBadge
<1> QED
  BY <1>3, <1>4, <1>6 DEF UnreadInv

LEMMA UnreadStep ==
    ASSUME UnreadInv, [UnreadNext]_unreadVars
    PROVE  UnreadInv'
<1>1. CASE UNCHANGED unreadVars
  <2>1. UNCHANGED <<countVars, open, absorbed, iconVars>>
    BY <1>1 DEF unreadVars
  <2>2. LoadsCurrent' /\ UnreadHasBoundary' /\ OpenIsRead' /\ IconFollowsBadge'
    BY <2>1, ClientKept
  <2>3. UnreadTypeOK' /\ RowsBounded' /\ EventsTyped'
    BY <1>1 DEF UnreadInv, UnreadTypeOK, RowsBounded, EventsTyped, unreadVars, countVars, muteVars, serverSide
  <2> QED
    BY <2>2, <2>3 DEF UnreadInv
<1>2. CASE UnreadNext
  BY <1>2, OpenStep, StoredStep, DeletedElsewhereStep, MarkedReadStep, MarkAllStep, RequestStep,
     ArriveStep, FailStep, MessageStep, ResolvedStep, DeletedStep, IconStep, KeyLearnedStep DEF UnreadNext
<1> QED
  BY <1>1, <1>2

(* UnreadInv holds in every reachable state, for any bounds on messages,    *)
(* fetches and conversations opened.                                        *)
THEOREM UnreadInvariance == UnreadSpec => []UnreadInv
BY UnreadStarts, UnreadStep, PTL DEF UnreadSpec

(* The counts, the rows of the server and the answers keep their types.     *)
THEOREM UnreadTypes == UnreadSpec => []UnreadTypeOK
<1>1. UnreadInv => UnreadTypeOK
  BY DEF UnreadInv
<1> QED
  BY <1>1, UnreadInvariance, PTL

(* Whatever counts, an answer, an event, a rename or a removal, a count     *)
(* comes with the message to draw the divider at (useUnreadCounts.ts).      *)
THEOREM CountsHaveBoundary == UnreadSpec => []UnreadHasBoundary
<1>1. UnreadInv => UnreadHasBoundary
  BY DEF UnreadInv
<1> QED
  BY <1>1, UnreadInvariance, PTL

(* The open conversation has no unread count, however late an answer to GET *)
(* /unreads comes, unless it took over the count of its prefix.             *)
THEOREM OpenStaysRead == UnreadSpec => []OpenIsRead
<1>1. UnreadInv => OpenIsRead
  BY DEF UnreadInv
<1> QED
  BY <1>1, UnreadInvariance, PTL

(* Once nothing loads, the icon wears the badge of the counts, in whatever  *)
(* order badges changed and images arrived (useFaviconBadge.ts).            *)
THEOREM IconCatchesUp == UnreadSpec => []IconFollowsBadge
<1>1. UnreadInv => IconFollowsBadge
  BY DEF UnreadInv
<1> QED
  BY <1>1, UnreadInvariance, PTL

HIDE DEF Bounded

-----------------------------------------------------------------------------
(* The parts together                                                       *)

LEMMA ConversationsStart ==
    ASSUME ConversationsInit
    PROVE  ConversationsInv
<1>1. focus \in Parts /\ RouterInit /\ UnreadInit /\ SidebarInit /\ ScrollInit
  BY DEF ConversationsInit
<1> QED
  BY <1>1, RouterStarts, UnreadStarts, SidebarStarts, ScrollStarts DEF ConversationsInv

LEMMA ConversationsStep ==
    ASSUME ConversationsInv,
           [ConversationsNext]_<<routerVars, unreadVars, sidebarVars, scrollVars, focus>>
    PROVE  ConversationsInv'
<1>1. /\ focus' = focus
      /\ [RouterNext]_routerVars /\ [UnreadNext]_unreadVars
      /\ [SidebarNext]_sidebarVars /\ [ScrollNext]_scrollVars
  BY DEF ConversationsNext
<1>2. RouterInv' /\ UnreadInv' /\ SidebarInv' /\ ScrollInv'
  BY <1>1, RouterStep, UnreadStep, SidebarStepKeeps, ScrollStep DEF ConversationsInv
<1> QED
  BY <1>1, <1>2 DEF ConversationsInv

(* The inductive invariants of the four parts hold together in every        *)
(* reachable state, for any lists, histories, rows and bounds.              *)
THEOREM ConversationsInvariance == ConversationsSpec => []ConversationsInv
BY ConversationsStart, ConversationsStep, PTL DEF ConversationsSpec

(* Every variable of the router, the counts, the sidebar and the message    *)
(* list keeps its type; the history of the browser keeps its shape.         *)
THEOREM ConversationsTypes == ConversationsSpec => []ConversationsTypeOK
<1>1. ConversationsInv => ConversationsTypeOK
  BY DEF ConversationsInv, ConversationsTypeOK, Of, RouterInv, UnreadInv, SidebarInv, ScrollInv
<1> QED
  BY <1>1, ConversationsInvariance, PTL

(* Once the lists have been loaded and Public is among the channels, no     *)
(* deletion, move in the browser's history or address that resolves to      *)
(* nothing leaves a settled client without a conversation                   *)
(* (useConversationRouter.ts:317, :335).                                    *)
THEOREM RouterNeverStranded == ConversationsSpec => []NeverStranded
<1>1. ConversationsInv => NeverStranded
  BY RouterSettles DEF ConversationsInv
<1> QED
  BY <1>1, ConversationsInvariance, PTL

(* When nothing is left to render, the address names a settings section     *)
(* exactly while the settings are open, and then the one shown, and a view  *)
(* without a key only while that view, or nothing, is the conversation      *)
(* (useConversationRouter.ts, useAppShell.ts).                              *)
THEOREM AddressFollowsView == ConversationsSpec => []AddressNamesView
<1>1. ConversationsInv => AddressNamesView
  BY RouterSettles DEF ConversationsInv
<1> QED
  BY <1>1, ConversationsInvariance, PTL

(* A finished search leaves the collapsed sections as they were, and rows   *)
(* that come, go or are paged in leave the reader's row in place, the way   *)
(* to the unread boundary on offer and no spinner without a request.        *)
THEOREM ViewsKeptAsLeft == ConversationsSpec => []KeptAsLeft
<1>1. ConversationsInv => KeptAsLeft
  BY SidebarKept, ScrollKept DEF ConversationsInv, KeptAsLeft, Of
<1> QED
  BY <1>1, ConversationsInvariance, PTL
================================================================================
