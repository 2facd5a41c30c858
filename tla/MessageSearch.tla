----------------------------- MODULE MessageSearch -----------------------------
(***************************************************************************)
(* The two lists of messages that are fetched in pages: the search         *)
(* (SearchView.tsx), which is debounced and stays mounted once opened, and *)
(* the mentions (MentionsView.tsx), which is mounted while it is open.     *)
(* The server's lists grow, and shrink when somebody is blocked, between   *)
(* two pages; a request is answered by what the server holds when it       *)
(* reaches it.                                                             *)
(***************************************************************************)
EXTENDS Integers, Sequences, FiniteSets, SequencesExt, Selections

CONSTANTS
    Queries,        \* what may be searched for
    Matches,        \* the messages that match, by query and for Mentioned
    Mentioned,      \* the list of messages that mention the user
    SearchPage,     \* SEARCH_PAGE_SIZE and PAGE_SIZE, cut down
    FirstStored, LastMessage, \* messages are numbered in the order they are stored
    MaxSearchSteps  \* bound on what the user does and the server stores or hides

ASSUME SearchAssumption ==
    /\ SearchPage \in Nat \ {0} /\ FirstStored \in Nat /\ LastMessage \in Nat
    /\ \A q \in Queries \cup {Mentioned} : Matches[q] \subseteq Nat

\* No more than a page arrives while a list is shown: with more than that the
\* next page holds rows newer than those above it.
ASSUME ArrivalsAssumption == FirstStored <= LastMessage /\ LastMessage - FirstStored <= SearchPage

VARIABLES
    messageCount, hidden,      \* the server's messages, and those of blocked people
    query, debounced,    \* the box: a query and blanks around it; NoQuery is empty
    debouncing,          \* the timer runs
    found, moreFound, foundOffset, searchBusy,
    learned,             \* the client knows of the blocks: visibilityVersion follows
    mentionsOpen, named, \* MentionsView is mounted; the radio's name is known
    mentionRows, moreMentions, mentionsLoading,
    heard,               \* messages the socket has announced
    pages,               \* requests that have not been settled
    newest,              \* the one in abortRef, by list
    searchSteps

storeVars   == <<messageCount, hidden, heard>>
boxVars      == <<query, debounced, debouncing>>
foundVars    == <<found, moreFound, foundOffset, searchBusy>>
mentionsVars == <<mentionsOpen, named, mentionRows, moreMentions, mentionsLoading>>
searchVars   == <<storeVars, boxVars, foundVars, learned, mentionsVars, pages, newest, searchSteps>>

NoQuery == "nothing"
Lists == {"search", "mentions"}
Empty == [text |-> NoQuery, blanks |-> FALSE]

SearchInit ==
    /\ messageCount = FirstStored /\ hidden = {} /\ heard = FirstStored
    /\ query = Empty /\ debounced = NoQuery /\ debouncing = FALSE
    /\ found = <<>> /\ moreFound = FALSE /\ foundOffset = 0 /\ searchBusy = FALSE /\ learned = TRUE
    /\ mentionsOpen = FALSE /\ named = FALSE /\ mentionRows = <<>> /\ moreMentions = FALSE
    /\ mentionsLoading = TRUE
    /\ pages = {} /\ newest = [l \in Lists |-> 0] /\ searchSteps = 0

SearchAct == searchSteps < MaxSearchSteps /\ searchSteps' = searchSteps + 1

(***************************************************************************)
(* The server's lists, newest first, and the pages of them.                *)
(***************************************************************************)
\* The hits of a query among the first n messages, without those of blocked people.
Hits(q, n, blocked) == {m \in 1..n : m \in Matches[q] \ blocked}
Newer(m, hits) == Cardinality({k \in hits : k > m})

\* ORDER BY received_at DESC LIMIT ... OFFSET ...
RowsAt(hits, offset) == {m \in hits : Newer(m, hits) \in offset..(offset + SearchPage - 1)}
PageAt(hits, offset) == Reverse(Ascending(RowsAt(hits, offset)))
Page(p) == PageAt(Hits(p.query, messageCount, hidden), p.offset)

MessageStored ==
    /\ SearchAct /\ messageCount < LastMessage /\ messageCount' = messageCount + 1
    /\ UNCHANGED <<hidden, heard, boxVars, foundVars, learned, mentionsVars, pages, newest>>

\* Its owner is blocked, here or in another client.
MessageHidden(m) ==
    /\ SearchAct /\ m \in 1..messageCount /\ hidden = {} /\ hidden' = {m} /\ learned' = FALSE
    /\ UNCHANGED <<messageCount, heard, boxVars, foundVars, mentionsVars, pages, newest>>

\* The server reaches a request.
PageServed(p) ==
    /\ p \in pages /\ ~p.aborted /\ ~p.served
    /\ pages' = (pages \ {p}) \cup {[p EXCEPT !.served = TRUE, !.data = Page(p)]}
    /\ UNCHANGED <<storeVars, boxVars, foundVars, learned, mentionsVars, newest, searchSteps>>

(***************************************************************************)
(* Requests: a number stands for the AbortController.                      *)
(***************************************************************************)
Request(list, q, offset, more) ==
    [id |-> newest[list] + 1, list |-> list, query |-> q, offset |-> offset, more |-> more,
     aborted |-> FALSE, served |-> FALSE, data |-> <<>>]

\* The requests in flight when those of ps are aborted.
Aborting(ps) == (pages \ ps) \cup {[p EXCEPT !.aborted = TRUE, !.served = FALSE, !.data = <<>>] : p \in ps}

\* The previous request of a list is aborted and a new one is sent.
Ask(r) ==
    /\ pages' = Aborting({p \in pages : p.list = r.list}) \cup {r}
    /\ newest' = [newest EXCEPT ![r.list] = r.id]

\* What a page adds to what is shown: the rows that are not there yet.
MutMerged(shown, data) == shown \o data
Merged(shown, data) == shown \o Picked(data, {i \in DOMAIN data : data[i] \notin ToSet(shown)})

(***************************************************************************)
(* SearchView.                                                             *)
(***************************************************************************)
\* The effects of a new debounced query or visibility: the list is reset and
\* the effect's own request is aborted; only a query that is not empty aborts
\* the request of "Load more results" too, and is fetched.
MutSearchFor(q) ==
    /\ debounced' = q /\ found' = <<>> /\ moreFound' = FALSE /\ foundOffset' = 0
    /\ IF q = NoQuery THEN UNCHANGED <<pages, newest, searchBusy>>
       ELSE /\ pages' = pages \cup {Request("search", q, 0, FALSE)}
            /\ newest' = [newest EXCEPT !["search"] = @ + 1]
            /\ searchBusy' = TRUE

SearchFor(q) ==
    /\ debounced' = q /\ found' = <<>> /\ moreFound' = FALSE /\ foundOffset' = 0
    /\ IF q = NoQuery
       THEN /\ pages' = Aborting({p \in pages : p.list = "search" /\ ~p.more})
            /\ UNCHANGED <<newest, searchBusy>>
       ELSE Ask(Request("search", q, 0, FALSE)) /\ searchBusy' = TRUE

\* The box changes; its timer starts again.
TypeQuery(q, blanks) ==
    /\ SearchAct /\ query # [text |-> q, blanks |-> blanks]
    /\ query' = [text |-> q, blanks |-> blanks] /\ debouncing' = TRUE
    /\ UNCHANGED <<storeVars, debounced, foundVars, learned, mentionsVars, pages, newest>>

\* The debounce timer fires: the query without its blanks.
DebounceFires ==
    /\ debouncing /\ debouncing' = FALSE
    /\ IF query.text = debounced THEN UNCHANGED <<debounced, foundVars, pages, newest>>
       ELSE SearchFor(query.text)
    /\ UNCHANGED <<storeVars, query, learned, mentionsVars, searchSteps>>

\* A search asked for elsewhere fills the box and is not debounced.
PrefillSearch(q) ==
    /\ SearchAct /\ query' = [text |-> q, blanks |-> FALSE]
    /\ debouncing' = (debouncing \/ query # query')
    /\ IF q = debounced THEN UNCHANGED <<debounced, foundVars, pages, newest>> ELSE SearchFor(q)
    /\ UNCHANGED <<storeVars, learned, mentionsVars>>

\* The list of blocked people reaches the client.
VisibilityChanges ==
    /\ ~learned /\ learned' = TRUE /\ SearchFor(debounced)
    /\ UNCHANGED <<storeVars, query, debouncing, mentionsVars, searchSteps>>

\* loadMore.
LoadMoreFound ==
    /\ SearchAct /\ moreFound /\ ~searchBusy /\ debounced # NoQuery
    /\ Ask(Request("search", debounced, foundOffset, TRUE)) /\ searchBusy' = TRUE
    /\ UNCHANGED <<storeVars, boxVars, found, moreFound, foundOffset, learned, mentionsVars>>

\* A request of the search ends, answered, failed or aborted: whichever it
\* is, the spinner is cleared.
SearchPageReturns(p) ==
    /\ p \in pages /\ p.list = "search" /\ pages' = pages \ {p} /\ searchBusy' = FALSE
    /\ \/ /\ p.served
          /\ found' = IF p.more THEN Merged(found, p.data) ELSE p.data
          /\ foundOffset' = IF p.more THEN foundOffset + Len(p.data) ELSE Len(p.data)
          /\ moreFound' = (Len(p.data) >= SearchPage)
       \/ UNCHANGED <<found, foundOffset, moreFound>>
    /\ UNCHANGED <<storeVars, boxVars, learned, mentionsVars, newest, searchSteps>>

(***************************************************************************)
(* MentionsView.                                                           *)
(***************************************************************************)
\* fetchPage.
FetchPage(offset) == Ask(Request("mentions", Mentioned, offset, offset # 0)) /\ mentionsLoading' = TRUE

OpenMentions ==
    /\ SearchAct /\ ~mentionsOpen /\ mentionsOpen' = TRUE
    /\ mentionRows' = <<>> /\ moreMentions' = FALSE /\ FetchPage(0)
    /\ UNCHANGED <<storeVars, boxVars, foundVars, learned, named>>

LeaveMentions ==
    /\ SearchAct /\ mentionsOpen /\ mentionsOpen' = FALSE
    /\ mentionRows' = <<>> /\ moreMentions' = FALSE /\ mentionsLoading' = TRUE
    /\ pages' = Aborting({p \in pages : p.list = "mentions"})
    /\ UNCHANGED <<storeVars, boxVars, foundVars, learned, named, newest>>

\* A message that mentions the user is announced, or the name becomes known:
\* an open list is fetched again, from its start.
Refetch == IF mentionsOpen THEN FetchPage(0) ELSE UNCHANGED <<mentionsLoading, pages, newest>>

MentionHeard ==
    /\ heard < messageCount /\ heard' = heard + 1
    /\ IF heard + 1 \in Matches[Mentioned] /\ named THEN Refetch
       ELSE UNCHANGED <<mentionsLoading, pages, newest>>
    /\ UNCHANGED <<messageCount, hidden, boxVars, foundVars, learned, mentionsOpen, named, mentionRows,
                   moreMentions, searchSteps>>

NameKnown ==
    /\ ~named /\ named' = TRUE /\ Refetch
    /\ UNCHANGED <<storeVars, boxVars, foundVars, learned, mentionsOpen, mentionRows, moreMentions, searchSteps>>

LoadOlderMentions ==
    /\ SearchAct /\ mentionsOpen /\ moreMentions /\ ~mentionsLoading /\ FetchPage(Len(mentionRows))
    /\ UNCHANGED <<storeVars, boxVars, foundVars, learned, mentionsOpen, named, mentionRows, moreMentions>>

\* A request of the mentions ends; only the newest one clears the spinner.
MentionsReturn(p) ==
    /\ p \in pages /\ p.list = "mentions" /\ pages' = pages \ {p}
    /\ mentionsLoading' = (mentionsLoading /\ ~(mentionsOpen /\ p.id = newest["mentions"]))
    /\ \/ /\ p.served
          /\ mentionRows' = IF p.more THEN Merged(mentionRows, p.data) ELSE p.data
          /\ moreMentions' = (Len(p.data) >= SearchPage)
       \/ UNCHANGED <<mentionRows, moreMentions>>
    /\ UNCHANGED <<storeVars, boxVars, foundVars, learned, mentionsOpen, named, newest, searchSteps>>

SearchNext ==
    \/ MessageStored \/ DebounceFires \/ VisibilityChanges \/ LoadMoreFound
    \/ OpenMentions \/ LeaveMentions \/ MentionHeard \/ NameKnown \/ LoadOlderMentions
    \/ \E m \in 1..LastMessage : MessageHidden(m)
    \/ \E q \in Queries \cup {NoQuery}, blanks \in BOOLEAN : TypeQuery(q, blanks)
    \/ \E q \in Queries : PrefillSearch(q)
    \/ \E p \in pages : PageServed(p) \/ SearchPageReturns(p) \/ MentionsReturn(p)

(***************************************************************************)
(* Properties.                                                             *)
(***************************************************************************)
SearchTypeOK ==
    /\ messageCount \in 0..LastMessage /\ heard \in 0..messageCount
    /\ query.text \in Queries \cup {NoQuery} /\ debounced \in Queries \cup {NoQuery}
    /\ ToSet(found) \cup ToSet(mentionRows) \subseteq 1..messageCount
    /\ searchBusy \in BOOLEAN /\ moreFound \in BOOLEAN /\ debouncing \in BOOLEAN /\ learned \in BOOLEAN
    /\ mentionsOpen \in BOOLEAN /\ named \in BOOLEAN /\ moreMentions \in BOOLEAN /\ mentionsLoading \in BOOLEAN
    /\ foundOffset \in 0..LastMessage

\* A run of the server's list: the rows are matches, newest first, each once,
\* and none that lies between two of them is missing.
RunOf(shown, q, ignored) ==
    /\ \A i \in 1..(Len(shown) - 1) : shown[i] > shown[i + 1]
    /\ ToSet(shown) \subseteq Matches[q]
    /\ \A m \in Matches[q] \ ignored :
         (\E i, j \in 1..Len(shown) : shown[i] > m /\ m > shown[j]) => m \in ToSet(shown)

\* Under a query the search shows a run of that query's matches, although
\* answers of earlier queries and pages come late and messages arrive between
\* two pages (SearchView.tsx:135, :166); a block is taken out when the client
\* learns of it.  The mentions are a run of theirs as long as nobody is
\* blocked (MentionsView.tsx:40).
SearchShowsQuery ==
    /\ debounced # NoQuery /\ learned => RunOf(found, debounced, hidden)
    /\ hidden = {} => RunOf(mentionRows, Mentioned, {})

\* Each list says it is loading only while a request of its own is in flight;
\* for the mentions it is the newest one (SearchView.tsx:159,
\* MentionsView.tsx:58).
SearchLoadingEnds ==
    /\ searchBusy => \E p \in pages : p.list = "search"
    /\ mentionsOpen /\ mentionsLoading =>
         \E p \in pages : p.list = "mentions" /\ p.id = newest["mentions"]

(***************************************************************************)
(* The inductive invariant.  Each list is the top of the hits that were    *)
(* stored when its first page was served: no row above one that is shown,  *)
(* and none that an offset skips, is missing from it.                      *)
(***************************************************************************)
PageRequests ==
    [id : Nat, list : Lists, query : Queries \cup {NoQuery, Mentioned}, offset : Nat, more : BOOLEAN,
     aborted : BOOLEAN, served : BOOLEAN, data : Seq(1..LastMessage)]

InFlight(list) == {p \in pages : p.list = list /\ ~p.aborted}

Descending(shown) == \A i, j \in 1..Len(shown) : i < j => shown[i] > shown[j]

TopOf(hits, shown) ==
    /\ Descending(shown) /\ ToSet(shown) \subseteq hits
    /\ \A m \in hits : \A r \in ToSet(shown) : m > r => m \in ToSet(shown)
SkipsShown(hits, shown, offset, all) == \A m \in hits : Newer(m, all) < offset => m \in ToSet(shown)

\* A request that continues or replaces a list whose first page was served when
\* n messages were stored; there are count of them now.
PageDue(p, q, shown, offset, n, count, blocked) ==
    /\ p.query = q /\ p.offset = (IF p.more THEN offset ELSE 0) /\ (p.more => offset >= SearchPage)
    /\ p.served => \E k \in n..count :
                       /\ p.data = PageAt(Hits(q, k, blocked), p.offset)
                       /\ SkipsShown(Hits(q, n, blocked), shown, offset, Hits(q, k, blocked))

ListSound(due, q, shown, offset, count, blocked) ==
    \E n \in FirstStored..count :
       /\ TopOf(Hits(q, n, blocked), shown)
       /\ SkipsShown(Hits(q, n, blocked), shown, offset, Hits(q, count, blocked))
       /\ \A p \in due : PageDue(p, q, shown, offset, n, count, blocked)

SearchSound ==
    learned /\ debounced # NoQuery =>
      ListSound(InFlight("search"), debounced, found, foundOffset, messageCount, hidden)
MentionsSound ==
    hidden = {} => ListSound(InFlight("mentions"), Mentioned, mentionRows, Len(mentionRows), messageCount, hidden)

\* Under any query, what is bounded of the pages under way.
DataBounded ==
    \A p \in pages :
       /\ ToSet(p.data) \subseteq 1..messageCount /\ (p.served => ~p.aborted)
       /\ p.data # <<>> => p.offset + Len(p.data) <= LastMessage
OffsetsAhead == \A p \in InFlight("search") : p.more => foundOffset <= p.offset

SearchShapes ==
    /\ SearchTypeOK /\ FirstStored <= messageCount
    /\ pages \subseteq PageRequests /\ newest \in [Lists -> Nat]
    /\ found \in Seq(1..LastMessage) /\ mentionRows \in Seq(1..LastMessage)

OneInFlight == \A l \in Lists : \A o, p \in InFlight(l) : o = p

MoreAfterPage ==
    /\ moreFound => foundOffset >= SearchPage
    /\ moreMentions \/ (\E p \in InFlight("mentions") : p.more) => Len(mentionRows) >= SearchPage

SearchInv ==
    /\ SearchShapes /\ SearchLoadingEnds /\ OneInFlight /\ DataBounded /\ OffsetsAhead /\ MoreAfterPage
    /\ SearchSound /\ MentionsSound
=============================================================================
