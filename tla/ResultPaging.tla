---------------------------- MODULE ResultPaging ----------------------------
(***************************************************************************)
(* Paging through the result of a query: the OFFSET, LIMIT and cursor      *)
(* arithmetic at the end of query_handler, behind the result cache at its  *)
(* beginning, and a client that follows next_cursor until there is none.   *)
(*                                                                         *)
(* One query text is asked again and again with the cursors the server     *)
(* hands out; the table behind it does not change.  Rows are numbered in   *)
(* the order in which the connector delivers them.  The query reads one    *)
(* source (execute_single) and asks for the JSON format, the only one that *)
(* is cached and carries next_cursor.                                      *)
(***************************************************************************)
EXTENDS Integers, SequencesExt

CONSTANTS Tables,       \* table sizes to consider
          Limits,       \* LIMIT clauses to consider; NoLimit is none
          Offsets,      \* OFFSET clauses to consider; 0 is none
          PageSizes,    \* page_size values to consider; NoLimit is none
          Pushdowns,    \* what connectors apply themselves: "none", "limit" or "both"
          CacheTtl,     \* ResultCache::ttl
          MaxTime,      \* bound on the clock
          MaxRequests   \* bound on the requests of the client

NoLimit == -1
NoCursor == -1
NoEntry == [created |-> -1]

VARIABLES query,    \* the query and the table it reads, fixed in a behaviour
          cursor,   \* the cursor of the client's next request
          pages,    \* the pages the client has received
          finished, \* the client has received a page without next_cursor
          hit,      \* history: a page of this walk came from the cache
          cache,    \* the entry of "format:query" in the result cache
          now

vars == <<query, cursor, pages, finished, hit, cache, now>>

Numbers(n) == [i \in 1..n |-> i]
Skip(s, n) == SubSeq(s, n + 1, Len(s))
Take(s, n) == IF n = NoLimit \/ n > Len(s) THEN s ELSE SubSeq(s, 1, n)

\* What the connector returns.  build_sub_query hands it the LIMIT and the OFFSET:
\* some connectors apply both, some the LIMIT only, and some (temporary connectors
\* among them) neither, nor does any when the text cannot be translated.
Delivered ==
    LET all == Numbers(query.rows)
    IN  CASE query.pushdown = "none"  -> all
          [] query.pushdown = "limit" -> Take(all, query.limit)
          [] query.pushdown = "both"  -> Take(Skip(all, query.offset), query.limit)

\* decode_cursor, and the OFFSET clause added to it.
EffectiveOffset(c) == query.offset + (IF c = NoCursor THEN 0 ELSE c)

PageSize == IF query.page = NoLimit THEN query.limit ELSE query.page

PageRows(c) == Take(Skip(Delivered, EffectiveOffset(c)), PageSize)

\* Mutant of NextCursor: the cursor is the size of the page, not where it ends.
NextCursorFromSize(c) ==
    LET reached == EffectiveOffset(c) + Len(PageRows(c))
    IN  IF PageSize # NoLimit /\ reached < Len(Delivered) THEN Len(PageRows(c)) ELSE NoCursor

\* Mutant of NextCursor: minus for plus in the position reached.
NextCursorBackwards(c) ==
    LET reached == EffectiveOffset(c) - Len(PageRows(c))
    IN  IF PageSize # NoLimit /\ reached < Len(Delivered) THEN reached ELSE NoCursor

\* encode_cursor of the position reached, while rows are left.
NextCursor(c) ==
    LET reached == EffectiveOffset(c) + Len(PageRows(c))
    IN  IF PageSize # NoLimit /\ reached < Len(Delivered) THEN reached ELSE NoCursor

Response(c) == [rows |-> PageRows(c), next |-> NextCursor(c)]

\* ResultCache::get: the key is the format and the text of the query.
Cached == cache # NoEntry /\ now - cache.created < CacheTtl

Init ==
    /\ query \in [rows: Tables, limit: Limits, offset: Offsets, page: PageSizes, pushdown: Pushdowns]
    /\ cursor = NoCursor
    /\ pages = <<>>
    /\ finished = FALSE
    /\ hit = FALSE
    /\ cache = NoEntry
    /\ now = 0

Receive(resp) ==
    /\ pages' = Append(pages, resp.rows)
    /\ cursor' = resp.next
    /\ finished' = (resp.next = NoCursor)

\* A request answered from the result cache.
RequestHit ==
    /\ ~finished
    /\ Len(pages) < MaxRequests
    /\ Cached
    /\ Receive(cache.response)
    /\ hit' = TRUE
    /\ UNCHANGED <<query, cache, now>>

\* Mutant of RequestMiss: the cached response keeps the cursor but not the rows.
RequestMissCachesNoRows ==
    /\ ~finished
    /\ Len(pages) < MaxRequests
    /\ ~Cached
    /\ Receive(Response(cursor))
    /\ cache' = [created |-> now, response |-> [rows |-> <<>>, next |-> NextCursor(cursor)]]
    /\ UNCHANGED <<query, hit, now>>

\* A request that is executed; its JSON response is put into the result cache.
RequestMiss ==
    /\ ~finished
    /\ Len(pages) < MaxRequests
    /\ ~Cached
    /\ Receive(Response(cursor))
    /\ cache' = [created |-> now, response |-> Response(cursor)]
    /\ UNCHANGED <<query, hit, now>>

\* The client asks the query again from the start.
Restart ==
    /\ finished
    /\ pages' = <<>>
    /\ cursor' = NoCursor
    /\ finished' = FALSE
    /\ hit' = FALSE
    /\ UNCHANGED <<query, cache, now>>

\* DELETE /api/fuse/cache
ClearCache ==
    /\ cache # NoEntry
    /\ cache' = NoEntry
    /\ UNCHANGED <<query, cursor, pages, finished, hit, now>>

Tick ==
    /\ now < MaxTime
    /\ now' = now + 1
    /\ UNCHANGED <<query, cursor, pages, finished, hit, cache>>

Next == RequestHit \/ RequestMiss \/ Restart \/ ClearCache \/ Tick

Spec == Init /\ [][Next]_vars
FairSpec == Spec /\ WF_vars(RequestHit \/ RequestMiss)

-----------------------------------------------------------------------------

\* The rows the query stands for.
Expected == Take(Skip(Numbers(query.rows), query.offset), query.limit)

Received == FlattenSeq(pages)

TypeOK ==
    /\ query \in [rows: Tables, limit: Limits, offset: Offsets, page: PageSizes, pushdown: Pushdowns]
    /\ cursor \in Nat \cup {NoCursor}
    /\ pages \in Seq(Seq(Nat))
    /\ finished \in BOOLEAN /\ hit \in BOOLEAN
    /\ now \in 0..MaxTime

\* The OFFSET clause is honoured only in a query with neither LIMIT nor page_size on
\* a connector that leaves it to the handler: rows are skipped after the connector has
\* applied the LIMIT, again after it has applied the OFFSET, and once more for every
\* page, because the cursor of a page contains the OFFSET and it is added again.
OffsetIsSafe ==
    query.offset = 0 \/ (query.limit = NoLimit /\ query.page = NoLimit /\ query.pushdown # "both")

\* The LIMIT clause bounds the walk only where the connector applies it: the handler
\* takes it for a page size, and next to a page_size ignores it.
LimitIsSafe == query.limit = NoLimit \/ query.pushdown # "none"

\* A client whose pages were all executed never sees a row twice or out of order,
\* whatever becomes of OFFSET and LIMIT.  Where those are safe it has at every moment
\* seen exactly the first rows of the result, each page but the last full, and when
\* told that there are no more pages the whole result: with page_size when no page
\* came from the cache, without it in any case.
PagesAreTheResult ==
    /\ ~hit => \A i, j \in 1..Len(Received) : i < j => Received[i] < Received[j]
    /\ OffsetIsSafe /\ LimitIsSafe =>
        /\ ~hit => /\ IsPrefix(Received, Expected)
                   /\ \A i \in 1..Len(pages) - 1 : Len(pages[i]) = PageSize
        /\ finished /\ (hit => query.page = NoLimit) => Received = Expected

\* Following next_cursor comes to an end unless the cache interferes, for every page
\* size but 0: an empty page ends where it began, and its cursor is the one it had.
WalkEnds == PageSize # 0 => []<>(finished \/ hit)

-----------------------------------------------------------------------------

\* "page 2 should return different row than page 1" (tests/api_test.rs): no row
\* is on two pages.  The result cache breaks it.
NoRowTwice == IsInjective(Received)
=============================================================================
