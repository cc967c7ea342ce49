------------------------------ MODULE Retrieval ------------------------------
(***************************************************************************)
(* The tools that only read, beside the writers that move what they read.  *)
(*                                                                         *)
(* search and search_symbols take a page of a ranking of the index as it   *)
(* was last published; list_memories takes a page of a table.  A client    *)
(* asks for page after page, and the index or the table moves in between.  *)
(* get_context and search_memory rank what a keyword query and a vector    *)
(* query find and cut it to a budget.  get_project_summary puts four       *)
(* queries together, each in a critical section of its own.                *)
(*                                                                         *)
(* The writers are here as their statements only; MemoryStore and          *)
(* SearchIndex have their handlers.  Rows are those of one project.  The   *)
(* content a memory has in its first and later version is a record of      *)
(* whether the keywords match it and how many tokens it is taken to be; a  *)
(* similarity is a number of Scale-ths.  A score is a numerator over       *)
(* 4 * n * Scale, with n the number of keyword hits of the same request.   *)
(*                                                                         *)
(* A caller over the wire sends its limit, offset and budget as floating   *)
(* point numbers, which as_u64 does not read: the tool takes its defaults. *)
(* The numbers arrive only from a caller of the registry in the process,   *)
(* as the repository's tests are; an ask says which of the two it is.      *)
(***************************************************************************)
EXTENDS Integers, Sequences, FiniteSets, Functions

CONSTANTS Ids,          \* memories
          Versions,     \* content of each memory in each version, [match, tokens]
          Category,     \* the category of each memory
          Similarity,   \* of its vector to the query's
          Embedded,     \* the memories saved with a vector
          Sessions,
          Rankings,     \* what the index may find, sequences of files
          FileType,     \* the extension of each file
          Asks, AskMenu,
          All,          \* no filter
          Defaults,     \* the number each tool takes where it is given none
          Scale, FetchFloor, TokensPerHit, RecentLimit, ObservationLimit,
          MaxWrites, MaxFaults,  \* bounds on the requests that write, and on failures
          MaxOffset              \* and on how far a client goes on that gets full pages

ASSUME ScoresAssumption == Scale \in Nat \ {0} /\ Similarity \in [Ids -> (-Scale) .. Scale]
\* estimate_tokens is a count, and limits and budgets are read with as_u64.
ASSUME TokensAssumption == \A m \in Ids : \A v \in {1, 2} : Versions[m][v].tokens \in Nat
ASSUME RankingsAssumption == Rankings \subseteq Seq(DOMAIN FileType)
ASSUME AskAssumption ==
    \A a \in AskMenu :
        /\ a.op \in {"search", "symbols", "list", "get", "context", "memory", "summary"}
        /\ a.op \in {"search", "symbols", "list", "memory"} => a.limit \in Nat
        /\ a.op = "context" => a.budget \in Nat
        /\ a.op \in DOMAIN Defaults => a.wire \in BOOLEAN
ASSUME DefaultsAssumption ==
    Defaults \in [{"search", "symbols", "list", "context", "memory"} -> Nat \ {0}]
ASSUME LimitsAssumption == {FetchFloor, TokensPerHit, RecentLimit, ObservationLimit} \subseteq Nat \ {0}

VARIABLES
    ranking,                       \* what the query finds in the published index
    memories,                      \* rows [id, created, updated, version]
    stamped, vectors,              \* saves under way, and the table of vectors
    sessions, observations,        \* tables; the newest observation is the last
    clock, writes,                 \* the time, and how often the tables were written
    ask, step,                     \* what a request asks and its next step
    offset, seen,                  \* a client's place in its pages and what it has read
    found, weight, todo,           \* result_map, the keyword count, hits to look up
    reply,
    since, through,                \* history: kinds of writes, memories there all along
    faults

tables  == <<ranking, memories, stamped, vectors, sessions, observations, clock, writes>>
request == <<ask, step, offset, seen, found, weight, todo, reply>>
history == <<since, through>>
vars    == <<tables, request, history, faults>>

NoAsk   == [op |-> "none"]
NoReply == [items |-> <<>>]

Init ==
    /\ ranking \in Rankings
    /\ memories = {} /\ stamped = [m \in Ids |-> 0] /\ vectors = {}
    /\ sessions = {} /\ observations = <<>>
    /\ clock = 0 /\ writes = 0
    /\ ask = [q \in Asks |-> NoAsk] /\ step = [q \in Asks |-> "idle"]
    /\ offset = [q \in Asks |-> 0] /\ seen = [q \in Asks |-> <<>>]
    /\ found = [q \in Asks |-> {}] /\ weight = [q \in Asks |-> 1]
    /\ todo = [q \in Asks |-> {}] /\ reply = [q \in Asks |-> NoReply]
    /\ since = [q \in Asks |-> {}] /\ through = [q \in Asks |-> {}]
    /\ faults = 0

-----------------------------------------------------------------------------
(* Reading the tables *)

Row(m)     == CHOOSE x \in memories : x.id = m
There      == {x.id : x \in memories}
Smaller(a, b) == IF a < b THEN a ELSE b

\* The orders of S in which value falls or stays; of equal values either may
\* come first, and another time the other.
Ranked(S, value) ==
    {o \in [1 .. Cardinality(S) -> S] :
        \A i, j \in DOMAIN o : i < j => o[i] # o[j] /\ value[o[i]] >= value[o[j]]}

Created(S) == [x \in S |-> x.created]
Updated(S) == [x \in S |-> x.updated]
Score(S)   == [x \in S |-> x.score]

InCategory(category, x) == category \in {All, Category[x.id]}
Of(category) == {x \in memories : InCategory(category, x)}

\* Mutation: the list is ordered by the last change.
ListedByUpdate(category) == Ranked(Of(category), Updated(Of(category)))

\* Newest first, and by nothing else.
Listed(category) == Ranked(Of(category), Created(Of(category)))

\* LIMIT and OFFSET.
Page(list, limit, from) == SubSeq(list, from + 1, Smaller(from + limit, Len(list)))

ListPages(category, limit, from) == {Page(list, limit, from) : list \in Listed(category)}

\* Mutation: recent_memories passes limit and offset in the wrong order.
RecentSwapped(limit) == ListPages(All, 0, limit)

Recent(limit) == ListPages(All, limit, 0)

\* The hits of the wanted types, in their order.
Wanted(hits, types) ==
    LET Upto[i \in 0 .. Len(hits)] ==
          IF i = 0 THEN <<>>
          ELSE IF types = {} \/ FileType[hits[i]] \in types THEN Append(Upto[i - 1], hits[i])
          ELSE Upto[i - 1]
    IN  Upto[Len(hits)]

\* Mutation: the filter is applied before hits are counted.
FilteredTotal(limit, from, types) ==
    LET top == Wanted(Page(ranking, from + limit, 0), types)
    IN  [results |-> SubSeq(top, from + 1, Len(top)), total |-> Len(top)]

\* The first offset + limit hits are fetched and counted, the offset is
\* skipped, and only then the types are looked at.
SearchPage(limit, from, types) ==
    LET top == Page(ranking, from + limit, 0)
    IN  [results |-> Wanted(SubSeq(top, from + 1, Len(top)), types), total |-> Len(top)]

-----------------------------------------------------------------------------
(* The numbers of a request *)

\* The number the tool works with where the caller gave n.
Given(a, n) == IF a.wire THEN Defaults[a.op] ELSE n

Limit(a)  == Given(a, a.limit)
Offset(q) == IF ask[q].wire THEN 0 ELSE offset[q]

-----------------------------------------------------------------------------
(* Ranking *)

Budget(a)     == IF a.op = "memory" THEN Limit(a) * TokensPerHit ELSE Given(a, a.budget)
FetchLimit(a) == IF Budget(a) > FetchFloor THEN Budget(a) ELSE FetchFloor
Tokens(x)     == Versions[x.id][x.version].tokens
Matches(x)    == Versions[x.id][x.version].match

\* Mutation: a result that does not fit is passed over.
KeptWithGaps(order, budget) ==
    LET Loop[i \in 0 .. Len(order)] ==
          IF i = 0 THEN [items |-> <<>>, tokens |-> 0]
          ELSE LET before == Loop[i - 1]
               IN  IF before.tokens + order[i].tokens > budget /\ before.items # <<>> THEN before
                   ELSE [items  |-> Append(before.items, order[i]),
                         tokens |-> before.tokens + order[i].tokens]
    IN  Loop[Len(order)]

\* Up to the first that does not fit; the first of all is always taken.
Kept(order, budget) ==
    LET Loop[i \in 0 .. Len(order)] ==
          IF i = 0 THEN [items |-> <<>>, tokens |-> 0, full |-> FALSE]
          ELSE LET before == Loop[i - 1]
               IN  IF before.full THEN before
                   ELSE IF before.tokens + order[i].tokens > budget /\ before.items # <<>>
                   THEN [items |-> before.items, tokens |-> before.tokens, full |-> TRUE]
                   ELSE [items  |-> Append(before.items, order[i]),
                         tokens |-> before.tokens + order[i].tokens, full |-> FALSE]
    IN  [items |-> Loop[Len(order)].items, tokens |-> Loop[Len(order)].tokens]

-----------------------------------------------------------------------------
(* The writers, one statement each *)

Noted(kind) ==
    /\ since' = [q \in Asks |-> IF step[q] = "idle" THEN since[q]
                                ELSE since[q] \cup {kind}]
    /\ UNCHANGED <<request, faults>>

\* The first statement of a request.
Wrote(kind) ==
    /\ writes < MaxWrites
    /\ writes' = writes + 1
    /\ Noted(kind)

\* A commit and the reload after it.
Publish ==
    /\ Wrote("publish")
    /\ ranking' \in Rankings
    /\ UNCHANGED <<memories, stamped, vectors, sessions, observations, clock, through>>

\* The clock may still show the time it was read last.
Now == {clock, clock + 1} \cap 1 .. MaxWrites

\* save_memory takes the time before it waits for the connection.
Stamp(m) ==
    /\ stamped[m] = 0
    /\ clock' \in Now
    /\ stamped' = [stamped EXCEPT ![m] = clock']
    /\ UNCHANGED <<ranking, memories, vectors, sessions, observations, writes,
                   request, history, faults>>

Insert(m) ==
    /\ stamped[m] > 0
    /\ Wrote("insert")
    /\ memories' = memories \cup {[id |-> m, created |-> stamped[m], updated |-> stamped[m],
                                   version |-> 1]}
    /\ stamped' = [stamped EXCEPT ![m] = -1]
    /\ UNCHANGED <<ranking, vectors, sessions, observations, clock, through>>

StoreVector(m) ==
    /\ m \in Embedded \ vectors /\ stamped[m] = -1 /\ m \in There
    /\ Noted("vector")
    /\ vectors' = vectors \cup {m}
    /\ UNCHANGED <<ranking, memories, stamped, sessions, observations, clock, writes, through>>

Update(m) ==
    /\ m \in There
    /\ Wrote("update")
    /\ clock' \in Now
    /\ memories' = (memories \ {Row(m)}) \cup
                      {[id |-> m, created |-> Row(m).created, updated |-> clock', version |-> 2]}
    /\ UNCHANGED <<ranking, stamped, vectors, sessions, observations, through>>

\* The row; its vector goes in a statement of its own.
Delete(m) ==
    /\ m \in There
    /\ Wrote("delete")
    /\ memories' = memories \ {Row(m)}
    /\ through' = [q \in Asks |-> through[q] \ {m}]
    /\ UNCHANGED <<ranking, stamped, vectors, sessions, observations, clock>>

DeleteVector(m) ==
    /\ m \in vectors \ There
    /\ Noted("vector")
    /\ vectors' = vectors \ {m}
    /\ UNCHANGED <<ranking, memories, stamped, sessions, observations, clock, writes, through>>

StartSession(s) ==
    /\ s \notin sessions
    /\ Wrote("start")
    /\ sessions' = sessions \cup {s}
    /\ UNCHANGED <<ranking, memories, stamped, vectors, observations, clock, through>>

SaveObservation(s) ==
    /\ s \in sessions
    /\ Wrote("observe")
    /\ observations' = Append(observations, s)
    /\ UNCHANGED <<ranking, memories, stamped, vectors, sessions, clock, through>>

-----------------------------------------------------------------------------
(* The requests *)

Goto(q, next)    == step' = [step EXCEPT ![q] = next]
Answer(q, what)  == reply' = [reply EXCEPT ![q] = what] /\ Goto(q, "done")
Asking(q, at, ops) == step[q] = at /\ ask[q].op \in ops

Ask(q) ==
    /\ step[q] = "idle"
    /\ \E a \in AskMenu :
         /\ ask' = [ask EXCEPT ![q] = a]
         /\ Goto(q, "read")
         /\ through' = [through EXCEPT ![q] =
              IF a.op = "list" THEN {x.id : x \in Of(a.category)} ELSE {}]
    /\ UNCHANGED <<tables, offset, seen, found, weight, todo, reply, since, faults>>

\* A required argument is missing, or the query does not parse.
RejectAsk(q) ==
    /\ step[q] = "idle"
    /\ Goto(q, "err")
    /\ UNCHANGED <<tables, ask, offset, seen, found, weight, todo, reply, history, faults>>

\* The client goes on while as many hits are counted as it can have had.
Search(q) ==
    /\ Asking(q, "read", {"search"}) /\ Offset(q) + Limit(ask[q]) > 0
    /\ LET page == SearchPage(Limit(ask[q]), Offset(q), ask[q].types)
           next == offset[q] + ask[q].limit
       IN  /\ seen' = [seen EXCEPT ![q] = @ \o page.results]
           /\ offset' = [offset EXCEPT ![q] = next]
           /\ Goto(q, IF page.total >= next /\ ask[q].limit > 0 THEN "read" ELSE "done")
    /\ UNCHANGED <<tables, ask, found, weight, todo, reply, history, faults>>

SearchSymbols(q) ==
    /\ Asking(q, "read", {"symbols"}) /\ Limit(ask[q]) > 0
    /\ Answer(q, [items |-> Page(ranking, Limit(ask[q]), 0)])
    /\ UNCHANGED <<tables, ask, offset, seen, found, weight, todo, history, faults>>

\* The collector of the best hits refuses a limit of 0 with a panic.
SearchPanics(q) ==
    /\ Asking(q, "read", {"search", "symbols"}) /\ Offset(q) + Limit(ask[q]) = 0
    /\ Goto(q, "lost")
    /\ UNCHANGED <<tables, ask, offset, seen, found, weight, todo, reply, history, faults>>

\* The client goes on while pages are as full as it asked for.
ListMemories(q) ==
    /\ Asking(q, "read", {"list"}) /\ offset[q] <= MaxOffset
    /\ \E page \in ListPages(ask[q].category, Limit(ask[q]), Offset(q)) :
         /\ seen' = [seen EXCEPT ![q] = @ \o [i \in DOMAIN page |-> page[i].id]]
         /\ offset' = [offset EXCEPT ![q] = @ + ask[q].limit]
         /\ Goto(q, IF Len(page) >= ask[q].limit /\ ask[q].limit > 0 THEN "read" ELSE "done")
    /\ UNCHANGED <<tables, ask, found, weight, todo, reply, history, faults>>

GetMemory(q) ==
    /\ Asking(q, "read", {"get"})
    /\ Answer(q, [items |-> IF ask[q].id \in There THEN <<Row(ask[q].id)>> ELSE <<>>])
    /\ UNCHANGED <<tables, ask, offset, seen, found, weight, todo, history, faults>>

-----------------------------------------------------------------------------
(* get_context and search_memory *)

\* The hits of the keywords, last changed first, score 1 down to above 1/2.
Keyword(q) ==
    /\ Asking(q, "read", {"context", "memory"})
    /\ LET matching == {x \in Of(ask[q].category) : Matches(x)}
       IN  \E order \in Ranked(matching, Updated(matching)) :
             LET hits == Page(order, FetchLimit(ask[q]), 0)
                 n    == Len(hits)
             IN  /\ found' = [found EXCEPT ![q] =
                      {[id |-> hits[i].id, tokens |-> Tokens(hits[i]),
                        score |-> 2 * Scale * (2 * n - (i - 1)), source |-> "keyword"] :
                         i \in 1 .. n}]
                 /\ weight' = [weight EXCEPT ![q] = IF n = 0 THEN 1 ELSE n]
    /\ Goto(q, IF ask[q].vector THEN "similar" ELSE "rank")
    /\ UNCHANGED <<tables, ask, offset, seen, todo, reply, history, faults>>

\* The nearest vectors: a keyword hit's score becomes the average, another
\* hit is to be looked up.
Similar(q) ==
    /\ step[q] = "similar"
    /\ \E order \in Ranked(vectors, Similarity) :
         LET near == Range(Page(order, FetchLimit(ask[q]), 0))
         IN  /\ found' = [found EXCEPT ![q] =
                  {IF x.id \notin near THEN x
                   ELSE [x EXCEPT !.score  = (x.score + 4 * weight[q] * Similarity[x.id]) \div 2,
                                  !.source = "hybrid"] : x \in found[q]}]
             /\ todo' = [todo EXCEPT ![q] = near \ {x.id : x \in found[q]}]
             /\ Goto(q, IF todo'[q] = {} THEN "rank" ELSE "lookup")
    /\ UNCHANGED <<tables, ask, offset, seen, weight, reply, history, faults>>

LookedUp(q, m) ==
    /\ todo' = [todo EXCEPT ![q] = @ \ {m}]
    /\ Goto(q, IF todo[q] = {m} THEN "rank" ELSE "lookup")

LookUp(q) ==
    /\ step[q] = "lookup"
    /\ \E m \in todo[q] :
         /\ LookedUp(q, m)
         /\ found' = [found EXCEPT ![q] = IF m \notin There THEN @ ELSE @ \cup
              {[id |-> m, tokens |-> Tokens(Row(m)), score |-> 4 * weight[q] * Similarity[m],
                source |-> "vector"]}]
    /\ UNCHANGED <<tables, ask, offset, seen, weight, reply, history, faults>>

\* An error is swallowed with the hit.
LookUpFails(q) ==
    /\ step[q] = "lookup"
    /\ faults < MaxFaults /\ faults' = faults + 1
    /\ \E m \in todo[q] : LookedUp(q, m)
    /\ UNCHANGED <<tables, ask, offset, seen, found, weight, reply, history>>

\* Equal scores come in the order of the hash map; search_memory takes the
\* first limit of what is kept.
Rank(q) ==
    /\ step[q] = "rank"
    /\ \E order \in Ranked(found[q], Score(found[q])) :
         LET kept == Kept(order, Budget(ask[q]))
         IN  Answer(q, IF ask[q].op = "context" THEN kept
                       ELSE [items |-> Page(kept.items, Limit(ask[q]), 0)])
    /\ UNCHANGED <<tables, ask, offset, seen, found, weight, todo, history, faults>>

-----------------------------------------------------------------------------
(* get_project_summary *)

CountMemories(q) ==
    /\ Asking(q, "read", {"summary"})
    /\ reply' = [reply EXCEPT ![q] =
         [total |-> Cardinality(memories),
          categories |-> {Category[m] : m \in There}]]
    /\ Goto(q, "recent")
    /\ UNCHANGED <<tables, ask, offset, seen, found, weight, todo, history, faults>>

RecentMemories(q) ==
    /\ step[q] = "recent"
    /\ \E newest \in Recent(RecentLimit) :
         reply' = [reply EXCEPT ![q] = [total |-> @.total, categories |-> @.categories,
                                        recent |-> newest]]
    /\ Goto(q, "stats")
    /\ UNCHANGED <<tables, ask, offset, seen, found, weight, todo, history, faults>>

SessionStats(q) ==
    /\ step[q] = "stats"
    /\ reply' = [reply EXCEPT ![q] = [total |-> @.total, categories |-> @.categories,
                                      recent |-> @.recent, sessions |-> Cardinality(sessions)]]
    /\ Goto(q, "observations")
    /\ UNCHANGED <<tables, ask, offset, seen, found, weight, todo, history, faults>>

LatestFirst(s) == [i \in 1 .. Len(s) |-> s[Len(s) + 1 - i]]

RecentObservations(q) ==
    /\ step[q] = "observations"
    /\ Answer(q, [total |-> reply[q].total, categories |-> reply[q].categories,
                  recent |-> reply[q].recent, sessions |-> reply[q].sessions,
                  observations |-> Page(LatestFirst(observations), ObservationLimit, 0)])
    /\ UNCHANGED <<tables, ask, offset, seen, found, weight, todo, history, faults>>

\* A statement on the tables fails, and the request with it.
StatementFails(q) ==
    /\ \/ Asking(q, "read", {"list", "get", "context", "memory", "summary"})
       \/ step[q] \in {"similar", "recent", "stats", "observations"}
    /\ faults < MaxFaults /\ faults' = faults + 1
    /\ Goto(q, "err")
    /\ UNCHANGED <<tables, ask, offset, seen, found, weight, todo, reply, history>>

-----------------------------------------------------------------------------
Read(q) ==
    \/ Ask(q) \/ RejectAsk(q) \/ Search(q) \/ SearchSymbols(q) \/ SearchPanics(q)
    \/ ListMemories(q) \/ GetMemory(q)
    \/ Keyword(q) \/ Similar(q) \/ LookUp(q) \/ LookUpFails(q) \/ Rank(q)
    \/ CountMemories(q) \/ RecentMemories(q) \/ SessionStats(q) \/ RecentObservations(q)
    \/ StatementFails(q)

Write ==
    \/ Publish
    \/ \E m \in Ids : Stamp(m) \/ Insert(m) \/ StoreVector(m) \/ Update(m) \/ Delete(m)
                        \/ DeleteVector(m)
    \/ \E s \in Sessions : StartSession(s) \/ SaveObservation(s)

Next == Write \/ \E q \in Asks : Read(q)

Spec == Init /\ [][Next]_vars

-----------------------------------------------------------------------------
(* Properties *)

Done(q, ops) == step[q] = "done" /\ ask[q].op \in ops

\* Unless the index was published again in between, a client that asks for pages
\* of search results until the total falls short has read, in the process, each
\* hit of the wanted types once and in the order of the ranking, although a page may
\* be empty before the last; over the wire it has read the hits of the first page
\* of the default size and no other, however far it went.
PagedSearchIsComplete ==
    \A q \in Asks : Done(q, {"search"}) /\ "publish" \notin since[q] =>
        IF ask[q].wire
        THEN Range(seen[q]) = Range(Wanted(Page(ranking, Defaults["search"], 0), ask[q].types))
        ELSE seen[q] = Wanted(ranking, ask[q].types)

\* What a client that lists memories page by page can miss of those that were
\* there all along, whatever was saved (also with an earlier time) or updated
\* meanwhile.  In the process only a delete makes it miss one, or a memory of the
\* same category saved at the same time, as the list has no second order.  Over
\* the wire it misses none, deletes or not, unless it got a page of the default
\* size, of which it cannot see the next.
PagedListIsComplete ==
    \A q \in Asks : Done(q, {"list"}) /\ ask[q].limit > 0 =>
        LET missed == through[q] \ Range(seen[q])
            listed == Of(ask[q].category)
        IN  IF ask[q].wire
            THEN missed = {} \/ Cardinality(Range(seen[q])) >= Defaults["list"]
            ELSE \/ "delete" \in since[q]
                 \/ \A m \in missed : \E x, y \in listed :
                      x.id = m /\ y # x /\ y.created = x.created

SumOfTokens(items) ==
    LET Upto[i \in 0 .. Len(items)] == IF i = 0 THEN 0 ELSE Upto[i - 1] + items[i].tokens
    IN  Upto[Len(items)]

\* The context is a best part of what was found: nothing left out scores more than
\* what is in it, it stays within the budget unless it is one result, and it
\* stops only where the budget, or the limit of search_memory, stops it.
ContextIsGreedy ==
    \A q \in Asks : Done(q, {"context", "memory"}) =>
        LET items == reply[q].items
            left  == found[q] \ Range(items)
            best  == {x \in left : \A y \in left : x.score >= y.score}
            total == SumOfTokens(items)
            full  == ask[q].op = "memory" /\ Len(items) = Limit(ask[q])
        IN  /\ Range(items) \subseteq found[q] /\ IsInjective(items)
            /\ \A i, j \in DOMAIN items : i < j => items[i].score >= items[j].score
            /\ \A x \in left, y \in Range(items) : x.score <= y.score
            /\ total <= Budget(ask[q]) \/ Len(items) = 1
            /\ left # {} => \/ full
                            \/ items # <<>> /\ \E x \in best : total + x.tokens > Budget(ask[q])

\* The parts of a summary agree: it shows the newest memories, as many as its
\* total says, unless one was saved or deleted in between, and the sessions of
\* its observations are among those it counts unless one was started.
SummaryAgrees ==
    \A q \in Asks : Done(q, {"summary"}) =>
        LET shown == Len(reply[q].recent)
            most  == Smaller(RecentLimit, reply[q].total)
        IN  /\ "insert" \notin since[q] => shown <= most
            /\ "delete" \notin since[q] => shown >= most
            /\ "start" \notin since[q] =>
                 Cardinality(Range(reply[q].observations)) <= reply[q].sessions
=============================================================================
