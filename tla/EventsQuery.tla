----------------------------- MODULE EventsQuery -----------------------------
(***************************************************************************)
(* The HTTP API over the stored events: a user reads the pages of a query  *)
(* one after the other while batches land in MongoDB and events are        *)
(* deleted.  The items of a page and the total are two commands that run   *)
(* side by side; documents that sort alike come in any order.              *)
(***************************************************************************)
EXTENDS Naturals, Sequences, SequencesExt, FiniteSets

CONSTANTS
    Docs,           \* documents that may be stored
    Mine,           \* those of the user who asks
    Key,            \* Key[d]: the value of sortBy, the timestamp as a rule
    Limits          \* values of limit that are asked for

ASSUME QueryAssumption ==
    /\ IsFiniteSet(Docs)
    /\ Mine \subseteq Docs
    /\ Key \in [Docs -> Nat]
    /\ Limits \subseteq Nat \ {0}

VARIABLES
    stored,     \* the collection
    query,      \* the query the pages belong to, its items and total
    seen,       \* documents on the pages answered so far
    repeated,   \* history: documents that were on two pages
    start,      \* history: the matching documents when the first page was asked
    ever,       \* history: those and all that were inserted since
    changed,    \* history: something was written since the first page
    lossy       \* history: something was deleted, or written between the two
                \* commands of one page

vars == <<stored, query, seen, repeated, start, ever, changed, lossy>>
history == <<start, ever, changed, lossy>>

Unasked == [phase |-> "idle", page |-> 0, limit |-> 1, asc |-> FALSE,
            from |-> 0, found |-> FALSE, items |-> {},
            counted |-> FALSE, total |-> 0]

\* The documents of the owner that pass the filter.
Matching(q, docs) == {d \in docs \cap Mine : Key[d] >= q.from}

Sorted(q, s) ==
    \A i, j \in DOMAIN s : i < j =>
        IF q.asc THEN Key[s[i]] <= Key[s[j]] ELSE Key[s[i]] >= Key[s[j]]

\* Mutants of Skip: the first page is page 0; the limit is left out.
SkipPage(q) == q.page * q.limit
SkipNoLimit(q) == q.page - 1

Skip(q) == (q.page - 1) * q.limit

\* Mutant of TotalPages: a last page that is not full is left out.
TotalPagesFull(total, limit) == total \div limit

TotalPages(total, limit) == (total + limit - 1) \div limit

\* find().sort().skip().limit(): every outcome MongoDB may choose.
PageItems(q, docs) ==
    {Range(SubSeq(s, Skip(q) + 1,
                  IF Skip(q) + q.limit < Len(s) THEN Skip(q) + q.limit ELSE Len(s))) :
        s \in {p \in SetToSeqs(Matching(q, docs)) : Sorted(q, p)}}

Init ==
    /\ stored \in SUBSET Docs
    /\ query = Unasked
    /\ seen = {} /\ start = {} /\ ever = {}
    /\ repeated = {} /\ changed = FALSE /\ lossy = FALSE

-----------------------------------------------------------------------------
\* The first page of a new query; a range whose start is past its end is
\* refused before anything is read.
GetFirstPage(limit, asc, from) ==
    /\ query.phase # "page"
    /\ query' = [Unasked EXCEPT !.phase = "page", !.page = 1, !.limit = limit,
                                !.asc = asc, !.from = from]
    /\ seen' = {} /\ repeated' = {}
    /\ start' = Matching(query', stored)
    /\ ever' = Matching(query', stored)
    /\ changed' = FALSE /\ lossy' = FALSE
    /\ UNCHANGED stored

Find ==
    /\ query.phase = "page" /\ ~query.found
    /\ \E items \in PageItems(query, stored) :
          query' = [query EXCEPT !.found = TRUE, !.items = items]
    /\ UNCHANGED <<stored, seen, repeated, history>>

CountDocuments ==
    /\ query.phase = "page" /\ ~query.counted
    /\ query' = [query EXCEPT !.counted = TRUE,
                              !.total = Cardinality(Matching(query, stored))]
    /\ UNCHANGED <<stored, seen, repeated, history>>

\* Promise.all has both: the page is answered, and the user asks for the next
\* one unless it was the last.
AnswerPage ==
    /\ query.found /\ query.counted
    /\ seen' = seen \cup query.items
    /\ repeated' = repeated \cup (seen \cap query.items)
    /\ query' = [query EXCEPT
          !.found = FALSE, !.counted = FALSE, !.items = {}, !.total = 0,
          !.page = IF query.page < TotalPages(query.total, query.limit) THEN @ + 1 ELSE @,
          !.phase = IF query.page < TotalPages(query.total, query.limit) THEN @ ELSE "done"]
    /\ UNCHANGED <<stored, history>>

\* One command fails: the reply is an error and the user gives up.
QueryFails ==
    /\ query.phase = "page"
    /\ query' = Unasked
    /\ UNCHANGED <<stored, seen, repeated, history>>

-----------------------------------------------------------------------------
Writes(deletes) ==
    /\ changed' = TRUE
    /\ lossy' = (lossy \/ deletes \/ query.found # query.counted)
    /\ UNCHANGED <<query, seen, repeated, start>>

\* A batch of the pipeline lands.
InsertBatch(batch) ==
    /\ batch # {} /\ batch \subseteq Docs \ stored
    /\ stored' = stored \cup batch
    /\ ever' = ever \cup Matching(query, batch)
    /\ Writes(FALSE)

\* deleteOne and deleteMany, for the documents of the owner only; when none
\* is deleted the reply is an error.
DeleteEvents(ids) ==
    /\ ids \cap stored \cap Mine # {}
    /\ stored' = stored \ (ids \cap Mine)
    /\ Writes(TRUE)
    /\ UNCHANGED ever

Next ==
    \/ \E limit \in Limits, asc \in BOOLEAN, from \in {Key[d] : d \in Docs} :
          GetFirstPage(limit, asc, from)
    \/ Find \/ CountDocuments \/ AnswerPage \/ QueryFails
    \/ \E batch \in SUBSET Docs : InsertBatch(batch) \/ DeleteEvents(batch)

Spec == Init /\ [][Next]_vars

-----------------------------------------------------------------------------
(* Properties                                                              *)

\* What every variable may hold; no page is asked for past the last one the
\* documents could fill.
TypeOK ==
    /\ stored \subseteq Docs
    /\ query.phase \in {"idle", "page", "done"}
    /\ query.page \in 0..1 \cup 1..Cardinality(Mine)
    /\ query.items \subseteq Mine /\ Cardinality(query.items) <= query.limit
    /\ repeated \subseteq seen /\ seen \subseteq Mine
    /\ {changed, lossy} \subseteq BOOLEAN

NoTies == \A d, e \in ever : d # e => Key[d] # Key[e]

\* Reading all pages shows every document that matched when the first one was
\* asked for, although batches land between the pages: inserts only push
\* documents to later pages.  It takes a delete, documents that sort alike, or
\* a write between find and countDocuments of one page to lose one.
NothingHidden ==
    query.phase = "done" /\ ~lossy /\ NoTies => start \subseteq seen

\* While nothing is written the pages are a partition of what matched.
PagesPartition ==
    ~changed /\ NoTies =>
        repeated = {} /\ (query.phase = "done" => seen = start)

\* Documents that sort alike may be missed or repeated even while nothing is
\* written, but only in exchange for one another: what a reader misses sorts
\* like a document that was shown twice, and what is shown twice sorts like
\* another one.
TiesOnlySwap ==
    ~changed =>
        /\ query.phase = "done" =>
              \A d \in start \ seen : \E e \in repeated : Key[d] = Key[e]
        /\ \A e \in repeated : \E d \in start \ {e} : Key[d] = Key[e]

=============================================================================
