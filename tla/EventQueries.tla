----------------------------- MODULE EventQueries -----------------------------
(***************************************************************************)
(* What GET /api/events answers from the table the collector keeps.  The   *)
(* equality filters of a request (cluster, namespace, name, type) select   *)
(* some of the events; what else it may ask for is written out.            *)
(***************************************************************************)
EXTENDS EventCollector, Listings

\* UIDs are finitely many, and their rows have an order.
ASSUME EventsAssumption ==
  /\ IsFiniteSet(Events)
  /\ \A e \in Events : Tie[e] \in Int
  /\ \A e, f \in Events : Tie[e] = Tie[f] => e = f

\* opts: the events that pass the equality filters, and how far back.
Matching(opts) ==
  {rows[e] : e \in {f \in opts.uids :
     rows[f] # NoRow /\ (opts.since > 0 => rows[f].last + opts.since >= now)}}

\* LIMIT without OFFSET; a limit out of range counts as none given.
ListEventRows(opts, limit) ==
  Slice(Sorted(Matching(opts), "last", TRUE), 0, IF limit \in 1..500 THEN limit ELSE 100)

ListEventsPaginated(opts, page, pageSize) ==
  PageOf(Matching(opts), "last", TRUE, page, pageSize)

\* The handler: with a page it answers that page, otherwise the list.
handleAPIEvents(opts, page, pageSize, limit) ==
  IF page = Unset
  THEN ListEventRows(opts, IF limit = Unset THEN 100 ELSE limit)
  ELSE ListEventsPaginated(opts, page, pageSize)

(***************************************************************************)
(* Properties.                                                             *)
(***************************************************************************)

\* Answers read one after the other are the rows: none left out, none
\* twice, in the order asked for.
Covers(answers, all, col, desc) ==
  LET Earlier(p, k, q, l) == p < q \/ (p = q /\ k < l)
  IN /\ \A p \in DOMAIN answers : \A k \in DOMAIN answers[p] :
          \E r \in all : answers[p][k].uid = r.uid
     /\ \A r \in all :
          \E p \in DOMAIN answers : \E k \in DOMAIN answers[p] : answers[p][k].uid = r.uid
     /\ \A p, q \in DOMAIN answers :
          \A k \in DOMAIN answers[p], l \in DOMAIN answers[q] : Earlier(p, k, q, l) =>
            \A r, s \in all : answers[p][k].uid = r.uid /\ answers[q][l].uid = s.uid =>
              r # s /\ IF desc THEN r[col] >= s[col] ELSE r[col] <= s[col]

EventPagesCover ==
  \A uids \in SUBSET Events, since \in {0, 1}, size \in {1, 2, 200} :
    LET opts    == [uids |-> uids, since |-> since]
        Page(p) == handleAPIEvents(opts, p, size, Unset)
        pages   == [p \in 1..Cardinality(Events) |-> Page(p).items]
    IN /\ Covers(pages, Matching(opts), "last", TRUE)
       /\ \A p \in DOMAIN pages : Page(p).total = Cardinality(Matching(opts))
       /\ Cardinality(Events) <= 100 =>
            Covers(<<handleAPIEvents(opts, Unset, Unset, Unset)>>, Matching(opts), "last", TRUE)

Query(cluster, status, sortBy, order) ==
  [cluster |-> cluster, filters |-> IF status = Unset THEN <<>> ELSE [phase |-> status],
   sortBy |-> sortBy, sortOrder |-> order,
   page |-> Unset, pageSize |-> Unset, limit |-> Unset, offset |-> Unset]

\* The answers to page 1, page 2, ...; at offset 0, size, size + size, ...
ByPage(q, n, size, Answer(_)) ==
  [p \in 1..n |-> Answer([q EXCEPT !.page = p, !.pageSize = size])]
ByOffset(q, n, size, Answer(_)) ==
  [p \in 1..n |-> Answer([q EXCEPT !.limit = size, !.offset = (p - 1) * size])]

ClustersOf(table) == {Unset} \cup {r.cluster : r \in table}

RunPagesCover ==
  \A cluster \in ClustersOf(Runs), status \in {Unset} \cup {r.status : r \in Runs},
     sortBy \in {Unset, "status"}, order \in {Unset, "asc"}, size \in {1, 2, 200} :
    LET q        == Query(cluster, status, sortBy, order)
        Items(p) == handleAPIRuns(p).items
        Total(p) == handleAPIRuns(p).total
        n        == Cardinality(Runs)
        answers  == ByOffset(q, n, size, handleAPIRuns)
    IN /\ Covers(ByPage(q, n, size, Items), MatchingRuns(q), RunColumn(q), Descending(q))
       /\ \A p \in 1..n : ByPage(q, n, size, Total)[p] = Cardinality(MatchingRuns(q))
       /\ Covers(ByOffset(q, n, size, ListRuns), OfCluster(Runs, q), "created", TRUE)
       \* With limit and offset, every answer also has every template, once.
       /\ \A p \in 1..n :
            /\ \A k, l \in DOMAIN answers[p] : answers[p][k].uid = answers[p][l].uid => k = l
            /\ \A c \in RunCRs : c.scheduled =>
                 \E k \in DOMAIN answers[p] : answers[p][k] = [uid |-> c.uid, name |-> c.name]

FixPagesCover ==
  \A cluster \in ClustersOf(Fixes), phase \in {Unset} \cup {r.phase : r \in Fixes},
     sortBy \in {Unset, "phase"}, order \in {Unset, "asc"}, size \in {1, 2, 200} :
    LET q        == Query(cluster, phase, sortBy, order)
        Items(p) == handleAPIFixes(p).items
        Total(p) == handleAPIFixes(p).total
        n        == Cardinality(Fixes)
    IN /\ Covers(ByPage(q, n, size, Items), MatchingFixes(q), FixColumn(q), Descending(q))
       /\ \A p \in 1..n : ByPage(q, n, size, Total)[p] = Cardinality(MatchingFixes(q))
       /\ Covers(ByOffset(q, n, size, handleAPIFixes), OfCluster(Fixes, q), "created", TRUE)

\* The pages of a query, read while the tables stand still, are its rows:
\* every match on one page, no match on two, in the order asked for, as many
\* as the total says; and so for what the older limit and offset select.
PagesCover == EventPagesCover /\ RunPagesCover /\ FixPagesCover
=============================================================================
