------------------------------- MODULE Listings -------------------------------
(***************************************************************************)
(* The listings of the REST API (httpserver/server.go over                 *)
(* store/sqlite/sqlite.go): runs and fixes by pages, or by limit and       *)
(* offset, with the names of their CRs, and the scheduled templates that   *)
(* have no row.  A column is a number: what matters is its order.          *)
(***************************************************************************)
EXTENDS Selection, Integers

CONSTANTS
  Unset,   \* a parameter that is not given (one that is not a number is like 0)
  Tie,     \* SQLite's order of the rows that compare equal: a number by uid
  Runs,    \* the rows, [uid, cluster, status, created]
  Fixes,   \* the rows, [uid, cluster, namespace, phase, created, updated]
  RunCRs,  \* the DiagnosticRuns, [uid, name, scheduled], and the DiagnosticFixes,
  FixCRs   \* [uid, name]: none if there is no client, or it cannot list them

ASSUME UnsetAssumption == Unset \notin Int

Numbered(table) ==
  /\ IsFiniteSet(table)
  /\ \A r \in table : Tie[r.uid] \in Int
  /\ \A r, s \in table : Tie[r.uid] = Tie[s.uid] => r = s
ASSUME RunsAssumption ==
  Numbered(Runs) /\ \A r \in Runs : r.status \in Int /\ r.created \in Int
ASSUME FixesAssumption ==
  Numbered(Fixes) /\ \A r \in Fixes : {r.phase, r.created, r.updated} \subseteq Int
ASSUME CRsAssumption == Numbered(RunCRs) /\ Numbered(FixCRs)

Least(m, n) == IF m < n THEN m ELSE n
Positive(n, default) == IF n \in Nat \ {0} THEN n ELSE default

(***************************************************************************)
(* ORDER BY, LIMIT and OFFSET.                                             *)
(***************************************************************************)

Before(i, j, col, desc) ==
  \/ IF desc THEN i[col] > j[col] ELSE i[col] < j[col]
  \/ i[col] = j[col] /\ Tie[i.uid] < Tie[j.uid]

Ranking(table, col, desc) == {pair \in table \X table : Before(pair[1], pair[2], col, desc)}
Sorted(table, col, desc) == InOrder(table, Ranking(table, col, desc))
Slice(all, offset, limit) == SubSeq(all, offset + 1, Least(offset + limit, Len(all)))

PageFromZero(table, col, desc, page, pageSize) ==   \* mutant: OFFSET page * pageSize
  LET p    == Positive(page, 1)
      size == Least(Positive(pageSize, 20), 100)
  IN [items |-> Slice(Sorted(table, col, desc), p * size, size),
      total |-> Cardinality(table), page |-> p, pageSize |-> size]

\* A page that is no positive number is the first one, a size is at most 100.
PageOf(table, col, desc, page, pageSize) ==
  LET p    == Positive(page, 1)
      size == Least(Positive(pageSize, 20), 100)
  IN [items |-> Slice(Sorted(table, col, desc), (p - 1) * size, size),
      total |-> Cardinality(table), page |-> p, pageSize |-> size]

(***************************************************************************)
(* The queries of the store.  q: cluster, filters (a function of the keys  *)
(* that are given), sortBy, sortOrder, page, pageSize, limit, offset.      *)
(***************************************************************************)

OfCluster(table, q) == {r \in table : q.cluster = Unset \/ r.cluster = q.cluster}
Descending(q) == q.sortOrder \notin {"asc", "ASC"}

\* The filter phase and the filter status both mean the column status.
MatchingRuns(q) ==
  {r \in OfCluster(Runs, q) :
     \A k \in {"phase", "status"} \cap DOMAIN q.filters : r.status = q.filters[k]}
RunColumn(q) == IF q.sortBy = "status" THEN "status" ELSE "created"
ListRunsPaginated(q) == PageOf(MatchingRuns(q), RunColumn(q), Descending(q), q.page, q.pageSize)

MatchingFixes(q) ==
  {r \in OfCluster(Fixes, q) :
     \A k \in {"phase", "namespace"} \cap DOMAIN q.filters : r[k] = q.filters[k]}
FixColumn(q) == IF q.sortBy \in {"updated", "phase"} THEN q.sortBy ELSE "created"
ListFixesPaginated(q) == PageOf(MatchingFixes(q), FixColumn(q), Descending(q), q.page, q.pageSize)

\* parsePagination bounds the limit, so the store's own default never counts.
Limit(q)  == Least(Positive(q.limit, 50), 500)
Offset(q) == IF q.offset \in Nat THEN q.offset ELSE 0
ListRuns(q)  == Slice(Sorted(OfCluster(Runs, q), "created", TRUE), Offset(q), Limit(q))
ListFixes(q) == Slice(Sorted(OfCluster(Fixes, q), "created", TRUE), Offset(q), Limit(q))

(***************************************************************************)
(* The handlers.                                                           *)
(***************************************************************************)

\* A row without its CR keeps the name it has in the table: none.
NameOf(uid, crs) ==
  IF \E c \in crs : c.uid = uid THEN (CHOOSE c \in crs : c.uid = uid).name ELSE Unset
WithNames(table, crs) ==
  [k \in DOMAIN table |-> [uid |-> table[k].uid, name |-> NameOf(table[k].uid, crs)]]

\* Whatever the cluster and the offset that are asked for.
mergeScheduledTemplates(items) ==
  LET new == {c \in RunCRs : c.scheduled /\ \A k \in DOMAIN items : items[k].uid # c.uid}
      all == InOrder(new, {pair \in new \X new : Tie[pair[1].uid] < Tie[pair[2].uid]})
  IN items \o [k \in DOMAIN all |-> [uid |-> all[k].uid, name |-> all[k].name]]

handleAPIRuns(q) ==
  IF q.page = Unset
  THEN mergeScheduledTemplates(WithNames(ListRuns(q), RunCRs))
  ELSE [ListRunsPaginated(q) EXCEPT !.items = WithNames(@, RunCRs)]

handleAPIFixes(q) ==
  IF q.page = Unset
  THEN WithNames(ListFixes(q), FixCRs)
  ELSE [ListFixesPaginated(q) EXCEPT !.items = WithNames(@, FixCRs)]
=============================================================================
