------------------------------- MODULE SapCache -------------------------------
(***************************************************************************)
(* What one synchronisation with SAP does in the Python process: it reads   *)
(* every report from SAP's broker page by page (services/sap_broker.py),    *)
(* replaces the local copies in one transaction                             *)
(* (services/sap_raw_sync_service.py), derives the actuals from them in a   *)
(* second one (services/sap_sync_service.py), on which the Budget Officer   *)
(* maps postings to line items (routers/utilization.py).  The scheduler and *)
(* a click may each run one; SapSyncLock has the lock of the schedulers.    *)
(*                                                                          *)
(* PostgreSQL reads committed: a DELETE takes the rows committed when it    *)
(* starts, waits for others that delete them, and skips those gone by then. *)
(* The broker pages what a request asks for in an order the code does not   *)
(* choose: it is fixed here, and a new posting may come anywhere in it.  Of *)
(* the four reports and two derived tables two and one are kept, all alike; *)
(* the rate limit and the retries of a page, which end in an answer or a    *)
(* failure, are left out, as are amounts.                                   *)
(***************************************************************************)
EXTENDS Integers, FiniteSetsExt

CONSTANTS
  PageSize,     \* MAX_ROWS_PER_PAGE
  Chunks,       \* how many chunks of cost centres a report is asked for by
  MaxPostings,  \* bound: postings of the fiscal year, in the broker's order
  ChunkOf,      \* the chunk of a posting's cost centre
  AtFirst,      \* bound: those there are when the model starts
  MaxLedger,    \* bound: how many there are in the end
  ToMap,        \* bound: postings the Budget Officer maps
  MaxActs,      \* bound: clicks, failures, crashes and mappings
  Versions,     \* bound: synchronisations some row may still come from
  Idle

ASSUME SapCacheAssumption ==
  /\ PageSize \in Nat \ {0} /\ Chunks \in Nat \ {0}
  /\ MaxPostings \in Nat /\ MaxLedger \in Nat /\ MaxActs \in Nat
  /\ ChunkOf \in [1 .. MaxPostings -> 1 .. Chunks]
  /\ AtFirst \subseteq SUBSET (1 .. MaxPostings) /\ ToMap \subseteq 1 .. MaxPostings
  /\ Versions \subseteq Nat \ {0}

Syncs == {"tick", "click"}
Reports == {"fbl3n", "kssbV2"}
Tables == Reports \cup {"actuals"}

Postings == 1 .. MaxPostings
\* How many rows of each posting.
Rows == [Postings -> Nat]
NoRows == [p \in Postings |-> 0]
Once(ps) == [p \in Postings |-> IF p \in ps THEN 1 ELSE 0]
Plus(a, b) == [p \in Postings |-> a[p] + b[p]]

\* The rows a synchronisation inserted into a table.  counted: history, the
\* postings there were when their chunk was begun; not kept of the actuals.
Batch == [by : Versions, rows : Rows, counted : SUBSET Postings]

VARIABLES
  ledger,     \* postings SAP has
  table,      \* committed rows, by batch
  mapped,     \* actuals with expense_line_item_id
  rowRunning, \* SapSyncStatus says running, for less than 20 minutes
  sync,
  acts,       \* counts towards MaxActs
  overlapped, \* history: two synchronisations have run at once
  shifted     \* history: a posting came before others of a chunk being read

vars == <<ledger, table, mapped, rowRunning, sync, acts, overlapped, shifted>>

Offsets == {o \in Postings : o % PageSize = 0}
Requests == (1 .. Chunks) \X Offsets
Steps == {"cleared", "first", "pages", "locking", "commit", "read", "finish"}

\* on: the table at hand.  chunk: the one whose first page is next.  new: rows
\* to insert.  pages: remaining_requests.  seen: the rows a DELETE has found.
\* doomed: the rows it has locked.
Sync ==
  [at : Steps, by : Versions \cup {0}, on : Tables, chunk : 1 .. Chunks,
   new : [Tables -> Rows], counted : [Tables -> SUBSET Postings],
   pages : SUBSET Requests, seen : SUBSET Batch, doomed : [Tables -> SUBSET Batch]]

TypeOK ==
  /\ ledger \subseteq Postings
  /\ \A t \in Tables : table[t] \subseteq Batch
  /\ mapped \subseteq Versions \X Postings
  /\ rowRunning \in BOOLEAN /\ overlapped \in BOOLEAN /\ shifted \in BOOLEAN
  /\ acts \in 0 .. MaxActs
  /\ \A s \in Syncs : sync[s] # Idle =>
       /\ sync[s].at \in Steps /\ sync[s].by \in Versions \cup {0} /\ sync[s].on \in Tables
       /\ sync[s].chunk \in 1 .. Chunks
       /\ \A t \in Tables : sync[s].new[t] \in Rows /\ sync[s].doomed[t] \subseteq Batch
       /\ sync[s].pages \subseteq Requests /\ sync[s].seen \subseteq Batch

Init ==
  /\ ledger \in AtFirst
  /\ table = [t \in Tables |-> {}]
  /\ mapped = {}
  /\ rowRunning = FALSE
  /\ sync = [s \in Syncs |-> Idle]
  /\ acts = 0 /\ overlapped = FALSE /\ shifted = FALSE

Act == acts < MaxActs /\ acts' = acts + 1
At(s, step) == sync[s] # Idle /\ sync[s].at = step
Working(s) == sync[s] # Idle /\ sync[s].at # "cleared"
Total(t) == FoldSet(LAMBDA b, sum : Plus(b.rows, sum), NoRows, table[t])

database == <<table, mapped>>
history == <<overlapped, shifted>>
rest == <<acts, history>>

-----------------------------------------------------------------------------
(* Starting.                                                                *)

\* The status row is read, ...
Check(s) ==
  /\ sync[s] = Idle /\ ~rowRunning
  /\ IF s = "click" THEN Act ELSE UNCHANGED acts
  /\ sync' = [sync EXCEPT ![s] =
       [at |-> "cleared", by |-> 0, on |-> "fbl3n", chunk |-> 1,
        new |-> [t \in Tables |-> NoRows], counted |-> [t \in Tables |-> {}],
        pages |-> {}, seen |-> {}, doomed |-> [t \in Tables |-> {}]]]
  /\ UNCHANGED <<ledger, database, rowRunning, history>>

UsedVersions ==
  {b.by : b \in UNION ({table[t] : t \in Tables} \cup {sync[s].seen : s \in {r \in Syncs : Working(r)}})}
    \cup {sync[s].by : s \in {r \in Syncs : Working(r)}}

\* ... and marked: not under one lock for tick and click.
Mark(s) ==
  /\ At(s, "cleared")
  /\ rowRunning' = TRUE
  /\ sync' = [sync EXCEPT ![s].at = "first", ![s].by = Min(Versions \ UsedVersions)]
  /\ overlapped' = (overlapped \/ \E r \in Syncs \ {s} : Working(r))
  /\ UNCHANGED <<ledger, database, acts, shifted>>

-----------------------------------------------------------------------------
(* Reading a report: _fetch_all.                                            *)

\* The postings of a chunk, and those of it up to a posting.
OfChunk(c) == {p \in ledger : ChunkOf[p] = c}
UpTo(p) == {q \in OfChunk(ChunkOf[p]) : q <= p}

\* A request gives the rows of its chunk behind its offset.
Page(c, offset) ==
  {p \in OfChunk(c) : offset < Cardinality(UpTo(p)) /\ Cardinality(UpTo(p)) <= offset + PageSize}

\* Mutant: a page with one row forgotten.
PagesShort(total) == {o \in Offsets : o < total - 1}

\* range(MAX_ROWS_PER_PAGE, total, MAX_ROWS_PER_PAGE)
Pages(total) == {o \in Offsets : o < total}

\* The first page of a chunk comes with the chunk's total; the chunks are
\* asked for one after the other.
FirstPage(s) ==
  /\ At(s, "first")
  /\ LET c == sync[s].chunk IN
       sync' = [sync EXCEPT
         ![s].at = IF c = Chunks THEN "pages" ELSE "first",
         ![s].chunk = IF c = Chunks THEN c ELSE c + 1,
         ![s].new[sync[s].on] = Plus(@, Once(Page(c, 0))),
         ![s].pages = @ \cup ({c} \X Pages(Cardinality(OfChunk(c)))),
         ![s].counted[sync[s].on] = @ \cup OfChunk(c)]
  /\ UNCHANGED <<ledger, database, rowRunning, rest>>

\* The other pages of all chunks are fetched at once, in any order.
NextPage(s, request) ==
  /\ At(s, "pages") /\ request \in sync[s].pages
  /\ sync' = [sync EXCEPT ![s].new[sync[s].on] = Plus(@, Once(Page(request[1], request[2]))),
                          ![s].pages = @ \ {request}]
  /\ UNCHANGED <<ledger, database, rowRunning, rest>>

\* The retries are exhausted: the transaction is rolled back and the error
\* recorded.
FetchFails(s) ==
  /\ Act
  /\ At(s, "first") \/ (At(s, "pages") /\ sync[s].pages # {})
  /\ sync' = [sync EXCEPT ![s] = Idle]
  /\ rowRunning' = FALSE
  /\ UNCHANGED <<ledger, database, history>>

-----------------------------------------------------------------------------
(* Replacing a table.                                                       *)

\* DELETE, as it starts.
Delete(s) ==
  /\ At(s, "pages") /\ sync[s].pages = {}
  /\ sync' = [sync EXCEPT ![s].at = "locking", ![s].seen = table[sync[s].on]]
  /\ UNCHANGED <<ledger, database, rowRunning, rest>>

\* Mutants: the rows of one synchronisation only; every DELETE committed at
\* once.
LockLatest(s) ==
  /\ At(s, "locking")
  /\ LET on == sync[s].on
         found == sync[s].seen \cap table[on]
         last == {b \in found : \A c \in found : c.by <= b.by}
     IN  /\ \A r \in Syncs \ {s} : sync[r] # Idle => sync[r].doomed[on] \cap found = {}
         /\ sync' = [sync EXCEPT ![s].doomed[on] = last, ![s].seen = {},
                                 ![s].at = IF on = "fbl3n" THEN "first" ELSE "commit",
                                 ![s].on = IF on = "fbl3n" THEN "kssbV2" ELSE on,
                                 ![s].chunk = 1]
  /\ UNCHANGED <<ledger, database, rowRunning, rest>>
LockCommitting(s) ==
  /\ At(s, "locking")
  /\ table' = [table EXCEPT ![sync[s].on] = @ \ sync[s].seen]
  /\ sync' = [sync EXCEPT ![s].seen = {},
       ![s].at = IF sync[s].on = "fbl3n" THEN "first" ELSE "commit",
       ![s].on = IF @ = "fbl3n" THEN "kssbV2" ELSE @, ![s].chunk = 1]
  /\ UNCHANGED <<ledger, mapped, rowRunning, rest>>

\* The rows still there once nobody else deletes them; then the next report,
\* in the same transaction.
Lock(s) ==
  /\ At(s, "locking")
  /\ LET on == sync[s].on
         found == sync[s].seen \cap table[on]
     IN  /\ \A r \in Syncs \ {s} : sync[r] # Idle => sync[r].doomed[on] \cap found = {}
         /\ sync' = [sync EXCEPT ![s].doomed[on] = found, ![s].seen = {},
                                 ![s].at = IF on = "fbl3n" THEN "first" ELSE "commit",
                                 ![s].on = IF on = "fbl3n" THEN "kssbV2" ELSE on,
                                 ![s].chunk = 1]
  /\ UNCHANGED <<ledger, database, rowRunning, rest>>

Inserted(s, t) == {[by |-> sync[s].by, rows |-> sync[s].new[t], counted |-> sync[s].counted[t]]}
Committed(s) == IF sync[s].on = "actuals" THEN {"actuals"} ELSE Reports

\* sync_all_sap_raw and sync_sap each commit once.  A mapping goes with its row.
Commit(s) ==
  /\ At(s, "commit")
  /\ table' = [t \in Tables |->
       IF t \in Committed(s) THEN (table[t] \ sync[s].doomed[t]) \cup Inserted(s, t) ELSE table[t]]
  /\ mapped' = {m \in mapped : \A b \in sync[s].doomed["actuals"] : b.by # m[1]}
  /\ sync' = [sync EXCEPT ![s].at = IF sync[s].on = "actuals" THEN "finish" ELSE "read",
                          ![s].doomed = [t \in Tables |-> {}]]
  /\ UNCHANGED <<ledger, rowRunning, rest>>

\* sync_actuals_from_fbl3n
ReadCopy(s) ==
  /\ At(s, "read")
  /\ sync' = [sync EXCEPT ![s].at = "pages", ![s].on = "actuals",
                          ![s].new["actuals"] = Total("fbl3n")]
  /\ UNCHANGED <<ledger, database, rowRunning, rest>>

\* The success is recorded.
Finish(s) ==
  /\ At(s, "finish")
  /\ sync' = [sync EXCEPT ![s] = Idle]
  /\ rowRunning' = FALSE
  /\ UNCHANGED <<ledger, database, rest>>

-----------------------------------------------------------------------------
(* Everything else.                                                         *)

Awaits(s, c) == sync[s] # Idle /\ \E request \in sync[s].pages : request[1] = c
ComesBeforeOthers(p) == \E q \in OfChunk(ChunkOf[p]) : p < q

\* SAP posts.
Post(p) ==
  /\ p \notin ledger /\ Cardinality(ledger) < MaxLedger
  /\ ledger' = ledger \cup {p}
  /\ shifted' = (shifted \/ (ComesBeforeOthers(p) /\ \E s \in Syncs : Awaits(s, ChunkOf[p])))
  /\ UNCHANGED <<database, rowRunning, sync, acts, overlapped>>

\* map_unmapped: a row that is being deleted is gone by the time it is updated.
MapPosting(b, p) ==
  /\ Act
  /\ b.rows[p] > 0 /\ <<b.by, p>> \notin mapped
  /\ \A s \in Syncs : sync[s] # Idle => b \notin sync[s].doomed["actuals"]
  /\ mapped' = mapped \cup {<<b.by, p>>}
  /\ UNCHANGED <<ledger, table, rowRunning, sync, history>>

\* The process restarts; its transactions are rolled back.
Crash ==
  /\ Act
  /\ \E s \in Syncs : sync[s] # Idle
  /\ sync' = [s \in Syncs |-> Idle]
  /\ UNCHANGED <<ledger, database, rowRunning, history>>

\* A status row nobody works on is taken for abandoned after 20 minutes.
RowAges ==
  /\ rowRunning /\ \A s \in Syncs : ~Working(s)
  /\ rowRunning' = FALSE
  /\ UNCHANGED <<ledger, database, sync, rest>>

Step(s) ==
  \/ Mark(s)
  \/ FirstPage(s) \/ (\E request \in Requests : NextPage(s, request))
  \/ Delete(s) \/ Lock(s) \/ Commit(s) \/ ReadCopy(s) \/ Finish(s)

Next ==
  \/ \E s \in Syncs : Check(s) \/ Step(s) \/ FetchFails(s)
  \/ \E b \in table["actuals"], p \in ToMap : MapPosting(b, p)
  \/ \E p \in Postings : Post(p)
  \/ Crash \/ RowAges

\* The scheduler goes on starting synchronisations, those that have begun go
\* on, and time passes; nobody has to click.
Fairness ==
  /\ WF_vars(Check("tick")) /\ WF_vars(RowAges)
  /\ \A s \in Syncs : WF_vars(Step(s))

Spec == Init /\ [][Next]_vars /\ Fairness

-----------------------------------------------------------------------------
(* Properties.                                                              *)

Whole(batch) ==
  \E ps \in SUBSET ledger : batch.counted \subseteq ps /\ batch.rows = Once(ps)

\* Unless two synchronisations have overlapped, the copies of all reports are
\* of the same one; and unless a posting came before others of its chunk while
\* pages of that were to be read, each copy has every posting there was when
\* its chunk was begun, none twice and none that SAP has not: whatever is
\* posted between two chunks or two pages, and wherever the synchronisation
\* fails or dies.
CopiesAreWhole ==
  ~overlapped =>
    /\ \A t, u \in Reports : \A b \in table[t], c \in table[u] : b.by = c.by
    /\ ~shifted => \A t \in Reports : \A b \in table[t] : Whole(b)

\* Unless one of the two has happened, a posting never leaves a table it is
\* in: readers see the old rows or the new ones at any time.
PostingsStay ==
  [][~overlapped /\ ~shifted =>
       \A t \in Tables, p \in Postings : Total(t)[p] > 0 => Total(t)'[p] > 0]_vars

\* Once SAP posts nothing new and clicks, failures and crashes stop, every
\* table comes to hold each posting exactly once: also what overlapping
\* synchronisations doubled or left behind, and what a shift of the pages
\* doubled or lost, is put right by the next one.
TablesCatchUp == <>[](\A t \in Tables : Total(t) = Once(ledger))

\* What _fetch_all says it returns, "every row across every chunk": not so when
\* a posting that comes before others moves them on to a page already read, or
\* behind the last.
EveryRowIsFetched ==
  ~overlapped => \A t \in Reports : \A b \in table[t] : Whole(b)

\* A statement of the code that does not hold: a posting is in the "unmapped"
\* queue "until manually mapped", and the mapping "still takes effect".  The
\* next synchronisation deletes it with its row.
MappingsStay ==
  [][\A m \in mapped : \E n \in mapped' : n[2] = m[2]]_vars

=============================================================================
