# A TLA+ model of the budgeting system

This directory specifies the part of the budgeting system that decides whose
signature a budget needs and what is published once it has them. It models the
code, handler by handler; comments and documents are only consulted for what
they claim, and a claim the code breaks is kept as a run of its own.

Paths below are relative to `src/`. "Backend" is the Node service
(`backend/src`, Express and Prisma), "Python backend" the FastAPI service
(`backend-py/app`); both use one database.

## Inventory

| Part | State | Operations | How it interacts, what is hard | What makes it correct |
|---|---|---|---|---|
| **New Requests** (`backend/src/routes/budgetRequests.ts`, `services/workflowService.ts`) | a BudgetRequest row: stage, status, assignee, chain flags, amounts; decisions; one FinalizedBudgetLine | create, edit, submit, decide, reassign, cancel, bulk actions, cut, return to a stage, finalize | every handler reads, checks, awaits, writes without a lock; SAP is called before the transaction; due dates and the forecast gate move underneath | no reviewer skipped, nothing stuck, what was reviewed is what is finalized, a line is published once |
| **Approval chains** (`services/approvalChain.ts`) | none | chain of a row, next and previous stage, assignee, who may act | the flags a chain depends on are recomputed at each submit | every chain ends with the Budget Officer; no stage without somebody to act |
| **Cycle administration** (`routes/admin.ts`) | due dates, cycle open, target year | set, toggle | read by every request handler | a passed date blocks its stages |
| **Revenue batches** (`routes/revenueBatches.ts`, second half of `workflowService.ts`) | sibling rows sharing one stage, a batch header | upload, override, submit, decide, finalize, cancel | `updateMany` and decisions in separate statements; an override deletes and recreates | siblings move together, no reviewer skipped, no decided row taken away |
| **DOE and other SBU batches** (`routes/doeBatches.ts`, `routes/bulkUpload.ts`) | rows of a batch, each with its own stage | upload, override, submit, cancel | per-row submit may stop halfway | an override never takes away a row that was decided on |
| **Remaining Months Forecast** (`routes/forecast.ts`, `services/forecastWorkflowService.ts`, `services/historicalActualsService.ts`) | a stage per department and cycle, a map of months per line, completion of a line | edit, template, workbook, SAP sync, submit, head's and officer's decision | read-modify-write of the month map, decisions of three statements, gate of the requests | no lost month, nothing completed unreviewed, what is reviewed is filled in |
| **Headcount** (`services/headcountWorkflowService.ts`, `routes/additionalHeadcount.ts`) | requests with a stage and a code, Office 365 and mobile follow-ons | create, submit, cancel, decide, decide follow-ons | codes are counted, follow-ons are created after the approval is stored | decided in order, codes sequential, follow-ons for each approval |
| **Manpower** (`services/manpowerService.ts`, `routes/manpower.ts`) | ranks, rosters, grid cells, a review stage | template, recompute, edit, review, upload to SAP | recompute runs as a job of several awaits beside edits and uploads | rosters are the sum of the ranks, a year has twelve months, nothing uploaded unreviewed |
| **Departmental cap and pool** (`services/budgetCalcService.ts`) | a cap row per department and year | compute | reads the stages of all requests | the pool counts every request that holds money |
| **Transfers** (`backend-py/app/routers/transfers.py`) | stage, status, stage override | create, submit, decide, reassign, cancel | no locks; the balance is checked at submit only | nothing uploaded unsigned, no ticket stuck, a closed ticket stays closed |
| **Internal orders** (`routers/internal_orders.py`) | stage, status | create, submit, decide | as transfers | its chain in order |
| **SAP jobs and their lock** (`backend/src/lib/backgroundSync.ts`, `backend-py/app/services/sap_sync_service.py`) | the SapSyncLock row, a status row per job, in-memory guards | manual start, scheduled run | two processes, one lock with a stale time, crashes | scheduled jobs never overlap, a crash blocks nobody for ever |
| **SAP copies and actuals** (`services/sap_broker.py`, `sap_raw_sync_service.py`, `sap_sync_service.py`, `routers/utilization.py`) | raw tables, derived actuals, hand-made mappings | fetch by pages, replace, derive, map | pages in parallel, delete and insert under READ COMMITTED, two synchronisations at once | readers see whole copies, no posting vanishes, the copies catch up |
| **Access and roles** (`routes/admin.ts`, `routes/auth.ts`, `lib/accessControl.ts`, `middleware/auth.ts`, `backend-py/app/auth.py`) | access matrix, memberships, users, access requests, a cache in each backend | edit, assign, approve | caches filled after an await, one cache computed from the other | what decides is recent and catches up with the matrix |
| **Dash Flow** (`routers/dash_flow.py`) | tickets | pull, close | an external system told after the commit | - |
| **Catalog, budget codes, reports, utilization, NPC monitoring, importers, frontend** | little or none of their own | read, aggregate, import, display | - | arithmetic and layout |

`PROJECT.json` lists the same parts with their status, and under `hazards` the
places in the code that a test would hardly reach, with the properties that
watch over each.

## The modules

| Module | Models |
|---|---|
| `ApprovalChain` | the chains of `approvalChain.ts`: `ChainFor`, `NextStageAfter`, `PreviousStageBefore`, `AssigneeForStage`, `CanActOnStage` |
| `RequestRows` | a BudgetRequest row, and for each handler what it checks of a row and what it writes into it, as operators; what a row takes from the pool (`PoolShare`) |
| `BudgetRequests` | the state machine: each handler one atomic action, with due dates, forecast gate and cycle moving around it |
| `RequestLifecycle` | the abstract specification: a request is published at most once, and only with every signature it owes |
| `RequestRaces` | the handlers again, split at their awaits: read and check, first statement (decision or SAP posting), update; crashes in between |
| `BatchUploads` | Revenue and SBU batches: calls that read the rows, check all and later write "every row of the batch", beside uploads that create rows one by one |
| `Forecasts` | one department's forecast: four ways months are entered, the review, the completion of lines, and the gate of Step 3A |
| `FollowOnRequests` | transfers and internal orders: tickets moved by calls that load, check and commit without a lock |
| `Headcount` | headcount requests and the two follow-ons an approval opens |
| `Manpower` | the manpower budget of one year: ranks, rosters, recompute, edits, review |
| `SapSyncLock` | the SAP jobs of the two processes, their shared lock, their own guards, clicks, staleness and crashes |
| `SapCache` | what the sap job does: pages, raw copies, derived actuals, mappings |
| `AccessControl` | the access matrix and the two caches between it and a decision |
| `MC...` | the instances for TLC |
| `BudgetRequestsProofs` (also about `ApprovalChain`, `RequestLifecycle` and `RequestRaces`), `BatchProofs`, `ForecastsProofs`, `FollowOnProofs`, `HeadcountProofs`, `ManpowerProofs`, `AccessControlProofs`, `SapProofs` (about `SapSyncLock` and `SapCache`) | the theorems |

`RequestRows` is used by `BudgetRequests` and `RequestRaces`: the first applies the
check and the write of a handler to the same row, the second applies the check
to the row a call loaded and the write to the row it finds. What a race can
break is thereby exactly the difference between the two.

The components meet in a few places. Submitted SBU rows of `BatchUploads` go on
as requests of `BudgetRequests` do. The gate that `Forecasts` computes is the
`forecastReady` that opens and closes there; the two are not composed into one
state space, as the gate may move at any moment in `BudgetRequests` anyway. `SapSyncLock` has
the lock around the job whose inside is `SapCache`. Transfers and orders
write no row of a request. The access matrix only hides or
refuses pages; the approval models assume a caller who passes.

### State and code, New Requests

- `row[r]` is the BudgetRequest row, reduced to the columns that decide
  something. `complete` stands for the justification, the required fields of
  the line item and the attachment that submit asks for; `overLimit` for a
  Mobile Phone plan above the rank's tier. "DOE" stands for the five SBU batch
  categories, which share one chain.
- `line[r]` is the FinalizedBudgetLine, unique by request; `sapPostings` counts
  the calls of the SAP adapter.
- `signed[r]` is history: the stages approved since the last return that undid
  them. `RequestRaces.logged` are the APPROVE rows of ReviewDecision, which are
  never removed.
- `overdue`, `forecastReady` and `cycleOpen` are what the administration sets
  and time changes; they move at any moment.
- One action per handler: `Create`, `Edit` (PATCH and attachments), `Submit`
  (which stores the picks of its body before it checks anything), `Cancel`,
  `Approve`, `ReturnPrevious`, `ReturnRequestor`, `Reassign`, `BudgetCut`,
  `ReturnToStage`, `Finalize`. The bulk routes call the same handlers item by
  item, and are sequences of these actions.
- Constants: users, departments, SBUs, the catalog and the role assignments are
  fixed during a behaviour; the theorems hold for all of them.
- `PoolShare` is what a row takes from its department's pool
  (`computeRemainingPool`): its net amount at the stages the code lists. What the
  comment there promises of it does not hold (`BudgetRequests_v_pool`), so no run
  has a property of the pool.

### State and code, overlapping handlers

- `pending[c]` is a handler of `RequestRaces` suspended after its read and its
  checks: the row it saw, where it means to move the request or whom to assign,
  the amount of a cut, and whether its first statement (the decision, or the
  posting to SAP) is done. All handlers but create may be late: submit, PATCH,
  approve, return, reassign, cancel, the Budget Officer's return to a stage
  (`returnAtStep5`), cut and finalize.
- A late PATCH writes the whole form: line item, plan, picked approvers,
  attachments and amount (`EditedForms`), onto whatever row there is by then. It
  may thus change the chain of a request under review, which is why
  `EarlierStagesApproved` leaves out `FormStages`, the two stages that a form
  brings into a chain or takes out of it: the CFO's, by the plan, and the
  Department Head's, by the line item.
- `Remembered` keeps of the row a call saw what its write uses, and forgets the
  rest.

### State and code, batches

- `row[r]` are the rows of one batch, by id; ids are never reused. `header` is
  the BulkUploadBatch row, which outlives its rows. "SBU" stands for the batch
  categories of `doeBatches.ts`.
- A call is suspended from its checks to its last write. `seen` are the rows it
  read and will name again; `begun` says that the first of two statements is
  done (of an override the deletion, of a decision the decision rows).
- An override is a transaction that deletes (`Replace`) and then a row at a
  time (`CreateRow`). The foreign key of ReviewDecision refuses the deletion of
  a decided row.
- `torn` is history: a call has overlapped an upload. The comments promise what
  the properties say without that condition, and `BatchUploads_v_drift.cfg`
  shows that it is needed.

### State and code, forecasts

- `filled[y][l]` is the month map of a line (HistoricalActuals) in cycle `y`, as
  the set of months that have a value; `completed` has the lines with
  `forecastCompletedAt`; `stage[y]` and `approved[y]` are the ForecastSubmission
  and its decisions.
- The PATCH of a month and the template read the map and write it back; the
  Budget Officer's workbook sets its lines as a whole and empties the others;
  the sync creates lines without months. A decision logs itself, the officer's
  approval completes the lines, and last the stage is set: three statements.
- `GateOpen` is `isForecastCompleteForDepartment`, which asks about every line
  of the department whatever its cycle.
- `clashed` and `disturbed` are histories: entries have overlapped; a cycle's
  lines changed under its submission.

### State and code, headcount

- `code` is MR-yy-nnn: the count of the year's codes is read, and count + 1 is
  written under a unique key (a second write of the same code fails).
- `follow[r][k]` is the stage of the Office 365 or mobile request. The HR head's
  approval logs itself, moves the request, and then creates one and the other.

### State and code, manpower

- `rate` and `heads` are the template's sheets, stored in a transaction;
  `roster` is what is summed from them afterwards, company by company. A recompute
  (`run`) reads the cut-off month and the rosters, fetches the actuals, and
  writes each cell of the grid. Of a cell
  the model keeps the months actuals cover (`ytd`), the lump of the remaining
  months with the pay it was computed from, and the months entered by hand.
- `torn` and `crossed` are histories: uploads overlapped or one died; an edit or
  a second recompute ran beside a recompute.

### State and code, SAP lock

- `run[t]` for a tick of a scheduler: waiting, claimed, (Python) cleared to
  mark its row, syncing, releasing. Node's tick awaits `historicalActuals`, then
  `manpower`, and two ticks may overlap; Python's scheduler is one thread.
  `run[c]` for a click.
- `heldBy` and `lockStale` are the SapSyncLock row, `running` Node's set in
  memory, `sapRow` the SapSyncStatus row of the sap job.
- Time is abstract. A wait may end at any failed attempt. A lock or a status row
  goes stale at any moment once its owner is dead and not before: that is the
  code's own assumption, "comfortably longer than any real sync's own duration".
  Without it the schedulers do overlap, and since `releaseGlobalLock` frees by
  job name only, an overtaken owner may also free the lock of a later run of its
  own job.

### State and code, SAP copies

- `table[t]` is a set of batches: the rows one synchronisation inserted, each
  posting with how often. `ledger` is what SAP holds by now; new postings come
  anywhere in the order in which the broker pages them, which the code does not
  choose. Two of the four reports and one of the two derived tables are kept, as
  the code treats them alike.
- A report is asked for by chunks of 40 cost centres (`ChunkOf` says which chunk
  a posting belongs to). A synchronisation reads the first page of each chunk and
  its count, one chunk after the other, then all other pages in any order, keeps
  the rows in memory, deletes and inserts all reports in one transaction and
  the actuals in another. PostgreSQL's READ COMMITTED is modelled by what a
  DELETE does: it takes the rows committed when it starts, waits for another
  that has locked them, and skips those gone by then.
- A copy is not one moment of SAP: a posting of a later chunk may be in it without
  an earlier one of a chunk already counted. What `CopiesAreWhole` promises of a
  batch is that it has whatever was there when its chunk was begun (`counted`), and
  each posting once.
- `overlapped` and `shifted` are histories: two synchronisations have run at once;
  a posting came before others of its chunk while pages of that were still to be
  read. It then moves a row over the edge of a page, which is lost or comes twice
  (`SapCache_v_shift`); `TablesCatchUp` says that the next synchronisation puts
  it right, and has neither condition.

### State and code, access

- `allowed` is the matrix in force for one module, `member` the user's groups,
  `nodeCache` and `pyCache` the two caches with their age. `since` counts the
  ticks since the matrix that a cached value comes from was read.
- A tick is five seconds, Python's timeout for its call of Node; both caches
  live two ticks.

### State and code, transfers and internal orders

- `ticket[t]` is the TransferRequest or InternalOrderRequest row: amount (of a
  transfer) or classification (of an order) decide its stages. `attached` stands
  for its TransferAttachment rows. `approved[t]` are the stages with an APPROVE
  decision row, `signed[t]` those no later return has undone.
- Every handler has one `Session`: it loads the row (`Load`, with the checks of
  the handler, `May`), changes it in memory (`Changed`) and commits (`Commit`).
  SQLAlchemy then updates the columns that differ from what was loaded, by id
  and with no version, which is `Merged`. Decision and row are one transaction.
- `overlapped` is history: tickets that ever had two calls under way. Properties
  of `Undisturbed` tickets are what the code promises when calls take turns;
  the others hold however calls overlap.
- The balances of a source (`compute_gl_cc_available`, `_assert_salr_available`)
  and the checks of codes only refuse a call, and a refused call changes nothing.
  `Holders` stands for the roles, one assignment of users to stages.

## What the runs show

| Run | Question | Bounds |
|---|---|---|
| `BudgetRequests` | Is a reviewer ever skipped, a request stuck, the CFO passed by, a due date evaded, something published that was not reviewed? Do the handlers implement `RequestLifecycle`? | one request of every origin (GAE from two departments, NPC, DOE with and without SBU or item), six users, amounts and cuts 0 and 1, two due dates |
| `RequestRaces` | What survives when one handler is suspended at any of its awaits while any others run, and the process may die: is a stage skipped, an approved request without a line, a line without its posting, a line written twice? | one GAE request, whose line item, plan, picks and attachments any edit may change, two line items of two departments, two users who hold all roles, one suspended call of any of nine kinds, one amount, drafts with filled forms |
| `BatchUploads` | However calls overlap or die, do rows move together and in order while uploads run alone, and does a decided row ever vanish? | Revenue and SBU, files of two rows and of one with the same total, three rows ever created, two calls, one gate that moves |
| `Forecasts` | Is anything completed unreviewed, is what is under review filled in, is an entered month lost? | two lines, two months to forecast, a file of both, two cycles from 2027 on, both values of the cut-off, two calls |
| `FollowOnRequests` | However calls overlap, does anything get to SAP without each approval it needs, or wait for nobody? Called in turn, are signatures in order and closed tickets closed? | one ticket of any kind, amounts at each threshold and beyond, two calls, two users |
| `Headcount` | Are codes without gap, is a review skipped, does an approval open both follow-ons? | two requests, two calls, one of the two follow-ons decided on |
| `Manpower` | Are rosters the sum of the ranks, does a year have twelve months, is anything uploaded unreviewed, does the grid catch up? | one company, two ranks, three pay components, two cut-offs, one recompute and two other calls at a time, three acts |
| `SapSyncLock` | Does the lock stay with whom it was given to, do the scheduled jobs take turns, and does anything a dead process leaves behind block for ever? | three ticks and two clicks under way, two crashes |
| `SapCache` | Do readers see whole copies, does a posting vanish, do copies and actuals catch up? | two chunks, pages of one row, two postings of one chunk and a third one arriving before, after or in the other chunk, one scheduled and one manual synchronisation, one act |
| `AccessControl` | How old may be what a backend decides by, and does it catch up? | one group beside BCA, one user, one token, two requests at a time, two acts |

Why these bounds are enough to meet the interesting cases:

- Requests share no state, so one request shows what a request can do. Each user
  of the instances holds one part of the chain, and `keeper` both raises requests
  and reviews for the department that owns the line item, the case that shortens
  the chain. `Staffed` is assumed on each instance: without a holder of a role
  somebody must be missing. `MaxPostings` bounds the finalizations at two, one of
  them refused by the unique key. An OTHER_INCOME request goes through the
  handlers as a GAE request does whose creator reviews for another department, so the
  run leaves it out for time; `BudgetRequests_forms` has it. The view `WhatMatters` forgets the gate of
  departments that own no line item and the cycle's toggle once the request is
  created: no step and no property looks at them then.
- One suspended call suffices for the races of two handlers since the other runs
  whole in between; three calls that all overlap are not covered. `FilledForms`
  prunes drafts that lack something, which only blocks their submit, and follows
  plans above the tier with one of the two line items only. The amount is one, as no
  property of the races depends on it. The races'
  view leaves out `signed`, which decides no step; every stage it ever gained is
  in `logged`.
- Two calls at a time, any number one after the other, leave every stale write
  there is between two handlers, with a decision and a submit, or two decisions,
  apart by any number of stages. Three rows are an upload of two and an override
  of one; a fourth would only be one more sibling. Tickets, forecasts and
  companies share nothing with others of their kind; two headcount requests share
  their codes, and two are enough for a count to be read twice.
- `MaxActs` bounds what people, failures and settings do where liveness is
  checked: after the last act the system is on its own, which is the premise of
  "comes to". Synchronisations, recomputes and ticks are not bounded. `Versions`
  of `SapCache` are more than rows and calls can hold at once. One act there is a
  click that overlaps the schedule, a failed page, a crash or a mapping; with two
  the states are ten times as many. A third posting arrives in each of
  the three places where it may: it shifts pages, follows them, or belongs to the
  chunk that was counted before or will be after.
- Calls of `BatchUploads`, `Forecasts` and `Headcount` are alike, and so are
  lines and requests there: symmetry is used with safety properties only.
- CHECK_DEADLOCK is off where the system may stop: a cancelled request, a
  rejected ticket, a cancelled batch, a finished review. Where a timer goes on for
  ever it is on.

### Two statements of the code that do not hold

| Run | Statement | What happens |
|---|---|---|
| `Forecasts_v_blocked` | the Budget Officer's approval "unblocks Step 3A", and the exception for 2026 "lifts on its own" (`forecast.ts:358-359`, `workflowService.ts:265`) | the gate asks about lines of every cycle, and those of 2026 are never completed |
| `SapCache_v_mapping` | a posting is in the unmapped queue "until manually mapped" (`sap_sync_service.py:46-51`) | the next synchronisation deletes the actuals with their mappings |

Further configurations to run by hand. Each but the last ends in a
counterexample:

| Configuration | Statement | What happens |
|---|---|---|
| `BudgetRequests_v_cut` | "Budget cut must be between 0 and the proposed amount." | a cut survives a return to the requestor and an edit to a smaller amount |
| `BudgetRequests_v_reopen` | an approved request is "already closed" | it keeps its assignee, who may still return it to draft |
| `BudgetRequests_v_pool` | "A request only leaves the pool once it's fully rejected/returned" (`budgetCalcService.ts:4-7`) | `POOL_CONSUMING_STAGES` has no CFO_APPROVAL: a request leaves the pool while it waits for the CFO (`budgetCalcService.ts:8-20`) |
| `RequestRaces_v_cfo` | an over-limit request goes through the CFO | a submit that read the form before an edit writes its old flags |
| `RequestRaces_v_sap` | decision, SAP posting and line "all in the same transaction" | the posting precedes the transaction and stays when it does not happen |
| `SapSyncLock_v_twice` | `running` and `_start_lock` keep a job from running twice | the scheduler looks before its wait for the lock and not after |
| `BatchUploads_v_drift` | "sibling rows can never drift apart" (`workflowService.ts:468-475`) | a submit between two row creations leaves the second row behind |
| `FollowOnRequests_v_cancel` | "This request is already finalized and cannot be cancelled." (`transfers.py:733`) | a cancel that loaded the ticket before the upload's commit still sets CANCELLED |
| `SapCache_v_shift` | `_fetch_all` returns "every row across every chunk" (`sap_broker.py:119`) | a posting that comes before others moves a row on to a page that was already read |
| `AccessControl_v_edit` | the cached matrix is "invalidated on edit" | a matrix read before the edit is cached after it (`accessControl.ts:67`) |
| `BudgetRequests_forms` | `StatusTracksStage`, `ReviewedFormFrozen`, `CancelledIsFinal`, `LineIsPermanent` | hold, without amounts and due dates, for OTHER_INCOME requests too |

Other disagreements met on the way, read in the code and without a run:

- New Requests: `returnAtStep5` loads the row without its line item
  (`workflowService.ts:373`), so a request returned to Centralized L1 has no named
  reviewer, against `approvalChain.ts:93-96`. An own-department request is said
  to skip Centralized L1 (`approvalChain.ts:86-89`) and does not.
- Batches: an override of a batch that was returned always fails, since its
  decisions restrict the deletion (`migration.sql:334`), though the page offers
  it (`RevenueRequestTab.tsx:303`). PATCH of a single request accepts rows of a
  Revenue batch. A batch whose upload died half way can be submitted.
- Forecasts: the PATCH of a month does not look at the stage of the submission,
  though entering by hand is said to be allowed "only while the department's
  forecast is still editable" (`forecast.ts:362-364`); two PATCHes of one line lose a month; a late decision
  or submit overwrites APPROVED; an officer's approval that dies after completing
  the lines, followed by a return, leaves a returned forecast with completed lines.
- Headcount: codes are a plain count+1, for a "single-writer" workflow
  (`additionalHeadcount.ts:43-45`). Two overlapping submits of one request give it a second code, the count falls
  behind the codes, and no draft can be submitted for the rest of the year.
- Manpower: the edit described as one "for MANUAL-sourced components" takes any
  (`manpower.ts:234`) and the grid is not frozen in review. The submission row is
  only made by `seed.ts:511`, so a new year cannot be submitted although GET shows
  a draft. Additional headcount is counted whatever its fiscal year
  (`manpowerService.ts:19-26`, 92). Salary levels are not kept per year.
- Access: overlapping approve and disapprove of an access request leave a
  disapproved request with an account (`admin.ts:819-889`). A collision in the
  roster import's `updateMany` is swallowed (`employeeImport.ts:231-243`).

### Fairness

Requests, batches, forecasts, headcounts and tickets claim no liveness: every
step there is a person's decision, and nothing in the code makes one come. In
its place `SomeoneCanAct` says that somebody may always take the next step.

| Module | Assumed | Why |
|---|---|---|
| `SapSyncLock` | weak fairness of time, of ticks and of each run once begun; clicks and crashes are free | the broker's reads have timeouts, the wait for the lock has a deadline, timers tick |
| `Manpower` | weak fairness of the recompute and of calls once begun | the timer of `index.ts:30-41`; a call ends with its process |
| `SapCache` | weak fairness of the scheduled check, of the ageing of a status row and of each step begun | the scheduler's loop (`sap_sync_service.py:361-378`), timeouts of pages |
| `AccessControl` | weak fairness of time and of each request's steps | both caches go by the clock, the call of Node has a timeout |

That is not enough for "every job gets its turn" in `SapSyncLock`, which the
code does not guarantee either: a tick may give up each time.

## What is proved

With TLAPS, for every value of the constants, every safety property the passing
runs check: each invariant and action property but the liveness ones, and the
refinement.

- `BudgetRequestsProofs`, the handlers one at a time: type correctness,
  `SignedInOrder`, `StatusTracksStage`, `CfoSawOverLimit`, `ApprovedHasItsLine`,
  `LineIsPermanent`, `CancelledIsFinal`, `ReviewedFormFrozen`, `DueDateBlocks`.
  None of the invariants is inductive alone. `IInv` adds to the types one
  predicate on each row and its line, `Sound`: the stage belongs to the row's
  own chain, status and stage agree, the signatures are exactly the stages
  before the present one, the stored CFO flag agrees with the form from submit
  to approval, and a draft or cancelled row has no assignee who could act on it.
  Every action touches one row, so each step of the proof is one lemma about
  that row. They rest on what `chainFor` returns for any flags, and on how
  `IndexOf`, `NextStageAfter` and `StagesBefore` relate.
- There, `SomeoneCanAct`, if every role is `Staffed`. The Department Head is the one
  reviewer who is picked and not looked up; `Manned` follows the pick for as long
  as the chain has that stage.
- There, `ImplementsLifecycle`: every step is, through the mapping `phase`, `owed`,
  `line`, a step of `RequestLifecycle` or changes nothing it shows. `owed` are the
  stages of the chain that have not signed; the proof needs `Sound` to know that
  approving removes exactly one of them and that the last one owed is the Budget
  Officer's.
- There, of `RequestRaces` with any number of suspended calls: types,
  `EarlierStagesApproved`, `ApprovedHasALine`, `PublishedIsInSap` and
  `RacesKeepLine`. What a suspended
  call read may be long out of date, so `RaceInv` says of every call what will
  still be right when it writes (`Timely`): all that its target presupposes has
  been approved, once an approval has logged its own. Approvals are never
  removed. `FormStages` are left out of the promise: an approval may be on its
  way while its request is returned, changed to the line item of another
  department and submitted again, into a chain with a stage that nobody
  approved; and an edit that read a draft may do the same to a request in review.
  The rest of a chain depends on nothing an edit writes
  (`SameRequirements`). TLC finds this only with two line items.
  `PublishedIsInSap` needs of a pending finalization that has posted that SAP
  has its posting still, which is never taken back.
- `BatchProofs`: `DecidedRowsStay` whatever overlaps, from the types alone with
  what a suspended call may hold. `SiblingsMoveTogether` and
  `EarlierStagesApproved` while uploads run alone, from `Orderly`: an upload is
  the only call under way and its rows are drafts; the rows a decision read are
  those there are; its stage has every earlier approval, and its own once it is
  logged. Approvals are never removed, so a late decision finds them still.
- `ForecastsProofs`: type correctness, `CompletedWasReviewed` (the stage an
  approval read had the head's approval, which stays), `UnderReviewIsFilled` and
  `EntriesStay` (`LInv`: one entry at a time, the months it read are still those
  of its line, and a submit past its check has seen them all).
- `FollowOnProofs`: `UploadedIsAuthorised` however calls overlap: a ticket past a
  stage was approved there, and so was what each pending call loaded or is about
  to write. `SignedInOrder` and `ClosedStaysClosed` for tickets whose calls
  take turns, where a pending call's copy is the row; that status and stage of such
  tickets agree; and `SomeoneCanAct`, if `Staffed`.
- `HeadcountProofs`: type correctness, `DecidedInOrder`,
  `ApprovalOpensFollowOns` and `CodesAreSequential`. The invariant says what a
  suspended decision remembers: the earlier approvals of the stage it read, and for
  an approved request the call that is still to create a follow-on. The codes
  are 1 to their number, which is an argument about cardinalities, as long as no
  request was given a second code.
- `ManpowerProofs`: type correctness, `RosterFollowsRanks`, `YearIsCovered` and
  `UploadedWasReviewed`, for any ranks and companies. That a sum over the ranks of
  a company is a number at all would need induction over sets, whose rule the
  provers cannot instantiate; the proof takes the smallest set of ranks without a
  sum and derives a contradiction. `YearIsCovered` needs
  that a recompute or an edit that nothing crossed is the only one; that the
  recompute read a roster for every figure the grid has, so that it leaves none
  behind (`RunFits`), and that the edit writes the figure it read (`EditFits`).
- `AccessControlProofs`: type correctness and `DecisionsAreRecent` for any lifetime
  of the caches. An answer has three holders one after the other: Node's
  cache, the call that carries it, and Python's cache. The age of what it says
  is at most the sum of the times it may stay with each.
- `SapProofs`, of `SapSyncLock`: type correctness, `OwnersHoldTheLock` and
  `ScheduledSyncsTakeTurns`. The invariant: a tick past its claim is the only one, and the lock bears its
  job's name and is not stale.
- There, of `SapCache` for any number of chunks and postings and any page size:
  `CopiesAreWhole` and `PostingsStay`. `CopyInv` has three parts: the shape of a
  synchronisation at each step, always; that the tables have one batch each and
  what the one synchronisation under way will delete is all of it, until two
  overlap; and until a shift, what has been read of each chunk: the postings of the
  pages left behind, none of a page still to come, and all that were counted when
  the last page is read. A posting behind all others of its chunk changes no page
  before its own (`LastMovesNone`), and the pages of a chunk share no posting and
  leave none out (`PagesApart`, `EveryPostingIsPaged`). The actuals to come leave
  out no posting of the old ones. A posting is thus in the old rows and in the new,
  and the commit changes one for the other.

The assumptions are the named ASSUMEs of the modules: the constants have their
types, the nulls are not values, templates have rows, the components summed from
ranks are components, and the CFO's threshold is
not above the CEO's (`transfers.py:48-49`). `Staffed` is not among them: it is a
hypothesis of the two theorems about `SomeoneCanAct`, and only of them.

Model-checked only: all liveness (`OrphanedLockComesBack`, `DeadRowStopsBlocking`,
`GridFollowsRoster`, `TablesCatchUp`, `AccessCatchesUp`), which is beyond the
prover, as fairness speaks of ENABLED; and the statements above that TLC
refutes. No module uses RECURSIVE operators.

## What is not modelled

The models follow the code that keeps and moves state: the services and routes
of both backends named above. Most of the repository's lines are outside: React
pages, reports that read and aggregate, importers, layouts of spreadsheets, validation of
forms. They have no steps whose order matters, and a model of them would
repeat them.

- New Requests: role changes and catalog imports while a request is open; the
  upsert of the cap row in `computeDepartmentalCap`; reminders; the error when an
  item has no G/L account or cost centre; a single REVENUE request, which POST
  accepts and submit refuses (`workflowService.ts:78`); the
  stages REJECTED, SBU_HEAD_REVIEW and BCA_HEAD_REVIEW, which no chain enters.
- Batches: the stored file, ticket numbers, the line item made for each row of a
  Revenue template, and `bulkUpload.ts`, which only creates drafts.
- Forecasts: amounts and the export of templates.
- Headcount: the fields of the form.
- Manpower: merit rate, headcount adjustment and additional headcount, which are
  added when the grid is read; checks of the caller's role.
- Transfers and orders: balances, ticket numbers, `routing_stream`, which no
  handler reads, and the administration of cost centres, accounts and locations.
- SAP: the rate limiter and the count of retries; a change of the fiscal year
  between two synchronisations; failing database calls of the lock.
- Access: access requests, roster import, sign-in; role assignments, which are
  constants of the other models.
- Dash Flow (two calls of an outside system, no state in between), the catalog
  (one transaction per import), budget codes (one upsert with an atomic
  increment), reports and utilization (read only), NPC monitoring (single-row
  edits by one owner), the frontend, the importers and migrations.

## Where to go from here

In order of use: access requests, as a module of their own over the account rows
they create; two rows under one pool in `BudgetRequests`, once the cap is computed
and not a constant; an abstract specification for tickets and forecasts as
`RequestLifecycle` is one for requests, with the refinement proved; the bounds
of liveness (`TablesCatchUp`, `AccessCatchesUp`) as safety theorems about how
many steps are left, which the prover can reach.
