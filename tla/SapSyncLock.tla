------------------------------ MODULE SapSyncLock ------------------------------
(***************************************************************************)
(* The synchronisations with SAP: two jobs of the Node process              *)
(* (backend/src/lib/backgroundSync.ts, index.ts) and one of the Python      *)
(* process (backend-py/app/services/sap_sync_service.py), each started by   *)
(* its scheduler or by a click.  The scheduled ones take turns through one  *)
(* row of the database, SapSyncLock; Node guards each job against itself    *)
(* with a set in memory, Python with the job's status row.                  *)
(*                                                                          *)
(* Time is abstract: a wait may end at any failed attempt to get the lock,  *)
(* and a lock or a status row goes stale (20 minutes) at any moment after   *)
(* its owner died, never before: the code's "comfortably longer than any    *)
(* real sync's own duration".                                               *)
(*                                                                          *)
(* No name here is one of SapCache's: SapProofs extends both.               *)
(***************************************************************************)
EXTENDS Naturals, FiniteSets

CONSTANTS
  Ticks,        \* bound: ticks of the two schedulers under way at a time
  Clicks,       \* bound: clicks under way at a time
  MaxCrashes,   \* bound: crashes of the two processes together
  Nobody        \* heldBy's null

NodeJobs == {"historicalActuals", "manpower"}
Jobs == NodeJobs \cup {"sap"}

ASSUME SyncAssumption ==
  MaxCrashes \in Nat /\ Nobody \notin Jobs /\ Ticks \cap Clicks = {}

Runs == Ticks \cup Clicks

VARIABLES
  run,          \* what each run is doing, or NoRun
  heldBy,       \* SapSyncLock.heldBy
  lockStale,    \* SapSyncLock.heldAt is older than LOCK_STALE
  running,      \* Node's set of running jobs
  sapRow,       \* the sap job's SapSyncStatus: running, stale (running, and
                \* started_at older than RUNNING_STALE), or ended or missing
  crashes

lockVars == <<heldBy, lockStale>>
jobVars == <<run, heldBy, lockStale, running, sapRow, crashes>>

(* Where a run is: a tick waits for the lock, has claimed it, syncs and     *)
(* releases; a click syncs at once.  "cleared" is the Python runs' place    *)
(* between reading the status row and marking it.                           *)
Places == {"waiting", "claimed", "cleared", "syncing", "releasing"}
NoRun == [job |-> "none", at |-> "none"]
Run(job, place) == [job |-> job, at |-> place]

LockTypeOK ==
  /\ run \in [Runs -> [job : Jobs, at : Places] \cup {NoRun}]
  /\ heldBy \in Jobs \cup {Nobody}
  /\ lockStale \in BOOLEAN
  /\ running \subseteq NodeJobs
  /\ sapRow \in {"ended", "running", "stale"}
  /\ crashes \in 0 .. MaxCrashes

LockInit ==
  /\ run = [r \in Runs |-> NoRun]
  /\ heldBy = Nobody /\ lockStale = FALSE
  /\ running = {}
  /\ sapRow = "ended"
  /\ crashes = 0

Go(r, place) == run' = [run EXCEPT ![r].at = place]
IsAt(r, place) == run[r].at = place

OwnsLock(r) ==
  r \in Ticks /\ run[r].at \in {"claimed", "cleared", "syncing", "releasing"}

-----------------------------------------------------------------------------
(* Starting: a scheduler's tick or a click.                                 *)

\* Node's tick awaits its two jobs one after the other, leaving out a job
\* that is running when its turn comes.
NodeTickFrom(jobs, busy) ==
  IF "historicalActuals" \in jobs \ busy THEN Run("historicalActuals", "waiting")
  ELSE IF "manpower" \in jobs \ busy THEN Run("manpower", "waiting")
  ELSE NoRun

\* setInterval starts a tick whether or not the last one has ended.
NodeTick(r) ==
  /\ run[r] = NoRun
  /\ run' = [run EXCEPT ![r] = NodeTickFrom(NodeJobs, running)]
  /\ UNCHANGED <<lockVars, running, sapRow, crashes>>

\* Python's scheduler is one thread.
SapTick(r) ==
  /\ run[r] = NoRun
  /\ \A t \in Ticks : run[t].job # "sap"
  /\ run' = [run EXCEPT ![r] = Run("sap", "waiting")]
  /\ UNCHANGED <<lockVars, running, sapRow, crashes>>

\* Mutant: a running row blocks however old it is.
RowSaysRunning == sapRow \in {"running", "stale"}

GenuinelyRunning == sapRow = "running"

NodeClick(r, job) ==
  /\ run[r] = NoRun
  /\ job \in NodeJobs \ running
  /\ running' = running \cup {job}
  /\ run' = [run EXCEPT ![r] = Run(job, "syncing")]
  /\ UNCHANGED <<lockVars, sapRow, crashes>>

\* The click's check and mark, under _start_lock, which no other click gets
\* meanwhile - but the scheduler does not take it.
SapClick(r) ==
  /\ run[r] = NoRun
  /\ \A c \in Clicks : ~IsAt(c, "cleared")
  /\ ~GenuinelyRunning
  /\ run' = [run EXCEPT ![r] = Run("sap", "cleared")]
  /\ UNCHANGED <<lockVars, running, sapRow, crashes>>

-----------------------------------------------------------------------------
(* A scheduled run's turn.                                                  *)

\* Mutants: the stale time compared the wrong way round; not at all.
ClaimableFresh == heldBy = Nobody \/ ~lockStale
ClaimableFree == heldBy = Nobody

Claimable == heldBy = Nobody \/ lockStale

Claim(r) ==
  /\ IsAt(r, "waiting") /\ Claimable
  /\ heldBy' = run[r].job /\ lockStale' = FALSE
  /\ Go(r, "claimed")
  /\ UNCHANGED <<running, sapRow, crashes>>

\* The rest of a tick once a job of it is over.
TickAfter(job, busy) ==
  IF job = "historicalActuals" THEN NodeTickFrom({"manpower"}, busy) ELSE NoRun

\* Mutant: the release put around the whole wait, so that it also follows a
\* wait without success.
GiveUpAndRelease(r) ==
  /\ IsAt(r, "waiting") /\ ~Claimable
  /\ heldBy' = IF heldBy = run[r].job THEN Nobody ELSE heldBy
  /\ lockStale' = (lockStale /\ heldBy # run[r].job)
  /\ run' = [run EXCEPT ![r] = TickAfter(run[r].job, running)]
  /\ UNCHANGED <<running, sapRow, crashes>>

\* The wait's deadline has passed when an attempt fails.
GiveUp(r) ==
  /\ IsAt(r, "waiting") /\ ~Claimable
  /\ run' = [run EXCEPT ![r] = TickAfter(run[r].job, running)]
  /\ UNCHANGED <<lockVars, running, sapRow, crashes>>

\* Node does not look at "running" again.
NodeBegin(r) ==
  /\ IsAt(r, "claimed") /\ run[r].job \in NodeJobs
  /\ running' = running \cup {run[r].job}
  /\ Go(r, "syncing")
  /\ UNCHANGED <<lockVars, sapRow, crashes>>

SapCheck(r) ==
  /\ IsAt(r, "claimed") /\ run[r].job = "sap"
  /\ Go(r, IF GenuinelyRunning THEN "releasing" ELSE "cleared")
  /\ UNCHANGED <<lockVars, running, sapRow, crashes>>

SapMark(r) ==
  /\ IsAt(r, "cleared")
  /\ sapRow' = "running"
  /\ Go(r, "syncing")
  /\ UNCHANGED <<lockVars, running, crashes>>

\* The sync succeeds or fails, either is recorded, and Node's guard dropped.
\* What Node's status rows say is only displayed.
FinishRun(r) ==
  /\ IsAt(r, "syncing")
  /\ sapRow' = IF run[r].job = "sap" THEN "ended" ELSE sapRow
  /\ running' = running \ {run[r].job}
  /\ IF r \in Ticks THEN Go(r, "releasing")
     ELSE run' = [run EXCEPT ![r] = NoRun]
  /\ UNCHANGED <<lockVars, crashes>>

Release(r) ==
  /\ IsAt(r, "releasing")
  /\ IF heldBy = run[r].job THEN heldBy' = Nobody /\ lockStale' = FALSE
     ELSE UNCHANGED lockVars
  /\ run' = [run EXCEPT ![r] = TickAfter(run[r].job, running)]
  /\ UNCHANGED <<running, sapRow, crashes>>

-----------------------------------------------------------------------------
(* Time and crashes.                                                        *)

LockAges ==
  /\ heldBy # Nobody /\ ~lockStale
  /\ \A t \in Ticks : ~OwnsLock(t)
  /\ lockStale' = TRUE
  /\ UNCHANGED <<run, heldBy, running, sapRow, crashes>>

SapRowAges ==
  /\ GenuinelyRunning
  /\ \A r \in Runs : ~(run[r].job = "sap" /\ IsAt(r, "syncing"))
  /\ sapRow' = "stale"
  /\ UNCHANGED <<run, lockVars, running, crashes>>

\* The memory of one of the processes is gone, the database is not.
CrashOf(jobs) ==
  /\ crashes < MaxCrashes /\ crashes' = crashes + 1
  /\ run' = [r \in Runs |-> IF run[r].job \in jobs THEN NoRun ELSE run[r]]
  /\ running' = running \ jobs
  /\ UNCHANGED <<lockVars, sapRow>>

Start ==
  \/ \E t \in Ticks : NodeTick(t) \/ SapTick(t)
  \/ \E c \in Clicks : SapClick(c) \/ \E job \in NodeJobs : NodeClick(c, job)

TakeTurn(t) == Claim(t) \/ GiveUp(t) \/ NodeBegin(t) \/ SapCheck(t) \/ Release(t)
GoOn(r) == SapMark(r) \/ FinishRun(r)

LockNext ==
  \/ Start
  \/ \E t \in Ticks : TakeTurn(t)
  \/ \E r \in Runs : GoOn(r)
  \/ LockAges \/ SapRowAges
  \/ CrashOf(NodeJobs) \/ CrashOf({"sap"})

LockSpec == LockInit /\ [][LockNext]_jobVars

\* Time passes, a started run goes on (the broker's reads time out) and the
\* schedulers tick; nobody has to click.
LockFairness ==
  /\ WF_jobVars(LockAges) /\ WF_jobVars(SapRowAges)
  /\ WF_jobVars(\E t \in Ticks : NodeTick(t)) /\ WF_jobVars(\E t \in Ticks : SapTick(t))
  /\ \A t \in Ticks : WF_jobVars(TakeTurn(t))
  /\ \A r \in Runs : WF_jobVars(GoOn(r))

FairLockSpec == LockSpec /\ LockFairness

-----------------------------------------------------------------------------
(* Properties.                                                              *)

\* From its claim to its release the lock's row bears the name of a tick's job
\* and is not stale, although it is released by name only and ticks of the
\* same job overlap, give up and die beside it: nobody can claim it meanwhile.
OwnersHoldTheLock ==
  \A t \in Ticks : OwnsLock(t) => heldBy = run[t].job /\ ~lockStale

\* The scheduled jobs of the two processes "never run at once", in spite of
\* overlapping ticks, clicks on the same jobs and owners that die with the
\* lock.
ScheduledSyncsTakeTurns ==
  \A s, t \in Ticks : IsAt(s, "syncing") /\ IsAt(t, "syncing") => s = t

\* A lock whose owner died is claimed by somebody else in the end: a crash
\* does not block every future sync.
Orphaned == heldBy # Nobody /\ \A t \in Ticks : ~OwnsLock(t)
OrphanedLockComesBack == Orphaned ~> ~Orphaned

\* A status row left "running" by a killed process stops blocking clicks and
\* ticks of the sap job.
DeadRowBlocks ==
  GenuinelyRunning /\ \A r \in Runs : ~(run[r].job = "sap" /\ IsAt(r, "syncing"))
DeadRowStopsBlocking == DeadRowBlocks ~> ~DeadRowBlocks

\* A statement of the comments that does not hold: "running ... is the
\* in-process concurrency guard for a single module", and _start_lock is
\* against the loop and a click both passing the check.
OneSyncPerJob ==
  \A r, s \in Runs :
    IsAt(r, "syncing") /\ IsAt(s, "syncing") /\ run[r].job = run[s].job => r = s

=============================================================================
