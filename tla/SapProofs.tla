------------------------------- MODULE SapProofs -------------------------------
(***************************************************************************)
(* Proofs about the synchronisations with SAP.                              *)
(*                                                                          *)
(* About SapSyncLock: the scheduled ones take turns, for any number of      *)
(* ticks, clicks and crashes.  The inductive invariant: a tick past its     *)
(* claim is the only such one, and the lock bears its job's name and is not *)
(* stale.                                                                   *)
(*                                                                          *)
(* About SapCache: as long as synchronisations take turns and no posting    *)
(* comes before others of a chunk that is being read, readers see whole     *)
(* copies of one of them, and no posting leaves a table.  The invariant     *)
(* follows the only synchronisation from chunk to chunk and page to page,   *)
(* and from the DELETE of a table to the commit.                            *)
(***************************************************************************)
EXTENDS SapCache, SapSyncLock, FiniteSetTheorems, TLAPS

-----------------------------------------------------------------------------
(* The lock of the schedulers (SapSyncLock).                                *)

OneOwner ==
  /\ \A t \in Ticks : OwnsLock(t) => heldBy = run[t].job /\ ~lockStale
  /\ \A s, t \in Ticks : OwnsLock(s) /\ OwnsLock(t) => s = t

IInv == LockTypeOK /\ OneOwner

RunType == [job : Jobs, at : Places] \cup {NoRun}

\* What a Node tick does next is to wait for the lock or to end.
LEMMA NextTurnWaits ==
  ASSUME NEW jobs, NEW busy
  PROVE  /\ NodeTickFrom(jobs, busy) \in RunType
         /\ NodeTickFrom(jobs, busy).at \in {"waiting", "none"}
BY DEF NodeTickFrom, RunType, Run, NoRun, Jobs, NodeJobs, Places

\* The same after a job of any tick.
LEMMA TurnAfterWaits ==
  ASSUME NEW job, NEW busy
  PROVE  /\ TickAfter(job, busy) \in RunType
         /\ TickAfter(job, busy).at \in {"waiting", "none"}
<1>1. /\ NodeTickFrom({"manpower"}, busy) \in RunType
      /\ NodeTickFrom({"manpower"}, busy).at \in {"waiting", "none"}
  BY NextTurnWaits
<1>2. NoRun \in RunType /\ NoRun.at \in {"waiting", "none"}
  BY DEF RunType, NoRun
<1> QED
  BY <1>1, <1>2 DEF TickAfter

\* A run of a tick that is not yet, or no longer, past its claim disturbs no
\* owner.
LEMMA OwnersUndisturbed ==
  ASSUME IInv, NEW r \in Runs, NEW v \in RunType, run' = [run EXCEPT ![r] = v],
         UNCHANGED lockVars, r \in Ticks => v.at \in {"waiting", "none"}
  PROVE  OneOwner'
<1>1. \A t \in Ticks : OwnsLock(t)' => OwnsLock(t) /\ run'[t] = run[t]
  BY DEF IInv, LockTypeOK, OwnsLock, Runs
<1> QED
  BY <1>1 DEF IInv, OneOwner, lockVars

\* An owner that goes on to another place still owns the lock, alone.
LEMMA OwnerGoesOn ==
  ASSUME IInv, NEW r \in Runs, NEW place \in Places, Go(r, place),
         UNCHANGED lockVars, r \in Ticks => OwnsLock(r)
  PROVE  OneOwner'
<1>1. \A t \in Ticks : OwnsLock(t)' => OwnsLock(t) /\ run'[t].job = run[t].job
  BY DEF IInv, LockTypeOK, OwnsLock, Runs, Go, NoRun, Places
<1> QED
  BY <1>1 DEF IInv, OneOwner, lockVars

-----------------------------------------------------------------------------
(* The invariant is inductive.                                              *)

\* The types of the two kinds of update of "run".
LEMMA RunStaysTyped ==
  ASSUME LockTypeOK, NEW r \in Runs
  PROVE  /\ \A v \in RunType : [run EXCEPT ![r] = v] \in [Runs -> RunType]
         /\ run[r] # NoRun => run[r] \in [job : Jobs, at : Places]
         /\ \A place \in Places :
              run[r] # NoRun => [run EXCEPT ![r].at = place] \in [Runs -> RunType]
BY DEF LockTypeOK, RunType

\* A tick or a click begins.
LEMMA StartKeepsInvariant ==
  ASSUME IInv, Start
  PROVE  IInv'
<1>1. CASE \E t \in Ticks : NodeTick(t)
  <2>1. PICK t \in Ticks : NodeTick(t)
    BY <1>1
  <2>2. NodeTickFrom(NodeJobs, running) \in RunType
        /\ NodeTickFrom(NodeJobs, running).at \in {"waiting", "none"}
    BY NextTurnWaits
  <2>3. t \in Runs /\ run' = [run EXCEPT ![t] = NodeTickFrom(NodeJobs, running)]
        /\ UNCHANGED <<lockVars, running, sapRow, crashes>>
    BY <2>1 DEF NodeTick, Runs
  <2>4. LockTypeOK'
    BY <2>2, <2>3, RunStaysTyped DEF IInv, LockTypeOK, RunType, lockVars
  <2>5. OneOwner'
    BY <2>2, <2>3, OwnersUndisturbed
  <2> QED
    BY <2>4, <2>5 DEF IInv
<1>2. CASE \E t \in Ticks : SapTick(t)
  <2>1. PICK t \in Ticks : SapTick(t)
    BY <1>2
  <2>2. Run("sap", "waiting") \in RunType /\ Run("sap", "waiting").at = "waiting"
    BY DEF RunType, Run, Jobs, Places
  <2>3. t \in Runs /\ run' = [run EXCEPT ![t] = Run("sap", "waiting")]
        /\ UNCHANGED <<lockVars, running, sapRow, crashes>>
    BY <2>1 DEF SapTick, Runs
  <2>4. LockTypeOK'
    BY <2>2, <2>3, RunStaysTyped DEF IInv, LockTypeOK, RunType, lockVars
  <2>5. OneOwner'
    BY <2>2, <2>3, OwnersUndisturbed
  <2> QED
    BY <2>4, <2>5 DEF IInv
<1>3. CASE \E c \in Clicks : SapClick(c)
  <2>1. PICK c \in Clicks : SapClick(c)
    BY <1>3
  <2>2. Run("sap", "cleared") \in RunType
    BY DEF RunType, Run, Jobs, Places
  <2>3. c \in Runs /\ c \notin Ticks /\ run' = [run EXCEPT ![c] = Run("sap", "cleared")]
        /\ UNCHANGED <<lockVars, running, sapRow, crashes>>
    BY <2>1, SyncAssumption DEF SapClick, Runs
  <2>4. LockTypeOK'
    BY <2>2, <2>3, RunStaysTyped DEF IInv, LockTypeOK, RunType, lockVars
  <2>5. OneOwner'
    BY <2>2, <2>3, OwnersUndisturbed
  <2> QED
    BY <2>4, <2>5 DEF IInv
<1>4. CASE \E c \in Clicks, job \in NodeJobs : NodeClick(c, job)
  <2>1. PICK c \in Clicks, job \in NodeJobs : NodeClick(c, job)
    BY <1>4
  <2>2. Run(job, "syncing") \in RunType
    BY DEF RunType, Run, Jobs, Places
  <2>3. c \in Runs /\ c \notin Ticks /\ run' = [run EXCEPT ![c] = Run(job, "syncing")]
        /\ UNCHANGED <<lockVars, sapRow, crashes>> /\ running' = running \cup {job}
    BY <2>1, SyncAssumption DEF NodeClick, Runs
  <2>4. LockTypeOK'
    BY <2>2, <2>3, RunStaysTyped DEF IInv, LockTypeOK, RunType, lockVars
  <2>5. OneOwner'
    BY <2>2, <2>3, OwnersUndisturbed
  <2> QED
    BY <2>4, <2>5 DEF IInv
<1> QED
  BY <1>1, <1>2, <1>3, <1>4 DEF Start

\* A tick claims the lock, gives up, checks, or releases.
LEMMA TurnKeepsInvariant ==
  ASSUME IInv, NEW t \in Ticks, TakeTurn(t)
  PROVE  IInv'
<1>0. t \in Runs /\ LockTypeOK
  BY DEF Runs, IInv
<1>1. CASE Claim(t)
  <2>1. \A s \in Ticks : ~OwnsLock(s)
    <3>1. \A s \in Ticks : OwnsLock(s) => run[s].job \in Jobs
      BY <1>0 DEF LockTypeOK, OwnsLock, Runs, NoRun
    <3> QED
      BY <1>1, <3>1, SyncAssumption DEF Claim, Claimable, IInv, OneOwner
  <2>2. run[t] \in [job : Jobs, at : Places]
    BY <1>0, <1>1, RunStaysTyped DEF Claim, IsAt, NoRun
  <2>3. LockTypeOK'
    <3>1. run[t] # NoRun /\ "claimed" \in Places /\ Go(t, "claimed")
      BY <1>1 DEF Claim, IsAt, NoRun, Places
    <3>2. run' \in [Runs -> RunType]
      BY <1>0, <3>1, RunStaysTyped DEF Go
    <3> QED
      BY <1>1, <2>2, <3>2 DEF Claim, IInv, LockTypeOK, RunType
  <2>4. \A s \in Ticks : OwnsLock(s)' => s = t
    BY <1>0, <1>1, <2>1 DEF Claim, Go, OwnsLock, LockTypeOK, Runs
  <2>5. heldBy' = run'[t].job /\ ~lockStale'
    BY <1>0, <1>1, <2>2 DEF Claim, Go, LockTypeOK
  <2> QED
    BY <2>3, <2>4, <2>5 DEF IInv, OneOwner
<1>2. CASE GiveUp(t)
  <2>1. /\ TickAfter(run[t].job, running) \in RunType
        /\ TickAfter(run[t].job, running).at \in {"waiting", "none"}
    BY TurnAfterWaits
  <2>2. run' = [run EXCEPT ![t] = TickAfter(run[t].job, running)]
        /\ UNCHANGED <<lockVars, running, sapRow, crashes>>
    BY <1>2 DEF GiveUp
  <2>3. LockTypeOK'
    BY <1>0, <2>1, <2>2, RunStaysTyped DEF LockTypeOK, RunType, lockVars
  <2>4. OneOwner'
    BY <1>0, <2>1, <2>2, OwnersUndisturbed
  <2> QED
    BY <2>3, <2>4 DEF IInv
<1>3. CASE NodeBegin(t)
  <2>1. OwnsLock(t) /\ run[t] # NoRun /\ Go(t, "syncing") /\ "syncing" \in Places
        /\ UNCHANGED <<lockVars, sapRow, crashes>>
    BY <1>3 DEF NodeBegin, OwnsLock, IsAt, NoRun, Places
  <2>2. run' \in [Runs -> RunType]
    BY <1>0, <2>1, RunStaysTyped DEF Go
  <2>3. LockTypeOK'
    BY <1>3, <2>1, <2>2 DEF NodeBegin, IInv, LockTypeOK, RunType, lockVars
  <2>4. OneOwner'
    BY <1>0, <2>1, OwnerGoesOn
  <2> QED
    BY <2>3, <2>4 DEF IInv
<1>4. CASE SapCheck(t)
  <2>1. PICK place \in Places : Go(t, place)
    BY <1>4 DEF SapCheck, Places
  <2>2. OwnsLock(t) /\ run[t] # NoRun /\ UNCHANGED <<lockVars, running, sapRow, crashes>>
    BY <1>4 DEF SapCheck, OwnsLock, IsAt, NoRun
  <2>3. run' \in [Runs -> RunType]
    BY <1>0, <2>1, <2>2, RunStaysTyped DEF Go
  <2>4. LockTypeOK'
    BY <2>2, <2>3 DEF IInv, LockTypeOK, RunType, lockVars
  <2>5. OneOwner'
    BY <1>0, <2>1, <2>2, OwnerGoesOn
  <2> QED
    BY <2>4, <2>5 DEF IInv
<1>5. CASE Release(t)
  <2>1. /\ TickAfter(run[t].job, running) \in RunType
        /\ TickAfter(run[t].job, running).at \in {"waiting", "none"}
    BY TurnAfterWaits
  <2>2. run' = [run EXCEPT ![t] = TickAfter(run[t].job, running)]
        /\ UNCHANGED <<running, sapRow, crashes>>
    BY <1>5 DEF Release
  <2>3. LockTypeOK'
    <3>1. run' \in [Runs -> RunType]
      BY <1>0, <2>1, <2>2, RunStaysTyped
    <3> QED
      BY <1>0, <1>5, <2>2, <3>1 DEF Release, LockTypeOK, RunType, lockVars
  <2>4. \A s \in Ticks : ~OwnsLock(s)'
    BY <1>0, <1>5, <2>1, <2>2 DEF Release, IsAt, IInv, OneOwner, OwnsLock, LockTypeOK, Runs
  <2> QED
    BY <2>3, <2>4 DEF IInv, OneOwner
<1> QED
  BY <1>1, <1>2, <1>3, <1>4, <1>5 DEF TakeTurn

\* A sync begins to work or ends.
LEMMA SyncKeepsInvariant ==
  ASSUME IInv, NEW r \in Runs, GoOn(r)
  PROVE  IInv'
<1>0. LockTypeOK
  BY DEF IInv
<1>1. CASE SapMark(r)
  <2>1. (r \in Ticks => OwnsLock(r)) /\ run[r] # NoRun /\ Go(r, "syncing")
        /\ "syncing" \in Places /\ UNCHANGED <<lockVars, running, crashes>>
        /\ sapRow' = "running"
    BY <1>1 DEF SapMark, OwnsLock, IsAt, NoRun, Places
  <2>2. run' \in [Runs -> RunType]
    BY <1>0, <2>1, RunStaysTyped DEF Go
  <2>3. LockTypeOK'
    BY <2>1, <2>2 DEF IInv, LockTypeOK, RunType, lockVars
  <2>4. OneOwner'
    BY <2>1, OwnerGoesOn
  <2> QED
    BY <2>3, <2>4 DEF IInv
<1>2. CASE FinishRun(r) /\ r \in Ticks
  <2>1. OwnsLock(r) /\ run[r] # NoRun /\ Go(r, "releasing")
        /\ "releasing" \in Places /\ UNCHANGED <<lockVars, crashes>>
    BY <1>2 DEF FinishRun, OwnsLock, IsAt, NoRun, Places
  <2>2. run' \in [Runs -> RunType]
    BY <1>0, <2>1, RunStaysTyped DEF Go
  <2>3. LockTypeOK'
    BY <1>2, <2>1, <2>2 DEF FinishRun, IInv, LockTypeOK, RunType, lockVars
  <2>4. OneOwner'
    BY <2>1, OwnerGoesOn
  <2> QED
    BY <2>3, <2>4 DEF IInv
<1>3. CASE FinishRun(r) /\ r \notin Ticks
  <2>1. run' = [run EXCEPT ![r] = NoRun] /\ NoRun \in RunType
        /\ UNCHANGED <<lockVars, crashes>>
    BY <1>3 DEF FinishRun, RunType
  <2>2. LockTypeOK'
    <3>1. run' \in [Runs -> RunType]
      BY <1>0, <2>1, RunStaysTyped
    <3> QED
      BY <1>3, <2>1, <3>1 DEF FinishRun, IInv, LockTypeOK, RunType, lockVars
  <2>3. OneOwner'
    BY <1>3, <2>1, OwnersUndisturbed
  <2> QED
    BY <2>2, <2>3 DEF IInv
<1> QED
  BY <1>1, <1>2, <1>3 DEF GoOn

\* The lock goes stale once nobody owns it.
LEMMA AgeingKeepsInvariant ==
  ASSUME IInv, LockAges \/ SapRowAges
  PROVE  IInv'
<1>1. CASE LockAges
  <2>1. \A t \in Ticks : ~OwnsLock(t)'
    BY <1>1 DEF LockAges, OwnsLock
  <2> QED
    BY <1>1, <2>1 DEF LockAges, IInv, LockTypeOK, OneOwner
<1>2. CASE SapRowAges
  BY <1>2 DEF SapRowAges, IInv, LockTypeOK, OneOwner, OwnsLock, lockVars
<1> QED
  BY <1>1, <1>2

\* A crash leaves the lock with a dead owner, and owners of the other process
\* alone.
LEMMA CrashKeepsInvariant ==
  ASSUME IInv, NEW jobs, CrashOf(jobs)
  PROVE  IInv'
<1>1. LockTypeOK'
  BY SyncAssumption DEF CrashOf, IInv, LockTypeOK, lockVars
<1>2. \A t \in Ticks : OwnsLock(t)' => OwnsLock(t) /\ run'[t] = run[t]
  BY DEF CrashOf, OwnsLock, IInv, LockTypeOK, Runs, NoRun
<1>3. OneOwner'
  BY <1>2 DEF CrashOf, IInv, OneOwner, lockVars
<1> QED
  BY <1>1, <1>3 DEF IInv

\* No tick is past its claim in the initial state, and every step keeps the
\* invariant.
THEOREM SyncInvariant == LockSpec => []IInv
<1>1. LockInit => IInv
  <2> SUFFICES ASSUME LockInit PROVE IInv
    OBVIOUS
  <2>1. LockTypeOK
    <3>1. crashes \in 0 .. MaxCrashes
      BY SyncAssumption DEF LockInit
    <3>2. run \in [Runs -> [job : Jobs, at : Places] \cup {NoRun}]
      BY DEF LockInit
    <3> QED
      BY <3>1, <3>2 DEF LockInit, LockTypeOK
  <2>2. \A t \in Ticks : ~OwnsLock(t)
    BY DEF LockInit, OwnsLock, NoRun, Runs
  <2> QED
    BY <2>1, <2>2 DEF IInv, OneOwner
<1>2. IInv /\ [LockNext]_jobVars => IInv'
  <2> SUFFICES ASSUME IInv, [LockNext]_jobVars PROVE IInv'
    OBVIOUS
  <2>1. CASE Start
    BY <2>1, StartKeepsInvariant
  <2>2. CASE \E t \in Ticks : TakeTurn(t)
    BY <2>2, TurnKeepsInvariant
  <2>3. CASE \E r \in Runs : GoOn(r)
    BY <2>3, SyncKeepsInvariant
  <2>4. CASE LockAges \/ SapRowAges
    BY <2>4, AgeingKeepsInvariant
  <2>5. CASE CrashOf(NodeJobs) \/ CrashOf({"sap"})
    BY <2>5, CrashKeepsInvariant
  <2>6. CASE UNCHANGED jobVars
    BY <2>6 DEF jobVars, lockVars, IInv, LockTypeOK, OneOwner, OwnsLock
  <2> QED
    BY <2>1, <2>2, <2>3, <2>4, <2>5, <2>6 DEF LockNext
<1> QED
  BY <1>1, <1>2, PTL DEF LockSpec

\* Type correctness of the lock, the guards and the runs (backgroundSync.ts,
\* sap_sync_service.py).
THEOREM SyncTypeCorrect == LockSpec => []LockTypeOK
<1>1. IInv => LockTypeOK
  BY DEF IInv
<1> QED
  BY <1>1, SyncInvariant, PTL

\* From its claim to its release a tick's lock bears its job's name and is not
\* stale, whatever other ticks, clicks and crashes do (tryAcquireGlobalLock,
\* releaseGlobalLock).
THEOREM OwnersKeepTheLock == LockSpec => []OwnersHoldTheLock
<1>1. IInv => OwnersHoldTheLock
  BY DEF IInv, OneOwner, OwnersHoldTheLock
<1> QED
  BY <1>1, SyncInvariant, PTL

\* The scheduled jobs of Node and Python never sync at once, as long as no
\* sync outlives the stale time of its lock (runScheduledSync,
\* run_scheduled_sync).
THEOREM SchedulersTakeTurns == LockSpec => []ScheduledSyncsTakeTurns
<1>1. IInv => ScheduledSyncsTakeTurns
  BY DEF IInv, OneOwner, ScheduledSyncsTakeTurns, OwnsLock, IsAt
<1> QED
  BY <1>1, SyncInvariant, PTL

-----------------------------------------------------------------------------
(* One synchronisation (SapCache).                                          *)

-----------------------------------------------------------------------------
(* Pages.                                                                   *)

LEMMA OffsetsAreMultiples ==
  ASSUME NEW o \in Offsets
  PROVE  \E i \in Nat : o = PageSize * i
<1>1. PageSize \in Nat /\ PageSize > 0 /\ o \in Nat /\ o % PageSize = 0
  BY SapCacheAssumption DEF Offsets, Postings
<1> DEFINE i == o \div PageSize
<1>2. i \in Nat /\ o = (PageSize * i) + (o % PageSize)  BY <1>1
<1>3. PageSize * i \in Nat  BY <1>1, <1>2
<1>4. o = PageSize * i  BY <1>1, <1>2, <1>3
<1> HIDE DEF i
<1> QED  BY <1>2, <1>4

\* Offsets are multiples of the page size: two of them are a page apart.
LEMMA OffsetsApart ==
  ASSUME NEW o \in Offsets, NEW q \in Offsets, o < q
  PROVE  o + PageSize <= q
<1>1. PageSize \in Nat /\ PageSize > 0 /\ o \in Nat /\ q \in Nat
  BY SapCacheAssumption DEF Offsets, Postings
<1>2. PICK i \in Nat : o = PageSize * i  BY OffsetsAreMultiples
<1>3. PICK j \in Nat : q = PageSize * j  BY OffsetsAreMultiples
<1>4. i + 1 <= j  BY <1>1, <1>2, <1>3
<1>5. PageSize * (i + 1) <= PageSize * j  BY <1>1, <1>4
<1>6. PageSize * (i + 1) = o + PageSize  BY <1>1, <1>2
<1> QED  BY <1>3, <1>5, <1>6

\* The first offset is a page.
LEMMA OffsetsFromOne ==
  ASSUME NEW o \in Offsets
  PROVE  PageSize <= o
<1>1. PageSize \in Nat /\ PageSize > 0 /\ o \in Nat /\ o > 0
  BY SapCacheAssumption DEF Offsets, Postings
<1>2. PICK i \in Nat : o = PageSize * i  BY OffsetsAreMultiples
<1>3. i >= 1  BY <1>1, <1>2
<1> QED  BY <1>1, <1>2, <1>3

\* Every posting behind the first page is in one of the others.
LEMMA EveryPostingHasAPage ==
  ASSUME NEW p \in Postings, PageSize < p
  PROVE  \E o \in Offsets : o < p /\ p <= o + PageSize
<1> DEFINE i == (p - 1) \div PageSize
           o == PageSize * i
<1>1. PageSize \in Nat /\ PageSize > 0 /\ p \in Nat /\ p - 1 \in Nat /\ MaxPostings \in Nat
  BY SapCacheAssumption DEF Postings
<1>2. /\ i \in Nat /\ p - 1 = (PageSize * i) + ((p - 1) % PageSize)
      /\ (p - 1) % PageSize \in 0 .. PageSize - 1
  BY <1>1
<1>3. o \in Nat /\ o <= p - 1 /\ p - 1 < o + PageSize  BY <1>1, <1>2
<1>4. o > 0  BY <1>1, <1>3
<1>5. o % PageSize = 0  BY <1>1, <1>2
<1>6. o \in Postings  BY <1>1, <1>3, <1>4 DEF Postings
<1> QED  BY <1>3, <1>5, <1>6, <1>1 DEF Offsets

\* Offsets, and the first page's, are a page apart.
LEMMA StartsApart ==
  ASSUME NEW o \in Offsets \cup {0}, NEW q \in Offsets \cup {0}, o < q
  PROVE  o + PageSize <= q
<1>1. PageSize \in Nat /\ q \in Nat
  BY SapCacheAssumption DEF Offsets, Postings
<1>2. q \in Offsets
  BY SapCacheAssumption DEF Offsets, Postings
<1>3. CASE o \in Offsets  BY <1>2, <1>3, OffsetsApart
<1>4. CASE o = 0  BY <1>1, <1>2, <1>4, OffsetsFromOne
<1> QED  BY <1>3, <1>4

-----------------------------------------------------------------------------
(* The places of postings in their chunks.                                  *)

LEMMA OfChunkIsFinite ==
  ASSUME ledger \subseteq Postings, NEW c
  PROVE  /\ IsFiniteSet(OfChunk(c)) /\ Cardinality(OfChunk(c)) \in Nat
         /\ Cardinality(OfChunk(c)) <= MaxPostings
<1>1. MaxPostings \in Nat  BY SapCacheAssumption
<1>2. IsFiniteSet(1 .. MaxPostings) /\ Cardinality(1 .. MaxPostings) = MaxPostings
  BY <1>1, FS_Interval
<1>3. OfChunk(c) \in SUBSET (1 .. MaxPostings)  BY DEF OfChunk, Postings
<1>4. /\ IsFiniteSet(OfChunk(c))
      /\ Cardinality(OfChunk(c)) <= Cardinality(1 .. MaxPostings)
  BY <1>2, <1>3, FS_Subset
<1> QED  BY <1>2, <1>4, FS_CardinalityType

LEMMA PlaceInChunk ==
  ASSUME ledger \subseteq Postings, NEW c, NEW q \in OfChunk(c)
  PROVE  /\ Cardinality(UpTo(q)) \in Nat /\ 1 <= Cardinality(UpTo(q))
         /\ Cardinality(UpTo(q)) <= Cardinality(OfChunk(c))
<1>1. q \in Nat /\ ChunkOf[q] = c  BY DEF OfChunk, Postings
<1>2. UpTo(q) \in SUBSET OfChunk(c) /\ q \in UpTo(q)  BY <1>1 DEF UpTo, OfChunk
<1>3. IsFiniteSet(OfChunk(c))  BY OfChunkIsFinite
<1>4. /\ IsFiniteSet(UpTo(q))
      /\ Cardinality(UpTo(q)) <= Cardinality(OfChunk(c))
  BY <1>2, <1>3, FS_Subset
<1>5. Cardinality(UpTo(q)) \in Nat  BY <1>4, FS_CardinalityType
<1>6. Cardinality(UpTo(q)) # 0  BY <1>2, <1>4, FS_EmptySet
<1> QED  BY <1>4, <1>5, <1>6

\* Two requests have no posting in common.
LEMMA PagesApart ==
  ASSUME ledger \subseteq Postings, NEW c, NEW d,
         NEW o \in Offsets \cup {0}, NEW q \in Offsets \cup {0}, c # d \/ o # q
  PROVE  Page(c, o) \cap Page(d, q) = {}
<1> SUFFICES ASSUME NEW p \in Page(c, o), p \in Page(d, q) PROVE FALSE
  OBVIOUS
<1> DEFINE k == Cardinality(UpTo(p))
<1>1. /\ p \in OfChunk(c) /\ p \in OfChunk(d)
      /\ o < k /\ k <= o + PageSize /\ q < k /\ k <= q + PageSize
  BY DEF Page
<1>2. o # q  BY <1>1 DEF OfChunk
<1>3. k \in Nat /\ o \in Nat /\ q \in Nat /\ PageSize \in Nat
  BY <1>1, PlaceInChunk, SapCacheAssumption DEF Offsets, Postings
<1> HIDE DEF k
<1>4. CASE o < q
  <2>1. o + PageSize <= q  BY <1>4, StartsApart
  <2> QED  BY <1>1, <1>3, <2>1
<1>5. CASE q < o
  <2>1. q + PageSize <= o  BY <1>5, StartsApart
  <2> QED  BY <1>1, <1>3, <2>1
<1> QED  BY <1>2, <1>3, <1>4, <1>5

\* Each posting of a chunk is on the first page or on one of the others.
LEMMA EveryPostingIsPaged ==
  ASSUME ledger \subseteq Postings, NEW c, NEW q \in OfChunk(c), q \notin Page(c, 0)
  PROVE  \E o \in Pages(Cardinality(OfChunk(c))) : q \in Page(c, o)
<1> DEFINE k == Cardinality(UpTo(q))
           n == Cardinality(OfChunk(c))
<1>1. /\ k \in Nat /\ 1 <= k /\ k <= n /\ n \in Nat /\ n <= MaxPostings
      /\ PageSize \in Nat /\ MaxPostings \in Nat
  BY PlaceInChunk, OfChunkIsFinite, SapCacheAssumption
<1>2. ~(0 < k /\ k <= 0 + PageSize)  BY DEF Page
<1>3. \A o : o < k /\ k <= o + PageSize => q \in Page(c, o)  BY DEF Page
<1> HIDE DEF k, n
<1>4. k \in Postings /\ PageSize < k  BY <1>1, <1>2 DEF Postings
<1>5. PICK o \in Offsets : o < k /\ k <= o + PageSize  BY <1>4, EveryPostingHasAPage
<1>6. o \in Pages(n)  BY <1>1, <1>5 DEF Pages, Offsets, Postings
<1> QED  BY <1>3, <1>5, <1>6 DEF n

\* A posting that comes last in its chunk moves no other.
LEMMA LastMovesNone ==
  ASSUME ledger \subseteq Postings, NEW p \in Postings \ ledger, ledger' = ledger \cup {p},
         NEW c, NEW o, c = ChunkOf[p] => ~ComesBeforeOthers(p)
  PROVE  Page(c, o) \subseteq Page(c, o)' /\ Page(c, o)' \subseteq Page(c, o) \cup {p}
<1>1. ASSUME NEW q \in OfChunk(c) PROVE UpTo(q)' = UpTo(q)
  <2>1. q \in Nat /\ p \in Nat /\ ChunkOf[q] = c /\ q \in ledger /\ p # q
    BY DEF OfChunk, Postings
  <2>2. ChunkOf[p] = c => q < p
    BY <2>1 DEF ComesBeforeOthers
  <2>3. ~(ChunkOf[p] = ChunkOf[q] /\ p <= q)  BY <2>1, <2>2
  <2> QED  BY <2>3 DEF UpTo, OfChunk
<1>2. OfChunk(c) \subseteq OfChunk(c)' /\ OfChunk(c)' \subseteq OfChunk(c) \cup {p}
  BY DEF OfChunk
<1> QED  BY <1>1, <1>2 DEF Page

-----------------------------------------------------------------------------
(* The invariant.                                                           *)

\* A synchronisation has its fields; their types follow where they are needed.
Record(x) ==
  x \in [at : {x.at}, by : {x.by}, on : {x.on}, chunk : {x.chunk}, new : {x.new},
         counted : {x.counted}, pages : {x.pages}, seen : {x.seen}, doomed : {x.doomed}]
PerTable(f) == f = [t \in Tables |-> f[t]]
Shaped(x) ==
  /\ Record(x) /\ x.at \in Steps /\ x.on \in Tables /\ x.chunk \in 1 .. Chunks
  /\ PerTable(x.new) /\ PerTable(x.counted) /\ PerTable(x.doomed)

Shape ==
  /\ ledger \subseteq Postings
  /\ overlapped \in BOOLEAN /\ shifted \in BOOLEAN
  /\ table = [t \in Tables |-> table[t]]
  /\ sync = [s \in Syncs |-> sync[s]]
  /\ \A s \in Syncs : sync[s] # Idle => Shaped(sync[s])

\* Postings that SAP has, each once, these among them.
Holds(rows, least) == \E ps \in SUBSET ledger : least \subseteq ps /\ rows = Once(ps)

\* What is committed: of one synchronisation, ...
StoredOnce ==
  /\ \A t \in Tables : \A b, c \in table[t] : b = c
  /\ \A t, u \in Reports : \A b \in table[t], c \in table[u] : b.by = c.by

\* ... and nothing doubled, missing or made up.
StoredIsWhole ==
  /\ \A t \in Reports : \A b \in table[t] : Holds(b.rows, b.counted)
  /\ \A b \in table["actuals"] :
       /\ Holds(b.rows, {})
       /\ \A p \in Postings : b.rows[p] > 0 => \E f \in table["fbl3n"] : f.rows[p] > 0

\* A report whose first chunks have been begun counted what its table has of
\* them.
Begun(s, t, n) ==
  \A b \in table[t] : \A p \in Postings :
    b.rows[p] > 0 /\ ChunkOf[p] <= n => p \in sync[s].counted[t]

\* What was read of these chunks is new, each posting once, and what is still
\* to come is on the remaining pages and on no others.
PageOf(request) == Page(request[1], request[2])

OfChunksTo(n, ps) == \A p \in ps : ChunkOf[p] <= n
OnNoPage(ps, pages) == \A request \in pages : ps \cap PageOf(request) = {}
ReadOrToCome(ps, pages, counted) ==
  \A p \in counted : p \in ps \/ \E request \in pages : p \in PageOf(request)

PagesRead(s, t, n) ==
  /\ sync[s].pages \subseteq (1 .. n) \X Offsets
  /\ \E ps \in SUBSET ledger :
       /\ sync[s].new[t] = Once(ps) /\ OfChunksTo(n, ps)
       /\ OnNoPage(ps, sync[s].pages)
       /\ ReadOrToCome(ps, sync[s].pages, sync[s].counted[t])

Reading(s, t, n) == Begun(s, t, n) /\ PagesRead(s, t, n)

\* A report is read to its end.
Full(s, t) == Begun(s, t, Chunks) /\ Holds(sync[s].new[t], sync[s].counted[t])

\* The actuals to come are those of the copy, and leave out none of the old.
Derived(s) ==
  LET rows == sync[s].new["actuals"]
  IN  /\ Holds(rows, {})
      /\ \A p \in Postings : rows[p] > 0 => \E f \in table["fbl3n"] : f.rows[p] > 0
      /\ \A b \in table["actuals"] : \A p \in Postings : b.rows[p] > 0 => rows[p] > 0

\* A synchronisation that nobody disturbs, step by step: what it has locked,
\* ...
Fresh(s, t) == sync[s].new[t] = NoRows /\ sync[s].counted[t] = {}
Doomed(s, t) == sync[s].doomed[t] = table[t]

Course(s) ==
  LET at == sync[s].at
      on == sync[s].on
  IN  /\ at \notin {"first", "pages"} \/ on = "actuals" => sync[s].pages = {}
      /\ at = "cleared" => on = "fbl3n" /\ sync[s].chunk = 1 /\ Fresh(s, "fbl3n")
      /\ at = "first" => on \in Reports
      /\ at = "commit" => on # "fbl3n"
      /\ at \in {"cleared", "first", "pages", "locking"} /\ on = "fbl3n" => Fresh(s, "kssbV2")
      /\ at \in {"first", "pages", "locking"} /\ on = "kssbV2" => Doomed(s, "fbl3n")
      /\ at = "locking" => sync[s].seen = table[on]
      /\ at = "commit" => Doomed(s, on) /\ (on = "kssbV2" => Doomed(s, "fbl3n"))

\* ... and what it has read, unless a posting has shifted the pages.
Contents(s) ==
  LET at == sync[s].at
      on == sync[s].on
  IN  /\ at = "first" => Reading(s, on, sync[s].chunk - 1)
      /\ at = "pages" /\ on \in Reports => Reading(s, on, Chunks)
      /\ at \in {"locking", "commit"} /\ on \in Reports => Full(s, on)
      /\ at \in {"first", "pages", "locking", "commit"} /\ on = "kssbV2" => Full(s, "fbl3n")
      /\ at \in {"pages", "locking", "commit"} /\ on = "actuals" => Derived(s)

Undisturbed ==
  /\ StoredOnce
  /\ \A r, s \in Syncs : Working(r) /\ Working(s) => r = s
  /\ \A s \in Syncs : sync[s] # Idle => Course(s)

Unshifted == StoredIsWhole /\ \A s \in Syncs : sync[s] # Idle => Contents(s)

CopyInv ==
  /\ Shape
  /\ ~overlapped => Undisturbed
  /\ ~overlapped /\ ~shifted => Unshifted

-----------------------------------------------------------------------------
(* What has been read.                                                      *)

LEMMA OnceIsRows ==
  ASSUME NEW ps
  PROVE  /\ Once(ps) = [p \in Postings |-> Once(ps)[p]]
         /\ \A p \in Postings : Once(ps)[p] = IF p \in ps THEN 1 ELSE 0
  BY DEF Once

\* Pages with no posting in common add up.
LEMMA PagesAddUp ==
  ASSUME NEW a, NEW b, a \cap b = {}
  PROVE  Plus(Once(a), Once(b)) = Once(a \cup b)
<1>1. \A p \in Postings : Once(a)[p] + Once(b)[p] = Once(a \cup b)[p]
  BY OnceIsRows
<1>2. Plus(Once(a), Once(b)) = [p \in Postings |-> Once(a \cup b)[p]]
  BY <1>1 DEF Plus
<1> QED  BY <1>2, OnceIsRows

\* A table with nothing but such rows has no posting SAP has not.
LEMMA HeldIsPosted ==
  ASSUME NEW rows, NEW least, Holds(rows, least), NEW p \in Postings, rows[p] > 0
  PROVE  p \in ledger
<1>1. PICK ps \in SUBSET ledger : rows = Once(ps)  BY DEF Holds
<1>2. p \in ps  BY <1>1, OnceIsRows
<1> QED  BY <1>2

\* The first page of the next chunk, with all the others of it to come.
LEMMA FirstPageIsRead ==
  ASSUME ledger \subseteq Postings, NEW c \in 1 .. Chunks,
         NEW ps \in SUBSET ledger, OfChunksTo(c - 1, ps),
         NEW pages, pages \subseteq (1 .. (c - 1)) \X Offsets, OnNoPage(ps, pages),
         NEW counted, ReadOrToCome(ps, pages, counted)
  PROVE  LET ms == ps \cup Page(c, 0)
             more == pages \cup ({c} \X Pages(Cardinality(OfChunk(c))))
         IN  /\ ps \cap Page(c, 0) = {} /\ ms \in SUBSET ledger /\ OfChunksTo(c, ms)
             /\ more \subseteq (1 .. c) \X Offsets /\ OnNoPage(ms, more)
             /\ ReadOrToCome(ms, more, counted \cup OfChunk(c))
<1> DEFINE ms == ps \cup Page(c, 0)
           others == Pages(Cardinality(OfChunk(c)))
           more == pages \cup ({c} \X others)
<1>1. /\ c \in Nat /\ Chunks \in Nat /\ c >= 1
      /\ \A p \in ledger : ChunkOf[p] \in Nat
  BY SapCacheAssumption DEF Postings
<1>2. /\ \A p \in Page(c, 0) : p \in ledger /\ ChunkOf[p] = c
      /\ \A o : \A p \in Page(c, o) : ChunkOf[p] = c
  BY DEF Page, OfChunk
<1>3. ps \cap Page(c, 0) = {}  BY <1>1, <1>2 DEF OfChunksTo
<1>4. others \subseteq Offsets  BY DEF Pages
<1> HIDE DEF others
<1>5. more \subseteq (1 .. c) \X Offsets
  <2>1. pages \subseteq (1 .. c) \X Offsets
    <3>1. 1 .. (c - 1) \subseteq 1 .. c  BY <1>1
    <3> QED  BY <3>1
  <2>2. {c} \X others \subseteq (1 .. c) \X Offsets  BY <1>1, <1>4
  <2> QED  BY <2>1, <2>2
<1>6. \A p \in ms : ChunkOf[p] <= c
  <2>1. ASSUME NEW p \in ps PROVE ChunkOf[p] <= c
    BY <1>1, <2>1 DEF OfChunksTo
  <2> QED  BY <1>1, <1>2, <2>1
<1>7. ASSUME NEW request \in more PROVE ms \cap PageOf(request) = {}
  <2>1. CASE request \in pages
    <3>1. PICK d \in 1 .. (c - 1), o \in Offsets : request = <<d, o>>  BY <2>1
    <3>2. d # c /\ PageOf(request) = Page(d, o)  BY <1>1, <3>1 DEF PageOf
    <3>3. Page(c, 0) \cap Page(d, o) = {}  BY <3>2, PagesApart
    <3> QED  BY <2>1, <3>2, <3>3 DEF OnNoPage
  <2>2. CASE request \in {c} \X others
    <3>1. PICK o \in others : request = <<c, o>>  BY <2>2
    <3>2. o \in Offsets /\ PageOf(request) = Page(c, o)  BY <1>4, <3>1 DEF PageOf
    <3>3. o # 0  BY <3>2, SapCacheAssumption DEF Offsets, Postings
    <3>4. Page(c, 0) \cap Page(c, o) = {}  BY <3>2, <3>3, PagesApart
    <3>5. ps \cap Page(c, o) = {}  BY <1>1, <1>2 DEF OfChunksTo
    <3> QED  BY <3>2, <3>4, <3>5
  <2> QED  BY <2>1, <2>2
<1>8. ASSUME NEW p \in counted \cup OfChunk(c), p \notin ms
      PROVE  \E request \in more : p \in PageOf(request)
  <2>1. CASE p \in counted  BY <1>8, <2>1 DEF ReadOrToCome
  <2>2. CASE p \in OfChunk(c)
    <3>1. PICK o \in others : p \in Page(c, o)
      BY <1>8, <2>2, EveryPostingIsPaged DEF others
    <3>2. <<c, o>> \in more /\ p \in PageOf(<<c, o>>)  BY <3>1 DEF PageOf
    <3> QED  BY <3>2
  <2> QED  BY <1>8, <2>1, <2>2
<1>9. ms \in SUBSET ledger  BY <1>2
<1> QED
  BY <1>3, <1>5, <1>6, <1>7, <1>8, <1>9 DEF others, OfChunksTo, OnNoPage, ReadOrToCome

\* Another page: disjoint from what was read and from what is still to come.
LEMMA NextPageIsRead ==
  ASSUME NEW n, NEW pages, pages \subseteq (1 .. n) \X Offsets, ledger \subseteq Postings,
         NEW ps \in SUBSET ledger, OnNoPage(ps, pages), NEW now \in pages,
         NEW counted, ReadOrToCome(ps, pages, counted)
  PROVE  LET ms == ps \cup PageOf(now)
         IN  /\ ps \cap PageOf(now) = {} /\ ms \in SUBSET ledger
             /\ OnNoPage(ms, pages \ {now}) /\ ReadOrToCome(ms, pages \ {now}, counted)
<1>1. PageOf(now) \subseteq ledger  BY DEF PageOf, Page, OfChunk
<1>2. ASSUME NEW request \in pages \ {now} PROVE PageOf(now) \cap PageOf(request) = {}
  <2>1. PICK c \in 1 .. n, o \in Offsets : now = <<c, o>>  OBVIOUS
  <2>2. PICK d \in 1 .. n, q \in Offsets : request = <<d, q>>  OBVIOUS
  <2>3. c # d \/ o # q  BY <2>1, <2>2
  <2>4. Page(c, o) \cap Page(d, q) = {}  BY <2>3, PagesApart
  <2> QED  BY <2>1, <2>2, <2>4 DEF PageOf
<1>3. ReadOrToCome(ps \cup PageOf(now), pages \ {now}, counted)  BY DEF ReadOrToCome
<1> QED  BY <1>1, <1>2, <1>3 DEF OnNoPage

\* A table of one synchronisation holds the rows it inserted.
LEMMA TotalOfNone ==
  ASSUME NEW t, table[t] = {}
  PROVE  Total(t) = NoRows
  BY DEF Total, FoldSet, MapThenFoldSet
LEMMA TotalOfOne ==
  ASSUME NEW t, NEW b, table[t] = {b}
  PROVE  Total(t) = Plus(b.rows, NoRows)
<1> DEFINE pick(u) == CHOOSE x \in u : TRUE
           Sums(f) == f = [u \in SUBSET {b} |->
             IF u = {} THEN NoRows ELSE Plus(pick(u).rows, f[u \ {pick(u)}])]
           sums == CHOOSE f : Sums(f)
           known == [u \in SUBSET {b} |-> IF u = {} THEN NoRows ELSE Plus(b.rows, NoRows)]
<1>1. Total(t) = sums[{b}]  BY DEF Total, FoldSet, MapThenFoldSet
<1>2. pick({b}) = b  OBVIOUS
<1>3. ASSUME NEW u \in SUBSET {b}
      PROVE known[u] = IF u = {} THEN NoRows ELSE Plus(pick(u).rows, known[u \ {pick(u)}])
  <2>1. CASE u = {}  BY <2>1
  <2>2. CASE u # {}
    <3>1. u = {b} /\ u \ {b} = {}  BY <2>2
    <3>2. known[u \ {pick(u)}] = NoRows  BY <1>2, <3>1
    <3> QED  BY <1>2, <2>2, <3>1, <3>2
  <2> QED  BY <2>1, <2>2
<1>4. Sums(known)
  <2> HIDE DEF pick
  <2> QED  BY <1>3
<1>5. Sums(sums)  BY <1>4
<1> HIDE DEF sums, pick
<1>6. sums[{}] = NoRows  BY <1>5
<1>7. sums[{b}] = Plus(b.rows, sums[{b} \ {b}])  BY <1>2, <1>5
<1>8. {b} \ {b} = {}  OBVIOUS
<1> QED  BY <1>1, <1>6, <1>7, <1>8

\* What readers see of a table that has been left alone.
LEMMA TotalOfTable ==
  ASSUME Shape, StoredOnce, StoredIsWhole, NEW t \in Tables, NEW p \in Postings
  PROVE  Total(t)[p] > 0 <=> \E b \in table[t] : b.rows[p] > 0
<1>1. CASE table[t] = {}
  <2>1. Total(t)[p] = 0  BY <1>1, TotalOfNone DEF NoRows
  <2> QED  BY <1>1, <2>1
<1>2. CASE table[t] # {}
  <2>1. PICK b \in table[t] : TRUE  BY <1>2
  <2>2. table[t] = {b}  BY <2>1 DEF StoredOnce
  <2>3. PICK ps \in SUBSET ledger : b.rows = Once(ps)
    <3>1. CASE t \in Reports  BY <2>1, <3>1 DEF StoredIsWhole, Holds
    <3>2. CASE t = "actuals"  BY <2>1, <3>2 DEF StoredIsWhole, Holds
    <3> QED  BY <3>1, <3>2 DEF Tables
  <2>4. b.rows[p] \in Nat  BY <2>3, OnceIsRows
  <2>5. Total(t) = Plus(b.rows, NoRows)  BY <2>2, TotalOfOne
  <2>6. Plus(b.rows, NoRows)[p] = b.rows[p] + 0  BY DEF Plus, NoRows
  <2>7. Total(t)[p] = b.rows[p]  BY <2>4, <2>5, <2>6
  <2> QED  BY <2>2, <2>4, <2>7
<1> QED  BY <1>1, <1>2

LEMMA TotalHolds ==
  ASSUME Shape, StoredOnce, StoredIsWhole
  PROVE  Holds(Total("fbl3n"), {})
<1>1. CASE table["fbl3n"] = {}
  <2>1. NoRows = Once({})  BY DEF NoRows, Once
  <2> QED  BY <1>1, <2>1, TotalOfNone DEF Holds
<1>2. CASE table["fbl3n"] # {}
  <2>1. PICK b \in table["fbl3n"] : TRUE  BY <1>2
  <2>2. table["fbl3n"] = {b}  BY <2>1 DEF StoredOnce, Tables, Reports
  <2>3. PICK ps \in SUBSET ledger : b.rows = Once(ps)
    BY <2>1 DEF StoredIsWhole, Holds, Reports
  <2>4. Plus(b.rows, NoRows) = Once(ps)
    BY <2>3, OnceIsRows DEF Plus, NoRows, Once
  <2> QED  BY <2>2, <2>4, TotalOfOne DEF Holds
<1> QED  BY <1>1, <1>2

-----------------------------------------------------------------------------
(* Steps: the fields.                                                       *)

LEMMA SyncsAfter ==
  ASSUME Shape, NEW s \in Syncs, NEW y, sync' = [sync EXCEPT ![s] = y]
  PROVE  /\ sync'[s] = y
         /\ \A r \in Syncs \ {s} : sync'[r] = sync[r]
         /\ sync' = [r \in Syncs |-> sync'[r]]
  BY DEF Shape

\* What is left of Shape when one synchronisation moves.
LEMMA ShapeAfter ==
  ASSUME Shape, NEW s \in Syncs, NEW y, sync' = [sync EXCEPT ![s] = y],
         y # Idle => Shaped(y), ledger' = ledger, overlapped' \in BOOLEAN,
         shifted' \in BOOLEAN, table' = table
  PROVE  Shape'
  BY SyncsAfter DEF Shape

LEMMA CheckFields ==
  ASSUME Shape, NEW s \in Syncs, Check(s)
  PROVE  /\ Shape'
         /\ \A r \in Syncs \ {s} : sync'[r] = sync[r]
         /\ sync'[s].at = "cleared" /\ sync'[s].on = "fbl3n" /\ sync'[s].pages = {}
         /\ sync'[s].chunk = 1
         /\ \A t \in Tables : sync'[s].new[t] = NoRows /\ sync'[s].counted[t] = {}
         /\ UNCHANGED <<ledger, table, overlapped, shifted>>
<1> DEFINE y == [at |-> "cleared", by |-> 0, on |-> "fbl3n", chunk |-> 1,
        new |-> [t \in Tables |-> NoRows], counted |-> [t \in Tables |-> {}],
        pages |-> {}, seen |-> {}, doomed |-> [t \in Tables |-> {}]]
<1>1. sync' = [sync EXCEPT ![s] = y] /\ UNCHANGED <<ledger, table, overlapped, shifted>>
  BY DEF Check, database, history
<1>2. Shaped(y)
  BY SapCacheAssumption DEF Shaped, Record, PerTable, Steps, Tables, Reports
<1> QED  BY <1>1, <1>2, ShapeAfter, SyncsAfter DEF Shape

LEMMA MarkFields ==
  ASSUME Shape, NEW s \in Syncs, Mark(s)
  PROVE  LET x == sync[s]
             y == sync'[s]
         IN  /\ x # Idle /\ Shaped(x) /\ Shaped(y)
             /\ y.at = "first" /\ y.on = x.on
             /\ y.by = Min(Versions \ UsedVersions)
             /\ y.chunk = x.chunk
             /\ y.new = x.new
             /\ y.counted = x.counted
             /\ y.pages = x.pages
             /\ y.seen = x.seen
             /\ y.doomed = x.doomed
             /\ sync' = [sync EXCEPT ![s] = y] /\ (\A r \in Syncs \ {s} : sync'[r] = sync[r])
             /\ UNCHANGED <<ledger, table, shifted>>
<1> DEFINE x == sync[s]
           y == [x EXCEPT !.at = "first", !.by = Min(Versions \ UsedVersions)]
<1>1. x # Idle /\ Shaped(x)  BY DEF Mark, At, Shape
<1>2. sync' = [sync EXCEPT ![s] = y]  BY DEF Mark
<1>3. UNCHANGED <<ledger, table, shifted>>  BY DEF Mark, database
<1>4. sync'[s] = y /\ (\A r \in Syncs \ {s} : sync'[r] = sync[r])  BY <1>2, SyncsAfter
<1> HIDE DEF x
<1>5. Record(y)  BY <1>1 DEF Shaped, Record
<1>6. /\ y.at = "first" /\ y.on = x.on
      /\ y.by = Min(Versions \ UsedVersions)
      /\ y.chunk = x.chunk
      /\ y.new = x.new
      /\ y.counted = x.counted
      /\ y.pages = x.pages
      /\ y.seen = x.seen
      /\ y.doomed = x.doomed
  BY <1>1 DEF Shaped, Record
<1> HIDE DEF y
<1>7. y.at \in Steps /\ y.on \in Tables /\ y.chunk \in 1 .. Chunks
  BY <1>1, <1>6, SapCacheAssumption DEF Shaped, Steps, Tables, Reports
<1>8. PerTable(y.new)  BY <1>1, <1>6 DEF Shaped, PerTable
<1>9. PerTable(y.counted)  BY <1>1, <1>6 DEF Shaped, PerTable
<1>10. PerTable(y.doomed)  BY <1>1, <1>6 DEF Shaped, PerTable
<1>11. Shaped(y)  BY <1>5, <1>7, <1>8, <1>9, <1>10 DEF Shaped
<1> QED  BY <1>1, <1>2, <1>3, <1>4, <1>6, <1>11 DEF x

LEMMA FirstPageFields ==
  ASSUME Shape, NEW s \in Syncs, FirstPage(s)
  PROVE  LET x == sync[s]
             y == sync'[s]
         IN  /\ x # Idle /\ Shaped(x) /\ Shaped(y)
             /\ y.at = (IF x.chunk = Chunks THEN "pages" ELSE "first") /\ y.on = x.on
             /\ y.by = x.by
             /\ y.chunk = (IF x.chunk = Chunks THEN x.chunk ELSE x.chunk + 1)
             /\ y.new = [x.new EXCEPT ![x.on] = Plus(x.new[x.on], Once(Page(x.chunk, 0)))]
             /\ y.counted = [x.counted EXCEPT ![x.on] = x.counted[x.on] \cup OfChunk(x.chunk)]
             /\ y.pages = x.pages \cup ({x.chunk} \X Pages(Cardinality(OfChunk(x.chunk))))
             /\ y.seen = x.seen
             /\ y.doomed = x.doomed
             /\ sync' = [sync EXCEPT ![s] = y] /\ (\A r \in Syncs \ {s} : sync'[r] = sync[r])
             /\ UNCHANGED <<ledger, table, overlapped, shifted>>
<1> DEFINE x == sync[s]
           c == x.chunk
           y == [x EXCEPT
             !.at = IF c = Chunks THEN "pages" ELSE "first",
             !.chunk = IF c = Chunks THEN c ELSE c + 1,
             !.new[x.on] = Plus(x.new[x.on], Once(Page(c, 0))),
             !.pages = x.pages \cup ({c} \X Pages(Cardinality(OfChunk(c)))),
             !.counted[x.on] = x.counted[x.on] \cup OfChunk(c)]
<1>1. x # Idle /\ Shaped(x)  BY DEF FirstPage, At, Shape
<1>2. sync' = [sync EXCEPT ![s] = y]  BY ZenonT(60) DEF FirstPage
<1>3. UNCHANGED <<ledger, table, overlapped, shifted>>  BY DEF FirstPage, database, rest, history
<1>4. sync'[s] = y /\ (\A r \in Syncs \ {s} : sync'[r] = sync[r])  BY <1>2, SyncsAfter
<1> HIDE DEF x
<1>5. Record(y)  BY <1>1 DEF Shaped, Record
<1>6. /\ y.at = (IF x.chunk = Chunks THEN "pages" ELSE "first") /\ y.on = x.on
      /\ y.by = x.by
      /\ y.chunk = (IF x.chunk = Chunks THEN x.chunk ELSE x.chunk + 1)
      /\ y.new = [x.new EXCEPT ![x.on] = Plus(x.new[x.on], Once(Page(x.chunk, 0)))]
      /\ y.counted = [x.counted EXCEPT ![x.on] = x.counted[x.on] \cup OfChunk(x.chunk)]
      /\ y.pages = x.pages \cup ({x.chunk} \X Pages(Cardinality(OfChunk(x.chunk))))
      /\ y.seen = x.seen
      /\ y.doomed = x.doomed
  BY <1>1 DEF Shaped, Record
<1> HIDE DEF y
<1>7. y.at \in Steps /\ y.on \in Tables /\ y.chunk \in 1 .. Chunks
  BY <1>1, <1>6, SapCacheAssumption DEF Shaped, Steps, Tables, Reports
<1>8. PerTable(y.new)  BY <1>1, <1>6 DEF Shaped, PerTable
<1>9. PerTable(y.counted)  BY <1>1, <1>6 DEF Shaped, PerTable
<1>10. PerTable(y.doomed)  BY <1>1, <1>6 DEF Shaped, PerTable
<1>11. Shaped(y)  BY <1>5, <1>7, <1>8, <1>9, <1>10 DEF Shaped
<1> QED  BY <1>1, <1>2, <1>3, <1>4, <1>6, <1>11 DEF x

LEMMA NextPageFields ==
  ASSUME Shape, NEW s \in Syncs, NEW request, NextPage(s, request)
  PROVE  LET x == sync[s]
             y == sync'[s]
         IN  /\ x # Idle /\ Shaped(x) /\ Shaped(y)
             /\ y.at = x.at /\ y.on = x.on
             /\ y.by = x.by
             /\ y.chunk = x.chunk
             /\ y.new =
                  [x.new EXCEPT ![x.on] = Plus(x.new[x.on], Once(Page(request[1], request[2])))]
             /\ y.counted = x.counted
             /\ y.pages = x.pages \ {request}
             /\ y.seen = x.seen
             /\ y.doomed = x.doomed
             /\ sync' = [sync EXCEPT ![s] = y] /\ (\A r \in Syncs \ {s} : sync'[r] = sync[r])
             /\ UNCHANGED <<ledger, table, overlapped, shifted>>
<1> DEFINE x == sync[s]
           y == [x EXCEPT !.new[x.on] = Plus(@, Once(Page(request[1], request[2]))),
                     !.pages = @ \ {request}]
<1>1. x # Idle /\ Shaped(x)  BY DEF NextPage, At, Shape
<1>2. sync' = [sync EXCEPT ![s] = y]  BY DEF NextPage
<1>3. UNCHANGED <<ledger, table, overlapped, shifted>>  BY DEF NextPage, database, rest, history
<1>4. sync'[s] = y /\ (\A r \in Syncs \ {s} : sync'[r] = sync[r])  BY <1>2, SyncsAfter
<1> HIDE DEF x
<1>5. Record(y)  BY <1>1 DEF Shaped, Record
<1>6. /\ y.at = x.at /\ y.on = x.on
      /\ y.by = x.by
      /\ y.chunk = x.chunk
      /\ y.new =
                  [x.new EXCEPT ![x.on] = Plus(x.new[x.on], Once(Page(request[1], request[2])))]
      /\ y.counted = x.counted
      /\ y.pages = x.pages \ {request}
      /\ y.seen = x.seen
      /\ y.doomed = x.doomed
  BY <1>1 DEF Shaped, Record
<1> HIDE DEF y
<1>7. y.at \in Steps /\ y.on \in Tables /\ y.chunk \in 1 .. Chunks
  BY <1>1, <1>6, SapCacheAssumption DEF Shaped, Steps, Tables, Reports
<1>8. PerTable(y.new)  BY <1>1, <1>6 DEF Shaped, PerTable
<1>9. PerTable(y.counted)  BY <1>1, <1>6 DEF Shaped, PerTable
<1>10. PerTable(y.doomed)  BY <1>1, <1>6 DEF Shaped, PerTable
<1>11. Shaped(y)  BY <1>5, <1>7, <1>8, <1>9, <1>10 DEF Shaped
<1> QED  BY <1>1, <1>2, <1>3, <1>4, <1>6, <1>11 DEF x

LEMMA DeleteFields ==
  ASSUME Shape, NEW s \in Syncs, Delete(s)
  PROVE  LET x == sync[s]
             y == sync'[s]
         IN  /\ x # Idle /\ Shaped(x) /\ Shaped(y)
             /\ y.at = "locking" /\ y.on = x.on
             /\ y.by = x.by
             /\ y.chunk = x.chunk
             /\ y.new = x.new
             /\ y.counted = x.counted
             /\ y.pages = x.pages
             /\ y.seen = table[x.on]
             /\ y.doomed = x.doomed
             /\ sync' = [sync EXCEPT ![s] = y] /\ (\A r \in Syncs \ {s} : sync'[r] = sync[r])
             /\ UNCHANGED <<ledger, table, overlapped, shifted>>
<1> DEFINE x == sync[s]
           y == [x EXCEPT !.at = "locking", !.seen = table[x.on]]
<1>1. x # Idle /\ Shaped(x)  BY DEF Delete, At, Shape
<1>2. sync' = [sync EXCEPT ![s] = y]  BY DEF Delete
<1>3. UNCHANGED <<ledger, table, overlapped, shifted>>  BY DEF Delete, database, rest, history
<1>4. sync'[s] = y /\ (\A r \in Syncs \ {s} : sync'[r] = sync[r])  BY <1>2, SyncsAfter
<1> HIDE DEF x
<1>5. Record(y)  BY <1>1 DEF Shaped, Record
<1>6. /\ y.at = "locking" /\ y.on = x.on
      /\ y.by = x.by
      /\ y.chunk = x.chunk
      /\ y.new = x.new
      /\ y.counted = x.counted
      /\ y.pages = x.pages
      /\ y.seen = table[x.on]
      /\ y.doomed = x.doomed
  BY <1>1 DEF Shaped, Record
<1> HIDE DEF y
<1>7. y.at \in Steps /\ y.on \in Tables /\ y.chunk \in 1 .. Chunks
  BY <1>1, <1>6, SapCacheAssumption DEF Shaped, Steps, Tables, Reports
<1>8. PerTable(y.new)  BY <1>1, <1>6 DEF Shaped, PerTable
<1>9. PerTable(y.counted)  BY <1>1, <1>6 DEF Shaped, PerTable
<1>10. PerTable(y.doomed)  BY <1>1, <1>6 DEF Shaped, PerTable
<1>11. Shaped(y)  BY <1>5, <1>7, <1>8, <1>9, <1>10 DEF Shaped
<1> QED  BY <1>1, <1>2, <1>3, <1>4, <1>6, <1>11 DEF x

LEMMA LockFields ==
  ASSUME Shape, NEW s \in Syncs, Lock(s)
  PROVE  LET x == sync[s]
             y == sync'[s]
         IN  /\ x # Idle /\ Shaped(x) /\ Shaped(y)
             /\ y.at = (IF x.on = "fbl3n" THEN "first" ELSE "commit")
             /\ y.on = (IF x.on = "fbl3n" THEN "kssbV2" ELSE x.on)
             /\ y.by = x.by
             /\ y.chunk = 1
             /\ y.new = x.new
             /\ y.counted = x.counted
             /\ y.pages = x.pages
             /\ y.seen = {}
             /\ y.doomed = [x.doomed EXCEPT ![x.on] = x.seen \cap table[x.on]]
             /\ sync' = [sync EXCEPT ![s] = y] /\ (\A r \in Syncs \ {s} : sync'[r] = sync[r])
             /\ UNCHANGED <<ledger, table, overlapped, shifted>>
<1> DEFINE x == sync[s]
           y == [x EXCEPT !.doomed[x.on] = x.seen \cap table[x.on], !.seen = {},
             !.at = IF x.on = "fbl3n" THEN "first" ELSE "commit",
             !.on = IF x.on = "fbl3n" THEN "kssbV2" ELSE x.on, !.chunk = 1]
<1>1. x # Idle /\ Shaped(x)  BY DEF Lock, At, Shape
<1>2. sync' = [sync EXCEPT ![s] = y]  BY DEF Lock
<1>3. UNCHANGED <<ledger, table, overlapped, shifted>>  BY DEF Lock, database, rest, history
<1>4. sync'[s] = y /\ (\A r \in Syncs \ {s} : sync'[r] = sync[r])  BY <1>2, SyncsAfter
<1> HIDE DEF x
<1>5. Record(y)  BY <1>1 DEF Shaped, Record
<1>6. /\ y.at = (IF x.on = "fbl3n" THEN "first" ELSE "commit")
      /\ y.on = (IF x.on = "fbl3n" THEN "kssbV2" ELSE x.on)
      /\ y.by = x.by
      /\ y.chunk = 1
      /\ y.new = x.new
      /\ y.counted = x.counted
      /\ y.pages = x.pages
      /\ y.seen = {}
      /\ y.doomed = [x.doomed EXCEPT ![x.on] = x.seen \cap table[x.on]]
  BY <1>1 DEF Shaped, Record
<1> HIDE DEF y
<1>7. y.at \in Steps /\ y.on \in Tables /\ y.chunk \in 1 .. Chunks
  BY <1>1, <1>6, SapCacheAssumption DEF Shaped, Steps, Tables, Reports
<1>8. PerTable(y.new)  BY <1>1, <1>6 DEF Shaped, PerTable
<1>9. PerTable(y.counted)  BY <1>1, <1>6 DEF Shaped, PerTable
<1>10. PerTable(y.doomed)  BY <1>1, <1>6 DEF Shaped, PerTable
<1>11. Shaped(y)  BY <1>5, <1>7, <1>8, <1>9, <1>10 DEF Shaped
<1> QED  BY <1>1, <1>2, <1>3, <1>4, <1>6, <1>11 DEF x

LEMMA CommitFields ==
  ASSUME Shape, NEW s \in Syncs, Commit(s)
  PROVE  LET x == sync[s]
             y == sync'[s]
         IN  /\ x # Idle /\ Shaped(x) /\ Shaped(y)
             /\ y.at = (IF x.on = "actuals" THEN "finish" ELSE "read") /\ y.on = x.on
             /\ y.by = x.by
             /\ y.chunk = x.chunk
             /\ y.new = x.new
             /\ y.counted = x.counted
             /\ y.pages = x.pages
             /\ y.seen = x.seen
             /\ y.doomed = [t \in Tables |-> {}]
             /\ sync' = [sync EXCEPT ![s] = y] /\ (\A r \in Syncs \ {s} : sync'[r] = sync[r])
             /\ UNCHANGED <<ledger, overlapped, shifted>>
<1> DEFINE x == sync[s]
           y == [x EXCEPT !.at = IF x.on = "actuals" THEN "finish" ELSE "read",
                          !.doomed = [t \in Tables |-> {}]]
<1>1. x # Idle /\ Shaped(x)  BY DEF Commit, At, Shape
<1>2. sync' = [sync EXCEPT ![s] = y]  BY DEF Commit
<1>3. UNCHANGED <<ledger, overlapped, shifted>>  BY DEF Commit, database, rest, history
<1>4. sync'[s] = y /\ (\A r \in Syncs \ {s} : sync'[r] = sync[r])  BY <1>2, SyncsAfter
<1> HIDE DEF x
<1>5. Record(y)  BY <1>1 DEF Shaped, Record
<1>6. /\ y.at = (IF x.on = "actuals" THEN "finish" ELSE "read") /\ y.on = x.on
      /\ y.by = x.by
      /\ y.chunk = x.chunk
      /\ y.new = x.new
      /\ y.counted = x.counted
      /\ y.pages = x.pages
      /\ y.seen = x.seen
      /\ y.doomed = [t \in Tables |-> {}]
  BY <1>1 DEF Shaped, Record
<1> HIDE DEF y
<1>7. y.at \in Steps /\ y.on \in Tables /\ y.chunk \in 1 .. Chunks
  BY <1>1, <1>6, SapCacheAssumption DEF Shaped, Steps, Tables, Reports
<1>8. PerTable(y.new)  BY <1>1, <1>6 DEF Shaped, PerTable
<1>9. PerTable(y.counted)  BY <1>1, <1>6 DEF Shaped, PerTable
<1>10. PerTable(y.doomed)  BY <1>1, <1>6 DEF Shaped, PerTable
<1>11. Shaped(y)  BY <1>5, <1>7, <1>8, <1>9, <1>10 DEF Shaped
<1> QED  BY <1>1, <1>2, <1>3, <1>4, <1>6, <1>11 DEF x

LEMMA ReadCopyFields ==
  ASSUME Shape, NEW s \in Syncs, ReadCopy(s)
  PROVE  LET x == sync[s]
             y == sync'[s]
         IN  /\ x # Idle /\ Shaped(x) /\ Shaped(y)
             /\ y.at = "pages" /\ y.on = "actuals"
             /\ y.by = x.by
             /\ y.chunk = x.chunk
             /\ y.new = [x.new EXCEPT !["actuals"] = Total("fbl3n")]
             /\ y.counted = x.counted
             /\ y.pages = x.pages
             /\ y.seen = x.seen
             /\ y.doomed = x.doomed
             /\ sync' = [sync EXCEPT ![s] = y] /\ (\A r \in Syncs \ {s} : sync'[r] = sync[r])
             /\ UNCHANGED <<ledger, table, overlapped, shifted>>
<1> DEFINE x == sync[s]
           y == [x EXCEPT !.at = "pages", !.on = "actuals", !.new["actuals"] = Total("fbl3n")]
<1>1. x # Idle /\ Shaped(x)  BY DEF ReadCopy, At, Shape
<1>2. sync' = [sync EXCEPT ![s] = y]  BY DEF ReadCopy
<1>3. UNCHANGED <<ledger, table, overlapped, shifted>>  BY DEF ReadCopy, database, rest, history
<1>4. sync'[s] = y /\ (\A r \in Syncs \ {s} : sync'[r] = sync[r])  BY <1>2, SyncsAfter
<1> HIDE DEF x
<1>5. Record(y)  BY <1>1 DEF Shaped, Record
<1>6. /\ y.at = "pages" /\ y.on = "actuals"
      /\ y.by = x.by
      /\ y.chunk = x.chunk
      /\ y.new = [x.new EXCEPT !["actuals"] = Total("fbl3n")]
      /\ y.counted = x.counted
      /\ y.pages = x.pages
      /\ y.seen = x.seen
      /\ y.doomed = x.doomed
  BY <1>1 DEF Shaped, Record
<1> HIDE DEF y
<1>7. y.at \in Steps /\ y.on \in Tables /\ y.chunk \in 1 .. Chunks
  BY <1>1, <1>6, SapCacheAssumption DEF Shaped, Steps, Tables, Reports
<1>8. PerTable(y.new)  BY <1>1, <1>6 DEF Shaped, PerTable
<1>9. PerTable(y.counted)  BY <1>1, <1>6 DEF Shaped, PerTable
<1>10. PerTable(y.doomed)  BY <1>1, <1>6 DEF Shaped, PerTable
<1>11. Shaped(y)  BY <1>5, <1>7, <1>8, <1>9, <1>10 DEF Shaped
<1> QED  BY <1>1, <1>2, <1>3, <1>4, <1>6, <1>11 DEF x

LEMMA ShapeStep == Shape /\ [Next]_vars => Shape'
<1> SUFFICES ASSUME Shape, [Next]_vars PROVE Shape'  OBVIOUS
<1>1. ASSUME NEW s \in Syncs, Check(s) PROVE Shape'  BY <1>1, CheckFields
<1>2. ASSUME NEW s \in Syncs, Mark(s) PROVE Shape'
  <2>1. overlapped' \in BOOLEAN  BY <1>2 DEF Mark, Shape
  <2>2. table' = table /\ ledger' = ledger /\ shifted' = shifted  BY <1>2, MarkFields
  <2> QED  BY <1>2, <2>1, <2>2, MarkFields, ShapeAfter DEF Shape
<1>3. ASSUME NEW s \in Syncs, FirstPage(s) PROVE Shape'
  BY <1>3, FirstPageFields, ShapeAfter DEF Shape
<1>4. ASSUME NEW s \in Syncs, NEW request \in Requests, NextPage(s, request) PROVE Shape'
  BY <1>4, NextPageFields, ShapeAfter DEF Shape
<1>5. ASSUME NEW s \in Syncs, Delete(s) PROVE Shape'
  BY <1>5, DeleteFields, ShapeAfter DEF Shape
<1>6. ASSUME NEW s \in Syncs, Lock(s) PROVE Shape'
  BY <1>6, LockFields, ShapeAfter DEF Shape
<1>7. ASSUME NEW s \in Syncs, Commit(s) PROVE Shape'
  <2>1. table' = [t \in Tables |-> table'[t]]  BY <1>7 DEF Commit
  <2>2. /\ Shaped(sync'[s]) /\ sync' = [sync EXCEPT ![s] = sync'[s]]
        /\ \A r \in Syncs \ {s} : sync'[r] = sync[r]
        /\ UNCHANGED <<ledger, overlapped, shifted>>
    BY <1>7, CommitFields
  <2> QED  BY <2>1, <2>2 DEF Shape
<1>8. ASSUME NEW s \in Syncs, ReadCopy(s) PROVE Shape'
  BY <1>8, ReadCopyFields, ShapeAfter DEF Shape
<1>9. ASSUME NEW s \in Syncs, Finish(s) \/ FetchFails(s) PROVE Shape'
  <2>1. sync' = [sync EXCEPT ![s] = Idle] /\ UNCHANGED <<ledger, table, overlapped, shifted>>
    BY <1>9 DEF Finish, FetchFails, database, rest, history
  <2> QED  BY <2>1, ShapeAfter DEF Shape
<1>10. ASSUME NEW b \in table["actuals"], NEW p \in ToMap, MapPosting(b, p) PROVE Shape'
  BY <1>10 DEF MapPosting, history, Shape
<1>11. ASSUME NEW p \in Postings, Post(p) PROVE Shape'
  BY <1>11 DEF Post, database, Shape
<1>12. CASE Crash  BY <1>12 DEF Crash, database, history, Shape
<1>13. CASE RowAges  BY <1>13 DEF RowAges, database, rest, history, Shape
<1>14. CASE UNCHANGED vars  BY <1>14 DEF vars, Shape
<1> QED
  BY <1>1, <1>2, <1>3, <1>4, <1>5, <1>6, <1>7, <1>8, <1>9, <1>10, <1>11, <1>12, <1>13, <1>14
  DEF Next, Step

-----------------------------------------------------------------------------
(* Steps: the course of one synchronisation.                                *)

LEMMA TableExcept ==
  ASSUME NEW f, PerTable(f), NEW t \in Tables, NEW v
  PROVE  /\ [f EXCEPT ![t] = v][t] = v
         /\ \A u \in Tables \ {t} : [f EXCEPT ![t] = v][u] = f[u]
  BY DEF PerTable

\* The first page of a chunk, in terms of the table at hand.
LEMMA FirstPageOf ==
  ASSUME Shape, NEW s \in Syncs, FirstPage(s)
  PROVE  \E t \in Tables, c \in 1 .. Chunks :
           /\ sync[s] # Idle /\ sync[s].at = "first" /\ sync[s].on = t /\ sync[s].chunk = c
           /\ sync'[s].at = (IF c = Chunks THEN "pages" ELSE "first") /\ sync'[s].on = t
           /\ sync'[s].chunk = (IF c = Chunks THEN c ELSE c + 1)
           /\ sync'[s].new[t] = Plus(sync[s].new[t], Once(Page(c, 0)))
           /\ sync'[s].counted[t] = sync[s].counted[t] \cup OfChunk(c)
           /\ \A u \in Tables \ {t} : /\ sync'[s].new[u] = sync[s].new[u]
                                      /\ sync'[s].counted[u] = sync[s].counted[u]
           /\ sync'[s].pages = sync[s].pages \cup ({c} \X Pages(Cardinality(OfChunk(c))))
           /\ sync'[s].doomed = sync[s].doomed
           /\ UNCHANGED <<ledger, table>>
<1>1. PICK t \in Tables, c \in 1 .. Chunks : t = sync[s].on /\ c = sync[s].chunk
  BY FirstPageFields DEF Shaped
<1>2. /\ sync[s] # Idle /\ Shaped(sync[s])
      /\ sync'[s].at = (IF c = Chunks THEN "pages" ELSE "first") /\ sync'[s].on = t
      /\ sync'[s].chunk = (IF c = Chunks THEN c ELSE c + 1)
      /\ sync'[s].new = [sync[s].new EXCEPT ![t] = Plus(sync[s].new[t], Once(Page(c, 0)))]
      /\ sync'[s].counted = [sync[s].counted EXCEPT ![t] = sync[s].counted[t] \cup OfChunk(c)]
      /\ sync'[s].pages = sync[s].pages \cup ({c} \X Pages(Cardinality(OfChunk(c))))
      /\ sync'[s].doomed = sync[s].doomed
      /\ UNCHANGED <<ledger, table>>
  BY <1>1, FirstPageFields
<1>3. PerTable(sync[s].new) /\ PerTable(sync[s].counted)  BY <1>2 DEF Shaped
<1>4. /\ sync'[s].new[t] = Plus(sync[s].new[t], Once(Page(c, 0)))
      /\ \A u \in Tables \ {t} : sync'[s].new[u] = sync[s].new[u]
  BY <1>2, <1>3, TableExcept
<1>5. /\ sync'[s].counted[t] = sync[s].counted[t] \cup OfChunk(c)
      /\ \A u \in Tables \ {t} : sync'[s].counted[u] = sync[s].counted[u]
  BY <1>2, <1>3, TableExcept
<1>6. sync[s].at = "first"  BY DEF FirstPage, At
<1> QED  BY <1>1, <1>2, <1>4, <1>5, <1>6

LEMMA FirstPageCourse ==
  ASSUME Shape, Undisturbed, NEW s \in Syncs, FirstPage(s)
  PROVE  Course(s)'
<1>1. PICK t \in Tables, c \in 1 .. Chunks :
        /\ sync[s] # Idle /\ sync[s].at = "first" /\ sync[s].on = t /\ sync[s].chunk = c
        /\ sync'[s].at = (IF c = Chunks THEN "pages" ELSE "first") /\ sync'[s].on = t
        /\ \A u \in Tables \ {t} : /\ sync'[s].new[u] = sync[s].new[u]
                                   /\ sync'[s].counted[u] = sync[s].counted[u]
        /\ sync'[s].doomed = sync[s].doomed
        /\ UNCHANGED <<ledger, table>>
  BY FirstPageOf
<1>2. Course(s)  BY <1>1 DEF Undisturbed
<1>3. /\ t \in Reports /\ (t = "fbl3n" => Fresh(s, "kssbV2"))
      /\ t = "kssbV2" => Doomed(s, "fbl3n")
  BY <1>1, <1>2 DEF Course
<1>4. t = "fbl3n" => Fresh(s, "kssbV2")'
  BY <1>1, <1>3 DEF Fresh, Tables, Reports
<1>5. t = "kssbV2" => Doomed(s, "fbl3n")'  BY <1>1, <1>3 DEF Doomed
<1>6. t # "actuals"  BY <1>3 DEF Reports
<1>7. sync'[s].at \in {"first", "pages"}  BY <1>1
<1> QED  BY <1>1, <1>3, <1>4, <1>5, <1>6, <1>7 DEF Course

\* One of the other pages, likewise.
LEMMA NextPageOf ==
  ASSUME Shape, NEW s \in Syncs, NEW request, NextPage(s, request)
  PROVE  \E t \in Tables :
           /\ sync[s] # Idle /\ sync[s].at = "pages" /\ sync[s].on = t
           /\ request \in sync[s].pages
           /\ sync'[s].at = "pages" /\ sync'[s].on = t
           /\ sync'[s].new[t] = Plus(sync[s].new[t], Once(PageOf(request)))
           /\ \A u \in Tables \ {t} : sync'[s].new[u] = sync[s].new[u]
           /\ sync'[s].counted = sync[s].counted
           /\ sync'[s].pages = sync[s].pages \ {request}
           /\ sync'[s].doomed = sync[s].doomed
           /\ UNCHANGED <<ledger, table>>
<1>1. PICK t \in Tables : t = sync[s].on  BY NextPageFields DEF Shaped
<1>2. /\ sync[s] # Idle /\ Shaped(sync[s])
      /\ sync'[s].at = sync[s].at /\ sync'[s].on = t
      /\ sync'[s].new =
           [sync[s].new EXCEPT ![t] = Plus(sync[s].new[t], Once(PageOf(request)))]
      /\ sync'[s].counted = sync[s].counted
      /\ sync'[s].pages = sync[s].pages \ {request}
      /\ sync'[s].doomed = sync[s].doomed
      /\ UNCHANGED <<ledger, table>>
  BY <1>1, NextPageFields DEF PageOf
<1>3. /\ sync'[s].new[t] = Plus(sync[s].new[t], Once(PageOf(request)))
      /\ \A u \in Tables \ {t} : sync'[s].new[u] = sync[s].new[u]
  BY <1>2, TableExcept DEF Shaped
<1>4. sync[s].at = "pages" /\ request \in sync[s].pages  BY DEF NextPage, At
<1> QED  BY <1>1, <1>2, <1>3, <1>4

LEMMA NextPageCourse ==
  ASSUME Shape, Undisturbed, NEW s \in Syncs, NEW request, NextPage(s, request)
  PROVE  Course(s)'
<1>1. PICK t \in Tables :
        /\ sync[s] # Idle /\ sync[s].at = "pages" /\ sync[s].on = t
        /\ request \in sync[s].pages
        /\ sync'[s].at = "pages" /\ sync'[s].on = t
        /\ \A u \in Tables \ {t} : sync'[s].new[u] = sync[s].new[u]
        /\ sync'[s].counted = sync[s].counted
        /\ sync'[s].doomed = sync[s].doomed
        /\ UNCHANGED <<ledger, table>>
  BY NextPageOf
<1>2. Course(s)  BY <1>1 DEF Undisturbed
<1>3. /\ t # "actuals" /\ (t = "fbl3n" => Fresh(s, "kssbV2"))
      /\ t = "kssbV2" => Doomed(s, "fbl3n")
  BY <1>1, <1>2 DEF Course
<1>4. t = "fbl3n" => Fresh(s, "kssbV2")'
  BY <1>1, <1>3 DEF Fresh, Tables, Reports
<1>5. t = "kssbV2" => Doomed(s, "fbl3n")'  BY <1>1, <1>3 DEF Doomed
<1> QED  BY <1>1, <1>3, <1>4, <1>5 DEF Course

LEMMA DeleteCourse ==
  ASSUME Shape, Undisturbed, NEW s \in Syncs, Delete(s)
  PROVE  Course(s)'
<1>1. /\ sync'[s].at = "locking" /\ sync'[s].on = sync[s].on /\ sync'[s].new = sync[s].new
      /\ sync'[s].counted = sync[s].counted /\ sync'[s].pages = sync[s].pages
      /\ sync'[s].seen = table[sync[s].on] /\ sync'[s].doomed = sync[s].doomed
      /\ UNCHANGED <<ledger, table>> /\ sync[s] # Idle
  BY DeleteFields
<1>2. sync[s].at = "pages" /\ sync[s].pages = {}  BY DEF Delete, At
<1>3. Course(s)  BY <1>1 DEF Undisturbed
<1> QED  BY <1>1, <1>2, <1>3 DEF Course, Fresh, Doomed

\* The DELETE waits for rows others have locked, and finds all it has seen.
LEMMA LockOf ==
  ASSUME Shape, Undisturbed, NEW s \in Syncs, Lock(s)
  PROVE  \E t \in Tables :
           /\ sync[s] # Idle /\ sync[s].at = "locking" /\ sync[s].on = t
           /\ sync'[s].at = (IF t = "fbl3n" THEN "first" ELSE "commit")
           /\ sync'[s].on = (IF t = "fbl3n" THEN "kssbV2" ELSE t)
           /\ sync'[s].chunk = 1 /\ sync[s].pages = {} /\ sync'[s].pages = {}
           /\ sync'[s].new = sync[s].new /\ sync'[s].counted = sync[s].counted
           /\ sync'[s].doomed[t] = table[t]
           /\ \A u \in Tables \ {t} : sync'[s].doomed[u] = sync[s].doomed[u]
           /\ UNCHANGED <<ledger, table>>
<1>1. PICK t \in Tables : t = sync[s].on  BY LockFields DEF Shaped
<1>2. /\ sync'[s].at = (IF t = "fbl3n" THEN "first" ELSE "commit")
      /\ sync'[s].on = (IF t = "fbl3n" THEN "kssbV2" ELSE t)
      /\ sync'[s].chunk = 1 /\ sync'[s].pages = sync[s].pages
      /\ sync'[s].new = sync[s].new /\ sync'[s].counted = sync[s].counted
      /\ sync'[s].doomed = [sync[s].doomed EXCEPT ![t] = sync[s].seen \cap table[t]]
      /\ UNCHANGED <<ledger, table>> /\ sync[s] # Idle /\ Shaped(sync[s])
  BY <1>1, LockFields
<1>3. sync[s].at = "locking"  BY DEF Lock, At
<1>4. sync[s].pages = {} /\ sync[s].seen = table[t]
  BY <1>1, <1>2, <1>3 DEF Undisturbed, Course
<1>5. PerTable(sync[s].doomed)  BY <1>2 DEF Shaped
<1>6. sync[s].seen \cap table[t] = table[t]  BY <1>4
<1>7. sync'[s].doomed = [sync[s].doomed EXCEPT ![t] = table[t]]  BY <1>2, <1>6
<1>8. /\ sync'[s].doomed[t] = table[t]
      /\ \A u \in Tables \ {t} : sync'[s].doomed[u] = sync[s].doomed[u]
  BY <1>5, <1>7, TableExcept
<1> QED  BY <1>1, <1>2, <1>3, <1>4, <1>8

LEMMA LockCourse ==
  ASSUME Shape, Undisturbed, NEW s \in Syncs, Lock(s)
  PROVE  Course(s)'
<1>1. PICK t \in Tables :
        /\ sync[s] # Idle /\ sync[s].at = "locking" /\ sync[s].on = t
        /\ sync'[s].at = (IF t = "fbl3n" THEN "first" ELSE "commit")
        /\ sync'[s].on = (IF t = "fbl3n" THEN "kssbV2" ELSE t)
        /\ sync'[s].chunk = 1 /\ sync'[s].pages = {}
        /\ sync'[s].new = sync[s].new /\ sync'[s].counted = sync[s].counted
        /\ sync'[s].doomed[t] = table[t]
        /\ \A u \in Tables \ {t} : sync'[s].doomed[u] = sync[s].doomed[u]
        /\ UNCHANGED <<ledger, table>>
  BY LockOf
<1>2. Course(s)  BY <1>1 DEF Undisturbed
<1>3. t = "kssbV2" => Doomed(s, "fbl3n")  BY <1>1, <1>2 DEF Course
<1>4. CASE t = "fbl3n"
  <2>1. Doomed(s, "fbl3n")'  BY <1>1, <1>4 DEF Doomed
  <2> QED  BY <1>1, <1>4, <2>1 DEF Course, Reports
<1>5. CASE t = "kssbV2"
  <2>1. Doomed(s, "kssbV2")'  BY <1>1, <1>5 DEF Doomed
  <2>2. Doomed(s, "fbl3n")'  BY <1>1, <1>3, <1>5 DEF Doomed, Tables, Reports
  <2> QED  BY <1>1, <1>5, <2>1, <2>2 DEF Course
<1>6. CASE t = "actuals"
  <2>1. Doomed(s, "actuals")'  BY <1>1, <1>6 DEF Doomed
  <2> QED  BY <1>1, <1>6, <2>1 DEF Course
<1> QED  BY <1>4, <1>5, <1>6 DEF Tables, Reports

LEMMA ReadCopyCourse ==
  ASSUME Shape, Undisturbed, NEW s \in Syncs, ReadCopy(s)
  PROVE  Course(s)'
<1>1. /\ sync'[s].at = "pages" /\ sync'[s].on = "actuals" /\ sync'[s].pages = sync[s].pages
      /\ sync[s] # Idle
  BY ReadCopyFields
<1>2. sync[s].pages = {}  BY <1>1 DEF ReadCopy, At, Undisturbed, Course
<1> QED  BY <1>1, <1>2 DEF Course

-----------------------------------------------------------------------------
(* Steps: what one synchronisation has read.                                *)

\* What is held goes on being held, whatever else SAP posts.
LEMMA FullStays ==
  ASSUME NEW s, NEW t, Full(s, t), table'[t] = table[t], ledger \subseteq ledger',
         sync'[s].new[t] = sync[s].new[t], sync'[s].counted[t] = sync[s].counted[t]
  PROVE  Full(s, t)'
  BY DEF Full, Begun, Holds

LEMMA DerivedStays ==
  ASSUME NEW s, Derived(s), table'["fbl3n"] = table["fbl3n"],
         table'["actuals"] = table["actuals"], ledger \subseteq ledger',
         sync'[s].new["actuals"] = sync[s].new["actuals"]
  PROVE  Derived(s)'
  BY DEF Derived, Holds

\* So does a report that is being read, if its pages gain only what is new.
LEMMA ReadingStays ==
  ASSUME NEW s, NEW t, NEW n, Reading(s, t, n), table'[t] = table[t],
         ledger \subseteq ledger', sync'[s].pages = sync[s].pages,
         sync'[s].new[t] = sync[s].new[t], sync'[s].counted[t] = sync[s].counted[t],
         \A request \in sync[s].pages :
           /\ PageOf(request) \subseteq PageOf(request)'
           /\ PageOf(request)' \cap ledger \subseteq PageOf(request)
  PROVE  Reading(s, t, n)'
<1>1. Begun(s, t, n)'  BY DEF Reading, Begun
<1>2. PICK ps \in SUBSET ledger :
        /\ sync[s].new[t] = Once(ps) /\ OfChunksTo(n, ps)
        /\ OnNoPage(ps, sync[s].pages)
        /\ ReadOrToCome(ps, sync[s].pages, sync[s].counted[t])
  BY DEF Reading, PagesRead
<1>3. ps \in SUBSET ledger'  OBVIOUS
<1>4. \A request \in sync[s].pages : ps \cap PageOf(request)' = {}
  BY <1>2 DEF OnNoPage
<1>5. \A p \in sync[s].counted[t] :
        p \in ps \/ \E request \in sync[s].pages : p \in PageOf(request)'
  BY <1>2 DEF ReadOrToCome
<1>6. sync[s].pages \subseteq (1 .. n) \X Offsets  BY DEF Reading, PagesRead
<1>7. PagesRead(s, t, n)'  
  BY <1>2, <1>3, <1>4, <1>5, <1>6 DEF PagesRead, OfChunksTo, OnNoPage, ReadOrToCome
<1> QED  BY <1>1, <1>7 DEF Reading

LEMMA PagesStay ==
  ASSUME UNCHANGED ledger
  PROVE  \A request : /\ PageOf(request) \subseteq PageOf(request)'
                      /\ PageOf(request)' \cap ledger \subseteq PageOf(request)
  BY DEF PageOf, Page, OfChunk, UpTo

\* A synchronisation that stands still, while SAP posts or nothing happens.
LEMMA ContentsStay ==
  ASSUME NEW s, Contents(s), sync'[s] = sync[s], table' = table, ledger \subseteq ledger',
         \A request \in sync[s].pages :
           /\ PageOf(request) \subseteq PageOf(request)'
           /\ PageOf(request)' \cap ledger \subseteq PageOf(request)
  PROVE  Contents(s)'
<1>1. ASSUME NEW t, NEW n, Reading(s, t, n) PROVE Reading(s, t, n)'
  BY <1>1, ReadingStays
<1>2. ASSUME NEW t, Full(s, t) PROVE Full(s, t)'  BY <1>2, FullStays
<1>3. Derived(s) => Derived(s)'  BY DerivedStays
<1>4. PICK on, at, chunk : on = sync[s].on /\ at = sync[s].at /\ chunk = sync[s].chunk
  OBVIOUS
<1>5. /\ at = "first" => Reading(s, on, chunk - 1)
      /\ at = "pages" /\ on \in Reports => Reading(s, on, Chunks)
      /\ at \in {"locking", "commit"} /\ on \in Reports => Full(s, on)
      /\ at \in {"first", "pages", "locking", "commit"} /\ on = "kssbV2" => Full(s, "fbl3n")
      /\ at \in {"pages", "locking", "commit"} /\ on = "actuals" => Derived(s)
  BY <1>4 DEF Contents
<1>6. /\ at = "first" => Reading(s, on, chunk - 1)'
      /\ at = "pages" /\ on \in Reports => Reading(s, on, Chunks)'
      /\ at \in {"locking", "commit"} /\ on \in Reports => Full(s, on)'
      /\ at \in {"first", "pages", "locking", "commit"} /\ on = "kssbV2" => Full(s, "fbl3n")'
      /\ at \in {"pages", "locking", "commit"} /\ on = "actuals" => Derived(s)'
  BY <1>1, <1>2, <1>3, <1>5
<1> QED  BY <1>4, <1>6 DEF Contents

\* Nothing is read of a report at its beginning.
LEMMA FreshIsRead ==
  ASSUME Shape, StoredIsWhole, NEW s \in Syncs, NEW t \in Tables, Fresh(s, t),
         sync[s].pages = {}
  PROVE  Reading(s, t, 0)
<1>1. \A p \in Postings : ~(ChunkOf[p] <= 0)  BY SapCacheAssumption DEF Postings
<1>2. Begun(s, t, 0)  BY <1>1 DEF Begun
<1>3. NoRows = Once({})  BY DEF NoRows, Once
<1>4. PagesRead(s, t, 0)
  <2>1. {} \in SUBSET ledger  OBVIOUS
  <2>2. sync[s].pages \subseteq (1 .. 0) \X Offsets  OBVIOUS
  <2> QED  BY <1>3, <2>1, <2>2 DEF Fresh, PagesRead, OfChunksTo, OnNoPage, ReadOrToCome
<1> QED  BY <1>2, <1>4 DEF Reading

LEMMA FirstPageContents ==
  ASSUME Shape, Undisturbed, Unshifted, NEW s \in Syncs, FirstPage(s)
  PROVE  Contents(s)'
<1>1. PICK t \in Tables, c \in 1 .. Chunks :
        /\ sync[s] # Idle /\ sync[s].at = "first" /\ sync[s].on = t /\ sync[s].chunk = c
        /\ sync'[s].at = (IF c = Chunks THEN "pages" ELSE "first") /\ sync'[s].on = t
        /\ sync'[s].chunk = (IF c = Chunks THEN c ELSE c + 1)
        /\ sync'[s].new[t] = Plus(sync[s].new[t], Once(Page(c, 0)))
        /\ sync'[s].counted[t] = sync[s].counted[t] \cup OfChunk(c)
        /\ \A u \in Tables \ {t} : /\ sync'[s].new[u] = sync[s].new[u]
                                   /\ sync'[s].counted[u] = sync[s].counted[u]
        /\ sync'[s].pages = sync[s].pages \cup ({c} \X Pages(Cardinality(OfChunk(c))))
        /\ UNCHANGED <<ledger, table>>
  BY FirstPageOf
<1>2. t \in Reports  BY <1>1 DEF Undisturbed, Course
<1>3. Contents(s)  BY <1>1 DEF Unshifted
<1>4. Reading(s, t, c - 1)  BY <1>1, <1>3 DEF Contents
<1>5. Begun(s, t, c)'
  <2>1. ASSUME NEW b \in table[t], NEW p \in Postings, b.rows[p] > 0, ChunkOf[p] <= c
        PROVE  p \in sync[s].counted[t] \cup OfChunk(c)
    <3>1. CASE ChunkOf[p] <= c - 1  BY <1>4, <2>1, <3>1 DEF Reading, Begun
    <3>2. CASE ChunkOf[p] = c
      <4>1. Holds(b.rows, b.counted)  BY <1>2 DEF Unshifted, StoredIsWhole
      <4>2. p \in ledger  BY <2>1, <4>1, HeldIsPosted
      <4> QED  BY <3>2, <4>2 DEF OfChunk
    <3>3. ChunkOf[p] \in Nat /\ c \in Nat  BY SapCacheAssumption DEF Postings
    <3> QED  BY <2>1, <3>1, <3>2, <3>3
  <2> QED  BY <1>1, <2>1 DEF Begun
<1>6. PagesRead(s, t, c)'
  <2>1. PICK pages, counted : pages = sync[s].pages /\ counted = sync[s].counted[t]
    OBVIOUS
  <2>2. PICK ps \in SUBSET ledger :
          /\ sync[s].new[t] = Once(ps) /\ OfChunksTo(c - 1, ps)
          /\ OnNoPage(ps, pages) /\ ReadOrToCome(ps, pages, counted)
    BY <1>4, <2>1 DEF Reading, PagesRead
  <2>3. pages \subseteq (1 .. (c - 1)) \X Offsets
    BY <1>4, <2>1 DEF Reading, PagesRead
  <2>4. ledger \subseteq Postings  BY DEF Shape
  <2> DEFINE ms == ps \cup Page(c, 0)
             more == pages \cup ({c} \X Pages(Cardinality(OfChunk(c))))
  <2>5. /\ ps \cap Page(c, 0) = {} /\ ms \in SUBSET ledger /\ OfChunksTo(c, ms)
        /\ more \subseteq (1 .. c) \X Offsets /\ OnNoPage(ms, more)
        /\ ReadOrToCome(ms, more, counted \cup OfChunk(c))
    BY <2>2, <2>3, <2>4, FirstPageIsRead
  <2>6. sync'[s].new[t] = Once(ms)  BY <1>1, <2>2, <2>5, PagesAddUp
  <2>7. sync'[s].pages = more /\ sync'[s].counted[t] = counted \cup OfChunk(c)
        /\ ledger' = ledger
    BY <1>1, <2>1
  <2>8. \A request : PageOf(request)' = PageOf(request)
    BY <2>7 DEF PageOf, Page, OfChunk, UpTo
  <2> HIDE DEF ms, more
  <2> QED
    BY <2>5, <2>6, <2>7, <2>8 DEF PagesRead, OfChunksTo, OnNoPage, ReadOrToCome
<1>7. Reading(s, t, c)'  BY <1>5, <1>6 DEF Reading
<1>8. t = "kssbV2" => Full(s, "fbl3n")'
  <2>1. t = "kssbV2" => Full(s, "fbl3n")  BY <1>1, <1>3 DEF Contents
  <2> QED  BY <1>1, <2>1, FullStays DEF Tables, Reports
<1>9. t # "actuals"  BY <1>2 DEF Reports
<1>10. CASE c = Chunks
  BY <1>1, <1>7, <1>8, <1>9, <1>10 DEF Contents
<1>11. CASE c # Chunks
  <2>1. sync'[s].at = "first" /\ sync'[s].chunk - 1 = c
    BY <1>1, <1>11, SapCacheAssumption
  <2> QED  BY <1>1, <1>7, <1>8, <1>9, <2>1 DEF Contents
<1> QED  BY <1>10, <1>11

LEMMA NextPageContents ==
  ASSUME Shape, Undisturbed, Unshifted, NEW s \in Syncs, NEW request, NextPage(s, request)
  PROVE  Contents(s)'
<1>1. PICK t \in Tables :
        /\ sync[s] # Idle /\ sync[s].at = "pages" /\ sync[s].on = t
        /\ request \in sync[s].pages
        /\ sync'[s].at = "pages" /\ sync'[s].on = t
        /\ sync'[s].new[t] = Plus(sync[s].new[t], Once(PageOf(request)))
        /\ \A u \in Tables \ {t} : sync'[s].new[u] = sync[s].new[u]
        /\ sync'[s].counted = sync[s].counted
        /\ sync'[s].pages = sync[s].pages \ {request}
        /\ UNCHANGED <<ledger, table>>
  BY NextPageOf
<1>2. Contents(s)  BY <1>1 DEF Unshifted
<1>3. t \in Reports  BY <1>1 DEF Undisturbed, Course, Tables
<1>4. Reading(s, t, Chunks)  BY <1>1, <1>2, <1>3 DEF Contents
<1>5. Begun(s, t, Chunks)'  BY <1>1, <1>4 DEF Reading, Begun
<1>6. PagesRead(s, t, Chunks)'
  <2>1. PICK pages, counted : pages = sync[s].pages /\ counted = sync[s].counted[t]
    OBVIOUS
  <2>2. PICK ps \in SUBSET ledger :
          /\ sync[s].new[t] = Once(ps)
          /\ OnNoPage(ps, pages) /\ ReadOrToCome(ps, pages, counted)
    BY <1>4, <2>1 DEF Reading, PagesRead
  <2>3. pages \subseteq (1 .. Chunks) \X Offsets /\ request \in pages
    BY <1>1, <1>4, <2>1 DEF Reading, PagesRead
  <2>4. ledger \subseteq Postings  BY DEF Shape
  <2> DEFINE ms == ps \cup PageOf(request)
             fewer == pages \ {request}
  <2>5. /\ ps \cap PageOf(request) = {} /\ ms \in SUBSET ledger
        /\ OnNoPage(ms, fewer) /\ ReadOrToCome(ms, fewer, counted)
    BY <2>2, <2>3, <2>4, NextPageIsRead
  <2>6. OfChunksTo(Chunks, ms)
    <3>1. \A p \in Postings : ChunkOf[p] <= Chunks
      BY SapCacheAssumption DEF Postings
    <3> QED  BY <2>4, <2>5, <3>1 DEF OfChunksTo
  <2>7. sync'[s].new[t] = Once(ms)  BY <1>1, <2>2, <2>5, PagesAddUp
  <2>8. sync'[s].pages = fewer /\ sync'[s].counted[t] = counted /\ ledger' = ledger
        /\ fewer \subseteq (1 .. Chunks) \X Offsets
    BY <1>1, <2>1, <2>3
  <2>9. \A r : PageOf(r)' = PageOf(r)
    BY <2>8 DEF PageOf, Page, OfChunk, UpTo
  <2> HIDE DEF ms, fewer
  <2> QED
    BY <2>5, <2>6, <2>7, <2>8, <2>9 DEF PagesRead, OfChunksTo, OnNoPage, ReadOrToCome
<1>7. Reading(s, t, Chunks)'  BY <1>5, <1>6 DEF Reading
<1>8. t = "kssbV2" => Full(s, "fbl3n")'
  <2>1. t = "kssbV2" => Full(s, "fbl3n")  BY <1>1, <1>2 DEF Contents
  <2> QED  BY <1>1, <2>1, FullStays DEF Tables, Reports
<1> QED  BY <1>1, <1>3, <1>7, <1>8 DEF Contents, Reports

\* All pages have come.
LEMMA DeleteContents ==
  ASSUME Shape, Undisturbed, Unshifted, NEW s \in Syncs, Delete(s)
  PROVE  Contents(s)'
<1>1. PICK t : t = sync[s].on  OBVIOUS
<1>2. /\ sync'[s].at = "locking" /\ sync'[s].on = t /\ sync'[s].new = sync[s].new
      /\ sync'[s].counted = sync[s].counted /\ sync[s].on = t
      /\ UNCHANGED <<ledger, table>> /\ sync[s] # Idle
  BY <1>1, DeleteFields
<1>3. sync[s].at = "pages" /\ sync[s].pages = {}  BY DEF Delete, At
<1>4. Contents(s)  BY <1>2 DEF Unshifted
<1>5. ASSUME t \in Reports PROVE Full(s, t)
  <2>1. Reading(s, t, Chunks)  BY <1>2, <1>3, <1>4, <1>5 DEF Contents
  <2>2. PICK ps \in SUBSET ledger :
          sync[s].new[t] = Once(ps) /\ \A p \in sync[s].counted[t] : p \in ps
    BY <1>3, <2>1 DEF Reading, PagesRead, ReadOrToCome
  <2>3. sync[s].counted[t] \subseteq ps  BY <2>2
  <2> QED  BY <2>1, <2>2, <2>3 DEF Reading, Full, Holds
<1>6. t \in Reports => Full(s, t)'  BY <1>2, <1>5, FullStays
<1>7. t = "kssbV2" => Full(s, "fbl3n")'
  <2>1. t = "kssbV2" => Full(s, "fbl3n")  BY <1>2, <1>3, <1>4 DEF Contents
  <2> QED  BY <1>2, <2>1, FullStays
<1>8. t = "actuals" => Derived(s)'
  <2>1. t = "actuals" => Derived(s)  BY <1>2, <1>3, <1>4 DEF Contents
  <2> QED  BY <1>2, <2>1, DerivedStays
<1> QED  BY <1>2, <1>6, <1>7, <1>8 DEF Contents

LEMMA LockContents ==
  ASSUME Shape, Undisturbed, Unshifted, NEW s \in Syncs, Lock(s)
  PROVE  Contents(s)'
<1>1. PICK t \in Tables :
        /\ sync[s] # Idle /\ sync[s].at = "locking" /\ sync[s].on = t
        /\ sync'[s].at = (IF t = "fbl3n" THEN "first" ELSE "commit")
        /\ sync'[s].on = (IF t = "fbl3n" THEN "kssbV2" ELSE t)
        /\ sync'[s].chunk = 1 /\ sync[s].pages = {} /\ sync'[s].pages = {}
        /\ sync'[s].new = sync[s].new /\ sync'[s].counted = sync[s].counted
        /\ UNCHANGED <<ledger, table>>
  BY LockOf
<1>2. Contents(s) /\ Course(s)  BY <1>1 DEF Undisturbed, Unshifted
<1>3. /\ t \in Reports => Full(s, t)
      /\ t = "kssbV2" => Full(s, "fbl3n")
      /\ t = "actuals" => Derived(s)
      /\ t = "fbl3n" => Fresh(s, "kssbV2")
  BY <1>1, <1>2 DEF Contents, Course
<1>4. /\ t \in Reports => Full(s, t)'
      /\ t = "kssbV2" => Full(s, "fbl3n")'
      /\ t = "actuals" => Derived(s)'
  BY <1>1, <1>3, FullStays, DerivedStays
<1>5. t = "fbl3n" => Reading(s, "kssbV2", 0)'
  <2> SUFFICES ASSUME t = "fbl3n" PROVE Reading(s, "kssbV2", 0)'
    OBVIOUS
  <2>1. Reading(s, "kssbV2", 0)
    BY <1>1, <1>3, FreshIsRead DEF Unshifted, Tables, Reports
  <2>2. \A request \in sync[s].pages :
          /\ PageOf(request) \subseteq PageOf(request)'
          /\ PageOf(request)' \cap ledger \subseteq PageOf(request)
    BY <1>1
  <2> QED  BY <1>1, <2>1, <2>2, ReadingStays
<1>6. CASE t = "fbl3n"
  <2>1. 1 - 1 = 0  OBVIOUS
  <2> QED  BY <1>1, <1>4, <1>5, <1>6, <2>1 DEF Contents, Reports
<1>7. CASE t = "kssbV2"  BY <1>1, <1>4, <1>7 DEF Contents, Reports
<1>8. CASE t = "actuals"  BY <1>1, <1>4, <1>8 DEF Contents, Reports
<1> QED  BY <1>6, <1>7, <1>8 DEF Tables, Reports

LEMMA ReadCopyContents ==
  ASSUME Shape, Undisturbed, Unshifted, NEW s \in Syncs, ReadCopy(s)
  PROVE  Contents(s)'
<1>1. /\ sync'[s].at = "pages" /\ sync'[s].on = "actuals"
      /\ sync'[s].new = [sync[s].new EXCEPT !["actuals"] = Total("fbl3n")]
      /\ UNCHANGED <<ledger, table>>
      /\ sync[s] # Idle /\ Shaped(sync[s])
  BY ReadCopyFields
<1>2. sync'[s].new["actuals"] = Total("fbl3n")
  BY <1>1 DEF Shaped, PerTable, Tables
<1>3. StoredIsWhole /\ StoredOnce  BY DEF Undisturbed, Unshifted
<1>4. \A p \in Postings : Total("fbl3n")[p] > 0 <=> \E f \in table["fbl3n"] : f.rows[p] > 0
  BY <1>3, TotalOfTable DEF Tables, Reports
<1>5. Holds(Total("fbl3n"), {})  BY <1>3, TotalHolds
<1>6. \A b \in table["actuals"] : \A p \in Postings : b.rows[p] > 0 => Total("fbl3n")[p] > 0
  BY <1>3, <1>4 DEF StoredIsWhole
<1> HIDE DEF Total
<1>7. Derived(s)'  BY <1>1, <1>2, <1>4, <1>5, <1>6 DEF Derived, Holds
<1> QED  BY <1>1, <1>7 DEF Contents, Reports

-----------------------------------------------------------------------------
(* Steps: a commit.                                                         *)

\* What a table becomes.
LEMMA CommitTables ==
  ASSUME Shape, NEW s \in Syncs, Commit(s), NEW t \in Tables
  PROVE  table'[t] = IF t \in Committed(s) THEN (table[t] \ sync[s].doomed[t]) \cup Inserted(s, t)
                                           ELSE table[t]
  BY DEF Commit

\* Nobody else has touched the tables since their DELETE: the new rows replace
\* them.
LEMMA ReportsReplaced ==
  ASSUME Shape, Undisturbed, NEW s \in Syncs, Commit(s), sync[s].on # "actuals"
  PROVE  /\ table'["actuals"] = table["actuals"]
         /\ \A t \in Reports : table'[t] = Inserted(s, t)
<1>1. sync[s] # Idle /\ sync[s].at = "commit" /\ Shaped(sync[s])  BY DEF Commit, At, Shape
<1>2. Course(s)  BY <1>1 DEF Undisturbed
<1>3. sync[s].on = "kssbV2"  BY <1>1, <1>2 DEF Course, Shaped, Tables, Reports
<1>4. Doomed(s, "fbl3n") /\ Doomed(s, "kssbV2")  BY <1>1, <1>2, <1>3 DEF Course
<1>5. Committed(s) = Reports  BY <1>3 DEF Committed
<1>6. ASSUME NEW t \in Reports PROVE table'[t] = Inserted(s, t)
  <2>1. Doomed(s, t)  BY <1>4 DEF Reports
  <2>2. table[t] \ sync[s].doomed[t] = {}  BY <2>1 DEF Doomed
  <2>3. table'[t] = (table[t] \ sync[s].doomed[t]) \cup Inserted(s, t)
    BY <1>5, <1>6, CommitTables DEF Tables
  <2> QED  BY <2>2, <2>3
<1>7. table'["actuals"] = table["actuals"]
  BY <1>5, CommitTables DEF Tables, Reports
<1> QED  BY <1>6, <1>7

LEMMA ActualsReplaced ==
  ASSUME Shape, Undisturbed, NEW s \in Syncs, Commit(s), sync[s].on = "actuals"
  PROVE  /\ \A t \in Reports : table'[t] = table[t]
         /\ table'["actuals"] = Inserted(s, "actuals")
<1>1. sync[s] # Idle /\ sync[s].at = "commit"  BY DEF Commit, At
<1>2. sync[s].doomed["actuals"] = table["actuals"]
  BY <1>1 DEF Undisturbed, Course, Doomed
<1>3. Committed(s) = {"actuals"}  BY DEF Committed
<1>4. table["actuals"] \ sync[s].doomed["actuals"] = {}  BY <1>2
<1>5. table'["actuals"] = (table["actuals"] \ sync[s].doomed["actuals"]) \cup Inserted(s, "actuals")
  BY <1>3, CommitTables DEF Tables
<1>6. \A t \in Reports : table'[t] = table[t]
  BY <1>3, CommitTables DEF Tables, Reports
<1> QED  BY <1>4, <1>5, <1>6

LEMMA InsertedRow ==
  ASSUME NEW s, NEW t, NEW b \in Inserted(s, t)
  PROVE  b.by = sync[s].by /\ b.rows = sync[s].new[t] /\ b.counted = sync[s].counted[t]
  BY DEF Inserted

\* What is committed was read to its end, or derived from what was.
LEMMA CommitContents ==
  ASSUME Shape, Undisturbed, Unshifted, NEW s \in Syncs, Commit(s)
  PROVE  /\ sync[s].on # "actuals" => \A t \in Reports : Full(s, t)
         /\ sync[s].on = "actuals" => Derived(s)
<1>1. sync[s] # Idle /\ sync[s].at = "commit" /\ Shaped(sync[s])  BY DEF Commit, At, Shape
<1>2. Course(s) /\ Contents(s)  BY <1>1 DEF Undisturbed, Unshifted
<1>3. sync[s].on # "actuals" => sync[s].on = "kssbV2"
  BY <1>1, <1>2 DEF Course, Shaped, Tables, Reports
<1> QED  BY <1>1, <1>2, <1>3 DEF Contents, Reports

\* No table loses a posting it had.
LEMMA CommitKeeps ==
  ASSUME Shape, Undisturbed, Unshifted, NEW s \in Syncs, Commit(s), NEW t \in Tables,
         NEW b \in table[t], NEW p \in Postings, b.rows[p] > 0
  PROVE  \E c \in table'[t] : c.rows[p] > 0
<1>1. CASE sync[s].on # "actuals" /\ t \in Reports
  <2>1. Full(s, t) /\ table'[t] = Inserted(s, t)
    BY <1>1, ReportsReplaced, CommitContents
  <2>2. PICK ps \in SUBSET ledger : sync[s].counted[t] \subseteq ps /\ sync[s].new[t] = Once(ps)
    BY <2>1 DEF Full, Holds
  <2>3. ChunkOf[p] <= Chunks  BY SapCacheAssumption DEF Postings
  <2>4. p \in sync[s].counted[t]  BY <2>1, <2>3 DEF Full, Begun
  <2>5. sync[s].new[t][p] > 0  BY <2>2, <2>4, OnceIsRows
  <2>6. PICK c : c \in Inserted(s, t)  BY DEF Inserted
  <2> QED  BY <2>1, <2>5, <2>6, InsertedRow
<1>2. CASE sync[s].on = "actuals" /\ t = "actuals"
  <2>1. Derived(s) /\ table'[t] = Inserted(s, t)
    BY <1>2, ActualsReplaced, CommitContents
  <2>2. sync[s].new[t][p] > 0  BY <1>2, <2>1 DEF Derived
  <2>3. PICK c : c \in Inserted(s, t)  BY DEF Inserted
  <2> QED  BY <2>1, <2>2, <2>3, InsertedRow
<1>3. CASE table'[t] = table[t]  BY <1>3
<1> QED  BY <1>1, <1>2, <1>3, ReportsReplaced, ActualsReplaced DEF Tables, Reports

LEMMA CommitStoredOnce ==
  ASSUME Shape, Undisturbed, NEW s \in Syncs, Commit(s)
  PROVE  StoredOnce'
<1>1. StoredOnce  BY DEF Undisturbed
<1>2. \A t \in Tables : \A b, c \in Inserted(s, t) : b = c  BY DEF Inserted
<1>3. CASE sync[s].on = "actuals"
  <2>1. (\A t \in Reports : table'[t] = table[t]) /\ table'["actuals"] = Inserted(s, "actuals")
    BY <1>3, ActualsReplaced
  <2> QED  BY <1>1, <1>2, <2>1 DEF StoredOnce, Tables
<1>4. CASE sync[s].on # "actuals"
  <2>1. /\ table'["actuals"] = table["actuals"]
        /\ \A t \in Reports : table'[t] = Inserted(s, t)
    BY <1>4, ReportsReplaced
  <2>2. \A t, u \in Reports : \A b \in table'[t], c \in table'[u] : b.by = c.by
    BY <2>1, InsertedRow
  <2> QED  BY <1>1, <1>2, <2>1, <2>2 DEF StoredOnce, Tables
<1> QED  BY <1>3, <1>4

LEMMA CommitStoredIsWhole ==
  ASSUME Shape, Undisturbed, Unshifted, NEW s \in Syncs, Commit(s)
  PROVE  StoredIsWhole'
<1>1. ledger' = ledger /\ StoredIsWhole  BY DEF Commit, Unshifted
<1>2. ASSUME NEW b \in table'["actuals"], NEW p \in Postings, b.rows[p] > 0
      PROVE \E f \in table'["fbl3n"] : f.rows[p] > 0
  <2>1. \E f \in table["fbl3n"] : f.rows[p] > 0
    <3>1. CASE sync[s].on = "actuals"
      <4>1. Derived(s) /\ b.rows = sync[s].new["actuals"]
        BY <1>2, <3>1, ActualsReplaced, CommitContents, InsertedRow
      <4> QED  BY <1>2, <4>1 DEF Derived
    <3>2. CASE sync[s].on # "actuals"
      <4>1. b \in table["actuals"]  BY <1>2, <3>2, ReportsReplaced
      <4> QED  BY <1>1, <1>2, <4>1 DEF StoredIsWhole
    <3> QED  BY <3>1, <3>2
  <2> QED  BY <1>2, <2>1, CommitKeeps DEF Tables, Reports
<1>3. CASE sync[s].on = "actuals"
  <2>1. /\ \A t \in Reports : table'[t] = table[t]
        /\ Derived(s) /\ table'["actuals"] = Inserted(s, "actuals")
    BY <1>3, ActualsReplaced, CommitContents
  <2>2. \A b \in table'["actuals"] : Holds(b.rows, {})'
    BY <1>1, <2>1, InsertedRow DEF Derived, Holds
  <2>3. \A t \in Reports : \A b \in table'[t] : Holds(b.rows, b.counted)'
    BY <1>1, <2>1 DEF StoredIsWhole, Holds
  <2> QED  BY <1>2, <2>2, <2>3 DEF StoredIsWhole
<1>4. CASE sync[s].on # "actuals"
  <2>1. /\ table'["actuals"] = table["actuals"]
        /\ \A t \in Reports : Full(s, t) /\ table'[t] = Inserted(s, t)
    BY <1>4, ReportsReplaced, CommitContents
  <2>2. \A t \in Reports : \A b \in table'[t] : Holds(b.rows, b.counted)'
    BY <1>1, <2>1, InsertedRow DEF Full, Holds
  <2>3. \A b \in table'["actuals"] : Holds(b.rows, {})'
    BY <1>1, <2>1 DEF StoredIsWhole, Holds
  <2> QED  BY <1>2, <2>2, <2>3 DEF StoredIsWhole
<1> QED  BY <1>3, <1>4

-----------------------------------------------------------------------------
(* The invariant is inductive.                                              *)

LEMMA StoredStays ==
  ASSUME table' = table, ledger \subseteq ledger'
  PROVE  (StoredOnce => StoredOnce') /\ (StoredIsWhole => StoredIsWhole')
  BY DEF StoredOnce, StoredIsWhole, Holds

\* While one synchronisation moves and the tables are left alone, the others
\* are on their course as before.
LEMMA UndisturbedAfter ==
  ASSUME Undisturbed, NEW s \in Syncs, \A r \in Syncs \ {s} : sync'[r] = sync[r],
         UNCHANGED <<ledger, table>>,
         Working(s)' => Working(s) \/ \A r \in Syncs \ {s} : ~Working(r),
         sync'[s] # Idle => Course(s)'
  PROVE  Undisturbed'
<1>1. StoredOnce'  BY StoredStays DEF Undisturbed
<1>2. ASSUME NEW q \in Syncs, NEW r \in Syncs, Working(q)', Working(r)' PROVE q = r
  BY <1>2 DEF Undisturbed, Working
<1>3. ASSUME NEW r \in Syncs, sync'[r] # Idle PROVE Course(r)'
  <2>1. CASE r = s  BY <1>3, <2>1
  <2>2. CASE r # s
    <3>1. sync'[r] = sync[r] /\ Course(r)  BY <1>3, <2>2 DEF Undisturbed
    <3> QED  BY <3>1 DEF Course, Fresh, Doomed
  <2> QED  BY <2>1, <2>2
<1> QED  BY <1>1, <1>2, <1>3 DEF Undisturbed

LEMMA UnshiftedAfter ==
  ASSUME Unshifted, NEW s \in Syncs, \A r \in Syncs \ {s} : sync'[r] = sync[r],
         UNCHANGED <<ledger, table>>, sync'[s] # Idle => Contents(s)'
  PROVE  Unshifted'
<1>1. StoredIsWhole'  BY StoredStays DEF Unshifted
<1>2. ASSUME NEW r \in Syncs, sync'[r] # Idle PROVE Contents(r)'
  <2>1. CASE r = s  BY <1>2, <2>1
  <2>2. CASE r # s
    <3>1. sync'[r] = sync[r] /\ Contents(r)  BY <1>2, <2>2 DEF Unshifted
    <3> QED  BY <3>1, PagesStay, ContentsStay
  <2> QED  BY <2>1, <2>2
<1> QED  BY <1>1, <1>2 DEF Unshifted

\* What SAP posts behind the others of its chunk, or while no page of the
\* chunk is to be read, is on no page it was not on, and moves none.
LEMMA PostUnshifted ==
  ASSUME Shape, Unshifted, NEW p \in Postings, Post(p), ~shifted'
  PROVE  Unshifted'
<1>1. /\ p \notin ledger /\ ledger' = ledger \cup {p} /\ UNCHANGED <<table, sync>>
      /\ ledger \subseteq Postings
  BY DEF Post, database, Shape
<1>2. ASSUME NEW s \in Syncs, sync[s] # Idle, NEW request \in sync[s].pages
      PROVE  /\ PageOf(request) \subseteq PageOf(request)'
             /\ PageOf(request)' \cap ledger \subseteq PageOf(request)
  <2>1. PICK c, o : c = request[1] /\ o = request[2]  OBVIOUS
  <2>2. c = ChunkOf[p] => ~ComesBeforeOthers(p)
    BY <1>2, <2>1 DEF Post, Awaits
  <2>3. Page(c, o) \subseteq Page(c, o)' /\ Page(c, o)' \subseteq Page(c, o) \cup {p}
    BY <1>1, <2>2, LastMovesNone
  <2> QED  BY <1>1, <2>1, <2>3 DEF PageOf
<1>3. ASSUME NEW s \in Syncs, sync'[s] # Idle PROVE Contents(s)'
  <2>1. Contents(s) /\ sync'[s] = sync[s] /\ table' = table /\ ledger \subseteq ledger'
    BY <1>1, <1>3 DEF Unshifted
  <2> QED  BY <1>2, <1>3, <2>1, ContentsStay
<1>4. StoredIsWhole'  BY <1>1, StoredStays DEF Unshifted
<1> QED  BY <1>3, <1>4 DEF Unshifted

\* Only a synchronisation that begins makes two overlap, and only a posting
\* shifts pages; neither is forgotten, and neither changes a table.
LEMMA HistoryStep ==
  ASSUME [Next]_vars
  PROVE  /\ overlapped => overlapped'
         /\ shifted => shifted'
         /\ \/ (overlapped' => overlapped) /\ (shifted' => shifted)
            \/ table' = table /\ ledger \subseteq ledger'
<1> USE DEF database, history, rest
<1>1. ASSUME NEW s \in Syncs, Mark(s)
      PROVE (overlapped => overlapped') /\ UNCHANGED <<ledger, table, shifted>>
  BY <1>1 DEF Mark
<1>2. ASSUME NEW p \in Postings, Post(p)
      PROVE (shifted => shifted') /\ UNCHANGED <<table, overlapped>> /\ ledger \subseteq ledger'
  BY <1>2 DEF Post
<1>3. CASE UNCHANGED history  BY <1>3
<1>4. ASSUME NEW s \in Syncs,
             \/ Check(s) \/ FetchFails(s) \/ FirstPage(s) \/ Delete(s) \/ Lock(s) \/ Commit(s)
             \/ ReadCopy(s) \/ Finish(s) \/ \E request \in Requests : NextPage(s, request)
      PROVE UNCHANGED history
  BY <1>4 DEF Check, FetchFails, FirstPage, NextPage, Delete, Lock, Commit, ReadCopy, Finish
<1>5. ASSUME \/ \E b \in table["actuals"], p \in ToMap : MapPosting(b, p)
             \/ Crash \/ RowAges \/ UNCHANGED vars
      PROVE UNCHANGED history
  BY <1>5 DEF MapPosting, Crash, RowAges, vars
<1> QED  BY <1>1, <1>2, <1>3, <1>4, <1>5 DEF Next, Step

LEMMA UndisturbedStep ==
  ASSUME CopyInv, [Next]_vars, ~overlapped'
  PROVE  Undisturbed'
<1>1. Shape /\ Shape'  BY ShapeStep DEF CopyInv
<1>2. ~overlapped /\ Undisturbed  BY HistoryStep DEF CopyInv
<1>3. ASSUME NEW s \in Syncs, Check(s) PROVE Undisturbed'
  <2>1. /\ \A r \in Syncs \ {s} : sync'[r] = sync[r]
        /\ sync'[s].at = "cleared" /\ sync'[s].on = "fbl3n" /\ sync'[s].pages = {}
        /\ sync'[s].chunk = 1
        /\ \A t \in Tables : sync'[s].new[t] = NoRows /\ sync'[s].counted[t] = {}
        /\ UNCHANGED <<ledger, table>>
    BY <1>1, <1>3, CheckFields
  <2>2. Fresh(s, "fbl3n")' /\ Fresh(s, "kssbV2")'
    BY <2>1 DEF Fresh, NoRows, Tables, Reports
  <2>3. Course(s)'  BY <2>1, <2>2 DEF Course
  <2>4. ~Working(s)'  BY <2>1 DEF Working
  <2> QED  BY <1>2, <2>1, <2>3, <2>4, UndisturbedAfter
<1>4. ASSUME NEW s \in Syncs, Mark(s) PROVE Undisturbed'
  <2>1. /\ \A r \in Syncs \ {s} : sync'[r] = sync[r]
        /\ sync'[s].at = "first" /\ sync'[s].on = sync[s].on /\ sync'[s].pages = sync[s].pages
        /\ sync'[s].new = sync[s].new /\ sync'[s].counted = sync[s].counted
        /\ UNCHANGED <<ledger, table>> /\ sync[s] # Idle
    BY <1>1, <1>4, MarkFields
  <2>2. sync[s].on = "fbl3n" /\ sync[s].pages = {} /\ Fresh(s, "kssbV2")
    BY <1>2, <1>4, <2>1 DEF Mark, At, Undisturbed, Course
  <2>3. Fresh(s, "kssbV2")'  BY <2>1, <2>2 DEF Fresh, NoRows
  <2>4. Course(s)'  BY <2>1, <2>2, <2>3 DEF Course, Reports
  <2>5. \A r \in Syncs \ {s} : ~Working(r)  BY <1>4 DEF Mark
  <2> QED  BY <1>2, <2>1, <2>4, <2>5, UndisturbedAfter
<1>5. ASSUME NEW s \in Syncs,
             \/ FirstPage(s) \/ (\E request \in Requests : NextPage(s, request))
             \/ Delete(s) \/ Lock(s) \/ ReadCopy(s)
      PROVE Undisturbed'
  <2>1. (\A r \in Syncs \ {s} : sync'[r] = sync[r]) /\ UNCHANGED <<ledger, table>>
    BY <1>1, <1>5, FirstPageFields, NextPageFields, DeleteFields, LockFields, ReadCopyFields
  <2>2. Working(s)  BY <1>5 DEF FirstPage, NextPage, Delete, Lock, ReadCopy, At, Working
  <2>3. Course(s)'
    BY <1>1, <1>2, <1>5, FirstPageCourse, NextPageCourse, DeleteCourse, LockCourse,
       ReadCopyCourse
  <2> QED  BY <1>2, <2>1, <2>2, <2>3, UndisturbedAfter
<1>6. ASSUME NEW s \in Syncs, Commit(s) PROVE Undisturbed'
  <2>1. /\ sync'[s].at \in {"finish", "read"} /\ sync'[s].on = sync[s].on
        /\ sync'[s].pages = sync[s].pages
        /\ \A r \in Syncs \ {s} : sync'[r] = sync[r]
        /\ sync[s] # Idle /\ sync[s].at = "commit"
    BY <1>1, <1>6, CommitFields DEF Commit, At
  <2>2. Course(s)'  BY <1>2, <2>1 DEF Course, Undisturbed
  <2>3. ASSUME NEW r \in Syncs \ {s}, sync'[r] # Idle PROVE Course(r)'
    <3>1. sync[r].at = "cleared" /\ sync'[r] = sync[r]
      BY <1>2, <2>1, <2>3 DEF Undisturbed, Working
    <3>2. Course(r)  BY <1>2, <2>1, <2>3 DEF Undisturbed
    <3> QED  BY <3>1, <3>2 DEF Course, Fresh, NoRows
  <2>4. ASSUME NEW q \in Syncs, NEW r \in Syncs, Working(q)', Working(r)' PROVE q = r
    BY <1>2, <2>1, <2>4 DEF Undisturbed, Working
  <2>5. StoredOnce'  BY <1>1, <1>2, <1>6, CommitStoredOnce
  <2> QED  BY <2>2, <2>3, <2>4, <2>5 DEF Undisturbed
<1>7. ASSUME NEW s \in Syncs, Finish(s) \/ FetchFails(s) PROVE Undisturbed'
  <2>1. sync' = [sync EXCEPT ![s] = Idle] /\ UNCHANGED <<ledger, table>>
    BY <1>7 DEF Finish, FetchFails, database
  <2>2. sync'[s] = Idle /\ \A r \in Syncs \ {s} : sync'[r] = sync[r]
    BY <1>1, <2>1, SyncsAfter
  <2> QED  BY <1>2, <2>1, <2>2, UndisturbedAfter DEF Working
<1>8. ASSUME UNCHANGED <<table, sync>>, ledger \subseteq ledger' PROVE Undisturbed'
  <2>1. ASSUME NEW s \in Syncs, sync'[s] # Idle PROVE Course(s)'
    <3>1. Course(s) /\ sync'[s] = sync[s] /\ table' = table
      BY <1>2, <1>8, <2>1 DEF Undisturbed
    <3> QED  BY <3>1 DEF Course, Fresh, NoRows, Doomed
  <2>2. StoredOnce'  BY <1>2, <1>8, StoredStays DEF Undisturbed
  <2> QED  BY <1>2, <1>8, <2>1, <2>2 DEF Undisturbed, Working
<1>9. ASSUME NEW b \in table["actuals"], NEW p \in ToMap, MapPosting(b, p) PROVE Undisturbed'
  BY <1>8, <1>9 DEF MapPosting
<1>10. ASSUME NEW p \in Postings, Post(p) PROVE Undisturbed'
  BY <1>8, <1>10 DEF Post, database
<1>11. CASE Crash
  <2>1. StoredOnce'  BY <1>2, <1>11, StoredStays DEF Crash, database, Undisturbed
  <2>2. \A s \in Syncs : sync'[s] = Idle  BY <1>11 DEF Crash
  <2> QED  BY <2>1, <2>2 DEF Undisturbed, Working
<1>12. CASE RowAges  BY <1>8, <1>12 DEF RowAges, database
<1>13. CASE UNCHANGED vars  BY <1>8, <1>13 DEF vars
<1> QED
  BY <1>3, <1>4, <1>5, <1>6, <1>7, <1>9, <1>10, <1>11, <1>12, <1>13 DEF Next, Step

LEMMA UnshiftedStep ==
  ASSUME CopyInv, [Next]_vars, ~overlapped', ~shifted'
  PROVE  Unshifted'
<1>1. Shape /\ Shape'  BY ShapeStep DEF CopyInv
<1>2. ~overlapped /\ ~shifted /\ Undisturbed /\ Unshifted  BY HistoryStep DEF CopyInv
<1>3. ASSUME NEW s \in Syncs, Check(s) PROVE Unshifted'
  <2>1. /\ \A r \in Syncs \ {s} : sync'[r] = sync[r]
        /\ sync'[s].at = "cleared" /\ UNCHANGED <<ledger, table>>
    BY <1>1, <1>3, CheckFields
  <2>2. Contents(s)'  BY <2>1 DEF Contents
  <2> QED  BY <1>2, <2>1, <2>2, UnshiftedAfter
<1>4. ASSUME NEW s \in Syncs, Mark(s) PROVE Unshifted'
  <2>1. /\ \A r \in Syncs \ {s} : sync'[r] = sync[r]
        /\ sync'[s].at = "first" /\ sync'[s].on = sync[s].on /\ sync'[s].pages = sync[s].pages
        /\ sync'[s].chunk = sync[s].chunk
        /\ sync'[s].new = sync[s].new /\ sync'[s].counted = sync[s].counted
        /\ UNCHANGED <<ledger, table>> /\ sync[s] # Idle
    BY <1>1, <1>4, MarkFields
  <2>2. sync[s].on = "fbl3n" /\ sync[s].pages = {} /\ sync[s].chunk = 1 /\ Fresh(s, "fbl3n")
    BY <1>2, <1>4, <2>1 DEF Mark, At, Undisturbed, Course
  <2>3. Reading(s, "fbl3n", 0)
    BY <1>1, <1>2, <2>2, FreshIsRead DEF Unshifted, Tables, Reports
  <2>4. Reading(s, "fbl3n", 0)'  BY <2>1, <2>2, <2>3, ReadingStays
  <2>5. sync'[s].chunk - 1 = 0 /\ sync'[s].on = "fbl3n"  BY <2>1, <2>2
  <2>6. Contents(s)'  BY <2>1, <2>4, <2>5 DEF Contents
  <2> QED  BY <1>2, <2>1, <2>6, UnshiftedAfter
<1>5. ASSUME NEW s \in Syncs,
             \/ FirstPage(s) \/ (\E request \in Requests : NextPage(s, request))
             \/ Delete(s) \/ Lock(s) \/ ReadCopy(s)
      PROVE Unshifted'
  <2>1. (\A r \in Syncs \ {s} : sync'[r] = sync[r]) /\ UNCHANGED <<ledger, table>>
    BY <1>1, <1>5, FirstPageFields, NextPageFields, DeleteFields, LockFields, ReadCopyFields
  <2>2. Contents(s)'
    BY <1>1, <1>2, <1>5, FirstPageContents, NextPageContents, DeleteContents, LockContents,
       ReadCopyContents
  <2> QED  BY <1>2, <2>1, <2>2, UnshiftedAfter
<1>6. ASSUME NEW s \in Syncs, Commit(s) PROVE Unshifted'
  <2>1. /\ sync'[s].at \in {"finish", "read"}
        /\ \A r \in Syncs \ {s} : sync'[r] = sync[r]
        /\ sync[s] # Idle /\ sync[s].at = "commit"
    BY <1>1, <1>6, CommitFields DEF Commit, At
  <2>2. Contents(s)'  BY <2>1 DEF Contents
  <2>3. ASSUME NEW r \in Syncs \ {s}, sync'[r] # Idle PROVE Contents(r)'
    <3>1. sync[r].at = "cleared" /\ sync'[r] = sync[r]
      BY <1>2, <2>1, <2>3 DEF Undisturbed, Working
    <3> QED  BY <3>1 DEF Contents
  <2>4. StoredIsWhole'  BY <1>1, <1>2, <1>6, CommitStoredIsWhole
  <2> QED  BY <2>2, <2>3, <2>4 DEF Unshifted
<1>7. ASSUME NEW s \in Syncs, Finish(s) \/ FetchFails(s) PROVE Unshifted'
  <2>1. sync' = [sync EXCEPT ![s] = Idle] /\ UNCHANGED <<ledger, table>>
    BY <1>7 DEF Finish, FetchFails, database
  <2>2. sync'[s] = Idle /\ \A r \in Syncs \ {s} : sync'[r] = sync[r]
    BY <1>1, <2>1, SyncsAfter
  <2> QED  BY <1>2, <2>1, <2>2, UnshiftedAfter
<1>8. ASSUME UNCHANGED <<table, sync, ledger>> PROVE Unshifted'
  <2>1. \A r \in Syncs : sync'[r] = sync[r]  BY <1>8
  <2>2. ASSUME NEW s \in Syncs, sync'[s] # Idle PROVE Contents(s)'
    <3>1. Contents(s) /\ sync'[s] = sync[s]  BY <1>2, <2>1, <2>2 DEF Unshifted
    <3> QED  BY <1>8, <3>1, PagesStay, ContentsStay
  <2>3. StoredIsWhole'  BY <1>2, <1>8, StoredStays DEF Unshifted
  <2> QED  BY <2>2, <2>3 DEF Unshifted
<1>9. ASSUME NEW b \in table["actuals"], NEW p \in ToMap, MapPosting(b, p) PROVE Unshifted'
  BY <1>8, <1>9 DEF MapPosting
<1>10. ASSUME NEW p \in Postings, Post(p) PROVE Unshifted'
  BY <1>1, <1>2, <1>10, PostUnshifted
<1>11. CASE Crash
  <2>1. StoredIsWhole'  BY <1>2, <1>11, StoredStays DEF Crash, database, Unshifted
  <2>2. \A s \in Syncs : sync'[s] = Idle  BY <1>11 DEF Crash
  <2> QED  BY <2>1, <2>2 DEF Unshifted
<1>12. CASE RowAges  BY <1>8, <1>12 DEF RowAges, database
<1>13. CASE UNCHANGED vars  BY <1>8, <1>13 DEF vars
<1> QED
  BY <1>3, <1>4, <1>5, <1>6, <1>7, <1>9, <1>10, <1>11, <1>12, <1>13 DEF Next, Step

LEMMA CopyInit == Init => CopyInv
<1> SUFFICES ASSUME Init PROVE CopyInv  OBVIOUS
<1>1. Shape
  <2>1. ledger \subseteq Postings  BY SapCacheAssumption DEF Init, Postings
  <2> QED  BY <2>1 DEF Init, Shape
<1>2. \A t \in Tables : table[t] = {}  BY DEF Init
<1>3. \A s \in Syncs : sync[s] = Idle  BY DEF Init
<1>4. StoredOnce /\ StoredIsWhole  BY <1>2 DEF StoredOnce, StoredIsWhole, Tables
<1> QED  BY <1>1, <1>3, <1>4 DEF CopyInv, Undisturbed, Unshifted, Working

LEMMA CopyInvariant == Spec => []CopyInv
<1>1. CopyInv /\ [Next]_vars => CopyInv'
  BY ShapeStep, UndisturbedStep, UnshiftedStep DEF CopyInv
<1> QED  BY <1>1, CopyInit, PTL DEF Spec

-----------------------------------------------------------------------------
(* The theorems.                                                            *)

\* Until two synchronisations overlap, the copies of the reports come from the
\* same one.  Until a posting comes before others of a chunk being read, each
\* has every posting there was when its chunk was begun, none twice and none
\* made up (_fetch_all): for any page size, chunks and postings, whatever is
\* posted between two chunks or two pages, which are read in any order, and
\* wherever a synchronisation fails or its process dies.
THEOREM ReadersSeeWholeCopies == Spec => []CopiesAreWhole
<1>1. CopyInv => CopiesAreWhole
  BY DEF CopyInv, Undisturbed, Unshifted, StoredOnce, StoredIsWhole, Holds, Whole,
         CopiesAreWhole, Tables
<1> QED  BY <1>1, CopyInvariant, PTL

\* What readers see, as one formula of a state.
Seen ==
  \A t \in Tables, p \in Postings : Total(t)[p] > 0 <=> \E b \in table[t] : b.rows[p] > 0

LEMMA SeenInTables == Shape /\ StoredOnce /\ StoredIsWhole => Seen
  BY TotalOfTable DEF Seen

LEMMA SeenStep ==
  ASSUME CopyInv, [Next]_vars, ~overlapped, ~shifted, Seen, Seen', NEW t \in Tables,
         NEW p \in Postings, Total(t)[p] > 0
  PROVE  Total(t)'[p] > 0
<1>1. PICK b \in table[t] : b.rows[p] > 0  BY DEF Seen
<1>2. \E c \in table'[t] : c.rows[p] > 0
  <2>1. CASE table' = table  BY <1>1, <2>1
  <2>2. ASSUME NEW s \in Syncs, Commit(s) PROVE \E c \in table'[t] : c.rows[p] > 0
    BY <1>1, <2>2, CommitKeeps DEF CopyInv
  <2> QED
    BY <2>1, <2>2
    DEF Next, Step, vars, database, Check, Mark, FirstPage, NextPage, FetchFails, Delete, Lock,
        ReadCopy, Finish, Post, MapPosting, Crash, RowAges
<1> QED  BY <1>2 DEF Seen

\* Until then, no table loses a posting it had either: not when it is replaced
\* (sync_all_sap_raw), and the actuals not when they are derived anew
\* (sync_actuals_from_fbl3n).
THEOREM NoPostingVanishes == Spec => PostingsStay
<1> DEFINE Stay == ~overlapped /\ ~shifted =>
             \A t \in Tables, p \in Postings : Total(t)[p] > 0 => Total(t)'[p] > 0
<1>1. ASSUME CopyInv, CopyInv', [Next]_vars, ~overlapped, ~shifted
      PROVE  (Shape /\ StoredOnce /\ StoredIsWhole)'
  <2>1. CASE ~overlapped' /\ ~shifted'
    BY <1>1, <2>1 DEF CopyInv, Undisturbed, Unshifted
  <2>2. CASE overlapped' \/ shifted'
    <3>1. table' = table /\ ledger \subseteq ledger'  BY <1>1, <2>2, HistoryStep
    <3> QED  BY <1>1, <3>1, StoredStays DEF CopyInv, Undisturbed, Unshifted
  <2> QED  BY <2>1, <2>2
<1>2. ASSUME CopyInv, CopyInv', [Next]_vars, ~overlapped, ~shifted PROVE Seen /\ Seen'
  <2>1. Seen  BY <1>2, SeenInTables DEF CopyInv, Undisturbed, Unshifted
  <2>2. (Shape /\ StoredOnce /\ StoredIsWhole => Seen)'  BY SeenInTables, PTL
  <2> QED  BY <1>1, <1>2, <2>1, <2>2
<1>3. ASSUME CopyInv, CopyInv', [Next]_vars PROVE [Stay]_vars
  BY <1>2, <1>3, SeenStep
<1> QED  BY <1>3, CopyInvariant, PTL DEF Spec, PostingsStay

================================================================================
