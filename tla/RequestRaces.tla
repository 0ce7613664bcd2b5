----------------------------- MODULE RequestRaces -----------------------------
(***************************************************************************)
(* The request handlers with their awaits.  Every handler reads the row,    *)
(* checks it, and after more awaits writes its columns with an              *)
(* unconditional update by id; nothing re-reads or locks the row.  A late   *)
(* call is a handler suspended between its read and its write while other   *)
(* handlers (BudgetRequests' actions) run; a crash of the process drops it. *)
(* A reviewer's decision is recorded before the row is moved, in a          *)
(* statement of its own.                                                    *)
(***************************************************************************)
EXTENDS BudgetRequests

CONSTANTS
  Calls,       \* ids of calls that may be suspended
  LateKinds,   \* the handlers considered as late calls
  NoCall

Kinds == {"submit", "edit", "approve", "return", "reassign", "cancel",
          "returnToStage", "cut", "finalize"}
Decisions == {"approve", "return", "returnToStage"}

ASSUME RacesAssumption == LateKinds \subseteq Kinds

VARIABLES
  pending,     \* [Calls -> a suspended call or NoCall]
  logged       \* stages with an APPROVE row in ReviewDecision, ever

raceVars == <<vars, pending, logged>>

Call ==
  [kind : Kinds, request : Requests,
   seen : Row \cup {NoRow},                        \* what the write will use
   to : ChainStages \cup {Requestor} \cup Users,   \* target stage or assignee
   amount : Cuts,                                  \* of a cut
   recorded : BOOLEAN]    \* first statement done: decision or SAP posting

RacesTypeOK ==
  /\ TypeOK
  /\ pending \in [Calls -> Call \cup {NoCall}]
  /\ logged \in [Requests -> SUBSET ChainStages]

\* The cycle itself does not move here, and the forecast gate is open as it
\* always is while the forecast year is 2026.
RacesInit ==
  /\ Init
  /\ forecastReady = Departments
  /\ pending = [c \in Calls |-> NoCall]
  /\ logged = [r \in Requests |-> {}]

\* ReviewDecision rows are only ever added.
KeepDecisions == logged' = [r \in Requests |-> logged[r] \cup (signed'[r] \ signed[r])]

Running(c) == pending[c] # NoCall
Seen(c) == pending[c].seen
Target(c) == pending[c].request

-----------------------------------------------------------------------------
(* Read and check.                                                          *)

MayStart(u, q, kind, to, amount) ==
  \/ kind = "cut" /\ HasAnyRole(u, "BUDGET_OFFICER") /\ MayCut(q, amount, overdue)
  \/ /\ amount = 0
     /\ \/ kind = "edit" /\ MayEdit(u, q)
        \/ kind = "approve" /\ MayApprove(u, q, overdue, forecastReady)
           /\ to = NextStageAfter(q, q.currentStage)
        \/ kind = "return" /\ MayDecide(u, q, overdue)
           /\ to \in {Requestor, PreviousStageBefore(q, q.currentStage)}
        \/ kind = "reassign" /\ CanActOnStage(u, q, q.currentStage) /\ to \in Users
        \/ kind = "submit" /\ q.createdById = u /\ MaySubmit(q, overdue)
        \/ kind = "cancel" /\ MayCancel(u, q)
        \/ /\ HasAnyRole(u, "BUDGET_OFFICER") /\ MayActAtStep5(q, overdue)
           /\ \/ kind = "returnToStage" /\ to \in ReturnTargets(q)
              \/ kind = "finalize"

\* What a suspended call still uses of the row it read: nothing, for an edit,
\* a reassign, a cancel or a return to the requestor; the form for a submit,
\* the amounts for a finalization, the chain and the picks for a move in it.
Remembered(kind, to, q) ==
  IF \/ kind \in {"edit", "reassign", "cancel"}
     \/ kind \in {"return", "returnToStage"} /\ to = Requestor
  THEN NoRow
  ELSE [q EXCEPT !.complete = TRUE, !.status = "IN_REVIEW", !.assigneeId = NoUser,
                 !.isOverBudget = FALSE, !.overLimit = @ /\ kind = "submit",
                 !.budgetCutAmount = IF kind = "finalize" THEN @ ELSE 0]

Start(c, u, r) ==
  /\ ~Running(c) /\ Exists(r)
  /\ \E kind \in LateKinds, to \in ChainStages \cup {Requestor} \cup Users, amount \in Cuts :
       /\ kind \notin Decisions \cup {"reassign"} => to = Requestor
       /\ MayStart(u, row[r], kind, to, amount)
       /\ pending' = [pending EXCEPT ![c] =
            [kind |-> kind, request |-> r,
             seen |-> Remembered(kind, to, row[r]),
             to |-> to, amount |-> amount, recorded |-> FALSE]]
  /\ UNCHANGED <<vars, logged>>

\* logDecision of an approval or a return, the Budget Officer's included.
Decide(c) ==
  /\ Running(c) /\ ~pending[c].recorded /\ pending[c].kind \in Decisions
  /\ LET r == Target(c)
     IN  signed' = [signed EXCEPT ![r] =
           IF pending[c].kind = "approve" THEN @ \cup {Seen(c).currentStage}
           ELSE IF pending[c].to = Requestor THEN {}
           ELSE @ \cap StagesBefore(Seen(c), pending[c].to)]
  /\ pending' = [pending EXCEPT ![c].recorded = TRUE]
  /\ KeepDecisions
  /\ UNCHANGED <<row, line, sapPostings, cycleVars>>

\* The upload to SAP, before the transaction (none for NPC).
Post(c) ==
  /\ Running(c) /\ ~pending[c].recorded /\ pending[c].kind = "finalize"
  /\ PostToSap(Target(c))
  /\ pending' = [pending EXCEPT ![c].recorded = TRUE]
  /\ UNCHANGED <<row, line, signed, cycleVars, logged>>

-----------------------------------------------------------------------------
(* The write, on the row as it is now.                                      *)

\* Mutant: an approval moves the request on from where it now is.
UpdatedFromCurrent(c, q) ==
  IF pending[c].kind = "approve" /\ HasNext(q, q.currentStage)
  THEN {MovedTo(q, q, NextStageAfter(q, q.currentStage))}
  ELSE {q}

\* What the update of a call without a transaction makes of the row.  The body
\* of an edit decides no check, so that it need not be known before.
Updated(c, q) ==
  LET k == pending[c].kind
  IN  IF k = "submit" THEN {Submitted(q, Seen(c))}
      ELSE IF k = "edit" THEN EditedForms(q)
      ELSE IF k = "reassign" THEN {[q EXCEPT !.assigneeId = pending[c].to]}
      ELSE IF k = "cancel" THEN {Cancelled(q)}
      ELSE IF k = "cut" THEN {CutBy(q, Seen(c), pending[c].amount)}
      ELSE IF k = "returnToStage" THEN {ReturnedTo(q, Seen(c), pending[c].to)}
      ELSE {MovedTo(q, Seen(c), pending[c].to)}

Finish(c) == pending' = [pending EXCEPT ![c] = NoCall]

Update(c) ==
  /\ Running(c) /\ pending[c].kind # "finalize"
  /\ pending[c].kind \in Decisions => pending[c].recorded
  /\ \E q \in Updated(c, row[Target(c)]) : Write(Target(c), q)
  /\ Finish(c)
  /\ UNCHANGED <<line, signed, sapPostings, cycleVars, logged>>

\* Mutant: no transaction, the process may die before the line is written.
LateFinalizeByParts(c) ==
  /\ Running(c) /\ pending[c].kind = "finalize" /\ pending[c].recorded
  /\ LET r == Target(c)
     IN  /\ Write(r, Approved(row[r]))
         /\ line' = line \/ line' = [line EXCEPT ![r] = FinalAmount(Seen(c))]
         /\ signed' = [signed EXCEPT ![r] = @ \cup {"BUDGET_OFFICER_REVIEW"}]
  /\ Finish(c) /\ KeepDecisions
  /\ UNCHANGED <<sapPostings, cycleVars>>

\* Mutant: the transaction does not find the line's key taken.
LateFinalizeTwice(c) ==
  /\ Running(c) /\ pending[c].kind = "finalize" /\ pending[c].recorded
  /\ LET r == Target(c)
     IN  /\ Write(r, Approved(row[r]))
         /\ line' = [line EXCEPT ![r] = FinalAmount(Seen(c))]
         /\ signed' = [signed EXCEPT ![r] = @ \cup {"BUDGET_OFFICER_REVIEW"}]
  /\ Finish(c) /\ KeepDecisions
  /\ UNCHANGED <<sapPostings, cycleVars>>

\* Mutant: the transaction before the upload, which a crash or an error may
\* then leave out.
LateFinalizeBeforePost(c) ==
  /\ Running(c) /\ pending[c].kind = "finalize"
  /\ LET r == Target(c)
     IN  \/ /\ line[r] = NoLine
            /\ Write(r, Approved(row[r]))
            /\ line' = [line EXCEPT ![r] = FinalAmount(Seen(c))]
            /\ signed' = [signed EXCEPT ![r] = @ \cup {"BUDGET_OFFICER_REVIEW"}]
         \/ line[r] # NoLine /\ UNCHANGED <<row, line, signed>>
  /\ Finish(c) /\ KeepDecisions
  /\ UNCHANGED <<sapPostings, cycleVars>>

\* The transaction: the line is written from the row that was read, the
\* unique key decides.
LateFinalize(c) ==
  /\ Running(c) /\ pending[c].kind = "finalize" /\ pending[c].recorded
  /\ LET r == Target(c)
     IN  \/ /\ line[r] = NoLine
            /\ Write(r, Approved(row[r]))
            /\ line' = [line EXCEPT ![r] = FinalAmount(Seen(c))]
            /\ signed' = [signed EXCEPT ![r] = @ \cup {"BUDGET_OFFICER_REVIEW"}]
         \/ line[r] # NoLine /\ UNCHANGED <<row, line, signed>>
  /\ Finish(c) /\ KeepDecisions
  /\ UNCHANGED <<sapPostings, cycleVars>>

\* The process restarts: what was recorded or posted stays, the move is lost.
Crash ==
  /\ \E c \in Calls : Running(c)
  /\ pending' = [c \in Calls |-> NoCall]
  /\ UNCHANGED <<vars, logged>>

\* Any handler running alone while others are suspended.
Meanwhile ==
  /\ \/ \E r \in Requests, o \in Origins : Create(r, o)
     \/ \E u \in Users, r \in Requests : RequestStep(u, r)
  /\ KeepDecisions
  /\ UNCHANGED pending

RacesNext ==
  \/ Meanwhile
  \/ \E c \in Calls, u \in Users, r \in Requests : Start(c, u, r)
  \/ \E c \in Calls : Decide(c) \/ Post(c) \/ Update(c) \/ LateFinalize(c)
  \/ Crash

RacesSpec == RacesInit /\ [][RacesNext]_raceVars

-----------------------------------------------------------------------------
(* Properties that survive the races.                                       *)

\* The stages that come into a request's chain and leave it with its form:
\* the CFO's with the plan, and the Department Head's with the line item, for
\* a creator who reviews for the department of one and not of another.
FormStages(q) ==
  {"CFO_APPROVAL"} \cup
    {s \in {"DEPT_HEAD_REVIEW"} : \E i, j \in LineItems :
       /\ OwnDeptInitiated([q EXCEPT !.expenseLineItem = i])
       /\ ~OwnDeptInitiated([q EXCEPT !.expenseLineItem = j])}

\* However calls overlap or die, a request is at a stage only after every
\* earlier stage of its chain has at some time been approved, and is
\* finalized only after all of them: two reviewers approving at once never
\* skip a stage, because both write the stage after the one they read.  Not
\* so for FormStages: between the read and the write of a late approval the
\* request may be returned, changed and submitted into a chain that has one.
EarlierStagesApproved ==
  \A r \in Requests : Exists(r) =>
    /\ InReview(row[r]) /\ InChain(row[r], row[r].currentStage) =>
         StagesBefore(row[r], row[r].currentStage) \ FormStages(row[r]) \subseteq logged[r]
    /\ line[r] # NoLine =>
         {s \in ChainStages : InChain(row[r], s)} \ FormStages(row[r]) \subseteq logged[r]

\* An approved request has a line in FinalizedBudgetLine: the two are
\* written in one transaction, so no crash comes between them.
ApprovedHasALine ==
  \A r \in Requests : Exists(r) /\ row[r].currentStage = "APPROVED" => line[r] # NoLine

\* SAP is never behind what is published: each line but an NPC request's has
\* been posted, because the upload comes before the transaction that writes the
\* line, whatever crash, failed transaction or second Budget Officer comes
\* between the two.
PublishedIsInSap ==
  \A r \in Requests :
    line[r] # NoLine /\ row[r].requestCategory # "NPC" => sapPostings[r] > 0

\* The unique key keeps a finalized line as it was first written, for two
\* Budget Officers finalizing at the same time too.
RacesKeepLine ==
  [][\A r \in Requests : line[r] # NoLine => line'[r] = line[r]]_raceVars

-----------------------------------------------------------------------------
(* A statement of the code that the races break; CfoSawOverLimit is another.*)

\* finalizeAtStep5 logs the approval, calls the SAP adapter and writes the
\* line "all in the same transaction": when no finalization is under way,
\* there are as many postings as lines.
PostedWithItsLine ==
  \A r \in Requests :
    /\ Exists(r) /\ row[r].requestCategory # "NPC"
    /\ \A c \in Calls : Running(c) => Target(c) # r \/ pending[c].kind # "finalize"
    => sapPostings[r] = IF line[r] = NoLine THEN 0 ELSE 1

=============================================================================
