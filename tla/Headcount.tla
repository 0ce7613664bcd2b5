------------------------------- MODULE Headcount -------------------------------
(***************************************************************************)
(* Additional Headcount Requests and the Office 365 and mobile requests     *)
(* their approval opens (routes/additionalHeadcount.ts and                  *)
(* services/headcountWorkflowService.ts).  Every handler loads the row,     *)
(* checks its stage and writes by id after more awaits.  Calls overlap      *)
(* freely, and a restart drops them.  Codes are those of one calendar year. *)
(* The form itself, which PUT writes, is left out.                          *)
(***************************************************************************)
EXTENDS Integers, FiniteSets

CONSTANTS
  Requests,
  DecidedKinds,  \* bound: the follow-ons that are decided on, of two alike
  Calls,
  NoCall

\* The follow-ons, in the order they are created.
Kinds == {"office365", "mobile"}

ASSUME HeadcountAssumption == IsFiniteSet(Requests) /\ DecidedKinds \subseteq Kinds

ReviewStages == {"DEPT_HEAD_REVIEW", "HR_ANALYST_REVIEW", "HR_HEAD_REVIEW"}
Stages == ReviewStages \cup {"NONE", "DRAFT", "APPROVED", "RETURNED", "CANCELLED"}
Desks == {"REVIEWER_REVIEW", "APPROVER_REVIEW"}
FollowOnStages == Desks \cup {"NONE", "APPROVED", "REJECTED"}

Codes == 1 .. Cardinality(Requests) + 1
NoCode == 0

VARIABLES
  stage,    \* currentStage; "NONE" before the request is created
  code,     \* MR-yy-nnn
  logged,   \* stages with an APPROVE decision
  follow,   \* stage of the follow-ons
  signed,   \* desks that approved the follow-ons
  call,     \* suspended calls
  doubled,  \* history: two submits of one request have overlapped
  crashed   \* history: the process has restarted

vars == <<stage, code, logged, follow, signed, call, doubled, crashed>>

Verbs == {"cancel", "submit", "approve", "return", "sign", "reject"}
Steps == {"count", "write", "log", "move", "office365", "mobile"}

\* on: the stage or desk that was read.  kind: of a follow-on.
Call ==
  [verb : Verbs, at : Steps, request : Requests, on : Stages \cup Desks,
   kind : Kinds, code : Codes \cup {NoCode}]

ASSUME NoCallAssumption == NoCall \notin Call

TypeOK ==
  /\ stage \in [Requests -> Stages]
  /\ code \in [Requests -> Codes \cup {NoCode}]
  /\ logged \in [Requests -> SUBSET ReviewStages]
  /\ follow \in [Requests -> [Kinds -> FollowOnStages]]
  /\ signed \in [Requests -> [Kinds -> SUBSET Desks]]
  /\ call \in [Calls -> Call \cup {NoCall}]
  /\ doubled \in BOOLEAN /\ crashed \in BOOLEAN

Init ==
  /\ stage = [r \in Requests |-> "NONE"]
  /\ code = [r \in Requests |-> NoCode]
  /\ logged = [r \in Requests |-> {}]
  /\ follow = [r \in Requests |-> [k \in Kinds |-> "NONE"]]
  /\ signed = [r \in Requests |-> [k \in Kinds |-> {}]]
  /\ call = [c \in Calls |-> NoCall]
  /\ doubled = FALSE /\ crashed = FALSE

Running(c) == call[c] # NoCall
At(c, verbs, step) == Running(c) /\ call[c].verb \in verbs /\ call[c].at = step
Done(c) == call' = [call EXCEPT ![c] = NoCall]
Goto(c, step) == call' = [call EXCEPT ![c].at = step]

Begin(c, verb, step, r, on, kind) ==
  /\ ~Running(c)
  /\ call' = [call EXCEPT ![c] =
       [verb |-> verb, at |-> step, request |-> r, on |-> on, kind |-> kind, code |-> NoCode]]
  /\ doubled' = (doubled \/ (verb = "submit" /\
       \E d \in Calls : Running(d) /\ call[d].verb = "submit" /\ call[d].request = r))

requestVars == <<stage, code>>
decisionVars == <<logged, follow, signed>>

-----------------------------------------------------------------------------
(* The requestor.                                                           *)

Create(r) ==
  /\ stage[r] = "NONE"
  /\ stage' = [stage EXCEPT ![r] = "DRAFT"]
  /\ UNCHANGED <<code, decisionVars, call, doubled, crashed>>

\* loadOwnDraft, of cancel and submit.
StartOnDraft(c, r, verb) ==
  /\ stage[r] = "DRAFT"
  /\ Begin(c, verb, IF verb = "submit" THEN "count" ELSE "write", r, "DRAFT", "mobile")
  /\ UNCHANGED <<requestVars, decisionVars, crashed>>

Cancel(c) ==
  /\ At(c, {"cancel"}, "write")
  /\ stage' = [stage EXCEPT ![call[c].request] = "CANCELLED"]
  /\ Done(c)
  /\ UNCHANGED <<code, decisionVars, doubled, crashed>>

\* Mutant: a code is counted while its request is open.
CodedWhileOpen == {r \in Requests : code[r] # NoCode /\ stage[r] \notin {"RETURNED", "CANCELLED"}}

Coded == {r \in Requests : code[r] # NoCode}

\* generateHeadcountCode: the count of the codes there are, plus one.
Count(c) ==
  /\ At(c, {"submit"}, "count")
  /\ call' = [call EXCEPT ![c].at = "write", ![c].code = Cardinality(Coded) + 1]
  /\ UNCHANGED <<requestVars, decisionVars, doubled, crashed>>

\* The unique key refuses a code that another request has.
Submit(c) ==
  /\ At(c, {"submit"}, "write")
  /\ LET r == call[c].request IN
       IF \E other \in Requests \ {r} : code[other] = call[c].code
       THEN UNCHANGED <<stage, code>>
       ELSE /\ stage' = [stage EXCEPT ![r] = "DEPT_HEAD_REVIEW"]
            /\ code' = [code EXCEPT ![r] = call[c].code]
  /\ Done(c)
  /\ UNCHANGED <<decisionVars, doubled, crashed>>

-----------------------------------------------------------------------------
(* The department head, the HR analyst and the HR head: decide.             *)

StartDecision(c, r, on, verb) ==
  /\ stage[r] = on   \* requireStage
  /\ Begin(c, verb, "log", r, on, "mobile")
  /\ UNCHANGED <<requestVars, decisionVars, crashed>>

LogDecision(c) ==
  /\ At(c, {"approve", "return"}, "log")
  /\ logged' = IF call[c].verb = "approve"
               THEN [logged EXCEPT ![call[c].request] = @ \cup {call[c].on}] ELSE logged
  /\ Goto(c, "move")
  /\ UNCHANGED <<requestVars, follow, signed, doubled, crashed>>

\* Mutant: the follow-ons' word for it.
NextStageRejecting(verb, on) == IF verb = "return" THEN "REJECTED" ELSE "HR_ANALYST_REVIEW"

NextStage(verb, on) ==
  IF verb = "return" THEN "RETURNED"
  ELSE
  CASE on = "DEPT_HEAD_REVIEW" -> "HR_ANALYST_REVIEW"
    [] on = "HR_ANALYST_REVIEW" -> "HR_HEAD_REVIEW"
    [] OTHER -> "APPROVED"

\* Written whatever the stage is by now.
Move(c) ==
  /\ At(c, {"approve", "return"}, "move")
  /\ LET next == NextStage(call[c].verb, call[c].on)
     IN  /\ stage' = [stage EXCEPT ![call[c].request] = next]
         /\ IF next = "APPROVED" THEN Goto(c, "office365") ELSE Done(c)
  /\ UNCHANGED <<code, decisionVars, doubled, crashed>>

\* Mutant: one insert for the two.
CreateFirst(c, kind) ==
  /\ At(c, {"approve"}, kind)
  /\ follow' = [follow EXCEPT ![call[c].request][kind] = "REVIEWER_REVIEW"]
  /\ Done(c)
  /\ UNCHANGED <<requestVars, logged, signed, doubled, crashed>>

\* hrHeadHeadcountDecision goes on to create the follow-ons, one by one; the
\* unique key of the request refuses a second one, and the call ends there.
CreateFollowOn(c, kind) ==
  /\ At(c, {"approve"}, kind)
  /\ LET r == call[c].request
         new == follow[r][kind] = "NONE"
     IN  /\ follow' = IF new THEN [follow EXCEPT ![r][kind] = "REVIEWER_REVIEW"] ELSE follow
         /\ IF new /\ kind = "office365" THEN Goto(c, "mobile") ELSE Done(c)
  /\ UNCHANGED <<requestVars, logged, signed, doubled, crashed>>

-----------------------------------------------------------------------------
(* The reviewer and the approver of a follow-on.                            *)

StartFollowOn(c, r, kind, verb) ==
  /\ follow[r][kind] \in Desks
  /\ Begin(c, verb, "write", r, follow[r][kind], kind)
  /\ UNCHANGED <<requestVars, decisionVars, crashed>>

\* Mutant: a reviewer's approval is the last.
AfterDeskAtOnce(verb, desk) == IF verb = "reject" THEN "REJECTED" ELSE "APPROVED"

AfterDesk(verb, desk) ==
  CASE verb = "reject" -> "REJECTED"
    [] verb = "sign" /\ desk = "REVIEWER_REVIEW" -> "APPROVER_REVIEW"
    [] verb = "sign" /\ desk = "APPROVER_REVIEW" -> "APPROVED"

DecideFollowOn(c) ==
  /\ At(c, {"sign", "reject"}, "write")
  /\ LET r == call[c].request
         k == call[c].kind
     IN  /\ follow' = [follow EXCEPT ![r][k] = AfterDesk(call[c].verb, call[c].on)]
         /\ signed' = IF call[c].verb = "sign"
                      THEN [signed EXCEPT ![r][k] = @ \cup {call[c].on}] ELSE signed
  /\ Done(c)
  /\ UNCHANGED <<requestVars, logged, doubled, crashed>>

\* The process restarts.
Crash ==
  /\ \E c \in Calls : Running(c)
  /\ call' = [c \in Calls |-> NoCall]
  /\ crashed' = TRUE
  /\ UNCHANGED <<requestVars, decisionVars, doubled>>

Start(c) ==
  \E r \in Requests :
    \/ \E verb \in {"cancel", "submit"} : StartOnDraft(c, r, verb)
    \/ \E on \in ReviewStages, verb \in {"approve", "return"} : StartDecision(c, r, on, verb)
    \/ \E kind \in DecidedKinds, verb \in {"sign", "reject"} : StartFollowOn(c, r, kind, verb)

Continue(c) ==
  \/ Cancel(c) \/ Count(c) \/ Submit(c)
  \/ LogDecision(c) \/ Move(c) \/ (\E kind \in Kinds : CreateFollowOn(c, kind))
  \/ DecideFollowOn(c)

Next ==
  \/ \E r \in Requests : Create(r)
  \/ \E c \in Calls : Start(c) \/ Continue(c)
  \/ Crash

Spec == Init /\ [][Next]_vars

-----------------------------------------------------------------------------
(* Properties.                                                              *)

\* Reference codes are sequential, MR-yy-001, -002, ..., with no gap and no
\* code twice, however submits of different requests, cancels and returns
\* overlap: count + 1 is written under a unique key.
CodesAreSequential ==
  ~doubled =>
    /\ {code[r] : r \in Coded} = 1 .. Cardinality(Coded)
    /\ \A r, s \in Coded : code[r] = code[s] => r = s

\* A request reaches a stage only after every earlier reviewer approved it at
\* some time, has follow-ons only after all three did, and a follow-on is
\* approved only with both signatures: however late a decision is written.
DecidedInOrder ==
  \A r \in Requests :
    /\ stage[r] \in {"HR_ANALYST_REVIEW", "HR_HEAD_REVIEW"} => "DEPT_HEAD_REVIEW" \in logged[r]
    /\ stage[r] = "HR_HEAD_REVIEW" => "HR_ANALYST_REVIEW" \in logged[r]
    /\ stage[r] = "APPROVED" \/ (\E k \in Kinds : follow[r][k] # "NONE") => ReviewStages \subseteq logged[r]
    /\ \A k \in Kinds :
         /\ follow[r][k] = "APPROVER_REVIEW" => "REVIEWER_REVIEW" \in signed[r][k]
         /\ follow[r][k] = "APPROVED" => Desks \subseteq signed[r][k]

\* An approved request has both follow-ons ("automatically trigger") or a call
\* is on its way to create them, also when two approvals of the HR head
\* overlap, unless the process restarts: nothing creates them later.
ApprovalOpensFollowOns ==
  \A r \in Requests, k \in Kinds :
    stage[r] = "APPROVED" /\ follow[r][k] = "NONE" =>
      crashed \/ \E c \in Calls : Running(c) /\ call[c].request = r /\ call[c].at \in Kinds

=============================================================================
