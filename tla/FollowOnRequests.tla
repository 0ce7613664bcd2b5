--------------------------- MODULE FollowOnRequests ---------------------------
(***************************************************************************)
(* Transfers and Internal Orders, the requests against a budget in force:   *)
(* backend-py/app/routers/transfers.py and internal_orders.py.  Both move a *)
(* ticket along stages; a handler loads the row, checks it and at commit    *)
(* updates the columns it changed, with no lock and no version.  Any calls  *)
(* may be between load and commit at the same time.  Tickets share nothing  *)
(* that matters here; the balance of a source can only refuse a submit.     *)
(***************************************************************************)
EXTENDS Naturals

CONSTANTS
  Tickets, Calls,
  Users,
  DeptHeads,                    \* Department Heads of the requestor's department
  Holders,                      \* who holds the role of a stage
  Amounts,
  CfoThreshold, CeoThreshold,   \* of transfers
  NoTicket, NoCall, NoUser

TransferStages ==
  {"DEPT_HEAD_REVIEW", "SBU_FINANCE_OFFICER_REVIEW", "SBU_FINANCE_HEAD_APPROVAL",
   "SBU_HEAD_APPROVAL", "CFO_APPROVAL", "CEO_APPROVAL",
   "SBU_FINANCE_OFFICER_COMPLETION", "BUDGET_OFFICER_SAP_UPLOAD"}

OrderStages ==
  {"DEPT_HEAD_REVIEW", "BUDGET_OFFICER_VALIDATION", "BU_FINANCE_HEAD_REVIEW",
   "BU_HEAD_AUTHORIZATION", "BU_FINANCE_OFFICER_VERIFICATION", "CFO_REVIEW",
   "CFO_AUTHORIZATION", "BUDGET_OFFICER_SAP_UPLOAD"}

ReviewStages == TransferStages \cup OrderStages

ASSUME FollowOnAssumption ==
  /\ DeptHeads \subseteq Users
  /\ Holders \in [ReviewStages -> SUBSET Users]
  /\ Amounts \subseteq Nat
  /\ CfoThreshold \in Nat /\ CeoThreshold \in Nat /\ CfoThreshold <= CeoThreshold
  /\ NoUser \notin Users

TerminalStatuses == {"REJECTED", "CANCELLED", "UPLOADED_TO_SAP"}
Statuses == {"DRAFT", "IN_REVIEW", "RETURNED"} \cup TerminalStatuses

\* kind: a transfer, or an order of either classification, DOE or GAE.
\* attached: a transfer has a supporting document.
Row ==
  [kind : {"transfer", "DOE", "GAE"}, amount : Amounts,
   stage : ReviewStages \cup {"DRAFT", "APPROVED"}, status : Statuses,
   head : Users \cup {NoUser}, override : Users \cup {NoUser}, attached : BOOLEAN]

ASSUME NoTicketAssumption == NoTicket \notin Row

IsTransfer(q) == q.kind = "transfer"

VARIABLES
  ticket,       \* the rows
  pending,      \* calls between load and commit, with the row they loaded
  signed,       \* history: approvals no later return has undone
  approved,     \* stages with an APPROVE decision, ever
  overlapped    \* history: tickets that two calls have handled at once

vars == <<ticket, pending, signed, approved, overlapped>>

Verbs == {"attach", "submit", "approve", "reject", "return", "reassign", "cancel"}
Call == [verb : Verbs, on : Tickets, seen : Row, to : Users \cup {NoUser}]

TypeOK ==
  /\ ticket \in [Tickets -> Row \cup {NoTicket}]
  /\ pending \in [Calls -> Call \cup {NoCall}]
  /\ signed \in [Tickets -> SUBSET ReviewStages]
  /\ approved \in [Tickets -> SUBSET ReviewStages]
  /\ overlapped \subseteq Tickets

Init ==
  /\ ticket = [t \in Tickets |-> NoTicket]
  /\ pending = [c \in Calls |-> NoCall]
  /\ signed = [t \in Tickets |-> {}]
  /\ approved = [t \in Tickets |-> {}]
  /\ overlapped = {}

Exists(t) == ticket[t] # NoTicket
Running(c) == pending[c] # NoCall

-----------------------------------------------------------------------------
(* Where a decision sends a ticket.                                         *)

\* Mutant: the larger threshold used for the CFO as well.
SbuHeadPassesCfo(amount) ==
  IF amount > CeoThreshold THEN "CFO_APPROVAL" ELSE "SBU_FINANCE_OFFICER_COMPLETION"

StageAfterSbuHead(amount) ==
  IF amount > CfoThreshold THEN "CFO_APPROVAL" ELSE "SBU_FINANCE_OFFICER_COMPLETION"

StageAfterCfo(amount) ==
  IF amount > CeoThreshold THEN "CEO_APPROVAL" ELSE "SBU_FINANCE_OFFICER_COMPLETION"

TransferNext(amount, stage) ==
  CASE stage = "DEPT_HEAD_REVIEW" -> "SBU_FINANCE_OFFICER_REVIEW"
    [] stage = "SBU_FINANCE_OFFICER_REVIEW" -> "SBU_FINANCE_HEAD_APPROVAL"
    [] stage = "SBU_FINANCE_HEAD_APPROVAL" -> "SBU_HEAD_APPROVAL"
    [] stage = "SBU_HEAD_APPROVAL" -> StageAfterSbuHead(amount)
    [] stage = "CFO_APPROVAL" -> StageAfterCfo(amount)
    [] stage = "CEO_APPROVAL" -> "SBU_FINANCE_OFFICER_COMPLETION"
    [] stage = "SBU_FINANCE_OFFICER_COMPLETION" -> "BUDGET_OFFICER_SAP_UPLOAD"

OrderNext(class, stage) ==
  CASE stage = "DEPT_HEAD_REVIEW" -> "BUDGET_OFFICER_VALIDATION"
    [] stage = "BUDGET_OFFICER_VALIDATION" ->
         IF class = "DOE" THEN "BU_FINANCE_HEAD_REVIEW" ELSE "CFO_REVIEW"
    [] stage = "BU_FINANCE_HEAD_REVIEW" -> "BU_HEAD_AUTHORIZATION"
    [] stage = "BU_HEAD_AUTHORIZATION" -> "BU_FINANCE_OFFICER_VERIFICATION"
    [] stage = "CFO_REVIEW" -> "CFO_AUTHORIZATION"
    [] stage \in {"BU_FINANCE_OFFICER_VERIFICATION", "CFO_AUTHORIZATION"} ->
         "BUDGET_OFFICER_SAP_UPLOAD"

NextStage(q) ==
  IF IsTransfer(q) THEN TransferNext(q.amount, q.stage) ELSE OrderNext(q.kind, q.stage)

\* Mutant: the classification not looked at.
BeforeUploadOfDoe(class) == "BU_FINANCE_OFFICER_VERIFICATION"

BeforeUpload(class) ==
  IF class = "DOE" THEN "BU_FINANCE_OFFICER_VERIFICATION" ELSE "CFO_AUTHORIZATION"

\* Orders go back one stage, transfers and first-stage orders to the requestor.
OrderReturn(class, stage) ==
  CASE stage = "BUDGET_OFFICER_VALIDATION" -> "DEPT_HEAD_REVIEW"
    [] stage \in {"BU_FINANCE_HEAD_REVIEW", "CFO_REVIEW"} -> "BUDGET_OFFICER_VALIDATION"
    [] stage = "BU_HEAD_AUTHORIZATION" -> "BU_FINANCE_HEAD_REVIEW"
    [] stage = "BU_FINANCE_OFFICER_VERIFICATION" -> "BU_HEAD_AUTHORIZATION"
    [] stage = "CFO_AUTHORIZATION" -> "CFO_REVIEW"
    [] stage = "BUDGET_OFFICER_SAP_UPLOAD" -> BeforeUpload(class)

ToRequestor(q) == IsTransfer(q) \/ q.stage = "DEPT_HEAD_REVIEW"

-----------------------------------------------------------------------------
(* Check and change of each handler, on the row it loaded.                  *)

InReview(q) == q.stage \in ReviewStages /\ q.status = "IN_REVIEW"

\* A transfer's first stage is the Department Head picked at submit; an
\* override is for that stage only and excludes everybody else.
Eligible(u, q) ==
  IF q.override # NoUser THEN u = q.override
  ELSE IF IsTransfer(q) /\ q.stage = "DEPT_HEAD_REVIEW" THEN u = q.head
  ELSE u \in Holders[q.stage]

\* Only the first document makes a difference here.
MayAttach(q) == IsTransfer(q) /\ q.status \in {"DRAFT", "RETURNED"} /\ ~q.attached

MaySubmit(q, to) ==
  /\ q.stage = "DRAFT" /\ q.status \in {"DRAFT", "RETURNED"}
  /\ IF IsTransfer(q) THEN q.attached /\ to \in DeptHeads ELSE to = NoUser

\* Mutant: the status of the row not looked at.
MayDecideByStage(u, q) == q.stage \in ReviewStages /\ Eligible(u, q)

MayDecide(u, q) == InReview(q) /\ Eligible(u, q)

MayCancel(q) == IsTransfer(q) /\ q.status \notin TerminalStatuses

May(u, verb, q, to) ==
  \/ verb = "attach" /\ MayAttach(q) /\ to = NoUser
  \/ verb = "submit" /\ MaySubmit(q, to)
  \/ verb \in {"approve", "reject", "return"} /\ MayDecide(u, q) /\ to = NoUser
  \/ verb = "reassign" /\ IsTransfer(q) /\ MayDecide(u, q) /\ to \in Users
  \/ verb = "cancel" /\ MayCancel(q) /\ to = NoUser

\* Mutant: the head picked is not stored.
SubmittedHeadless(q, to) == [q EXCEPT !.stage = "DEPT_HEAD_REVIEW", !.status = "IN_REVIEW"]

Submitted(q, to) ==
  [q EXCEPT !.stage = "DEPT_HEAD_REVIEW", !.status = "IN_REVIEW", !.head = to]

Approved(q) ==
  IF q.stage = "BUDGET_OFFICER_SAP_UPLOAD"
  THEN [q EXCEPT !.stage = "APPROVED", !.status = "UPLOADED_TO_SAP", !.override = NoUser]
  ELSE [q EXCEPT !.stage = NextStage(q), !.override = NoUser]

Returned(q) ==
  IF ToRequestor(q)
  THEN [q EXCEPT !.stage = "DRAFT", !.status = "RETURNED", !.override = NoUser]
  ELSE [q EXCEPT !.stage = OrderReturn(q.kind, q.stage)]

Changed(verb, q, to) ==
  CASE verb = "attach" -> [q EXCEPT !.attached = TRUE]
    [] verb = "submit" -> Submitted(q, to)
    [] verb = "approve" -> Approved(q)
    [] verb = "reject" -> [q EXCEPT !.status = "REJECTED", !.override = NoUser]
    [] verb = "return" -> Returned(q)
    [] verb = "reassign" -> [q EXCEPT !.override = to]
    [] verb = "cancel" -> [q EXCEPT !.status = "CANCELLED"]

\* The UPDATE of a commit: the columns that differ from what was loaded.
Merged(q, seen, new) ==
  [column \in DOMAIN q |-> IF new[column] # seen[column] THEN new[column] ELSE q[column]]

-----------------------------------------------------------------------------
(* Actions.                                                                 *)

Create(t) ==
  /\ ~Exists(t)
  /\ \E kind \in {"transfer", "DOE", "GAE"}, amount \in Amounts :
       ticket' = [ticket EXCEPT ![t] =
         [kind |-> kind, amount |-> amount, stage |-> "DRAFT", status |-> "DRAFT",
          head |-> NoUser, override |-> NoUser, attached |-> FALSE]]
  /\ UNCHANGED <<pending, signed, approved, overlapped>>

Load(c, t) ==
  /\ ~Running(c) /\ Exists(t)
  /\ \E u \in Users, verb \in Verbs, to \in Users \cup {NoUser} :
       /\ May(u, verb, ticket[t], to)
       /\ pending' = [pending EXCEPT ![c] =
            [verb |-> verb, on |-> t, seen |-> ticket[t], to |-> to]]
  /\ overlapped' = IF \E d \in Calls : Running(d) /\ pending[d].on = t
                   THEN overlapped \cup {t} ELSE overlapped
  /\ UNCHANGED <<ticket, signed, approved>>

\* The decision and the row are committed together.
Commit(c) ==
  /\ Running(c)
  /\ LET p == pending[c]
         new == Changed(p.verb, p.seen, p.to)
     IN  /\ ticket' = [ticket EXCEPT ![p.on] = Merged(@, p.seen, new)]
         /\ signed' = [signed EXCEPT ![p.on] =
              IF p.verb = "approve" THEN @ \cup {p.seen.stage}
              ELSE IF p.verb # "return" THEN @
              ELSE IF ToRequestor(p.seen) THEN {} ELSE @ \ {new.stage}]
         /\ approved' = [approved EXCEPT ![p.on] =
              IF p.verb = "approve" THEN @ \cup {p.seen.stage} ELSE @]
  /\ pending' = [pending EXCEPT ![c] = NoCall]
  /\ UNCHANGED overlapped

\* The process dies, or the commit fails: the transaction is rolled back.
Abort(c) ==
  /\ Running(c)
  /\ pending' = [pending EXCEPT ![c] = NoCall]
  /\ UNCHANGED <<ticket, signed, approved, overlapped>>

Next ==
  \/ \E t \in Tickets : Create(t)
  \/ \E c \in Calls, t \in Tickets : Load(c, t)
  \/ \E c \in Calls : Commit(c) \/ Abort(c)

Spec == Init /\ [][Next]_vars

-----------------------------------------------------------------------------
(* Properties.  Undisturbed tickets are those whose calls never overlapped. *)

Undisturbed(t) == Exists(t) /\ t \notin overlapped

\* The signatures a ticket needs, by its amount or its classification.
Needed(q) ==
  CASE q.kind = "transfer" ->
         (TransferStages \ {"CFO_APPROVAL", "CEO_APPROVAL"})
         \cup (IF q.amount > CfoThreshold THEN {"CFO_APPROVAL"} ELSE {})
         \cup (IF q.amount > CeoThreshold THEN {"CEO_APPROVAL"} ELSE {})
    [] q.kind = "DOE" -> OrderStages \ {"CFO_REVIEW", "CFO_AUTHORIZATION"}
    [] q.kind = "GAE" ->
         OrderStages \ {"BU_FINANCE_HEAD_REVIEW", "BU_HEAD_AUTHORIZATION",
                        "BU_FINANCE_OFFICER_VERIFICATION"}

\* However calls overlap, a ticket uploaded to SAP was at some time approved
\* at every stage it needs: a late approval moves a ticket to the stage after
\* the one it read, and nobody gets that far unsigned (_next_stage, decide).
UploadedIsAuthorised ==
  \A t \in Tickets :
    Exists(t) /\ ticket[t].stage = "APPROVED" => Needed(ticket[t]) \subseteq approved[t]

\* With one call at a time, what has signed since the last return is exactly
\* the run of stages that leads to the present one.
SignedInOrder ==
  \A t \in Tickets : Undisturbed(t) /\ InReview(ticket[t]) =>
    LET q == ticket[t]
    IN  /\ q.stage \in Needed(q) \ signed[t]
        /\ "DEPT_HEAD_REVIEW" \in signed[t] \cup {q.stage}
        /\ \A s \in signed[t] : NextStage([q EXCEPT !.stage = s]) \in signed[t] \cup {q.stage}

\* With one call at a time, status and stage agree: no ticket is left that
\* can be neither submitted nor decided nor is closed.
StatusFitsStage ==
  \A t \in Tickets : Undisturbed(t) =>
    /\ ticket[t].status = "IN_REVIEW" => ticket[t].stage \in ReviewStages
    /\ ticket[t].status \in {"DRAFT", "RETURNED"} => ticket[t].stage = "DRAFT"
    /\ ticket[t].status = "UPLOADED_TO_SAP" <=> ticket[t].stage = "APPROVED"

\* However calls overlap, a ticket with status IN_REVIEW has somebody who may
\* decide it.
SomeoneCanAct ==
  \A t \in Tickets : Exists(t) /\ ticket[t].status = "IN_REVIEW" =>
    \E u \in Users : MayDecide(u, ticket[t])

\* With one call at a time, a closed ticket stays as it was closed.
ClosedStaysClosed ==
  [][\A t \in Tickets :
       Undisturbed(t) /\ ticket[t].status \in TerminalStatuses => ticket'[t] = ticket[t]]_vars

\* A statement of the code that overlapping calls break: "This request is
\* already finalized and cannot be cancelled."
UploadedIsFinal ==
  [][\A t \in Tickets :
       Exists(t) /\ ticket[t].status = "UPLOADED_TO_SAP"
       => ticket'[t].status # "CANCELLED"]_vars

=============================================================================
