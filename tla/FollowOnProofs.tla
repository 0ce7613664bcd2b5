----------------------------- MODULE FollowOnProofs -----------------------------
(***************************************************************************)
(* A transfer or internal order is uploaded to SAP only with every approval *)
(* it needs, for any amounts and thresholds and however many calls overlap. *)
(* What makes it inductive: a ticket, and what each pending call read of    *)
(* it, has been approved at all the stages it needs before its own.         *)
(***************************************************************************)
EXTENDS FollowOnRequests, TLAPS

\* How far a stage is along its chain.
Rank(s) ==
  CASE s = "DRAFT" -> 0
    [] s = "DEPT_HEAD_REVIEW" -> 1
    [] s \in {"SBU_FINANCE_OFFICER_REVIEW", "BUDGET_OFFICER_VALIDATION"} -> 2
    [] s \in {"SBU_FINANCE_HEAD_APPROVAL", "BU_FINANCE_HEAD_REVIEW", "CFO_REVIEW"} -> 3
    [] s \in {"SBU_HEAD_APPROVAL", "BU_HEAD_AUTHORIZATION", "CFO_AUTHORIZATION"} -> 4
    [] s \in {"CFO_APPROVAL", "BU_FINANCE_OFFICER_VERIFICATION"} -> 5
    [] s = "CEO_APPROVAL" -> 6
    [] s = "SBU_FINANCE_OFFICER_COMPLETION" -> 7
    [] s = "BUDGET_OFFICER_SAP_UPLOAD" -> 8
    [] s = "APPROVED" -> 9

\* The approvals a ticket needs before the stage it is at.
Behind(q) == {s \in Needed(q) : Rank(s) < Rank(q.stage)}

\* A row as it may be stored: a stage of its own chain, the approvals before it given.
Backed(q, given) ==
  /\ q \in Row
  /\ q.stage \in Needed(q) \cup {"DRAFT", "APPROVED"}
  /\ Behind(q) \subseteq given

TicketsBacked == \A t \in Tickets : Exists(t) => Backed(ticket[t], approved[t])

CallBacked(p) ==
  /\ p \in Call
  /\ Exists(p.on) /\ ticket[p.on].kind = p.seen.kind /\ ticket[p.on].amount = p.seen.amount
  /\ Backed(p.seen, approved[p.on])
  /\ p.verb \in {"approve", "return"} => p.seen.stage \in ReviewStages

CallsBacked == \A c \in Calls : Running(c) => CallBacked(pending[c])

IInv == TypeOK /\ TicketsBacked /\ CallsBacked

LEMMA InitEstablishes == Init => IInv
BY DEF Init, IInv, TypeOK, TicketsBacked, CallsBacked, Exists, Running

-----------------------------------------------------------------------------
(* The chains.                                                              *)

LEMMA NeededAreReviewed ==
  ASSUME NEW q \in Row
  PROVE  Needed(q) \subseteq ReviewStages
BY DEF Needed, Row, ReviewStages, TransferStages, OrderStages

\* The next stage is one the ticket needs, and nothing needed is in between.
LEMMA NextTransfer ==
  ASSUME NEW q \in Row, q.kind = "transfer", q.stage \in Needed(q),
         q.stage # "BUDGET_OFFICER_SAP_UPLOAD"
  PROVE  /\ NextStage(q) \in Needed(q) /\ Rank(q.stage) < Rank(NextStage(q))
         /\ \A s \in Needed(q) : Rank(s) < Rank(NextStage(q)) => Rank(s) < Rank(q.stage) \/ s = q.stage
<1>1. Needed(q) = (TransferStages \ {"CFO_APPROVAL", "CEO_APPROVAL"})
         \cup (IF q.amount > CfoThreshold THEN {"CFO_APPROVAL"} ELSE {})
         \cup (IF q.amount > CeoThreshold THEN {"CEO_APPROVAL"} ELSE {})
  BY DEF Needed
<1>2. NextStage(q) = TransferNext(q.amount, q.stage)
  BY DEF NextStage, IsTransfer
<1>3. q.amount \in Nat
  BY FollowOnAssumption DEF Row
<1>4. CASE q.stage \in {"DEPT_HEAD_REVIEW", "SBU_FINANCE_OFFICER_REVIEW", "SBU_FINANCE_HEAD_APPROVAL"}
  BY <1>1, <1>2, <1>4 DEF TransferNext, Rank, TransferStages
<1>5. CASE q.stage = "SBU_HEAD_APPROVAL"
  BY <1>1, <1>2, <1>3, <1>5, FollowOnAssumption
  DEF TransferNext, StageAfterSbuHead, Rank, TransferStages
<1>6. CASE q.stage = "CFO_APPROVAL"
  BY <1>1, <1>2, <1>3, <1>6, FollowOnAssumption
  DEF TransferNext, StageAfterCfo, Rank, TransferStages
<1>7. CASE q.stage \in {"CEO_APPROVAL", "SBU_FINANCE_OFFICER_COMPLETION"}
  BY <1>1, <1>2, <1>7 DEF TransferNext, Rank, TransferStages
<1> QED
  BY <1>1, <1>4, <1>5, <1>6, <1>7 DEF TransferStages

LEMMA NextOrder ==
  ASSUME NEW q \in Row, q.kind # "transfer", q.stage \in Needed(q),
         q.stage # "BUDGET_OFFICER_SAP_UPLOAD"
  PROVE  /\ NextStage(q) \in Needed(q) /\ Rank(q.stage) < Rank(NextStage(q))
         /\ \A s \in Needed(q) : Rank(s) < Rank(NextStage(q)) => Rank(s) < Rank(q.stage) \/ s = q.stage
<1>1. NextStage(q) = OrderNext(q.kind, q.stage)
  BY DEF NextStage, IsTransfer
<1>2. CASE q.kind = "DOE"
  <2>1. Needed(q) = {"DEPT_HEAD_REVIEW", "BUDGET_OFFICER_VALIDATION", "BU_FINANCE_HEAD_REVIEW",
                     "BU_HEAD_AUTHORIZATION", "BU_FINANCE_OFFICER_VERIFICATION",
                     "BUDGET_OFFICER_SAP_UPLOAD"}
    BY <1>2 DEF Needed, OrderStages
  <2> QED
    BY <1>1, <1>2, <2>1 DEF OrderNext, Rank
<1>3. CASE q.kind = "GAE"
  <2>1. Needed(q) = {"DEPT_HEAD_REVIEW", "BUDGET_OFFICER_VALIDATION", "CFO_REVIEW",
                     "CFO_AUTHORIZATION", "BUDGET_OFFICER_SAP_UPLOAD"}
    BY <1>3 DEF Needed, OrderStages
  <2> QED
    BY <1>1, <1>3, <2>1 DEF OrderNext, Rank
<1> QED
  BY <1>2, <1>3 DEF Row

\* An order goes back to a stage it needs and has passed.
LEMMA ReturnOrder ==
  ASSUME NEW q \in Row, q.kind # "transfer", q.stage \in Needed(q), q.stage # "DEPT_HEAD_REVIEW"
  PROVE  /\ OrderReturn(q.kind, q.stage) \in Needed(q)
         /\ Rank(OrderReturn(q.kind, q.stage)) < Rank(q.stage)
         /\ \A s \in Needed(q) : Rank(s) < Rank(q.stage) =>
              Rank(s) < Rank(OrderReturn(q.kind, q.stage)) \/ s = OrderReturn(q.kind, q.stage)
<1>1. CASE q.kind = "DOE"
  <2>1. Needed(q) = {"DEPT_HEAD_REVIEW", "BUDGET_OFFICER_VALIDATION", "BU_FINANCE_HEAD_REVIEW",
                     "BU_HEAD_AUTHORIZATION", "BU_FINANCE_OFFICER_VERIFICATION",
                     "BUDGET_OFFICER_SAP_UPLOAD"}
    BY <1>1 DEF Needed, OrderStages
  <2>2. CASE q.stage \in {"BUDGET_OFFICER_VALIDATION", "BU_FINANCE_HEAD_REVIEW"}
    <3>1. CASE q.stage = "BUDGET_OFFICER_VALIDATION"
      BY <1>1, <2>1, <3>1 DEF OrderReturn, Rank
    <3>2. CASE q.stage = "BU_FINANCE_HEAD_REVIEW"
      BY <1>1, <2>1, <3>2 DEF OrderReturn, Rank
    <3> QED
      BY <2>2, <3>1, <3>2
  <2>5. CASE q.stage = "BU_HEAD_AUTHORIZATION"
    BY <1>1, <2>1, <2>5 DEF OrderReturn, Rank
  <2>3. CASE q.stage = "BU_FINANCE_OFFICER_VERIFICATION"
    BY <1>1, <2>1, <2>3 DEF OrderReturn, Rank
  <2>4. CASE q.stage = "BUDGET_OFFICER_SAP_UPLOAD"
    BY <1>1, <2>1, <2>4 DEF OrderReturn, BeforeUpload, Rank
  <2> QED
    BY <2>1, <2>2, <2>3, <2>4, <2>5
<1>2. CASE q.kind = "GAE"
  <2>1. Needed(q) = {"DEPT_HEAD_REVIEW", "BUDGET_OFFICER_VALIDATION", "CFO_REVIEW",
                     "CFO_AUTHORIZATION", "BUDGET_OFFICER_SAP_UPLOAD"}
    BY <1>2 DEF Needed, OrderStages
  <2>2. CASE q.stage = "BUDGET_OFFICER_VALIDATION"
    BY <1>2, <2>1, <2>2 DEF OrderReturn, Rank
  <2>3. CASE q.stage = "CFO_REVIEW"
    BY <1>2, <2>1, <2>3 DEF OrderReturn, Rank
  <2>5. CASE q.stage = "CFO_AUTHORIZATION"
    BY <1>2, <2>1, <2>5 DEF OrderReturn, Rank
  <2>4. CASE q.stage = "BUDGET_OFFICER_SAP_UPLOAD"
    BY <1>2, <2>1, <2>4 DEF OrderReturn, BeforeUpload, Rank
  <2> QED
    BY <2>1, <2>2, <2>3, <2>4, <2>5
<1> QED
  BY <1>1, <1>2 DEF Row

\* What is before a stage does not depend on the other columns.
LEMMA BehindByStage ==
  ASSUME NEW q \in Row, NEW r \in Row, q.kind = r.kind, q.amount = r.amount, q.stage = r.stage
  PROVE  Needed(q) = Needed(r) /\ Behind(q) = Behind(r)
BY DEF Needed, Behind

LEMMA RanksInOrder ==
  ASSUME NEW q \in Row
  PROVE  /\ \A s \in Needed(q) : Rank(s) \in 1 .. 8 /\ (Rank(s) < 8 \/ s = "BUDGET_OFFICER_SAP_UPLOAD")
         /\ Rank("DRAFT") = 0 /\ Rank("DEPT_HEAD_REVIEW") = 1 /\ Rank("APPROVED") = 9
         /\ Rank("BUDGET_OFFICER_SAP_UPLOAD") = 8
         /\ "DEPT_HEAD_REVIEW" \in Needed(q)
<1>1. \A s \in ReviewStages : Rank(s) \in 1 .. 8 /\ (Rank(s) < 8 \/ s = "BUDGET_OFFICER_SAP_UPLOAD")
  BY DEF Rank, ReviewStages, TransferStages, OrderStages
<1>2. Rank("DRAFT") = 0 /\ Rank("DEPT_HEAD_REVIEW") = 1 /\ Rank("APPROVED") = 9
         /\ Rank("BUDGET_OFFICER_SAP_UPLOAD") = 8
  BY DEF Rank
<1>3. "DEPT_HEAD_REVIEW" \in Needed(q)
  BY DEF Needed, Row, TransferStages, OrderStages
<1> QED
  BY <1>1, <1>2, <1>3, NeededAreReviewed

-----------------------------------------------------------------------------
(* What a handler makes of the row it loaded.                               *)

\* Every change keeps the row backed, an approval with its own stage added.
LEMMA ChangeIsBacked ==
  ASSUME NEW q, NEW given, Backed(q, given), NEW to \in Users \cup {NoUser}, NEW verb \in Verbs,
         verb \in {"approve", "return"} => q.stage \in ReviewStages
  PROVE  LET new == Changed(verb, q, to)
         IN  /\ new.kind = q.kind /\ new.amount = q.amount
             /\ Backed(new, IF verb = "approve" THEN given \cup {q.stage} ELSE given)
<1> DEFINE new == Changed(verb, q, to)
<1>0. q \in Row
  BY DEF Backed
<1>1. CASE verb \in {"attach", "reject", "reassign", "cancel"}
  <2>1. new \in Row /\ new.kind = q.kind /\ new.amount = q.amount /\ new.stage = q.stage
    BY <1>0, <1>1 DEF Changed, Row, Statuses, TerminalStatuses
  <2> QED
    BY <1>0, <1>1, <2>1, BehindByStage DEF Backed
<1>2. CASE verb = "submit"
  <2>1. new \in Row /\ new.kind = q.kind /\ new.amount = q.amount /\ new.stage = "DEPT_HEAD_REVIEW"
    BY <1>0, <1>2 DEF Changed, Submitted, Row, Statuses, ReviewStages, TransferStages
  <2>2. Behind(new) = {}
    BY <2>1, RanksInOrder DEF Behind
  <2> QED
    BY <1>2, <2>1, <2>2, RanksInOrder DEF Backed
<1>3. CASE verb = "approve"
  <2>0. q.stage \in Needed(q)
    BY <1>3 DEF Backed, ReviewStages, TransferStages, OrderStages
  <2>1. CASE q.stage = "BUDGET_OFFICER_SAP_UPLOAD"
    <3>1. new \in Row /\ new.kind = q.kind /\ new.amount = q.amount /\ new.stage = "APPROVED"
      BY <1>0, <1>3, <2>1 DEF Changed, Approved, Row, Statuses, TerminalStatuses
    <3>2. Needed(new) = Needed(q)
      BY <3>1 DEF Needed
    <3>3. Behind(new) \subseteq Behind(q) \cup {q.stage}
      BY <1>0, <2>1, <3>2, RanksInOrder DEF Behind
    <3> QED
      BY <1>3, <3>1, <3>3 DEF Backed
  <2>2. CASE q.stage # "BUDGET_OFFICER_SAP_UPLOAD"
    <3>0. /\ NextStage(q) \in Needed(q)
          /\ \A s \in Needed(q) : Rank(s) < Rank(NextStage(q)) => Rank(s) < Rank(q.stage) \/ s = q.stage
      BY <1>0, <2>0, <2>2, NextTransfer, NextOrder
    <3>1. new \in Row /\ new.kind = q.kind /\ new.amount = q.amount /\ new.stage = NextStage(q)
      <4>1. NextStage(q) \in ReviewStages
        BY <1>0, <3>0, NeededAreReviewed
      <4>2. new = [q EXCEPT !.stage = NextStage(q), !.override = NoUser]
        BY <1>3, <2>2 DEF Changed, Approved
      <4> QED
        BY <1>0, <4>1, <4>2 DEF Row
    <3>2. Needed(new) = Needed(q)
      BY <3>1 DEF Needed
    <3>3. Behind(new) \subseteq Behind(q) \cup {q.stage}
      BY <3>0, <3>1, <3>2 DEF Behind
    <3> QED
      BY <1>3, <3>0, <3>1, <3>2, <3>3 DEF Backed
  <2> QED
    BY <2>1, <2>2
<1>4. CASE verb = "return"
  <2>0. q.stage \in Needed(q)
    BY <1>4 DEF Backed, ReviewStages, TransferStages, OrderStages
  <2>1. CASE ToRequestor(q)
    <3>1. new \in Row /\ new.kind = q.kind /\ new.amount = q.amount /\ new.stage = "DRAFT"
      BY <1>0, <1>4, <2>1 DEF Changed, Returned, Row, Statuses
    <3>2. Behind(new) = {}
      BY <3>1, RanksInOrder DEF Behind
    <3> QED
      BY <1>4, <3>1, <3>2 DEF Backed
  <2>2. CASE ~ToRequestor(q)
    <3>0. /\ OrderReturn(q.kind, q.stage) \in Needed(q)
          /\ Rank(OrderReturn(q.kind, q.stage)) < Rank(q.stage)
      BY <1>0, <2>0, <2>2, ReturnOrder DEF ToRequestor, IsTransfer
    <3>1. new \in Row /\ new.kind = q.kind /\ new.amount = q.amount
            /\ new.stage = OrderReturn(q.kind, q.stage)
      <4>1. OrderReturn(q.kind, q.stage) \in ReviewStages
        BY <1>0, <3>0, NeededAreReviewed
      <4>2. new = [q EXCEPT !.stage = OrderReturn(q.kind, q.stage)]
        BY <1>4, <2>2 DEF Changed, Returned
      <4> QED
        BY <1>0, <4>1, <4>2 DEF Row
    <3>2. Needed(new) = Needed(q)
      BY <3>1 DEF Needed
    <3>3. Behind(new) \subseteq Behind(q)
      BY <1>0, <2>0, <3>0, <3>1, <3>2, RanksInOrder DEF Behind
    <3> QED
      BY <1>4, <3>0, <3>1, <3>2, <3>3 DEF Backed
  <2> QED
    BY <2>1, <2>2
<1> QED
  BY <1>1, <1>2, <1>3, <1>4 DEF Verbs

\* An UPDATE of the changed columns leaves a row, with either stage.
LEMMA MergeIsRow ==
  ASSUME NEW q \in Row, NEW seen \in Row, NEW new \in Row,
         seen.kind = q.kind, seen.amount = q.amount, new.kind = q.kind, new.amount = q.amount
  PROVE  /\ Merged(q, seen, new) \in Row
         /\ Merged(q, seen, new).kind = q.kind /\ Merged(q, seen, new).amount = q.amount
         /\ Merged(q, seen, new).stage = q.stage \/ Merged(q, seen, new).stage = new.stage
<1> DEFINE m ==
                [kind |-> q.kind, amount |-> q.amount,
                 stage |-> IF new.stage # seen.stage THEN new.stage ELSE q.stage,
                 status |-> IF new.status # seen.status THEN new.status ELSE q.status,
                 head |-> IF new.head # seen.head THEN new.head ELSE q.head,
                 override |-> IF new.override # seen.override THEN new.override ELSE q.override,
                 attached |-> IF new.attached # seen.attached THEN new.attached ELSE q.attached]
<1>1. Merged(q, seen, new) = m
  BY DEF Merged, Row
<1>2. m \in Row
  BY DEF Row
<1> QED
  BY <1>1, <1>2

LEMMA StoredIsBacked ==
  ASSUME NEW q, NEW r \in Row, NEW given, NEW more, Backed(q, given), given \subseteq more,
         r.kind = q.kind, r.amount = q.amount, r.stage = q.stage
  PROVE  Backed(r, more)
<1>1. q \in Row /\ Needed(q) = Needed(r) /\ Behind(q) = Behind(r)
  BY BehindByStage DEF Backed
<1> QED
  BY <1>1 DEF Backed

-----------------------------------------------------------------------------
(* The steps.                                                               *)

LEMMA CreateKeeps ==
  ASSUME IInv, NEW t \in Tickets, Create(t)
  PROVE  IInv'
<1> USE DEF IInv
<1>1. PICK kind \in {"transfer", "DOE", "GAE"}, amount \in Amounts :
        ticket' = [ticket EXCEPT ![t] =
          [kind |-> kind, amount |-> amount, stage |-> "DRAFT", status |-> "DRAFT",
           head |-> NoUser, override |-> NoUser, attached |-> FALSE]]
  BY DEF Create
<1> DEFINE new == [kind |-> kind, amount |-> amount, stage |-> "DRAFT", status |-> "DRAFT",
                   head |-> NoUser, override |-> NoUser, attached |-> FALSE]
<1>2. new \in Row /\ new.stage = "DRAFT"
  BY DEF Row, Statuses
<1>3. Behind(new) = {}
  BY <1>2, RanksInOrder DEF Behind
<1>4. UNCHANGED <<pending, signed, approved, overlapped>> /\ ~Exists(t)
  BY DEF Create
<1>5. TypeOK'
  BY <1>1, <1>2, <1>4 DEF TypeOK
<1>6. ticket'[t] = new /\ \A u \in Tickets \ {t} : ticket'[u] = ticket[u]
  BY <1>1 DEF TypeOK
<1>7. TicketsBacked'
  BY <1>2, <1>3, <1>4, <1>6 DEF TicketsBacked, Exists, Backed
<1>8. CallsBacked'
  <2> SUFFICES ASSUME NEW c \in Calls, Running(c) PROVE CallBacked(pending[c])'
    BY <1>4 DEF CallsBacked, Running
  <2>1. CallBacked(pending[c]) /\ pending[c].on \in Tickets
    BY DEF CallsBacked, CallBacked, Call
  <2>2. pending[c].on # t
    BY <1>4, <2>1 DEF CallBacked
  <2> QED
    BY <1>4, <1>6, <2>1, <2>2 DEF CallBacked, Exists
<1> QED
  BY <1>5, <1>7, <1>8

LEMMA LoadKeeps ==
  ASSUME IInv, NEW c \in Calls, NEW t \in Tickets, Load(c, t)
  PROVE  IInv'
<1> USE DEF IInv
<1>1. PICK u \in Users, verb \in Verbs, to \in Users \cup {NoUser} :
        /\ May(u, verb, ticket[t], to)
        /\ pending' = [pending EXCEPT ![c] =
             [verb |-> verb, on |-> t, seen |-> ticket[t], to |-> to]]
  BY DEF Load
<1> DEFINE p == [verb |-> verb, on |-> t, seen |-> ticket[t], to |-> to]
<1>2. UNCHANGED <<ticket, signed, approved>> /\ Exists(t) /\ overlapped' \subseteq Tickets
  BY DEF Load, TypeOK
<1>3. p \in Call
  BY <1>2 DEF TypeOK, Exists, Call
<1>4. verb \in {"approve", "return"} => ticket[t].stage \in ReviewStages
  BY <1>1 DEF May, MayDecide, InReview
<1>5. CallBacked(p)
  BY <1>2, <1>3, <1>4 DEF CallBacked, TicketsBacked
<1>6. TypeOK'
  BY <1>1, <1>2, <1>3 DEF TypeOK
<1>7. TicketsBacked'
  BY <1>2 DEF TicketsBacked, Exists
<1>8. pending'[c] = p /\ \A d \in Calls \ {c} : pending'[d] = pending[d]
  BY <1>1 DEF TypeOK
<1>9. CallsBacked'
  BY <1>2, <1>5, <1>8 DEF CallsBacked, CallBacked, Running, Exists
<1> QED
  BY <1>6, <1>7, <1>9

\* What a commit does to its ticket.
LEMMA CommitEffect ==
  ASSUME IInv, NEW c \in Calls, Commit(c)
  PROVE  LET p == pending[c]
         IN  /\ p \in Call /\ CallBacked(p)
             /\ Changed(p.verb, p.seen, p.to) \in Row
             /\ ticket'[p.on] = Merged(ticket[p.on], p.seen, Changed(p.verb, p.seen, p.to))
             /\ ticket'[p.on] \in Row
             /\ ticket'[p.on].kind = ticket[p.on].kind /\ ticket'[p.on].amount = ticket[p.on].amount
             /\ Backed(ticket'[p.on], approved'[p.on])
             /\ approved[p.on] \subseteq approved'[p.on]
             /\ \A t \in Tickets \ {p.on} :
                  ticket'[t] = ticket[t] /\ approved'[t] = approved[t] /\ signed'[t] = signed[t]
<1> USE DEF IInv
<1> DEFINE p == pending[c]
           q == ticket[p.on]
           new == Changed(p.verb, p.seen, p.to)
           given == IF p.verb = "approve" THEN approved[p.on] \cup {p.seen.stage} ELSE approved[p.on]
<1>1. p \in Call /\ CallBacked(p) /\ Exists(p.on) /\ p.on \in Tickets
  BY DEF Commit, CallsBacked, CallBacked, Call
<1>2. /\ ticket' = [ticket EXCEPT ![p.on] = Merged(q, p.seen, new)]
      /\ approved' = [approved EXCEPT ![p.on] = given]
      /\ \A t \in Tickets \ {p.on} : signed'[t] = signed[t]
  BY <1>1 DEF Commit, TypeOK
<1>3. Backed(p.seen, approved[p.on]) /\ p.verb \in Verbs /\ p.to \in Users \cup {NoUser}
      /\ (p.verb \in {"approve", "return"} => p.seen.stage \in ReviewStages)
      /\ p.seen \in Row
  BY <1>1 DEF CallBacked, Call
<1>4. new.kind = p.seen.kind /\ new.amount = p.seen.amount /\ Backed(new, given)
  BY <1>3, ChangeIsBacked
<1>5. new \in Row /\ q \in Row /\ Backed(q, approved[p.on])
      /\ p.seen.kind = q.kind /\ p.seen.amount = q.amount
  BY <1>1, <1>4 DEF Backed, CallBacked, TicketsBacked
<1>6. /\ ticket'[p.on] = Merged(q, p.seen, new) /\ approved'[p.on] = given
      /\ approved[p.on] \subseteq given
      /\ \A t \in Tickets \ {p.on} : ticket'[t] = ticket[t] /\ approved'[t] = approved[t]
  BY <1>1, <1>2 DEF TypeOK
<1> DEFINE m == Merged(q, p.seen, new)
<1>7. m \in Row /\ m.kind = q.kind /\ m.amount = q.amount /\ (m.stage = q.stage \/ m.stage = new.stage)
  BY <1>3, <1>4, <1>5, MergeIsRow
<1> HIDE DEF m, new, q, given
<1>8. Backed(m, given)
  <2>1. CASE m.stage = q.stage
    BY <1>5, <1>6, <1>7, <2>1, StoredIsBacked
  <2>2. CASE m.stage = new.stage
    BY <1>4, <1>5, <1>7, <2>2, StoredIsBacked
  <2> QED
    BY <1>7, <2>1, <2>2
<1> QED
  BY <1>1, <1>2, <1>5, <1>6, <1>7, <1>8 DEF m, new, q, given

LEMMA CommitKeeps ==
  ASSUME IInv, NEW c \in Calls, Commit(c)
  PROVE  IInv'
<1> USE DEF IInv
<1> DEFINE on == pending[c].on
<1>1. /\ on \in Tickets /\ ticket'[on] \in Row /\ Backed(ticket'[on], approved'[on])
      /\ ticket'[on].kind = ticket[on].kind /\ ticket'[on].amount = ticket[on].amount
      /\ approved[on] \subseteq approved'[on]
      /\ \A t \in Tickets \ {on} : ticket'[t] = ticket[t] /\ approved'[t] = approved[t]
      /\ pending[c] \in Call /\ CallBacked(pending[c])
  BY CommitEffect DEF Call
<1>2. pending' = [pending EXCEPT ![c] = NoCall] /\ overlapped' = overlapped
  BY DEF Commit
<1>3. TypeOK'
  <2>1. /\ ticket' \in [Tickets -> Row \cup {NoTicket}]
        /\ approved' \in [Tickets -> SUBSET ReviewStages]
        /\ signed' \in [Tickets -> SUBSET ReviewStages]
    <3>1. pending[c].verb \in {"approve", "return"} => pending[c].seen.stage \in ReviewStages
      BY <1>1 DEF CallBacked
    <3>2. ticket' \in [Tickets -> Row \cup {NoTicket}]
      BY <1>1 DEF Commit, TypeOK
    <3>3. approved' \in [Tickets -> SUBSET ReviewStages]
      BY <1>1, <3>1 DEF Commit, TypeOK
    <3>4. signed' \in [Tickets -> SUBSET ReviewStages]
      BY <1>1, <3>1 DEF Commit, TypeOK
    <3> QED
      BY <3>2, <3>3, <3>4
  <2> QED
    BY <1>2, <2>1 DEF TypeOK
<1>4. TicketsBacked'
  BY <1>1 DEF TicketsBacked, Exists
<1>5. CallsBacked'
  <2> SUFFICES ASSUME NEW d \in Calls, Running(d)' PROVE CallBacked(pending[d])'
    BY DEF CallsBacked
  <2>1. d # c /\ pending'[d] = pending[d] /\ Running(d)
    BY <1>2 DEF Running, TypeOK
  <2>2. CallBacked(pending[d]) /\ pending[d] \in Call /\ pending[d].on \in Tickets
        /\ pending[d].seen \in Row
    BY <2>1 DEF CallsBacked, CallBacked, Call
  <2>3. CASE pending[d].on = on
    <3>1. Backed(pending[d].seen, approved'[on])
      BY <1>1, <2>2, <2>3, StoredIsBacked DEF CallBacked
    <3>2. ticket'[on] # NoTicket
      BY <1>1, NoTicketAssumption
    <3> QED
      BY <1>1, <2>1, <2>2, <2>3, <3>1, <3>2 DEF CallBacked, Exists
  <2>4. CASE pending[d].on # on
    BY <1>1, <2>1, <2>2, <2>4 DEF CallBacked, Exists
  <2> QED
    BY <2>3, <2>4
<1> QED
  BY <1>3, <1>4, <1>5

LEMMA StepKeeps == IInv /\ [Next]_vars => IInv'
<1> SUFFICES ASSUME IInv, [Next]_vars PROVE IInv'
  OBVIOUS
<1>1. ASSUME NEW t \in Tickets, Create(t) PROVE IInv'
  BY <1>1, CreateKeeps
<1>2. ASSUME NEW c \in Calls, NEW t \in Tickets, Load(c, t) PROVE IInv'
  BY <1>2, LoadKeeps
<1>3. ASSUME NEW c \in Calls, Commit(c) PROVE IInv'
  BY <1>3, CommitKeeps
<1>4. ASSUME NEW c \in Calls, Abort(c) PROVE IInv'
  BY <1>4 DEF Abort, IInv, TypeOK, TicketsBacked, CallsBacked, CallBacked, Running, Exists
<1>5. CASE UNCHANGED vars
  BY <1>5 DEF vars, IInv, TypeOK, TicketsBacked, CallsBacked, CallBacked, Running, Exists
<1> QED
  BY <1>1, <1>2, <1>3, <1>4, <1>5 DEF Next

LEMMA InvariantHolds == Spec => []IInv
BY InitEstablishes, StepKeeps, PTL DEF Spec

-----------------------------------------------------------------------------

\* decide in transfers.py and internal_orders.py: a ticket uploaded to SAP was
\* approved at every stage its amount or classification asks for, however many
\* calls overlap.
THEOREM UploadsAreAuthorised == Spec => []UploadedIsAuthorised
<1>1. ASSUME IInv PROVE UploadedIsAuthorised
  <2> SUFFICES ASSUME NEW t \in Tickets, Exists(t), ticket[t].stage = "APPROVED"
               PROVE  Needed(ticket[t]) \subseteq approved[t]
    BY DEF UploadedIsAuthorised
  <2>1. ticket[t] \in Row /\ Behind(ticket[t]) \subseteq approved[t]
    BY <1>1 DEF IInv, TicketsBacked, Backed
  <2>2. Behind(ticket[t]) = Needed(ticket[t])
    BY <2>1, RanksInOrder DEF Behind
  <2> QED
    BY <2>1, <2>2
<1> QED
  BY <1>1, InvariantHolds, PTL

-----------------------------------------------------------------------------
(* Tickets whose calls never overlapped: a call finds at commit what it     *)
(* loaded, so its checks still hold.                                        *)

LEMMA RanksAreDistinct ==
  ASSUME NEW q \in Row
  PROVE  \A s, r \in Needed(q) : Rank(s) = Rank(r) => s = r
<1>1. CASE q.kind = "transfer"
  <2>1. Needed(q) \subseteq TransferStages
    BY <1>1 DEF Needed, TransferStages
  <2>2. \A s, r \in TransferStages : Rank(s) = Rank(r) => s = r
    BY DEF Rank, TransferStages
  <2> QED
    BY <2>1, <2>2
<1>2. CASE q.kind = "DOE"
  <2>1. Needed(q) = {"DEPT_HEAD_REVIEW", "BUDGET_OFFICER_VALIDATION", "BU_FINANCE_HEAD_REVIEW",
                     "BU_HEAD_AUTHORIZATION", "BU_FINANCE_OFFICER_VERIFICATION",
                     "BUDGET_OFFICER_SAP_UPLOAD"}
    BY <1>2 DEF Needed, OrderStages
  <2> QED
    BY <2>1 DEF Rank
<1>3. CASE q.kind = "GAE"
  <2>1. Needed(q) = {"DEPT_HEAD_REVIEW", "BUDGET_OFFICER_VALIDATION", "CFO_REVIEW",
                     "CFO_AUTHORIZATION", "BUDGET_OFFICER_SAP_UPLOAD"}
    BY <1>3 DEF Needed, OrderStages
  <2> QED
    BY <2>1 DEF Rank
<1> QED
  BY <1>1, <1>2, <1>3 DEF Row

\* Status and stage agree, and in review exactly the stages behind have signed.
Sound(q, by) ==
  /\ q.status = "IN_REVIEW" => q.stage \in ReviewStages /\ by = Behind(q)
  /\ q.status \in {"DRAFT", "RETURNED"} => q.stage = "DRAFT" /\ by = {}
  /\ q.status = "UPLOADED_TO_SAP" <=> q.stage = "APPROVED"

Checked(p) == \E u \in Users : May(u, p.verb, p.seen, p.to)

UInv ==
  /\ \A c \in Calls : Running(c) => Checked(pending[c])
  /\ \A t \in Tickets \ overlapped :
       /\ Exists(t) => Sound(ticket[t], signed[t])
       /\ ~Exists(t) => signed[t] = {}
       /\ \A c \in Calls : Running(c) /\ pending[c].on = t =>
            /\ pending[c].seen = ticket[t]
            /\ \A d \in Calls : Running(d) /\ pending[d].on = t => d = c

\* Nothing is done to a closed row.
LEMMA CheckedIsOpen ==
  ASSUME NEW p, Checked(p)
  PROVE  p.seen.status \notin TerminalStatuses
BY DEF Checked, May, MayAttach, MaySubmit, MayDecide, MayCancel, InReview, TerminalStatuses

LEMMA SoundChange ==
  ASSUME NEW p \in Call, Checked(p), NEW given, Backed(p.seen, given), NEW by, Sound(p.seen, by)
  PROVE  LET new == Changed(p.verb, p.seen, p.to)
         IN  Sound(new, IF p.verb = "approve" THEN by \cup {p.seen.stage}
                        ELSE IF p.verb # "return" THEN by
                        ELSE IF ToRequestor(p.seen) THEN {} ELSE by \ {new.stage})
<1> DEFINE q == p.seen
           new == Changed(p.verb, q, p.to)
<1>0. q \in Row /\ p.verb \in Verbs
  BY DEF Call
<1>1. CASE p.verb \in {"attach", "reassign"}
  <2>1. new.stage = q.stage /\ new.status = q.status /\ new.kind = q.kind /\ new.amount = q.amount
    BY <1>0, <1>1 DEF Changed, Row
  <2>2. Behind(new) = Behind(q)
    BY <2>1 DEF Behind, Needed
  <2> QED
    BY <1>1, <2>1, <2>2 DEF Sound
<1>2. CASE p.verb \in {"reject", "cancel"}
  <2>1. new.stage = q.stage /\ new.status \in {"REJECTED", "CANCELLED"}
    BY <1>0, <1>2 DEF Changed, Row
  <2>2. q.status # "UPLOADED_TO_SAP"
    BY CheckedIsOpen DEF TerminalStatuses
  <2> QED
    BY <1>2, <2>1, <2>2 DEF Sound
<1>3. CASE p.verb = "submit"
  <2>1. new.stage = "DEPT_HEAD_REVIEW" /\ new.status = "IN_REVIEW" /\ new \in Row
    BY <1>0, <1>3 DEF Changed, Submitted, Row, Call, Statuses, ReviewStages, TransferStages
  <2>2. Behind(new) = {}
    BY <2>1, RanksInOrder DEF Behind
  <2>3. by = {}
    BY <1>3 DEF Checked, May, MaySubmit, Sound
  <2> QED
    BY <1>3, <2>1, <2>2, <2>3 DEF Sound, ReviewStages, TransferStages
<1>4. ASSUME p.verb \in {"approve", "return"}
      PROVE  q.status = "IN_REVIEW" /\ q.stage \in Needed(q) /\ by = Behind(q)
  <2>1. InReview(q)
    BY <1>4 DEF Checked, May, MayDecide
  <2> QED
    BY <2>1 DEF InReview, Sound, Backed, ReviewStages, TransferStages, OrderStages
<1>5. CASE p.verb = "approve"
  <2>1. CASE q.stage = "BUDGET_OFFICER_SAP_UPLOAD"
    <3>1. new.stage = "APPROVED" /\ new.status = "UPLOADED_TO_SAP"
      BY <1>0, <1>5, <2>1 DEF Changed, Approved, Row
    <3> QED
      BY <1>5, <3>1 DEF Sound
  <2>2. CASE q.stage # "BUDGET_OFFICER_SAP_UPLOAD"
    <3>1. /\ NextStage(q) \in Needed(q) /\ Rank(q.stage) < Rank(NextStage(q))
          /\ \A s \in Needed(q) : Rank(s) < Rank(NextStage(q)) => Rank(s) < Rank(q.stage) \/ s = q.stage
      BY <1>0, <1>4, <1>5, <2>2, NextTransfer, NextOrder
    <3>2. new = [q EXCEPT !.stage = NextStage(q), !.override = NoUser]
      BY <1>5, <2>2 DEF Changed, Approved
    <3>3. /\ new.stage = NextStage(q) /\ new.status = "IN_REVIEW"
          /\ new.kind = q.kind /\ new.amount = q.amount
      BY <1>0, <1>4, <1>5, <3>2 DEF Row
    <3>4. Needed(new) = Needed(q)
      BY <3>3 DEF Needed
    <3>5. new.stage \in ReviewStages /\ \A s \in Needed(q) : Rank(s) \in Nat
      BY <1>0, <3>1, <3>3, NeededAreReviewed, RanksInOrder
    <3>6. Behind(new) = Behind(q) \cup {q.stage}
      BY <1>4, <1>5, <3>1, <3>3, <3>4, <3>5 DEF Behind
    <3> QED
      BY <1>4, <1>5, <3>3, <3>5, <3>6 DEF Sound, ReviewStages, TransferStages, OrderStages
  <2> QED
    BY <2>1, <2>2
<1>6. CASE p.verb = "return"
  <2>1. CASE ToRequestor(q)
    <3>1. new.stage = "DRAFT" /\ new.status = "RETURNED"
      BY <1>0, <1>6, <2>1 DEF Changed, Returned, Row
    <3> QED
      BY <1>6, <2>1, <3>1 DEF Sound
  <2>2. CASE ~ToRequestor(q)
    <3> DEFINE back == OrderReturn(q.kind, q.stage)
    <3>1. /\ back \in Needed(q) /\ Rank(back) < Rank(q.stage)
          /\ \A s \in Needed(q) : Rank(s) < Rank(q.stage) => Rank(s) < Rank(back) \/ s = back
      BY <1>0, <1>4, <1>6, <2>2, ReturnOrder DEF ToRequestor, IsTransfer
    <3>2. new = [q EXCEPT !.stage = back]
      BY <1>6, <2>2 DEF Changed, Returned
    <3>3. /\ new.stage = back /\ new.status = "IN_REVIEW"
          /\ new.kind = q.kind /\ new.amount = q.amount
      BY <1>0, <1>4, <1>6, <3>2 DEF Row
    <3>4. Needed(new) = Needed(q)
      BY <3>3 DEF Needed
    <3>5. new.stage \in ReviewStages /\ q.stage \in Needed(q) /\ \A s \in Needed(q) : Rank(s) \in Nat
      BY <1>0, <1>4, <1>6, <3>1, <3>3, NeededAreReviewed, RanksInOrder
    <3>6. Behind(new) = Behind(q) \ {back}
      BY <3>1, <3>3, <3>4, <3>5 DEF Behind
    <3> QED
      BY <1>4, <1>6, <2>2, <3>3, <3>5, <3>6 DEF Sound, ReviewStages, TransferStages, OrderStages
  <2> QED
    BY <2>1, <2>2
<1> QED
  BY <1>0, <1>1, <1>2, <1>3, <1>5, <1>6 DEF Verbs

\* With nothing changed in between, a commit stores the row as the handler left it.
LEMMA MergeUndisturbed ==
  ASSUME NEW q \in Row, NEW new \in Row
  PROVE  Merged(q, q, new) = new
BY DEF Merged, Row

LEMMA InitEstablishesU == Init => UInv
BY DEF Init, UInv, Exists, Running

LEMMA CommitKeepsU ==
  ASSUME IInv, UInv, NEW c \in Calls, Commit(c)
  PROVE  UInv'
<1> DEFINE p == pending[c]
           q == ticket[p.on]
           new == Changed(p.verb, p.seen, p.to)
<1>1. /\ p \in Call /\ p.on \in Tickets /\ CallBacked(p) /\ Checked(p) /\ Running(c)
      /\ new \in Row /\ ticket'[p.on] = Merged(q, p.seen, new)
      /\ \A t \in Tickets \ {p.on} : ticket'[t] = ticket[t] /\ signed'[t] = signed[t]
  BY CommitEffect DEF Commit, UInv, Call
<1>2. pending'[c] = NoCall /\ (\A d \in Calls \ {c} : pending'[d] = pending[d])
      /\ overlapped' = overlapped
  BY DEF Commit, IInv, TypeOK
<1>3. \A d \in Calls : Running(d)' => d # c /\ Running(d) /\ pending'[d] = pending[d]
  BY <1>2 DEF Running
<1>4. \A d \in Calls : Running(d)' => Checked(pending[d])'
  BY <1>3 DEF UInv, Checked
<1>5. ASSUME NEW t \in Tickets \ overlapped
      PROVE  /\ Exists(t)' => Sound(ticket[t], signed[t])'
             /\ ~Exists(t)' => signed'[t] = {}
             /\ \A d \in Calls : Running(d)' /\ pending'[d].on = t =>
                  /\ pending'[d].seen = ticket'[t]
                  /\ \A e \in Calls : Running(e)' /\ pending'[e].on = t => e = d
  <2>1. CASE t # p.on
    <3>1. ticket'[t] = ticket[t] /\ signed'[t] = signed[t]
      BY <1>1, <2>1
    <3>2. Sound(ticket[t], signed[t])' <=> Sound(ticket[t], signed[t])
      BY <3>1 DEF Sound, Behind, Needed
    <3> QED
      BY <1>3, <3>1, <3>2 DEF UInv, Exists
  <2>2. CASE t = p.on
    <3>1. /\ p.seen = q /\ q \in Row /\ Sound(q, signed[t]) /\ Backed(p.seen, approved[t])
          /\ \A d \in Calls : Running(d) /\ pending[d].on = t => d = c
      BY <1>1, <2>2 DEF UInv, CallBacked, Call
    <3>2. ticket'[t] = new
      BY <1>1, <2>2, <3>1, MergeUndisturbed
    <3>3. signed'[t] = IF p.verb = "approve" THEN signed[t] \cup {p.seen.stage}
                       ELSE IF p.verb # "return" THEN signed[t]
                       ELSE IF ToRequestor(p.seen) THEN {} ELSE signed[t] \ {new.stage}
      BY <1>1, <2>2 DEF Commit, IInv, TypeOK
    <3>4. Sound(new, signed'[t])
      BY <1>1, <3>1, <3>3, SoundChange
    <3>5. Sound(ticket[t], signed[t])'
      BY <3>2, <3>4 DEF Sound, Behind, Needed
    <3>6. Exists(t)'
      BY <1>1, <3>2, <2>2, NoTicketAssumption DEF Exists
    <3> QED
      BY <1>3, <3>1, <3>2, <3>5, <3>6
  <2> QED
    BY <2>1, <2>2
<1> QED
  BY <1>2, <1>4, <1>5 DEF UInv

LEMMA StepKeepsU == IInv /\ UInv /\ [Next]_vars => UInv'
<1> SUFFICES ASSUME IInv, UInv, [Next]_vars PROVE UInv'
  OBVIOUS
<1>1. ASSUME NEW t \in Tickets, Create(t) PROVE UInv'
  <2>1. UNCHANGED <<pending, signed, overlapped>> /\ ~Exists(t)
    BY <1>1 DEF Create
  <2>2. \A u \in Tickets \ {t} : ticket'[u] = ticket[u]
    BY <1>1 DEF Create, IInv, TypeOK
  <2>3. \A c \in Calls : Running(c) => pending[c].on # t
    BY <2>1 DEF IInv, CallsBacked, CallBacked
  <2>4. t \notin overlapped => Sound(ticket[t], signed[t])'
    <3>1. ticket'[t].status = "DRAFT" /\ ticket'[t].stage = "DRAFT"
      BY <1>1 DEF Create, IInv, TypeOK
    <3>2. t \notin overlapped => signed'[t] = {}
      BY <2>1 DEF UInv
    <3> QED
      BY <3>1, <3>2 DEF Sound
  <2>5. \A u \in Tickets \ {t} : Sound(ticket[u], signed[u])' <=> Sound(ticket[u], signed[u])
    BY <2>1, <2>2 DEF Sound, Behind, Needed
  <2>6. \A u \in Tickets \ {t} : Exists(u)' <=> Exists(u)
    BY <2>2 DEF Exists
  <2>7. Exists(t)'
    <3>1. PICK kind \in {"transfer", "DOE", "GAE"}, amount \in Amounts :
            ticket'[t] = [kind |-> kind, amount |-> amount, stage |-> "DRAFT", status |-> "DRAFT",
                          head |-> NoUser, override |-> NoUser, attached |-> FALSE]
      BY <1>1 DEF Create, IInv, TypeOK
    <3>2. ticket'[t] \in Row
      BY <3>1 DEF Row, Statuses
    <3> QED
      BY <3>2, NoTicketAssumption DEF Exists
  <2>8. \A c \in Calls : Checked(pending[c])' <=> Checked(pending[c])
    BY <2>1 DEF Checked
  <2>9. \A c \in Calls : Running(c)' <=> Running(c)
    BY <2>1 DEF Running
  <2>10. ASSUME NEW u \in Tickets \ overlapped
         PROVE  /\ Exists(u)' => Sound(ticket[u], signed[u])'
                /\ ~Exists(u)' => signed'[u] = {}
                /\ \A c \in Calls : Running(c)' /\ pending'[c].on = u =>
                     /\ pending'[c].seen = ticket'[u]
                     /\ \A d \in Calls : Running(d)' /\ pending'[d].on = u => d = c
    <3>1. CASE u = t
      BY <2>1, <2>3, <2>4, <2>7, <2>9, <3>1
    <3>2. CASE u # t
      BY <2>1, <2>2, <2>5, <2>6, <2>9, <3>2 DEF UInv
    <3> QED
      BY <3>1, <3>2
  <2> QED
    BY <2>1, <2>8, <2>9, <2>10 DEF UInv
<1>2. ASSUME NEW c \in Calls, NEW t \in Tickets, Load(c, t) PROVE UInv'
  <2>1. PICK u \in Users, verb \in Verbs, to \in Users \cup {NoUser} :
          /\ May(u, verb, ticket[t], to)
          /\ pending' = [pending EXCEPT ![c] =
               [verb |-> verb, on |-> t, seen |-> ticket[t], to |-> to]]
    BY <1>2 DEF Load
  <2>2. /\ ~Running(c) /\ UNCHANGED <<ticket, signed>> /\ overlapped \subseteq overlapped'
        /\ t \notin overlapped' => \A d \in Calls : Running(d) => pending[d].on # t
    BY <1>2 DEF Load
  <2>3. /\ pending'[c] = [verb |-> verb, on |-> t, seen |-> ticket[t], to |-> to]
        /\ \A d \in Calls \ {c} : pending'[d] = pending[d]
    BY <2>1 DEF IInv, TypeOK
  <2>4. Checked(pending[c])' /\ pending'[c].on = t /\ pending'[c].seen = ticket[t]
    BY <2>1, <2>3 DEF Checked
  <2>5. \A d \in Calls \ {c} : (Running(d)' <=> Running(d)) /\ (Checked(pending[d])' <=> Checked(pending[d]))
    BY <2>3 DEF Running, Checked
  <2>6. \A d \in Calls : Running(d)' => Checked(pending[d])'
    BY <2>4, <2>5 DEF UInv
  <2>7. ASSUME NEW x \in Tickets \ overlapped'
        PROVE  /\ Exists(x)' => Sound(ticket[x], signed[x])'
               /\ ~Exists(x)' => signed'[x] = {}
    <3>1. x \notin overlapped
      BY <2>2, <2>7
    <3>2. (Exists(x)' <=> Exists(x)) /\ (Sound(ticket[x], signed[x])' <=> Sound(ticket[x], signed[x]))
      BY <2>2 DEF Exists, Sound, Behind, Needed
    <3> QED
      BY <2>2, <3>1, <3>2 DEF UInv
  <2>8. ASSUME NEW x \in Tickets \ overlapped', NEW d \in Calls, Running(d)', pending'[d].on = x
        PROVE  /\ pending'[d].seen = ticket'[x]
               /\ \A e \in Calls : Running(e)' /\ pending'[e].on = x => e = d
    <3>1. x \notin overlapped
      BY <2>2, <2>8
    <3>2. CASE x = t
      <4>1. \A e \in Calls : Running(e)' /\ pending'[e].on = t => e = c
        BY <2>2, <2>3, <2>5, <2>8, <3>2
      <4> QED
        BY <2>2, <2>4, <2>8, <3>2, <4>1
    <3>3. CASE x # t
      BY <2>2, <2>3, <2>4, <2>5, <2>8, <3>1, <3>3 DEF UInv
    <3> QED
      BY <3>2, <3>3
  <2> QED
    BY <2>6, <2>7, <2>8 DEF UInv
<1>3. ASSUME NEW c \in Calls, Commit(c) PROVE UInv'
  BY <1>3, CommitKeepsU
<1>4. ASSUME NEW c \in Calls, Abort(c) PROVE UInv'
  <2>1. UNCHANGED <<ticket, signed, overlapped>>
    BY <1>4 DEF Abort
  <2>2. \A d \in Calls : Running(d)' => Running(d) /\ pending'[d] = pending[d]
    BY <1>4 DEF Abort, IInv, TypeOK, Running
  <2>3. \A t \in Tickets : (Exists(t)' <=> Exists(t)) /\ (Sound(ticket[t], signed[t])' <=> Sound(ticket[t], signed[t]))
    BY <2>1 DEF Exists, Sound, Behind, Needed
  <2>4. \A d \in Calls : Running(d)' => Checked(pending[d])'
    BY <2>2 DEF UInv, Checked
  <2> QED
    BY <2>1, <2>2, <2>3, <2>4 DEF UInv
<1>5. CASE UNCHANGED vars
  <2>1. UNCHANGED <<ticket, signed, overlapped, pending>>
    BY <1>5 DEF vars
  <2>2. \A t \in Tickets : (Exists(t)' <=> Exists(t)) /\ (Sound(ticket[t], signed[t])' <=> Sound(ticket[t], signed[t]))
    BY <2>1 DEF Exists, Sound, Behind, Needed
  <2>3. \A d \in Calls : (Running(d)' <=> Running(d)) /\ (Checked(pending[d])' <=> Checked(pending[d]))
    BY <2>1 DEF Running, Checked
  <2> QED
    BY <2>1, <2>2, <2>3 DEF UInv
<1> QED
  BY <1>1, <1>2, <1>3, <1>4, <1>5 DEF Next

LEMMA UndisturbedHolds == Spec => [](IInv /\ UInv)
BY InitEstablishes, InitEstablishesU, StepKeeps, StepKeepsU, PTL DEF Spec

\* With one call at a time, the signatures since the last return are those of
\* the stages behind the ticket's, in the order of its chain (decide in
\* transfers.py and internal_orders.py).
THEOREM SignaturesInOrder == Spec => []SignedInOrder
<1>1. ASSUME IInv, UInv PROVE SignedInOrder
  <2> SUFFICES ASSUME NEW t \in Tickets, Undisturbed(t), InReview(ticket[t])
               PROVE  LET q == ticket[t]
                      IN  /\ q.stage \in Needed(q) \ signed[t]
                          /\ "DEPT_HEAD_REVIEW" \in signed[t] \cup {q.stage}
                          /\ \A s \in signed[t] :
                               NextStage([q EXCEPT !.stage = s]) \in signed[t] \cup {q.stage}
    BY DEF SignedInOrder
  <2> DEFINE q == ticket[t]
  <2>1. q \in Row /\ q.stage \in Needed(q) /\ signed[t] = Behind(q)
    BY <1>1 DEF Undisturbed, UInv, Sound, InReview, IInv, TicketsBacked, Backed,
                ReviewStages, TransferStages, OrderStages
  <2>2. q.stage \notin signed[t]
    BY <2>1, RanksInOrder DEF Behind
  <2>3. "DEPT_HEAD_REVIEW" \in signed[t] \cup {q.stage}
    <3>1. /\ "DEPT_HEAD_REVIEW" \in Needed(q) /\ Rank("DEPT_HEAD_REVIEW") = 1 /\ Rank(q.stage) \in 1 .. 8
          /\ Rank(q.stage) = 1 => q.stage = "DEPT_HEAD_REVIEW"
      BY <2>1, RanksInOrder, RanksAreDistinct
    <3> QED
      BY <2>1, <3>1 DEF Behind
  <2>4. ASSUME NEW s \in signed[t]
        PROVE  NextStage([q EXCEPT !.stage = s]) \in signed[t] \cup {q.stage}
    <3> DEFINE x == [q EXCEPT !.stage = s]
    <3>1. s \in Needed(q) /\ Rank(s) < Rank(q.stage)
      BY <2>1, <2>4 DEF Behind
    <3>2. x \in Row /\ x.stage = s /\ x.kind = q.kind /\ x.amount = q.amount
      BY <2>1, <3>1, NeededAreReviewed DEF Row
    <3>3. Needed(x) = Needed(q)
      BY <3>2 DEF Needed
    <3>4. s # "BUDGET_OFFICER_SAP_UPLOAD"
      BY <2>1, <3>1, RanksInOrder
    <3> HIDE DEF x
    <3>5. /\ NextStage(x) \in Needed(q)
          /\ \A r \in Needed(q) : Rank(r) < Rank(NextStage(x)) => Rank(r) < Rank(s) \/ r = s
      BY <3>1, <3>2, <3>3, <3>4, NextTransfer, NextOrder
    <3>6. ~(Rank(q.stage) < Rank(NextStage(x)))
      BY <2>1, <3>1, <3>5, RanksInOrder
    <3>7. Rank(NextStage(x)) < Rank(q.stage) \/ NextStage(x) = q.stage
      BY <2>1, <3>5, <3>6, RanksInOrder, RanksAreDistinct
    <3>8. NextStage(x) \in signed[t] \cup {q.stage}
      BY <2>1, <3>5, <3>7 DEF Behind
    <3> QED
      BY <3>8 DEF x
  <2> QED
    BY <2>1, <2>2, <2>3, <2>4
<1> QED
  BY <1>1, UndisturbedHolds, PTL

\* With one call at a time, status and stage agree: no ticket is left that can
\* be neither submitted nor decided nor is closed.
THEOREM StatusAndStageAgree == Spec => []StatusFitsStage
<1>1. UInv => StatusFitsStage
  BY DEF UInv, StatusFitsStage, Undisturbed, Sound
<1> QED
  BY <1>1, UndisturbedHolds, PTL

\* With one call at a time, a rejected, cancelled or uploaded ticket is never
\* changed again: every handler looks at the status it loaded.
THEOREM ClosedIsFinal == Spec => ClosedStaysClosed
<1>1. ASSUME IInv /\ UInv, [Next]_vars
      PROVE  [\A t \in Tickets :
                Undisturbed(t) /\ ticket[t].status \in TerminalStatuses => ticket'[t] = ticket[t]]_vars
  <2> SUFFICES ASSUME NEW t \in Tickets, Undisturbed(t), ticket[t].status \in TerminalStatuses
               PROVE  ticket'[t] = ticket[t]
    BY DEF vars
  <2>1. ASSUME NEW u \in Tickets, Create(u) PROVE ticket'[t] = ticket[t]
    BY <1>1, <2>1 DEF Create, Undisturbed, IInv, TypeOK
  <2>2. ASSUME NEW c \in Calls, Commit(c) PROVE ticket'[t] = ticket[t]
    <3>1. Running(c) /\ Checked(pending[c])
      BY <1>1, <2>2 DEF Commit, UInv
    <3>2. pending[c].on = t => pending[c].seen = ticket[t]
      BY <1>1, <3>1 DEF UInv, Undisturbed
    <3>3. pending[c].on # t
      BY <3>1, <3>2, CheckedIsOpen
    <3> QED
      BY <1>1, <2>2, <3>3, CommitEffect
  <2>3. CASE UNCHANGED ticket
    BY <2>3
  <2>4. ASSUME NEW c \in Calls, (\E u \in Tickets : Load(c, u)) \/ Abort(c) PROVE UNCHANGED ticket
    BY <2>4 DEF Load, Abort
  <2>5. CASE UNCHANGED vars
    BY <2>5 DEF vars
  <2> QED
    BY <1>1, <2>1, <2>2, <2>3, <2>4, <2>5 DEF Next
<1> QED
  BY <1>1, UndisturbedHolds, PTL DEF Spec, ClosedStaysClosed

-----------------------------------------------------------------------------
(* Somebody can decide, however calls overlap.  A transfer that has left    *)
(* its draft has the head that was picked for it, a commit never unpicks    *)
(* him, and whatever takes a ticket out of the stages closes it or sends it *)
(* back in the same update.                                                 *)

\* Every stage has somebody in its role.
Staffed == \A s \in ReviewStages : Holders[s] # {}

Led(q) == IsTransfer(q) /\ q.stage # "DRAFT" => q.head # NoUser
Placed(q) == q.status = "IN_REVIEW" => q.stage \in ReviewStages

StaysLed(p) ==
  /\ Checked(p) /\ Led(p.seen)
  /\ IsTransfer(p.seen) /\ p.seen.head # NoUser => ticket[p.on].head # NoUser

LedInv ==
  /\ \A t \in Tickets : Exists(t) => Led(ticket[t]) /\ Placed(ticket[t])
  /\ \A c \in Calls : Running(c) => StaysLed(pending[c])

\* What a handler does to head, stage and status.
LEMMA ChangeIsLed ==
  ASSUME NEW p \in Call, Checked(p), Led(p.seen), NEW given, Backed(p.seen, given)
  PROVE  LET q == p.seen
             new == Changed(p.verb, p.seen, p.to)
         IN  /\ Led(new) /\ (IsTransfer(q) => new.head = q.head \/ new.head # NoUser)
             /\ new.stage # q.stage /\ new.stage \notin ReviewStages =>
                  new.status # q.status /\ new.status # "IN_REVIEW"
             /\ new.status = "IN_REVIEW" /\ new.status # q.status =>
                  new.stage # q.stage /\ new.stage \in ReviewStages
<1> DEFINE q == p.seen
           new == Changed(p.verb, q, p.to)
<1>0. q \in Row /\ p.verb \in Verbs /\ p.to \in Users \cup {NoUser}
  BY DEF Call
<1>1. CASE p.verb \in {"attach", "reject", "reassign", "cancel"}
  <2>1. /\ new.stage = q.stage /\ new.kind = q.kind /\ new.head = q.head
        /\ new.status \in {q.status, "REJECTED", "CANCELLED"}
    BY <1>0, <1>1 DEF Changed, Row
  <2> QED
    BY <2>1 DEF Led, IsTransfer
<1>2. CASE p.verb = "submit"
  <2>1. /\ new.stage = "DEPT_HEAD_REVIEW" /\ new.status = "IN_REVIEW"
        /\ new.kind = q.kind /\ new.head = p.to
    BY <1>0, <1>2 DEF Changed, Submitted, Row
  <2>2. q.stage = "DRAFT" /\ (IsTransfer(q) => p.to \in DeptHeads)
    BY <1>2 DEF Checked, May, MaySubmit
  <2>3. IsTransfer(q) => p.to # NoUser
    BY <2>2, FollowOnAssumption
  <2> QED
    BY <2>1, <2>2, <2>3 DEF Led, IsTransfer, ReviewStages, TransferStages
<1>3. ASSUME p.verb \in {"approve", "return"}
      PROVE  /\ q.status = "IN_REVIEW" /\ q.stage \in Needed(q)
             /\ IsTransfer(q) => q.head # NoUser
  <2>1. InReview(q)
    BY <1>3 DEF Checked, May, MayDecide
  <2> QED
    BY <2>1 DEF InReview, Backed, Led, ReviewStages, TransferStages, OrderStages
<1>4. CASE p.verb = "approve"
  <2>1. CASE q.stage = "BUDGET_OFFICER_SAP_UPLOAD"
    <3>1. /\ new.stage = "APPROVED" /\ new.status = "UPLOADED_TO_SAP"
          /\ new.kind = q.kind /\ new.head = q.head
      BY <1>0, <1>4, <2>1 DEF Changed, Approved, Row
    <3> QED
      BY <1>3, <1>4, <3>1 DEF Led, IsTransfer
  <2>2. CASE q.stage # "BUDGET_OFFICER_SAP_UPLOAD"
    <3>1. NextStage(q) \in ReviewStages
      BY <1>0, <1>3, <1>4, <2>2, NextTransfer, NextOrder, NeededAreReviewed
    <3>2. new = [q EXCEPT !.stage = NextStage(q), !.override = NoUser]
      BY <1>4, <2>2 DEF Changed, Approved
    <3>3. /\ new.stage = NextStage(q) /\ new.status = q.status
          /\ new.kind = q.kind /\ new.head = q.head
      BY <1>0, <3>2 DEF Row
    <3> QED
      BY <1>3, <1>4, <3>1, <3>3 DEF Led, IsTransfer
  <2> QED
    BY <2>1, <2>2
<1>5. CASE p.verb = "return"
  <2>1. CASE ToRequestor(q)
    <3>1. /\ new.stage = "DRAFT" /\ new.status = "RETURNED"
          /\ new.kind = q.kind /\ new.head = q.head
      BY <1>0, <1>5, <2>1 DEF Changed, Returned, Row
    <3> QED
      BY <1>3, <1>5, <3>1 DEF Led, IsTransfer
  <2>2. CASE ~ToRequestor(q)
    <3> DEFINE back == OrderReturn(q.kind, q.stage)
    <3>1. back \in ReviewStages
      BY <1>0, <1>3, <1>5, <2>2, ReturnOrder, NeededAreReviewed DEF ToRequestor, IsTransfer
    <3>2. new = [q EXCEPT !.stage = back]
      BY <1>5, <2>2 DEF Changed, Returned
    <3>3. /\ new.stage = back /\ new.status = q.status
          /\ new.kind = q.kind /\ new.head = q.head
      BY <1>0, <3>2 DEF Row
    <3> QED
      BY <1>3, <1>5, <3>1, <3>3 DEF Led, IsTransfer
  <2> QED
    BY <2>1, <2>2
<1> QED
  BY <1>0, <1>1, <1>2, <1>4, <1>5 DEF Verbs

LEMMA MergedColumns ==
  ASSUME NEW q \in Row, NEW seen, NEW new
  PROVE  LET m == Merged(q, seen, new)
         IN  /\ m.stage = IF new.stage # seen.stage THEN new.stage ELSE q.stage
             /\ m.status = IF new.status # seen.status THEN new.status ELSE q.status
             /\ m.head = IF new.head # seen.head THEN new.head ELSE q.head
BY DEF Merged, Row

LEMMA CommitKeepsLed ==
  ASSUME IInv, LedInv, NEW c \in Calls, Commit(c)
  PROVE  LedInv'
<1> DEFINE p == pending[c]
           q == ticket[p.on]
           new == Changed(p.verb, p.seen, p.to)
           m == Merged(q, p.seen, new)
<1>1. /\ p \in Call /\ p.on \in Tickets /\ CallBacked(p) /\ StaysLed(p)
      /\ new \in Row /\ ticket'[p.on] = m /\ m \in Row /\ m.kind = q.kind
      /\ \A t \in Tickets \ {p.on} : ticket'[t] = ticket[t]
  BY CommitEffect DEF Commit, LedInv, Call
<1>2. Exists(p.on) /\ q \in Row /\ q.kind = p.seen.kind /\ Led(q) /\ Placed(q)
  BY <1>1 DEF CallBacked, IInv, TicketsBacked, Backed, LedInv
<1>3. /\ Led(new) /\ (IsTransfer(p.seen) => new.head = p.seen.head \/ new.head # NoUser)
      /\ new.stage # p.seen.stage /\ new.stage \notin ReviewStages =>
           new.status # p.seen.status /\ new.status # "IN_REVIEW"
      /\ new.status = "IN_REVIEW" /\ new.status # p.seen.status =>
           new.stage # p.seen.stage /\ new.stage \in ReviewStages
  BY <1>1, ChangeIsLed DEF CallBacked, StaysLed
<1>4. /\ m.stage = IF new.stage # p.seen.stage THEN new.stage ELSE q.stage
      /\ m.status = IF new.status # p.seen.status THEN new.status ELSE q.status
      /\ m.head = IF new.head # p.seen.head THEN new.head ELSE q.head
  BY <1>2, MergedColumns
<1>5. new.kind = p.seen.kind
  BY <1>1, ChangeIsBacked DEF CallBacked, Call
<1> HIDE DEF new, m
<1>6. IsTransfer(q) /\ q.head # NoUser => m.head # NoUser
  BY <1>2, <1>3, <1>4 DEF IsTransfer
<1>7. Led(m)
  BY <1>1, <1>2, <1>3, <1>4, <1>5 DEF Led, IsTransfer, StaysLed
<1>8. Placed(m)
  BY <1>2, <1>3, <1>4 DEF Placed
<1>9. ASSUME NEW d \in Calls, Running(d)' PROVE StaysLed(pending[d])'
  <2>1. d # c /\ pending'[d] = pending[d] /\ Running(d)
    BY <1>9 DEF Commit, Running, IInv, TypeOK
  <2>2. StaysLed(pending[d]) /\ CallBacked(pending[d]) /\ pending[d].on \in Tickets
    BY <2>1 DEF LedInv, IInv, CallsBacked, CallBacked, Call
  <2>3. CASE pending[d].on = p.on
    BY <1>1, <1>6, <2>1, <2>2, <2>3 DEF StaysLed, CallBacked, Checked, IsTransfer
  <2>4. CASE pending[d].on # p.on
    BY <1>1, <2>1, <2>2, <2>4 DEF StaysLed, Checked
  <2> QED
    BY <2>3, <2>4
<1> QED
  BY <1>1, <1>7, <1>8, <1>9 DEF LedInv, Exists

LEMMA StepKeepsLed == IInv /\ LedInv /\ [Next]_vars => LedInv'
<1> SUFFICES ASSUME IInv, LedInv, [Next]_vars PROVE LedInv'
  OBVIOUS
<1>1. ASSUME NEW t \in Tickets, Create(t) PROVE LedInv'
  <2>1. UNCHANGED pending /\ ~Exists(t)
    BY <1>1 DEF Create
  <2>2. /\ ticket'[t].stage = "DRAFT" /\ ticket'[t].status = "DRAFT"
        /\ \A u \in Tickets \ {t} : ticket'[u] = ticket[u]
    BY <1>1 DEF Create, IInv, TypeOK
  <2>3. \A u \in Tickets : Exists(u)' => Led(ticket'[u]) /\ Placed(ticket'[u])
    BY <2>2 DEF LedInv, Exists, Led, Placed
  <2>4. \A c \in Calls : Running(c)' => StaysLed(pending[c])'
    <3>1. \A c \in Calls : Running(c) => pending[c].on \in Tickets \ {t}
      BY <2>1 DEF IInv, CallsBacked, CallBacked, Call
    <3> QED
      BY <2>1, <2>2, <3>1 DEF LedInv, StaysLed, Checked, Running
  <2> QED
    BY <2>3, <2>4 DEF LedInv
<1>2. ASSUME NEW c \in Calls, NEW t \in Tickets, Load(c, t) PROVE LedInv'
  <2>1. PICK u \in Users, verb \in Verbs, to \in Users \cup {NoUser} :
          /\ May(u, verb, ticket[t], to)
          /\ pending' = [pending EXCEPT ![c] =
               [verb |-> verb, on |-> t, seen |-> ticket[t], to |-> to]]
    BY <1>2 DEF Load
  <2>2. UNCHANGED ticket /\ Exists(t)
    BY <1>2 DEF Load
  <2>3. /\ pending'[c] = [verb |-> verb, on |-> t, seen |-> ticket[t], to |-> to]
        /\ \A d \in Calls \ {c} : pending'[d] = pending[d]
    BY <2>1 DEF IInv, TypeOK
  <2>4. StaysLed(pending[c])'
    BY <2>1, <2>2, <2>3 DEF StaysLed, Checked, LedInv
  <2>5. \A d \in Calls \ {c} : Running(d)' => StaysLed(pending[d])'
    BY <2>2, <2>3 DEF LedInv, StaysLed, Checked, Running
  <2> QED
    BY <2>2, <2>4, <2>5 DEF LedInv, Exists
<1>3. ASSUME NEW c \in Calls, Commit(c) PROVE LedInv'
  BY <1>3, CommitKeepsLed
<1>4. ASSUME NEW c \in Calls, Abort(c) PROVE LedInv'
  <2>1. UNCHANGED ticket /\ \A d \in Calls : Running(d)' => Running(d) /\ pending'[d] = pending[d]
    BY <1>4 DEF Abort, IInv, TypeOK, Running
  <2> QED
    BY <2>1 DEF LedInv, StaysLed, Checked, Exists
<1>5. CASE UNCHANGED vars
  BY <1>5 DEF vars, LedInv, StaysLed, Checked, Running, Exists
<1> QED
  BY <1>1, <1>2, <1>3, <1>4, <1>5 DEF Next

\* Where every stage has a holder, a ticket whose status is IN_REVIEW has
\* somebody who may decide it, however its calls overlap: the status comes with
\* a stage of review, and no transfer reaches its Department Head without one
\* picked.  The stage may be without the status, after a late approval.
THEOREM SomeoneIsAsked ==
  ASSUME Staffed
  PROVE  Spec => []SomeoneCanAct
<1>1. IInv /\ LedInv => SomeoneCanAct
  <2> SUFFICES ASSUME IInv, LedInv, NEW t \in Tickets, Exists(t), ticket[t].status = "IN_REVIEW"
               PROVE  \E u \in Users : MayDecide(u, ticket[t])
    BY DEF SomeoneCanAct
  <2> DEFINE q == ticket[t]
  <2>1. q \in Row /\ InReview(q) /\ Led(q)
    BY DEF IInv, TicketsBacked, Backed, LedInv, Placed, InReview
  <2>2. CASE q.override # NoUser
    <3>1. q.override \in Users
      BY <2>1, <2>2 DEF Row
    <3> QED
      BY <2>1, <2>2, <3>1 DEF MayDecide, Eligible
  <2>3. CASE q.override = NoUser /\ IsTransfer(q) /\ q.stage = "DEPT_HEAD_REVIEW"
    <3>1. q.head \in Users
      BY <2>1, <2>3 DEF Row, Led
    <3> QED
      BY <2>1, <2>3, <3>1 DEF MayDecide, Eligible
  <2>4. CASE q.override = NoUser /\ ~(IsTransfer(q) /\ q.stage = "DEPT_HEAD_REVIEW")
    <3>1. \E u \in Users : u \in Holders[q.stage]
      BY <2>1, FollowOnAssumption DEF Staffed, InReview
    <3> QED
      BY <2>1, <2>4, <3>1 DEF MayDecide, Eligible
  <2> QED
    BY <2>2, <2>3, <2>4
<1>2. Init => LedInv
  BY DEF Init, LedInv, Exists, Running
<1> QED
  BY <1>1, <1>2, InvariantHolds, StepKeepsLed, PTL DEF Spec

=============================================================================
