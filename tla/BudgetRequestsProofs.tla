------------------------- MODULE BudgetRequestsProofs -------------------------
(***************************************************************************)
(* Theorems about the requests for every catalog, role assignment and       *)
(* number of requests and calls.  First those about BudgetRequests, where a *)
(* handler is one step.  Sound is the inductive invariant of one request;   *)
(* its lemmas speak of rows alone, one for each way a handler writes one,   *)
(* and the steps of the specification only cite them.  They rest on what    *)
(* chainFor, nextStageAfter and previousStageBefore guarantee, which comes  *)
(* first; then follow that the handlers implement RequestLifecycle and, on  *)
(* the same facts about rows and chains, what is left when handlers overlap *)
(* and die (RequestRaces).                                                  *)
(***************************************************************************)
EXTENDS RequestRaces, TLAPS

-----------------------------------------------------------------------------
(* The chains.                                                              *)

\* The columns a chain depends on.
HasChain(q) ==
  /\ q.requestCategory \in Categories
  /\ q.ownDeptInitiated \in BOOLEAN
  /\ q.requiresCfoApproval \in BOOLEAN

\* A sequence of different stages, the last of them Finalize & Upload.
Proper(chain) ==
  /\ Len(chain) \in 3 .. 6
  /\ DOMAIN chain = 1 .. Len(chain)
  /\ \A i \in 1 .. Len(chain) : chain[i] \in ChainStages
  /\ \A i, j \in 1 .. Len(chain) : chain[i] = chain[j] => i = j
  /\ chain[Len(chain)] = "BUDGET_OFFICER_REVIEW"

\* The five GAE chains, one for each pair of flags, are proper.
LEMMA GaeChainIsProper ==
  ASSUME NEW own \in BOOLEAN, NEW cfo \in BOOLEAN
  PROVE  Proper(GaeChain(own, cfo))
<1>1. CASE own /\ cfo
  BY <1>1 DEF Proper, GaeChain, ChainStages
<1>2. CASE own /\ ~cfo
  BY <1>2 DEF Proper, GaeChain, ChainStages
<1>3. CASE ~own /\ cfo
  BY <1>3 DEF Proper, GaeChain, ChainStages
<1>4. CASE ~own /\ ~cfo
  BY <1>4 DEF Proper, GaeChain, ChainStages
<1> QED
  BY <1>1, <1>2, <1>3, <1>4

\* Every request's chain is proper, whatever its flags: chainFor never repeats
\* a stage and always ends with the Budget Officer.
THEOREM ChainIsProper ==
  ASSUME NEW q, HasChain(q)
  PROVE  Proper(ChainFor(q))
<1>1. Proper(SbuBatchChain)
  BY DEF Proper, SbuBatchChain, ChainStages
<1>2. Proper(NpcChain)
  BY DEF Proper, NpcChain, ChainStages
<1>3. Proper(GaeChain(q.ownDeptInitiated, q.requiresCfoApproval))
  BY GaeChainIsProper DEF HasChain
<1> QED
  BY <1>1, <1>2, <1>3 DEF ChainFor

\* indexOf finds a stage of the chain, and nothing but it.
LEMMA IndexOfStage ==
  ASSUME NEW q, HasChain(q), NEW s, InChain(q, s)
  PROVE  /\ IndexOf(q, s) \in 1 .. Len(ChainFor(q))
         /\ ChainFor(q)[IndexOf(q, s)] = s
         /\ s \in ChainStages
<1>1. Proper(ChainFor(q))
  BY ChainIsProper
<1> QED
  BY <1>1 DEF Proper, InChain, IndexOf

LEMMA StageAtIndex ==
  ASSUME NEW q, HasChain(q), NEW i \in 1 .. Len(ChainFor(q))
  PROVE  /\ InChain(q, ChainFor(q)[i])
         /\ IndexOf(q, ChainFor(q)[i]) = i
<1>1. Proper(ChainFor(q))
  BY ChainIsProper
<1>2. InChain(q, ChainFor(q)[i])
  BY <1>1 DEF Proper, InChain
<1> QED
  BY <1>1, <1>2, IndexOfStage DEF Proper

\* A chain is not empty, and nothing comes before its first stage.
LEMMA NothingBeforeFirst ==
  ASSUME NEW q, HasChain(q)
  PROVE  /\ InChain(q, ChainFor(q)[1])
         /\ StagesBefore(q, ChainFor(q)[1]) = {}
<1>1. Len(ChainFor(q)) \in 3 .. 6
  BY ChainIsProper DEF Proper
<1>2. InChain(q, ChainFor(q)[1]) /\ IndexOf(q, ChainFor(q)[1]) = 1
  BY <1>1, StageAtIndex
<1> QED
  BY <1>2, IndexOfStage DEF StagesBefore

\* Approving a stage adds exactly it to what the next stage presupposes.
LEMMA NextAddsStage ==
  ASSUME NEW q, HasChain(q), NEW s, HasNext(q, s)
  PROVE  /\ InChain(q, NextStageAfter(q, s))
         /\ StagesBefore(q, NextStageAfter(q, s)) = StagesBefore(q, s) \cup {s}
<1> DEFINE n == NextStageAfter(q, s)
<1>1. /\ Len(ChainFor(q)) \in 3 .. 6
      /\ IndexOf(q, s) \in 1 .. Len(ChainFor(q))
      /\ ChainFor(q)[IndexOf(q, s)] = s /\ s \in ChainStages
  BY ChainIsProper, IndexOfStage DEF HasNext, Proper
<1>2. IndexOf(q, s) + 1 \in 1 .. Len(ChainFor(q))
  BY <1>1 DEF HasNext
<1>3. InChain(q, n) /\ IndexOf(q, n) = IndexOf(q, s) + 1
  BY <1>2, StageAtIndex DEF NextStageAfter
<1>4. ASSUME NEW t \in ChainStages, InChain(q, t)
      PROVE  IndexOf(q, t) < IndexOf(q, n) <=> IndexOf(q, t) < IndexOf(q, s) \/ t = s
  <2>1. IndexOf(q, t) \in 1 .. Len(ChainFor(q)) /\ ChainFor(q)[IndexOf(q, t)] = t
    BY <1>4, IndexOfStage
  <2> QED
    BY <2>1, <1>1, <1>3
<1>5. InChain(q, s)
  BY DEF HasNext
<1> HIDE DEF n
<1>6. StagesBefore(q, n) = StagesBefore(q, s) \cup {s}
  BY <1>1, <1>4, <1>5 DEF StagesBefore
<1> QED
  BY <1>3, <1>6 DEF n

\* Sending back to a stage no later than the current one leaves what that
\* stage presupposes.
LEMMA BeforeEarlierStage ==
  ASSUME NEW q, HasChain(q), NEW s, NEW t, InChain(q, s), InChain(q, t),
         IndexOf(q, t) <= IndexOf(q, s)
  PROVE  StagesBefore(q, s) \cap StagesBefore(q, t) = StagesBefore(q, t)
<1>1. Len(ChainFor(q)) \in 3 .. 6
  BY ChainIsProper DEF Proper
<1>2. ASSUME NEW x \in ChainStages, InChain(q, x), IndexOf(q, x) < IndexOf(q, t)
      PROVE  IndexOf(q, x) < IndexOf(q, s)
  BY <1>1, <1>2, IndexOfStage
<1> QED
  BY <1>2 DEF StagesBefore

\* "Return to previous" goes one stage back in the chain, or to the requestor.
LEMMA PreviousIsEarlier ==
  ASSUME NEW q, HasChain(q), NEW s, PreviousStageBefore(q, s) # Requestor
  PROVE  /\ InChain(q, s)
         /\ InChain(q, PreviousStageBefore(q, s))
         /\ IndexOf(q, PreviousStageBefore(q, s)) <= IndexOf(q, s)
<1> DEFINE i == IndexOf(q, s)
<1>1. InChain(q, s) /\ i > 1 /\ PreviousStageBefore(q, s) = ChainFor(q)[i - 1]
  BY DEF PreviousStageBefore
<1>2. Len(ChainFor(q)) \in 3 .. 6 /\ i \in 1 .. Len(ChainFor(q))
  BY <1>1, ChainIsProper, IndexOfStage DEF Proper
<1>3. i - 1 \in 1 .. Len(ChainFor(q))
  BY <1>1, <1>2
<1>4. /\ InChain(q, ChainFor(q)[i - 1])
      /\ IndexOf(q, ChainFor(q)[i - 1]) = i - 1
  BY <1>3, StageAtIndex
<1> QED
  BY <1>1, <1>2, <1>4

\* Finalize & Upload is the last stage: every stage of the chain comes no
\* later, and with its signature the whole chain has signed.
LEMMA BudgetOfficerIsLast ==
  ASSUME NEW q, HasChain(q)
  PROVE  LET last == "BUDGET_OFFICER_REVIEW"
         IN  /\ InChain(q, last)
             /\ ~HasNext(q, last)
             /\ \A t : InChain(q, t) => IndexOf(q, t) <= IndexOf(q, last)
             /\ StagesBefore(q, last) \cup {last} = {s \in ChainStages : InChain(q, s)}
<1> DEFINE last == "BUDGET_OFFICER_REVIEW"
<1>1. /\ Len(ChainFor(q)) \in 3 .. 6
      /\ ChainFor(q)[Len(ChainFor(q))] = last
  BY ChainIsProper DEF Proper
<1>2. InChain(q, last) /\ IndexOf(q, last) = Len(ChainFor(q))
  BY <1>1, StageAtIndex
<1>3. ASSUME NEW t, InChain(q, t)
      PROVE  /\ IndexOf(q, t) <= IndexOf(q, last)
             /\ t = last \/ IndexOf(q, t) < IndexOf(q, last)
  <2>1. IndexOf(q, t) \in 1 .. Len(ChainFor(q)) /\ ChainFor(q)[IndexOf(q, t)] = t
    BY <1>3, IndexOfStage
  <2> QED
    BY <2>1, <1>1, <1>2
<1>4. last \in ChainStages
  BY DEF ChainStages
<1>5. StagesBefore(q, last) \cup {last} = {s \in ChainStages : InChain(q, s)}
  BY <1>2, <1>3, <1>4 DEF StagesBefore
<1>6. ~HasNext(q, last)
  BY <1>1, <1>2 DEF HasNext
<1> QED
  BY <1>2, <1>3, <1>5, <1>6

\* Two rows that agree on the columns of HasChain have one chain.
LEMMA SameChain ==
  ASSUME NEW p, NEW q, p.requestCategory = q.requestCategory,
         p.ownDeptInitiated = q.ownDeptInitiated,
         p.requiresCfoApproval = q.requiresCfoApproval
  PROVE  /\ ChainFor(p) = ChainFor(q)
         /\ \A s : InChain(p, s) <=> InChain(q, s)
         /\ \A s : IndexOf(p, s) = IndexOf(q, s)
         /\ \A s : StagesBefore(p, s) = StagesBefore(q, s)
<1>1. ChainFor(p) = ChainFor(q)
  BY DEF ChainFor
<1>2. \A s : InChain(p, s) <=> InChain(q, s)
  BY <1>1 DEF InChain
<1>3. \A s : IndexOf(p, s) = IndexOf(q, s)
  BY <1>1 DEF IndexOf
<1> QED
  BY <1>1, <1>2, <1>3 DEF StagesBefore

\* The order all GAE chains keep.
Rank(s) ==
  IF s = "DEPT_HEAD_REVIEW" THEN 1
  ELSE IF s = "CFO_APPROVAL" THEN 2
  ELSE IF s = "CENTRALIZED_L1_REVIEW" THEN 3
  ELSE IF s = "CENTRALIZED_HEAD_REVIEW" THEN 4
  ELSE IF s = "BUDGET_OFFICER_VALIDATION" THEN 5
  ELSE 6

GaeCore == {"CENTRALIZED_L1_REVIEW", "CENTRALIZED_HEAD_REVIEW",
            "BUDGET_OFFICER_VALIDATION", "BUDGET_OFFICER_REVIEW"}

\* The flags of a GAE request add or drop the Department Head and the CFO and
\* leave the order alone.
LEMMA GaeChainOrder ==
  ASSUME NEW own \in BOOLEAN, NEW cfo \in BOOLEAN
  PROVE  LET chain == GaeChain(own, cfo)
         IN  /\ \A i, j \in DOMAIN chain : i < j <=> Rank(chain[i]) < Rank(chain[j])
             /\ \A s : (\E i \in DOMAIN chain : chain[i] = s) <=>
                  \/ s \in GaeCore
                  \/ s = "DEPT_HEAD_REVIEW" /\ ~own
                  \/ s = "CFO_APPROVAL" /\ cfo
<1>0. /\ Rank("DEPT_HEAD_REVIEW") = 1 /\ Rank("CFO_APPROVAL") = 2
      /\ Rank("CENTRALIZED_L1_REVIEW") = 3 /\ Rank("CENTRALIZED_HEAD_REVIEW") = 4
      /\ Rank("BUDGET_OFFICER_VALIDATION") = 5 /\ Rank("BUDGET_OFFICER_REVIEW") = 6
  BY DEF Rank
<1>1. CASE own /\ cfo
  <2> DEFINE chain == GaeChain(own, cfo)
  <2>1. /\ DOMAIN chain = {1, 2, 3, 4, 5}
        /\ chain[1] = "CFO_APPROVAL"
        /\ chain[2] = "CENTRALIZED_L1_REVIEW"
        /\ chain[3] = "CENTRALIZED_HEAD_REVIEW"
        /\ chain[4] = "BUDGET_OFFICER_VALIDATION"
        /\ chain[5] = "BUDGET_OFFICER_REVIEW"
    BY <1>1 DEF GaeChain
  <2> HIDE DEF chain
  <2>2. \A i, j \in DOMAIN chain : i < j <=> Rank(chain[i]) < Rank(chain[j])
    BY <1>0, <2>1
  <2>3. \A s : (\E i \in DOMAIN chain : chain[i] = s) <=>
                \E i \in {1, 2, 3, 4, 5} : chain[i] = s
    BY <2>1
  <2>4. \A s : (\E i \in DOMAIN chain : chain[i] = s) <=>
                s \in {"CFO_APPROVAL", "CENTRALIZED_L1_REVIEW", "CENTRALIZED_HEAD_REVIEW", "BUDGET_OFFICER_VALIDATION", "BUDGET_OFFICER_REVIEW"}
    BY <2>1, <2>3
  <2> QED
    BY <1>1, <2>2, <2>4 DEF chain, GaeCore
<1>2. CASE own /\ ~cfo
  <2> DEFINE chain == GaeChain(own, cfo)
  <2>1. /\ DOMAIN chain = {1, 2, 3, 4}
        /\ chain[1] = "CENTRALIZED_L1_REVIEW"
        /\ chain[2] = "CENTRALIZED_HEAD_REVIEW"
        /\ chain[3] = "BUDGET_OFFICER_VALIDATION"
        /\ chain[4] = "BUDGET_OFFICER_REVIEW"
    BY <1>2 DEF GaeChain
  <2> HIDE DEF chain
  <2>2. \A i, j \in DOMAIN chain : i < j <=> Rank(chain[i]) < Rank(chain[j])
    BY <1>0, <2>1
  <2>3. \A s : (\E i \in DOMAIN chain : chain[i] = s) <=>
                \E i \in {1, 2, 3, 4} : chain[i] = s
    BY <2>1
  <2>4. \A s : (\E i \in DOMAIN chain : chain[i] = s) <=>
                s \in {"CENTRALIZED_L1_REVIEW", "CENTRALIZED_HEAD_REVIEW", "BUDGET_OFFICER_VALIDATION", "BUDGET_OFFICER_REVIEW"}
    BY <2>1, <2>3
  <2> QED
    BY <1>2, <2>2, <2>4 DEF chain, GaeCore
<1>3. CASE ~own /\ cfo
  <2> DEFINE chain == GaeChain(own, cfo)
  <2>1. /\ DOMAIN chain = {1, 2, 3, 4, 5, 6}
        /\ chain[1] = "DEPT_HEAD_REVIEW"
        /\ chain[2] = "CFO_APPROVAL"
        /\ chain[3] = "CENTRALIZED_L1_REVIEW"
        /\ chain[4] = "CENTRALIZED_HEAD_REVIEW"
        /\ chain[5] = "BUDGET_OFFICER_VALIDATION"
        /\ chain[6] = "BUDGET_OFFICER_REVIEW"
    BY <1>3 DEF GaeChain
  <2> HIDE DEF chain
  <2>2. \A i, j \in DOMAIN chain : i < j <=> Rank(chain[i]) < Rank(chain[j])
    BY <1>0, <2>1
  <2>3. \A s : (\E i \in DOMAIN chain : chain[i] = s) <=>
                \E i \in {1, 2, 3, 4, 5, 6} : chain[i] = s
    BY <2>1
  <2>4. \A s : (\E i \in DOMAIN chain : chain[i] = s) <=>
                s \in {"DEPT_HEAD_REVIEW", "CFO_APPROVAL", "CENTRALIZED_L1_REVIEW", "CENTRALIZED_HEAD_REVIEW", "BUDGET_OFFICER_VALIDATION", "BUDGET_OFFICER_REVIEW"}
    BY <2>1, <2>3
  <2> QED
    BY <1>3, <2>2, <2>4 DEF chain, GaeCore
<1>4. CASE ~own /\ ~cfo
  <2> DEFINE chain == GaeChain(own, cfo)
  <2>1. /\ DOMAIN chain = {1, 2, 3, 4, 5}
        /\ chain[1] = "DEPT_HEAD_REVIEW"
        /\ chain[2] = "CENTRALIZED_L1_REVIEW"
        /\ chain[3] = "CENTRALIZED_HEAD_REVIEW"
        /\ chain[4] = "BUDGET_OFFICER_VALIDATION"
        /\ chain[5] = "BUDGET_OFFICER_REVIEW"
    BY <1>4 DEF GaeChain
  <2> HIDE DEF chain
  <2>2. \A i, j \in DOMAIN chain : i < j <=> Rank(chain[i]) < Rank(chain[j])
    BY <1>0, <2>1
  <2>3. \A s : (\E i \in DOMAIN chain : chain[i] = s) <=>
                \E i \in {1, 2, 3, 4, 5} : chain[i] = s
    BY <2>1
  <2>4. \A s : (\E i \in DOMAIN chain : chain[i] = s) <=>
                s \in {"DEPT_HEAD_REVIEW", "CENTRALIZED_L1_REVIEW", "CENTRALIZED_HEAD_REVIEW", "BUDGET_OFFICER_VALIDATION", "BUDGET_OFFICER_REVIEW"}
    BY <2>1, <2>3
  <2> QED
    BY <1>4, <2>2, <2>4 DEF chain, GaeCore
<1> QED
  BY <1>1, <1>2, <1>3, <1>4

\* What comes before a stage of a GAE chain, without looking at positions.
LEMMA GaeStagesBefore ==
  ASSUME NEW q, HasChain(q), q.requestCategory \in SharedChainCategories
  PROVE  /\ \A s : InChain(q, s) <=>
              \/ s \in GaeCore
              \/ s = "DEPT_HEAD_REVIEW" /\ ~q.ownDeptInitiated
              \/ s = "CFO_APPROVAL" /\ q.requiresCfoApproval
         /\ \A s : InChain(q, s) =>
              StagesBefore(q, s) = {t \in ChainStages : InChain(q, t) /\ Rank(t) < Rank(s)}
<1> DEFINE chain == GaeChain(q.ownDeptInitiated, q.requiresCfoApproval)
<1>1. ChainFor(q) = chain
  BY DEF ChainFor, SbuBatchCategories, SharedChainCategories
<1>2. /\ \A i, j \in DOMAIN chain : i < j <=> Rank(chain[i]) < Rank(chain[j])
      /\ \A s : (\E i \in DOMAIN chain : chain[i] = s) <=>
           \/ s \in GaeCore
           \/ s = "DEPT_HEAD_REVIEW" /\ ~q.ownDeptInitiated
           \/ s = "CFO_APPROVAL" /\ q.requiresCfoApproval
  BY GaeChainOrder DEF HasChain
<1> HIDE DEF chain
<1>3. ASSUME NEW s, NEW t, InChain(q, s), InChain(q, t)
      PROVE  IndexOf(q, t) < IndexOf(q, s) <=> Rank(t) < Rank(s)
  <2>1. /\ IndexOf(q, s) \in DOMAIN ChainFor(q) /\ ChainFor(q)[IndexOf(q, s)] = s
        /\ IndexOf(q, t) \in DOMAIN ChainFor(q) /\ ChainFor(q)[IndexOf(q, t)] = t
    BY <1>3 DEF InChain, IndexOf
  <2> QED
    BY <1>1, <1>2, <2>1
<1>4. ASSUME NEW s, InChain(q, s)
      PROVE  StagesBefore(q, s) = {t \in ChainStages : InChain(q, t) /\ Rank(t) < Rank(s)}
  BY <1>3, <1>4 DEF StagesBefore
<1> QED
  BY <1>1, <1>2, <1>4 DEF InChain

-----------------------------------------------------------------------------
(* The inductive invariant.                                                 *)

ClosedStages == {"APPROVED", "CANCELLED"}

\* A row with the stages that signed it and its published amount.
SoundSignatures(q, sg) ==
  /\ InReview(q) => InChain(q, q.currentStage) /\ sg = StagesBefore(q, q.currentStage)
  /\ q.currentStage = "APPROVED" => sg = {s \in ChainStages : InChain(q, s)}
  /\ q.currentStage = "DRAFT" => sg = {}

SoundStatus(q) ==
  /\ q.currentStage = "DRAFT" => q.status \in {"DRAFT", "RETURNED"}
  /\ InReview(q) => q.status = "IN_REVIEW"
  /\ Closed(q) => q.status = q.currentStage

\* Nobody is assigned to a draft or a cancelled request: HoldsRoleOf gives no
\* one those stages either, so no decision applies to them.
SoundAssignee(q) == q.currentStage \in {"DRAFT", "CANCELLED"} => q.assigneeId = NoUser

\* The stored flag is that of the form: submitting sets it and only drafts
\* are edited.
SoundFlag(q) ==
  /\ InReview(q) \/ q.currentStage = "APPROVED" =>
       q.requiresCfoApproval = RequiresCfoApproval(q)
  /\ q.requestCategory \in SharedChainCategories => q.expenseLineItem # NoItem

SoundLine(q, ln) ==
  q.currentStage = "APPROVED" => ln = q.proposedAmount - q.budgetCutAmount

Sound(q, sg, ln) ==
  /\ SoundSignatures(q, sg) /\ SoundStatus(q) /\ SoundAssignee(q)
  /\ SoundFlag(q) /\ SoundLine(q, ln)

IInv ==
  /\ TypeOK
  /\ \A r \in Requests :
       IF Exists(r) THEN Sound(row[r], signed[r], line[r]) ELSE signed[r] = {}

-----------------------------------------------------------------------------
(* Rows.                                                                    *)

\* A row's columns have their types; a chain can be computed from it.
LEMMA RowColumns ==
  ASSUME NEW q \in Row
  PROVE  /\ HasChain(q)
         /\ q.requestCategory \in Categories /\ q.createdById \in Users
         /\ q.sbu \in Sbus \cup {NoSbu}
         /\ q.expenseLineItem \in LineItems \cup {NoItem}
         /\ q.departmentHeadId \in MaybeUser /\ q.centralizedHeadId \in MaybeUser
         /\ q.proposedAmount \in Amounts /\ q.budgetCutAmount \in Cuts
         /\ q.overLimit \in BOOLEAN /\ q.currentStage \in RequestStage
         /\ q.status \in Statuses /\ q.assigneeId \in MaybeUser
         /\ RequiresCfoApproval(q) \in BOOLEAN
BY DEF Row, HasChain, RequiresCfoApproval

\* assigneeForStage returns a user or nobody.
LEMMA AssigneeType ==
  ASSUME NEW q \in Row, NEW stage
  PROVE  AssigneeForStage(q, stage) \in MaybeUser
BY RowColumns, ChainAssumption DEF AssigneeForStage, MaybeUser

\* Every way the handlers write a row yields a row.
LEMMA WrittenRows ==
  ASSUME NEW q \in Row
  PROVE  /\ \A stage \in ChainStages \cup {Requestor} : MovedTo(q, q, stage) \in Row
         /\ \A stage \in ChainStages \cup {Requestor} : ReturnedTo(q, q, stage) \in Row
         /\ Cancelled(q) \in Row /\ Approved(q) \in Row
         /\ \A u \in MaybeUser : [q EXCEPT !.assigneeId = u] \in Row
         /\ \A c \in Cuts : CutBy(q, q, c) \in Row
<1>1. \A stage \in ChainStages \cup {Requestor} : MovedTo(q, q, stage) \in Row
  BY AssigneeType DEF MovedTo, Row, RequestStage, Statuses, MaybeUser
<1>2. \A stage \in ChainStages \cup {Requestor} : ReturnedTo(q, q, stage) \in Row
  BY <1>1 DEF ReturnedTo, Row, RequestStage, ChainStages, MaybeUser
<1>3. Cancelled(q) \in Row /\ Approved(q) \in Row
  BY DEF Cancelled, Approved, Row, RequestStage, Statuses, MaybeUser
<1>4. \A u \in MaybeUser : [q EXCEPT !.assigneeId = u] \in Row
  BY DEF Row
<1>5. \A c \in Cuts : CutBy(q, q, c) \in Row
  BY DEF CutBy, Row
<1> QED
  BY <1>1, <1>2, <1>3, <1>4, <1>5

\* A write that leaves chain, stage, status, plan and line item alone keeps a
\* row sound if it assigns no one to a closed or draft row and does not touch
\* the amounts of an approved one.
LEMMA SameStageIsSound ==
  ASSUME NEW q \in Row, NEW p \in Row, NEW sg, NEW ln, Sound(q, sg, ln),
         p.requestCategory = q.requestCategory,
         p.ownDeptInitiated = q.ownDeptInitiated,
         p.requiresCfoApproval = q.requiresCfoApproval,
         p.currentStage = q.currentStage, p.status = q.status,
         p.overLimit = q.overLimit, p.expenseLineItem = q.expenseLineItem,
         SoundAssignee(p),
         q.currentStage = "APPROVED" =>
           /\ p.proposedAmount = q.proposedAmount
           /\ p.budgetCutAmount = q.budgetCutAmount
  PROVE  Sound(p, sg, ln)
<1>1. /\ \A s : InChain(p, s) <=> InChain(q, s)
      /\ \A s : StagesBefore(p, s) = StagesBefore(q, s)
  BY SameChain
<1>2. SoundSignatures(p, sg)
  BY <1>1 DEF Sound, SoundSignatures, InReview
<1>3. SoundStatus(p)
  BY DEF Sound, SoundStatus, InReview, Closed
<1>4. SoundFlag(p)
  BY DEF Sound, SoundFlag, InReview, RequiresCfoApproval
<1>5. SoundLine(p, ln)
  BY DEF Sound, SoundLine
<1> QED
  BY <1>2, <1>3, <1>4, <1>5 DEF Sound

\* Only who is assigned, or holds the role of a stage in the chain, may
\* decide: never on a draft or on a cancelled request.
LEMMA DecidableStages ==
  ASSUME NEW q \in Row, NEW sg, NEW ln, Sound(q, sg, ln), NEW u,
         CanActOnStage(u, q, q.currentStage)
  PROVE  InReview(q) \/ q.currentStage = "APPROVED"
<1>1. q.currentStage \in RequestStage
  BY RowColumns
<1>2. q.currentStage \notin {"DRAFT", "CANCELLED"}
  <2> SUFFICES ASSUME q.currentStage \in {"DRAFT", "CANCELLED"} PROVE FALSE
    OBVIOUS
  <2>1. q.assigneeId = NoUser
    BY DEF Sound, SoundAssignee
  <2> QED
    BY <2>1 DEF CanActOnStage, HoldsRoleOf
<1> QED
  BY <1>1, <1>2 DEF InReview, RequestStage

\* submitRequest puts a complete draft at the first stage of its new chain.
LEMMA SubmittedIsSound ==
  ASSUME NEW q \in Row, NEW ln,
         q.requestCategory \in SharedChainCategories => q.expenseLineItem # NoItem
  PROVE  /\ Submitted(q, q) \in Row
         /\ Sound(Submitted(q, q), {}, ln)
         /\ InReview(Submitted(q, q))
<1> DEFINE s == WithFlags(q)
           p == Submitted(q, q)
<1>1. s \in Row
  BY RowColumns DEF WithFlags, Row, OwnDeptInitiated
<1>2. HasChain(s)
  BY <1>1, RowColumns
<1>3. /\ InChain(s, ChainFor(s)[1])
      /\ ChainFor(s)[1] \in ChainStages
      /\ StagesBefore(s, ChainFor(s)[1]) = {}
  BY <1>2, NothingBeforeFirst, IndexOfStage
<1>4. p \in Row
  <2>1. AssigneeForStage(s, ChainFor(s)[1]) \in MaybeUser
    BY <1>1, AssigneeType
  <2>2. s.ownDeptInitiated \in BOOLEAN /\ s.requiresCfoApproval \in BOOLEAN
    BY <1>2 DEF HasChain
  <2> HIDE DEF s
  <2> QED
    BY <2>1, <2>2, <1>3 DEF Submitted, Row, RequestStage, Statuses, s
<1>5. /\ p.requestCategory = s.requestCategory
      /\ p.ownDeptInitiated = s.ownDeptInitiated
      /\ p.requiresCfoApproval = s.requiresCfoApproval
      /\ p.requiresCfoApproval = RequiresCfoApproval(q)
      /\ p.currentStage = ChainFor(s)[1] /\ p.status = "IN_REVIEW"
      /\ p.overLimit = q.overLimit /\ p.expenseLineItem = q.expenseLineItem
      /\ p.requestCategory = q.requestCategory
  BY DEF Submitted, WithFlags, Row
<1> HIDE DEF s, p
<1>6. InChain(p, p.currentStage) /\ StagesBefore(p, p.currentStage) = {}
  BY <1>3, <1>5, SameChain
<1>7. p.currentStage \in ChainStages
  BY <1>3, <1>5
<1>8. Sound(p, {}, ln)
  BY <1>5, <1>6, <1>7 DEF Sound, SoundSignatures, SoundStatus, SoundAssignee, SoundFlag,
     SoundLine, InReview, Closed, RequiresCfoApproval, ChainStages
<1> QED
  BY <1>4, <1>7, <1>8 DEF p, InReview

\* What a move inside the chain changes, and what it leaves alone.
LEMMA MovedColumns ==
  ASSUME NEW q \in Row, NEW t \in ChainStages,
         NEW p \in {MovedTo(q, q, t), ReturnedTo(q, q, t)}
  PROVE  /\ p \in Row
         /\ p.currentStage = t /\ p.status = q.status
         /\ p.requestCategory = q.requestCategory
         /\ p.ownDeptInitiated = q.ownDeptInitiated
         /\ p.requiresCfoApproval = q.requiresCfoApproval
         /\ p.overLimit = q.overLimit /\ p.expenseLineItem = q.expenseLineItem
<1>1. t # Requestor
  BY DEF ChainStages, Requestor
<1>2. p \in Row
  BY WrittenRows
<1>3. CASE p = MovedTo(q, q, t)
  BY <1>1, <1>2, <1>3 DEF MovedTo, Row
<1>4. CASE p = ReturnedTo(q, q, t)
  BY <1>1, <1>2, <1>4 DEF ReturnedTo, MovedTo, Row
<1> QED
  BY <1>3, <1>4

\* An open row moved inside its chain is sound with the signatures the new
\* stage presupposes.
LEMMA MovedIsSound ==
  ASSUME NEW q \in Row, NEW sg, NEW ln, Sound(q, sg, ln), InReview(q),
         NEW t, InChain(q, t), NEW p \in {MovedTo(q, q, t), ReturnedTo(q, q, t)}
  PROVE  p \in Row /\ Sound(p, StagesBefore(q, t), ln)
<1>1. HasChain(q)
  BY RowColumns
<1>2. t \in ChainStages
  BY <1>1, IndexOfStage
<1>3. /\ p \in Row
      /\ p.currentStage = t /\ p.status = q.status
      /\ p.requestCategory = q.requestCategory
      /\ p.ownDeptInitiated = q.ownDeptInitiated
      /\ p.requiresCfoApproval = q.requiresCfoApproval
      /\ p.overLimit = q.overLimit /\ p.expenseLineItem = q.expenseLineItem
  BY <1>2, MovedColumns
<1>4. InChain(p, t) /\ StagesBefore(p, t) = StagesBefore(q, t)
  BY <1>3, SameChain
<1> QED
  BY <1>2, <1>3, <1>4 DEF Sound, SoundSignatures, SoundStatus, SoundAssignee, SoundFlag,
     SoundLine, InReview, Closed, RequiresCfoApproval, ChainStages

\* An approval signs the stage and moves to the next one.
LEMMA ApprovalIsSound ==
  ASSUME NEW q \in Row, NEW sg, NEW ln, Sound(q, sg, ln),
         HasNext(q, q.currentStage)
  PROVE  LET p == MovedTo(q, q, NextStageAfter(q, q.currentStage))
         IN  /\ InReview(q)
             /\ p \in Row
             /\ Sound(p, sg \cup {q.currentStage}, ln)
<1> DEFINE stage == q.currentStage
           next == NextStageAfter(q, stage)
<1>1. HasChain(q) /\ InChain(q, stage)
  BY RowColumns DEF HasNext
<1>2. InReview(q)
  BY <1>1, IndexOfStage DEF InReview
<1>3. InChain(q, next) /\ StagesBefore(q, next) = StagesBefore(q, stage) \cup {stage}
  BY <1>1, NextAddsStage
<1>4. sg = StagesBefore(q, stage)
  BY <1>2 DEF Sound, SoundSignatures
<1>5. /\ MovedTo(q, q, next) \in Row
      /\ Sound(MovedTo(q, q, next), StagesBefore(q, next), ln)
  BY <1>2, <1>3, MovedIsSound
<1> QED
  BY <1>2, <1>3, <1>4, <1>5

\* A return to the requestor drops the signatures; a return inside the chain
\* keeps those of the stages before its target.
LEMMA ReturnIsSound ==
  ASSUME NEW q \in Row, NEW sg, NEW ln, Sound(q, sg, ln), NEW t,
         \/ t = Requestor
         \/ InReview(q) /\ InChain(q, t) /\ IndexOf(q, t) <= IndexOf(q, q.currentStage),
         NEW p \in {MovedTo(q, q, t), ReturnedTo(q, q, t)}
  PROVE  /\ p \in Row
         /\ Sound(p, IF t = Requestor THEN {} ELSE sg \cap StagesBefore(q, t), ln)
<1>1. CASE t = Requestor
  <2>1. p = MovedTo(q, q, Requestor)
    BY <1>1 DEF ReturnedTo, Requestor
  <2>2. /\ p \in Row
        /\ p.currentStage = "DRAFT" /\ p.status = "RETURNED" /\ p.assigneeId = NoUser
        /\ p.requestCategory = q.requestCategory
        /\ p.expenseLineItem = q.expenseLineItem
    BY <2>1, WrittenRows DEF MovedTo, Row
  <2> QED
    BY <1>1, <2>2 DEF Sound, SoundSignatures, SoundStatus, SoundAssignee, SoundFlag,
       SoundLine, InReview, Closed, ChainStages
<1>2. CASE t # Requestor
  <2>1. /\ InReview(q) /\ InChain(q, t)
        /\ IndexOf(q, t) <= IndexOf(q, q.currentStage)
    BY <1>2
  <2>2. HasChain(q)
    BY RowColumns
  <2>3. InChain(q, q.currentStage) /\ sg = StagesBefore(q, q.currentStage)
    BY <2>1 DEF Sound, SoundSignatures
  <2>4. sg \cap StagesBefore(q, t) = StagesBefore(q, t)
    BY <2>1, <2>2, <2>3, BeforeEarlierStage
  <2>5. p \in Row /\ Sound(p, StagesBefore(q, t), ln)
    BY <2>1, MovedIsSound
  <2> QED
    BY <1>2, <2>4, <2>5
<1> QED
  BY <1>1, <1>2

LEMMA CancellationIsSound ==
  ASSUME NEW q \in Row, NEW sg, NEW ln, Sound(q, sg, ln)
  PROVE  Cancelled(q) \in Row /\ Sound(Cancelled(q), sg, ln)
<1>1. /\ Cancelled(q) \in Row
      /\ Cancelled(q).currentStage = "CANCELLED" /\ Cancelled(q).status = "CANCELLED"
      /\ Cancelled(q).assigneeId = NoUser
      /\ Cancelled(q).requestCategory = q.requestCategory
      /\ Cancelled(q).expenseLineItem = q.expenseLineItem
  BY WrittenRows DEF Cancelled, Row
<1> QED
  BY <1>1 DEF Sound, SoundSignatures, SoundStatus, SoundAssignee, SoundFlag, SoundLine,
     InReview, Closed, ChainStages

\* Finalize & Upload is the signature that completes the chain.
LEMMA FinalizationIsSound ==
  ASSUME NEW q \in Row, NEW sg, NEW ln, Sound(q, sg, ln),
         q.currentStage = "BUDGET_OFFICER_REVIEW"
  PROVE  /\ FinalAmount(q) \in NetAmounts
         /\ Approved(q) \in Row
         /\ Sound(Approved(q), sg \cup {q.currentStage}, FinalAmount(q))
<1> DEFINE p == Approved(q)
           last == "BUDGET_OFFICER_REVIEW"
<1>1. FinalAmount(q) \in NetAmounts
  BY RowColumns DEF FinalAmount, NetAmounts
<1>2. /\ p \in Row
      /\ p.currentStage = "APPROVED" /\ p.status = "APPROVED"
      /\ p.requestCategory = q.requestCategory
      /\ p.ownDeptInitiated = q.ownDeptInitiated
      /\ p.requiresCfoApproval = q.requiresCfoApproval
      /\ p.overLimit = q.overLimit /\ p.expenseLineItem = q.expenseLineItem
      /\ p.proposedAmount = q.proposedAmount /\ p.budgetCutAmount = q.budgetCutAmount
  BY WrittenRows DEF Approved, Row
<1>3. sg \cup {last} = {s \in ChainStages : InChain(q, s)}
  <2>1. HasChain(q) /\ InReview(q)
    BY RowColumns DEF InReview, ChainStages
  <2>2. sg = StagesBefore(q, last)
    BY <2>1 DEF Sound, SoundSignatures
  <2> QED
    BY <2>1, <2>2, BudgetOfficerIsLast
<1>4. {s \in ChainStages : InChain(p, s)} = {s \in ChainStages : InChain(q, s)}
  BY <1>2, SameChain
<1>5. InReview(q)
  BY DEF InReview, ChainStages
<1> HIDE DEF p
<1>6. Sound(p, sg \cup {q.currentStage}, FinalAmount(q))
  BY <1>2, <1>3, <1>4, <1>5 DEF Sound, SoundSignatures, SoundStatus, SoundAssignee,
     SoundFlag, SoundLine, InReview, Closed, RequiresCfoApproval, FinalAmount, ChainStages
<1> QED
  BY <1>1, <1>2, <1>6 DEF p

-----------------------------------------------------------------------------
(* Steps.                                                                   *)

CycleOK ==
  /\ overdue \subseteq Deadlines
  /\ forecastReady \subseteq Departments
  /\ cycleOpen \in BOOLEAN

\* Writing one request soundly keeps the invariant.
LEMMA WriteKeepsInvariant ==
  ASSUME IInv, NEW r \in Requests, NEW p \in Row,
         NEW sg \in SUBSET ChainStages, NEW ln \in NetAmounts \cup {NoLine},
         Sound(p, sg, ln),
         Write(r, p),
         signed' = [signed EXCEPT ![r] = sg],
         line' = [line EXCEPT ![r] = ln],
         sapPostings' \in [Requests -> 0 .. MaxPostings],
         CycleOK'
  PROVE  IInv'
<1>1. /\ row \in [Requests -> Row \cup {NoRow}]
      /\ line \in [Requests -> NetAmounts \cup {NoLine}]
      /\ signed \in [Requests -> SUBSET ChainStages]
  BY DEF IInv, TypeOK
<1>2. TypeOK'
  BY <1>1 DEF TypeOK, CycleOK, Write
<1>3. ASSUME NEW x \in Requests, x # r
      PROVE  row'[x] = row[x] /\ signed'[x] = signed[x] /\ line'[x] = line[x]
  BY <1>1, <1>3 DEF Write
<1>4. row'[r] = p /\ signed'[r] = sg /\ line'[r] = ln
  BY <1>1 DEF Write
<1>5. p # NoRow
  BY RequestsAssumption
<1>6. ASSUME NEW x \in Requests
      PROVE  IF row'[x] # NoRow THEN Sound(row'[x], signed'[x], line'[x])
             ELSE signed'[x] = {}
  <2>1. CASE x = r
    BY <2>1, <1>4, <1>5
  <2>2. CASE x # r
    BY <2>2, <1>3 DEF IInv, Exists
  <2> QED
    BY <2>1, <2>2
<1> QED
  BY <1>2, <1>6 DEF IInv, Exists

LEMMA InvariantTypes == ASSUME IInv PROVE TypeOK
BY DEF IInv

\* The invariant at a request that exists.
LEMMA InvariantAt ==
  ASSUME IInv, NEW r \in Requests, Exists(r)
  PROVE  /\ row[r] \in Row /\ Sound(row[r], signed[r], line[r])
         /\ signed[r] \in SUBSET ChainStages
         /\ line[r] \in NetAmounts \cup {NoLine}
         /\ sapPostings \in [Requests -> 0 .. MaxPostings]
         /\ signed = [signed EXCEPT ![r] = signed[r]]
         /\ line = [line EXCEPT ![r] = line[r]]
         /\ CycleOK
BY DEF IInv, TypeOK, Exists, CycleOK

\* Every form the create routes accept starts a sound draft.
LEMMA NewRowIsSound ==
  ASSUME NEW o \in Origins, NEW amount \in Amounts,
         NEW complete \in BOOLEAN, NEW overLimit \in BOOLEAN,
         NEW deptHead \in Pickable \cup {NoUser}, NEW centralHead \in Pickable \cup {NoUser},
         NEW ln
  PROVE  LET p == NewRow(o, amount, complete, overLimit, deptHead, centralHead)
         IN  p \in Row /\ p.currentStage = "DRAFT" /\ Sound(p, {}, ln)
<1> DEFINE p == NewRow(o, amount, complete, overLimit, deptHead, centralHead)
<1>1. /\ o.requestCategory \in Categories /\ o.createdById \in Users
      /\ o.sbu \in Sbus \cup {NoSbu} /\ o.expenseLineItem \in LineItems \cup {NoItem}
      /\ o.requestCategory \in SharedChainCategories => o.expenseLineItem # NoItem
  BY RequestsAssumption DEF Origin, SbuBatchCategories, SharedChainCategories
<1>2. deptHead \in MaybeUser /\ centralHead \in MaybeUser
  BY AmountAssumption DEF MaybeUser
<1>3. p \in Row
  BY <1>1, <1>2 DEF NewRow, Row, RequestStage, Statuses, MaybeUser, Cuts
<1>4. /\ p.currentStage = "DRAFT" /\ p.status = "DRAFT" /\ p.assigneeId = NoUser
      /\ p.requestCategory = o.requestCategory /\ p.expenseLineItem = o.expenseLineItem
  BY DEF NewRow
<1> HIDE DEF p
<1>5. Sound(p, {}, ln)
  BY <1>1, <1>4 DEF Sound, SoundSignatures, SoundStatus, SoundAssignee, SoundFlag, SoundLine,
     InReview, Closed, ChainStages
<1> QED
  BY <1>3, <1>4, <1>5 DEF p

LEMMA CreateKeepsInvariant ==
  ASSUME IInv, NEW r \in Requests, NEW o \in Origins, Create(r, o)
  PROVE  IInv'
<1>1. ~Exists(r) /\ UNCHANGED <<line, signed, sapPostings, cycleVars>>
  BY DEF Create
<1>2. PICK p \in Row : Write(r, p) /\ Sound(p, {}, line[r])
  BY NewRowIsSound DEF Create
<1>3. /\ signed[r] = {} /\ line[r] \in NetAmounts \cup {NoLine}
      /\ signed' = [signed EXCEPT ![r] = {}] /\ line' = [line EXCEPT ![r] = line[r]]
      /\ sapPostings' \in [Requests -> 0 .. MaxPostings]
      /\ CycleOK'
  BY <1>1 DEF IInv, TypeOK, CycleOK, cycleVars
<1> QED
  BY <1>2, <1>3, WriteKeepsInvariant

\* The columns no handler but submitRequest and moveTo writes.
SameCourse(p, q) ==
  /\ p.requestCategory = q.requestCategory /\ p.createdById = q.createdById
  /\ p.sbu = q.sbu
  /\ p.ownDeptInitiated = q.ownDeptInitiated
  /\ p.requiresCfoApproval = q.requiresCfoApproval
  /\ p.currentStage = q.currentStage /\ p.status = q.status

\* What an edit can make of a row.
LEMMA FormsOfRow ==
  ASSUME NEW q \in Row, NEW p, p \in EditedForms(q)
  PROVE  /\ p \in Row /\ SameCourse(p, q)
         /\ p.assigneeId = q.assigneeId /\ p.budgetCutAmount = q.budgetCutAmount
         /\ q.expenseLineItem # NoItem => p.expenseLineItem # NoItem
<1>1. PICK amount \in Amounts, complete \in BOOLEAN, overLimit \in BOOLEAN,
           deptHead \in Pickable \cup {q.departmentHeadId},
           centralHead \in Pickable \cup {q.centralizedHeadId},
           item \in LineItems \cup {q.expenseLineItem} :
        p = WithForm(q, amount, complete, overLimit, deptHead, centralHead, item)
  BY DEF EditedForms
<1>2. /\ deptHead \in MaybeUser /\ centralHead \in MaybeUser
      /\ item \in LineItems \cup {NoItem}
      /\ q.expenseLineItem # NoItem => item # NoItem
  <2>1. /\ q.departmentHeadId \in MaybeUser /\ q.centralizedHeadId \in MaybeUser
        /\ q.expenseLineItem \in LineItems \cup {NoItem}
    BY RowColumns
  <2>2. Pickable \subseteq MaybeUser /\ NoItem \notin LineItems
    BY AmountAssumption, ChainAssumption DEF MaybeUser
  <2> QED
    BY <2>1, <2>2
<1>3. p \in Row
  BY <1>1, <1>2 DEF WithForm, Row
<1>4. /\ SameCourse(p, q) /\ p.assigneeId = q.assigneeId
      /\ p.budgetCutAmount = q.budgetCutAmount /\ p.expenseLineItem = item
  BY <1>1 DEF WithForm, Row, SameCourse
<1> QED
  BY <1>2, <1>3, <1>4

\* An edit writes the form of a draft and keeps its course.
LEMMA EditWrites ==
  ASSUME TypeOK, NEW r \in Requests, NEW u \in Users, Edit(u, r)
  PROVE  \E p \in Row :
           /\ Write(r, p) /\ SameCourse(p, row[r])
           /\ p.currentStage = "DRAFT" /\ p.assigneeId = row[r].assigneeId
           /\ row[r].expenseLineItem # NoItem => p.expenseLineItem # NoItem
<1>1. Exists(r) /\ row[r].currentStage = "DRAFT"
  BY DEF Edit, MayEdit
<1>2. row[r] \in Row
  BY <1>1 DEF TypeOK, Exists
<1>3. PICK p \in EditedForms(row[r]) : Write(r, p)
  BY DEF Edit
<1> QED
  BY <1>1, <1>2, <1>3, FormsOfRow DEF SameCourse

LEMMA EditKeepsInvariant ==
  ASSUME IInv, NEW r \in Requests, NEW u \in Users, Edit(u, r)
  PROVE  IInv'
<1>1. Exists(r) /\ UNCHANGED <<line, signed, sapPostings, cycleVars>>
  BY DEF Edit
<1>2. PICK p \in Row :
        /\ Write(r, p) /\ SameCourse(p, row[r])
        /\ p.currentStage = "DRAFT" /\ p.assigneeId = row[r].assigneeId
        /\ row[r].expenseLineItem # NoItem => p.expenseLineItem # NoItem
  BY InvariantTypes, EditWrites
<1>3. Sound(row[r], signed[r], line[r])
  BY <1>1, InvariantAt
<1>4. Sound(p, signed[r], line[r])
  BY <1>2, <1>3 DEF Sound, SoundSignatures, SoundStatus, SoundAssignee, SoundFlag,
     SoundLine, InReview, Closed, ChainStages, SameCourse
<1> QED
  BY <1>1, <1>2, <1>4, InvariantAt, WriteKeepsInvariant DEF CycleOK, cycleVars

\* A submit first stores the picks; if it is refused, that is all it does.
LEMMA SubmitWrites ==
  ASSUME TypeOK, NEW r \in Requests, NEW u \in Users, Submit(u, r)
  PROVE  \E p \in Row :
           /\ SameCourse(p, row[r]) /\ p.assigneeId = row[r].assigneeId
           /\ p.overLimit = row[r].overLimit
           /\ p.expenseLineItem = row[r].expenseLineItem
           /\ p.proposedAmount = row[r].proposedAmount
           /\ p.budgetCutAmount = row[r].budgetCutAmount
           /\ row[r].departmentHeadId # NoUser => p.departmentHeadId # NoUser
           /\ \/ MaySubmit(p, overdue) /\ Write(r, Submitted(p, p))
              \/ Write(r, p)
<1>1. Exists(r)
  BY DEF Submit
<1> DEFINE q == row[r]
<1>2. PICK deptHead \in Pickable \cup {q.departmentHeadId},
           centralHead \in Pickable \cup {q.centralizedHeadId} :
        LET p == [q EXCEPT !.departmentHeadId = deptHead,
                           !.centralizedHeadId = centralHead]
        IN  \/ MaySubmit(p, overdue) /\ Write(r, Submitted(p, p))
            \/ ~MaySubmit(p, overdue) /\ p # q /\ Write(r, p)
  BY DEF Submit
<1> DEFINE p == [q EXCEPT !.departmentHeadId = deptHead,
                          !.centralizedHeadId = centralHead]
<1>3. q \in Row
  BY <1>1 DEF TypeOK, Exists
<1>4. /\ deptHead \in MaybeUser /\ centralHead \in MaybeUser
      /\ q.departmentHeadId # NoUser => deptHead # NoUser
  BY <1>3, RowColumns, AmountAssumption, ChainAssumption DEF MaybeUser
<1>5. /\ p \in Row /\ p.departmentHeadId = deptHead
      /\ SameCourse(p, q) /\ p.assigneeId = q.assigneeId
      /\ p.overLimit = q.overLimit /\ p.expenseLineItem = q.expenseLineItem
      /\ p.proposedAmount = q.proposedAmount /\ p.budgetCutAmount = q.budgetCutAmount
  BY <1>3, <1>4 DEF Row, SameCourse
<1>6. \/ MaySubmit(p, overdue) /\ Write(r, Submitted(p, p))
      \/ Write(r, p)
  BY <1>2
<1> HIDE DEF p
<1> QED
  BY <1>4, <1>5, <1>6

LEMMA SubmitKeepsInvariant ==
  ASSUME IInv, NEW r \in Requests, NEW u \in Users, Submit(u, r)
  PROVE  IInv'
<1>1. Exists(r) /\ UNCHANGED <<line, signed, sapPostings, cycleVars>>
  BY DEF Submit
<1> DEFINE q == row[r]
<1>2. PICK p \in Row :
        /\ SameCourse(p, q) /\ p.assigneeId = q.assigneeId
        /\ p.overLimit = q.overLimit /\ p.expenseLineItem = q.expenseLineItem
        /\ p.proposedAmount = q.proposedAmount /\ p.budgetCutAmount = q.budgetCutAmount
        /\ \/ MaySubmit(p, overdue) /\ Write(r, Submitted(p, p))
           \/ Write(r, p)
  BY InvariantTypes, SubmitWrites
<1>3. q \in Row /\ Sound(q, signed[r], line[r])
  BY <1>1, InvariantAt
<1>4. CASE MaySubmit(p, overdue) /\ Write(r, Submitted(p, p))
  <2>1. q.currentStage = "DRAFT"
    BY <1>2, <1>4 DEF MaySubmit, SameCourse
  <2>2. signed[r] = {}
    BY <1>3, <2>1 DEF Sound, SoundSignatures
  <2>3. Submitted(p, p) \in Row /\ Sound(Submitted(p, p), signed[r], line[r])
    BY <1>2, <1>3, <2>2, SubmittedIsSound DEF Sound, SoundFlag, SameCourse
  <2> QED
    BY <1>1, <1>4, <2>3, InvariantAt, WriteKeepsInvariant DEF CycleOK, cycleVars
<1>5. CASE Write(r, p)
  <2>1. Sound(p, signed[r], line[r])
    BY <1>2, <1>3, SameStageIsSound DEF Sound, SoundAssignee, SameCourse
  <2> QED
    BY <1>1, <1>5, <2>1, InvariantAt, WriteKeepsInvariant DEF CycleOK, cycleVars
<1> QED
  BY <1>2, <1>4, <1>5

LEMMA CancelKeepsInvariant ==
  ASSUME IInv, NEW r \in Requests, NEW u \in Users, Cancel(u, r)
  PROVE  IInv'
<1>1. /\ Exists(r) /\ Write(r, Cancelled(row[r]))
      /\ UNCHANGED <<line, signed, sapPostings, cycleVars>>
  BY DEF Cancel
<1>2. /\ Cancelled(row[r]) \in Row
      /\ Sound(Cancelled(row[r]), signed[r], line[r])
  BY <1>1, InvariantAt, CancellationIsSound
<1> QED
  BY <1>1, <1>2, InvariantAt, WriteKeepsInvariant DEF CycleOK, cycleVars

LEMMA ApproveKeepsInvariant ==
  ASSUME IInv, NEW r \in Requests, NEW u \in Users, Approve(u, r)
  PROVE  IInv'
<1> DEFINE q == row[r]
           p == MovedTo(q, q, NextStageAfter(q, q.currentStage))
<1>1. /\ Exists(r) /\ HasNext(q, q.currentStage)
      /\ Write(r, p)
      /\ signed' = [signed EXCEPT ![r] = @ \cup {q.currentStage}]
      /\ UNCHANGED <<line, sapPostings, cycleVars>>
  BY DEF Approve, MayApprove
<1>2. q \in Row /\ Sound(q, signed[r], line[r])
  BY <1>1, InvariantAt
<1>3. /\ InReview(q) /\ p \in Row
      /\ Sound(p, signed[r] \cup {q.currentStage}, line[r])
  BY <1>1, <1>2, ApprovalIsSound
<1>4. /\ signed[r] \cup {q.currentStage} \in SUBSET ChainStages
      /\ signed' = [signed EXCEPT ![r] = signed[r] \cup {q.currentStage}]
  BY <1>1, <1>3, InvariantAt DEF InReview
<1> HIDE DEF p
<1> QED
  BY <1>1, <1>3, <1>4, InvariantAt, WriteKeepsInvariant DEF CycleOK, cycleVars

\* A return by decision or at Budget Finalization.
LEMMA BackKeepsInvariant ==
  ASSUME IInv, NEW r \in Requests, Exists(r), NEW t,
         \/ t = Requestor
         \/ /\ InReview(row[r]) /\ InChain(row[r], t)
            /\ IndexOf(row[r], t) <= IndexOf(row[r], row[r].currentStage),
         NEW p \in {MovedTo(row[r], row[r], t), ReturnedTo(row[r], row[r], t)},
         Write(r, p),
         signed' = [signed EXCEPT ![r] = StandingAfterReturn(r, t)],
         UNCHANGED <<line, sapPostings, cycleVars>>
  PROVE  IInv'
<1> DEFINE sg == IF t = Requestor THEN {} ELSE signed[r] \cap StagesBefore(row[r], t)
<1>1. row[r] \in Row /\ Sound(row[r], signed[r], line[r])
  BY InvariantAt
<1>2. p \in Row /\ Sound(p, sg, line[r])
  BY <1>1, ReturnIsSound
<1>3. sg \in SUBSET ChainStages
  BY InvariantAt
<1>4. signed' = [signed EXCEPT ![r] = sg]
  BY DEF StandingAfterReturn
<1> HIDE DEF sg
<1> QED
  BY <1>2, <1>3, <1>4, InvariantAt, WriteKeepsInvariant DEF CycleOK, cycleVars

LEMMA DecisionBackKeepsInvariant ==
  ASSUME IInv, NEW r \in Requests, NEW u \in Users,
         ReturnPrevious(u, r) \/ ReturnRequestor(u, r)
  PROVE  IInv'
<1>1. CASE ReturnRequestor(u, r)
  BY <1>1, BackKeepsInvariant DEF ReturnRequestor, SendBack
<1>2. CASE ReturnPrevious(u, r)
  <2> DEFINE q == row[r]
             t == PreviousStageBefore(q, q.currentStage)
  <2>1. Exists(r) /\ SendBack(r, t)
    BY <1>2 DEF ReturnPrevious
  <2>2. HasChain(q)
    BY <2>1, InvariantAt, RowColumns
  <2>3. t = Requestor \/
        (InReview(q) /\ InChain(q, t) /\ IndexOf(q, t) <= IndexOf(q, q.currentStage))
    BY <2>2, PreviousIsEarlier, IndexOfStage DEF InReview
  <2> HIDE DEF t
  <2> QED
    BY <2>1, <2>3, BackKeepsInvariant DEF SendBack
<1> QED
  BY <1>1, <1>2

LEMMA ReturnToStageKeepsInvariant ==
  ASSUME IInv, NEW r \in Requests, NEW u \in Users, ReturnToStage(u, r)
  PROVE  IInv'
<1> DEFINE q == row[r]
<1>1. Exists(r) /\ q.currentStage = "BUDGET_OFFICER_REVIEW"
  BY DEF ReturnToStage, AtStep5, MayActAtStep5
<1>2. PICK t \in ReturnTargets(q) :
        /\ Write(r, ReturnedTo(q, q, t))
        /\ signed' = [signed EXCEPT ![r] = StandingAfterReturn(r, t)]
  BY DEF ReturnToStage
<1>3. HasChain(q)
  BY <1>1, InvariantAt, RowColumns
<1>4. t = Requestor \/ InChain(q, t)
  BY DEF ReturnTargets
<1>5. t = Requestor \/
      (InReview(q) /\ InChain(q, t) /\ IndexOf(q, t) <= IndexOf(q, q.currentStage))
  BY <1>1, <1>3, <1>4, BudgetOfficerIsLast DEF InReview, ChainStages
<1>6. UNCHANGED <<line, sapPostings, cycleVars>>
  BY DEF ReturnToStage
<1> QED
  BY <1>1, <1>2, <1>5, <1>6, BackKeepsInvariant

LEMMA ReassignKeepsInvariant ==
  ASSUME IInv, NEW r \in Requests, NEW u \in Users, NEW to \in Users, Reassign(u, r, to)
  PROVE  IInv'
<1> DEFINE q == row[r]
           p == [q EXCEPT !.assigneeId = to]
<1>1. /\ Exists(r) /\ CanActOnStage(u, q, q.currentStage) /\ Write(r, p)
      /\ UNCHANGED <<line, signed, sapPostings, cycleVars>>
  BY DEF Reassign
<1>2. q \in Row /\ Sound(q, signed[r], line[r])
  BY <1>1, InvariantAt
<1>3. q.currentStage \notin {"DRAFT", "CANCELLED"}
  BY <1>1, <1>2, DecidableStages DEF InReview, ChainStages
<1>4. p \in Row
  BY <1>2, WrittenRows DEF MaybeUser
<1>5. /\ p.requestCategory = q.requestCategory
      /\ p.ownDeptInitiated = q.ownDeptInitiated
      /\ p.requiresCfoApproval = q.requiresCfoApproval
      /\ p.currentStage = q.currentStage /\ p.status = q.status
      /\ p.overLimit = q.overLimit /\ p.expenseLineItem = q.expenseLineItem
      /\ p.proposedAmount = q.proposedAmount /\ p.budgetCutAmount = q.budgetCutAmount
  BY <1>2 DEF Row
<1> HIDE DEF p
<1>6. Sound(p, signed[r], line[r])
  BY <1>2, <1>3, <1>4, <1>5, SameStageIsSound DEF SoundAssignee
<1> QED
  BY <1>1, <1>4, <1>6, InvariantAt, WriteKeepsInvariant DEF CycleOK, cycleVars

LEMMA BudgetCutKeepsInvariant ==
  ASSUME IInv, NEW r \in Requests, NEW u \in Users, BudgetCut(u, r)
  PROVE  IInv'
<1> DEFINE q == row[r]
<1>1. /\ Exists(r) /\ q.currentStage = "BUDGET_OFFICER_REVIEW"
      /\ UNCHANGED <<line, signed, sapPostings, cycleVars>>
  BY DEF BudgetCut, AtStep5, MayActAtStep5
<1>2. PICK cut \in Cuts : Write(r, CutBy(q, q, cut))
  BY DEF BudgetCut
<1> DEFINE p == CutBy(q, q, cut)
<1>3. q \in Row /\ Sound(q, signed[r], line[r])
  BY <1>1, InvariantAt
<1>4. p \in Row
  BY <1>3, WrittenRows
<1>5. /\ p.requestCategory = q.requestCategory
      /\ p.ownDeptInitiated = q.ownDeptInitiated
      /\ p.requiresCfoApproval = q.requiresCfoApproval
      /\ p.currentStage = q.currentStage /\ p.status = q.status
      /\ p.overLimit = q.overLimit /\ p.expenseLineItem = q.expenseLineItem
  BY <1>3 DEF CutBy, Row
<1> HIDE DEF p
<1>6. Sound(p, signed[r], line[r])
  BY <1>1, <1>3, <1>4, <1>5, SameStageIsSound DEF SoundAssignee
<1>7. Write(r, p)
  BY <1>2 DEF p
<1> QED
  BY <1>1, <1>4, <1>6, <1>7, InvariantAt, WriteKeepsInvariant DEF CycleOK, cycleVars

LEMMA FinalizeKeepsInvariant ==
  ASSUME IInv, NEW r \in Requests, NEW u \in Users, Finalize(u, r)
  PROVE  IInv'
<1> DEFINE q == row[r]
           n == IF q.requestCategory = "NPC" THEN 0 ELSE 1
<1>1. /\ Exists(r) /\ q.currentStage = "BUDGET_OFFICER_REVIEW"
      /\ sapPostings[r] + n <= MaxPostings
      /\ sapPostings' = [sapPostings EXCEPT ![r] = @ + n]
      /\ UNCHANGED cycleVars
  BY DEF Finalize, AtStep5, MayActAtStep5, PostToSap
<1>2. q \in Row /\ Sound(q, signed[r], line[r])
  BY <1>1, InvariantAt
<1>3. sapPostings' \in [Requests -> 0 .. MaxPostings]
  <2>1. sapPostings \in [Requests -> 0 .. MaxPostings] /\ MaxPostings \in Nat
    BY RequestsAssumption DEF IInv, TypeOK
  <2>2. sapPostings[r] + n \in 0 .. MaxPostings
    BY <1>1, <2>1
  <2> QED
    BY <1>1, <2>1, <2>2
<1>4. CASE /\ Write(r, Approved(q))
           /\ line' = [line EXCEPT ![r] = FinalAmount(q)]
           /\ signed' = [signed EXCEPT ![r] = @ \cup {q.currentStage}]
  <2>1. /\ FinalAmount(q) \in NetAmounts /\ Approved(q) \in Row
        /\ Sound(Approved(q), signed[r] \cup {q.currentStage}, FinalAmount(q))
    BY <1>1, <1>2, FinalizationIsSound
  <2>2. signed[r] \cup {q.currentStage} \in SUBSET ChainStages
    BY <1>1, InvariantAt DEF ChainStages
  <2> QED
    BY <1>1, <1>3, <1>4, <2>1, <2>2, InvariantAt, WriteKeepsInvariant DEF CycleOK, cycleVars
<1>5. CASE UNCHANGED <<row, line, signed>>
  BY <1>1, <1>3, <1>5 DEF IInv, TypeOK, Exists, cycleVars
<1> QED
  BY <1>4, <1>5 DEF Finalize

LEMMA InitEstablishesInvariant == Init => IInv
BY RequestsAssumption DEF Init, IInv, TypeOK, Exists

LEMMA RequestStepKeepsInvariant ==
  ASSUME IInv, NEW r \in Requests, NEW u \in Users, RequestStep(u, r)
  PROVE  IInv'
BY EditKeepsInvariant, SubmitKeepsInvariant, CancelKeepsInvariant, ApproveKeepsInvariant,
   DecisionBackKeepsInvariant, ReassignKeepsInvariant, BudgetCutKeepsInvariant,
   ReturnToStageKeepsInvariant, FinalizeKeepsInvariant
   DEF RequestStep

LEMMA CycleStepKeepsInvariant ==
  ASSUME IInv, DueDatesMove \/ ForecastChanges \/ ToggleCycle
  PROVE  IInv' /\ UNCHANGED requestVars
<1>1. UNCHANGED requestVars
  BY DEF DueDatesMove, ForecastChanges, ToggleCycle
<1>2. CycleOK'
  BY DEF DueDatesMove, ForecastChanges, ToggleCycle, CycleOK, IInv, TypeOK
<1> QED
  BY <1>1, <1>2 DEF IInv, TypeOK, CycleOK, Exists, requestVars

LEMMA StepKeepsInvariant == IInv /\ [Next]_vars => IInv'
<1> SUFFICES ASSUME IInv, [Next]_vars PROVE IInv'
  OBVIOUS
<1>1. ASSUME NEW r \in Requests, NEW o \in Origins, Create(r, o) PROVE IInv'
  BY <1>1, CreateKeepsInvariant
<1>2. ASSUME NEW u \in Users, NEW r \in Requests, RequestStep(u, r) PROVE IInv'
  BY <1>2, RequestStepKeepsInvariant
<1>3. CASE DueDatesMove \/ ForecastChanges \/ ToggleCycle
  BY <1>3, CycleStepKeepsInvariant
<1>4. CASE UNCHANGED vars
  BY <1>4 DEF vars, IInv, TypeOK, Exists
<1> QED
  BY <1>1, <1>2, <1>3, <1>4 DEF Next

\* The inductive invariant: every request is sound at every moment.
THEOREM InvariantHolds == Spec => []IInv
<1> QED
  BY InitEstablishesInvariant, StepKeepsInvariant, PTL DEF Spec

-----------------------------------------------------------------------------
(* Invariants.                                                              *)

\* The rows, sign-offs, lines and counters stay in their types: no handler
\* writes a stage, status or assignee the columns cannot hold.
THEOREM TypeCorrect == Spec => []TypeOK
<1>1. IInv => TypeOK
  BY DEF IInv
<1> QED
  BY <1>1, InvariantHolds, PTL

\* Nothing skips a reviewer: wherever a request is, exactly the earlier
\* stages of its chain have signed it since it was last sent back.
THEOREM SignaturesInOrder == Spec => []SignedInOrder
<1>1. IInv => SignedInOrder
  BY DEF IInv, SignedInOrder, Sound, SoundSignatures
<1> QED
  BY <1>1, InvariantHolds, PTL

\* The two columns that say where a request is never disagree.
THEOREM StatusFollowsStage == Spec => []StatusTracksStage
<1>1. IInv => StatusTracksStage
  BY DEF IInv, StatusTracksStage, Sound, SoundStatus
<1> QED
  BY <1>1, InvariantHolds, PTL

\* The published amount of an approved request is the amount that was
\* approved.
THEOREM ApprovedAmountPublished == Spec => []ApprovedHasItsLine
<1>1. IInv => ApprovedHasItsLine
  BY DEF IInv, ApprovedHasItsLine, Sound, SoundLine
<1> QED
  BY <1>1, InvariantHolds, PTL

\* A GAE request with the flag has the CFO in its chain.
LEMMA FlaggedChainHasCfo ==
  ASSUME NEW q, q.requestCategory \in SharedChainCategories, q.requiresCfoApproval = TRUE,
         q.ownDeptInitiated \in BOOLEAN
  PROVE  InChain(q, "CFO_APPROVAL")
<1>1. ChainFor(q) = GaeChain(q.ownDeptInitiated, TRUE)
  BY DEF ChainFor, SbuBatchCategories, SharedChainCategories
<1>2. CASE q.ownDeptInitiated
  <2>1. 1 \in DOMAIN ChainFor(q) /\ ChainFor(q)[1] = "CFO_APPROVAL"
    BY <1>1, <1>2 DEF GaeChain
  <2> QED
    BY <2>1 DEF InChain
<1>3. CASE ~q.ownDeptInitiated
  <2>1. 2 \in DOMAIN ChainFor(q) /\ ChainFor(q)[2] = "CFO_APPROVAL"
    BY <1>1, <1>3 DEF GaeChain
  <2> QED
    BY <2>1 DEF InChain
<1> QED
  BY <1>2, <1>3

\* No over-limit Mobile Phone request is approved without the CFO, whatever
\* was returned, changed and resubmitted on the way.
THEOREM CfoSeesOverLimit == Spec => []CfoSawOverLimit
<1>1. ASSUME IInv PROVE CfoSawOverLimit
  <2> SUFFICES ASSUME NEW r \in Requests, Exists(r), row[r].requestCategory \in SharedChainCategories,
                      row[r].overLimit, row[r].currentStage = "APPROVED"
               PROVE  "CFO_APPROVAL" \in signed[r]
    BY DEF CfoSawOverLimit
  <2> DEFINE q == row[r]
  <2>1. q \in Row /\ Sound(q, signed[r], line[r])
    BY <1>1, InvariantAt
  <2>2. q.requiresCfoApproval = TRUE
    BY <2>1 DEF Sound, SoundFlag, RequiresCfoApproval, Row
  <2>3. InChain(q, "CFO_APPROVAL")
    BY <2>1, <2>2, FlaggedChainHasCfo DEF Row
  <2> QED
    BY <2>1, <2>3 DEF Sound, SoundSignatures, ChainStages
<1> QED
  BY <1>1, InvariantHolds, PTL

-----------------------------------------------------------------------------
(* Action properties.                                                       *)

\* A handler changes no request but its own.
LEMMA StepIsLocal ==
  ASSUME TypeOK, NEW r \in Requests, NEW u \in Users, RequestStep(u, r),
         NEW x \in Requests, x # r
  PROVE  row'[x] = row[x] /\ line'[x] = line[x] /\ signed'[x] = signed[x]
<1> USE DEF TypeOK, Write
<1>1. CASE Edit(u, r) \/ Cancel(u, r) \/ BudgetCut(u, r) \/ \E to \in Users : Reassign(u, r, to)
  BY <1>1 DEF Edit, Cancel, BudgetCut, Reassign
<1>2. CASE Submit(u, r)
  BY <1>2 DEF Submit
<1>3. CASE Approve(u, r) \/ ReturnPrevious(u, r) \/ ReturnRequestor(u, r)
  BY <1>3 DEF Approve, ReturnPrevious, ReturnRequestor, SendBack
<1>4. CASE ReturnToStage(u, r) \/ Finalize(u, r)
  BY <1>4 DEF ReturnToStage, Finalize
<1> QED
  BY <1>1, <1>2, <1>3, <1>4 DEF RequestStep

\* So is creating one.
LEMMA CreateIsLocal ==
  ASSUME TypeOK, NEW r \in Requests, NEW o \in Origins, Create(r, o)
  PROVE  /\ ~Exists(r) /\ UNCHANGED <<line, signed>>
         /\ \A x \in Requests : x # r => row'[x] = row[x]
BY DEF TypeOK, Write, Create

\* No handler rewrites a line that is there: finalizing again fails on its key.
LEMMA StepKeepsLine ==
  ASSUME TypeOK, NEW r \in Requests, NEW u \in Users, RequestStep(u, r),
         NEW x \in Requests, line[x] # NoLine
  PROVE  line'[x] = line[x]
<1>1. CASE x # r
  BY <1>1, StepIsLocal
<1>2. CASE x = r /\ Finalize(u, r)
  BY <1>2 DEF Finalize
<1>3. CASE x = r /\ ~Finalize(u, r)
  BY <1>3 DEF RequestStep, Edit, Submit, Cancel, Approve, ReturnPrevious,
     ReturnRequestor, SendBack, Reassign, BudgetCut, ReturnToStage
<1> QED
  BY <1>1, <1>2, <1>3

\* A finalized line is never rewritten.
THEOREM PublishedIsPermanent == Spec => LineIsPermanent
<1>1. ASSUME IInv, [Next]_vars
      PROVE  [\A r \in Requests : line[r] # NoLine => line'[r] = line[r]]_vars
  <2> SUFFICES ASSUME NEW x \in Requests, line[x] # NoLine PROVE line'[x] = line[x]
    OBVIOUS
  <2>1. ASSUME NEW r \in Requests, NEW o \in Origins, Create(r, o) PROVE line'[x] = line[x]
    BY <2>1 DEF Create
  <2>2. ASSUME NEW u \in Users, NEW r \in Requests, RequestStep(u, r) PROVE line'[x] = line[x]
    BY <1>1, <2>2, InvariantTypes, StepKeepsLine
  <2>3. CASE DueDatesMove \/ ForecastChanges \/ ToggleCycle
    BY <1>1, <2>3, CycleStepKeepsInvariant DEF requestVars
  <2>4. CASE UNCHANGED vars
    BY <2>4 DEF vars
  <2> QED
    BY <1>1, <2>1, <2>2, <2>3, <2>4 DEF Next
<1> QED
  BY <1>1, InvariantHolds, PTL DEF Spec, LineIsPermanent

\* What a handler can do to a cancelled request: store picks, nothing else.
LEMMA CancelledStays ==
  ASSUME IInv, NEW r \in Requests, NEW u \in Users, RequestStep(u, r),
         Exists(r), row[r].currentStage = "CANCELLED"
  PROVE  row'[r].currentStage = "CANCELLED"
<1> DEFINE q == row[r]
<1>1. q \in Row /\ Sound(q, signed[r], line[r]) /\ row \in [Requests -> Row \cup {NoRow}]
  BY InvariantAt DEF IInv, TypeOK
<1>2. ~CanActOnStage(u, q, q.currentStage)
  BY <1>1, DecidableStages DEF InReview, ChainStages
<1>3. /\ ~Edit(u, r) /\ ~Cancel(u, r) /\ ~Approve(u, r)
      /\ ~ReturnPrevious(u, r) /\ ~ReturnRequestor(u, r)
      /\ ~\E to \in Users : Reassign(u, r, to)
  BY <1>2 DEF Edit, MayEdit, Cancel, MayCancel, Closed, Approve, MayApprove, MayDecide,
     ReturnPrevious, ReturnRequestor, Reassign
<1>4. ~BudgetCut(u, r) /\ ~ReturnToStage(u, r) /\ ~Finalize(u, r)
  BY DEF BudgetCut, ReturnToStage, Finalize, AtStep5, MayActAtStep5
<1>5. Submit(u, r)
  BY <1>3, <1>4 DEF RequestStep
<1>6. PICK p \in Row :
        /\ SameCourse(p, q)
        /\ \/ MaySubmit(p, overdue) /\ Write(r, Submitted(p, p))
           \/ Write(r, p)
  BY <1>5, InvariantTypes, SubmitWrites
<1>7. p.currentStage = "CANCELLED"
  BY <1>6 DEF SameCourse
<1>8. ~MaySubmit(p, overdue)
  BY <1>7 DEF MaySubmit
<1> QED
  BY <1>1, <1>6, <1>7, <1>8 DEF Write

\* Nothing brings a cancelled request back, however it was assigned before.
THEOREM CancellationIsFinal == Spec => CancelledIsFinal
<1>1. ASSUME IInv, [Next]_vars
      PROVE  [\A r \in Requests : Exists(r) /\ row[r].currentStage = "CANCELLED"
                => row'[r].currentStage = "CANCELLED"]_vars
  <2> SUFFICES ASSUME NEW x \in Requests, Exists(x), row[x].currentStage = "CANCELLED"
               PROVE  row'[x].currentStage = "CANCELLED"
    OBVIOUS
  <2>1. ASSUME NEW r \in Requests, NEW o \in Origins, Create(r, o)
        PROVE  row'[x] = row[x]
    BY <1>1, <2>1, InvariantTypes, CreateIsLocal
  <2>2. ASSUME NEW u \in Users, NEW r \in Requests, RequestStep(u, r)
        PROVE  row'[x].currentStage = "CANCELLED"
    BY <1>1, <2>2, InvariantTypes, StepIsLocal, CancelledStays
  <2>3. CASE DueDatesMove \/ ForecastChanges \/ ToggleCycle
    BY <1>1, <2>3, CycleStepKeepsInvariant DEF requestVars
  <2>4. CASE UNCHANGED vars
    BY <2>4 DEF vars
  <2> QED
    BY <1>1, <2>1, <2>2, <2>3, <2>4 DEF Next
<1> QED
  BY <1>1, InvariantHolds, PTL DEF Spec, CancelledIsFinal

\* What a handler can do to the form of a request under review: a cut, at the
\* last stage.
LEMMA FormStays ==
  ASSUME IInv, NEW r \in Requests, NEW u \in Users, RequestStep(u, r), Exists(r),
         InReview(row[r])
  PROVE  /\ row'[r].proposedAmount = row[r].proposedAmount
         /\ row'[r].overLimit = row[r].overLimit
         /\ row'[r].expenseLineItem = row[r].expenseLineItem
         /\ row[r].currentStage # "BUDGET_OFFICER_REVIEW" =>
              row'[r].budgetCutAmount = row[r].budgetCutAmount
<1> DEFINE q == row[r]
           KeepsForm(p) == /\ p.proposedAmount = q.proposedAmount
                           /\ p.overLimit = q.overLimit
                           /\ p.expenseLineItem = q.expenseLineItem
                           /\ p.budgetCutAmount = q.budgetCutAmount
<1>1. q \in Row /\ row \in [Requests -> Row \cup {NoRow}]
  BY InvariantAt DEF IInv, TypeOK
<1>2. \A p : Write(r, p) => row'[r] = p
  BY <1>1 DEF Write
<1>3. q.currentStage # "DRAFT"
  BY DEF InReview, ChainStages
<1>4. ~Edit(u, r)
  BY <1>3 DEF Edit, MayEdit
<1>5. CASE Submit(u, r)
  <2>1. PICK p \in Row :
          /\ KeepsForm(p) /\ p.currentStage = q.currentStage
          /\ \/ MaySubmit(p, overdue) /\ Write(r, Submitted(p, p))
             \/ Write(r, p)
    BY <1>5, InvariantTypes, SubmitWrites DEF SameCourse
  <2>2. ~MaySubmit(p, overdue)
    BY <1>3, <2>1 DEF MaySubmit
  <2> QED
    BY <1>2, <2>1, <2>2
<1>6. CASE Cancel(u, r)
  BY <1>1, <1>2, <1>6 DEF Cancel, Cancelled, Row
<1>7. \A stage : KeepsForm(MovedTo(q, q, stage)) /\ KeepsForm(ReturnedTo(q, q, stage))
  BY <1>1 DEF MovedTo, ReturnedTo, Row
<1>8. CASE Approve(u, r) \/ ReturnPrevious(u, r) \/ ReturnRequestor(u, r) \/ ReturnToStage(u, r)
  BY <1>2, <1>7, <1>8 DEF Approve, ReturnPrevious, ReturnRequestor, SendBack, ReturnToStage
<1>9. CASE \E to \in Users : Reassign(u, r, to)
  BY <1>1, <1>2, <1>9 DEF Reassign, Row
<1>10. CASE BudgetCut(u, r)
  <2>1. q.currentStage = "BUDGET_OFFICER_REVIEW"
    BY <1>10 DEF BudgetCut, AtStep5, MayActAtStep5
  <2> QED
    BY <1>1, <1>2, <1>10, <2>1 DEF BudgetCut, CutBy, Row
<1>11. CASE Finalize(u, r)
  BY <1>1, <1>2, <1>11 DEF Finalize, Approved, Row
<1> QED
  BY <1>4, <1>5, <1>6, <1>8, <1>9, <1>10, <1>11 DEF RequestStep

\* What a reviewer signed is what the next one sees and what is published, less
\* the Budget Officer's cut.
THEOREM FormsAreFrozen == Spec => ReviewedFormFrozen
<1> DEFINE Frozen(x) ==
      /\ row'[x].proposedAmount = row[x].proposedAmount
      /\ row'[x].overLimit = row[x].overLimit
      /\ row'[x].expenseLineItem = row[x].expenseLineItem
      /\ row[x].currentStage # "BUDGET_OFFICER_REVIEW" =>
           row'[x].budgetCutAmount = row[x].budgetCutAmount
<1>1. ASSUME IInv, [Next]_vars
      PROVE  [\A r \in Requests : Exists(r) /\ InReview(row[r]) => Frozen(r)]_vars
  <2> SUFFICES ASSUME NEW x \in Requests, Exists(x), InReview(row[x])
               PROVE  Frozen(x)
    OBVIOUS
  <2>1. ASSUME NEW r \in Requests, NEW o \in Origins, Create(r, o)
        PROVE  row'[x] = row[x]
    BY <1>1, <2>1, InvariantTypes, CreateIsLocal
  <2>2. ASSUME NEW u \in Users, NEW r \in Requests, RequestStep(u, r)
        PROVE  Frozen(x)
    BY <1>1, <2>2, InvariantTypes, StepIsLocal, FormStays
  <2>3. CASE DueDatesMove \/ ForecastChanges \/ ToggleCycle
    BY <1>1, <2>3, CycleStepKeepsInvariant DEF requestVars
  <2>4. CASE UNCHANGED vars
    BY <2>4 DEF vars
  <2> QED
    BY <1>1, <2>1, <2>2, <2>3, <2>4 DEF Next
<1> QED
  BY <1>1, InvariantHolds, PTL DEF Spec, ReviewedFormFrozen

\* Only a cancellation takes a request from a stage whose due date has passed.
LEMMA OverdueStays ==
  ASSUME IInv, NEW r \in Requests, NEW u \in Users, RequestStep(u, r), Exists(r),
         DueDateByStage(row[r].currentStage) \in overdue,
         row'[r].currentStage # row[r].currentStage
  PROVE  row'[r].currentStage = "CANCELLED"
<1> DEFINE q == row[r]
<1>1. q \in Row /\ row \in [Requests -> Row \cup {NoRow}]
  BY InvariantAt DEF IInv, TypeOK
<1>2. \A p : Write(r, p) => row'[r] = p
  BY <1>1 DEF Write
<1>3. q.currentStage # "DRAFT"
  <2>1. DueDateByStage(q.currentStage) \in DueDateStages
    BY RequestsAssumption DEF IInv, TypeOK
  <2> QED
    BY <2>1 DEF DueDateByStage, DueDateStages, BcaStages
<1>4. ~Edit(u, r)
  BY <1>3 DEF Edit, MayEdit
<1>5. ~Approve(u, r) /\ ~ReturnPrevious(u, r) /\ ~ReturnRequestor(u, r)
  BY DEF Approve, MayApprove, ReturnPrevious, ReturnRequestor, MayDecide
<1>6. ~BudgetCut(u, r) /\ ~ReturnToStage(u, r) /\ ~Finalize(u, r)
  BY DEF BudgetCut, ReturnToStage, Finalize, AtStep5, MayActAtStep5, DueDateByStage,
     BcaStages
<1>7. ~Submit(u, r)
  <2> SUFFICES ASSUME Submit(u, r) PROVE FALSE
    OBVIOUS
  <2>1. PICK p \in Row :
          /\ SameCourse(p, q)
          /\ \/ MaySubmit(p, overdue) /\ Write(r, Submitted(p, p))
             \/ Write(r, p)
    BY InvariantTypes, SubmitWrites
  <2>2. ~MaySubmit(p, overdue)
    BY <1>3, <2>1 DEF MaySubmit, SameCourse
  <2> QED
    BY <1>2, <2>1, <2>2 DEF SameCourse
<1>8. ~\E to \in Users : Reassign(u, r, to)
  BY <1>1, <1>2 DEF Reassign, Row
<1>9. Cancel(u, r)
  BY <1>4, <1>5, <1>6, <1>7, <1>8 DEF RequestStep
<1> QED
  BY <1>1, <1>2, <1>9 DEF Cancel, Cancelled, Row

\* A passed due date stops every handler that would move a request on, whoever
\* calls it and however the request came to be there.
THEOREM DueDatesFreeze == Spec => DueDateBlocks
<1>1. ASSUME IInv, [Next]_vars
      PROVE  [\A r \in Requests :
                /\ Exists(r) /\ DueDateByStage(row[r].currentStage) \in overdue
                /\ row'[r].currentStage # row[r].currentStage
                => row'[r].currentStage = "CANCELLED"]_vars
  <2> SUFFICES ASSUME NEW x \in Requests, Exists(x),
                      DueDateByStage(row[x].currentStage) \in overdue,
                      row'[x].currentStage # row[x].currentStage
               PROVE  row'[x].currentStage = "CANCELLED"
    OBVIOUS
  <2>1. ASSUME NEW r \in Requests, NEW o \in Origins, Create(r, o)
        PROVE  FALSE
    BY <1>1, <2>1, InvariantTypes, CreateIsLocal
  <2>2. ASSUME NEW u \in Users, NEW r \in Requests, RequestStep(u, r)
        PROVE  row'[x].currentStage = "CANCELLED"
    BY <1>1, <2>2, InvariantTypes, StepIsLocal, OverdueStays
  <2>3. ~(DueDatesMove \/ ForecastChanges \/ ToggleCycle) /\ ~UNCHANGED vars
    BY <1>1, CycleStepKeepsInvariant DEF requestVars, vars
  <2> QED
    BY <1>1, <2>1, <2>2, <2>3 DEF Next
<1> QED
  BY <1>1, InvariantHolds, PTL DEF Spec, DueDateBlocks

-----------------------------------------------------------------------------
(* Somebody to act.                                                         *)

\* Nobody but the picked Department Head is sure to have the first stage: the
\* pick is there for as long as the chain has that stage.  A row without an
\* SBU comes of a form without one.
Manned(q) ==
  /\ q.sbu = NoSbu => \E o \in Origins : o.sbu = NoSbu
  /\ InReview(q) /\ InChain(q, "DEPT_HEAD_REVIEW") => q.departmentHeadId # NoUser
  /\ q.currentStage = "DEPT_HEAD_REVIEW" => q.assigneeId # NoUser

MannedInv ==
  IInv /\ \A r \in Requests : Exists(r) => Manned(row[r])

\* The Department Head's stage is the first of every chain that has it.
LEMMA DeptHeadIsFirst ==
  ASSUME NEW q, HasChain(q), InChain(q, "DEPT_HEAD_REVIEW")
  PROVE  ChainFor(q)[1] = "DEPT_HEAD_REVIEW"
<1>1. CASE q.requestCategory \in SbuBatchCategories
  <2>1. \A i \in DOMAIN SbuBatchChain : SbuBatchChain[i] # "DEPT_HEAD_REVIEW"
    BY DEF SbuBatchChain
  <2> QED
    BY <1>1, <2>1 DEF InChain, ChainFor
<1>2. CASE q.requestCategory = "NPC"
  BY <1>2 DEF ChainFor, NpcChain, SbuBatchCategories
<1>3. CASE q.requestCategory \in SharedChainCategories
  <2>1. ~q.ownDeptInitiated
    BY <1>3, GaeStagesBefore DEF GaeCore
  <2> QED
    BY <1>3, <2>1 DEF ChainFor, GaeChain, SbuBatchCategories, SharedChainCategories
<1> QED
  BY <1>1, <1>2, <1>3 DEF HasChain, Categories, SbuBatchCategories

\* A row at the same stage of the same chain, with no pick or assignee gone.
LEMMA SameSeatIsManned ==
  ASSUME NEW p, NEW q, SameCourse(p, q), Manned(q),
         q.departmentHeadId # NoUser => p.departmentHeadId # NoUser,
         q.assigneeId # NoUser => p.assigneeId # NoUser
  PROVE  Manned(p)
<1>1. \A s : InChain(p, s) <=> InChain(q, s)
  BY SameChain DEF SameCourse
<1> QED
  BY <1>1 DEF Manned, SameCourse, InReview

LEMMA OutsideIsManned ==
  ASSUME NEW p, NEW q, p.sbu = q.sbu, Manned(q), ~InReview(p)
  PROVE  Manned(p)
BY DEF Manned, InReview, ChainStages

LEMMA MovedIsManned ==
  ASSUME NEW q \in Row, Manned(q), InReview(q),
         NEW t, t = Requestor \/ InChain(q, t),
         NEW p \in {MovedTo(q, q, t), ReturnedTo(q, q, t)}
  PROVE  Manned(p)
<1>1. CASE t = Requestor
  <2>1. p = [q EXCEPT !.currentStage = "DRAFT", !.status = "RETURNED", !.assigneeId = NoUser]
    BY <1>1 DEF MovedTo, ReturnedTo, Requestor
  <2>2. p.sbu = q.sbu /\ p.currentStage = "DRAFT"
    BY <2>1 DEF Row
  <2> QED
    BY <2>2, OutsideIsManned DEF InReview, ChainStages
<1>2. CASE t # Requestor
  <2>1. InChain(q, t) /\ t \in ChainStages
    BY <1>2, RowColumns, IndexOfStage
  <2>2. /\ p.currentStage = t
        /\ p.requestCategory = q.requestCategory
        /\ p.ownDeptInitiated = q.ownDeptInitiated
        /\ p.requiresCfoApproval = q.requiresCfoApproval
    BY <2>1, MovedColumns
  <2>3. p.sbu = q.sbu /\ p.departmentHeadId = q.departmentHeadId
    BY DEF MovedTo, ReturnedTo, Row
  <2>4. t = "DEPT_HEAD_REVIEW" => p.assigneeId = q.departmentHeadId
    BY <1>2 DEF MovedTo, ReturnedTo, AssigneeForStage, Row
  <2>5. \A s : InChain(p, s) <=> InChain(q, s)
    BY <2>2, SameChain
  <2> HIDE DEF Manned
  <2>6. InChain(p, "DEPT_HEAD_REVIEW") => p.departmentHeadId # NoUser
    BY <2>3, <2>5 DEF Manned
  <2>7. t = "DEPT_HEAD_REVIEW" => p.assigneeId # NoUser
    BY <2>1, <2>3, <2>4, <2>5, <2>6
  <2> QED
    BY <2>2, <2>3, <2>6, <2>7 DEF Manned
<1> QED
  BY <1>1, <1>2

LEMMA SubmittedIsManned ==
  ASSUME NEW q \in Row, Manned(q), NEW od, MaySubmit(q, od)
  PROVE  Manned(Submitted(q, q))
<1> DEFINE s == WithFlags(q)
           first == ChainFor(s)[1]
           p == Submitted(q, q)
<1>1. s \in Row /\ s.departmentHeadId = q.departmentHeadId
  BY RowColumns DEF WithFlags, Row, OwnDeptInitiated
<1>2. p = [q EXCEPT !.currentStage = first, !.status = "IN_REVIEW",
                    !.ownDeptInitiated = s.ownDeptInitiated,
                    !.requiresCfoApproval = s.requiresCfoApproval,
                    !.assigneeId = AssigneeForStage(s, first)]
  BY DEF Submitted
<1>3. s.requestCategory = q.requestCategory
  BY DEF WithFlags, Row
<1>4. first = "DEPT_HEAD_REVIEW" => q.departmentHeadId # NoUser
  BY DEF MaySubmit
<1>5. first = "DEPT_HEAD_REVIEW" => AssigneeForStage(s, first) = q.departmentHeadId
  BY <1>1 DEF AssigneeForStage
<1> HIDE DEF s, first, p
<1>6. /\ p.currentStage = first /\ p.sbu = q.sbu
      /\ p.departmentHeadId = q.departmentHeadId
      /\ p.assigneeId = AssigneeForStage(s, first)
      /\ p.requestCategory = s.requestCategory
      /\ p.ownDeptInitiated = s.ownDeptInitiated
      /\ p.requiresCfoApproval = s.requiresCfoApproval
  BY <1>2, <1>3 DEF Row
<1>7. InChain(p, "DEPT_HEAD_REVIEW") => first = "DEPT_HEAD_REVIEW"
  <2>1. InChain(p, "DEPT_HEAD_REVIEW") <=> InChain(s, "DEPT_HEAD_REVIEW")
    BY <1>6, SameChain
  <2> QED
    BY <1>1, <2>1, RowColumns, DeptHeadIsFirst DEF first
<1> QED
  BY <1>4, <1>5, <1>6, <1>7 DEF Manned, p

\* Every handler leaves its request manned.
LEMMA StepKeepsManned ==
  ASSUME IInv, NEW r \in Requests, NEW u \in Users, RequestStep(u, r), Exists(r),
         Manned(row[r])
  PROVE  Manned(row'[r])
<1> DEFINE q == row[r]
<1>1. q \in Row /\ Sound(q, signed[r], line[r]) /\ row \in [Requests -> Row \cup {NoRow}]
  BY InvariantAt DEF IInv, TypeOK
<1>2. \A p : Write(r, p) => row'[r] = p
  BY <1>1 DEF Write
<1>3. CASE Edit(u, r)
  <2>1. PICK p \in Row : Write(r, p) /\ SameCourse(p, q) /\ p.currentStage = "DRAFT"
    BY <1>3, InvariantTypes, EditWrites
  <2> QED
    BY <1>2, <2>1, OutsideIsManned DEF SameCourse, InReview, ChainStages
<1>4. CASE Submit(u, r)
  <2>1. PICK p \in Row :
          /\ SameCourse(p, q) /\ p.assigneeId = q.assigneeId
          /\ q.departmentHeadId # NoUser => p.departmentHeadId # NoUser
          /\ \/ MaySubmit(p, overdue) /\ Write(r, Submitted(p, p))
             \/ Write(r, p)
    BY <1>4, InvariantTypes, SubmitWrites
  <2>2. Manned(p)
    BY <2>1, SameSeatIsManned
  <2> QED
    BY <1>2, <2>1, <2>2, SubmittedIsManned
<1>5. CASE Cancel(u, r)
  <2>1. Cancelled(q).sbu = q.sbu /\ ~InReview(Cancelled(q))
    BY <1>1 DEF Cancelled, Row, InReview, ChainStages
  <2> QED
    BY <1>2, <1>5, <2>1, OutsideIsManned DEF Cancel
<1>6. CASE Approve(u, r)
  <2> DEFINE t == NextStageAfter(q, q.currentStage)
  <2>1. HasNext(q, q.currentStage) /\ Write(r, MovedTo(q, q, t))
    BY <1>6 DEF Approve, MayApprove
  <2>2. HasChain(q) /\ InChain(q, q.currentStage) /\ InChain(q, t)
    BY <1>1, <2>1, RowColumns, NextAddsStage DEF HasNext
  <2>3. InReview(q)
    BY <2>2, IndexOfStage DEF InReview
  <2> HIDE DEF t
  <2> QED
    BY <1>1, <1>2, <2>1, <2>2, <2>3, MovedIsManned
<1>7. CASE ReturnPrevious(u, r) \/ ReturnRequestor(u, r)
  <2>1. PICK t : /\ t = Requestor \/ t = PreviousStageBefore(q, q.currentStage)
                 /\ Write(r, MovedTo(q, q, t))
    BY <1>7 DEF ReturnPrevious, ReturnRequestor, SendBack
  <2>2. t = Requestor \/ (InReview(q) /\ InChain(q, t))
    BY <1>1, <2>1, RowColumns, PreviousIsEarlier, IndexOfStage DEF InReview
  <2>3. CASE t # Requestor
    BY <1>1, <1>2, <2>1, <2>2, <2>3, MovedIsManned
  <2>4. CASE t = Requestor
    <3>1. MovedTo(q, q, t).sbu = q.sbu /\ ~InReview(MovedTo(q, q, t))
      BY <1>1, <2>4 DEF MovedTo, Row, InReview, ChainStages
    <3> QED
      BY <1>2, <2>1, <3>1, OutsideIsManned
  <2> QED
    BY <2>3, <2>4
<1>8. CASE \E to \in Users : Reassign(u, r, to)
  <2>1. PICK to \in Users : Write(r, [q EXCEPT !.assigneeId = to])
    BY <1>8 DEF Reassign
  <2> DEFINE p == [q EXCEPT !.assigneeId = to]
  <2>2. SameCourse(p, q) /\ p.departmentHeadId = q.departmentHeadId /\ p.assigneeId = to
    BY <1>1 DEF Row, SameCourse
  <2> HIDE DEF p
  <2>3. Manned(p)
    BY <2>2, SameSeatIsManned, ChainAssumption
  <2> QED
    BY <1>2, <2>1, <2>3 DEF p
<1>9. CASE BudgetCut(u, r)
  <2>1. PICK cut \in Cuts : Write(r, CutBy(q, q, cut))
    BY <1>9 DEF BudgetCut
  <2> DEFINE p == CutBy(q, q, cut)
  <2>2. /\ SameCourse(p, q) /\ p.departmentHeadId = q.departmentHeadId
        /\ p.assigneeId = q.assigneeId
    BY <1>1 DEF CutBy, Row, SameCourse
  <2> HIDE DEF p
  <2>3. Manned(p)
    BY <2>2, SameSeatIsManned
  <2> QED
    BY <1>2, <2>1, <2>3 DEF p
<1>10. CASE ReturnToStage(u, r)
  <2>1. InReview(q)
    BY <1>10 DEF ReturnToStage, AtStep5, MayActAtStep5, InReview, ChainStages
  <2>2. PICK t \in ReturnTargets(q) : Write(r, ReturnedTo(q, q, t))
    BY <1>10 DEF ReturnToStage
  <2>3. t = Requestor \/ InChain(q, t)
    BY DEF ReturnTargets
  <2> QED
    BY <1>1, <1>2, <2>1, <2>2, <2>3, MovedIsManned
<1>11. CASE Finalize(u, r)
  <2>1. Approved(q).sbu = q.sbu /\ ~InReview(Approved(q))
    BY <1>1 DEF Approved, Row, InReview, ChainStages
  <2>2. row'[r] \in {q, Approved(q)}
    BY <1>2, <1>11 DEF Finalize
  <2> QED
    BY <2>1, <2>2, OutsideIsManned
<1> QED
  BY <1>3, <1>4, <1>5, <1>6, <1>7, <1>8, <1>9, <1>10, <1>11 DEF RequestStep

LEMMA StepKeepsMannedInv == MannedInv /\ [Next]_vars => MannedInv'
<1> SUFFICES ASSUME MannedInv, [Next]_vars PROVE MannedInv'
  OBVIOUS
<1>1. IInv /\ IInv'
  BY StepKeepsInvariant DEF MannedInv
<1>2. ASSUME NEW x \in Requests, Exists(x)' PROVE Manned(row'[x])
  <2>1. ASSUME NEW r \in Requests, NEW o \in Origins, Create(r, o)
        PROVE  Manned(row'[x])
    <3>1. CASE x # r
      <4>1. row'[x] = row[x]
        BY <1>1, <2>1, <3>1, InvariantTypes, CreateIsLocal
      <4> QED
        BY <1>2, <4>1 DEF MannedInv, Exists
    <3>2. CASE x = r
      <4>1. PICK amount \in Amounts, complete \in BOOLEAN, overLimit \in BOOLEAN,
                 deptHead \in Pickable \cup {NoUser}, centralHead \in Pickable \cup {NoUser} :
              Write(r, NewRow(o, amount, complete, overLimit, deptHead, centralHead))
        BY <2>1 DEF Create
      <4>2. row'[r] = NewRow(o, amount, complete, overLimit, deptHead, centralHead)
        BY <1>1, <4>1 DEF Write, IInv, TypeOK
      <4>3. row'[r].sbu = o.sbu /\ row'[r].currentStage = "DRAFT"
        BY <4>2 DEF NewRow
      <4> QED
        BY <3>2, <4>3 DEF Manned, InReview, ChainStages
    <3> QED
      BY <3>1, <3>2
  <2>2. ASSUME NEW u \in Users, NEW r \in Requests, RequestStep(u, r)
        PROVE  Manned(row'[x])
    <3>1. CASE x # r
      <4>1. row'[x] = row[x]
        BY <1>1, <2>2, <3>1, InvariantTypes, StepIsLocal
      <4> QED
        BY <1>2, <4>1 DEF MannedInv, Exists
    <3>2. CASE x = r
      <4>1. Exists(r)
        BY <2>2 DEF RequestStep, Edit, Submit, Cancel, Approve, ReturnPrevious,
           ReturnRequestor, Reassign, BudgetCut, ReturnToStage, Finalize, AtStep5
      <4> QED
        BY <1>1, <2>2, <3>2, <4>1, StepKeepsManned DEF MannedInv
    <3> QED
      BY <3>1, <3>2
  <2>3. ASSUME (DueDatesMove \/ ForecastChanges \/ ToggleCycle) \/ UNCHANGED vars
        PROVE  Manned(row'[x])
    <3>1. row' = row
      BY <1>1, <2>3, CycleStepKeepsInvariant DEF requestVars, vars
    <3> QED
      BY <1>2, <3>1 DEF MannedInv, Exists
  <2> QED
    BY <2>1, <2>2, <2>3 DEF Next
<1> QED
  BY <1>1, <1>2 DEF MannedInv

\* Who may act on a sound and manned row, when every role is held by somebody.
LEMMA MannedCanAct ==
  ASSUME Staffed, NEW q \in Row, NEW sg, NEW ln, Sound(q, sg, ln), Manned(q), InReview(q)
  PROVE  \E u \in Users : CanActOnStage(u, q, q.currentStage)
<1> DEFINE stage == q.currentStage
<1>1. CASE q.assigneeId # NoUser
  <2>1. q.assigneeId \in Users
    BY <1>1, RowColumns DEF MaybeUser
  <2> QED
    BY <1>1, <2>1 DEF CanActOnStage
<1>2. CASE q.assigneeId = NoUser
  <2> SUFFICES \E u \in Users : HoldsRoleOf(u, q, stage)
    BY <1>2 DEF CanActOnStage
  <2>1. stage # "DEPT_HEAD_REVIEW"
    BY <1>2 DEF Manned
  <2>2. CASE stage = "CFO_APPROVAL"
    BY <2>2 DEF Staffed, HoldsRoleOf
  <2>3. CASE stage \in {"BUDGET_OFFICER_VALIDATION", "BUDGET_OFFICER_ROUTING",
                        "BUDGET_OFFICER_REVIEW"}
    BY <2>3 DEF Staffed, HoldsRoleOf
  <2>4. CASE stage \in {"CENTRALIZED_L1_REVIEW", "CENTRALIZED_HEAD_REVIEW"}
    <3>1. InChain(q, stage)
      BY DEF Sound, SoundSignatures
    <3>2. q.requestCategory \in SharedChainCategories
      <4>1. \A i \in DOMAIN SbuBatchChain : SbuBatchChain[i] # stage
        BY <2>4 DEF SbuBatchChain
      <4>2. \A i \in DOMAIN NpcChain : NpcChain[i] # stage
        BY <2>4 DEF NpcChain
      <4> QED
        BY <3>1, <4>1, <4>2, RowColumns DEF InChain, ChainFor, Categories
    <3>3. q.expenseLineItem # NoItem /\ q.expenseLineItem \in LineItems
      BY <3>2, RowColumns DEF Sound, SoundFlag
    <3>4. OwnerDepartment[q.expenseLineItem] \in Departments
      BY <3>3, ChainAssumption
    <3>5. \E u, v \in Users :
            /\ \/ OwnsLineItem(u, "CENTRALIZED_BUDGET_PREPARER", q)
               \/ OwnsLineItem(u, "CENTRALIZED_FIRST_LEVEL_REVIEWER", q)
            /\ OwnsLineItem(v, "CENTRALIZED_DEPARTMENT_HEAD", q)
      BY <3>3, <3>4 DEF Staffed, OwnsLineItem
    <3> QED
      BY <2>4, <3>5 DEF HoldsRoleOf
  <2>5. CASE stage \in {"SF_VALIDATION", "SF_HEAD_REVIEW"}
    <3>1. \E u, v \in Users : /\ HasSbuRole(u, "BU_FINANCE_OFFICER", q.sbu)
                              /\ HasSbuRole(v, "BU_FINANCE_HEAD", q.sbu)
      <4>1. CASE q.sbu = NoSbu
        BY <4>1 DEF Staffed, Manned, HasSbuRole
      <4>2. CASE q.sbu # NoSbu
        BY <4>2, RowColumns DEF Staffed
      <4> QED
        BY <4>1, <4>2
    <3> QED
      BY <2>5, <3>1 DEF HoldsRoleOf
  <2> QED
    BY <2>1, <2>2, <2>3, <2>4, <2>5 DEF InReview, ChainStages
<1> QED
  BY <1>1, <1>2

\* No open request is ever without somebody who may act on it, if every role
\* is held by somebody: the chain's rules of who acts leave no gap.
THEOREM NobodyIsMissing ==
  ASSUME Staffed
  PROVE  Spec => []SomeoneCanAct
<1>1. Init => MannedInv
  BY InitEstablishesInvariant DEF MannedInv, Init, Exists
<1>2. MannedInv => SomeoneCanAct
  BY InvariantAt, MannedCanAct DEF MannedInv, SomeoneCanAct
<1> QED
  BY <1>1, <1>2, StepKeepsMannedInv, PTL DEF Spec

-----------------------------------------------------------------------------
(* The refinement: every step of the handlers is, seen as phase, owed       *)
(* signatures and line, a step of the abstract specification or none.       *)

\* Owed, of a row and its signatures.
Owes(q, sg) ==
  IF Phase(q) = "review" THEN {s \in ChainStages : InChain(q, s)} \ sg ELSE {}

\* What Phase says about the stage of a row.
LEMMA PhaseOfRow ==
  ASSUME NEW q \in Row
  PROVE  /\ Phase(q) = "review" <=> InReview(q)
         /\ Phase(q) = "draft" <=> q.currentStage = "DRAFT"
         /\ Phase(q) = "approved" <=> q.currentStage = "APPROVED"
         /\ Phase(q) = "cancelled" <=> q.currentStage = "CANCELLED"
         /\ Phase(q) # "absent"
<1>1. q # NoRow
  BY RequestsAssumption
<1>2. q.currentStage \in RequestStage
  BY RowColumns
<1> QED
  BY <1>1, <1>2 DEF Phase, InReview, RequestStage, ChainStages

\* What an open request owes: the stages from its current one to the last.
LEMMA OwedInReview ==
  ASSUME NEW q \in Row, NEW sg, NEW ln, Sound(q, sg, ln), InReview(q)
  PROVE  /\ Owes(q, sg) = {s \in ChainStages : InChain(q, s)} \ sg
         /\ q.currentStage \in Owes(q, sg)
         /\ "BUDGET_OFFICER_REVIEW" \in Owes(q, sg)
         /\ sg = StagesBefore(q, q.currentStage)
<1> DEFINE last == "BUDGET_OFFICER_REVIEW"
<1>1. HasChain(q)
  BY RowColumns
<1>2. Owes(q, sg) = {s \in ChainStages : InChain(q, s)} \ sg
  BY PhaseOfRow DEF Owes
<1>3. InChain(q, q.currentStage) /\ sg = StagesBefore(q, q.currentStage)
  BY DEF Sound, SoundSignatures
<1>4. q.currentStage \in ChainStages /\ last \in ChainStages
  BY DEF InReview, ChainStages
<1>5. /\ IndexOf(q, last) \in Int /\ IndexOf(q, q.currentStage) \in Int
      /\ InChain(q, last) /\ IndexOf(q, q.currentStage) <= IndexOf(q, last)
  BY <1>1, <1>3, BudgetOfficerIsLast, IndexOfStage, ChainIsProper DEF Proper
<1>6. q.currentStage \notin sg /\ last \notin sg
  BY <1>3, <1>5 DEF StagesBefore
<1> QED
  BY <1>2, <1>3, <1>4, <1>5, <1>6

-----------------------------------------------------------------------------
(* A write to one request, seen from RequestLifecycle.                      *)

\* A step that touches no request but r.
OnlyAt(r) ==
  /\ IInv /\ IInv'
  /\ \A x \in Requests : x # r =>
       row'[x] = row[x] /\ line'[x] = line[x] /\ signed'[x] = signed[x]

\* Such a step changes the abstract functions at r only.
LEMMA AbstractFunctions ==
  ASSUME NEW r \in Requests, OnlyAt(r)
  PROVE  LET phase == [x \in Requests |-> Phase(row[x])]
             owed == [x \in Requests |-> Owed(x)]
         IN  /\ phase' = [phase EXCEPT ![r] = Phase(row'[r])]
             /\ owed' = [owed EXCEPT ![r] = Owes(row'[r], signed'[r])]
             /\ line' = [line EXCEPT ![r] = line'[r]]
             /\ phase[r] = Phase(row[r])
             /\ owed[r] = Owes(row[r], signed[r])
             /\ owed'[r] = Owes(row'[r], signed'[r])
<1>1. line' = [line EXCEPT ![r] = line'[r]]
  BY DEF OnlyAt, IInv, TypeOK
<1> QED
  BY <1>1 DEF OnlyAt, Owed, Owes

\* Nothing the abstract specification shows has changed.
LEMMA Stutter ==
  ASSUME NEW r \in Requests, OnlyAt(r),
         Phase(row'[r]) = Phase(row[r]),
         Owes(row'[r], signed'[r]) = Owes(row[r], signed[r]),
         line'[r] = line[r]
  PROVE  UNCHANGED Lifecycle!vars
<1> USE DEF Owed, Owes, OnlyAt
<1>1. [x \in Requests |-> Phase(row[x])]' = [x \in Requests |-> Phase(row[x])]
  OBVIOUS
<1>2. [x \in Requests |-> Owed(x)]' = [x \in Requests |-> Owed(x)]
  OBVIOUS
<1>3. line' = line
  BY DEF IInv, TypeOK
<1> QED
  BY <1>1, <1>2, <1>3 DEF Lifecycle!vars

LEMMA SubmitMaps ==
  ASSUME NEW r \in Requests, OnlyAt(r),
         Phase(row[r]) = "draft", Phase(row'[r]) = "review",
         Owes(row'[r], signed'[r]) # {},
         UNCHANGED line
  PROVE  Lifecycle!Submit(r)
<1>1. Owes(row'[r], signed'[r]) \subseteq ChainStages
  BY DEF Owes
<1> QED
  BY <1>1, AbstractFunctions
     DEF Lifecycle!Submit, Lifecycle!Move, Lifecycle!OweSome, Lifecycle!Owe

LEMMA SignMaps ==
  ASSUME NEW r \in Requests, OnlyAt(r),
         Phase(row[r]) = "review", Phase(row'[r]) = "review",
         NEW s \in Owes(row[r], signed[r]), Owes(row[r], signed[r]) # {s},
         Owes(row'[r], signed'[r]) = Owes(row[r], signed[r]) \ {s},
         UNCHANGED line
  PROVE  Lifecycle!Sign(r)
<1> DEFINE phase == [x \in Requests |-> Phase(row[x])]
           owed == [x \in Requests |-> Owed(x)]
<1>1. phase' = phase
  BY DEF OnlyAt
<1>2. phase[r] = "review"
  OBVIOUS
<1>3. owed[r] = Owes(row[r], signed[r])
  BY AbstractFunctions
<1>4. owed' = [owed EXCEPT ![r] = owed[r] \ {s}]
  BY <1>3, AbstractFunctions
<1> HIDE DEF phase, owed
<1>5. \E x \in owed[r] : owed[r] # {x} /\ owed' = [owed EXCEPT ![r] = owed[r] \ {x}]
  BY <1>3, <1>4
<1> QED
  BY <1>1, <1>2, <1>5 DEF Lifecycle!Sign, Lifecycle!Owe, phase, owed

LEMMA SendBackMaps ==
  ASSUME NEW r \in Requests, OnlyAt(r),
         Phase(row[r]) = "review", Phase(row'[r]) = "review",
         Owes(row[r], signed[r]) \subseteq Owes(row'[r], signed'[r]),
         UNCHANGED line
  PROVE  Lifecycle!SendBack(r)
<1> DEFINE phase == [x \in Requests |-> Phase(row[x])]
           owed == [x \in Requests |-> Owed(x)]
<1>1. phase' = phase
  BY DEF OnlyAt
<1>2. phase[r] = "review"
  OBVIOUS
<1>3. Owes(row'[r], signed'[r]) \subseteq ChainStages
  BY DEF Owes
<1>4. /\ owed' = [owed EXCEPT ![r] = owed'[r]]
      /\ owed'[r] \subseteq ChainStages /\ owed[r] \subseteq owed'[r]
  BY <1>3, AbstractFunctions
<1> HIDE DEF phase, owed
<1> QED
  BY <1>1, <1>2, <1>4
     DEF Lifecycle!SendBack, Lifecycle!OweSome, Lifecycle!Owe, phase, owed

LEMMA RetractMaps ==
  ASSUME NEW r \in Requests, OnlyAt(r),
         Phase(row[r]) \in {"review", "approved"}, Phase(row'[r]) = "draft",
         UNCHANGED line
  PROVE  Lifecycle!Retract(r)
<1>1. Owes(row'[r], signed'[r]) = {}
  BY DEF Owes
<1> QED
  BY <1>1, AbstractFunctions DEF Lifecycle!Retract, Lifecycle!Move, Lifecycle!Owe

LEMMA CancelMaps ==
  ASSUME NEW r \in Requests, OnlyAt(r),
         Phase(row[r]) \in {"draft", "review"}, Phase(row'[r]) = "cancelled",
         UNCHANGED line
  PROVE  Lifecycle!Cancel(r)
<1>1. Owes(row'[r], signed'[r]) = {}
  BY DEF Owes
<1> QED
  BY <1>1, AbstractFunctions DEF Lifecycle!Cancel, Lifecycle!Move, Lifecycle!Owe

LEMMA PublishMaps ==
  ASSUME NEW r \in Requests, OnlyAt(r),
         Phase(row[r]) = "review", Phase(row'[r]) = "approved",
         NEW s \in ChainStages, Owes(row[r], signed[r]) = {s},
         line[r] = NoLine, NEW amount \in NetAmounts,
         line' = [line EXCEPT ![r] = amount]
  PROVE  Lifecycle!Publish(r)
<1>1. Owes(row'[r], signed'[r]) = {}
  BY DEF Owes
<1> QED
  BY <1>1, AbstractFunctions DEF Lifecycle!Publish, Lifecycle!Move, Lifecycle!Owe

LEMMA CreateMaps ==
  ASSUME NEW r \in Requests, OnlyAt(r),
         Phase(row[r]) = "absent", Phase(row'[r]) = "draft",
         UNCHANGED line
  PROVE  Lifecycle!Create(r)
<1> DEFINE owed == [x \in Requests |-> Owed(x)]
<1>1. owed' = owed
  BY DEF OnlyAt, Owed
<1> QED
  BY <1>1, AbstractFunctions DEF Lifecycle!Create, Lifecycle!Move

-----------------------------------------------------------------------------
(* The handlers.                                                            *)

AbstractStep == Lifecycle!Next \/ UNCHANGED Lifecycle!vars

\* What a write that leaves stage and chain alone shows.
LEMMA SameView ==
  ASSUME NEW q, NEW p, NEW sg, q # NoRow, p # NoRow, SameCourse(p, q)
  PROVE  Phase(p) = Phase(q) /\ Owes(p, sg) = Owes(q, sg)
<1>1. Phase(p) = Phase(q)
  BY DEF Phase, SameCourse
<1>2. \A s : InChain(p, s) <=> InChain(q, s)
  BY SameChain DEF SameCourse
<1> QED
  BY <1>1, <1>2 DEF Owes

\* A handler touches its request only, and leaves it a sound row.
LEMMA HandlerAt ==
  ASSUME IInv, NEW r \in Requests, NEW u \in Users, RequestStep(u, r), Exists(r)
  PROVE  /\ OnlyAt(r)
         /\ row[r] \in Row /\ row[r] # NoRow /\ Sound(row[r], signed[r], line[r])
         /\ \A p \in Row : Write(r, p) =>
              row'[r] = p /\ p # NoRow /\ Sound(p, signed'[r], line'[r])
         /\ \A sg : signed' = [signed EXCEPT ![r] = sg] => signed'[r] = sg
<1>1. IInv'
  BY RequestStepKeepsInvariant
<1>2. OnlyAt(r)
  BY <1>1, InvariantTypes, StepIsLocal DEF OnlyAt
<1>3. ASSUME NEW p \in Row, Write(r, p)
      PROVE  row'[r] = p /\ p # NoRow
  BY <1>3, RequestsAssumption DEF Write, IInv, TypeOK
<1>4. ASSUME NEW p \in Row, Write(r, p)
      PROVE  Sound(p, signed'[r], line'[r])
  BY <1>1, <1>3, <1>4 DEF IInv, Exists
<1>5. \A sg : signed' = [signed EXCEPT ![r] = sg] => signed'[r] = sg
  BY DEF IInv, TypeOK
<1> QED
  BY <1>2, <1>3, <1>4, <1>5, InvariantAt DEF Exists

\* A handler that keeps the course of its request shows nothing.
LEMMA KeptCourse ==
  ASSUME IInv, NEW r \in Requests, NEW u \in Users, RequestStep(u, r), Exists(r),
         NEW p \in Row, Write(r, p), SameCourse(p, row[r]),
         UNCHANGED <<line, signed>>
  PROVE  AbstractStep
<1>1. OnlyAt(r) /\ row[r] # NoRow /\ p # NoRow /\ row'[r] = p
  BY HandlerAt
<1>2. Phase(p) = Phase(row[r]) /\ Owes(p, signed[r]) = Owes(row[r], signed[r])
  BY <1>1, SameView
<1> QED
  BY <1>1, <1>2, Stutter DEF AbstractStep

LEMMA CreateImplements ==
  ASSUME IInv, NEW r \in Requests, NEW o \in Origins, Create(r, o)
  PROVE  AbstractStep
<1>1. PICK p \in Row : Write(r, p) /\ p.currentStage = "DRAFT" /\ Sound(p, {}, line[r])
  BY NewRowIsSound DEF Create
<1>2. row'[r] = p /\ row[r] = NoRow /\ UNCHANGED line
  BY <1>1 DEF Create, Exists, Write, IInv, TypeOK
<1>3. OnlyAt(r)
  BY CreateKeepsInvariant, InvariantTypes, CreateIsLocal DEF OnlyAt
<1>4. Phase(row[r]) = "absent" /\ Phase(row'[r]) = "draft"
  BY <1>1, <1>2, PhaseOfRow DEF Phase
<1> QED
  BY <1>2, <1>3, <1>4, CreateMaps DEF AbstractStep, Lifecycle!Next

LEMMA EditImplements ==
  ASSUME IInv, NEW r \in Requests, NEW u \in Users, Edit(u, r)
  PROVE  AbstractStep
<1>1. RequestStep(u, r) /\ Exists(r) /\ UNCHANGED <<line, signed>>
  BY DEF RequestStep, Edit
<1> QED
  BY <1>1, InvariantTypes, EditWrites, KeptCourse

LEMMA SubmitImplements ==
  ASSUME IInv, NEW r \in Requests, NEW u \in Users, Submit(u, r)
  PROVE  AbstractStep
<1>1. RequestStep(u, r) /\ Exists(r) /\ UNCHANGED <<line, signed>>
  BY DEF RequestStep, Submit
<1> DEFINE q == row[r]
<1>2. PICK p \in Row :
        /\ SameCourse(p, q) /\ p.expenseLineItem = q.expenseLineItem
        /\ \/ MaySubmit(p, overdue) /\ Write(r, Submitted(p, p))
           \/ Write(r, p)
  BY InvariantTypes, SubmitWrites
<1>3. OnlyAt(r) /\ q \in Row /\ q # NoRow /\ Sound(q, signed[r], line[r])
  BY <1>1, HandlerAt
<1>4. CASE Write(r, p)
  BY <1>1, <1>2, <1>4, KeptCourse
<1>5. CASE MaySubmit(p, overdue) /\ Write(r, Submitted(p, p))
  <2> DEFINE n == Submitted(p, p)
  <2>1. n \in Row /\ InReview(n)
    BY <1>2, <1>3, SubmittedIsSound DEF Sound, SoundFlag, SameCourse
  <2> HIDE DEF n
  <2>2. row'[r] = n /\ Sound(n, signed'[r], line'[r])
    BY <1>1, <1>5, <2>1, HandlerAt DEF n
  <2>3. Phase(n) = "review" /\ Owes(n, signed'[r]) # {}
    BY <2>1, <2>2, PhaseOfRow, OwedInReview
  <2>4. Phase(q) = "draft"
    BY <1>2, <1>3, <1>5, PhaseOfRow DEF MaySubmit, SameCourse
  <2> QED
    BY <1>1, <1>3, <2>2, <2>3, <2>4, SubmitMaps DEF AbstractStep, Lifecycle!Next
<1> QED
  BY <1>2, <1>4, <1>5

LEMMA CancelImplements ==
  ASSUME IInv, NEW r \in Requests, NEW u \in Users, Cancel(u, r)
  PROVE  AbstractStep
<1> DEFINE q == row[r]
           p == Cancelled(q)
<1>1. /\ RequestStep(u, r) /\ Exists(r) /\ ~Closed(q)
      /\ Write(r, p) /\ UNCHANGED line
  BY DEF RequestStep, Cancel, MayCancel
<1>2. OnlyAt(r) /\ q \in Row
  BY <1>1, HandlerAt
<1>3. p \in Row /\ p.currentStage = "CANCELLED"
  BY <1>2, WrittenRows DEF Cancelled, Row
<1> HIDE DEF p
<1>4. row'[r] = p /\ Phase(p) = "cancelled"
  BY <1>1, <1>3, HandlerAt, PhaseOfRow
<1>5. Phase(q) \in {"draft", "review"}
  BY <1>1, <1>2, PhaseOfRow, RowColumns DEF Closed, InReview, RequestStage
<1> QED
  BY <1>1, <1>2, <1>4, <1>5, CancelMaps DEF AbstractStep, Lifecycle!Next

LEMMA ApproveImplements ==
  ASSUME IInv, NEW r \in Requests, NEW u \in Users, Approve(u, r)
  PROVE  AbstractStep
<1> DEFINE q == row[r]
           stage == q.currentStage
           t == NextStageAfter(q, stage)
           p == MovedTo(q, q, t)
<1>1. /\ RequestStep(u, r) /\ Exists(r) /\ HasNext(q, stage)
      /\ stage # "BUDGET_OFFICER_REVIEW"
      /\ Write(r, p) /\ signed' = [signed EXCEPT ![r] = signed[r] \cup {stage}]
      /\ UNCHANGED line
  BY DEF RequestStep, Approve, MayApprove
<1>2. OnlyAt(r) /\ q \in Row /\ Sound(q, signed[r], line[r])
  BY <1>1, HandlerAt
<1>3. HasChain(q) /\ InChain(q, stage)
  BY <1>1, <1>2, RowColumns DEF HasNext
<1>4. InReview(q)
  BY <1>3, IndexOfStage DEF InReview
<1>5. InChain(q, t) /\ t \in ChainStages
  BY <1>1, <1>3, NextAddsStage, IndexOfStage
<1>6. /\ p \in Row /\ p.currentStage = t /\ p.requestCategory = q.requestCategory
      /\ p.ownDeptInitiated = q.ownDeptInitiated
      /\ p.requiresCfoApproval = q.requiresCfoApproval
  BY <1>2, <1>5, MovedColumns
<1> HIDE DEF p, t
<1>7. row'[r] = p /\ signed'[r] = signed[r] \cup {stage}
  BY <1>1, <1>6, HandlerAt
<1>8. InReview(p)
  BY <1>5, <1>6 DEF InReview
<1>9. Phase(q) = "review" /\ Phase(p) = "review"
  BY <1>2, <1>4, <1>6, <1>8, PhaseOfRow
<1>10. \A s : InChain(p, s) <=> InChain(q, s)
  BY <1>6, SameChain
<1>11. Owes(p, signed'[r]) = Owes(q, signed[r]) \ {stage}
  BY <1>7, <1>9, <1>10 DEF Owes
<1>12. stage \in Owes(q, signed[r]) /\ Owes(q, signed[r]) # {stage}
  BY <1>1, <1>2, <1>4, OwedInReview
<1> QED
  BY <1>1, <1>2, <1>7, <1>9, <1>11, <1>12, SignMaps DEF AbstractStep, Lifecycle!Next

\* A return, by decision or at Budget Finalization.
LEMMA BackImplements ==
  ASSUME IInv, NEW r \in Requests, NEW u \in Users, RequestStep(u, r), Exists(r),
         InReview(row[r]) \/ row[r].currentStage = "APPROVED",
         NEW t, t = Requestor \/ (InReview(row[r]) /\ InChain(row[r], t)),
         NEW p \in {MovedTo(row[r], row[r], t), ReturnedTo(row[r], row[r], t)},
         Write(r, p),
         signed' = [signed EXCEPT ![r] = StandingAfterReturn(r, t)],
         UNCHANGED line
  PROVE  AbstractStep
<1> DEFINE q == row[r]
<1>1. OnlyAt(r) /\ q \in Row /\ Sound(q, signed[r], line[r])
  BY HandlerAt
<1>2. Phase(q) \in {"review", "approved"} /\ (InReview(q) => Phase(q) = "review")
  BY <1>1, PhaseOfRow
<1>3. CASE t = Requestor
  <2>1. p = MovedTo(q, q, Requestor)
    BY <1>3 DEF ReturnedTo, Requestor
  <2>2. p \in Row /\ p.currentStage = "DRAFT"
    BY <1>1, <2>1, WrittenRows DEF MovedTo, Row
  <2>3. row'[r] = p /\ Phase(p) = "draft"
    BY <2>2, HandlerAt, PhaseOfRow
  <2> QED
    BY <1>1, <1>2, <2>3, RetractMaps DEF AbstractStep, Lifecycle!Next
<1>4. CASE t # Requestor
  <2>1. InReview(q) /\ InChain(q, t) /\ t \in ChainStages
    BY <1>1, <1>4, RowColumns, IndexOfStage
  <2>2. /\ p \in Row /\ p.currentStage = t /\ p.requestCategory = q.requestCategory
        /\ p.ownDeptInitiated = q.ownDeptInitiated
        /\ p.requiresCfoApproval = q.requiresCfoApproval
    BY <1>1, <2>1, MovedColumns
  <2>3. row'[r] = p /\ signed'[r] = signed[r] \cap StagesBefore(q, t)
    BY <1>4, <2>2, HandlerAt DEF StandingAfterReturn
  <2>4. Phase(p) = "review"
    BY <2>1, <2>2, PhaseOfRow DEF InReview
  <2>5. \A s : InChain(p, s) <=> InChain(q, s)
    BY <2>2, SameChain
  <2>6. Owes(q, signed[r]) \subseteq Owes(p, signed'[r])
    BY <1>2, <2>1, <2>3, <2>4, <2>5 DEF Owes
  <2> QED
    BY <1>1, <1>2, <2>1, <2>3, <2>4, <2>6, SendBackMaps DEF AbstractStep, Lifecycle!Next
<1> QED
  BY <1>3, <1>4

LEMMA ReturnsImplement ==
  ASSUME IInv, NEW r \in Requests, NEW u \in Users,
         ReturnPrevious(u, r) \/ ReturnRequestor(u, r) \/ ReturnToStage(u, r)
  PROVE  AbstractStep
<1> DEFINE q == row[r]
<1>1. RequestStep(u, r) /\ Exists(r) /\ UNCHANGED line
  BY DEF RequestStep, ReturnPrevious, ReturnRequestor, ReturnToStage, SendBack, AtStep5
<1>2. q \in Row /\ Sound(q, signed[r], line[r]) /\ HasChain(q)
  BY <1>1, InvariantAt, RowColumns
<1>3. ASSUME NEW t, SendBack(r, t),
             InReview(q) \/ q.currentStage = "APPROVED",
             t = Requestor \/ (InReview(q) /\ InChain(q, t))
      PROVE  AbstractStep
  <2> DEFINE p == MovedTo(q, q, t)
  <2>1. /\ Write(r, p) /\ p \in {MovedTo(q, q, t), ReturnedTo(q, q, t)}
        /\ signed' = [signed EXCEPT ![r] = StandingAfterReturn(r, t)]
    BY <1>3 DEF SendBack
  <2> HIDE DEF p
  <2> QED
    BY <1>1, <1>3, <2>1, BackImplements
<1>4. CASE ReturnRequestor(u, r)
  <2>1. InReview(q) \/ q.currentStage = "APPROVED"
    BY <1>2, <1>4, DecidableStages DEF ReturnRequestor, MayDecide
  <2> QED
    BY <1>3, <1>4, <2>1 DEF ReturnRequestor
<1>5. CASE ReturnPrevious(u, r)
  <2> DEFINE t == PreviousStageBefore(q, q.currentStage)
  <2>1. InReview(q) \/ q.currentStage = "APPROVED"
    BY <1>2, <1>5, DecidableStages DEF ReturnPrevious, MayDecide
  <2>2. t = Requestor \/ (InReview(q) /\ InChain(q, t))
    <3>1. CASE InChain(q, q.currentStage)
      BY <1>2, <3>1, PreviousIsEarlier, IndexOfStage DEF InReview
    <3>2. CASE ~InChain(q, q.currentStage)
      BY <3>2 DEF PreviousStageBefore
    <3> QED
      BY <3>1, <3>2
  <2>3. SendBack(r, t)
    BY <1>5 DEF ReturnPrevious
  <2> HIDE DEF t
  <2> QED
    BY <1>3, <2>1, <2>2, <2>3
<1>6. CASE ReturnToStage(u, r)
  <2>1. InReview(q)
    BY <1>6 DEF ReturnToStage, AtStep5, MayActAtStep5, InReview, ChainStages
  <2>2. PICK t \in ReturnTargets(q) :
          /\ Write(r, ReturnedTo(q, q, t))
          /\ signed' = [signed EXCEPT ![r] = StandingAfterReturn(r, t)]
    BY <1>6 DEF ReturnToStage
  <2>3. t = Requestor \/ InChain(q, t)
    BY DEF ReturnTargets
  <2> DEFINE p == ReturnedTo(q, q, t)
  <2>4. Write(r, p) /\ p \in {MovedTo(q, q, t), ReturnedTo(q, q, t)}
    BY <2>2
  <2> HIDE DEF p
  <2> QED
    BY <1>1, <2>1, <2>2, <2>3, <2>4, BackImplements
<1> QED
  BY <1>4, <1>5, <1>6

LEMMA ReassignImplements ==
  ASSUME IInv, NEW r \in Requests, NEW u \in Users, NEW to \in Users, Reassign(u, r, to)
  PROVE  AbstractStep
<1> DEFINE p == [row[r] EXCEPT !.assigneeId = to]
<1>1. RequestStep(u, r) /\ Exists(r) /\ Write(r, p) /\ UNCHANGED <<line, signed>>
  BY DEF RequestStep, Reassign
<1>2. row[r] \in Row
  BY <1>1, InvariantAt
<1>3. p \in Row /\ SameCourse(p, row[r])
  BY <1>2, WrittenRows DEF MaybeUser, SameCourse, Row
<1> QED
  BY <1>1, <1>3, KeptCourse

LEMMA BudgetCutImplements ==
  ASSUME IInv, NEW r \in Requests, NEW u \in Users, BudgetCut(u, r)
  PROVE  AbstractStep
<1>1. RequestStep(u, r) /\ Exists(r) /\ UNCHANGED <<line, signed>>
  BY DEF RequestStep, BudgetCut, AtStep5
<1>2. PICK cut \in Cuts : Write(r, CutBy(row[r], row[r], cut))
  BY DEF BudgetCut
<1>3. row[r] \in Row
  BY <1>1, InvariantAt
<1> DEFINE p == CutBy(row[r], row[r], cut)
<1>4. Write(r, p) /\ p \in Row
  BY <1>2, <1>3, WrittenRows
<1>5. SameCourse(p, row[r])
  BY <1>3 DEF CutBy, SameCourse, Row
<1> HIDE DEF p
<1> QED
  BY <1>1, <1>4, <1>5, KeptCourse

LEMMA FinalizeImplements ==
  ASSUME IInv, NEW r \in Requests, NEW u \in Users, Finalize(u, r)
  PROVE  AbstractStep
<1> DEFINE q == row[r]
           last == "BUDGET_OFFICER_REVIEW"
           p == Approved(q)
<1>1. RequestStep(u, r) /\ Exists(r) /\ q.currentStage = last
  BY DEF RequestStep, Finalize, AtStep5, MayActAtStep5
<1>2. OnlyAt(r) /\ q \in Row /\ Sound(q, signed[r], line[r])
  BY <1>1, HandlerAt
<1>3. CASE UNCHANGED <<row, line, signed>>
  <2>1. UNCHANGED <<row[r], line[r], signed[r]>>
    BY <1>3
  <2> QED
    BY <1>2, <2>1, Stutter DEF AbstractStep
<1>4. CASE line[r] = NoLine /\ Write(r, p) /\ line' = [line EXCEPT ![r] = FinalAmount(q)]
  <2>1. FinalAmount(q) \in NetAmounts /\ p \in Row
    BY <1>1, <1>2, FinalizationIsSound
  <2>2. p.currentStage = "APPROVED"
    BY <1>2 DEF Approved, Row
  <2> HIDE DEF p
  <2>3. row'[r] = p /\ Phase(p) = "approved"
    BY <1>1, <1>4, <2>1, <2>2, HandlerAt, PhaseOfRow
  <2>4. InReview(q) /\ Phase(q) = "review" /\ HasChain(q)
    BY <1>1, <1>2, PhaseOfRow, RowColumns DEF InReview, ChainStages
  <2>5. signed[r] = StagesBefore(q, last) /\ last \in Owes(q, signed[r])
    BY <1>1, <1>2, <2>4, OwedInReview
  <2>6. StagesBefore(q, last) \cup {last} = {s \in ChainStages : InChain(q, s)}
    BY <2>4, BudgetOfficerIsLast
  <2>7. Owes(q, signed[r]) = {last}
    BY <2>4, <2>5, <2>6 DEF Owes
  <2>8. last \in ChainStages
    BY DEF ChainStages
  <2> HIDE DEF last
  <2> QED
    BY <1>2, <1>4, <2>1, <2>3, <2>4, <2>7, <2>8, PublishMaps DEF AbstractStep, Lifecycle!Next
<1> QED
  BY <1>3, <1>4 DEF Finalize

LEMMA StepImplements == IInv /\ [Next]_vars => AbstractStep
<1> SUFFICES ASSUME IInv, [Next]_vars PROVE AbstractStep
  OBVIOUS
<1>1. ASSUME NEW r \in Requests, NEW o \in Origins, Create(r, o) PROVE AbstractStep
  BY <1>1, CreateImplements
<1>2. ASSUME NEW u \in Users, NEW r \in Requests, RequestStep(u, r) PROVE AbstractStep
  BY <1>2, EditImplements, SubmitImplements, CancelImplements, ApproveImplements,
     ReturnsImplement, ReassignImplements, BudgetCutImplements, FinalizeImplements
     DEF RequestStep
<1>3. CASE DueDatesMove \/ ForecastChanges \/ ToggleCycle
  <2>1. UNCHANGED requestVars
    BY <1>3, CycleStepKeepsInvariant
  <2> QED
    BY <2>1 DEF requestVars, AbstractStep, Lifecycle!vars, Owed
<1>4. CASE UNCHANGED vars
  BY <1>4 DEF vars, AbstractStep, Lifecycle!vars, Owed
<1> QED
  BY <1>1, <1>2, <1>3, <1>4 DEF Next

LEMMA InitImplements == Init => Lifecycle!Init
BY DEF Init, Lifecycle!Init, Phase, Owed

\* The handlers implement the abstract life of a request: whatever the order
\* of calls, a request is published once at most, after all its reviewers
\* signed, and never after it was cancelled.
THEOREM RequestsImplementLifecycle == Spec => ImplementsLifecycle
<1> QED
  BY InitImplements, StepImplements, InvariantHolds, PTL
     DEF Spec, ImplementsLifecycle, Lifecycle!Spec, AbstractStep

-----------------------------------------------------------------------------
(* Overlapping handlers.  A suspended call may write a stage of the chain   *)
(* it has read into a row that has another chain by then: what makes that   *)
(* safe is that the chains of one form differ only in FormStages.           *)

\* What a request must have had approved to be at a stage, and to be final.
Required(q, s) == StagesBefore(q, s) \ FormStages(q)
Whole(q) == {s \in ChainStages : InChain(q, s)} \ FormStages(q)

\* The stored flag is the one the form gives, where the form cannot change it.
FlagKnown(q) ==
  "DEPT_HEAD_REVIEW" \in FormStages(q) \/ q.ownDeptInitiated = OwnDeptInitiated(q)

HasItem(q) == q.requestCategory \in SharedChainCategories => q.expenseLineItem # NoItem

SameForm(p, q) ==
  p.requestCategory = q.requestCategory /\ p.createdById = q.createdById

\* A row with the stages approved so far and its published amount.
Passed(q, lg, ln) ==
  /\ HasItem(q)
  /\ InReview(q) \/ q.currentStage = "APPROVED" \/ ln # NoLine => FlagKnown(q)
  /\ InReview(q) /\ InChain(q, q.currentStage) => Required(q, q.currentStage) \subseteq lg
  /\ ln # NoLine => Whole(q) \subseteq lg
  /\ q.currentStage = "APPROVED" => ln # NoLine

\* The calls that write a stage they have read, and those that use the row.
Moves(k) ==
  k.kind = "approve" \/ (k.kind \in {"return", "returnToStage"} /\ k.to # Requestor)
UsesRow(k) == Moves(k) \/ k.kind \in {"submit", "cut", "finalize"}

\* A suspended call and the row it will write, whatever happened to it since:
\* all that the stage it goes to presupposes has been approved, once an
\* approval has recorded its own.
Timely(k, q, lg) ==
  /\ k.kind = "reassign" => k.to \in Users
  /\ UsesRow(k) => k.seen \in Row /\ SameForm(k.seen, q) /\ HasItem(k.seen)
  /\ Moves(k) =>
       /\ FlagKnown(q) /\ FlagKnown(k.seen)
       /\ k.seen.currentStage \in ChainStages /\ InChain(k.seen, k.to)
       /\ Required(k.seen, k.to) \subseteq
            lg \cup {s \in {k.seen.currentStage} : k.kind = "approve" /\ ~k.recorded}
  /\ k.kind = "finalize" =>
       FlagKnown(q) /\ Whole(q) \subseteq lg \cup {"BUDGET_OFFICER_REVIEW"}

RaceInv ==
  /\ RacesTypeOK
  /\ \A r \in Requests :
       /\ signed[r] \subseteq logged[r]
       /\ IF Exists(r) THEN Passed(row[r], logged[r], line[r]) ELSE line[r] = NoLine
  /\ \A c \in Calls : Running(c) =>
       Exists(Target(c)) /\ Timely(pending[c], row[Target(c)], logged[Target(c)])

-----------------------------------------------------------------------------
(* The chains of one form.                                                  *)

\* What the form decides is the same for all rows of one form.
LEMMA SameFormStages ==
  ASSUME NEW p \in Row, NEW q \in Row, SameForm(p, q)
  PROVE  FormStages(p) = FormStages(q)
<1>1. ASSUME NEW i \in LineItems
      PROVE  OwnDeptInitiated([p EXCEPT !.expenseLineItem = i])
               <=> OwnDeptInitiated([q EXCEPT !.expenseLineItem = i])
  BY DEF OwnDeptInitiated, OwnsLineItem, SameForm, Row
<1> QED
  BY <1>1 DEF FormStages

\* Where no change of line item changes it, all rows of one form have the same
\* own-department flag.
LEMMA OwnFlagIsFixed ==
  ASSUME NEW p \in Row, NEW q \in Row, SameForm(p, q), HasItem(p), HasItem(q),
         "DEPT_HEAD_REVIEW" \notin FormStages(q)
  PROVE  OwnDeptInitiated(p) = OwnDeptInitiated(q)
<1>1. CASE q.requestCategory \notin SharedChainCategories
  BY <1>1 DEF OwnDeptInitiated, SameForm, SharedChainCategories
<1>2. CASE q.requestCategory \in SharedChainCategories
  <2> DEFINE i == p.expenseLineItem
             j == q.expenseLineItem
  <2>1. i \in LineItems /\ j \in LineItems
    BY <1>2, RowColumns DEF HasItem, SameForm
  <2>2. OwnDeptInitiated([q EXCEPT !.expenseLineItem = i])
          = OwnDeptInitiated([q EXCEPT !.expenseLineItem = j])
    BY <2>1 DEF FormStages, OwnDeptInitiated
  <2>3. [q EXCEPT !.expenseLineItem = j] = q
    BY DEF Row
  <2>4. OwnDeptInitiated([q EXCEPT !.expenseLineItem = i]) = OwnDeptInitiated(p)
    BY <2>1 DEF OwnDeptInitiated, OwnsLineItem, SameForm, Row
  <2> QED
    BY <2>2, <2>3, <2>4
<1> QED
  BY <1>1, <1>2

\* Two chains of one form require the same approvals for a stage they share,
\* and in the end.
LEMMA SameRequirements ==
  ASSUME NEW p \in Row, NEW q \in Row, SameForm(p, q), HasItem(p), HasItem(q),
         FlagKnown(p), FlagKnown(q)
  PROVE  /\ \A s : InChain(p, s) /\ InChain(q, s) => Required(p, s) = Required(q, s)
         /\ Whole(p) = Whole(q)
<1>1. FormStages(p) = FormStages(q)
  BY SameFormStages
<1>2. HasChain(p) /\ HasChain(q)
  BY RowColumns
<1>3. CASE q.requestCategory \notin SharedChainCategories
  <2>1. ChainFor(p) = ChainFor(q)
    BY <1>2, <1>3 DEF ChainFor, SameForm, HasChain, Categories, SbuBatchCategories
  <2>2. \A s : InChain(p, s) <=> InChain(q, s)
    BY <2>1 DEF InChain
  <2>3. \A s : IndexOf(p, s) = IndexOf(q, s)
    BY <2>1 DEF IndexOf
  <2> QED
    BY <1>1, <2>2, <2>3 DEF Required, Whole, StagesBefore
<1>4. CASE q.requestCategory \in SharedChainCategories
  <2>1. p.requestCategory \in SharedChainCategories
    BY <1>4 DEF SameForm
  <2>2. "CFO_APPROVAL" \in FormStages(q)
    BY DEF FormStages
  <2>3. \/ "DEPT_HEAD_REVIEW" \in FormStages(q)
        \/ p.ownDeptInitiated = q.ownDeptInitiated
    BY <1>1, OwnFlagIsFixed DEF FlagKnown
  <2>4. ASSUME NEW t, t \notin FormStages(q)
        PROVE  InChain(p, t) <=> InChain(q, t)
    BY <1>2, <1>4, <2>1, <2>2, <2>3, <2>4, GaeStagesBefore
  <2>5. ASSUME NEW s, InChain(p, s), InChain(q, s)
        PROVE  Required(p, s) = Required(q, s)
    <3>1. /\ StagesBefore(p, s) = {t \in ChainStages : InChain(p, t) /\ Rank(t) < Rank(s)}
          /\ StagesBefore(q, s) = {t \in ChainStages : InChain(q, t) /\ Rank(t) < Rank(s)}
      BY <1>2, <1>4, <2>1, <2>5, GaeStagesBefore
    <3> QED
      BY <1>1, <2>4, <3>1, Zenon DEF Required
  <2>6. Whole(p) = Whole(q)
    BY <1>1, <2>4, Zenon DEF Whole
  <2> QED
    BY <2>5, <2>6
<1> QED
  BY <1>3, <1>4

-----------------------------------------------------------------------------
(* Writing a row.                                                           *)

\* What every write leaves a row: its requestor and category, a line item if
\* it must have one, and the flag if it was known.
Follows(p, q) ==
  /\ SameForm(p, q) /\ HasItem(p)
  /\ FlagKnown(q) => FlagKnown(p)

LEMMA FlagIsKept ==
  ASSUME NEW p \in Row, NEW q \in Row, SameForm(p, q), HasItem(p), HasItem(q),
         p.ownDeptInitiated = q.ownDeptInitiated
  PROVE  Follows(p, q)
BY SameFormStages, OwnFlagIsFixed DEF Follows, FlagKnown

\* A row that goes back, or keeps its stage and chain, has passed what it had.
LEMMA StayingIsPassed ==
  ASSUME NEW p \in Row, NEW q \in Row, Follows(p, q),
         NEW lg, NEW lg2, lg \subseteq lg2, NEW ln, Passed(q, lg, ln),
         \/ p.currentStage \in {"DRAFT", "CANCELLED"}
         \/ /\ p.currentStage = q.currentStage
            /\ p.ownDeptInitiated = q.ownDeptInitiated
            /\ p.requiresCfoApproval = q.requiresCfoApproval
  PROVE  Passed(p, lg2, ln)
<1>1. ln # NoLine => FlagKnown(p) /\ Whole(p) = Whole(q)
  BY SameRequirements DEF Passed, Follows
<1>2. HasItem(p)
  BY DEF Follows
<1>3. CASE p.currentStage \in {"DRAFT", "CANCELLED"}
  <2>1. ~InReview(p) /\ p.currentStage # "APPROVED"
    BY <1>3 DEF InReview, ChainStages
  <2> QED
    BY <1>1, <1>2, <2>1 DEF Passed
<1>4. CASE /\ p.currentStage = q.currentStage
           /\ p.ownDeptInitiated = q.ownDeptInitiated
           /\ p.requiresCfoApproval = q.requiresCfoApproval
  <2>1. p.requestCategory = q.requestCategory
    BY DEF Follows, SameForm
  <2>2. /\ \A s : InChain(p, s) <=> InChain(q, s)
        /\ \A s : StagesBefore(p, s) = StagesBefore(q, s)
    BY <1>4, <2>1, SameChain
  <2>3. FormStages(p) = FormStages(q)
    BY SameFormStages DEF Follows
  <2>4. Required(p, p.currentStage) = Required(q, q.currentStage)
    BY <1>4, <2>2, <2>3 DEF Required
  <2>5. FlagKnown(q) => FlagKnown(p)
    BY DEF Follows
  <2>6. InReview(p) <=> InReview(q)
    BY <1>4 DEF InReview
  <2> QED
    BY <1>1, <1>2, <1>4, <2>2, <2>4, <2>5, <2>6 DEF Passed
<1> QED
  BY <1>3, <1>4

\* A row at a stage all of whose requirements have been approved.
LEMMA PlacedIsPassed ==
  ASSUME NEW p \in Row, NEW q \in Row, Follows(p, q),
         NEW lg, NEW lg2, lg \subseteq lg2, NEW ln, Passed(q, lg, ln),
         p.currentStage \in ChainStages, FlagKnown(p),
         InChain(p, p.currentStage) => Required(p, p.currentStage) \subseteq lg2
  PROVE  Passed(p, lg2, ln)
<1>1. ln # NoLine => Whole(p) = Whole(q)
  BY SameRequirements DEF Passed, Follows
<1>2. p.currentStage # "APPROVED"
  BY DEF ChainStages
<1> QED
  BY <1>1, <1>2 DEF Passed, Follows

\* A suspended call stays timely whatever is written into its row.
LEMMA StaysTimely ==
  ASSUME NEW p \in Row, NEW q \in Row, Follows(p, q), HasItem(q),
         NEW lg, NEW lg2, lg \subseteq lg2, NEW k, Timely(k, q, lg)
  PROVE  Timely(k, p, lg2)
<1>1. UsesRow(k) => k.seen \in Row /\ SameForm(k.seen, p) /\ HasItem(k.seen)
  BY DEF Timely, Follows, SameForm
<1>2. Moves(k) =>
       /\ FlagKnown(p) /\ FlagKnown(k.seen)
       /\ k.seen.currentStage \in ChainStages /\ InChain(k.seen, k.to)
       /\ Required(k.seen, k.to) \subseteq
            lg2 \cup {s \in {k.seen.currentStage} : k.kind = "approve" /\ ~k.recorded}
  BY DEF Timely, Follows
<1>3. k.kind = "finalize" =>
       FlagKnown(p) /\ Whole(p) \subseteq lg2 \cup {"BUDGET_OFFICER_REVIEW"}
  <2> SUFFICES ASSUME k.kind = "finalize"
               PROVE  FlagKnown(p) /\ Whole(p) \subseteq lg2 \cup {"BUDGET_OFFICER_REVIEW"}
    OBVIOUS
  <2>1. FlagKnown(q) /\ Whole(q) \subseteq lg \cup {"BUDGET_OFFICER_REVIEW"}
    BY DEF Timely
  <2>2. FlagKnown(p) /\ Whole(p) = Whole(q)
    BY <2>1, SameRequirements DEF Follows
  <2> QED
    BY <2>1, <2>2
<1> QED
  BY <1>1, <1>2, <1>3 DEF Timely

\* The columns of a row a move is written into, whatever row was read.
LEMMA MoveIntoChain ==
  ASSUME NEW q \in Row, NEW seen \in Row, NEW t \in ChainStages,
         NEW p \in {MovedTo(q, seen, t), ReturnedTo(q, seen, t)}
  PROVE  /\ p \in Row /\ p.currentStage = t
         /\ p.requestCategory = q.requestCategory /\ p.createdById = q.createdById
         /\ p.expenseLineItem = q.expenseLineItem
         /\ p.ownDeptInitiated = q.ownDeptInitiated
         /\ p.requiresCfoApproval = q.requiresCfoApproval
<1>1. t # Requestor
  BY DEF ChainStages, Requestor
<1>2. AssigneeForStage(seen, t) \in MaybeUser /\ NoUser \in MaybeUser
  BY AssigneeType DEF MaybeUser
<1>3. t \in RequestStage
  BY DEF RequestStage
<1>4. PICK u \in MaybeUser : p = [q EXCEPT !.currentStage = t, !.assigneeId = u]
  BY <1>1, <1>2 DEF MovedTo, ReturnedTo
<1> QED
  BY <1>3, <1>4 DEF Row

LEMMA MoveBack ==
  ASSUME NEW q \in Row, NEW seen,
         NEW p \in {MovedTo(q, seen, Requestor), ReturnedTo(q, seen, Requestor)}
  PROVE  /\ p \in Row /\ p.currentStage = "DRAFT"
         /\ p.requestCategory = q.requestCategory /\ p.createdById = q.createdById
         /\ p.expenseLineItem = q.expenseLineItem
         /\ p.ownDeptInitiated = q.ownDeptInitiated
<1>1. p = [q EXCEPT !.currentStage = "DRAFT", !.status = "RETURNED", !.assigneeId = NoUser]
  BY DEF MovedTo, ReturnedTo, Requestor
<1> QED
  BY <1>1 DEF Row, RequestStage, Statuses, MaybeUser

\* A submit writes the flags and the first stage of the row it has read.
LEMMA SubmittedLate ==
  ASSUME NEW q \in Row, NEW seen \in Row, SameForm(seen, q), HasItem(seen), HasItem(q)
  PROVE  LET p == Submitted(q, seen)
         IN  /\ p \in Row /\ Follows(p, q) /\ FlagKnown(p)
             /\ p.currentStage \in ChainStages
             /\ Required(p, p.currentStage) = {}
<1> DEFINE s == WithFlags(seen)
           p == Submitted(q, seen)
           first == ChainFor(s)[1]
<1>1. s \in Row
  BY RowColumns DEF WithFlags, Row, OwnDeptInitiated
<1>2. /\ s.requestCategory = seen.requestCategory
      /\ s.ownDeptInitiated = OwnDeptInitiated(seen)
      /\ s.ownDeptInitiated \in BOOLEAN /\ s.requiresCfoApproval \in BOOLEAN
  BY <1>1, RowColumns DEF WithFlags, Row, OwnDeptInitiated
<1>3. HasChain(s)
  BY <1>1, RowColumns
<1>4. InChain(s, first) /\ first \in ChainStages /\ StagesBefore(s, first) = {}
  BY <1>3, NothingBeforeFirst, IndexOfStage
<1>5. AssigneeForStage(s, first) \in MaybeUser
  BY <1>1, AssigneeType
<1>6. p = [q EXCEPT !.currentStage = first, !.status = "IN_REVIEW",
                    !.ownDeptInitiated = s.ownDeptInitiated,
                    !.requiresCfoApproval = s.requiresCfoApproval,
                    !.assigneeId = AssigneeForStage(s, first)]
  BY DEF Submitted
<1> HIDE DEF s, p, first
<1>7. first \in RequestStage /\ "IN_REVIEW" \in Statuses
  BY <1>4 DEF RequestStage, Statuses
<1>8. /\ p \in Row
      /\ p.currentStage = first
      /\ p.requestCategory = q.requestCategory /\ p.createdById = q.createdById
      /\ p.expenseLineItem = q.expenseLineItem
      /\ p.ownDeptInitiated = s.ownDeptInitiated
      /\ p.requiresCfoApproval = s.requiresCfoApproval
  BY <1>2, <1>5, <1>6, <1>7 DEF Row
<1>9. SameForm(p, q) /\ SameForm(p, seen) /\ HasItem(p)
  BY <1>8 DEF SameForm, HasItem
<1>10. FlagKnown(p)
  <2>1. CASE "DEPT_HEAD_REVIEW" \in FormStages(p)
    BY <2>1 DEF FlagKnown
  <2>2. CASE "DEPT_HEAD_REVIEW" \notin FormStages(p)
    <3>1. FormStages(p) = FormStages(seen)
      BY <1>8, <1>9, SameFormStages
    <3>2. OwnDeptInitiated(p) = OwnDeptInitiated(seen)
      BY <1>8, <1>9, <2>2, <3>1, OwnFlagIsFixed
    <3> QED
      BY <1>2, <1>8, <3>2 DEF FlagKnown
  <2> QED
    BY <2>1, <2>2
<1>11. StagesBefore(p, first) = {}
  <2>1. p.requestCategory = s.requestCategory
    BY <1>2, <1>8 DEF SameForm
  <2> QED
    BY <1>4, <1>8, <2>1, SameChain
<1> QED
  BY <1>4, <1>8, <1>9, <1>10, <1>11 DEF Follows, Required, p

-----------------------------------------------------------------------------
(* Keeping the invariant.                                                   *)

\* The invariant at a request that exists.
LEMMA RaceInvAt ==
  ASSUME RaceInv, NEW r \in Requests, Exists(r)
  PROVE  /\ row[r] \in Row /\ HasItem(row[r])
         /\ Passed(row[r], logged[r], line[r])
BY DEF RaceInv, RacesTypeOK, TypeOK, Exists, Passed

LEMMA RaceInvTypes ==
  ASSUME RaceInv, NEW r \in Requests
  PROVE  /\ TypeOK
         /\ signed[r] \in SUBSET ChainStages /\ logged[r] \in SUBSET ChainStages
         /\ signed[r] \subseteq logged[r]
         /\ line[r] \in NetAmounts \cup {NoLine}
         /\ signed = [signed EXCEPT ![r] = signed[r]]
         /\ line = [line EXCEPT ![r] = line[r]]
         /\ sapPostings \in [Requests -> 0 .. MaxPostings]
BY DEF RaceInv, RacesTypeOK, TypeOK

\* A suspended call, its row and what it is timely for.
LEMMA RaceInvAtCall ==
  ASSUME RaceInv, NEW c \in Calls, Running(c)
  PROVE  /\ pending[c] \in Call /\ Target(c) \in Requests /\ Exists(Target(c))
         /\ Timely(pending[c], row[Target(c)], logged[Target(c)])
BY DEF RaceInv, RacesTypeOK, Running, Target, Call

\* The decisions recorded by a write of one request's sign-offs.
LEMMA DecisionsAdded ==
  ASSUME RaceInv, NEW r \in Requests, NEW sg \in SUBSET ChainStages,
         signed' = [signed EXCEPT ![r] = sg], KeepDecisions
  PROVE  logged' = [logged EXCEPT ![r] = @ \cup sg]
<1>1. /\ signed \in [Requests -> SUBSET ChainStages]
      /\ logged \in [Requests -> SUBSET ChainStages]
      /\ signed[r] \subseteq logged[r]
  BY DEF RaceInv, RacesTypeOK, TypeOK
<1>2. ASSUME NEW x \in Requests
      PROVE  logged[x] \cup (signed'[x] \ signed[x])
               = IF x = r THEN logged[x] \cup sg ELSE logged[x]
  BY <1>1, <1>2
<1> QED
  BY <1>1, <1>2 DEF KeepDecisions

\* Writing one request: the calls suspended on it stay timely.
LEMMA WriteKeepsRaceInv ==
  ASSUME RaceInv, NEW r \in Requests, NEW p \in Row,
         Exists(r) => Follows(p, row[r]),
         NEW sg \in SUBSET ChainStages, NEW ln \in NetAmounts \cup {NoLine},
         Passed(p, logged[r] \cup sg, ln),
         Write(r, p),
         signed' = [signed EXCEPT ![r] = sg],
         line' = [line EXCEPT ![r] = ln],
         KeepDecisions,
         sapPostings' \in [Requests -> 0 .. MaxPostings],
         UNCHANGED cycleVars,
         pending' \in [Calls -> Call \cup {NoCall}],
         \A c \in Calls : pending'[c] \in {pending[c], NoCall}
  PROVE  RaceInv'
<1> DEFINE lg == logged[r] \cup sg
<1>1. /\ row \in [Requests -> Row \cup {NoRow}]
      /\ line \in [Requests -> NetAmounts \cup {NoLine}]
      /\ signed \in [Requests -> SUBSET ChainStages]
      /\ logged \in [Requests -> SUBSET ChainStages]
      /\ overdue \subseteq Deadlines /\ forecastReady \subseteq Departments
      /\ cycleOpen \in BOOLEAN
  BY DEF RaceInv, RacesTypeOK, TypeOK
<1>2. logged' = [logged EXCEPT ![r] = lg]
  BY DecisionsAdded
<1>3. lg \in SUBSET ChainStages /\ sg \subseteq lg /\ logged[r] \subseteq lg
  BY <1>1
<1>4. row' = [row EXCEPT ![r] = p] /\ p # NoRow
  BY RequestsAssumption DEF Write
<1>5. /\ row'[r] = p /\ signed'[r] = sg /\ line'[r] = ln /\ logged'[r] = lg
      /\ \A x \in Requests : x # r =>
           /\ row'[x] = row[x] /\ signed'[x] = signed[x]
           /\ line'[x] = line[x] /\ logged'[x] = logged[x]
  BY <1>1, <1>2, <1>4
<1> HIDE DEF lg
<1>6. RacesTypeOK'
  BY <1>1, <1>2, <1>3, <1>4 DEF RacesTypeOK, TypeOK, cycleVars
<1>7. ASSUME NEW x \in Requests
      PROVE  /\ signed'[x] \subseteq logged'[x]
             /\ IF row'[x] # NoRow THEN Passed(row'[x], logged'[x], line'[x])
                ELSE line'[x] = NoLine
  <2>1. CASE x = r
    BY <1>3, <1>4, <1>5, <2>1 DEF lg
  <2>2. CASE x # r
    BY <1>5, <2>2 DEF RaceInv, Exists
  <2> QED
    BY <2>1, <2>2
<1>8. ASSUME NEW c \in Calls, pending'[c] # NoCall
      PROVE  LET x == pending'[c].request
             IN  row'[x] # NoRow /\ Timely(pending'[c], row'[x], logged'[x])
  <2>1. pending'[c] = pending[c] /\ Running(c)
    BY <1>8 DEF Running
  <2> DEFINE x == Target(c)
  <2>2. x \in Requests /\ Exists(x) /\ Timely(pending[c], row[x], logged[x])
    BY <2>1, RaceInvAtCall
  <2>3. row'[x] # NoRow /\ Timely(pending[c], row'[x], logged'[x])
    <3>1. CASE x # r
      BY <1>5, <2>2, <3>1 DEF Exists
    <3>2. CASE x = r
      <4>1. row[r] \in Row /\ HasItem(row[r]) /\ Follows(p, row[r])
        BY <2>2, <3>2, RaceInvAt
      <4>2. Timely(pending[c], p, lg)
        BY <1>3, <2>2, <3>2, <4>1, StaysTimely
      <4> QED
        BY <1>4, <1>5, <3>2, <4>2
    <3> QED
      BY <3>1, <3>2
  <2> QED
    BY <2>1, <2>3 DEF Target
<1> QED
  BY <1>6, <1>7, <1>8 DEF RaceInv, Exists, Running, Target

\* A step that writes no row: decisions and calls only.
LEMMA CallsKeepRaceInv ==
  ASSUME RaceInv, UNCHANGED <<row, line, cycleVars>>,
         signed' \in [Requests -> SUBSET ChainStages],
         logged' \in [Requests -> SUBSET ChainStages],
         \A r \in Requests : signed'[r] \subseteq logged'[r] /\ logged[r] \subseteq logged'[r],
         sapPostings' \in [Requests -> 0 .. MaxPostings],
         pending' \in [Calls -> Call \cup {NoCall}],
         \A c \in Calls : pending'[c] # NoCall =>
           LET x == pending'[c].request
           IN  Exists(x) /\ Timely(pending'[c], row[x], logged'[x])
  PROVE  RaceInv'
<1>1. RacesTypeOK'
  BY DEF RaceInv, RacesTypeOK, TypeOK, cycleVars
<1>2. ASSUME NEW x \in Requests
      PROVE  IF Exists(x) THEN Passed(row[x], logged'[x], line[x]) ELSE line[x] = NoLine
  BY DEF RaceInv, Passed
<1> QED
  BY <1>1, <1>2 DEF RaceInv, Exists, Running, Target

\* Changes of calls alone, that keep or drop each of the others.
LEMMA CallStaysTimely ==
  ASSUME RaceInv, NEW c \in Calls, Running(c),
         NEW lg, logged[Target(c)] \subseteq lg
  PROVE  Exists(Target(c)) /\ Timely(pending[c], row[Target(c)], lg)
<1>1. /\ Target(c) \in Requests /\ Exists(Target(c))
      /\ Timely(pending[c], row[Target(c)], logged[Target(c)])
  BY RaceInvAtCall
<1>2. row[Target(c)] \in Row /\ HasItem(row[Target(c)])
  BY <1>1, RaceInvAt
<1>3. Follows(row[Target(c)], row[Target(c)])
  BY <1>2 DEF Follows, SameForm
<1> QED
  BY <1>1, <1>2, <1>3, StaysTimely

LEMMA NoDecisions ==
  ASSUME RaceInv, UNCHANGED <<signed, logged>>
  PROVE  KeepDecisions
BY DEF RaceInv, RacesTypeOK, KeepDecisions

\* A write that leaves the decisions and the line alone.
LEMMA PlainWriteKeepsRaceInv ==
  ASSUME RaceInv, NEW r \in Requests, Exists(r),
         NEW p \in Row, Follows(p, row[r]),
         \A lg : logged[r] \subseteq lg => Passed(p, lg, line[r]),
         Write(r, p),
         UNCHANGED <<line, signed, sapPostings, cycleVars>>, KeepDecisions,
         pending' \in [Calls -> Call \cup {NoCall}],
         \A c \in Calls : pending'[c] \in {pending[c], NoCall}
  PROVE  RaceInv'
<1>1. Passed(p, logged[r] \cup signed[r], line[r])
  OBVIOUS
<1> QED
  BY <1>1, RaceInvTypes, WriteKeepsRaceInv

\* A write of columns the chain does not depend on.
LEMMA SameCourseIsPassed ==
  ASSUME NEW p \in Row, NEW q \in Row, SameCourse(p, q), HasItem(p), HasItem(q),
         NEW lg, NEW ln, Passed(q, lg, ln)
  PROVE  Follows(p, q) /\ \A lg2 : lg \subseteq lg2 => Passed(p, lg2, ln)
<1>1. Follows(p, q)
  BY FlagIsKept DEF SameCourse, SameForm
<1> QED
  BY <1>1, StayingIsPassed DEF SameCourse

\* Columns no handler but an edit writes.
LEMMA SameItem ==
  ASSUME NEW p, NEW q, p.requestCategory = q.requestCategory,
         p.expenseLineItem = q.expenseLineItem, HasItem(q)
  PROVE  HasItem(p)
BY DEF HasItem

\* A row that is back with its requestor or cancelled.
LEMMA BackIsPassed ==
  ASSUME NEW p \in Row, NEW q \in Row, SameForm(p, q), HasItem(q),
         p.expenseLineItem = q.expenseLineItem,
         p.ownDeptInitiated = q.ownDeptInitiated,
         p.currentStage \in {"DRAFT", "CANCELLED"},
         NEW lg, NEW ln, Passed(q, lg, ln)
  PROVE  Follows(p, q) /\ \A lg2 : lg \subseteq lg2 => Passed(p, lg2, ln)
<1>1. Follows(p, q)
  BY FlagIsKept, SameItem DEF SameForm
<1> QED
  BY <1>1, StayingIsPassed

-----------------------------------------------------------------------------
(* The handlers running alone.                                              *)

LEMMA CreateRaces ==
  ASSUME RaceInv, NEW r \in Requests, NEW o \in Origins, Create(r, o),
         KeepDecisions, UNCHANGED pending
  PROVE  RaceInv'
<1>1. ~Exists(r) /\ UNCHANGED <<line, signed, sapPostings, cycleVars>>
  BY DEF Create
<1>2. PICK p \in Row : Write(r, p) /\ p.currentStage = "DRAFT" /\ Sound(p, {}, line[r])
  BY NewRowIsSound DEF Create
<1>3. line[r] = NoLine
  BY <1>1 DEF RaceInv
<1>4. HasItem(p)
  BY <1>2 DEF Sound, SoundFlag, HasItem
<1>5. Passed(p, logged[r] \cup signed[r], line[r])
  BY <1>2, <1>3, <1>4 DEF Passed, InReview, ChainStages
<1>6. pending' \in [Calls -> Call \cup {NoCall}]
  BY DEF RaceInv, RacesTypeOK
<1> QED
  BY <1>1, <1>2, <1>5, <1>6, RaceInvTypes, WriteKeepsRaceInv

LEMMA EditRaces ==
  ASSUME RaceInv, NEW r \in Requests, NEW u \in Users, Edit(u, r),
         KeepDecisions, UNCHANGED pending
  PROVE  RaceInv'
<1> DEFINE q == row[r]
<1>1. Exists(r) /\ UNCHANGED <<line, signed, sapPostings, cycleVars>>
  BY DEF Edit
<1>2. PICK p \in Row :
        /\ Write(r, p) /\ SameCourse(p, q)
        /\ q.expenseLineItem # NoItem => p.expenseLineItem # NoItem
  BY RaceInvTypes, EditWrites
<1>3. q \in Row /\ HasItem(q) /\ Passed(q, logged[r], line[r])
  BY <1>1, RaceInvAt
<1>4. HasItem(p)
  BY <1>2, <1>3 DEF HasItem, SameCourse
<1>5. pending' \in [Calls -> Call \cup {NoCall}]
  BY DEF RaceInv, RacesTypeOK
<1> QED
  BY <1>1, <1>2, <1>3, <1>4, <1>5, SameCourseIsPassed, PlainWriteKeepsRaceInv

\* What a submit writes into a row, whichever row of the same form it read.
LEMMA SubmittedIsPassed ==
  ASSUME NEW p \in Row, NEW q \in Row, NEW seen \in Row,
         Follows(p, q), HasItem(q), SameForm(seen, p), HasItem(seen),
         NEW lg, NEW ln, Passed(q, lg, ln)
  PROVE  /\ Submitted(p, seen) \in Row
         /\ Follows(Submitted(p, seen), q)
         /\ \A lg2 : lg \subseteq lg2 => Passed(Submitted(p, seen), lg2, ln)
<1> DEFINE s == Submitted(p, seen)
<1>1. /\ s \in Row /\ Follows(s, p) /\ FlagKnown(s)
      /\ s.currentStage \in ChainStages
      /\ Required(s, s.currentStage) = {}
  BY SubmittedLate DEF Follows
<1> HIDE DEF s
<1>2. Follows(s, q)
  BY <1>1 DEF Follows, SameForm
<1>3. ASSUME NEW lg2, lg \subseteq lg2
      PROVE  Passed(s, lg2, ln)
  BY <1>1, <1>2, <1>3, PlacedIsPassed
<1> QED
  BY <1>1, <1>2, <1>3 DEF s

LEMMA SubmitRaces ==
  ASSUME RaceInv, NEW r \in Requests, NEW u \in Users, Submit(u, r),
         KeepDecisions, UNCHANGED pending
  PROVE  RaceInv'
<1> DEFINE q == row[r]
<1>1. Exists(r) /\ UNCHANGED <<line, signed, sapPostings, cycleVars>>
  BY DEF Submit
<1>2. PICK p \in Row :
        /\ SameCourse(p, q) /\ p.expenseLineItem = q.expenseLineItem
        /\ \/ Write(r, Submitted(p, p))
           \/ Write(r, p)
  BY RaceInvTypes, SubmitWrites
<1>3. q \in Row /\ HasItem(q) /\ Passed(q, logged[r], line[r])
  BY <1>1, RaceInvAt
<1>4. HasItem(p) /\ SameForm(p, p)
  BY <1>2, <1>3, SameItem DEF SameCourse, SameForm
<1>5. pending' \in [Calls -> Call \cup {NoCall}]
  BY DEF RaceInv, RacesTypeOK
<1>6. Follows(p, q) /\ \A lg : logged[r] \subseteq lg => Passed(p, lg, line[r])
  BY <1>2, <1>3, <1>4, SameCourseIsPassed
<1>7. CASE Write(r, p)
  BY <1>1, <1>5, <1>6, <1>7, PlainWriteKeepsRaceInv
<1>8. CASE Write(r, Submitted(p, p))
  <2>1. /\ Submitted(p, p) \in Row /\ Follows(Submitted(p, p), q)
        /\ \A lg : logged[r] \subseteq lg => Passed(Submitted(p, p), lg, line[r])
    BY <1>3, <1>4, <1>6, SubmittedIsPassed
  <2> QED
    BY <1>1, <1>5, <1>8, <2>1, PlainWriteKeepsRaceInv
<1> QED
  BY <1>2, <1>7, <1>8

LEMMA CancelledIsPassed ==
  ASSUME NEW q \in Row, HasItem(q), NEW lg, NEW ln, Passed(q, lg, ln)
  PROVE  /\ Cancelled(q) \in Row /\ Follows(Cancelled(q), q)
         /\ \A lg2 : lg \subseteq lg2 => Passed(Cancelled(q), lg2, ln)
<1>1. /\ Cancelled(q) \in Row
      /\ Cancelled(q).currentStage = "CANCELLED"
      /\ Cancelled(q).expenseLineItem = q.expenseLineItem
      /\ Cancelled(q).ownDeptInitiated = q.ownDeptInitiated
      /\ SameForm(Cancelled(q), q)
  BY WrittenRows DEF Cancelled, Row, SameForm
<1> QED
  BY <1>1, BackIsPassed

\* Assigning somebody, cutting and editing the form leave the course alone.
LEMMA FormWritesKeepCourse ==
  ASSUME NEW q \in Row, HasItem(q), NEW seen,
         NEW p, \/ \E u \in MaybeUser : p = [q EXCEPT !.assigneeId = u]
                \/ p \in EditedForms(q)
                \/ \E a \in Cuts : p = CutBy(q, seen, a)
  PROVE  p \in Row /\ SameCourse(p, q) /\ HasItem(p)
<1>1. CASE \E u \in MaybeUser : p = [q EXCEPT !.assigneeId = u]
  BY <1>1 DEF Row, SameCourse, HasItem
<1>2. CASE p \in EditedForms(q)
  BY <1>2, FormsOfRow DEF SameCourse, HasItem
<1>3. CASE \E a \in Cuts : p = CutBy(q, seen, a)
  <2>1. PICK a \in Cuts, b \in BOOLEAN :
          p = [q EXCEPT !.budgetCutAmount = a, !.isOverBudget = b]
    BY <1>3 DEF CutBy
  <2> QED
    BY <2>1 DEF Row, SameCourse, HasItem
<1> QED
  BY <1>1, <1>2, <1>3

LEMMA FormStepsRace ==
  ASSUME RaceInv, NEW r \in Requests, NEW u \in Users,
         Cancel(u, r) \/ (\E to \in Users : Reassign(u, r, to)) \/ BudgetCut(u, r),
         KeepDecisions, UNCHANGED pending
  PROVE  RaceInv'
<1> DEFINE q == row[r]
<1>1. Exists(r) /\ UNCHANGED <<line, signed, sapPostings, cycleVars>>
  BY DEF Cancel, Reassign, BudgetCut, AtStep5
<1>2. q \in Row /\ HasItem(q) /\ Passed(q, logged[r], line[r])
  BY <1>1, RaceInvAt
<1>3. pending' \in [Calls -> Call \cup {NoCall}]
  BY DEF RaceInv, RacesTypeOK
<1>4. CASE Cancel(u, r)
  <2>1. Write(r, Cancelled(q))
    BY <1>4 DEF Cancel
  <2> QED
    BY <1>1, <1>2, <1>3, <2>1, CancelledIsPassed, PlainWriteKeepsRaceInv
<1>5. CASE (\E to \in Users : Reassign(u, r, to)) \/ BudgetCut(u, r)
  <2>1. PICK p : /\ Write(r, p)
                 /\ \/ \E to \in MaybeUser : p = [q EXCEPT !.assigneeId = to]
                    \/ \E a \in Cuts : p = CutBy(q, q, a)
    BY <1>5 DEF Reassign, BudgetCut, MaybeUser
  <2>2. p \in Row /\ SameCourse(p, q) /\ HasItem(p)
    BY <1>2, <2>1, FormWritesKeepCourse
  <2> QED
    BY <1>1, <1>2, <1>3, <2>1, <2>2, SameCourseIsPassed, PlainWriteKeepsRaceInv
<1> QED
  BY <1>4, <1>5

\* A move into the chain that was read, with the approvals its stage requires.
LEMMA MoveIsPassed ==
  ASSUME NEW q \in Row, NEW seen \in Row, SameForm(seen, q), HasItem(q), HasItem(seen),
         FlagKnown(q), FlagKnown(seen), NEW t, InChain(seen, t),
         NEW p \in {MovedTo(q, seen, t), ReturnedTo(q, seen, t)},
         NEW lg, NEW lg2, lg \subseteq lg2, NEW ln, Passed(q, lg, ln),
         Required(seen, t) \subseteq lg2
  PROVE  p \in Row /\ Follows(p, q) /\ Passed(p, lg2, ln)
<1>1. t \in ChainStages
  BY RowColumns, IndexOfStage
<1>2. /\ p \in Row /\ p.currentStage = t
      /\ p.requestCategory = q.requestCategory /\ p.createdById = q.createdById
      /\ p.expenseLineItem = q.expenseLineItem
      /\ p.ownDeptInitiated = q.ownDeptInitiated
  <2>1. CASE p = MovedTo(q, seen, t)
    BY <1>1, <2>1, MoveIntoChain
  <2>2. CASE p = ReturnedTo(q, seen, t)
    BY <1>1, <2>2, MoveIntoChain
  <2> QED
    BY <2>1, <2>2
<1>3. SameForm(p, q) /\ HasItem(p)
  BY <1>2, SameItem DEF SameForm
<1>4. Follows(p, q) /\ FlagKnown(p)
  BY <1>2, <1>3, FlagIsKept DEF Follows
<1>5. SameForm(seen, p)
  BY <1>3 DEF SameForm
<1>6. InChain(p, t) => Required(p, t) = Required(seen, t)
  BY <1>2, <1>3, <1>4, <1>5, SameRequirements
<1> QED
  BY <1>1, <1>2, <1>4, <1>6, PlacedIsPassed

LEMMA MoveBackIsPassed ==
  ASSUME NEW q \in Row, NEW seen, HasItem(q),
         NEW p \in {MovedTo(q, seen, Requestor), ReturnedTo(q, seen, Requestor)},
         NEW lg, NEW lg2, lg \subseteq lg2, NEW ln, Passed(q, lg, ln)
  PROVE  p \in Row /\ Follows(p, q) /\ Passed(p, lg2, ln)
<1>1. /\ p \in Row /\ p.currentStage = "DRAFT"
      /\ p.requestCategory = q.requestCategory /\ p.createdById = q.createdById
      /\ p.expenseLineItem = q.expenseLineItem
      /\ p.ownDeptInitiated = q.ownDeptInitiated
  BY MoveBack
<1>2. SameForm(p, q)
  BY <1>1 DEF SameForm
<1> QED
  BY <1>1, <1>2, BackIsPassed

\* What the next stage and the ones before require, at the stage a row is at.
LEMMA NextRequires ==
  ASSUME NEW q \in Row, NEW lg, NEW ln, Passed(q, lg, ln),
         HasNext(q, q.currentStage)
  PROVE  LET t == NextStageAfter(q, q.currentStage)
         IN  /\ InReview(q) /\ FlagKnown(q) /\ InChain(q, t)
             /\ Required(q, t) \subseteq lg \cup {q.currentStage}
<1> DEFINE stage == q.currentStage
           t == NextStageAfter(q, stage)
<1>1. HasChain(q) /\ InChain(q, stage)
  BY RowColumns DEF HasNext
<1>2. InReview(q)
  BY <1>1, IndexOfStage DEF InReview
<1>3. InChain(q, t) /\ StagesBefore(q, t) = StagesBefore(q, stage) \cup {stage}
  BY <1>1, NextAddsStage
<1>4. FlagKnown(q) /\ Required(q, stage) \subseteq lg
  BY <1>1, <1>2 DEF Passed
<1> HIDE DEF t
<1>5. Required(q, t) \subseteq lg \cup {stage}
  BY <1>3, <1>4 DEF Required
<1> QED
  BY <1>2, <1>3, <1>4, <1>5 DEF t

LEMMA EarlierRequires ==
  ASSUME NEW q \in Row, NEW lg, NEW ln, Passed(q, lg, ln),
         InChain(q, q.currentStage), NEW t, InChain(q, t),
         IndexOf(q, t) <= IndexOf(q, q.currentStage)
  PROVE  InReview(q) /\ FlagKnown(q) /\ Required(q, t) \subseteq lg
<1>1. HasChain(q)
  BY RowColumns
<1>2. InReview(q)
  BY <1>1, IndexOfStage DEF InReview
<1>3. FlagKnown(q) /\ Required(q, q.currentStage) \subseteq lg
  BY <1>2 DEF Passed
<1>4. StagesBefore(q, t) \subseteq StagesBefore(q, q.currentStage)
  BY <1>1, BeforeEarlierStage
<1> QED
  BY <1>2, <1>3, <1>4 DEF Required

LEMMA ApproveRaces ==
  ASSUME RaceInv, NEW r \in Requests, NEW u \in Users, Approve(u, r),
         KeepDecisions, UNCHANGED pending
  PROVE  RaceInv'
<1> DEFINE q == row[r]
           stage == q.currentStage
           t == NextStageAfter(q, stage)
           p == MovedTo(q, q, t)
           sg == signed[r] \cup {stage}
<1>1. /\ Exists(r) /\ HasNext(q, stage) /\ Write(r, p)
      /\ signed' = [signed EXCEPT ![r] = @ \cup {stage}]
      /\ UNCHANGED <<line, sapPostings, cycleVars>>
  BY DEF Approve, MayApprove
<1>2. q \in Row /\ HasItem(q) /\ Passed(q, logged[r], line[r])
  BY <1>1, RaceInvAt
<1>3. /\ InReview(q) /\ FlagKnown(q) /\ InChain(q, t)
      /\ Required(q, t) \subseteq logged[r] \cup {stage}
  BY <1>1, <1>2, NextRequires
<1>4. sg \in SUBSET ChainStages
  BY <1>3, RaceInvTypes DEF InReview
<1>5. signed' = [signed EXCEPT ![r] = sg]
  BY <1>1
<1>6. SameForm(q, q)
  BY DEF SameForm
<1>7. Required(q, t) \subseteq logged[r] \cup sg
  BY <1>3
<1>8. p \in Row /\ Follows(p, q) /\ Passed(p, logged[r] \cup sg, line[r])
  BY <1>2, <1>3, <1>6, <1>7, MoveIsPassed
<1>9. pending' \in [Calls -> Call \cup {NoCall}]
  BY DEF RaceInv, RacesTypeOK
<1> HIDE DEF p, sg
<1> QED
  BY <1>1, <1>4, <1>5, <1>8, <1>9, RaceInvTypes, WriteKeepsRaceInv

\* A return by decision or at Budget Finalization.
LEMMA BackRaces ==
  ASSUME RaceInv, NEW r \in Requests, Exists(r), NEW t,
         \/ t = Requestor
         \/ /\ InChain(row[r], row[r].currentStage) /\ InChain(row[r], t)
            /\ IndexOf(row[r], t) <= IndexOf(row[r], row[r].currentStage),
         NEW p \in {MovedTo(row[r], row[r], t), ReturnedTo(row[r], row[r], t)},
         Write(r, p),
         signed' = [signed EXCEPT ![r] = StandingAfterReturn(r, t)],
         UNCHANGED <<line, sapPostings, cycleVars>>,
         KeepDecisions, UNCHANGED pending
  PROVE  RaceInv'
<1> DEFINE q == row[r]
           sg == StandingAfterReturn(r, t)
<1>1. q \in Row /\ HasItem(q) /\ Passed(q, logged[r], line[r])
  BY RaceInvAt
<1>2. sg \in SUBSET ChainStages
  BY RaceInvTypes DEF StandingAfterReturn
<1>3. p \in Row /\ Follows(p, q) /\ Passed(p, logged[r] \cup sg, line[r])
  <2>1. CASE t = Requestor
    BY <1>1, <2>1, MoveBackIsPassed
  <2>2. CASE t # Requestor
    <3>1. InChain(q, t) /\ FlagKnown(q) /\ Required(q, t) \subseteq logged[r]
      BY <1>1, <2>2, EarlierRequires
    <3>2. SameForm(q, q) /\ Required(q, t) \subseteq logged[r] \cup sg
      BY <3>1 DEF SameForm
    <3> QED
      BY <1>1, <3>1, <3>2, MoveIsPassed
  <2> QED
    BY <2>1, <2>2
<1>4. pending' \in [Calls -> Call \cup {NoCall}]
  BY DEF RaceInv, RacesTypeOK
<1> HIDE DEF sg
<1>5. signed' = [signed EXCEPT ![r] = sg]
  BY DEF sg
<1> QED
  BY <1>2, <1>3, <1>4, <1>5, RaceInvTypes, WriteKeepsRaceInv

LEMMA ReturnsRace ==
  ASSUME RaceInv, NEW r \in Requests, NEW u \in Users,
         ReturnPrevious(u, r) \/ ReturnRequestor(u, r) \/ ReturnToStage(u, r),
         KeepDecisions, UNCHANGED pending
  PROVE  RaceInv'
<1> DEFINE q == row[r]
<1>1. Exists(r)
  BY DEF ReturnPrevious, ReturnRequestor, ReturnToStage, AtStep5
<1>2. HasChain(q)
  BY <1>1, RaceInvAt, RowColumns
<1>3. CASE ReturnRequestor(u, r)
  BY <1>1, <1>3, BackRaces DEF ReturnRequestor, SendBack
<1>4. CASE ReturnPrevious(u, r)
  <2> DEFINE t == PreviousStageBefore(q, q.currentStage)
  <2>1. SendBack(r, t)
    BY <1>4 DEF ReturnPrevious
  <2>2. t = Requestor \/
        (InChain(q, q.currentStage) /\ InChain(q, t)
           /\ IndexOf(q, t) <= IndexOf(q, q.currentStage))
    BY <1>2, PreviousIsEarlier
  <2> HIDE DEF t
  <2> QED
    BY <1>1, <2>1, <2>2, BackRaces DEF SendBack
<1>5. CASE ReturnToStage(u, r)
  <2>1. q.currentStage = "BUDGET_OFFICER_REVIEW"
    BY <1>5 DEF ReturnToStage, AtStep5, MayActAtStep5
  <2>2. PICK t \in ReturnTargets(q) :
          /\ Write(r, ReturnedTo(q, q, t))
          /\ signed' = [signed EXCEPT ![r] = StandingAfterReturn(r, t)]
    BY <1>5 DEF ReturnToStage
  <2>3. t = Requestor \/
        (InChain(q, q.currentStage) /\ InChain(q, t)
           /\ IndexOf(q, t) <= IndexOf(q, q.currentStage))
    BY <1>2, <2>1, BudgetOfficerIsLast DEF ReturnTargets
  <2>4. UNCHANGED <<line, sapPostings, cycleVars>>
    BY <1>5 DEF ReturnToStage
  <2> QED
    BY <1>1, <2>2, <2>3, <2>4, BackRaces
<1> QED
  BY <1>3, <1>4, <1>5

\* The transaction of a finalization, on the row as it is.
LEMMA ApprovedIsPassed ==
  ASSUME NEW q \in Row, HasItem(q), FlagKnown(q),
         NEW lg, Whole(q) \subseteq lg, NEW ln, ln # NoLine
  PROVE  /\ Approved(q) \in Row /\ Follows(Approved(q), q)
         /\ Passed(Approved(q), lg, ln)
<1> DEFINE p == Approved(q)
<1>1. /\ p \in Row /\ p.currentStage = "APPROVED"
      /\ p.requestCategory = q.requestCategory /\ p.createdById = q.createdById
      /\ p.expenseLineItem = q.expenseLineItem
      /\ p.ownDeptInitiated = q.ownDeptInitiated
  BY WrittenRows DEF Approved, Row
<1> HIDE DEF p
<1>2. SameForm(p, q) /\ HasItem(p)
  BY <1>1, SameItem DEF SameForm
<1>3. Follows(p, q) /\ FlagKnown(p)
  BY <1>1, <1>2, FlagIsKept DEF Follows
<1>4. Whole(p) = Whole(q)
  BY <1>1, <1>2, <1>3, SameRequirements
<1>5. ~InReview(p)
  BY <1>1 DEF InReview, ChainStages
<1>6. Passed(p, lg, ln)
  BY <1>2, <1>3, <1>4, <1>5 DEF Passed
<1> QED
  BY <1>1, <1>3, <1>6 DEF p

\* At the Budget Officer's stage only that stage is missing.
LEMMA LastStageMissing ==
  ASSUME NEW q \in Row, NEW lg, NEW ln, Passed(q, lg, ln),
         q.currentStage = "BUDGET_OFFICER_REVIEW"
  PROVE  FlagKnown(q) /\ Whole(q) \subseteq lg \cup {"BUDGET_OFFICER_REVIEW"}
<1> DEFINE last == "BUDGET_OFFICER_REVIEW"
<1>1. InReview(q)
  BY DEF InReview, ChainStages
<1>2. /\ InChain(q, last)
      /\ StagesBefore(q, last) \cup {last} = {s \in ChainStages : InChain(q, s)}
  BY RowColumns, BudgetOfficerIsLast
<1>3. FlagKnown(q) /\ Required(q, last) \subseteq lg
  BY <1>1, <1>2 DEF Passed
<1> QED
  BY <1>2, <1>3 DEF Required, Whole

LEMMA PostingTyped ==
  ASSUME RaceInv, NEW r \in Requests, PostToSap(r)
  PROVE  sapPostings' \in [Requests -> 0 .. MaxPostings]
<1> DEFINE n == IF row[r].requestCategory = "NPC" THEN 0 ELSE 1
<1>1. sapPostings \in [Requests -> 0 .. MaxPostings] /\ MaxPostings \in Nat
  BY RequestsAssumption DEF RaceInv, RacesTypeOK, TypeOK
<1>2. /\ sapPostings[r] + n <= MaxPostings
      /\ sapPostings' = [sapPostings EXCEPT ![r] = @ + n]
  BY DEF PostToSap
<1>3. sapPostings[r] + n \in 0 .. MaxPostings
  BY <1>1, <1>2
<1> QED
  BY <1>1, <1>2, <1>3

LEMMA FinalAmountTyped ==
  ASSUME NEW q \in Row
  PROVE  FinalAmount(q) \in NetAmounts /\ FinalAmount(q) # NoLine
BY RowColumns, RequestsAssumption DEF FinalAmount, NetAmounts

\* Nothing is written but the call, if anything.
LEMMA NothingWrittenRaces ==
  ASSUME RaceInv, UNCHANGED <<row, line, signed, logged, cycleVars>>,
         sapPostings' \in [Requests -> 0 .. MaxPostings],
         pending' \in [Calls -> Call \cup {NoCall}],
         \A c \in Calls : pending'[c] \in {pending[c], NoCall}
  PROVE  RaceInv'
<1>1. ASSUME NEW c \in Calls, pending'[c] # NoCall
      PROVE  LET x == pending'[c].request
             IN  Exists(x) /\ Timely(pending'[c], row[x], logged'[x])
  <2>1. pending'[c] = pending[c] /\ Running(c)
    BY <1>1 DEF Running
  <2> QED
    BY <2>1, RaceInvAtCall DEF Target
<1>2. /\ signed' \in [Requests -> SUBSET ChainStages]
      /\ logged' \in [Requests -> SUBSET ChainStages]
      /\ \A r \in Requests : signed'[r] \subseteq logged'[r] /\ logged[r] \subseteq logged'[r]
  BY DEF RaceInv, RacesTypeOK, TypeOK
<1> QED
  BY <1>1, <1>2, CallsKeepRaceInv

LEMMA FinalizeRaces ==
  ASSUME RaceInv, NEW r \in Requests, NEW u \in Users, Finalize(u, r),
         KeepDecisions, UNCHANGED pending
  PROVE  RaceInv'
<1> DEFINE q == row[r]
           sg == signed[r] \cup {q.currentStage}
<1>1. /\ Exists(r) /\ q.currentStage = "BUDGET_OFFICER_REVIEW"
      /\ PostToSap(r) /\ UNCHANGED cycleVars
  BY DEF Finalize, AtStep5, MayActAtStep5
<1>2. q \in Row /\ HasItem(q) /\ Passed(q, logged[r], line[r])
  BY <1>1, RaceInvAt
<1>3. /\ sapPostings' \in [Requests -> 0 .. MaxPostings]
      /\ pending' \in [Calls -> Call \cup {NoCall}]
  BY <1>1, PostingTyped DEF RaceInv, RacesTypeOK
<1>4. CASE /\ Write(r, Approved(q))
           /\ line' = [line EXCEPT ![r] = FinalAmount(q)]
           /\ signed' = [signed EXCEPT ![r] = @ \cup {q.currentStage}]
  <2>1. sg \in SUBSET ChainStages /\ signed' = [signed EXCEPT ![r] = sg]
    BY <1>1, <1>4, RaceInvTypes DEF ChainStages
  <2>2. FlagKnown(q) /\ Whole(q) \subseteq logged[r] \cup sg
    BY <1>1, <1>2, LastStageMissing
  <2>3. FinalAmount(q) \in NetAmounts /\ FinalAmount(q) # NoLine
    BY <1>2, FinalAmountTyped
  <2>4. /\ Approved(q) \in Row /\ Follows(Approved(q), q)
        /\ Passed(Approved(q), logged[r] \cup sg, FinalAmount(q))
    BY <1>2, <2>2, <2>3, ApprovedIsPassed
  <2> HIDE DEF sg
  <2> QED
    BY <1>1, <1>3, <1>4, <2>1, <2>3, <2>4, WriteKeepsRaceInv
<1>5. CASE UNCHANGED <<row, line, signed>>
  <2>1. UNCHANGED logged
    BY <1>5 DEF KeepDecisions, RaceInv, RacesTypeOK
  <2> QED
    BY <1>1, <1>3, <1>5, <2>1, NothingWrittenRaces
<1> QED
  BY <1>4, <1>5 DEF Finalize

LEMMA MeanwhileKeepsRaceInv ==
  ASSUME RaceInv, Meanwhile
  PROVE  RaceInv'
<1>1. KeepDecisions /\ UNCHANGED pending
  BY DEF Meanwhile
<1>2. ASSUME NEW r \in Requests, NEW o \in Origins, Create(r, o) PROVE RaceInv'
  BY <1>1, <1>2, CreateRaces
<1>3. ASSUME NEW u \in Users, NEW r \in Requests, RequestStep(u, r) PROVE RaceInv'
  BY <1>1, <1>3, EditRaces, SubmitRaces, FormStepsRace, ApproveRaces, ReturnsRace,
     FinalizeRaces DEF RequestStep
<1> QED
  BY <1>2, <1>3 DEF Meanwhile

-----------------------------------------------------------------------------
(* The suspended calls.                                                     *)

\* The row a call remembers has the chain, the form and the stage of the one
\* it read.
LEMMA RememberedRow ==
  ASSUME NEW q \in Row, NEW kind, NEW to,
         kind \notin {"edit", "reassign", "cancel"},
         kind \in {"return", "returnToStage"} => to # Requestor
  PROVE  LET m == Remembered(kind, to, q)
         IN  /\ m \in Row /\ m.currentStage = q.currentStage
             /\ SameForm(m, q) /\ m.expenseLineItem = q.expenseLineItem
             /\ m.ownDeptInitiated = q.ownDeptInitiated
             /\ m.requiresCfoApproval = q.requiresCfoApproval
<1> DEFINE m == Remembered(kind, to, q)
           over == q.overLimit /\ kind = "submit"
           cut == IF kind = "finalize" THEN q.budgetCutAmount ELSE 0
<1>1. m = [q EXCEPT !.complete = TRUE, !.status = "IN_REVIEW", !.assigneeId = NoUser,
                    !.isOverBudget = FALSE, !.overLimit = over, !.budgetCutAmount = cut]
  BY DEF Remembered
<1>2. cut \in Cuts /\ over \in BOOLEAN /\ "IN_REVIEW" \in Statuses /\ NoUser \in MaybeUser
  BY RowColumns DEF Cuts, Statuses, MaybeUser
<1> HIDE DEF over, cut, m
<1>3. m \in Row
  BY <1>1, <1>2 DEF Row
<1>4. /\ m.currentStage = q.currentStage
      /\ m.requestCategory = q.requestCategory /\ m.createdById = q.createdById
      /\ m.expenseLineItem = q.expenseLineItem
      /\ m.ownDeptInitiated = q.ownDeptInitiated
      /\ m.requiresCfoApproval = q.requiresCfoApproval
  BY <1>1 DEF Row
<1> QED
  BY <1>3, <1>4 DEF SameForm, m

LEMMA RememberedType ==
  ASSUME NEW q \in Row, NEW kind, NEW to
  PROVE  Remembered(kind, to, q) \in Row \cup {NoRow}
<1>1. CASE \/ kind \in {"edit", "reassign", "cancel"}
           \/ kind \in {"return", "returnToStage"} /\ to = Requestor
  BY <1>1 DEF Remembered
<1>2. CASE /\ kind \notin {"edit", "reassign", "cancel"}
           /\ kind \in {"return", "returnToStage"} => to # Requestor
  BY <1>2, RememberedRow
<1> QED
  BY <1>1, <1>2

\* The chain a call remembers requires what the one it read did.
LEMMA RememberedRequires ==
  ASSUME NEW q \in Row, HasItem(q), NEW kind, NEW to,
         kind \notin {"edit", "reassign", "cancel"},
         kind \in {"return", "returnToStage"} => to # Requestor
  PROVE  LET m == Remembered(kind, to, q)
         IN  /\ SameForm(m, q) /\ HasItem(m) /\ (FlagKnown(q) => FlagKnown(m))
             /\ \A s : InChain(m, s) <=> InChain(q, s)
             /\ \A s : Required(m, s) = Required(q, s)
<1> DEFINE m == Remembered(kind, to, q)
<1>1. /\ m \in Row /\ m.currentStage = q.currentStage
      /\ SameForm(m, q) /\ m.expenseLineItem = q.expenseLineItem
      /\ m.ownDeptInitiated = q.ownDeptInitiated
      /\ m.requiresCfoApproval = q.requiresCfoApproval
  BY RememberedRow
<1> HIDE DEF m
<1>2. HasItem(m)
  BY <1>1, SameItem DEF SameForm
<1>3. Follows(m, q) /\ FormStages(m) = FormStages(q)
  BY <1>1, <1>2, FlagIsKept, SameFormStages
<1>4. m.requestCategory = q.requestCategory
  BY <1>1 DEF SameForm
<1>5. /\ \A s : InChain(m, s) <=> InChain(q, s)
      /\ \A s : StagesBefore(m, s) = StagesBefore(q, s)
  BY <1>1, <1>4, SameChain
<1> QED
  BY <1>1, <1>2, <1>3, <1>5 DEF Follows, Required, m

\* A call that starts is timely.
LEMMA StartedIsTimely ==
  ASSUME NEW q \in Row, HasItem(q), NEW lg, NEW ln, Passed(q, lg, ln),
         NEW u, NEW kind, NEW to, NEW amount, MayStart(u, q, kind, to, amount),
         NEW k, k.kind = kind, k.to = to, k.amount = amount, k.recorded = FALSE,
         k.seen = Remembered(kind, to, q)
  PROVE  Timely(k, q, lg)
<1> DEFINE stage == q.currentStage
<1>1. HasChain(q)
  BY RowColumns
<1>2. k.kind = "reassign" => k.to \in Users
  BY DEF MayStart
<1>3. UsesRow(k) => /\ kind \notin {"edit", "reassign", "cancel"}
                    /\ kind \in {"return", "returnToStage"} => to # Requestor
  BY DEF UsesRow, Moves
<1>4. ASSUME UsesRow(k)
      PROVE  k.seen \in Row /\ SameForm(k.seen, q) /\ HasItem(k.seen)
  BY <1>3, <1>4, RememberedRow, RememberedRequires
<1>5. ASSUME Moves(k)
      PROVE  /\ FlagKnown(q) /\ FlagKnown(k.seen)
             /\ k.seen.currentStage \in ChainStages /\ InChain(k.seen, k.to)
             /\ Required(k.seen, k.to) \subseteq
                  lg \cup {s \in {k.seen.currentStage} : k.kind = "approve" /\ ~k.recorded}
  <2>1. /\ kind \notin {"edit", "reassign", "cancel"}
        /\ kind \in {"return", "returnToStage"} => to # Requestor
    BY <1>3, <1>5 DEF UsesRow
  <2>2. /\ k.seen.currentStage = stage
        /\ FlagKnown(q) => FlagKnown(k.seen)
        /\ InChain(k.seen, to) <=> InChain(q, to)
        /\ Required(k.seen, to) = Required(q, to)
    BY <2>1, RememberedRow, RememberedRequires
  <2>3. CASE kind = "approve"
    <3>1. HasNext(q, stage) /\ to = NextStageAfter(q, stage)
      BY <2>3 DEF MayStart, MayApprove
    <3>2. /\ InReview(q) /\ FlagKnown(q) /\ InChain(q, to)
          /\ Required(q, to) \subseteq lg \cup {stage}
      BY <3>1, NextRequires
    <3> QED
      BY <2>2, <2>3, <3>2 DEF InReview
  <2>4. CASE kind = "return" /\ to # Requestor
    <3>1. to = PreviousStageBefore(q, stage)
      BY <2>4 DEF MayStart
    <3>2. /\ InChain(q, stage) /\ InChain(q, to)
          /\ IndexOf(q, to) <= IndexOf(q, stage)
      BY <2>4, <3>1, RowColumns, PreviousIsEarlier
    <3>3. InReview(q) /\ FlagKnown(q) /\ Required(q, to) \subseteq lg
      BY <3>2, EarlierRequires
    <3> QED
      BY <2>2, <2>4, <3>2, <3>3 DEF InReview
  <2>5. CASE kind = "returnToStage" /\ to # Requestor
    <3>1. stage = "BUDGET_OFFICER_REVIEW" /\ to \in ReturnTargets(q)
      BY <2>5 DEF MayStart, MayActAtStep5
    <3>2. /\ InChain(q, stage) /\ InChain(q, to)
          /\ IndexOf(q, to) <= IndexOf(q, stage)
      BY <1>1, <2>5, <3>1, BudgetOfficerIsLast DEF ReturnTargets
    <3>3. InReview(q) /\ FlagKnown(q) /\ Required(q, to) \subseteq lg
      BY <3>2, EarlierRequires
    <3> QED
      BY <2>2, <2>5, <3>2, <3>3 DEF InReview
  <2> QED
    BY <1>5, <2>3, <2>4, <2>5 DEF Moves
<1>6. ASSUME k.kind = "finalize"
      PROVE  FlagKnown(q) /\ Whole(q) \subseteq lg \cup {"BUDGET_OFFICER_REVIEW"}
  <2>1. stage = "BUDGET_OFFICER_REVIEW"
    BY <1>6 DEF MayStart, MayActAtStep5
  <2> QED
    BY <2>1, LastStageMissing
<1> QED
  BY <1>2, <1>4, <1>5, <1>6 DEF Timely

LEMMA StartRaces ==
  ASSUME RaceInv, NEW c \in Calls, NEW u \in Users, NEW r \in Requests, Start(c, u, r)
  PROVE  RaceInv'
<1> DEFINE q == row[r]
<1>1. Exists(r) /\ UNCHANGED <<vars, logged>>
  BY DEF Start
<1>2. PICK kind \in LateKinds, to \in ChainStages \cup {Requestor} \cup Users, amount \in Cuts :
        /\ MayStart(u, q, kind, to, amount)
        /\ pending' = [pending EXCEPT ![c] =
             [kind |-> kind, request |-> r, seen |-> Remembered(kind, to, q),
              to |-> to, amount |-> amount, recorded |-> FALSE]]
  BY DEF Start
<1> DEFINE k == [kind |-> kind, request |-> r, seen |-> Remembered(kind, to, q),
                 to |-> to, amount |-> amount, recorded |-> FALSE]
<1>3. q \in Row /\ HasItem(q) /\ Passed(q, logged[r], line[r])
  BY <1>1, RaceInvAt
<1>4. k \in Call
  BY <1>3, RememberedType, RacesAssumption DEF Call
<1>5. Timely(k, q, logged[r]) /\ k.request = r
  BY <1>2, <1>3, StartedIsTimely
<1> HIDE DEF k
<1>6. pending' = [pending EXCEPT ![c] = k]
  BY <1>2 DEF k
<1>7. pending \in [Calls -> Call \cup {NoCall}]
  BY DEF RaceInv, RacesTypeOK
<1>8. pending' \in [Calls -> Call \cup {NoCall}]
  BY <1>4, <1>6, <1>7
<1>9. ASSUME NEW d \in Calls, pending'[d] # NoCall
      PROVE  LET x == pending'[d].request
             IN  Exists(x) /\ Timely(pending'[d], row[x], logged'[x])
  <2>1. CASE d = c
    BY <1>1, <1>5, <1>6, <1>7, <2>1
  <2>2. CASE d # c
    <3>1. pending'[d] = pending[d] /\ Running(d)
      BY <1>6, <1>7, <1>9, <2>2 DEF Running
    <3> QED
      BY <1>1, <3>1, RaceInvAtCall DEF Target
  <2> QED
    BY <2>1, <2>2
<1>10. /\ UNCHANGED <<row, line, signed, sapPostings, cycleVars, logged>>
       /\ signed' \in [Requests -> SUBSET ChainStages]
       /\ logged' \in [Requests -> SUBSET ChainStages]
       /\ \A x \in Requests : signed'[x] \subseteq logged'[x] /\ logged[x] \subseteq logged'[x]
       /\ sapPostings' \in [Requests -> 0 .. MaxPostings]
  BY <1>1 DEF RaceInv, RacesTypeOK, TypeOK, vars, cycleVars
<1> QED
  BY <1>8, <1>9, <1>10, CallsKeepRaceInv

\* The first statement of a call: its decision or its posting.
LEMMA RecordedIsTimely ==
  ASSUME NEW k \in Call, NEW q \in Row, NEW lg, NEW lg2, lg \subseteq lg2,
         Timely(k, q, lg), k.kind = "approve" => k.seen.currentStage \in lg2
  PROVE  /\ [k EXCEPT !.recorded = TRUE] \in Call
         /\ [k EXCEPT !.recorded = TRUE].request = k.request
         /\ Timely([k EXCEPT !.recorded = TRUE], q, lg2)
<1> DEFINE n == [k EXCEPT !.recorded = TRUE]
<1>1. /\ n \in Call /\ n.request = k.request /\ n.kind = k.kind /\ n.to = k.to
      /\ n.seen = k.seen /\ n.amount = k.amount
  BY DEF Call
<1> HIDE DEF n
<1>2. (Moves(n) <=> Moves(k)) /\ (UsesRow(n) <=> UsesRow(k))
  BY <1>1 DEF Moves, UsesRow
<1>3. Moves(k) => Required(k.seen, k.to) \subseteq lg2
  BY DEF Timely
<1>4. k.kind = "finalize" =>
        FlagKnown(q) /\ Whole(q) \subseteq lg2 \cup {"BUDGET_OFFICER_REVIEW"}
  BY DEF Timely
<1>5. Timely(n, q, lg2)
  BY <1>1, <1>2, <1>3, <1>4 DEF Timely
<1> QED
  BY <1>1, <1>5 DEF n

LEMMA RecordRaces ==
  ASSUME RaceInv, NEW c \in Calls, Running(c),
         NEW sg \in SUBSET ChainStages,
         pending[c].kind = "approve" => Seen(c).currentStage \in sg,
         signed' = [signed EXCEPT ![Target(c)] = sg],
         pending' = [pending EXCEPT ![c].recorded = TRUE],
         KeepDecisions,
         sapPostings' \in [Requests -> 0 .. MaxPostings],
         UNCHANGED <<row, line, cycleVars>>
  PROVE  RaceInv'
<1> DEFINE r == Target(c)
           k == pending[c]
           n == [k EXCEPT !.recorded = TRUE]
<1>1. k \in Call /\ r \in Requests /\ Exists(r) /\ Timely(k, row[r], logged[r])
  BY RaceInvAtCall
<1>2. /\ signed \in [Requests -> SUBSET ChainStages]
      /\ logged \in [Requests -> SUBSET ChainStages]
      /\ pending \in [Calls -> Call \cup {NoCall}]
      /\ \A x \in Requests : signed[x] \subseteq logged[x]
  BY DEF RaceInv, RacesTypeOK, TypeOK
<1>3. logged' = [logged EXCEPT ![r] = @ \cup sg]
  BY <1>1, DecisionsAdded
<1>4. row[r] \in Row
  BY <1>1, RaceInvAt
<1>5. logged'[r] = logged[r] \cup sg
  BY <1>1, <1>2, <1>3
<1>6. n \in Call /\ n.request = r /\ Timely(n, row[r], logged'[r])
  BY <1>1, <1>4, <1>5, RecordedIsTimely DEF Target, Seen
<1>7. pending' = [pending EXCEPT ![c] = n]
  BY <1>2
<1> HIDE DEF n, k, r
<1>8. pending' \in [Calls -> Call \cup {NoCall}]
  BY <1>2, <1>6, <1>7
<1>9. /\ signed' \in [Requests -> SUBSET ChainStages]
      /\ logged' \in [Requests -> SUBSET ChainStages]
      /\ \A x \in Requests : signed'[x] \subseteq logged'[x] /\ logged[x] \subseteq logged'[x]
  BY <1>1, <1>2, <1>3 DEF r
<1>10. ASSUME NEW d \in Calls, pending'[d] # NoCall
       PROVE  LET x == pending'[d].request
              IN  Exists(x) /\ Timely(pending'[d], row[x], logged'[x])
  <2>1. CASE d = c
    BY <1>1, <1>2, <1>6, <1>7, <2>1
  <2>2. CASE d # c
    <3>1. pending'[d] = pending[d] /\ Running(d)
      BY <1>2, <1>7, <1>10, <2>2 DEF Running
    <3>2. Target(d) \in Requests
      BY <3>1, RaceInvAtCall
    <3>3. Exists(Target(d)) /\ Timely(pending[d], row[Target(d)], logged'[Target(d)])
      BY <1>9, <3>1, <3>2, CallStaysTimely
    <3> QED
      BY <3>1, <3>3 DEF Target
  <2> QED
    BY <2>1, <2>2
<1> QED
  BY <1>8, <1>9, <1>10, CallsKeepRaceInv

LEMMA DecideRaces ==
  ASSUME RaceInv, NEW c \in Calls, Decide(c)
  PROVE  RaceInv'
<1> DEFINE r == Target(c)
           sg == IF pending[c].kind = "approve" THEN signed[r] \cup {Seen(c).currentStage}
                 ELSE IF pending[c].to = Requestor THEN {}
                 ELSE signed[r] \cap StagesBefore(Seen(c), pending[c].to)
<1>1. /\ Running(c) /\ KeepDecisions
      /\ signed' = [signed EXCEPT ![r] = sg]
      /\ pending' = [pending EXCEPT ![c].recorded = TRUE]
      /\ UNCHANGED <<row, line, sapPostings, cycleVars>>
  BY DEF Decide
<1>2. r \in Requests /\ Timely(pending[c], row[r], logged[r])
  BY <1>1, RaceInvAtCall
<1>3. pending[c].kind = "approve" => Seen(c).currentStage \in ChainStages
  BY <1>2 DEF Timely, Moves, Seen
<1>4. sg \in SUBSET ChainStages
  BY <1>2, <1>3, RaceInvTypes
<1>5. pending[c].kind = "approve" => Seen(c).currentStage \in sg
  OBVIOUS
<1>6. sapPostings' \in [Requests -> 0 .. MaxPostings]
  BY <1>1, <1>2, RaceInvTypes
<1> HIDE DEF sg
<1> QED
  BY <1>1, <1>4, <1>5, <1>6, RecordRaces

LEMMA PostRaces ==
  ASSUME RaceInv, NEW c \in Calls, Post(c)
  PROVE  RaceInv'
<1> DEFINE r == Target(c)
<1>1. /\ Running(c) /\ pending[c].kind = "finalize" /\ PostToSap(r)
      /\ pending' = [pending EXCEPT ![c].recorded = TRUE]
      /\ UNCHANGED <<row, line, signed, cycleVars, logged>>
  BY DEF Post
<1>2. r \in Requests
  BY <1>1, RaceInvAtCall
<1>3. /\ signed[r] \in SUBSET ChainStages
      /\ signed' = [signed EXCEPT ![r] = signed[r]]
      /\ sapPostings' \in [Requests -> 0 .. MaxPostings]
      /\ KeepDecisions
  BY <1>1, <1>2, RaceInvTypes, PostingTyped, NoDecisions
<1> QED
  BY <1>1, <1>3, RecordRaces

\* The write of a call, into the row as it is by then.
LEMMA UpdatedIsPassed ==
  ASSUME RaceInv, NEW c \in Calls, Running(c), pending[c].kind # "finalize",
         pending[c].kind \in Decisions => pending[c].recorded,
         NEW p \in Updated(c, row[Target(c)])
  PROVE  LET r == Target(c)
         IN  /\ p \in Row /\ Follows(p, row[r])
             /\ \A lg : logged[r] \subseteq lg => Passed(p, lg, line[r])
<1> DEFINE r == Target(c)
           k == pending[c]
           q == row[r]
<1>1. k \in Call /\ r \in Requests /\ Exists(r) /\ Timely(k, q, logged[r])
  BY RaceInvAtCall
<1>2. q \in Row /\ HasItem(q) /\ Passed(q, logged[r], line[r])
  BY <1>1, RaceInvAt
<1>3. k.kind \in Kinds /\ k.amount \in Cuts
  BY <1>1 DEF Call
<1>4. UsesRow(k) => k.seen \in Row /\ SameForm(k.seen, q) /\ HasItem(k.seen)
  BY <1>1 DEF Timely
<1>5. CASE k.kind = "submit"
  <2>1. p = Submitted(q, k.seen)
    BY <1>5 DEF Updated, Seen
  <2>2. k.seen \in Row /\ SameForm(k.seen, q) /\ HasItem(k.seen)
    BY <1>4, <1>5 DEF UsesRow
  <2>3. Follows(q, q)
    BY <1>2 DEF Follows, SameForm
  <2> QED
    BY <1>2, <2>1, <2>2, <2>3, SubmittedIsPassed
<1>6. CASE k.kind \in {"edit", "reassign", "cut"}
  <2>1. \/ \E u \in MaybeUser : p = [q EXCEPT !.assigneeId = u]
        \/ p \in EditedForms(q)
        \/ \E a \in Cuts : p = CutBy(q, k.seen, a)
    BY <1>1, <1>3, <1>6 DEF Updated, Timely, Seen, MaybeUser
  <2>2. p \in Row /\ SameCourse(p, q) /\ HasItem(p)
    BY <1>2, <2>1, FormWritesKeepCourse
  <2> QED
    BY <1>2, <2>2, SameCourseIsPassed
<1>7. CASE k.kind = "cancel"
  <2>1. p = Cancelled(q)
    BY <1>7 DEF Updated
  <2> QED
    BY <1>2, <2>1, CancelledIsPassed
<1>8. CASE k.kind \in Decisions
  <2>1. p \in {MovedTo(q, k.seen, k.to), ReturnedTo(q, k.seen, k.to)}
    BY <1>8 DEF Updated, Seen, Decisions
  <2>2. CASE Moves(k)
    <3>1. k.seen \in Row /\ SameForm(k.seen, q) /\ HasItem(k.seen)
      BY <1>4, <2>2 DEF UsesRow
    <3>2. /\ FlagKnown(q) /\ FlagKnown(k.seen) /\ InChain(k.seen, k.to)
          /\ Required(k.seen, k.to) \subseteq logged[r]
      BY <1>1, <1>8, <2>2 DEF Timely, Decisions
    <3> DEFINE seen == k.seen
               t == k.to
    <3> HIDE DEF k, seen, t
    <3>3. ASSUME NEW lg, logged[r] \subseteq lg
          PROVE  p \in Row /\ Follows(p, q) /\ Passed(p, lg, line[r])
      <4>1. Required(seen, t) \subseteq lg
        BY <3>2, <3>3 DEF seen, t
      <4>2. p \in {MovedTo(q, seen, t), ReturnedTo(q, seen, t)}
        BY <2>1 DEF seen, t
      <4>3. /\ seen \in Row /\ SameForm(seen, q) /\ HasItem(seen)
            /\ FlagKnown(q) /\ FlagKnown(seen) /\ InChain(seen, t)
        BY <3>1, <3>2 DEF seen, t
      <4> QED
        BY <1>2, <3>3, <4>1, <4>2, <4>3, MoveIsPassed
    <3> QED
      BY <3>3
  <2>3. CASE ~Moves(k)
    <3>1. k.to = Requestor
      BY <1>8, <2>3 DEF Moves, Decisions
    <3>2. p \in {MovedTo(q, k.seen, Requestor), ReturnedTo(q, k.seen, Requestor)}
      BY <2>1, <3>1
    <3>3. \A lg : logged[r] \subseteq lg => p \in Row /\ Follows(p, q) /\ Passed(p, lg, line[r])
      BY <1>2, <3>2, MoveBackIsPassed
    <3> QED
      BY <3>3
  <2> QED
    BY <2>2, <2>3
<1> QED
  BY <1>3, <1>5, <1>6, <1>7, <1>8 DEF Kinds, Decisions

LEMMA CallFinishes ==
  ASSUME RaceInv, NEW c \in Calls, Finish(c)
  PROVE  /\ pending' \in [Calls -> Call \cup {NoCall}]
         /\ \A d \in Calls : pending'[d] \in {pending[d], NoCall}
BY DEF RaceInv, RacesTypeOK, Finish

LEMMA UpdateRaces ==
  ASSUME RaceInv, NEW c \in Calls, Update(c)
  PROVE  RaceInv'
<1> DEFINE r == Target(c)
<1>1. PICK p \in Updated(c, row[r]) :
        /\ Running(c) /\ pending[c].kind # "finalize"
        /\ pending[c].kind \in Decisions => pending[c].recorded
        /\ Write(r, p) /\ Finish(c)
        /\ UNCHANGED <<line, signed, sapPostings, cycleVars, logged>>
  BY DEF Update
<1>2. r \in Requests /\ Exists(r)
  BY <1>1, RaceInvAtCall
<1>3. /\ p \in Row /\ Follows(p, row[r])
      /\ \A lg : logged[r] \subseteq lg => Passed(p, lg, line[r])
  BY <1>1, UpdatedIsPassed
<1>4. KeepDecisions
  BY <1>1, NoDecisions
<1>5. /\ pending' \in [Calls -> Call \cup {NoCall}]
      /\ \A d \in Calls : pending'[d] \in {pending[d], NoCall}
  BY <1>1, CallFinishes
<1> HIDE DEF r
<1> QED
  BY <1>1, <1>2, <1>3, <1>4, <1>5, PlainWriteKeepsRaceInv

LEMMA LateFinalizeRaces ==
  ASSUME RaceInv, NEW c \in Calls, LateFinalize(c)
  PROVE  RaceInv'
<1> DEFINE r == Target(c)
           q == row[r]
           k == pending[c]
           sg == signed[r] \cup {"BUDGET_OFFICER_REVIEW"}
<1>1. /\ Running(c) /\ k.kind = "finalize" /\ Finish(c) /\ KeepDecisions
      /\ UNCHANGED <<sapPostings, cycleVars>>
  BY DEF LateFinalize
<1>2. r \in Requests /\ Exists(r) /\ Timely(k, q, logged[r])
  BY <1>1, RaceInvAtCall
<1>3. q \in Row /\ HasItem(q)
  BY <1>2, RaceInvAt
<1>4. /\ pending' \in [Calls -> Call \cup {NoCall}]
      /\ \A d \in Calls : pending'[d] \in {pending[d], NoCall}
  BY <1>1, CallFinishes
<1>5. sapPostings' \in [Requests -> 0 .. MaxPostings]
  BY <1>1, <1>2, RaceInvTypes
<1>6. CASE /\ Write(r, Approved(q))
           /\ line' = [line EXCEPT ![r] = FinalAmount(Seen(c))]
           /\ signed' = [signed EXCEPT ![r] = @ \cup {"BUDGET_OFFICER_REVIEW"}]
  <2> DEFINE ln == FinalAmount(Seen(c))
  <2>1. sg \in SUBSET ChainStages /\ signed' = [signed EXCEPT ![r] = sg]
    BY <1>2, <1>6, RaceInvTypes DEF ChainStages
  <2>2. Seen(c) \in Row
    BY <1>1, <1>2 DEF Timely, UsesRow, Seen
  <2>3. ln \in NetAmounts /\ ln # NoLine
    BY <2>2, FinalAmountTyped
  <2>4. FlagKnown(q) /\ Whole(q) \subseteq logged[r] \cup sg
    BY <1>1, <1>2 DEF Timely
  <2>5. /\ Approved(q) \in Row /\ Follows(Approved(q), q)
        /\ Passed(Approved(q), logged[r] \cup sg, ln)
    BY <1>3, <2>3, <2>4, ApprovedIsPassed
  <2>6. Write(r, Approved(q)) /\ line' = [line EXCEPT ![r] = ln]
    BY <1>6
  <2> HIDE DEF sg, ln, r, q
  <2> QED
    BY <1>1, <1>2, <1>4, <1>5, <2>1, <2>3, <2>5, <2>6, WriteKeepsRaceInv DEF q
<1>7. CASE UNCHANGED <<row, line, signed>>
  <2>1. UNCHANGED logged
    BY <1>1, <1>7 DEF KeepDecisions, RaceInv, RacesTypeOK
  <2> QED
    BY <1>1, <1>4, <1>5, <1>7, <2>1, NothingWrittenRaces
<1> QED
  BY <1>6, <1>7 DEF LateFinalize

LEMMA CrashRaces ==
  ASSUME RaceInv, Crash
  PROVE  RaceInv'
<1>1. /\ UNCHANGED <<row, line, signed, sapPostings, logged, cycleVars>>
      /\ pending' = [c \in Calls |-> NoCall]
  BY DEF Crash, vars, cycleVars
<1>2. sapPostings' \in [Requests -> 0 .. MaxPostings]
  BY <1>1 DEF RaceInv, RacesTypeOK, TypeOK
<1> QED
  BY <1>1, <1>2, NothingWrittenRaces

LEMMA RacesStepKeepsInv == RaceInv /\ [RacesNext]_raceVars => RaceInv'
<1> SUFFICES ASSUME RaceInv, [RacesNext]_raceVars PROVE RaceInv'
  OBVIOUS
<1>1. CASE Meanwhile
  BY <1>1, MeanwhileKeepsRaceInv
<1>2. ASSUME NEW c \in Calls, NEW u \in Users, NEW r \in Requests, Start(c, u, r)
      PROVE  RaceInv'
  BY <1>2, StartRaces
<1>3. ASSUME NEW c \in Calls, Decide(c) \/ Post(c) \/ Update(c) \/ LateFinalize(c)
      PROVE  RaceInv'
  BY <1>3, DecideRaces, PostRaces, UpdateRaces, LateFinalizeRaces
<1>4. CASE Crash
  BY <1>4, CrashRaces
<1>5. CASE UNCHANGED raceVars
  <2>1. /\ UNCHANGED <<row, line, signed, logged, cycleVars, sapPostings, pending>>
        /\ sapPostings \in [Requests -> 0 .. MaxPostings]
        /\ pending \in [Calls -> Call \cup {NoCall}]
    BY <1>5 DEF raceVars, vars, cycleVars, RaceInv, RacesTypeOK, TypeOK
  <2> QED
    BY <2>1, NothingWrittenRaces
<1> QED
  BY <1>1, <1>2, <1>3, <1>4, <1>5 DEF RacesNext

LEMMA RacesInitEstablishesInv == RacesInit => RaceInv
<1> SUFFICES ASSUME RacesInit PROVE RaceInv
  OBVIOUS
<1>1. TypeOK
  BY InitEstablishesInvariant DEF RacesInit, IInv
<1>2. \A r \in Requests : signed[r] = {} /\ line[r] = NoLine /\ ~Exists(r)
  BY DEF RacesInit, Init, Exists
<1>3. /\ pending \in [Calls -> Call \cup {NoCall}]
      /\ logged \in [Requests -> SUBSET ChainStages]
      /\ \A c \in Calls : ~Running(c)
  BY DEF RacesInit, Running
<1> QED
  BY <1>1, <1>2, <1>3 DEF RaceInv, RacesTypeOK

-----------------------------------------------------------------------------
(* SAP before the line: whoever may write the line of a request has posted   *)
(* it.                                                                      *)

Posted(r) == row[r].requestCategory # "NPC" => sapPostings[r] > 0

SapInv ==
  /\ \A r \in Requests : line[r] # NoLine => Posted(r)
  /\ \A c \in Calls :
       Running(c) /\ pending[c].kind = "finalize" /\ pending[c].recorded => Posted(Target(c))

\* No handler changes the category of a request.
LEMMA CategoryStays ==
  ASSUME RaceInv, [RacesNext]_raceVars, NEW x \in Requests, Exists(x)
  PROVE  row'[x].requestCategory = row[x].requestCategory
<1>1. TypeOK /\ row \in [Requests -> Row \cup {NoRow}] /\ row[x] \in Row
  BY RaceInvAt, RaceInvTypes DEF TypeOK
<1>2. \A p : Write(x, p) => row'[x] = p
  BY <1>1 DEF Write
<1>3. ASSUME NEW r \in Requests, NEW o \in Origins, Create(r, o)
      PROVE  row'[x] = row[x]
  BY <1>1, <1>3, CreateIsLocal
<1>4. ASSUME NEW u \in Users, NEW r \in Requests, RequestStep(u, r), r # x
      PROVE  row'[x] = row[x]
  BY <1>1, <1>4, StepIsLocal
<1>5. ASSUME NEW u \in Users, RequestStep(u, x)
      PROVE  row'[x].requestCategory = row[x].requestCategory
  <2> DEFINE q == row[x]
             Keeps(p) == p.requestCategory = q.requestCategory
  <2>1. CASE Edit(u, x)
    BY <1>1, <1>2, <2>1, EditWrites DEF SameCourse
  <2>2. CASE Submit(u, x)
    <3>1. PICK p \in Row : /\ SameCourse(p, q)
                           /\ Write(x, Submitted(p, p)) \/ Write(x, p)
      BY <1>1, <2>2, SubmitWrites
    <3>2. Submitted(p, p).requestCategory = p.requestCategory
      BY DEF Submitted, Row
    <3> QED
      BY <1>2, <3>1, <3>2 DEF SameCourse
  <2>3. \A seen, stage : Keeps(MovedTo(q, seen, stage)) /\ Keeps(ReturnedTo(q, seen, stage))
    BY <1>1 DEF MovedTo, ReturnedTo, Row
  <2>4. CASE Approve(u, x) \/ ReturnPrevious(u, x) \/ ReturnRequestor(u, x)
             \/ ReturnToStage(u, x)
    BY <1>2, <2>3, <2>4 DEF Approve, ReturnPrevious, ReturnRequestor, SendBack, ReturnToStage
  <2>5. CASE Cancel(u, x) \/ BudgetCut(u, x) \/ \E to \in Users : Reassign(u, x, to)
    BY <1>1, <1>2, <2>5 DEF Cancel, Cancelled, BudgetCut, CutBy, Reassign, Row
  <2>6. CASE Finalize(u, x)
    BY <1>1, <1>2, <2>6 DEF Finalize, Approved, Row
  <2> QED
    BY <1>5, <2>1, <2>2, <2>4, <2>5, <2>6 DEF RequestStep
<1>6. ASSUME NEW c \in Calls, NEW u \in Users, NEW r \in Requests, Start(c, u, r)
      PROVE  row' = row
  BY <1>6 DEF Start, vars
<1>7. ASSUME NEW c \in Calls, Decide(c) \/ Post(c)
      PROVE  row' = row
  BY <1>7 DEF Decide, Post
<1>8. ASSUME NEW c \in Calls, Update(c)
      PROVE  row'[x].requestCategory = row[x].requestCategory
  <2> DEFINE r == Target(c)
  <2>1. PICK p \in Updated(c, row[r]) :
          /\ Running(c) /\ pending[c].kind # "finalize"
          /\ pending[c].kind \in Decisions => pending[c].recorded
          /\ Write(r, p)
    BY <1>8 DEF Update
  <2>2. p.requestCategory = row[r].requestCategory
    BY <2>1, UpdatedIsPassed DEF Follows, SameForm
  <2>3. r \in Requests
    BY <2>1, RaceInvAtCall
  <2> HIDE DEF r
  <2> QED
    BY <1>1, <2>1, <2>2, <2>3 DEF Write
<1>9. ASSUME NEW c \in Calls, LateFinalize(c)
      PROVE  row'[x].requestCategory = row[x].requestCategory
  <2>1. CASE Write(Target(c), Approved(row[Target(c)]))
    <3>1. Target(c) \in Requests /\ row[Target(c)] \in Row
      BY <1>9, RaceInvAtCall, RaceInvAt DEF LateFinalize
    <3>2. Approved(row[Target(c)]).requestCategory = row[Target(c)].requestCategory
      BY <3>1 DEF Approved, Row
    <3> QED
      BY <1>1, <2>1, <3>1, <3>2 DEF Write
  <2>2. CASE row' = row
    BY <2>2
  <2> QED
    BY <1>9, <2>1, <2>2 DEF LateFinalize
<1>10. CASE Crash \/ UNCHANGED raceVars
  BY <1>10 DEF Crash, raceVars, vars
<1> QED
  BY <1>3, <1>4, <1>5, <1>6, <1>7, <1>8, <1>9, <1>10 DEF RacesNext, Meanwhile

\* A posting counts, and is never taken back.
LEMMA PostingCounts ==
  ASSUME TypeOK, NEW r \in Requests, PostToSap(r)
  PROVE  /\ row[r].requestCategory # "NPC" => sapPostings'[r] > 0
         /\ \A x \in Requests : sapPostings'[x] >= sapPostings[x]
<1>1. sapPostings \in [Requests -> 0 .. MaxPostings] /\ MaxPostings \in Nat
  BY RequestsAssumption DEF TypeOK
<1>2. sapPostings' = [sapPostings EXCEPT ![r] =
                        @ + (IF row[r].requestCategory = "NPC" THEN 0 ELSE 1)]
  BY DEF PostToSap
<1> QED
  BY <1>1, <1>2

LEMMA PostingsStand ==
  ASSUME RaceInv, [RacesNext]_raceVars, NEW x \in Requests
  PROVE  sapPostings'[x] >= sapPostings[x]
<1>1. TypeOK /\ sapPostings[x] \in Int
  BY RaceInvTypes DEF TypeOK
<1>2. ASSUME NEW r \in Requests, PostToSap(r) PROVE sapPostings'[x] >= sapPostings[x]
  BY <1>1, <1>2, PostingCounts
<1>3. CASE Meanwhile
  <2>1. ASSUME NEW r \in Requests, NEW o \in Origins, Create(r, o)
        PROVE  sapPostings' = sapPostings
    BY <2>1 DEF Create
  <2>2. ASSUME NEW u \in Users, NEW r \in Requests, RequestStep(u, r), ~Finalize(u, r)
        PROVE  sapPostings' = sapPostings
    BY <2>2 DEF RequestStep, Edit, Submit, Cancel, Approve, ReturnPrevious, ReturnRequestor,
       SendBack, Reassign, BudgetCut, ReturnToStage
  <2>3. ASSUME NEW u \in Users, NEW r \in Requests, Finalize(u, r)
        PROVE  sapPostings'[x] >= sapPostings[x]
    BY <1>2, <2>3 DEF Finalize
  <2> QED
    BY <1>1, <1>3, <2>1, <2>2, <2>3 DEF Meanwhile
<1>4. ASSUME NEW c \in Calls, Post(c) PROVE sapPostings'[x] >= sapPostings[x]
  BY <1>2, <1>4, RaceInvAtCall DEF Post
<1>5. ASSUME NEW c \in Calls, Decide(c) \/ Update(c) \/ LateFinalize(c)
      PROVE  sapPostings'[x] >= sapPostings[x]
  BY <1>1, <1>5 DEF Decide, Update, LateFinalize
<1>6. ASSUME NEW c \in Calls, NEW u \in Users, NEW r \in Requests, Start(c, u, r)
      PROVE  sapPostings'[x] >= sapPostings[x]
  BY <1>1, <1>6 DEF Start, vars
<1>7. ASSUME Crash \/ UNCHANGED raceVars
      PROVE  sapPostings'[x] >= sapPostings[x]
  BY <1>1, <1>7 DEF Crash, raceVars, vars
<1> QED
  BY <1>3, <1>4, <1>5, <1>6, <1>7 DEF RacesNext

LEMMA PostedStays ==
  ASSUME RaceInv, [RacesNext]_raceVars, NEW x \in Requests, Exists(x), Posted(x)
  PROVE  Posted(x)'
<1>1. sapPostings[x] \in Int /\ sapPostings'[x] \in Int
  BY RaceInvTypes, RacesStepKeepsInv DEF RaceInv, RacesTypeOK, TypeOK
<1> QED
  BY <1>1, CategoryStays, PostingsStand DEF Posted

\* The request just posted.
LEMMA PostingIsPosted ==
  ASSUME RaceInv, [RacesNext]_raceVars, NEW x \in Requests, Exists(x), PostToSap(x)
  PROVE  Posted(x)'
BY RaceInvTypes, CategoryStays, PostingCounts DEF Posted

LEMMA LinesArePosted ==
  ASSUME RaceInv, SapInv, [RacesNext]_raceVars, NEW x \in Requests, line'[x] # NoLine
  PROVE  Posted(x)'
<1>1. TypeOK
  BY RaceInvTypes
<1>2. CASE line[x] # NoLine
  <2>1. Exists(x) /\ Posted(x)
    BY <1>2 DEF RaceInv, SapInv
  <2> QED
    BY <2>1, PostedStays
<1>3. ASSUME NEW u \in Users, NEW r \in Requests, Finalize(u, r), line'[x] # line[x]
      PROVE  Posted(x)'
  <2>1. x = r /\ Exists(x) /\ PostToSap(x)
    BY <1>1, <1>3, StepIsLocal DEF RequestStep, Finalize, AtStep5
  <2> QED
    BY <2>1, PostingIsPosted
<1>4. ASSUME NEW c \in Calls, LateFinalize(c), line'[x] # line[x]
      PROVE  Posted(x)'
  <2>1. /\ Running(c) /\ pending[c].kind = "finalize" /\ pending[c].recorded
        /\ line' # line => line' = [line EXCEPT ![Target(c)] = FinalAmount(Seen(c))]
    BY <1>4 DEF LateFinalize
  <2>2. Target(c) \in Requests /\ Exists(Target(c))
    BY <2>1, RaceInvAtCall
  <2>3. x = Target(c)
    BY <1>1, <1>4, <2>1, <2>2 DEF TypeOK
  <2>4. Posted(x)
    BY <2>1, <2>3 DEF SapInv
  <2> QED
    BY <2>2, <2>3, <2>4, PostedStays
<1>5. ASSUME line'[x] # line[x]
      PROVE  \/ \E u \in Users, r \in Requests : Finalize(u, r)
             \/ \E c \in Calls : LateFinalize(c)
  <2>1. ASSUME NEW r \in Requests, NEW o \in Origins, Create(r, o) PROVE FALSE
    BY <1>5, <2>1 DEF Create
  <2>2. ASSUME NEW u \in Users, NEW r \in Requests, RequestStep(u, r)
        PROVE  Finalize(u, r)
    BY <1>5, <2>2 DEF RequestStep, Edit, Submit, Cancel, Approve, ReturnPrevious,
       ReturnRequestor, SendBack, Reassign, BudgetCut, ReturnToStage
  <2>3. ASSUME NEW c \in Calls, Decide(c) \/ Post(c) \/ Update(c) PROVE FALSE
    BY <1>5, <2>3 DEF Decide, Post, Update
  <2>4. ASSUME NEW c \in Calls, NEW u \in Users, NEW r \in Requests, Start(c, u, r)
        PROVE  FALSE
    BY <1>5, <2>4 DEF Start, vars
  <2>5. ~Crash /\ ~UNCHANGED raceVars
    BY <1>5 DEF Crash, raceVars, vars
  <2> QED
    BY <2>1, <2>2, <2>3, <2>4, <2>5 DEF RacesNext, Meanwhile
<1> QED
  BY <1>2, <1>3, <1>4, <1>5

LEMMA PostersArePosted ==
  ASSUME RaceInv, SapInv, [RacesNext]_raceVars, NEW d \in Calls,
         pending'[d] # NoCall, pending'[d].kind = "finalize", pending'[d].recorded,
         NEW x \in Requests, x = pending'[d].request
  PROVE  Posted(x)'
<1>1. pending \in [Calls -> Call \cup {NoCall}]
  BY DEF RaceInv, RacesTypeOK
<1>2. CASE pending'[d] = pending[d]
  <2>1. /\ Running(d) /\ pending[d].kind = "finalize" /\ pending[d].recorded
        /\ x = Target(d)
    BY <1>2 DEF Running, Target
  <2>2. Exists(x) /\ Posted(x)
    BY <2>1, RaceInvAtCall DEF SapInv
  <2> QED
    BY <2>2, PostedStays
<1>3. ASSUME NEW c \in Calls, Post(c), pending'[d] # pending[d]
      PROVE  Posted(x)'
  <2>1. /\ d = c /\ Running(d) /\ PostToSap(Target(d))
        /\ pending' = [pending EXCEPT ![d] = [pending[d] EXCEPT !.recorded = TRUE]]
    BY <1>1, <1>3 DEF Post
  <2>2. pending[d] \in Call /\ Exists(Target(d))
    BY <2>1, RaceInvAtCall
  <2>3. x = Target(d)
    BY <1>1, <2>1, <2>2 DEF Call, Target
  <2> QED
    BY <2>1, <2>2, <2>3, PostingIsPosted
<1>4. ASSUME NEW c \in Calls, Decide(c)
      PROVE  pending'[d] = pending[d]
  <2>1. /\ pending' = [pending EXCEPT ![c] = [pending[c] EXCEPT !.recorded = TRUE]]
        /\ Running(c) /\ pending[c].kind # "finalize"
    BY <1>1, <1>4 DEF Decide, Decisions
  <2>2. pending[c] \in Call
    BY <2>1, RaceInvAtCall
  <2>3. d # c
    BY <1>1, <2>1, <2>2 DEF Call
  <2> QED
    BY <1>1, <2>1, <2>3
<1>5. ASSUME NEW c \in Calls, NEW u \in Users, NEW r \in Requests, Start(c, u, r)
      PROVE  pending'[d] = pending[d]
  <2>1. PICK k : pending' = [pending EXCEPT ![c] = k] /\ k.recorded = FALSE
    BY <1>5 DEF Start
  <2> QED
    BY <1>1, <2>1
<1>6. ASSUME NEW c \in Calls, Update(c) \/ LateFinalize(c)
      PROVE  pending'[d] = pending[d]
  BY <1>1, <1>6 DEF Update, LateFinalize, Finish
<1>7. CASE Meanwhile \/ Crash \/ UNCHANGED raceVars
  BY <1>1, <1>2, <1>7 DEF Meanwhile, Crash, raceVars
<1> QED
  BY <1>2, <1>3, <1>4, <1>5, <1>6, <1>7 DEF RacesNext

LEMMA StepKeepsSapInv == RaceInv /\ SapInv /\ [RacesNext]_raceVars => SapInv'
<1> SUFFICES ASSUME RaceInv, SapInv, [RacesNext]_raceVars PROVE SapInv'
  OBVIOUS
<1>1. ASSUME NEW x \in Requests, line'[x] # NoLine PROVE Posted(x)'
  BY <1>1, LinesArePosted
<1>2. ASSUME NEW d \in Calls, pending'[d] # NoCall, pending'[d].kind = "finalize",
             pending'[d].recorded
      PROVE  /\ pending'[d].request \in Requests
             /\ \A x \in Requests : x = pending'[d].request => Posted(x)'
  <2>1. pending' \in [Calls -> Call \cup {NoCall}]
    BY RacesStepKeepsInv DEF RaceInv, RacesTypeOK
  <2>2. pending'[d].request \in Requests
    BY <1>2, <2>1 DEF Call
  <2> QED
    BY <1>2, <2>2, PostersArePosted
<1> QED
  BY <1>1, <1>2 DEF SapInv, Running, Target, Posted

-----------------------------------------------------------------------------
(* Theorems.                                                                *)

\* The inductive invariant of the overlapping handlers: every row has passed
\* what its place in its chain presupposes, and every suspended call will
\* still be right about it when it writes.
THEOREM RaceInvHolds == RacesSpec => []RaceInv
<1> QED
  BY RacesInitEstablishesInv, RacesStepKeepsInv, PTL DEF RacesSpec

\* The columns keep their types when calls overlap.
THEOREM RacesTypeCorrect == RacesSpec => []RacesTypeOK
<1>1. RaceInv => RacesTypeOK
  BY DEF RaceInv
<1> QED
  BY <1>1, RaceInvHolds, PTL

\* No overlap of approvals, returns, the Budget Officer's included, edits of
\* the whole form and resubmissions, and no crash between a decision and the
\* move it decided, takes a request past a stage its form requires and nobody
\* approved.
THEOREM NoStageSkippedByRaces == RacesSpec => []EarlierStagesApproved
<1>1. RaceInv => EarlierStagesApproved
  BY DEF RaceInv, EarlierStagesApproved, Passed, Required, Whole
<1> QED
  BY <1>1, RaceInvHolds, PTL

\* A crash never leaves an approved request without its published line.
THEOREM RacesPublishApproved == RacesSpec => []ApprovedHasALine
<1>1. RaceInv => ApprovedHasALine
  BY DEF RaceInv, ApprovedHasALine, Passed
<1> QED
  BY <1>1, RaceInvHolds, PTL

\* Nothing is published that SAP does not have, whichever of two overlapping
\* finalizations writes the line and whatever dies on the way.
THEOREM RacesPostBeforePublishing == RacesSpec => []PublishedIsInSap
<1>1. RacesInit => SapInv
  BY DEF RacesInit, Init, SapInv, Running
<1>2. SapInv => PublishedIsInSap
  BY DEF SapInv, Posted, PublishedIsInSap
<1> QED
  BY <1>1, <1>2, RaceInvHolds, StepKeepsSapInv, PTL DEF RacesSpec

\* A published line is written once, by whichever of two overlapping
\* finalizations comes first.
THEOREM RacesPublishOnce == RacesSpec => RacesKeepLine
<1>1. ASSUME RaceInv, [RacesNext]_raceVars
      PROVE  [\A r \in Requests : line[r] # NoLine => line'[r] = line[r]]_raceVars
  <2> SUFFICES ASSUME NEW x \in Requests, line[x] # NoLine PROVE line'[x] = line[x]
    OBVIOUS
  <2>1. TypeOK
    BY <1>1, RaceInvTypes
  <2>2. ASSUME NEW r \in Requests, NEW o \in Origins, Create(r, o) PROVE line'[x] = line[x]
    BY <2>2 DEF Create
  <2>3. ASSUME NEW u \in Users, NEW r \in Requests, RequestStep(u, r) PROVE line'[x] = line[x]
    BY <2>1, <2>3, StepKeepsLine
  <2>4. ASSUME NEW c \in Calls, NEW u \in Users, NEW r \in Requests, Start(c, u, r)
        PROVE  line'[x] = line[x]
    BY <2>4 DEF Start, vars
  <2>5. ASSUME NEW c \in Calls, Decide(c) \/ Post(c) \/ Update(c)
        PROVE  line'[x] = line[x]
    BY <2>5 DEF Decide, Post, Update
  <2>6. ASSUME NEW c \in Calls, LateFinalize(c) PROVE line'[x] = line[x]
    BY <2>1, <2>6 DEF LateFinalize, TypeOK
  <2>7. CASE Crash \/ UNCHANGED raceVars
    BY <2>7 DEF Crash, raceVars, vars
  <2> QED
    BY <1>1, <2>2, <2>3, <2>4, <2>5, <2>6, <2>7 DEF RacesNext, Meanwhile
<1> QED
  BY <1>1, RaceInvHolds, PTL DEF RacesSpec, RacesKeepLine

=============================================================================
