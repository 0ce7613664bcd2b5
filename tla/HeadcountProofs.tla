---------------------------- MODULE HeadcountProofs ----------------------------
(***************************************************************************)
(* Headcount requests are decided in order, for any number of requests and  *)
(* of overlapping calls.  What makes it inductive is what a suspended call  *)
(* remembers: the stage it decides on had its earlier approvals when it was *)
(* read, and an approval that was logged is never taken back.  And the codes *)
(* have no gap: the one a submit counted is the next or already taken.      *)
(***************************************************************************)
EXTENDS Headcount, FiniteSetTheorems, TLAPS

\* The approvals a stage of the review needs to have.
Before(on) ==
  CASE on = "DEPT_HEAD_REVIEW" -> {}
    [] on = "HR_ANALYST_REVIEW" -> {"DEPT_HEAD_REVIEW"}
    [] on = "HR_HEAD_REVIEW" -> {"DEPT_HEAD_REVIEW", "HR_ANALYST_REVIEW"}

\* A decision on a request: the stage it read is a review stage whose earlier
\* ones are logged; its own is, once it goes on to move the request; and all
\* are when it creates the follow-ons.
ReviewFits(c) ==
  call[c].verb \in {"approve", "return"} =>
    /\ call[c].on \in ReviewStages
    /\ Before(call[c].on) \subseteq logged[call[c].request]
    /\ call[c].verb = "approve" /\ call[c].at = "move" => call[c].on \in logged[call[c].request]
    /\ call[c].verb = "approve" /\ call[c].at \in Kinds => ReviewStages \subseteq logged[call[c].request]

\* A decision on a follow-on: there is one, the desk it read, and the signature
\* before it.
DeskFits(c) ==
  call[c].verb \in {"sign", "reject"} =>
    /\ follow[call[c].request][call[c].kind] # "NONE"
    /\ call[c].on \in Desks
    /\ call[c].on = "APPROVER_REVIEW" => "REVIEWER_REVIEW" \in signed[call[c].request][call[c].kind]

CallsFit == \A c \in Calls : Running(c) => ReviewFits(c) /\ DeskFits(c)

\* The call that is about to create a follow-on.
Creating(r, kind) == \E c \in Calls : Running(c) /\ call[c].request = r /\ call[c].at = kind

\* Some call is on its way to each follow-on an approved request lacks: the
\* one that created the first goes on to the second.
FollowOnsUnderWay ==
  \A r \in Requests :
    /\ stage[r] = "APPROVED" /\ follow[r]["office365"] = "NONE" => crashed \/ Creating(r, "office365")
    /\ follow[r]["office365"] # "NONE" /\ follow[r]["mobile"] = "NONE" => crashed \/ Creating(r, "mobile")

IInv == TypeOK /\ DecidedInOrder /\ CallsFit /\ FollowOnsUnderWay

LEMMA CodesCountRequests ==
  ASSUME TypeOK
  PROVE  Cardinality(Coded) + 1 \in Codes
<1>1. Coded \subseteq Requests /\ IsFiniteSet(Requests)
  BY HeadcountAssumption DEF Coded
<1>2. Cardinality(Coded) \in Nat /\ Cardinality(Requests) \in Nat
         /\ Cardinality(Coded) <= Cardinality(Requests)
  BY <1>1, FS_Subset, FS_CardinalityType
<1> QED
  BY <1>2 DEF Codes

LEMMA InitEstablishes == Init => IInv
<1> SUFFICES ASSUME Init PROVE IInv
  OBVIOUS
<1>1. TypeOK
  BY DEF Init, TypeOK, Stages, FollowOnStages
<1>2. DecidedInOrder
  BY DEF Init, DecidedInOrder, Desks
<1>3. CallsFit
  BY DEF Init, CallsFit, Running
<1>4. FollowOnsUnderWay
  BY DEF Init, FollowOnsUnderWay, Kinds
<1> QED
  BY <1>1, <1>2, <1>3, <1>4 DEF IInv

-----------------------------------------------------------------------------
(* The types.                                                               *)

CallType == [Calls -> Call \cup {NoCall}]

LEMMA NextStageTyped ==
  ASSUME NEW verb, NEW on
  PROVE  NextStage(verb, on) \in Stages
BY DEF NextStage, Stages, ReviewStages

LEMMA AfterDeskTyped ==
  ASSUME NEW verb \in {"sign", "reject"}, NEW desk \in Desks
  PROVE  AfterDesk(verb, desk) \in FollowOnStages
BY DEF AfterDesk, FollowOnStages, Desks

LEMMA BeginTyped ==
  ASSUME TypeOK, NEW c \in Calls, NEW verb \in Verbs, NEW step \in Steps, NEW r \in Requests,
         NEW on \in Stages \cup Desks, NEW kind \in Kinds, Begin(c, verb, step, r, on, kind)
  PROVE  call' \in CallType /\ doubled' \in BOOLEAN
BY DEF Begin, TypeOK, CallType, Call

LEMMA GotoTyped ==
  ASSUME TypeOK, NEW c \in Calls, Running(c), NEW step \in Steps, Goto(c, step)
  PROVE  call' \in CallType /\ call'[c] = [call[c] EXCEPT !.at = step]
BY DEF Goto, TypeOK, CallType, Call, Running

LEMMA DoneTyped ==
  ASSUME TypeOK, NEW c \in Calls, Done(c)
  PROVE  call' \in CallType
BY DEF Done, TypeOK, CallType

LEMMA TypeKept ==
  ASSUME IInv, Next
  PROVE  TypeOK'
<1> USE DEF IInv
<1>1. ASSUME NEW r \in Requests, Create(r) PROVE TypeOK'
  BY <1>1 DEF TypeOK, Create, Stages, decisionVars
<1>2. ASSUME NEW c \in Calls, NEW r \in Requests, NEW verb \in {"cancel", "submit"},
             StartOnDraft(c, r, verb) PROVE TypeOK'
  <2>1. call' \in CallType /\ doubled' \in BOOLEAN
    <3>1. Begin(c, verb, IF verb = "submit" THEN "count" ELSE "write", r, "DRAFT", "mobile")
      BY <1>2 DEF StartOnDraft
    <3> QED
      BY <3>1, BeginTyped DEF Verbs, Steps, Stages, Kinds
  <2> QED
    BY <1>2, <2>1 DEF TypeOK, StartOnDraft, requestVars, decisionVars, CallType
<1>3. ASSUME NEW c \in Calls, NEW r \in Requests, NEW on \in ReviewStages,
             NEW verb \in {"approve", "return"}, StartDecision(c, r, on, verb) PROVE TypeOK'
  <2>1. call' \in CallType /\ doubled' \in BOOLEAN
    BY <1>3, BeginTyped DEF StartDecision, Verbs, Steps, Stages, Kinds
  <2> QED
    BY <1>3, <2>1 DEF TypeOK, StartDecision, requestVars, decisionVars, CallType
<1>4. ASSUME NEW c \in Calls, NEW r \in Requests, NEW kind \in DecidedKinds,
             NEW verb \in {"sign", "reject"}, StartFollowOn(c, r, kind, verb) PROVE TypeOK'
  <2>1. call' \in CallType /\ doubled' \in BOOLEAN
    BY <1>4, BeginTyped, HeadcountAssumption DEF StartFollowOn, Verbs, Steps
  <2> QED
    BY <1>4, <2>1 DEF TypeOK, StartFollowOn, requestVars, decisionVars, CallType
<1>5. ASSUME NEW c \in Calls, Cancel(c) PROVE TypeOK'
  BY <1>5, DoneTyped DEF TypeOK, Cancel, At, Running, Call, Stages, decisionVars, CallType
<1>6. ASSUME NEW c \in Calls, Count(c) PROVE TypeOK'
  <2>1. Cardinality(Coded) + 1 \in Codes
    BY CodesCountRequests
  <2>2. call' \in CallType
    BY <1>6, <2>1 DEF TypeOK, Count, At, Running, Call, Steps, CallType
  <2> QED
    BY <1>6, <2>2 DEF TypeOK, Count, requestVars, decisionVars, CallType
<1>7. ASSUME NEW c \in Calls, Submit(c) PROVE TypeOK'
  <2>1. call' \in CallType
    BY <1>7, DoneTyped DEF Submit
  <2>2. stage' \in [Requests -> Stages] /\ code' \in [Requests -> Codes \cup {NoCode}]
    BY <1>7 DEF TypeOK, Submit, At, Running, Call, Stages, ReviewStages
  <2> QED
    BY <1>7, <2>1, <2>2 DEF TypeOK, Submit, decisionVars, CallType
<1>8. ASSUME NEW c \in Calls, LogDecision(c) PROVE TypeOK'
  <2>1. call' \in CallType
    BY <1>8, GotoTyped DEF LogDecision, At, Steps
  <2>2. call[c] \in Call /\ call[c].on \in ReviewStages
    BY <1>8 DEF LogDecision, At, Running, CallsFit, ReviewFits, TypeOK
  <2>3. logged' \in [Requests -> SUBSET ReviewStages]
    BY <1>8, <2>2 DEF TypeOK, LogDecision, Call
  <2> QED
    BY <1>8, <2>1, <2>3 DEF TypeOK, LogDecision, requestVars, CallType
<1>9. ASSUME NEW c \in Calls, Move(c) PROVE TypeOK'
  <2>1. call' \in CallType
    BY <1>9, GotoTyped, DoneTyped DEF Move, At, Steps
  <2>2. stage' \in [Requests -> Stages]
    BY <1>9, NextStageTyped DEF TypeOK, Move
  <2> QED
    BY <1>9, <2>1, <2>2 DEF TypeOK, Move, decisionVars, CallType
<1>10. ASSUME NEW c \in Calls, NEW kind \in Kinds, CreateFollowOn(c, kind) PROVE TypeOK'
  <2>1. call' \in CallType
    BY <1>10, GotoTyped, DoneTyped DEF CreateFollowOn, At, Steps
  <2>2. follow' \in [Requests -> [Kinds -> FollowOnStages]]
    BY <1>10 DEF TypeOK, CreateFollowOn, FollowOnStages, Desks
  <2> QED
    BY <1>10, <2>1, <2>2 DEF TypeOK, CreateFollowOn, requestVars, CallType
<1>11. ASSUME NEW c \in Calls, DecideFollowOn(c) PROVE TypeOK'
  <2>1. call' \in CallType
    BY <1>11, DoneTyped DEF DecideFollowOn
  <2>2. call[c] \in Call /\ call[c].verb \in {"sign", "reject"} /\ call[c].on \in Desks
    BY <1>11 DEF DecideFollowOn, At, Running, CallsFit, DeskFits, TypeOK
  <2>3. AfterDesk(call[c].verb, call[c].on) \in FollowOnStages
    BY <2>2, AfterDeskTyped
  <2>4. follow' \in [Requests -> [Kinds -> FollowOnStages]]
    BY <1>11, <2>3 DEF TypeOK, DecideFollowOn
  <2>5. signed' \in [Requests -> [Kinds -> SUBSET Desks]]
    BY <1>11, <2>2 DEF TypeOK, DecideFollowOn, Call
  <2> QED
    BY <1>11, <2>1, <2>4, <2>5 DEF TypeOK, DecideFollowOn, requestVars, CallType
<1>12. CASE Crash
  BY <1>12 DEF TypeOK, Crash, requestVars, decisionVars
<1> QED
  BY <1>1, <1>2, <1>3, <1>4, <1>5, <1>6, <1>7, <1>8, <1>9, <1>10, <1>11, <1>12
  DEF Next, Start, Continue

-----------------------------------------------------------------------------
(* What suspended calls remember stays true.                                *)

\* Decisions, signatures and follow-ons are never taken back.
LEMMA LogsGrow ==
  ASSUME IInv, Next
  PROVE  /\ \A r \in Requests : logged[r] \subseteq logged'[r]
         /\ \A r \in Requests, k \in Kinds :
              signed[r][k] \subseteq signed'[r][k] /\ (follow[r][k] # "NONE" => follow'[r][k] # "NONE")
<1> USE DEF IInv, TypeOK
<1>1. ASSUME NEW c \in Calls, LogDecision(c)
      PROVE  UNCHANGED <<signed, follow>> /\ \A r \in Requests : logged[r] \subseteq logged'[r]
  BY <1>1 DEF LogDecision
<1>2. ASSUME NEW c \in Calls, DecideFollowOn(c)
      PROVE  UNCHANGED logged /\ \A r \in Requests, k \in Kinds :
               signed[r][k] \subseteq signed'[r][k] /\ (follow[r][k] # "NONE" => follow'[r][k] # "NONE")
  <2>1. AfterDesk(call[c].verb, call[c].on) # "NONE"
    BY <1>2, AfterDeskTyped DEF DecideFollowOn, At, Running, CallsFit, DeskFits, AfterDesk, Desks
  <2> QED
    BY <1>2, <2>1 DEF DecideFollowOn
<1>3. ASSUME NEW c \in Calls, NEW kind \in Kinds, CreateFollowOn(c, kind)
      PROVE  UNCHANGED <<logged, signed>> /\ \A r \in Requests, k \in Kinds :
               follow[r][k] # "NONE" => follow'[r][k] # "NONE"
  BY <1>3 DEF CreateFollowOn
<1>4. CASE \A c \in Calls : /\ ~LogDecision(c) /\ ~DecideFollowOn(c)
                           /\ \A kind \in Kinds : ~CreateFollowOn(c, kind)
  <2>1. UNCHANGED <<logged, signed, follow>>
    BY <1>4 DEF Next, Start, Continue, Create, StartOnDraft, StartDecision, StartFollowOn,
                Cancel, Count, Submit, Move, Crash, requestVars, decisionVars
  <2> QED
    BY <2>1
<1> QED
  BY <1>1, <1>2, <1>3, <1>4

\* So what the others remember need not be looked at again.
LEMMA OthersFit ==
  ASSUME IInv, Next, NEW c \in Calls,
         \A d \in Calls \ {c} : call'[d] = call[d],
         Running(c)' => ReviewFits(c)' /\ DeskFits(c)'
  PROVE  CallsFit'
<1> SUFFICES ASSUME NEW d \in Calls, d # c, Running(d)'
             PROVE  ReviewFits(d)' /\ DeskFits(d)'
  BY DEF CallsFit
<1>1. Running(d) /\ call'[d] = call[d] /\ call[d] \in Call
  BY DEF Running, IInv, TypeOK
<1>2. ReviewFits(d) /\ DeskFits(d)
  BY <1>1 DEF IInv, CallsFit
<1> QED
  BY <1>1, <1>2, LogsGrow DEF ReviewFits, DeskFits, Call

LEMMA CallsKeepFitting ==
  ASSUME IInv, Next
  PROVE  CallsFit'
<1>1. ASSUME NEW r \in Requests, Create(r) PROVE CallsFit'
  BY <1>1 DEF Create, IInv, CallsFit, ReviewFits, DeskFits, Running, decisionVars
<1>2. ASSUME NEW c \in Calls, NEW r \in Requests, NEW verb \in {"cancel", "submit"},
             StartOnDraft(c, r, verb) PROVE CallsFit'
  <2>1. call'[c].verb = verb /\ \A d \in Calls \ {c} : call'[d] = call[d]
    BY <1>2 DEF StartOnDraft, Begin, IInv, TypeOK
  <2> QED
    BY <2>1, OthersFit DEF ReviewFits, DeskFits
<1>3. ASSUME NEW c \in Calls, NEW r \in Requests, NEW on \in ReviewStages,
             NEW verb \in {"approve", "return"}, StartDecision(c, r, on, verb) PROVE CallsFit'
  <2>1. /\ call'[c].verb = verb /\ call'[c].on = on /\ call'[c].at = "log" /\ call'[c].request = r
        /\ \A d \in Calls \ {c} : call'[d] = call[d]
    BY <1>3 DEF StartDecision, Begin, IInv, TypeOK
  <2>2. Before(on) \subseteq logged'[r]
    BY <1>3 DEF StartDecision, IInv, DecidedInOrder, Before, ReviewStages, decisionVars
  <2>3. ReviewFits(c)' /\ DeskFits(c)'
    BY <2>1, <2>2 DEF ReviewFits, DeskFits, Kinds
  <2> QED
    BY <2>1, <2>3, OthersFit
<1>4. ASSUME NEW c \in Calls, NEW r \in Requests, NEW kind \in DecidedKinds,
             NEW verb \in {"sign", "reject"}, StartFollowOn(c, r, kind, verb) PROVE CallsFit'
  <2>1. /\ call'[c].verb = verb /\ call'[c].on = follow[r][kind] /\ call'[c].request = r
        /\ call'[c].kind = kind /\ \A d \in Calls \ {c} : call'[d] = call[d]
    BY <1>4 DEF StartFollowOn, Begin, IInv, TypeOK
  <2>2. follow[r][kind] \in Desks /\ kind \in Kinds
    BY <1>4, HeadcountAssumption DEF StartFollowOn
  <2>3. follow[r][kind] = "APPROVER_REVIEW" => "REVIEWER_REVIEW" \in signed'[r][kind]
    BY <1>4, <2>2 DEF StartFollowOn, IInv, DecidedInOrder, decisionVars
  <2>4. follow'[r][kind] # "NONE"
    BY <1>4, <2>2 DEF StartFollowOn, decisionVars, Desks
  <2>5. ReviewFits(c)' /\ DeskFits(c)'
    BY <2>1, <2>2, <2>3, <2>4 DEF ReviewFits, DeskFits
  <2> QED
    BY <2>1, <2>5, OthersFit
<1>5. ASSUME NEW c \in Calls, Done(c) PROVE CallsFit'
  <2>1. call'[c] = NoCall /\ \A d \in Calls \ {c} : call'[d] = call[d]
    BY <1>5 DEF Done, IInv, TypeOK
  <2> QED
    BY <2>1, OthersFit DEF Running
<1>6. ASSUME NEW c \in Calls, Count(c) PROVE CallsFit'
  <2>1. call'[c].verb = "submit" /\ \A d \in Calls \ {c} : call'[d] = call[d]
    BY <1>6 DEF Count, At, Running, IInv, TypeOK, Call
  <2> QED
    BY <2>1, OthersFit DEF ReviewFits, DeskFits
<1>7. ASSUME NEW c \in Calls, LogDecision(c) PROVE CallsFit'
  <2>1. /\ call[c] \in Call /\ call[c].verb \in {"approve", "return"}
        /\ ReviewFits(c) /\ call'[c] = [call[c] EXCEPT !.at = "move"]
        /\ \A d \in Calls \ {c} : call'[d] = call[d]
    BY <1>7 DEF LogDecision, Goto, At, Running, IInv, TypeOK, CallsFit
  <2>2. call[c].verb = "approve" => call[c].on \in logged'[call[c].request]
    BY <1>7, <2>1 DEF LogDecision, IInv, TypeOK, Call
  <2>3. ReviewFits(c)' /\ DeskFits(c)'
    BY <2>1, <2>2, LogsGrow DEF ReviewFits, DeskFits, Call, Kinds
  <2> QED
    BY <2>1, <2>3, OthersFit
<1>8. ASSUME NEW c \in Calls, Move(c) PROVE CallsFit'
  <2>1. CASE Done(c)
    BY <1>5, <2>1
  <2>2. CASE ~Done(c)
    <3>1. /\ call[c] \in Call /\ call[c].verb \in {"approve", "return"} /\ call[c].at = "move"
          /\ ReviewFits(c) /\ call'[c] = [call[c] EXCEPT !.at = "office365"]
          /\ \A d \in Calls \ {c} : call'[d] = call[d]
          /\ NextStage(call[c].verb, call[c].on) = "APPROVED"
      BY <1>8, <2>2 DEF Move, Goto, At, Running, IInv, TypeOK, CallsFit
    <3>2. call[c].verb = "approve" /\ call[c].on = "HR_HEAD_REVIEW"
      BY <3>1 DEF NextStage, ReviewFits, ReviewStages
    <3>3. ReviewStages \subseteq logged[call[c].request]
      BY <3>1, <3>2 DEF ReviewFits, Before, ReviewStages
    <3>4. ReviewFits(c)' /\ DeskFits(c)'
      BY <3>1, <3>3, LogsGrow DEF ReviewFits, DeskFits, Call
    <3> QED
      BY <3>1, <3>4, OthersFit
  <2> QED
    BY <2>1, <2>2
<1>9. ASSUME NEW c \in Calls, NEW kind \in Kinds, CreateFollowOn(c, kind) PROVE CallsFit'
  <2>1. CASE Done(c)
    BY <1>5, <2>1
  <2>2. CASE ~Done(c)
    <3>1. /\ call[c] \in Call /\ call[c].verb = "approve" /\ call[c].at \in Kinds
          /\ ReviewFits(c) /\ call'[c] = [call[c] EXCEPT !.at = "mobile"]
          /\ \A d \in Calls \ {c} : call'[d] = call[d]
      BY <1>9, <2>2 DEF CreateFollowOn, Goto, At, Running, IInv, TypeOK, CallsFit
    <3>2. ReviewFits(c)' /\ DeskFits(c)'
      BY <3>1, LogsGrow DEF ReviewFits, DeskFits, Call, Kinds
    <3> QED
      BY <3>1, <3>2, OthersFit
  <2> QED
    BY <2>1, <2>2
<1>10. CASE Crash
  BY <1>10 DEF Crash, CallsFit, Running
<1> QED
  BY <1>1, <1>2, <1>3, <1>4, <1>5, <1>6, <1>7, <1>8, <1>9, <1>10
  DEF Next, Start, Continue, Cancel, Submit, DecideFollowOn

-----------------------------------------------------------------------------
(* The order of the approvals.                                              *)

\* What the order says of one request and of one of its follow-ons.
RequestInOrder(r) ==
  /\ stage[r] \in {"HR_ANALYST_REVIEW", "HR_HEAD_REVIEW"} => "DEPT_HEAD_REVIEW" \in logged[r]
  /\ stage[r] = "HR_HEAD_REVIEW" => "HR_ANALYST_REVIEW" \in logged[r]
  /\ stage[r] = "APPROVED" => ReviewStages \subseteq logged[r]
FollowOnInOrder(r, k) ==
  /\ follow[r][k] # "NONE" => ReviewStages \subseteq logged[r]
  /\ follow[r][k] = "APPROVER_REVIEW" => "REVIEWER_REVIEW" \in signed[r][k]
  /\ follow[r][k] = "APPROVED" => Desks \subseteq signed[r][k]

LEMMA OrderByParts ==
  DecidedInOrder <=>
    \A r \in Requests : RequestInOrder(r) /\ \A k \in Kinds : FollowOnInOrder(r, k)
BY DEF DecidedInOrder, RequestInOrder, FollowOnInOrder

\* A request that stays where it is, or leaves the review, and a follow-on
\* that stays where it is, are as much in order as before.
LEMMA RequestUndisturbed ==
  ASSUME IInv, Next, NEW r \in Requests,
         stage'[r] = stage[r] \/ stage'[r] \in {"NONE", "DRAFT", "DEPT_HEAD_REVIEW", "RETURNED", "CANCELLED"}
  PROVE  RequestInOrder(r)'
<1>1. RequestInOrder(r)
  BY OrderByParts DEF IInv
<1> QED
  BY <1>1, LogsGrow DEF RequestInOrder

LEMMA FollowOnUndisturbed ==
  ASSUME IInv, Next, NEW r \in Requests, NEW k \in Kinds, follow'[r][k] = follow[r][k]
  PROVE  FollowOnInOrder(r, k)'
<1>1. FollowOnInOrder(r, k)
  BY OrderByParts DEF IInv
<1> QED
  BY <1>1, LogsGrow DEF FollowOnInOrder

LEMMA OrderKept ==
  ASSUME IInv, Next
  PROVE  DecidedInOrder'
<1> SUFFICES \A r \in Requests : RequestInOrder(r)' /\ \A k \in Kinds : FollowOnInOrder(r, k)'
  BY DEF DecidedInOrder, RequestInOrder, FollowOnInOrder
<1>1. ASSUME NEW c \in Calls, Move(c), NEW r \in Requests PROVE RequestInOrder(r)'
  <2>1. /\ call[c] \in Call /\ call[c].verb \in {"approve", "return"} /\ call[c].at = "move"
        /\ ReviewFits(c)
    BY <1>1 DEF Move, At, Running, IInv, TypeOK, CallsFit
  <2>2. CASE r # call[c].request \/ call[c].verb = "return"
    <3>1. stage'[r] = stage[r] \/ stage'[r] = "RETURNED"
      BY <1>1, <2>1, <2>2 DEF Move, IInv, TypeOK, NextStage
    <3> QED
      BY <3>1, RequestUndisturbed
  <2>3. CASE r = call[c].request /\ call[c].verb = "approve"
    <3>1. /\ stage'[r] = NextStage("approve", call[c].on) /\ UNCHANGED logged
          /\ call[c].on \in ReviewStages /\ Before(call[c].on) \cup {call[c].on} \subseteq logged[r]
      BY <1>1, <2>1, <2>3 DEF Move, IInv, TypeOK, ReviewFits, decisionVars
    <3>2. CASE call[c].on = "DEPT_HEAD_REVIEW"
      BY <3>1, <3>2 DEF NextStage, RequestInOrder
    <3>3. CASE call[c].on = "HR_ANALYST_REVIEW"
      BY <3>1, <3>3 DEF NextStage, RequestInOrder, Before
    <3>4. CASE call[c].on = "HR_HEAD_REVIEW"
      BY <3>1, <3>4 DEF NextStage, RequestInOrder, Before, ReviewStages
    <3> QED
      BY <3>1, <3>2, <3>3, <3>4 DEF ReviewStages
  <2> QED
    BY <2>1, <2>2, <2>3
<1>2. ASSUME NEW c \in Calls, Submit(c), NEW r \in Requests PROVE RequestInOrder(r)'
  <2>1. stage'[r] = stage[r] \/ stage'[r] = "DEPT_HEAD_REVIEW"
    BY <1>2 DEF Submit, IInv, TypeOK
  <2> QED
    BY <2>1, RequestUndisturbed
<1>3. ASSUME NEW c \in Calls, Cancel(c), NEW r \in Requests PROVE RequestInOrder(r)'
  <2>1. stage'[r] = stage[r] \/ stage'[r] = "CANCELLED"
    BY <1>3 DEF Cancel, IInv, TypeOK
  <2> QED
    BY <2>1, RequestUndisturbed
<1>4. ASSUME NEW s \in Requests, Create(s), NEW r \in Requests PROVE RequestInOrder(r)'
  <2>1. stage'[r] = stage[r] \/ stage'[r] = "DRAFT"
    BY <1>4 DEF Create, IInv, TypeOK
  <2> QED
    BY <2>1, RequestUndisturbed
<1>5. ASSUME UNCHANGED stage, NEW r \in Requests PROVE RequestInOrder(r)'
  BY <1>5, RequestUndisturbed
<1>6. ASSUME NEW c \in Calls, NEW kind \in Kinds, CreateFollowOn(c, kind),
             NEW r \in Requests, NEW k \in Kinds PROVE FollowOnInOrder(r, k)'
  <2>1. CASE follow'[r][k] = follow[r][k]
    BY <2>1, FollowOnUndisturbed
  <2>2. CASE follow'[r][k] # follow[r][k]
    <3>1. r = call[c].request /\ follow'[r][k] = "REVIEWER_REVIEW" /\ UNCHANGED logged
      BY <1>6, <2>2 DEF CreateFollowOn, IInv, TypeOK
    <3>2. ReviewStages \subseteq logged[r]
      BY <1>6, <3>1 DEF CreateFollowOn, At, Running, IInv, CallsFit, ReviewFits
    <3> QED
      BY <3>1, <3>2 DEF FollowOnInOrder
  <2> QED
    BY <2>1, <2>2
<1>7. ASSUME NEW c \in Calls, DecideFollowOn(c), NEW r \in Requests, NEW k \in Kinds
      PROVE  FollowOnInOrder(r, k)'
  <2>1. CASE follow'[r][k] = follow[r][k]
    BY <2>1, FollowOnUndisturbed
  <2>2. CASE follow'[r][k] # follow[r][k]
    <3>1. /\ r = call[c].request /\ k = call[c].kind /\ UNCHANGED logged
          /\ follow'[r][k] = AfterDesk(call[c].verb, call[c].on)
          /\ call[c].verb \in {"sign", "reject"} /\ DeskFits(c)
      BY <1>7, <2>2 DEF DecideFollowOn, At, Running, IInv, TypeOK, CallsFit
    <3>2. ReviewStages \subseteq logged[r]
      BY <3>1, OrderByParts DEF IInv, FollowOnInOrder, DeskFits
    <3>3. CASE call[c].verb = "reject"
      BY <3>1, <3>2, <3>3 DEF AfterDesk, FollowOnInOrder
    <3>4. CASE call[c].verb = "sign"
      <4>1. signed'[r][k] = signed[r][k] \cup {call[c].on}
        BY <1>7, <3>1, <3>4 DEF DecideFollowOn, IInv, TypeOK
      <4>2. CASE call[c].on = "REVIEWER_REVIEW"
        BY <3>1, <3>2, <3>4, <4>1, <4>2 DEF AfterDesk, FollowOnInOrder
      <4>3. CASE call[c].on = "APPROVER_REVIEW"
        BY <3>1, <3>2, <3>4, <4>1, <4>3 DEF AfterDesk, FollowOnInOrder, DeskFits, Desks
      <4> QED
        BY <3>1, <4>2, <4>3 DEF DeskFits, Desks
    <3> QED
      BY <3>1, <3>3, <3>4
  <2> QED
    BY <2>1, <2>2
<1>8. ASSUME UNCHANGED follow, NEW r \in Requests, NEW k \in Kinds PROVE FollowOnInOrder(r, k)'
  BY <1>8, FollowOnUndisturbed
<1>9. \A r \in Requests : RequestInOrder(r)'
  BY <1>1, <1>2, <1>3, <1>4, <1>5
  DEF Next, Start, Continue, StartOnDraft, StartDecision, StartFollowOn, Count, LogDecision,
      CreateFollowOn, DecideFollowOn, Crash, requestVars
<1>10. \A r \in Requests, k \in Kinds : FollowOnInOrder(r, k)'
  BY <1>6, <1>7, <1>8
  DEF Next, Start, Continue, Create, StartOnDraft, StartDecision, StartFollowOn, Cancel, Count,
      Submit, LogDecision, Move, Crash, decisionVars
<1> QED
  BY <1>9, <1>10

-----------------------------------------------------------------------------
(* The follow-ons of an approved request.                                   *)

\* A call about to create a follow-on goes on being so until it has.
LEMMA CreatingGoesOn ==
  ASSUME IInv, Next, ~Crash, NEW r \in Requests, NEW kind \in Kinds, Creating(r, kind),
         \A c \in Calls : call[c].request = r => ~CreateFollowOn(c, kind)
  PROVE  Creating(r, kind)'
<1>1. PICK c \in Calls : Running(c) /\ call[c].request = r /\ call[c].at = kind
  BY DEF Creating
<1>2. ASSUME NEW d \in Calls, Start(d) PROVE call'[c] = call[c]
  <2>1. ~Running(d) /\ d # c
    BY <1>1, <1>2 DEF Start, StartOnDraft, StartDecision, StartFollowOn, Begin
  <2> QED
    BY <1>2, <2>1 DEF Start, StartOnDraft, StartDecision, StartFollowOn, Begin, IInv, TypeOK
<1>3. ASSUME NEW d \in Calls, Continue(d) PROVE call'[c] = call[c]
  <2>1. d # c
    <3>1. ~(Cancel(c) \/ Count(c) \/ Submit(c) \/ LogDecision(c) \/ Move(c) \/ DecideFollowOn(c))
      BY <1>1 DEF Cancel, Count, Submit, LogDecision, Move, DecideFollowOn, At, Kinds
    <3>2. ~CreateFollowOn(c, kind)
      BY <1>1
    <3>3. \A other \in Kinds : other # kind => ~CreateFollowOn(c, other)
      BY <1>1 DEF CreateFollowOn, At
    <3> QED
      BY <1>3, <3>1, <3>2, <3>3 DEF Continue
  <2>2. Cancel(d) \/ Count(d) \/ Submit(d) \/ DecideFollowOn(d) => call'[c] = call[c]
    BY <2>1 DEF Cancel, Count, Submit, DecideFollowOn, Done, IInv, TypeOK
  <2>3. LogDecision(d) \/ Move(d) => call'[c] = call[c]
    BY <2>1 DEF LogDecision, Move, Done, Goto, IInv, TypeOK
  <2>4. \A other \in Kinds : CreateFollowOn(d, other) => call'[c] = call[c]
    BY <2>1 DEF CreateFollowOn, Done, Goto, IInv, TypeOK
  <2> QED
    BY <1>3, <2>2, <2>3, <2>4 DEF Continue
<1>4. call'[c] = call[c]
  BY <1>2, <1>3 DEF Next, Create
<1> QED
  BY <1>1, <1>4 DEF Creating, Running

LEMMA FollowOnsKept ==
  ASSUME IInv, Next
  PROVE  FollowOnsUnderWay'
<1> SUFFICES ASSUME ~crashed', NEW r \in Requests
             PROVE  /\ stage'[r] = "APPROVED" /\ follow'[r]["office365"] = "NONE" => Creating(r, "office365")'
                    /\ follow'[r]["office365"] # "NONE" /\ follow'[r]["mobile"] = "NONE" => Creating(r, "mobile")'
  BY DEF FollowOnsUnderWay
<1>1. ~crashed /\ ~Crash
  <2>1. ~Crash
    BY DEF Crash
  <2>2. crashed' = crashed
    BY <2>1 DEF Next, Start, Continue, Create, StartOnDraft, StartDecision, StartFollowOn,
       Cancel, Count, Submit, LogDecision, Move, CreateFollowOn, DecideFollowOn
  <2> QED
    BY <2>1, <2>2
<1>2. /\ stage[r] = "APPROVED" /\ follow[r]["office365"] = "NONE" => Creating(r, "office365")
      /\ follow[r]["office365"] # "NONE" /\ follow[r]["mobile"] = "NONE" => Creating(r, "mobile")
  BY <1>1 DEF IInv, FollowOnsUnderWay
<1>3. ASSUME NEW c \in Calls, NEW kind \in Kinds, CreateFollowOn(c, kind), call[c].request = r,
             follow[r][kind] = "NONE"
      PROVE  follow'[r][kind] # "NONE" /\ (kind = "office365" => Creating(r, "mobile")')
  <2>1. call[c] \in Call /\ call[c] # NoCall
    BY <1>3 DEF CreateFollowOn, At, Running, IInv, TypeOK
  <2>2. follow'[r][kind] = "REVIEWER_REVIEW"
    BY <1>3 DEF CreateFollowOn, IInv, TypeOK
  <2>3. ASSUME kind = "office365" PROVE Creating(r, "mobile")'
    <3>1. call'[c] = [call[c] EXCEPT !.at = "mobile"]
      BY <1>3, <2>3 DEF CreateFollowOn, Goto, IInv, TypeOK
    <3>2. call'[c] \in Call /\ call'[c].request = r /\ call'[c].at = "mobile"
      BY <1>3, <2>1, <3>1 DEF Call, Steps
    <3> QED
      BY <3>2, NoCallAssumption DEF Creating, Running, Call, Steps
  <2> QED
    BY <2>2, <2>3
<1>4. ASSUME NEW kind \in Kinds, follow'[r][kind] = "NONE", Creating(r, kind)
      PROVE  Creating(r, kind)'
  <2>1. \A c \in Calls : call[c].request = r => ~CreateFollowOn(c, kind)
    <3>1. follow[r][kind] = "NONE"
      BY <1>4, LogsGrow
    <3> QED
      BY <1>3, <1>4, <3>1
  <2> QED
    BY <1>1, <1>4, <2>1, CreatingGoesOn
<1>5. ASSUME stage'[r] = "APPROVED", follow'[r]["office365"] = "NONE"
      PROVE  Creating(r, "office365")'
  <2>1. follow[r]["office365"] = "NONE"
    BY <1>5, LogsGrow DEF Kinds
  <2>2. CASE stage[r] = "APPROVED"
    BY <1>2, <1>4, <1>5, <2>1, <2>2 DEF Kinds
  <2>3. CASE stage[r] # "APPROVED"
    <3>1. PICK c \in Calls : Move(c) /\ call[c].request = r /\ NextStage(call[c].verb, call[c].on) = "APPROVED"
      BY <1>5, <2>3 DEF Next, Start, Continue, Create, StartOnDraft, StartDecision, StartFollowOn,
         Cancel, Count, Submit, LogDecision, Move, CreateFollowOn, DecideFollowOn, Crash, requestVars,
         IInv, TypeOK
    <3>2. call[c] \in Call /\ call'[c] = [call[c] EXCEPT !.at = "office365"]
      BY <3>1 DEF Move, Goto, At, Running, IInv, TypeOK
    <3>3. call'[c] \in Call /\ call'[c].request = r /\ call'[c].at = "office365"
      BY <3>1, <3>2 DEF Call, Steps
    <3> QED
      BY <3>3, NoCallAssumption DEF Creating, Running
  <2> QED
    BY <2>2, <2>3
<1>6. ASSUME follow'[r]["office365"] # "NONE", follow'[r]["mobile"] = "NONE"
      PROVE  Creating(r, "mobile")'
  <2>1. CASE follow[r]["office365"] # "NONE"
    <3>1. follow[r]["mobile"] = "NONE"
      BY <1>6, LogsGrow DEF Kinds
    <3> QED
      BY <1>2, <1>4, <1>6, <2>1, <3>1 DEF Kinds
  <2>2. CASE follow[r]["office365"] = "NONE"
    <3>1. CASE \E c \in Calls : CreateFollowOn(c, "office365") /\ call[c].request = r
      BY <1>3, <2>2, <3>1 DEF Kinds
    <3>2. CASE \E c \in Calls : DecideFollowOn(c) /\ call[c].request = r /\ call[c].kind = "office365"
      BY <2>2, <3>2 DEF DecideFollowOn, At, Running, IInv, CallsFit, DeskFits
    <3>3. CASE /\ ~\E c \in Calls : CreateFollowOn(c, "office365") /\ call[c].request = r
               /\ ~\E c \in Calls : DecideFollowOn(c) /\ call[c].request = r /\ call[c].kind = "office365"
      <4>1. ASSUME NEW c \in Calls, DecideFollowOn(c)
            PROVE  follow'[r]["office365"] = follow[r]["office365"]
        BY <3>3, <4>1 DEF DecideFollowOn, IInv, TypeOK, Kinds
      <4>2. ASSUME NEW c \in Calls, NEW kind \in Kinds, CreateFollowOn(c, kind)
            PROVE  follow'[r]["office365"] = follow[r]["office365"]
        BY <3>3, <4>2 DEF CreateFollowOn, IInv, TypeOK, Kinds
      <4>3. follow' = follow \/ \E c \in Calls : DecideFollowOn(c) \/ \E kind \in Kinds : CreateFollowOn(c, kind)
        BY DEF Next, Start, Continue, Create, StartOnDraft, StartDecision, StartFollowOn,
           Cancel, Count, Submit, LogDecision, Move, Crash, decisionVars
      <4>4. follow'[r]["office365"] = follow[r]["office365"]
        BY <4>1, <4>2, <4>3
      <4> QED
        BY <1>6, <2>2, <4>4
    <3> QED
      BY <3>1, <3>2, <3>3
  <2> QED
    BY <2>1, <2>2
<1> QED
  BY <1>5, <1>6

-----------------------------------------------------------------------------
(* The codes.                                                               *)

Submitting(c) == Running(c) /\ call[c].verb = "submit"

\* A submit that nobody doubles has a request without a code and no rival for
\* it, and the code it counted is at most the next one: others may have been
\* written since, none is ever taken back.
SubmitFits(c) ==
  /\ code[call[c].request] = NoCode
  /\ call[c].at = "write" => call[c].code \in 1 .. Cardinality(Coded) + 1
  /\ \A d \in Calls \ {c} : Submitting(d) => call[d].request # call[c].request
UncodedBefore == \A r \in Requests : stage[r] \in {"NONE", "DRAFT"} => code[r] = NoCode
CodeInv ==
  /\ CodesAreSequential
  /\ UncodedBefore
  /\ ~doubled => \A c \in Calls : Submitting(c) => SubmitFits(c)

LEMMA CodedIsFinite ==
  /\ IsFiniteSet(Coded) /\ Cardinality(Coded) \in Nat
  /\ \A r \in Requests \ Coded : Cardinality(Coded \cup {r}) = Cardinality(Coded) + 1
<1>1. Coded \subseteq Requests /\ IsFiniteSet(Requests)
  BY HeadcountAssumption DEF Coded
<1>2. IsFiniteSet(Coded)
  BY <1>1, FS_Subset
<1> QED
  BY <1>2, FS_CardinalityType, FS_AddElement

LEMMA CodeInvInitially == Init => CodeInv
<1> SUFFICES ASSUME Init PROVE CodeInv
  OBVIOUS
<1>1. Coded = {}
  BY DEF Init, Coded
<1>2. CodesAreSequential
  <2>1. Cardinality(Coded) = 0
    BY <1>1, FS_EmptySet
  <2>2. 1 .. 0 = {} /\ {code[r] : r \in Coded} = {}
    BY <1>1
  <2> QED
    BY <1>1, <2>1, <2>2 DEF CodesAreSequential
<1> QED
  BY <1>2 DEF Init, CodeInv, UncodedBefore, Submitting, Running

\* While no code is written and no submit moves, nothing changes for the codes.
LEMMA CodesUndisturbed ==
  ASSUME CodeInv, UNCHANGED <<code, doubled>>, UncodedBefore',
         \A c \in Calls : Submitting(c)' => Submitting(c) /\ call'[c] = call[c]
  PROVE  CodeInv'
<1>1. Coded' = Coded
  <2>1. \A r \in Requests : code'[r] # NoCode => stage'[r] \notin {"NONE", "DRAFT"}
    BY DEF UncodedBefore
  <2> QED
    BY DEF Coded
<1>2. CodesAreSequential'
  BY <1>1 DEF CodeInv, CodesAreSequential
<1>3. ~doubled' => \A c \in Calls : Submitting(c)' => SubmitFits(c)'
  BY <1>1 DEF CodeInv, SubmitFits
<1> QED
  BY <1>2, <1>3 DEF CodeInv

\* The code of an undoubled submit that is not refused is the next one.
LEMMA CodeIsNext ==
  ASSUME IInv, CodeInv, ~doubled, NEW c \in Calls, Submit(c),
         \A other \in Requests \ {call[c].request} : code[other] # call[c].code
  PROVE  /\ call[c].request \in Requests \ Coded
         /\ call[c].code = Cardinality(Coded) + 1
         /\ Coded' = Coded \cup {call[c].request}
         /\ Cardinality(Coded') = Cardinality(Coded) + 1
         /\ code' = [code EXCEPT ![call[c].request] = Cardinality(Coded) + 1]
<1> DEFINE r == call[c].request
<1>1. call[c] \in Call /\ call[c].at = "write" /\ Submitting(c)
  BY DEF Submit, At, Running, Submitting, IInv, TypeOK
<1>2. SubmitFits(c)
  BY <1>1 DEF CodeInv
<1>3. r \in Requests \ Coded
  BY <1>1, <1>2 DEF SubmitFits, Coded, Call
<1>4. call[c].code \in 1 .. Cardinality(Coded) + 1
  BY <1>1, <1>2 DEF SubmitFits
<1>5. call[c].code \notin {code[s] : s \in Coded}
  BY <1>3 DEF Coded
<1>6. {code[s] : s \in Coded} = 1 .. Cardinality(Coded)
  BY DEF CodeInv, CodesAreSequential
<1>7. Cardinality(Coded) \in Nat /\ Cardinality(Coded \cup {r}) = Cardinality(Coded) + 1
  BY <1>3, CodedIsFinite
<1>8. call[c].code = Cardinality(Coded) + 1
  BY <1>4, <1>5, <1>6, <1>7
<1>9. code' = [code EXCEPT ![r] = Cardinality(Coded) + 1]
  BY <1>8 DEF Submit
<1>10. Coded' = Coded \cup {r}
  <2>1. Cardinality(Coded) + 1 # NoCode
    BY <1>7 DEF NoCode
  <2> QED
    BY <1>3, <1>9, <2>1 DEF Coded, IInv, TypeOK
<1> QED
  BY <1>3, <1>7, <1>8, <1>9, <1>10

LEMMA SubmitKeepsCodes ==
  ASSUME IInv, CodeInv, NEW c \in Calls, Submit(c)
  PROVE  CodeInv'
<1> DEFINE r == call[c].request
<1>1. /\ call[c] \in Call /\ r \in Requests /\ Submitting(c) /\ UNCHANGED doubled
      /\ call'[c] = NoCall /\ \A d \in Calls \ {c} : call'[d] = call[d]
  BY DEF Submit, At, Running, Submitting, Done, IInv, TypeOK, Call
<1>2. \A d \in Calls : Submitting(d)' => d # c /\ Submitting(d) /\ call'[d] = call[d]
  BY <1>1 DEF Submitting, Running
<1>3. CASE \E other \in Requests \ {r} : code[other] = call[c].code
  <2>1. UNCHANGED <<stage, code>>
    BY <1>3 DEF Submit
  <2>2. UncodedBefore'
    BY <2>1 DEF CodeInv, UncodedBefore
  <2> QED
    BY <1>1, <1>2, <2>1, <2>2, CodesUndisturbed
<1>4. CASE ~\E other \in Requests \ {r} : code[other] = call[c].code
  <2>1. UncodedBefore'
    <3>1. stage' = [stage EXCEPT ![r] = "DEPT_HEAD_REVIEW"] /\ code' = [code EXCEPT ![r] = call[c].code]
      BY <1>4 DEF Submit
    <3> QED
      BY <1>1, <3>1 DEF CodeInv, UncodedBefore, IInv, TypeOK
  <2>2. ASSUME ~doubled PROVE CodesAreSequential' /\ \A d \in Calls : Submitting(d)' => SubmitFits(d)'
    <3> DEFINE n == Cardinality(Coded)
    <3>1. /\ r \in Requests \ Coded /\ Coded' = Coded \cup {r} /\ Cardinality(Coded') = n + 1
          /\ code' = [code EXCEPT ![r] = n + 1]
      BY <1>4, <2>2, CodeIsNext
    <3>2. n \in Nat
      BY CodedIsFinite
    <3>3. code'[r] = n + 1 /\ \A s \in Requests \ {r} : code'[s] = code[s]
      BY <1>1, <3>1 DEF IInv, TypeOK
    <3>4. {code[s] : s \in Coded} = 1 .. n /\ \A s, t \in Coded : code[s] = code[t] => s = t
      BY <2>2 DEF CodeInv, CodesAreSequential
    <3>5. Coded \subseteq Requests \ {r}
      BY <3>1 DEF Coded
    <3>6. {code'[s] : s \in Coded'} = {code[s] : s \in Coded} \cup {n + 1}
      BY <3>1, <3>3, <3>5
    <3>7. 1 .. n + 1 = (1 .. n) \cup {n + 1}
      BY <3>2
    <3>8. \A s \in Coded : code[s] # n + 1
      BY <3>2, <3>4
    <3>9. \A s, t \in Coded' : code'[s] = code'[t] => s = t
      BY <3>1, <3>3, <3>4, <3>5, <3>8
    <3>10. CodesAreSequential'
      BY <3>1, <3>4, <3>6, <3>7, <3>9 DEF CodesAreSequential
    <3>11. ASSUME NEW d \in Calls, Submitting(d)' PROVE SubmitFits(d)'
      <4>1. d # c /\ Submitting(d) /\ call'[d] = call[d]
        BY <1>2, <3>11
      <4>2. SubmitFits(d) /\ call[d] \in Call
        BY <2>2, <4>1 DEF CodeInv, Submitting, Running, IInv, TypeOK
      <4>3. call[d].request \in Requests \ {r}
        BY <1>1, <4>1, <4>2 DEF SubmitFits, Call
      <4>4. 1 .. n + 1 \subseteq 1 .. (n + 1) + 1
        BY <3>2
      <4> QED
        BY <1>2, <3>1, <3>3, <4>1, <4>2, <4>3, <4>4 DEF SubmitFits
    <3> QED
      BY <3>10, <3>11
  <2> QED
    BY <1>1, <2>1, <2>2 DEF CodeInv, CodesAreSequential
<1> QED
  BY <1>3, <1>4

LEMMA CountKeepsCodes ==
  ASSUME IInv, CodeInv, NEW c \in Calls, Count(c)
  PROVE  CodeInv'
<1>1. /\ call[c] \in Call /\ Submitting(c) /\ UNCHANGED <<stage, code, doubled>>
      /\ call'[c].verb = "submit" /\ call'[c].request = call[c].request
      /\ call'[c].code = Cardinality(Coded) + 1
      /\ \A d \in Calls \ {c} : call'[d] = call[d]
  BY DEF Count, At, Running, Submitting, requestVars, IInv, TypeOK, Call
<1>2. Coded' = Coded /\ Cardinality(Coded) \in Nat
  BY <1>1, CodedIsFinite DEF Coded
<1>3. CodesAreSequential' /\ UncodedBefore'
  BY <1>1, <1>2 DEF CodeInv, CodesAreSequential, UncodedBefore
<1>4. ASSUME ~doubled, NEW d \in Calls, Submitting(d)' PROVE SubmitFits(d)'
  <2>1. \A e \in Calls : Submitting(e)' => Submitting(e) /\ call'[e].request = call[e].request
    BY <1>1 DEF Submitting, Running
  <2>2. SubmitFits(d)
    BY <1>4, <2>1 DEF CodeInv
  <2>3. CASE d = c
    BY <1>1, <1>2, <1>4, <2>1, <2>2, <2>3 DEF SubmitFits
  <2>4. CASE d # c
    BY <1>1, <1>2, <1>4, <2>1, <2>2, <2>4 DEF SubmitFits
  <2> QED
    BY <2>3, <2>4
<1> QED
  BY <1>1, <1>3, <1>4 DEF CodeInv

LEMMA BeginKeepsCodes ==
  ASSUME IInv, CodeInv, UNCHANGED requestVars,
         NEW c \in Calls, NEW verb \in Verbs, NEW step \in Steps, NEW r \in Requests,
         NEW on, NEW kind, Begin(c, verb, step, r, on, kind),
         verb = "submit" => step = "count" /\ stage[r] = "DRAFT"
  PROVE  CodeInv'
<1>1. /\ ~Running(c) /\ call'[c].verb = verb /\ call'[c].request = r /\ call'[c].at = step
      /\ \A d \in Calls \ {c} : call'[d] = call[d]
      /\ UNCHANGED <<stage, code>>
      /\ ~doubled' => ~doubled /\ (verb = "submit" => \A d \in Calls : Submitting(d) => call[d].request # r)
  BY DEF Begin, requestVars, IInv, TypeOK, Submitting
<1>2. Coded' = Coded
  BY <1>1 DEF Coded
<1>3. CodesAreSequential' /\ UncodedBefore'
  BY <1>1, <1>2 DEF CodeInv, CodesAreSequential, UncodedBefore
<1>4. ASSUME ~doubled', NEW d \in Calls, Submitting(d)' PROVE SubmitFits(d)'
  <2>1. \A e \in Calls \ {c} : Submitting(e)' => Submitting(e) /\ SubmitFits(e)
    BY <1>1, <1>4 DEF CodeInv, Submitting, Running
  <2>2. CASE d = c
    <3>1. verb = "submit"
      BY <1>1, <1>4, <2>2 DEF Submitting
    <3>2. code[r] = NoCode
      BY <3>1 DEF CodeInv, UncodedBefore
    <3> QED
      BY <1>1, <1>4, <2>1, <2>2, <3>1, <3>2 DEF SubmitFits
  <2>3. CASE d # c
    <3>1. Submitting(c)' => call[d].request # r
      BY <1>1, <1>4, <2>1, <2>3 DEF Submitting
    <3> QED
      BY <1>1, <1>2, <1>4, <2>1, <2>3, <3>1 DEF SubmitFits
  <2> QED
    BY <2>2, <2>3
<1> QED
  BY <1>3, <1>4 DEF CodeInv

LEMMA CodesKept ==
  ASSUME IInv, CodeInv, Next
  PROVE  CodeInv'
<1>1. ASSUME NEW r \in Requests, Create(r) PROVE CodeInv'
  <2>1. UncodedBefore' /\ UNCHANGED <<code, doubled, call>>
    BY <1>1 DEF Create, CodeInv, UncodedBefore, IInv, TypeOK
  <2> QED
    BY <2>1, CodesUndisturbed DEF Submitting, Running
<1>2. ASSUME NEW c \in Calls, Start(c) PROVE CodeInv'
  <2>1. ASSUME NEW r \in Requests, NEW verb \in {"cancel", "submit"}, StartOnDraft(c, r, verb)
        PROVE  CodeInv'
    <3>1. CASE verb = "submit"
      BY <2>1, <3>1, BeginKeepsCodes DEF StartOnDraft, Verbs, Steps
    <3>2. CASE verb = "cancel"
      BY <2>1, <3>2, BeginKeepsCodes DEF StartOnDraft, Verbs, Steps
    <3> QED
      BY <3>1, <3>2
  <2>2. ASSUME NEW r \in Requests, NEW on \in ReviewStages, NEW verb \in {"approve", "return"},
               StartDecision(c, r, on, verb)
        PROVE  CodeInv'
    BY <2>2, BeginKeepsCodes DEF StartDecision, Verbs, Steps
  <2>3. ASSUME NEW r \in Requests, NEW kind \in DecidedKinds, NEW verb \in {"sign", "reject"},
               StartFollowOn(c, r, kind, verb)
        PROVE  CodeInv'
    BY <2>3, BeginKeepsCodes DEF StartFollowOn, Verbs, Steps
  <2> QED
    BY <1>2, <2>1, <2>2, <2>3 DEF Start
<1>3. ASSUME NEW c \in Calls, Running(c), ~Submitting(c), UNCHANGED <<code, doubled>>, UncodedBefore',
             Done(c) \/ \E step \in Steps : Goto(c, step)
      PROVE  CodeInv'
  <2>1. \A d \in Calls \ {c} : call'[d] = call[d]
    BY <1>3 DEF Done, Goto, IInv, TypeOK
  <2>2. ~Submitting(c)'
    <3>1. call[c] \in Call /\ call[c].verb # "submit"
      BY <1>3 DEF Submitting, Running, IInv, TypeOK
    <3>2. CASE Done(c)
      BY <3>2 DEF Done, Submitting, Running, IInv, TypeOK
    <3>3. ASSUME NEW step \in Steps, Goto(c, step) PROVE ~Submitting(c)'
      <4>1. call'[c] = [call[c] EXCEPT !.at = step]
        BY <1>3, <3>3, GotoTyped DEF IInv
      <4> QED
        BY <3>1, <4>1 DEF Submitting, Call
    <3> QED
      BY <1>3, <3>2, <3>3
  <2> QED
    BY <1>3, <2>1, <2>2, CodesUndisturbed DEF Submitting, Running
<1>4. ASSUME NEW c \in Calls, Cancel(c) PROVE CodeInv'
  <2>1. UncodedBefore'
    BY <1>4 DEF Cancel, CodeInv, UncodedBefore, IInv, TypeOK
  <2> QED
    BY <1>3, <1>4, <2>1 DEF Cancel, At, Submitting
<1>5. ASSUME NEW c \in Calls, Move(c) PROVE CodeInv'
  <2>1. NextStage(call[c].verb, call[c].on) \notin {"NONE", "DRAFT"}
    BY DEF NextStage
  <2>2. UncodedBefore'
    BY <1>5, <2>1 DEF Move, CodeInv, UncodedBefore, IInv, TypeOK
  <2>3. Done(c) \/ \E step \in Steps : Goto(c, step)
    BY <1>5 DEF Move, Steps
  <2> QED
    BY <1>3, <1>5, <2>2, <2>3 DEF Move, At, Submitting
<1>6. ASSUME NEW c \in Calls, LogDecision(c) \/ DecideFollowOn(c) \/ \E kind \in Kinds : CreateFollowOn(c, kind)
      PROVE  CodeInv'
  <2>1. UncodedBefore' /\ UNCHANGED <<code, doubled>> /\ Running(c) /\ ~Submitting(c)
    BY <1>6 DEF LogDecision, DecideFollowOn, CreateFollowOn, requestVars, CodeInv, UncodedBefore, At, Submitting
  <2>2. Done(c) \/ \E step \in Steps : Goto(c, step)
    BY <1>6 DEF LogDecision, DecideFollowOn, CreateFollowOn, Steps
  <2> QED
    BY <1>3, <2>1, <2>2
<1>7. CASE Crash
  <2>1. UncodedBefore' /\ UNCHANGED <<code, doubled>> /\ \A c \in Calls : call'[c] = NoCall
    BY <1>7 DEF Crash, requestVars, CodeInv, UncodedBefore
  <2> QED
    BY <2>1, CodesUndisturbed DEF Submitting, Running
<1> QED
  BY <1>1, <1>2, <1>4, <1>5, <1>6, <1>7, CountKeepsCodes, SubmitKeepsCodes DEF Next, Continue

-----------------------------------------------------------------------------
(* The theorems.                                                            *)

LEMMA StepKeeps == IInv /\ [Next]_vars => IInv'
<1>1. ASSUME IInv, Next PROVE IInv'
  BY <1>1, TypeKept, OrderKept, CallsKeepFitting, FollowOnsKept DEF IInv
<1>2. ASSUME IInv, UNCHANGED vars PROVE IInv'
  BY <1>2 DEF vars, IInv, TypeOK, DecidedInOrder, CallsFit, ReviewFits, DeskFits, Running,
              FollowOnsUnderWay, Creating
<1> QED
  BY <1>1, <1>2

THEOREM HeadcountInvariant == Spec => []IInv
BY InitEstablishes, StepKeeps, PTL DEF Spec

\* Every variable keeps its type; codes never exceed the number of requests by
\* more than one.
THEOREM HeadcountTypeCorrect == Spec => []TypeOK
<1>1. IInv => TypeOK
  BY DEF IInv
<1> QED
  BY <1>1, HeadcountInvariant, PTL

\* No reviewer is passed over, neither of requests nor of follow-ons.
THEOREM HeadcountDecidedInOrder == Spec => []DecidedInOrder
<1>1. IInv => DecidedInOrder
  BY DEF IInv
<1> QED
  BY <1>1, HeadcountInvariant, PTL

\* Without a restart, approved requests get both their follow-ons.
THEOREM ApprovalsOpenFollowOns == Spec => []ApprovalOpensFollowOns
<1>1. IInv => ApprovalOpensFollowOns
  <2> SUFFICES ASSUME IInv, ~crashed, NEW r \in Requests, NEW k \in Kinds,
                      stage[r] = "APPROVED", follow[r][k] = "NONE"
               PROVE  \E c \in Calls : Running(c) /\ call[c].request = r /\ call[c].at \in Kinds
    BY DEF ApprovalOpensFollowOns
  <2>1. Creating(r, "office365") \/ Creating(r, "mobile")
    BY DEF IInv, FollowOnsUnderWay, Kinds
  <2> QED
    BY <2>1 DEF Creating, Kinds
<1> QED
  BY <1>1, HeadcountInvariant, PTL

\* The codes of the year are 1, 2, ..., n, each given once, as long as no
\* request is submitted twice at the same time.
THEOREM CodesHaveNoGap == Spec => []CodesAreSequential
<1>1. ASSUME IInv, CodeInv, [Next]_vars PROVE CodeInv'
  <2>1. CASE UNCHANGED vars
    BY <1>1, <2>1 DEF vars, CodeInv, CodesAreSequential, UncodedBefore, Submitting, SubmitFits,
       Running, Coded
  <2> QED
    BY <1>1, <2>1, CodesKept
<1>2. CodeInv => CodesAreSequential
  BY DEF CodeInv
<1> QED
  BY <1>1, <1>2, CodeInvInitially, HeadcountInvariant, PTL DEF Spec

=============================================================================
