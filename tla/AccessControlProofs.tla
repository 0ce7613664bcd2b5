--------------------------- MODULE AccessControlProofs ---------------------------
(***************************************************************************)
(* Proofs about AccessControl: types, and how old what a backend decides by  *)
(* can be.  The bound adds up over a chain of three holders of one answer,   *)
(* Node's cache, the request on its way, Python's cache; the invariant says  *)
(* how much each of them may have added by now.                              *)
(***************************************************************************)
EXTENDS AccessControl, TLAPS

-----------------------------------------------------------------------------
(* Types.                                                                   *)

LEMMA AccessIsAnAnswer ==
  ASSUME NEW groups, NEW rows
  PROVE  Access(groups, rows) \in Answers
  BY DEF Access, Answers

LEMMA OlderIsAnAge ==
  ASSUME NEW age \in 0 .. Oldest
  PROVE  Older(age) \in 0 .. Oldest
  BY AccessControlAssumption DEF Older, Oldest

\* The answer of a request.
LEMMA AnsweredTypes ==
  ASSUME TypeOK, NEW c \in Calls, Running(c),
         NEW rows \in SUBSET Columns, NEW since \in 0 .. Oldest, Answered(c, rows, since)
  PROVE  call' \in [Calls -> Call \cup {NoCall}]
<1> DEFINE groups == call[c].groups
           ans == [call[c] EXCEPT !.at = "answered", !.groups = {}, !.rows = {},
                     !.answer = Access(groups, rows), !.since = IF groups = {} THEN 0 ELSE since]
<1>1. call[c] \in Call  BY DEF TypeOK, Running
<1>2. Access(groups, rows) \in Answers  BY AccessIsAnAnswer
<1>3. (IF groups = {} THEN 0 ELSE since) \in 0 .. Oldest
  BY AccessControlAssumption DEF Oldest
<1>4. ans \in Call  BY <1>1, <1>2, <1>3 DEF Call, Steps
<1>5. call' = [call EXCEPT ![c] = ans]  BY <1>1 DEF Answered, Call, TypeOK
<1> QED  BY <1>4, <1>5 DEF TypeOK

LEMMA BeginTypes ==
  ASSUME TypeOK, NEW c \in Calls, NEW who \in {"browser", "python", "officer"},
         NEW step \in Steps, NEW groups \in SUBSET Groups, Begin(c, who, step, groups)
  PROVE  call' \in [Calls -> Call \cup {NoCall}]
<1>1. [by |-> who, at |-> step, groups |-> groups, rows |-> {}, answer |-> "none",
        since |-> 0, age |-> 0] \in Call
  BY AccessControlAssumption DEF Call, Answers, Oldest
<1> QED  BY <1>1 DEF Begin, TypeOK

LEMMA AgedNodeTypes ==
  ASSUME NEW entry \in NodeEntry \cup {NoEntry}
  PROVE  Aged(entry) \in NodeEntry \cup {NoEntry}
<1> SUFFICES ASSUME entry # NoEntry, entry.age # Lifetime, entry \in NodeEntry
    PROVE [entry EXCEPT !.age = @ + 1, !.since = Older(@)] \in NodeEntry
  BY DEF Aged
<1>1. Older(entry.since) \in 0 .. Oldest  BY OlderIsAnAge DEF NodeEntry
<1>2. entry.age + 1 \in 0 .. Lifetime  BY AccessControlAssumption DEF NodeEntry
<1> QED  BY <1>1, <1>2 DEF NodeEntry

LEMMA AgedPyTypes ==
  ASSUME NEW entry \in PyEntry \cup {NoEntry}
  PROVE  Aged(entry) \in PyEntry \cup {NoEntry}
<1> SUFFICES ASSUME entry # NoEntry, entry.age # Lifetime, entry \in PyEntry
    PROVE [entry EXCEPT !.age = @ + 1, !.since = Older(@)] \in PyEntry
  BY DEF Aged
<1>1. Older(entry.since) \in 0 .. Oldest  BY OlderIsAnAge DEF PyEntry
<1>2. entry.age + 1 \in 0 .. Lifetime  BY AccessControlAssumption DEF PyEntry
<1> QED  BY <1>1, <1>2 DEF PyEntry

LEMMA AgedCallTypes ==
  ASSUME TypeOK, NEW c \in Calls
  PROVE  AgedCall(c) \in Call \cup {NoCall}
<1> SUFFICES ASSUME Running(c), call[c].by # "officer"
    PROVE [call[c] EXCEPT !.age = IF Slow THEN 0 ELSE 1,
             !.since = IF call[c].at \in {"cells", "answered"} THEN Older(@) ELSE 0] \in Call
  BY DEF AgedCall, TypeOK
<1> DEFINE age == IF Slow THEN 0 ELSE 1
           since == IF call[c].at \in {"cells", "answered"} THEN Older(call[c].since) ELSE 0
<1>1. call[c] \in Call  BY DEF TypeOK, Running
<1>2. Older(call[c].since) \in 0 .. Oldest  BY <1>1, OlderIsAnAge DEF Call
<1>3. age \in 0 .. 1 /\ since \in 0 .. Oldest
  BY <1>2, AccessControlAssumption DEF Oldest
<1>4. [call[c] EXCEPT !.age = age, !.since = since] \in Call
  BY <1>1, <1>3 DEF Call
<1> QED  BY <1>4

LEMMA KeepNoneTypes == KeepNone \in PyEntry
  BY AccessControlAssumption DEF KeepNone, PyEntry, Answers, Oldest

\* A request taken from Python is nobody's, or over.
LEMMA AbandonedTypes ==
  ASSUME NEW x \in Call
  PROVE  (IF x.at = "sent" THEN NoCall ELSE [x EXCEPT !.by = "browser"]) \in Call \cup {NoCall}
  BY DEF Call

LEMMA TypeStep == TypeOK /\ [Next]_vars => TypeOK'
<1> SUFFICES ASSUME TypeOK, [Next]_vars PROVE TypeOK'  OBVIOUS
<1> USE DEF TypeOK
<1>0. CASE UNCHANGED vars  BY <1>0 DEF vars
<1>1. ASSUME Act PROVE acts' \in 0 .. MaxActs  BY <1>1, AccessControlAssumption DEF Act
<1>2. ASSUME NEW c \in Calls, NEW group \in Columns, NEW permitted \in BOOLEAN,
             SetCell(c, group, permitted)
      PROVE TypeOK'
  <2>1. call' \in [Calls -> Call \cup {NoCall}]
    BY <1>2, BeginTypes DEF SetCell, Steps
  <2> QED  BY <1>1, <1>2, <2>1 DEF SetCell
<1>3. ASSUME NEW c \in Calls, ResetMatrix(c) PROVE TypeOK'
  <2>1. call' \in [Calls -> Call \cup {NoCall}]
    BY <1>3, BeginTypes DEF ResetMatrix, Steps
  <2> QED  BY <1>1, <1>3, <2>1, AccessControlAssumption DEF ResetMatrix
<1>4. ASSUME NEW c \in Calls, Open(c) PROVE TypeOK'
  <2>1. call' \in [Calls -> Call \cup {NoCall}]
    BY <1>4, BeginTypes DEF Open, Steps
  <2> QED  BY <1>4, <2>1 DEF Open
<1>5. ASSUME NEW c \in Calls, Ask(c) PROVE TypeOK'
  <2>1. call' \in [Calls -> Call \cup {NoCall}]
    BY <1>5, BeginTypes DEF Ask, Steps
  <2> QED  BY <1>5, <2>1 DEF Ask
<1>6. ASSUME NEW c \in Calls, Unanswered(c) PROVE TypeOK'
  <2>1. call[c] \in Call  BY <1>6 DEF Unanswered, Running
  <2>2. call' \in [Calls -> Call \cup {NoCall}]
    BY <1>6, <2>1, AbandonedTypes DEF Unanswered
  <2> QED  BY <1>1, <1>6, <2>2, KeepNoneTypes DEF Unanswered
<1>7. ASSUME NEW c \in Calls, Invalidate(c) PROVE TypeOK'
  BY <1>7 DEF Invalidate
<1>8. ASSUME NEW c \in Calls, Resolve(c) PROVE TypeOK'
  <2>1. call[c] \in Call  BY <1>8 DEF Resolve, At, Running
  <2>2. [call[c] EXCEPT !.at = "matrix", !.groups = member] \in Call
    BY <2>1 DEF Call, Steps
  <2>3. call' = [call EXCEPT ![c] = [call[c] EXCEPT !.at = "matrix", !.groups = member]]
    BY <1>8 DEF Resolve
  <2> QED  BY <1>8, <2>2, <2>3 DEF Resolve
<1>9. ASSUME NEW c \in Calls, UseMatrix(c) PROVE TypeOK'
  <2>1. Running(c)  BY <1>9 DEF UseMatrix, At
  <2>2. CASE Answered(c, {}, 0)
    <3>1. 0 \in 0 .. Oldest  BY AccessControlAssumption DEF Oldest
    <3> QED  BY <1>9, <2>1, <2>2, <3>1, AnsweredTypes DEF UseMatrix
  <2>3. CASE nodeCache # NoEntry /\ Answered(c, nodeCache.rows, nodeCache.since)
    <3>1. nodeCache.rows \in SUBSET Columns /\ nodeCache.since \in 0 .. Oldest
      BY <2>3 DEF NodeEntry
    <3> QED  BY <1>9, <2>1, <2>3, <3>1, AnsweredTypes DEF UseMatrix
  <2> QED  BY <1>9, <2>2, <2>3 DEF UseMatrix
<1>10. ASSUME NEW c \in Calls, ReadCells(c) PROVE TypeOK'
  <2>1. call[c] \in Call  BY <1>10 DEF ReadCells, At, Running
  <2>2. 0 \in 0 .. Oldest  BY AccessControlAssumption DEF Oldest
  <2>3. [call[c] EXCEPT !.at = "cells", !.rows = allowed, !.since = 0] \in Call
    BY <2>1, <2>2 DEF Call, Steps
  <2>4. call' = [call EXCEPT ![c] =
                   [call[c] EXCEPT !.at = "cells", !.rows = allowed, !.since = 0]]
    BY <1>10 DEF ReadCells
  <2> QED  BY <1>10, <2>3, <2>4 DEF ReadCells
<1>11. ASSUME NEW c \in Calls, StoreMatrix(c) PROVE TypeOK'
  <2>1. Running(c) /\ call[c] \in Call  BY <1>11 DEF StoreMatrix, At, Running
  <2>2. call[c].rows \in SUBSET Columns /\ call[c].since \in 0 .. Oldest
    BY <2>1 DEF Call
  <2>3. call' \in [Calls -> Call \cup {NoCall}]
    BY <1>11, <2>1, <2>2, AnsweredTypes DEF StoreMatrix
  <2>4. nodeCache' \in NodeEntry
    BY <1>11, <2>2, AccessControlAssumption DEF StoreMatrix, NodeEntry
  <2> QED  BY <1>11, <2>3, <2>4 DEF StoreMatrix
<1>12. ASSUME NEW c \in Calls, Answer(c) PROVE TypeOK'
  BY <1>12 DEF Answer
<1>13. ASSUME NEW c \in Calls, Keep(c) PROVE TypeOK'
  <2>1. call[c] \in Call  BY <1>13 DEF Keep, At, Running
  <2>2. pyCache' \in PyEntry
    BY <1>13, <2>1, AccessControlAssumption DEF Keep, PyEntry, Call
  <2> QED  BY <1>13, <2>2 DEF Keep
<1>14. ASSUME NEW group \in Groups, NEW joined \in BOOLEAN, SetMember(group, joined)
       PROVE TypeOK'
  BY <1>1, <1>14 DEF SetMember
<1>15. CASE Tick
  <2>1. nodeCache' \in NodeEntry \cup {NoEntry} /\ pyCache' \in PyEntry \cup {NoEntry}
    BY <1>15, AgedNodeTypes, AgedPyTypes DEF Tick
  <2>2. call' \in [Calls -> Call \cup {NoCall}]  BY <1>15, AgedCallTypes DEF Tick
  <2>3. slow' \in BOOLEAN  BY <1>15 DEF Tick, Slow
  <2> QED  BY <1>15, <2>1, <2>2, <2>3 DEF Tick
<1>16. CASE NodeExpires  BY <1>16 DEF NodeExpires
<1>17. CASE PythonExpires  BY <1>17 DEF PythonExpires
<1>18. CASE RestartNode
  <2>1. pyCache' \in PyEntry \cup {NoEntry}  BY <1>18, KeepNoneTypes DEF RestartNode
  <2> QED  BY <1>1, <1>18, <2>1 DEF RestartNode
<1>19. CASE RestartPython
  <2>1. \A c \in Calls : Running(c) => call[c] \in Call  BY DEF Running
  <2>2. call' \in [Calls -> Call \cup {NoCall}]
    BY <1>19, <2>1, AbandonedTypes DEF RestartPython
  <2> QED  BY <1>1, <1>19, <2>2 DEF RestartPython
<1> QED
  BY <1>0, <1>2, <1>3, <1>4, <1>5, <1>6, <1>7, <1>8, <1>9, <1>10, <1>11, <1>12, <1>13,
     <1>14, <1>15, <1>16, <1>17, <1>18, <1>19 DEF Next, Step

LEMMA TypeInit == Init => TypeOK
<1> SUFFICES ASSUME Init PROVE TypeOK  OBVIOUS
<1>1. acts \in 0 .. MaxActs  BY AccessControlAssumption DEF Init
<1>2. allowed \subseteq Columns /\ member \subseteq Groups
  BY AccessControlAssumption DEF Init
<1>3. call \in [Calls -> Call \cup {NoCall}]  BY DEF Init
<1> QED  BY <1>1, <1>2, <1>3 DEF Init, TypeOK

\* Whatever overlaps, expires, restarts or stays unanswered: what the caches
\* and the requests under way hold is of the type of a matrix or an answer,
\* of an age that its cache allows.
THEOREM AccessTypeCorrect == Spec => []TypeOK
  BY TypeInit, TypeStep, PTL DEF Spec

-----------------------------------------------------------------------------
(* Ages.                                                                    *)

\* How long ago the matrix was read that a request carries: at "cells" within
\* the request's own life, later at most as long before it as an entry of
\* Node's cache can have been.
CallIsRecent(x) ==
  /\ x.at = "cells" => x.since <= x.age
  /\ x.at = "answered" => x.since <= Lifetime + 1 + x.age

\* An entry was at most a tick old when it was stored in Node, and at most a
\* whole life of Node's entry and two ticks when it was stored in Python.
NodeIsRecent(entry) == entry # NoEntry => entry.since <= entry.age + 1
PythonIsRecent(entry) == entry # NoEntry => entry.since <= Lifetime + 2 + entry.age

\* The officer's edit reads nothing of a user.
Officers == \A c \in Calls : Running(c) /\ call[c].by = "officer" => call[c].at = "invalidate"

Recent ==
  /\ NodeIsRecent(nodeCache) /\ PythonIsRecent(pyCache)
  /\ \A c \in Calls : Running(c) => CallIsRecent(call[c])

AgesInv == TypeOK /\ Officers /\ (~slow => Recent)

LEMMA OfficersStep == TypeOK /\ Officers /\ [Next]_vars => Officers'
<1> SUFFICES ASSUME TypeOK, Officers, [Next]_vars, NEW c \in Calls,
                    (Running(c) /\ call[c].by = "officer")'
    PROVE call'[c].at = "invalidate"
  BY DEF Officers
<1> DEFINE WasOfficer == Running(c) /\ call[c].by = "officer"
<1>1. SUFFICES call'[c].at = "invalidate" \/ (WasOfficer /\ call'[c].at = call[c].at)
  BY DEF Officers
<1>2. Running(c) => call[c] \in Call  BY DEF TypeOK, Running
<1> USE DEF TypeOK, Running
<1>3. CASE UNCHANGED vars  BY <1>3 DEF vars
<1>4. ASSUME NEW d \in Calls, NEW who, NEW step, NEW groups, Begin(d, who, step, groups),
             who = "officer" => step = "invalidate"
      PROVE call'[c].at = "invalidate" \/ (WasOfficer /\ call'[c].at = call[c].at)
  BY <1>4 DEF Begin
<1>5. ASSUME NEW d \in Calls, NEW rows, NEW since, Running(d), call[d].by # "officer",
             Answered(d, rows, since)
      PROVE WasOfficer /\ call'[c].at = call[c].at
  <2>1. call[d] \in Call  BY <1>5
  <2>2. call'[d].by = call[d].by  BY <1>5, <2>1 DEF Answered, Call
  <2>3. c # d  BY <1>5, <2>2
  <2> QED  BY <1>5, <2>3 DEF Answered
<1>6. ASSUME NEW d \in Calls, Running(d), call[d].at # "invalidate" PROVE call[d].by # "officer"
  BY <1>6 DEF Officers
<1>7. ASSUME NEW d \in Calls, NEW group \in Columns, NEW permitted \in BOOLEAN,
             SetCell(d, group, permitted)
      PROVE call'[c].at = "invalidate" \/ (WasOfficer /\ call'[c].at = call[c].at)
  BY <1>4, <1>7 DEF SetCell
<1>8. ASSUME NEW d \in Calls, ResetMatrix(d)
      PROVE call'[c].at = "invalidate" \/ (WasOfficer /\ call'[c].at = call[c].at)
  BY <1>4, <1>8 DEF ResetMatrix
<1>9. ASSUME NEW d \in Calls, Open(d) \/ Ask(d)
      PROVE call'[c].at = "invalidate" \/ (WasOfficer /\ call'[c].at = call[c].at)
  BY <1>4, <1>9 DEF Open, Ask
<1>10. ASSUME NEW x \in Call
       PROVE LET y == IF x.at = "sent" THEN NoCall ELSE [x EXCEPT !.by = "browser"]
             IN  y # NoCall => y.by # "officer"
  BY <1>10 DEF Call
<1>11. ASSUME NEW d \in Calls, Unanswered(d) PROVE WasOfficer /\ call'[c].at = call[c].at
  <2>1. call[d] \in Call  BY <1>11 DEF Unanswered
  <2>2. c # d  BY <1>10, <1>11, <2>1 DEF Unanswered
  <2> QED  BY <1>11, <2>2 DEF Unanswered
<1>12. ASSUME NEW d \in Calls, Invalidate(d) \/ Answer(d) \/ Keep(d)
       PROVE WasOfficer /\ call'[c].at = call[c].at
  <2>1. call' = [call EXCEPT ![d] = NoCall]  BY <1>12 DEF Invalidate, Answer, Keep
  <2> QED  BY <2>1
<1>13. ASSUME NEW d \in Calls, Resolve(d) PROVE WasOfficer /\ call'[c].at = call[c].at
  <2>1. call[d] \in Call /\ call[d].by # "officer"  BY <1>6, <1>13 DEF Resolve, At
  <2>2. call'[d].by = call[d].by  BY <1>13, <2>1 DEF Resolve, Call
  <2> QED  BY <1>13, <2>1, <2>2 DEF Resolve
<1>14. ASSUME NEW d \in Calls, UseMatrix(d) \/ StoreMatrix(d)
       PROVE WasOfficer /\ call'[c].at = call[c].at
  <2>1. Running(d) /\ call[d].by # "officer"  BY <1>6, <1>14 DEF UseMatrix, StoreMatrix, At
  <2> QED  BY <1>5, <1>14, <2>1 DEF UseMatrix, StoreMatrix
<1>15. ASSUME NEW d \in Calls, ReadCells(d) PROVE WasOfficer /\ call'[c].at = call[c].at
  <2>1. call[d] \in Call /\ call[d].by # "officer"  BY <1>6, <1>15 DEF ReadCells, At
  <2>2. call'[d].by = call[d].by  BY <1>15, <2>1 DEF ReadCells, Call
  <2> QED  BY <1>15, <2>1, <2>2 DEF ReadCells
<1>16. ASSUME NEW group \in Groups, NEW joined \in BOOLEAN, SetMember(group, joined)
       PROVE WasOfficer /\ call'[c].at = call[c].at
  BY <1>16 DEF SetMember
<1>17. CASE Tick
  <2>1. call'[c] = AgedCall(c)  BY <1>17 DEF Tick
  <2> QED  BY <1>2, <2>1 DEF AgedCall, Call
<1>18. CASE NodeExpires \/ PythonExpires  BY <1>18 DEF NodeExpires, PythonExpires
<1>19. CASE RestartNode  BY <1>19 DEF RestartNode
<1>20. CASE RestartPython
  <2>1. CASE Running(c) /\ call[c].by = "python"
    BY <1>2, <1>10, <1>20, <2>1 DEF RestartPython
  <2>2. CASE ~(Running(c) /\ call[c].by = "python")
    BY <1>20, <2>2 DEF RestartPython
  <2> QED  BY <2>1, <2>2
<1> QED
  BY <1>1, <1>3, <1>7, <1>8, <1>9, <1>11, <1>12, <1>13, <1>14, <1>15, <1>16, <1>17, <1>18,
     <1>19, <1>20 DEF Next, Step

\* A tick ages what is held by at most one.
LEMMA OlderByOne ==
  ASSUME NEW age \in 0 .. Oldest, ~Slow
  PROVE  Older(age) \in 0 .. Oldest /\ Older(age) <= age + 1
  BY OlderIsAnAge, AccessControlAssumption DEF Older, Oldest

LEMMA NodeTick ==
  ASSUME NEW entry \in NodeEntry \cup {NoEntry}, ~Slow, NodeIsRecent(entry)
  PROVE  NodeIsRecent(Aged(entry))
<1> SUFFICES ASSUME entry # NoEntry, entry.age # Lifetime, entry \in NodeEntry
    PROVE LET next == [entry EXCEPT !.age = @ + 1, !.since = Older(@)]
          IN  next.since <= next.age + 1
  BY DEF Aged, NodeIsRecent
<1>1. Older(entry.since) <= entry.since + 1 /\ Older(entry.since) \in 0 .. Oldest
  BY OlderByOne DEF NodeEntry
<1>2. entry.since <= entry.age + 1  BY DEF NodeIsRecent
<1>3. entry.since \in Int /\ entry.age \in Int /\ Older(entry.since) \in Int
  BY <1>1, AccessControlAssumption DEF NodeEntry, Oldest
<1>4. Older(entry.since) <= (entry.age + 1) + 1  BY <1>1, <1>2, <1>3
<1> QED  BY <1>4 DEF NodeEntry

LEMMA PythonTick ==
  ASSUME NEW entry \in PyEntry \cup {NoEntry}, ~Slow, PythonIsRecent(entry)
  PROVE  PythonIsRecent(Aged(entry))
<1> SUFFICES ASSUME entry # NoEntry, entry.age # Lifetime, entry \in PyEntry
    PROVE LET next == [entry EXCEPT !.age = @ + 1, !.since = Older(@)]
          IN  next.since <= Lifetime + 2 + next.age
  BY DEF Aged, PythonIsRecent
<1>1. Older(entry.since) <= entry.since + 1 /\ Older(entry.since) \in 0 .. Oldest
  BY OlderByOne DEF PyEntry
<1>2. entry.since <= Lifetime + 2 + entry.age  BY DEF PythonIsRecent
<1>3. entry.since \in Int /\ entry.age \in Int /\ Older(entry.since) \in Int /\ Lifetime \in Int
  BY <1>1, AccessControlAssumption DEF PyEntry, Oldest
<1>4. Older(entry.since) <= Lifetime + 2 + (entry.age + 1)  BY <1>1, <1>2, <1>3
<1> QED  BY <1>4 DEF PyEntry

\* A request that is not slow by the end of a tick began during it.
LEMMA CallTick ==
  ASSUME TypeOK, Officers, NEW c \in Calls, ~Slow, Running(c) => CallIsRecent(call[c]),
         AgedCall(c) # NoCall
  PROVE  CallIsRecent(AgedCall(c))
<1>1. CASE ~Running(c)  BY <1>1 DEF AgedCall, Running
<1>2. CASE Running(c) /\ call[c].by = "officer"
  BY <1>2 DEF AgedCall, Officers, CallIsRecent
<1>3. CASE Running(c) /\ call[c].by # "officer"
  <2> DEFINE x == call[c]
             since == IF x.at \in {"cells", "answered"} THEN Older(x.since) ELSE 0
  <2>1. x \in Call  BY <1>3 DEF TypeOK, Running
  <2>2. x.age = 0  BY <1>3, <2>1 DEF Slow, Call
  <2>3. x.since \in Int /\ Lifetime \in Int /\ Older(x.since) \in Int
        /\ Older(x.since) <= x.since + 1
    BY <2>1, OlderByOne, AccessControlAssumption DEF Call, Oldest
  <2>4. AgedCall(c) = [x EXCEPT !.age = 1, !.since = since]
    BY <1>3 DEF AgedCall
  <2>5. AgedCall(c).age = 1 /\ AgedCall(c).since = since /\ AgedCall(c).at = x.at
    BY <2>1, <2>4 DEF Call
  <2>6. CASE x.at = "cells"
    BY <1>3, <2>2, <2>3, <2>5, <2>6 DEF CallIsRecent
  <2>7. CASE x.at = "answered"
    BY <1>3, <2>2, <2>3, <2>5, <2>7 DEF CallIsRecent
  <2>8. CASE x.at \notin {"cells", "answered"}
    BY <2>5, <2>8 DEF CallIsRecent
  <2> QED  BY <2>6, <2>7, <2>8
<1> QED  BY <1>1, <1>2, <1>3

\* What a request is answered with is as recent as the matrix it got.
LEMMA AnsweredIsRecent ==
  ASSUME TypeOK, NEW c \in Calls, Running(c), NEW rows, NEW since \in 0 .. Oldest,
         since <= Lifetime + 1 + call[c].age, Answered(c, rows, since)
  PROVE  CallIsRecent(call'[c]) /\ \A d \in Calls \ {c} : call'[d] = call[d]
<1>1. call[c] \in Call  BY DEF TypeOK, Running
<1> DEFINE s == IF call[c].groups = {} THEN 0 ELSE since
<1>2. call'[c].at = "answered" /\ call'[c].since = s /\ call'[c].age = call[c].age
  BY <1>1 DEF Answered, TypeOK, Call
<1>3. 0 <= Lifetime + 1 + call[c].age
  BY <1>1, AccessControlAssumption DEF Call
<1>4. s <= Lifetime + 1 + call[c].age  BY <1>3
<1>5. CallIsRecent(call'[c])  BY <1>2, <1>4 DEF CallIsRecent
<1> QED  BY <1>5 DEF Answered, TypeOK

LEMMA RecentStep == AgesInv /\ TypeOK' /\ [Next]_vars => (~slow => Recent)'
<1> SUFFICES ASSUME AgesInv, TypeOK', [Next]_vars, ~slow' PROVE Recent'  OBVIOUS
<1> DEFINE CallsRecent == \A c \in Calls : Running(c) => CallIsRecent(call[c])
<1> USE DEF AgesInv
<1>1. ~slow
  BY DEF Next, vars, SetCell, ResetMatrix, Open, Ask, Unanswered, Step, Invalidate, Resolve,
         UseMatrix, ReadCells, StoreMatrix, Answer, Keep, SetMember, Tick, Slow, NodeExpires,
         PythonExpires, RestartNode, RestartPython
<1>2. Recent  BY <1>1
<1>3. CASE UNCHANGED vars
  BY <1>2, <1>3 DEF vars, Recent, NodeIsRecent, PythonIsRecent, Running
<1>4. ASSUME NEW c \in Calls, NEW who, NEW step \in {"sent", "matrix", "invalidate"}, NEW groups,
             Begin(c, who, step, groups)
      PROVE CallsRecent'
  BY <1>2, <1>4 DEF Begin, Recent, Running, CallIsRecent, TypeOK
<1>5. ASSUME NEW c \in Calls, call' = [call EXCEPT ![c] = NoCall] PROVE CallsRecent'
  BY <1>2, <1>5 DEF Recent, Running, TypeOK
<1>6. ASSUME NEW c \in Calls,
             \/ \E group \in Columns, permitted \in BOOLEAN : SetCell(c, group, permitted)
             \/ ResetMatrix(c) \/ Open(c) \/ Ask(c)
      PROVE Recent'
  <2>1. CallsRecent'  BY <1>4, <1>6 DEF SetCell, ResetMatrix, Open, Ask
  <2> QED
    BY <1>2, <1>6, <2>1
    DEF SetCell, ResetMatrix, Open, Ask, Recent, NodeIsRecent, PythonIsRecent
<1>7. PythonIsRecent(KeepNone)
  BY AccessControlAssumption DEF PythonIsRecent, KeepNone
<1>8. ASSUME NEW x \in Call, CallIsRecent(x)
      PROVE LET y == IF x.at = "sent" THEN NoCall ELSE [x EXCEPT !.by = "browser"]
            IN  y # NoCall => CallIsRecent(y)
  BY <1>8 DEF Call, CallIsRecent
<1>9. ASSUME NEW c \in Calls, Unanswered(c) PROVE Recent'
  <2>1. call[c] \in Call /\ CallIsRecent(call[c])
    BY <1>2, <1>9 DEF Unanswered, Recent, TypeOK, Running
  <2>2. CallsRecent'
    BY <1>2, <1>8, <1>9, <2>1 DEF Unanswered, Recent, Running, TypeOK
  <2> QED  BY <1>2, <1>7, <1>9, <2>2 DEF Unanswered, Recent, NodeIsRecent
<1>10. ASSUME NEW c \in Calls, Invalidate(c) PROVE Recent'
  BY <1>2, <1>5, <1>10 DEF Invalidate, Recent, NodeIsRecent, PythonIsRecent
<1>11. ASSUME NEW c \in Calls, Resolve(c) PROVE Recent'
  <2>1. call[c] \in Call  BY <1>11 DEF Resolve, At, Running, TypeOK
  <2>2. call'[c].at = "matrix" /\ \A d \in Calls \ {c} : call'[d] = call[d]
    BY <1>11, <2>1 DEF Resolve, Call, TypeOK
  <2>3. CallsRecent'  BY <1>2, <2>2 DEF Recent, CallIsRecent, Running
  <2> QED  BY <1>2, <1>11, <2>3 DEF Resolve, Recent, NodeIsRecent, PythonIsRecent
<1>12. ASSUME NEW c \in Calls, UseMatrix(c) PROVE Recent'
  <2>1. Running(c) /\ call[c] \in Call  BY <1>12 DEF UseMatrix, At, Running, TypeOK
  <2>2. PICK rows \in SUBSET Columns, since \in 0 .. Oldest :
          /\ Answered(c, rows, since)
          /\ since <= Lifetime + 1 + call[c].age
    <3>1. CASE Answered(c, {}, 0)
      <4>1. 0 \in 0 .. Oldest /\ 0 <= Lifetime + 1 + call[c].age
        BY <2>1, AccessControlAssumption DEF Oldest, Call
      <4> QED  BY <3>1, <4>1
    <3>2. CASE nodeCache # NoEntry /\ Answered(c, nodeCache.rows, nodeCache.since)
      <4>1. nodeCache \in NodeEntry /\ nodeCache.since <= nodeCache.age + 1
        BY <1>2, <3>2 DEF Recent, NodeIsRecent, TypeOK
      <4>2. nodeCache.since \in 0 .. Oldest /\ nodeCache.rows \in SUBSET Columns
        BY <4>1 DEF NodeEntry
      <4>3. nodeCache.since <= Lifetime + 1 + call[c].age
        BY <2>1, <4>1, AccessControlAssumption DEF NodeEntry, Call, Oldest
      <4> QED  BY <3>2, <4>2, <4>3
    <3> QED  BY <1>12, <3>1, <3>2 DEF UseMatrix
  <2>3. CallsRecent'  BY <1>2, <2>1, <2>2, AnsweredIsRecent DEF Recent, Running
  <2> QED  BY <1>2, <1>12, <2>3 DEF UseMatrix, Recent, NodeIsRecent, PythonIsRecent
<1>13. ASSUME NEW c \in Calls, ReadCells(c) PROVE Recent'
  <2>1. call[c] \in Call  BY <1>13 DEF ReadCells, At, Running, TypeOK
  <2>2. /\ call'[c].at = "cells" /\ call'[c].since = 0 /\ call'[c].age = call[c].age
        /\ \A d \in Calls \ {c} : call'[d] = call[d]
    BY <1>13, <2>1 DEF ReadCells, Call, TypeOK
  <2>3. CallIsRecent(call'[c])  BY <2>1, <2>2 DEF CallIsRecent, Call
  <2>4. CallsRecent'  BY <1>2, <2>2, <2>3 DEF Recent, Running
  <2> QED  BY <1>2, <1>13, <2>4 DEF ReadCells, Recent, NodeIsRecent, PythonIsRecent
<1>14. ASSUME NEW c \in Calls, StoreMatrix(c) PROVE Recent'
  <2>1. Running(c) /\ call[c] \in Call /\ call[c].at = "cells"
    BY <1>14 DEF StoreMatrix, At, Running, TypeOK
  <2>2. call[c].since <= call[c].age  BY <1>2, <2>1 DEF Recent, CallIsRecent
  <2>3. call[c].since \in 0 .. Oldest /\ call[c].since \in Int /\ call[c].age \in 0 .. 1
    BY <2>1, AccessControlAssumption DEF Call, Oldest
  <2>4. call[c].since <= Lifetime + 1 + call[c].age
    BY <2>2, <2>3, AccessControlAssumption
  <2>5. CallsRecent'
    BY <1>2, <1>14, <2>1, <2>3, <2>4, AnsweredIsRecent DEF StoreMatrix, Recent, Running
  <2>6. NodeIsRecent(nodeCache')
    BY <1>14, <2>2, <2>3 DEF StoreMatrix, NodeIsRecent
  <2> QED  BY <1>2, <1>14, <2>5, <2>6 DEF StoreMatrix, Recent, PythonIsRecent
<1>15. ASSUME NEW c \in Calls, Answer(c) PROVE Recent'
  BY <1>2, <1>5, <1>15 DEF Answer, Recent, NodeIsRecent, PythonIsRecent
<1>16. ASSUME NEW c \in Calls, Keep(c) PROVE Recent'
  <2>1. call[c] \in Call /\ call[c].since <= Lifetime + 1 + call[c].age
    BY <1>2, <1>16 DEF Keep, At, Running, TypeOK, Recent, CallIsRecent
  <2>2. call[c].since <= Lifetime + 2
    BY <2>1, AccessControlAssumption DEF Call, Oldest
  <2>3. PythonIsRecent(pyCache')
    BY <1>16, <2>2, AccessControlAssumption DEF Keep, PythonIsRecent
  <2> QED  BY <1>2, <1>5, <1>16, <2>3 DEF Keep, Recent, NodeIsRecent
<1>17. ASSUME NEW group \in Groups, NEW joined \in BOOLEAN, SetMember(group, joined)
       PROVE Recent'
  BY <1>2, <1>17 DEF SetMember, Recent, NodeIsRecent, PythonIsRecent, Running
<1>18. CASE Tick
  <2>1. ~Slow  BY <1>18 DEF Tick
  <2>2. NodeIsRecent(nodeCache') /\ PythonIsRecent(pyCache')
    BY <1>2, <1>18, <2>1, NodeTick, PythonTick DEF Tick, Recent, TypeOK
  <2>3. ASSUME NEW c \in Calls, call'[c] # NoCall PROVE CallIsRecent(call'[c])
    <3>1. call'[c] = AgedCall(c)  BY <1>18 DEF Tick
    <3> QED  BY <1>2, <2>1, <2>3, <3>1, CallTick DEF Recent
  <2>4. CallsRecent'  BY <2>3 DEF Running
  <2> QED  BY <2>2, <2>4 DEF Recent, NodeIsRecent, PythonIsRecent
<1>19. CASE NodeExpires \/ PythonExpires
  BY <1>2, <1>19 DEF NodeExpires, PythonExpires, Recent, NodeIsRecent, PythonIsRecent, Running
<1>20. CASE RestartNode
  <2>1. CallsRecent'  BY <1>20 DEF RestartNode, Running
  <2>2. PythonIsRecent(pyCache')  BY <1>2, <1>7, <1>20 DEF RestartNode, Recent
  <2> QED  BY <1>20, <2>1, <2>2 DEF RestartNode, Recent, NodeIsRecent, PythonIsRecent
<1>21. CASE RestartPython
  <2>1. ASSUME NEW c \in Calls, call'[c] # NoCall PROVE CallIsRecent(call'[c])
    <3>1. CASE Running(c) /\ call[c].by = "python"
      <4>1. call[c] \in Call /\ CallIsRecent(call[c])
        BY <1>2, <3>1 DEF Recent, TypeOK, Running
      <4>2. call'[c] = IF call[c].at = "sent" THEN NoCall ELSE [call[c] EXCEPT !.by = "browser"]
        BY <1>21, <3>1 DEF RestartPython
      <4> QED  BY <1>8, <2>1, <4>1, <4>2
    <3>2. CASE ~(Running(c) /\ call[c].by = "python")
      BY <1>2, <1>21, <2>1, <3>2 DEF RestartPython, Recent, Running
    <3> QED  BY <3>1, <3>2
  <2>2. CallsRecent'  BY <2>1 DEF Running
  <2> QED  BY <1>2, <1>21, <2>2 DEF RestartPython, Recent, NodeIsRecent, PythonIsRecent
<1> QED
  BY <1>3, <1>6, <1>9, <1>10, <1>11, <1>12, <1>13, <1>14, <1>15, <1>16, <1>17, <1>18, <1>19,
     <1>20, <1>21 DEF Next, Step

LEMMA AgesInit == Init => AgesInv
  BY TypeInit DEF Init, AgesInv, Officers, Recent, NodeIsRecent, PythonIsRecent, Running

LEMMA AgesInvariant == Spec => []AgesInv
<1>1. AgesInv /\ [Next]_vars => AgesInv'
  BY TypeStep, OfficersStep, RecentStep DEF AgesInv
<1> QED  BY <1>1, AgesInit, PTL DEF Spec

\* As long as no request takes more than a tick, Node never decides by a
\* matrix read longer ago than its cache's life and a tick, nor Python by one
\* read longer ago than twice that: whatever the life of an entry, however
\* many requests, edits, restarts and failures.
THEOREM WhatDecidesIsRecent == Spec => []DecisionsAreRecent
<1>1. AgesInv => DecisionsAreRecent
  <2> SUFFICES ASSUME AgesInv, ~slow PROVE DecisionsAreRecent  BY DEF DecisionsAreRecent
  <2>1. ASSUME nodeCache # NoEntry PROVE nodeCache.since <= Lifetime + 1
    <3>1. nodeCache \in NodeEntry /\ nodeCache.since <= nodeCache.age + 1
      BY <2>1 DEF AgesInv, TypeOK, Recent, NodeIsRecent
    <3> QED  BY <3>1, AccessControlAssumption DEF NodeEntry, Oldest
  <2>2. ASSUME pyCache # NoEntry PROVE pyCache.since <= 2 * Lifetime + 2
    <3>1. pyCache \in PyEntry /\ pyCache.since <= Lifetime + 2 + pyCache.age
      BY <2>2 DEF AgesInv, TypeOK, Recent, PythonIsRecent
    <3> QED  BY <3>1, AccessControlAssumption DEF PyEntry, Oldest
  <2> QED  BY <2>1, <2>2 DEF DecisionsAreRecent
<1> QED  BY <1>1, AgesInvariant, PTL
=============================================================================
