------------------------------ MODULE BatchProofs ------------------------------
(***************************************************************************)
(* The rows of a batch are decided in order and move together, for any      *)
(* number of rows and of overlapping calls, as long as uploads run alone.   *)
(* What makes it inductive is what a decision under way remembers: the rows *)
(* it read are still those of the batch, since only an upload changes them, *)
(* and its stage had the earlier approvals, which are never removed.        *)
(***************************************************************************)
EXTENDS BatchUploads, SequenceTheorems, TLAPS

Deciding == {"approve", "return"}

\* A header outlives its rows, and is there before the first of them.
HeaderFirst ==
  Rows # {} \/ (\E c \in Calls : Is(c, Uploads)) => header # NoBatch

CallsFit ==
  \A c \in Calls :
    /\ Is(c, Uploads) => call[c].amounts # <<>>
    /\ Is(c, Deciding) => call[c].stage \in RevenueStages
    /\ Is(c, {"approve"}) /\ call[c].begun => call[c].stage # LastStage
    /\ Finalizes(c) => \A r \in call[c].seen : call[c].read[r] # NoAmount

IInv == TypeOK /\ HeaderFirst /\ CallsFit

CallType == [Calls -> Call \cup {NoCall}]
RowType == [RowIds -> Row \cup {NoRow}]

-----------------------------------------------------------------------------
(* The stages of a Revenue batch, and the records of its rows.              *)

LEMMA StageFacts ==
  /\ DOMAIN RevenueStageOrder = 1 .. 4
  /\ RevenueStages = {RevenueStageOrder[1], RevenueStageOrder[2], RevenueStageOrder[3],
                      RevenueStageOrder[4]}
  /\ \A i, j \in 1 .. 4 : RevenueStageOrder[i] = RevenueStageOrder[j] => i = j
  /\ RevenueStages \cap {"DRAFT", "SF_VALIDATION", "APPROVED", "CANCELLED"} = {}
<1>1. DOMAIN RevenueStageOrder = 1 .. 4
  BY DEF RevenueStageOrder
<1>2. RevenueStages = {RevenueStageOrder[1], RevenueStageOrder[2], RevenueStageOrder[3],
                       RevenueStageOrder[4]}
  <2>1. 1 .. 4 = {1, 2, 3, 4}
    OBVIOUS
  <2> QED
    BY <1>1, <2>1 DEF RevenueStages, Range
<1>3. \A i, j \in 1 .. 4 : RevenueStageOrder[i] = RevenueStageOrder[j] => i = j
  BY DEF RevenueStageOrder
<1>4. RevenueStages \cap {"DRAFT", "SF_VALIDATION", "APPROVED", "CANCELLED"} = {}
  BY <1>2 DEF RevenueStageOrder
<1> QED
  BY <1>1, <1>2, <1>3, <1>4

LEMMA StageIn == \A i \in 1 .. 4 : RevenueStageOrder[i] \in RevenueStages
<1>1. 1 .. 4 = {1, 2, 3, 4}
  OBVIOUS
<1> QED
  BY <1>1, StageFacts

LEMMA Positions ==
  ASSUME NEW stage \in RevenueStages
  PROVE  Position(stage) \in 1 .. 4 /\ RevenueStageOrder[Position(stage)] = stage
<1>1. \E i \in DOMAIN RevenueStageOrder : RevenueStageOrder[i] = stage
  <2>1. 1 \in 1 .. 4 /\ 2 \in 1 .. 4 /\ 3 \in 1 .. 4 /\ 4 \in 1 .. 4
    OBVIOUS
  <2> QED
    BY <2>1, StageFacts
<1> QED
  BY <1>1, StageFacts DEF Position

LEMMA AmountsAreNumbers == RowAmounts \subseteq Int
<1>1. ASSUME NEW t \in Templates PROVE Range(t) \subseteq Int
  <2>1. t \in [1 .. Len(t) -> Int] /\ DOMAIN t = 1 .. Len(t)
    BY BatchAssumption, LenProperties
  <2> QED
    BY <2>1 DEF Range
<1> QED
  BY <1>1, BatchAssumption DEF RowAmounts

LEMMA RowsAreRows == NoRow \notin Row
BY BatchAssumption, AmountsAreNumbers DEF Row

LEMMA TemplatesTyped ==
  ASSUME NEW t \in Templates
  PROVE  t \in Seq(RowAmounts) /\ t # <<>> /\ Len(t) \in Nat
<1>1. t \in Seq(Int) /\ t # <<>>
  BY BatchAssumption
<1>2. Len(t) \in Nat /\ t \in [1 .. Len(t) -> Int] /\ DOMAIN t = 1 .. Len(t)
  BY <1>1, LenProperties
<1>3. Range(t) \subseteq RowAmounts
  BY DEF RowAmounts
<1>4. t \in [1 .. Len(t) -> RowAmounts]
  BY <1>2, <1>3 DEF Range
<1> QED
  BY <1>1, <1>2, <1>4, SeqDef

\* updateMany writes all rows there are, and their amounts stay.
LEMMA RowsUpdated ==
  ASSUME TypeOK, NEW stage \in Stages, NEW status \in Statuses \cup {"undefined"},
         UpdateRows(stage, status)
  PROVE  /\ row' \in RowType /\ Rows' = Rows
         /\ \A r \in Rows : row'[r].stage = stage
         /\ status = "undefined" => \A r \in Rows : row'[r].status = row[r].status
         /\ status # "undefined" => \A r \in Rows : row'[r].status = status
<1>1. ASSUME NEW r \in RowIds, row[r] = NoRow PROVE row'[r] = NoRow
  BY <1>1 DEF UpdateRows
<1>2. ASSUME NEW r \in RowIds, row[r] # NoRow
      PROVE  /\ row'[r] \in Row /\ row'[r] # NoRow /\ row'[r].stage = stage
             /\ status = "undefined" => row'[r].status = row[r].status
             /\ status # "undefined" => row'[r].status = status
  <2>1. row[r] \in Row
    BY <1>2 DEF TypeOK
  <2>2. row'[r] = [row[r] EXCEPT !.stage = stage, !.status = IF status = "undefined" THEN @ ELSE status]
    BY <1>2 DEF UpdateRows
  <2> QED
    BY <2>1, <2>2, RowsAreRows DEF Row
<1>3. row' = [r \in RowIds |-> row'[r]]
  BY DEF UpdateRows
<1> QED
  BY <1>1, <1>2, <1>3 DEF RowType, Rows

\* One row written by itself.
LEMMA RowUpdated ==
  ASSUME TypeOK, NEW r \in Rows, NEW new \in Row, row' = [row EXCEPT ![r] = new]
  PROVE  /\ row' \in RowType /\ Rows' = Rows /\ row'[r] = new
         /\ \A s \in Rows \ {r} : row'[s] = row[s]
BY RowsAreRows DEF TypeOK, RowType, Rows

-----------------------------------------------------------------------------
(* Types, headers and what calls hold, whatever overlaps.                   *)

LEMMA InitEstablishes == Init => IInv
<1> SUFFICES ASSUME Init PROVE IInv
  OBVIOUS
<1>1. TypeOK
  <2>1. /\ header \in [boardAtUpload : BoardAmounts \cup {NoAmount}, rowCount : Nat] \cup {NoBatch}
        /\ row \in [RowIds -> Row \cup {NoRow}]
        /\ call \in [Calls -> Call \cup {NoCall}]
    BY DEF Init
  <2>2. created \in 0 .. MaxRows
    BY BatchAssumption DEF Init
  <2>3. /\ approved \in [RowIds -> SUBSET RevenueStages]
        /\ line \in [RowIds -> RowAmounts \cup {NoAmount}]
    BY DEF Init
  <2>4. /\ category \in Categories /\ board \in BoardAmounts \cup {NoAmount}
        /\ shut \subseteq Gates /\ reviewed \subseteq RowIds /\ torn \in BOOLEAN
    BY DEF Init
  <2> QED
    BY <2>1, <2>2, <2>3, <2>4 DEF TypeOK
<1>2. HeaderFirst /\ CallsFit
  BY DEF Init, HeaderFirst, CallsFit, Rows, Is, Running, Finalizes
<1> QED
  BY <1>1, <1>2 DEF IInv

LEMMA AmountsReadTyped ==
  ASSUME TypeOK, NEW verb, NEW stage
  PROVE  /\ AmountsRead(verb, stage) \in [RowIds -> RowAmounts \cup {NoAmount}]
         /\ verb = "approve" /\ stage = LastStage =>
              \A r \in Rows : AmountsRead(verb, stage)[r] # NoAmount
<1>1. ASSUME NEW r \in Rows PROVE row[r].amount \in RowAmounts /\ row[r].amount # NoAmount
  <2>1. row[r].amount \in RowAmounts
    BY DEF TypeOK, Rows, Row
  <2> QED
    BY <2>1, AmountsAreNumbers, BatchAssumption
<1>2. Rows \subseteq RowIds
  BY DEF Rows
<1> QED
  BY <1>1, <1>2 DEF AmountsRead

LEMMA BeginTyped ==
  ASSUME TypeOK, NEW c \in Calls, NEW verb \in Verbs, NEW seen \in SUBSET RowIds,
         NEW stage \in RevenueStages \cup {"DRAFT"}, NEW amounts \in Seq(RowAmounts),
         Begin(c, verb, seen, stage, amounts)
  PROVE  /\ call' \in CallType /\ torn' \in BOOLEAN
         /\ call'[c].verb = verb /\ call'[c].seen = seen /\ call'[c].stage = stage
         /\ call'[c].amounts = amounts /\ call'[c].begun = (verb = "upload")
         /\ call'[c].read = AmountsRead(verb, stage)
         /\ \A d \in Calls \ {c} : call'[d] = call[d]
<1> DEFINE new ==
      [verb |-> verb, seen |-> seen, read |-> AmountsRead(verb, stage),
       stage |-> stage, amounts |-> amounts,
       board |-> IF verb \in Uploads THEN board ELSE NoAmount, begun |-> verb = "upload"]
<1>1. new \in Call
  <2>1. (IF verb \in Uploads THEN board ELSE NoAmount) \in BoardAmounts \cup {NoAmount}
    BY DEF TypeOK
  <2>2. (verb = "upload") \in BOOLEAN
    OBVIOUS
  <2> QED
    BY <2>1, <2>2, AmountsReadTyped DEF Call
<1>2. call' = [call EXCEPT ![c] = new]
  BY DEF Begin
<1>3. torn' \in BOOLEAN
  BY DEF Begin, TypeOK
<1>4. call' \in CallType /\ call'[c] = new /\ \A d \in Calls \ {c} : call'[d] = call[d]
  BY <1>1, <1>2 DEF TypeOK, CallType
<1> QED
  BY <1>3, <1>4

LEMMA DoneTyped ==
  ASSUME TypeOK, NEW c \in Calls, Done(c)
  PROVE  call' \in CallType /\ call'[c] = NoCall /\ \A d \in Calls \ {c} : call'[d] = call[d]
BY DEF Done, TypeOK, CallType

\* A call that goes on, in one field.
LEMMA CallBegun ==
  ASSUME TypeOK, NEW c \in Calls, Running(c), call' = [call EXCEPT ![c].begun = TRUE]
  PROVE  /\ call' \in CallType
         /\ call'[c] = [call[c] EXCEPT !.begun = TRUE]
         /\ call[c] \in Call
         /\ \A d \in Calls \ {c} : call'[d] = call[d]
BY DEF TypeOK, CallType, Running, Call

\* The rest of a template.
LEMMA RestOfTemplate ==
  ASSUME TypeOK, NEW c \in Calls, Is(c, Uploads), call[c].amounts # <<>>,
         Len(call[c].amounts) # 1, call' = [call EXCEPT ![c].amounts = Tail(@)]
  PROVE  /\ call' \in CallType
         /\ call'[c] = [call[c] EXCEPT !.amounts = Tail(@)] /\ call'[c].amounts # <<>>
         /\ call[c] \in Call
         /\ \A d \in Calls \ {c} : call'[d] = call[d]
<1>1. call[c] \in Call
  BY DEF TypeOK, Is, Running
<1>2. call[c].amounts \in Seq(RowAmounts)
  BY <1>1 DEF Call
<1>3. Tail(call[c].amounts) \in Seq(RowAmounts) /\ Len(Tail(call[c].amounts)) = Len(call[c].amounts) - 1
  BY <1>2, HeadTailProperties
<1>4. Len(call[c].amounts) \in Nat \ {0}
  BY <1>2, EmptySeq
<1>5. Tail(call[c].amounts) # <<>>
  <2>1. Len(<<>>) = 0
    OBVIOUS
  <2>2. Len(Tail(call[c].amounts)) # 0
    BY <1>3, <1>4
  <2> QED
    BY <2>1, <2>2
<1>6. [call[c] EXCEPT !.amounts = Tail(@)] \in Call
  BY <1>1, <1>3 DEF Call
<1>7. call'[c] = [call[c] EXCEPT !.amounts = Tail(@)]
  BY DEF TypeOK
<1> QED
  BY <1>1, <1>5, <1>6, <1>7 DEF TypeOK, CallType, Call

\* CallsFit reads only the calls: it is kept where they are.
LEMMA CallsStillFit ==
  ASSUME CallsFit, NEW c \in Calls, \A d \in Calls \ {c} : call'[d] = call[d],
         Is(c, Uploads)' => call'[c].amounts # <<>>,
         Is(c, Deciding)' => call'[c].stage \in RevenueStages,
         Is(c, {"approve"})' /\ call'[c].begun => call'[c].stage # LastStage,
         Finalizes(c)' => \A r \in call'[c].seen : call'[c].read[r] # NoAmount
  PROVE  CallsFit'
<1> SUFFICES ASSUME NEW d \in Calls
             PROVE  /\ Is(d, Uploads)' => call'[d].amounts # <<>>
                    /\ Is(d, Deciding)' => call'[d].stage \in RevenueStages
                    /\ Is(d, {"approve"})' /\ call'[d].begun => call'[d].stage # LastStage
                    /\ Finalizes(d)' => \A r \in call'[d].seen : call'[d].read[r] # NoAmount
  BY DEF CallsFit
<1>1. CASE d = c
  BY <1>1
<1>2. CASE d # c
  BY <1>2 DEF CallsFit, Is, Running, Finalizes
<1> QED
  BY <1>1, <1>2

\* No row appears but from an upload, and headers stay.
LEMMA HeaderStillFirst ==
  ASSUME HeaderFirst, NEW c \in Calls, \A d \in Calls \ {c} : call'[d] = call[d],
         header # NoBatch => header' # NoBatch,
         (Rows' # {} /\ Rows = {}) \/ Is(c, Uploads)' => header' # NoBatch
  PROVE  HeaderFirst'
<1>1. CASE Rows' # {}
  BY <1>1 DEF HeaderFirst
<1>2. ASSUME NEW d \in Calls, Is(d, Uploads)' PROVE header' # NoBatch
  BY <1>2 DEF HeaderFirst, Is, Running
<1> QED
  BY <1>1, <1>2 DEF HeaderFirst

LEMMA StartsKeep ==
  ASSUME IInv, NEW c \in Calls, Start(c)
  PROVE  IInv'
<1>0. TypeOK /\ HeaderFirst /\ CallsFit
  BY DEF IInv
<1>a. <<>> \in Seq(RowAmounts)
  BY EmptySeq
<1>b. Rows \in SUBSET RowIds
  BY DEF Rows
<1>1. ASSUME NEW t \in Templates, StartUpload(c, t) PROVE IInv'
  <2>1. Begin(c, "upload", {}, "DRAFT", t)
    BY <1>1 DEF StartUpload
  <2>2. t \in Seq(RowAmounts) /\ t # <<>> /\ Len(t) \in Nat
    BY TemplatesTyped
  <2>3. /\ call' \in CallType /\ torn' \in BOOLEAN /\ call'[c].verb = "upload"
        /\ call'[c].amounts = t /\ \A d \in Calls \ {c} : call'[d] = call[d]
    BY <1>0, <2>1, <2>2, BeginTyped DEF Verbs
  <2>4. /\ header' \in [boardAtUpload : BoardAmounts \cup {NoAmount}, rowCount : Nat]
        /\ UNCHANGED <<settings, row, created, reviewVars>>
    BY <1>0, <1>1, <2>2 DEF StartUpload, TypeOK
  <2>5. TypeOK'
    BY <1>0, <2>3, <2>4 DEF TypeOK, CallType, settings, reviewVars
  <2>6. header' # NoBatch
    BY <2>4, BatchAssumption
  <2>7. HeaderFirst'
    BY <2>6 DEF HeaderFirst
  <2>8. CallsFit'
    BY <1>0, <2>2, <2>3, CallsStillFit DEF Is, Deciding, Finalizes
  <2> QED
    BY <2>5, <2>7, <2>8 DEF IInv
<1>2. ASSUME NEW t \in Templates, StartOverride(c, t) PROVE IInv'
  <2>1. Begin(c, "override", {}, "DRAFT", t)
    BY <1>2 DEF StartOverride
  <2>2. t \in Seq(RowAmounts) /\ t # <<>>
    BY TemplatesTyped
  <2>3. /\ call' \in CallType /\ torn' \in BOOLEAN /\ call'[c].verb = "override"
        /\ call'[c].amounts = t /\ \A d \in Calls \ {c} : call'[d] = call[d]
    BY <1>0, <2>1, <2>2, BeginTyped DEF Verbs
  <2>4. header # NoBatch /\ UNCHANGED <<settings, batchVars, reviewVars>>
    BY <1>2 DEF StartOverride
  <2>5. TypeOK'
    BY <1>0, <2>3, <2>4 DEF TypeOK, CallType, settings, batchVars, reviewVars
  <2>7. HeaderFirst'
    BY <2>4 DEF HeaderFirst, batchVars
  <2>8. CallsFit'
    BY <1>0, <2>2, <2>3, CallsStillFit DEF Is, Deciding, Finalizes
  <2> QED
    BY <2>5, <2>7, <2>8 DEF IInv
<1>3. ASSUME NEW verb \in {"submit", "approve", "return", "cancel"}, NEW seen \in SUBSET RowIds,
             NEW stage \in RevenueStages \cup {"DRAFT"}, Begin(c, verb, seen, stage, <<>>),
             verb \in Deciding => stage \in RevenueStages, seen \subseteq Rows,
             UNCHANGED <<settings, batchVars, reviewVars>>
      PROVE IInv'
  <2>1. /\ call' \in CallType /\ torn' \in BOOLEAN /\ call'[c].verb = verb
        /\ call'[c].stage = stage /\ call'[c].begun = (verb = "upload")
        /\ call'[c].seen = seen /\ call'[c].read = AmountsRead(verb, stage)
        /\ \A d \in Calls \ {c} : call'[d] = call[d]
    <3>1. verb \in Verbs
      BY DEF Verbs
    <3>2. Begin(c, verb, seen, stage, <<>>)
      BY <1>3
    <3> QED
      BY <1>0, <3>1, <3>2, <1>a, BeginTyped
  <2>2. TypeOK'
    BY <1>0, <1>3, <2>1 DEF TypeOK, CallType, settings, batchVars, reviewVars
  <2>3. ~ Is(c, Uploads)' /\ Rows' = Rows /\ header' = header
    BY <1>3, <2>1 DEF Is, Uploads, Rows, batchVars
  <2>4. HeaderFirst'
    BY <1>0, <2>1, <2>3, HeaderStillFirst
  <2>5. CallsFit'
    <3>1. Finalizes(c)' => \A r \in call'[c].seen : call'[c].read[r] # NoAmount
      BY <1>0, <1>3, <2>1, AmountsReadTyped DEF Finalizes, Is
    <3> QED
      BY <1>0, <1>3, <2>1, <2>3, <3>1, CallsStillFit DEF Is
  <2> QED
    BY <2>2, <2>4, <2>5 DEF IInv
<1>4. CASE StartSubmit(c)
  BY <1>3, <1>4, <1>b DEF StartSubmit, Deciding
<1>5. CASE StartCancel(c)
  BY <1>3, <1>5 DEF StartCancel, Deciding
<1>6. ASSUME NEW stage \in RevenueStages, NEW verb \in Deciding, StartDecision(c, stage, verb)
      PROVE IInv'
  BY <1>3, <1>6, <1>b DEF StartDecision, Deciding
<1> QED
  BY <1>1, <1>2, <1>4, <1>5, <1>6 DEF Start, Deciding

\* A call's step that leaves header alone and makes no row.
LEMMA FrameKeeps ==
  ASSUME IInv, NEW c \in Calls, call' \in CallType, \A d \in Calls \ {c} : call'[d] = call[d],
         row' \in RowType, Rows' \subseteq Rows, approved' \in [RowIds -> SUBSET RevenueStages],
         reviewed' \subseteq RowIds, line' \in [RowIds -> RowAmounts \cup {NoAmount}],
         UNCHANGED <<settings, header, created, torn>>,
         Is(c, Uploads)' => Is(c, Uploads) /\ call'[c].amounts # <<>>,
         Is(c, Deciding)' => call'[c].stage \in RevenueStages,
         Is(c, {"approve"})' => call'[c].stage # LastStage
  PROVE  IInv'
<1>1. TypeOK'
  BY DEF IInv, TypeOK, CallType, RowType, settings
<1>2. HeaderFirst'
  <2>1. header' = header /\ HeaderFirst
    BY DEF IInv
  <2>2. (Rows' # {} /\ Rows = {}) \/ Is(c, Uploads)' => header' # NoBatch
    BY <2>1 DEF HeaderFirst
  <2> QED
    BY <2>1, <2>2, HeaderStillFirst
<1>3. CallsFit'
  BY CallsStillFit DEF IInv, Finalizes
<1> QED
  BY <1>1, <1>2, <1>3 DEF IInv

\* The call is over.
LEMMA DoneKeeps ==
  ASSUME IInv, NEW c \in Calls, Done(c), row' \in RowType, Rows' \subseteq Rows,
         approved' \in [RowIds -> SUBSET RevenueStages], reviewed' \subseteq RowIds,
         line' \in [RowIds -> RowAmounts \cup {NoAmount}],
         UNCHANGED <<settings, header, created, torn>>
  PROVE  IInv'
<1>1. call' \in CallType /\ call'[c] = NoCall /\ \A d \in Calls \ {c} : call'[d] = call[d]
  BY DoneTyped DEF IInv
<1>2. ~ Is(c, Uploads)' /\ ~ Is(c, Deciding)' /\ ~ Is(c, {"approve"})'
  BY <1>1 DEF Is, Running
<1> QED
  BY <1>1, <1>2, FrameKeeps

LEMMA ReviewTyped ==
  ASSUME TypeOK, UNCHANGED reviewVars
  PROVE  /\ approved' \in [RowIds -> SUBSET RevenueStages] /\ reviewed' \subseteq RowIds
         /\ line' \in [RowIds -> RowAmounts \cup {NoAmount}]
BY DEF TypeOK, reviewVars

LEMMA ReplaceKeeps ==
  ASSUME IInv, NEW c \in Calls, Replace(c)
  PROVE  IInv'
<1>0. TypeOK /\ HeaderFirst /\ CallsFit
  BY DEF IInv
<1>1. Is(c, {"override"}) /\ Is(c, Uploads) /\ Running(c) /\ call[c].amounts # <<>> /\ call[c] \in Call
  BY <1>0 DEF Replace, Is, Uploads, Running, CallsFit, TypeOK
<1>2. CASE Rows \cap reviewed = {}
  <2>1. /\ row' = [r \in RowIds |-> NoRow] /\ call' = [call EXCEPT ![c].begun = TRUE]
        /\ header' = [boardAtUpload |-> IF category = "REVENUE" THEN call[c].board
                                        ELSE header.boardAtUpload,
                      rowCount |-> Len(call[c].amounts)]
        /\ UNCHANGED <<settings, created, reviewVars, torn>>
    BY <1>2 DEF Replace
  <2>2. header # NoBatch
    BY <1>0, <1>1 DEF HeaderFirst
  <2>3. header.boardAtUpload \in BoardAmounts \cup {NoAmount}
    BY <1>0, <2>2 DEF TypeOK
  <2>4. call[c].board \in BoardAmounts \cup {NoAmount} /\ call[c].amounts \in Seq(RowAmounts)
    BY <1>1 DEF Call
  <2>5. Len(call[c].amounts) \in Nat
    BY <2>4, LenProperties
  <2>6. header' \in [boardAtUpload : BoardAmounts \cup {NoAmount}, rowCount : Nat]
    BY <2>1, <2>3, <2>4, <2>5
  <2>7. /\ call' \in CallType /\ call'[c] = [call[c] EXCEPT !.begun = TRUE]
        /\ \A d \in Calls \ {c} : call'[d] = call[d]
    BY <1>0, <1>1, <2>1, CallBegun
  <2>8. row' \in RowType
    BY <2>1 DEF RowType
  <2>9. TypeOK'
    BY <1>0, <2>1, <2>6, <2>7, <2>8, ReviewTyped DEF TypeOK, CallType, RowType, settings
  <2>10. HeaderFirst'
    BY <2>6, BatchAssumption DEF HeaderFirst
  <2>11. call'[c].verb = "override" /\ call'[c].amounts # <<>>
    BY <1>1, <2>7 DEF Is, Call
  <2>12. CallsFit'
    BY <1>0, <2>7, <2>11, CallsStillFit DEF Is, Deciding, Finalizes
  <2> QED
    BY <2>9, <2>10, <2>12 DEF IInv
<1>3. CASE Rows \cap reviewed # {}
  <2>1. Done(c) /\ UNCHANGED <<row, header>> /\ UNCHANGED <<settings, created, reviewVars, torn>>
    BY <1>3 DEF Replace
  <2>2. row' \in RowType /\ Rows' \subseteq Rows
    BY <1>0, <2>1 DEF TypeOK, RowType, Rows
  <2> QED
    BY <1>0, <2>1, <2>2, ReviewTyped, DoneKeeps
<1> QED
  BY <1>2, <1>3

\* The row a template adds.
LEMMA RowCreated ==
  ASSUME IInv, NEW c \in Calls, CreateRow(c)
  PROVE  /\ created' \in RowIds /\ row' \in RowType
         /\ Rows' = Rows \cup {created'}
         /\ row'[created'].stage = "DRAFT" /\ row'[created'].status = "DRAFT"
         /\ \A r \in RowIds \ {created'} : row'[r] = row[r]
         /\ call[c].amounts \in Seq(RowAmounts) /\ call[c].amounts # <<>>
<1>1. TypeOK /\ CallsFit /\ Is(c, Uploads)
  BY DEF IInv, CreateRow
<1>2. call[c].amounts \in Seq(RowAmounts) /\ call[c].amounts # <<>>
  BY <1>1 DEF CallsFit, TypeOK, Is, Running, Call
<1>3. Head(call[c].amounts) \in RowAmounts
  BY <1>2, HeadTailProperties
<1> DEFINE new == [amount |-> Head(call[c].amounts), stage |-> "DRAFT", status |-> "DRAFT"]
<1>4. new \in Row /\ new # NoRow
  <2>1. new \in Row
    BY <1>3 DEF Row, Stages, Statuses
  <2> QED
    BY <2>1, RowsAreRows
<1>5. created' \in RowIds
  BY <1>1, BatchAssumption DEF CreateRow, TypeOK, RowIds
<1>6. row' = [row EXCEPT ![created'] = new]
  BY DEF CreateRow
<1>7. row' \in RowType /\ row'[created'] = new /\ \A r \in RowIds \ {created'} : row'[r] = row[r]
  BY <1>1, <1>4, <1>5, <1>6 DEF TypeOK, RowType
<1>8. Rows' = Rows \cup {created'}
  BY <1>4, <1>5, <1>7 DEF Rows
<1> QED
  BY <1>2, <1>5, <1>7, <1>8

LEMMA CreateKeeps ==
  ASSUME IInv, NEW c \in Calls, CreateRow(c)
  PROVE  IInv'
<1>0. TypeOK /\ HeaderFirst /\ CallsFit
  BY DEF IInv
<1>1. Is(c, Uploads) /\ header # NoBatch /\ UNCHANGED <<settings, header, reviewVars, torn>>
  BY <1>0 DEF CreateRow, HeaderFirst
<1>2. created' \in 0 .. MaxRows /\ row' \in RowType /\ call[c].amounts # <<>>
  BY RowCreated, BatchAssumption DEF RowIds
<1>3. HeaderFirst'
  BY <1>1 DEF HeaderFirst
<1>4. CASE Len(call[c].amounts) = 1
  <2>1. Done(c)
    BY <1>4 DEF CreateRow
  <2>2. call' \in CallType /\ call'[c] = NoCall /\ \A d \in Calls \ {c} : call'[d] = call[d]
    BY <1>0, <2>1, DoneTyped
  <2>3. TypeOK'
    BY <1>0, <1>1, <1>2, <2>2, ReviewTyped DEF TypeOK, CallType, RowType, settings
  <2>4. CallsFit'
    BY <1>0, <2>2, CallsStillFit DEF Is, Running, Finalizes
  <2> QED
    BY <1>3, <2>3, <2>4 DEF IInv
<1>5. CASE Len(call[c].amounts) # 1
  <2>1. call' = [call EXCEPT ![c].amounts = Tail(@)]
    BY <1>5 DEF CreateRow
  <2>2. /\ call' \in CallType /\ call'[c] = [call[c] EXCEPT !.amounts = Tail(@)]
        /\ call'[c].amounts # <<>> /\ call[c] \in Call
        /\ \A d \in Calls \ {c} : call'[d] = call[d]
    BY <1>0, <1>1, <1>2, <1>5, <2>1, RestOfTemplate
  <2>3. TypeOK'
    BY <1>0, <1>1, <1>2, <2>2, ReviewTyped DEF TypeOK, CallType, RowType, settings
  <2>4. call'[c].verb \in Uploads
    BY <1>1, <2>2 DEF Is, Call
  <2>5. CallsFit'
    BY <1>0, <2>2, <2>4, CallsStillFit DEF Is, Uploads, Deciding, Finalizes
  <2> QED
    BY <1>3, <2>3, <2>5 DEF IInv
<1> QED
  BY <1>4, <1>5

LEMMA RowsStay ==
  ASSUME TypeOK, UNCHANGED row
  PROVE  row' \in RowType /\ Rows' = Rows
BY DEF TypeOK, RowType, Rows

LEMMA RowSubmitted ==
  ASSUME TypeOK, NEW r \in RowIds, Submittable(r), row' = Submitted(r)
  PROVE  /\ row' \in RowType /\ Rows' = Rows /\ row'[r].stage = "SF_VALIDATION"
         /\ \A s \in Rows \ {r} : row'[s] = row[s]
<1>1. r \in Rows /\ row[r] \in Row
  BY DEF Submittable, TypeOK, Rows
<1> DEFINE new == [row[r] EXCEPT !.stage = "SF_VALIDATION", !.status = "IN_REVIEW"]
<1>2. new \in Row
  BY <1>1 DEF Row, Stages, Statuses
<1>3. row' = [row EXCEPT ![r] = new]
  BY DEF Submitted
<1>4. new.stage = "SF_VALIDATION"
  BY <1>1 DEF Row
<1>5. row' \in RowType /\ Rows' = Rows /\ row'[r] = new /\ \A s \in Rows \ {r} : row'[s] = row[s]
  BY <1>1, <1>2, <1>3, RowUpdated
<1> QED
  BY <1>4, <1>5

LEMMA SubmitKeeps ==
  ASSUME IInv, NEW c \in Calls, SubmitRevenue(c) \/ (\E r \in RowIds : SubmitRow(c, r)) \/ Cancel(c)
  PROVE  IInv'
<1>0. TypeOK
  BY DEF IInv
<1>1. FirstStage \in Stages /\ "CANCELLED" \in Stages /\ "IN_REVIEW" \in Statuses /\ "CANCELLED" \in Statuses
  <2>1. 1 \in 1 .. 4
    OBVIOUS
  <2> QED
    BY <2>1, StageIn DEF FirstStage, Stages, Statuses
<1>2. CASE SubmitRevenue(c)
  <2>1. /\ UpdateRows(FirstStage, "IN_REVIEW") /\ Done(c)
        /\ UNCHANGED <<settings, header, created, torn>> /\ UNCHANGED reviewVars
    BY <1>2 DEF SubmitRevenue
  <2>2. row' \in RowType /\ Rows' = Rows
    BY <1>0, <1>1, <2>1, RowsUpdated
  <2> QED
    BY <1>0, <2>1, <2>2, ReviewTyped, DoneKeeps
<1>3. CASE Cancel(c)
  <2>1. /\ UpdateRows("CANCELLED", "CANCELLED") /\ Done(c)
        /\ UNCHANGED <<settings, header, created, torn>> /\ UNCHANGED reviewVars
    BY <1>3 DEF Cancel
  <2>2. row' \in RowType /\ Rows' = Rows
    BY <1>0, <1>1, <2>1, RowsUpdated
  <2> QED
    BY <1>0, <2>1, <2>2, ReviewTyped, DoneKeeps
<1>4. ASSUME NEW r \in RowIds, SubmitRow(c, r) PROVE IInv'
  <2>1. UNCHANGED <<settings, header, created, torn>> /\ UNCHANGED reviewVars /\ Is(c, {"submit"})
    BY <1>4 DEF SubmitRow
  <2>2. row' \in RowType /\ Rows' = Rows
    <3>1. CASE Submittable(r) /\ row[r].amount <= DocThreshold
      BY <1>0, <1>4, <3>1, RowSubmitted DEF SubmitRow
    <3>2. CASE ~(Submittable(r) /\ row[r].amount <= DocThreshold)
      BY <1>0, <1>4, <3>2, RowsStay DEF SubmitRow
    <3> QED
      BY <3>1, <3>2
  <2>3. CASE Submittable(r) /\ call[c].seen # {r}
    <3>1. call' = [call EXCEPT ![c].seen = @ \ {r}]
      BY <1>4, <2>3 DEF SubmitRow
    <3>2. call[c] \in Call /\ call[c].verb = "submit"
      BY <1>0, <2>1 DEF Is, Running, TypeOK
    <3>3. /\ call' \in CallType /\ call'[c].verb = "submit"
          /\ \A d \in Calls \ {c} : call'[d] = call[d]
      BY <1>0, <3>1, <3>2 DEF TypeOK, CallType, Call
    <3>4. ~ Is(c, Uploads)' /\ ~ Is(c, Deciding)' /\ ~ Is(c, {"approve"})'
      BY <3>3 DEF Is, Uploads, Deciding
    <3> QED
      BY <1>0, <2>1, <2>2, <3>3, <3>4, ReviewTyped, FrameKeeps
  <2>4. CASE ~(Submittable(r) /\ call[c].seen # {r})
    <3>1. Done(c)
      BY <1>4, <2>4 DEF SubmitRow
    <3> QED
      BY <1>0, <2>1, <2>2, <3>1, ReviewTyped, DoneKeeps
  <2> QED
    BY <2>3, <2>4
<1> QED
  BY <1>2, <1>3, <1>4

LEMMA ApprovedNowTyped ==
  ASSUME IInv, NEW c \in Calls, Is(c, Deciding), ApprovedNow(c)
  PROVE  /\ approved' \in [RowIds -> SUBSET RevenueStages]
         /\ \A r \in RowIds : approved[r] \subseteq approved'[r]
         /\ \A r \in call[c].seen \cap RowIds : call[c].stage \in approved'[r]
<1>1. call[c].stage \in RevenueStages
  BY DEF IInv, CallsFit
<1>2. approved \in [RowIds -> SUBSET RevenueStages]
  BY DEF IInv, TypeOK
<1>3. ASSUME NEW r \in RowIds
      PROVE  /\ approved'[r] \in SUBSET RevenueStages /\ approved[r] \subseteq approved'[r]
             /\ r \in call[c].seen => call[c].stage \in approved'[r]
  BY <1>1, <1>2 DEF ApprovedNow
<1> QED
  BY <1>3 DEF ApprovedNow

LEMMA DecidingCall ==
  ASSUME TypeOK, NEW c \in Calls, Is(c, Deciding)
  PROVE  call[c] \in Call /\ Running(c) /\ call[c].seen \subseteq RowIds
BY DEF Is, Running, TypeOK, Call

LEMMA LogKeeps ==
  ASSUME IInv, NEW c \in Calls, LogDecision(c)
  PROVE  IInv'
<1>0. TypeOK /\ CallsFit /\ Is(c, Deciding)
  BY DEF IInv, LogDecision, Deciding
<1>1. UNCHANGED <<settings, header, created, torn>> /\ UNCHANGED row /\ UNCHANGED line
  BY DEF LogDecision, batchVars
<1>2. row' \in RowType /\ Rows' = Rows /\ line' \in [RowIds -> RowAmounts \cup {NoAmount}]
  BY <1>0, <1>1, RowsStay DEF TypeOK
<1>3. call[c] \in Call /\ Running(c) /\ call[c].seen \subseteq RowIds
  BY <1>0, DecidingCall
<1>4. CASE call[c].seen \subseteq Rows
  <2>1. /\ reviewed' = reviewed \cup call[c].seen
        /\ call' = [call EXCEPT ![c].begun = TRUE]
        /\ ApprovedNow(c) \/ UNCHANGED approved
    BY <1>4 DEF LogDecision
  <2>2. reviewed' \subseteq RowIds
    BY <1>0, <1>3, <2>1 DEF TypeOK
  <2>3. approved' \in [RowIds -> SUBSET RevenueStages]
    BY <1>0, <2>1, ApprovedNowTyped DEF TypeOK
  <2>4. /\ call' \in CallType /\ call'[c] = [call[c] EXCEPT !.begun = TRUE]
        /\ \A d \in Calls \ {c} : call'[d] = call[d]
    BY <1>0, <1>3, <2>1, CallBegun
  <2>5. call'[c].verb = call[c].verb /\ call'[c].stage = call[c].stage /\ call[c].verb \in Deciding
    BY <1>0, <1>3, <2>4 DEF Call, Is
  <2>6. call[c].stage \in RevenueStages
    BY <1>0 DEF CallsFit
  <2>7. call[c].verb = "approve" => call[c].stage # LastStage
    BY <1>0 DEF LogDecision, Finalizes, Is
  <2>8. ~ Is(c, Uploads)'
    BY <2>5 DEF Is, Uploads, Deciding
  <2>9. Is(c, {"approve"})' => call'[c].stage # LastStage
    BY <2>5, <2>7 DEF Is
  <2> QED
    BY <1>1, <1>2, <2>2, <2>3, <2>4, <2>5, <2>6, <2>8, <2>9, FrameKeeps
<1>5. CASE ~(call[c].seen \subseteq Rows)
  <2>1. Done(c) /\ UNCHANGED <<approved, reviewed>>
    BY <1>5 DEF LogDecision
  <2>2. approved' \in [RowIds -> SUBSET RevenueStages] /\ reviewed' \subseteq RowIds
    BY <1>0, <2>1 DEF TypeOK
  <2> QED
    BY <1>1, <1>2, <2>1, <2>2, DoneKeeps
<1> QED
  BY <1>4, <1>5

\* Where a decision takes the rows it finds.
LEMMA Moves ==
  ASSUME IInv, NEW c \in Calls, Move(c)
  PROVE  /\ Done(c) /\ call[c].stage \in RevenueStages
         /\ Position(call[c].stage) \in 1 .. 4
         /\ \/ /\ call[c].verb = "approve" /\ Position(call[c].stage) < 4
               /\ UpdateRows(RevenueStageOrder[Position(call[c].stage) + 1], "undefined")
            \/ /\ call[c].verb = "return" /\ Position(call[c].stage) > 1
               /\ UpdateRows(RevenueStageOrder[Position(call[c].stage) - 1], "undefined")
            \/ call[c].verb = "return" /\ UpdateRows("DRAFT", "RETURNED")
<1>1. Is(c, Deciding) /\ call[c].begun
  BY DEF Move, Deciding
<1>2. call[c].stage \in RevenueStages /\ (call[c].verb = "approve" => call[c].stage # LastStage)
  BY <1>1 DEF IInv, CallsFit, Is, Deciding
<1>3. Position(call[c].stage) \in 1 .. 4 /\ RevenueStageOrder[Position(call[c].stage)] = call[c].stage
  BY <1>2, Positions
<1>4. call[c].verb = "approve" => Position(call[c].stage) # 4
  BY <1>2, <1>3 DEF LastStage
<1>5. Position(call[c].stage) # 4 => Position(call[c].stage) < 4
  BY <1>3
<1> QED
  BY <1>2, <1>3, <1>4, <1>5 DEF Move

LEMMA MoveKeeps ==
  ASSUME IInv, NEW c \in Calls, Move(c)
  PROVE  IInv'
<1>0. TypeOK
  BY DEF IInv
<1>1. UNCHANGED <<settings, header, created, torn>> /\ UNCHANGED reviewVars
  BY DEF Move
<1>2. row' \in RowType /\ Rows' = Rows
  <2>1. ASSUME NEW stage \in RevenueStages, UpdateRows(stage, "undefined")
        PROVE  row' \in RowType /\ Rows' = Rows
    BY <1>0, <2>1, RowsUpdated DEF Stages
  <2>2. ASSUME UpdateRows("DRAFT", "RETURNED") PROVE row' \in RowType /\ Rows' = Rows
    BY <1>0, <2>2, RowsUpdated DEF Stages, Statuses
  <2>3. \A i \in 1 .. 4 : (i < 4 => i + 1 \in 1 .. 4) /\ (i > 1 => i - 1 \in 1 .. 4)
    OBVIOUS
  <2> QED
    BY <2>1, <2>2, <2>3, Moves, StageIn
<1> QED
  BY <1>0, <1>1, <1>2, Moves, ReviewTyped, DoneKeeps

LEMMA FinalizeKeeps ==
  ASSUME IInv, NEW c \in Calls, Finalize(c)
  PROVE  IInv'
<1>0. TypeOK /\ CallsFit /\ Is(c, Deciding)
  BY DEF IInv, Finalize, Finalizes, Is, Deciding
<1>1. Done(c) /\ UNCHANGED <<settings, header, created, torn>>
  BY DEF Finalize
<1>3. call[c].seen \subseteq RowIds
  BY <1>0, DecidingCall
<1>4. CASE call[c].seen \subseteq Rows /\ \A r \in call[c].seen : line[r] = NoAmount
  <2>1. /\ ApprovedNow(c) /\ reviewed' = reviewed \cup call[c].seen
        /\ UpdateRows("APPROVED", "APPROVED")
        /\ line' = [r \in RowIds |-> IF r \in call[c].seen THEN call[c].read[r] ELSE line[r]]
    BY <1>4 DEF Finalize
  <2>2. row' \in RowType /\ Rows' = Rows
    BY <1>0, <2>1, RowsUpdated DEF Stages, Statuses
  <2>3. line' \in [RowIds -> RowAmounts \cup {NoAmount}]
    <3>1. call[c].read \in [RowIds -> RowAmounts \cup {NoAmount}]
      BY <1>0, DecidingCall DEF Call
    <3> QED
      BY <1>0, <1>4, <2>1, <3>1 DEF TypeOK
  <2>4. approved' \in [RowIds -> SUBSET RevenueStages]
    BY <1>0, <2>1, ApprovedNowTyped
  <2>5. reviewed' \subseteq RowIds
    BY <1>0, <1>3, <2>1 DEF TypeOK
  <2> QED
    BY <1>1, <2>2, <2>3, <2>4, <2>5, DoneKeeps
<1>5. CASE ~(call[c].seen \subseteq Rows /\ \A r \in call[c].seen : line[r] = NoAmount)
  <2>1. UNCHANGED row /\ UNCHANGED reviewVars
    BY <1>5 DEF Finalize, reviewVars
  <2> QED
    BY <1>0, <1>1, <2>1, RowsStay, ReviewTyped, DoneKeeps
<1> QED
  BY <1>4, <1>5

\* Rows one by one: what they leave of the row, and of the batch.
RowAlone == \E r \in RowIds :
  \/ \E amount \in EditAmounts : Edit(r, amount)
  \/ SubmitOne(r) \/ CancelOne(r) \/ ReturnOne(r)

LEMMA RowAloneFrame ==
  ASSUME TypeOK, RowAlone
  PROVE  /\ row' \in RowType /\ Rows' = Rows
         /\ UNCHANGED <<settings, header, created, approved, line, call, torn>>
         /\ reviewed \subseteq reviewed' /\ reviewed' \subseteq RowIds
         /\ \A r \in Rows :
              \/ row'[r].stage = row[r].stage /\ row'[r].status = row[r].status
              \/ category = "SBU" /\ row'[r].stage \in {"DRAFT", "SF_VALIDATION", "CANCELLED"}
<1>1. ASSUME NEW r \in RowIds, NEW amount \in EditAmounts, Edit(r, amount)
      PROVE  /\ row' \in RowType /\ Rows' = Rows /\ UNCHANGED reviewed
             /\ \A s \in Rows : row'[s].stage = row[s].stage /\ row'[s].status = row[s].status
  <2> DEFINE new == [row[r] EXCEPT !.amount = amount]
  <2>1. r \in Rows /\ row[r] \in Row /\ amount \in RowAmounts
    BY <1>1 DEF Edit, TypeOK, Rows, RowAmounts
  <2>2. new \in Row /\ new.stage = row[r].stage /\ new.status = row[r].status
    BY <2>1 DEF Row
  <2>3. row' = [row EXCEPT ![r] = new] /\ UNCHANGED reviewed
    BY <1>1 DEF Edit, reviewVars
  <2>4. row' \in RowType /\ Rows' = Rows /\ row'[r] = new /\ \A s \in Rows \ {r} : row'[s] = row[s]
    BY <2>1, <2>2, <2>3, RowUpdated
  <2> QED
    BY <2>2, <2>3, <2>4
<1>2. ASSUME NEW r \in RowIds, SubmitOne(r)
      PROVE  /\ row' \in RowType /\ Rows' = Rows /\ UNCHANGED reviewed /\ category = "SBU"
             /\ row'[r].stage = "SF_VALIDATION" /\ \A s \in Rows \ {r} : row'[s] = row[s]
  <2>1. Submittable(r) /\ row' = Submitted(r) /\ UNCHANGED reviewed /\ category = "SBU"
    BY <1>2 DEF SubmitOne, reviewVars
  <2> QED
    BY <2>1, RowSubmitted
<1>3. ASSUME NEW r \in RowIds, CancelOne(r) \/ ReturnOne(r)
      PROVE  /\ row' \in RowType /\ Rows' = Rows /\ category = "SBU"
             /\ row'[r].stage \in {"DRAFT", "CANCELLED"} /\ \A s \in Rows \ {r} : row'[s] = row[s]
  <2>1. r \in Rows /\ row[r] \in Row /\ category = "SBU"
    BY <1>3 DEF CancelOne, ReturnOne, TypeOK, Rows
  <2>2. ASSUME NEW stage \in {"DRAFT", "CANCELLED"}, NEW status \in {"RETURNED", "CANCELLED"},
               row' = [row EXCEPT ![r].stage = stage, ![r].status = status]
        PROVE  row' \in RowType /\ Rows' = Rows /\ row'[r].stage = stage /\ \A s \in Rows \ {r} : row'[s] = row[s]
    <3> DEFINE new == [row[r] EXCEPT !.stage = stage, !.status = status]
    <3>1. new \in Row /\ new.stage = stage
      BY <2>1 DEF Row, Stages, Statuses
    <3>2. row' = [row EXCEPT ![r] = new]
      BY <2>1, <2>2 DEF TypeOK
    <3>3. row' \in RowType /\ Rows' = Rows /\ row'[r] = new /\ \A s \in Rows \ {r} : row'[s] = row[s]
      BY <2>1, <3>1, <3>2, RowUpdated
    <3> QED
      BY <3>1, <3>3
  <2> QED
    BY <1>3, <2>1, <2>2 DEF CancelOne, ReturnOne
<1>4. /\ UNCHANGED <<settings, header, created, approved, line, call, torn>>
      /\ reviewed \subseteq reviewed' /\ reviewed' \subseteq RowIds
  BY DEF RowAlone, Edit, SubmitOne, CancelOne, ReturnOne, reviewVars, TypeOK
<1>5. PICK r \in RowIds : \/ \E amount \in EditAmounts : Edit(r, amount)
                          \/ SubmitOne(r) \/ CancelOne(r) \/ ReturnOne(r)
  BY DEF RowAlone
<1>6. CASE \E amount \in EditAmounts : Edit(r, amount)
  BY <1>1, <1>4, <1>6
<1>7. CASE SubmitOne(r)
  <2>1. \A s \in Rows : s = r \/ row'[s] = row[s]
    BY <1>2, <1>7
  <2> QED
    BY <1>2, <1>4, <1>7, <2>1
<1>8. CASE CancelOne(r) \/ ReturnOne(r)
  <2>1. \A s \in Rows : s = r \/ row'[s] = row[s]
    BY <1>3, <1>8
  <2> QED
    BY <1>3, <1>4, <1>8, <2>1
<1> QED
  BY <1>5, <1>6, <1>7, <1>8

\* The calendar, the board's figure, and a restart.
Outside ==
  \/ \E amount \in BoardAmounts : SetBoardBudget(amount)
  \/ \E gate \in MovingGates : MoveGate(gate)

LEMMA StepCases ==
  ASSUME Next
  PROVE  \/ \E c \in Calls : Start(c) \/ Continue(c)
         \/ RowAlone \/ Outside \/ Crash
BY DEF Next, RowAlone, Outside

LEMMA StepKeeps == IInv /\ [Next]_vars => IInv'
<1> SUFFICES ASSUME IInv, [Next]_vars PROVE IInv'
  OBVIOUS
<1>0. TypeOK /\ HeaderFirst /\ CallsFit
  BY DEF IInv
<1>1. ASSUME NEW c \in Calls, Continue(c) PROVE IInv'
  BY <1>1, ReplaceKeeps, CreateKeeps, SubmitKeeps, LogKeeps, MoveKeeps, FinalizeKeeps DEF Continue
<1>2. CASE RowAlone
  <2>1. /\ row' \in RowType /\ Rows' = Rows /\ reviewed' \subseteq RowIds
        /\ UNCHANGED <<settings, header, created, approved, line, call, torn>>
    BY <1>0, <1>2, RowAloneFrame
  <2>2. TypeOK'
    BY <1>0, <2>1 DEF TypeOK, RowType, settings
  <2>3. HeaderFirst' /\ CallsFit'
    BY <1>0, <2>1 DEF HeaderFirst, CallsFit, Finalizes, Is, Running
  <2> QED
    BY <2>2, <2>3 DEF IInv
<1>3. CASE Outside
  <2>1. UNCHANGED <<category, batchVars, reviewVars, call, torn>>
    BY <1>3 DEF Outside, SetBoardBudget, MoveGate
  <2>2. shut' \subseteq Gates /\ board' \in BoardAmounts \cup {NoAmount}
    BY <1>0, <1>3, BatchAssumption DEF Outside, SetBoardBudget, MoveGate, SymDiff, TypeOK
  <2>3. TypeOK'
    BY <1>0, <2>1, <2>2 DEF TypeOK, batchVars, reviewVars
  <2>4. HeaderFirst' /\ CallsFit'
    BY <1>0, <2>1 DEF HeaderFirst, CallsFit, Finalizes, Is, Running, Rows, batchVars
  <2> QED
    BY <2>3, <2>4 DEF IInv
<1>4. CASE Crash
  <2>1. call' = [c \in Calls |-> NoCall] /\ UNCHANGED <<settings, batchVars, reviewVars, torn>>
    BY <1>4 DEF Crash
  <2>2. TypeOK'
    BY <1>0, <2>1 DEF TypeOK, settings, batchVars, reviewVars
  <2>3. HeaderFirst' /\ CallsFit'
    BY <1>0, <2>1 DEF HeaderFirst, CallsFit, Finalizes, Is, Running, Rows, batchVars
  <2> QED
    BY <2>2, <2>3 DEF IInv
<1>5. CASE UNCHANGED vars
  <2>1. TypeOK'
    BY <1>0, <1>5 DEF TypeOK, vars, settings, batchVars, reviewVars
  <2>2. HeaderFirst' /\ CallsFit'
    BY <1>0, <1>5 DEF HeaderFirst, CallsFit, Finalizes, Is, Running, Rows, vars, batchVars
  <2> QED
    BY <2>1, <2>2 DEF IInv
<1> QED
  BY <1>1, <1>2, <1>3, <1>4, <1>5, StartsKeep, StepCases

LEMMA TypesHold == Spec => []IInv
BY InitEstablishes, StepKeeps, PTL DEF Spec

-----------------------------------------------------------------------------
(* What no interleaving undoes.                                             *)

LEMMA DecidedStay ==
  ASSUME IInv, [Next]_vars, NEW r \in RowIds
  PROVE  /\ r \in reviewed /\ row[r] # NoRow => row'[r] # NoRow
         /\ line[r] # NoAmount => line'[r] = line[r]
<1>0. TypeOK
  BY DEF IInv
<1>1. ASSUME NEW c \in Calls, Start(c) PROVE UNCHANGED <<row, line>>
  BY <1>1 DEF Start, StartUpload, StartOverride, StartSubmit, StartCancel, StartDecision,
              batchVars, reviewVars
<1>2. ASSUME NEW c \in Calls, Replace(c)
      PROVE  (r \in reviewed /\ row[r] # NoRow => row'[r] # NoRow) /\ UNCHANGED line
  BY <1>2 DEF Replace, Rows, reviewVars
<1>3. ASSUME NEW c \in Calls, CreateRow(c)
      PROVE  (row[r] # NoRow => row'[r] # NoRow) /\ UNCHANGED line
  <2>1. Rows' = Rows \cup {created'} /\ UNCHANGED line
    BY <1>3, RowCreated DEF CreateRow, reviewVars
  <2> QED
    BY <2>1 DEF Rows
<1>4. ASSUME NEW c \in Calls, SubmitRevenue(c) \/ Cancel(c) \/ Move(c)
      PROVE  (row[r] # NoRow => row'[r] # NoRow) /\ UNCHANGED line
  <2>1. UNCHANGED line
    BY <1>4 DEF SubmitRevenue, Cancel, Move, reviewVars
  <2>2. 1 \in 1 .. 4 /\ \A i \in 1 .. 4 : (i < 4 => i + 1 \in 1 .. 4) /\ (i > 1 => i - 1 \in 1 .. 4)
    OBVIOUS
  <2>3. FirstStage \in Stages /\ "CANCELLED" \in Stages /\ "DRAFT" \in Stages
        /\ {"IN_REVIEW", "CANCELLED", "RETURNED"} \subseteq Statuses
    BY <2>2, StageIn DEF FirstStage, Stages, Statuses
  <2>4. \E stage \in Stages, status \in Statuses \cup {"undefined"} : UpdateRows(stage, status)
    <3>1. CASE SubmitRevenue(c) \/ Cancel(c)
      BY <2>3, <3>1 DEF SubmitRevenue, Cancel
    <3>2. CASE Move(c)
      BY <2>2, <2>3, <3>2, Moves, StageIn DEF Stages
    <3> QED
      BY <1>4, <3>1, <3>2
  <2>5. Rows' = Rows
    BY <1>0, <2>4, RowsUpdated
  <2> QED
    BY <2>1, <2>5 DEF Rows
<1>5. ASSUME NEW c \in Calls, NEW s \in RowIds, SubmitRow(c, s)
      PROVE  (row[r] # NoRow => row'[r] # NoRow) /\ UNCHANGED line
  <2>1. UNCHANGED line /\ (UNCHANGED row \/ (Submittable(s) /\ row' = Submitted(s)))
    BY <1>5 DEF SubmitRow, reviewVars
  <2>2. Rows' = Rows
    BY <1>0, <2>1, RowsStay, RowSubmitted
  <2> QED
    BY <2>1, <2>2 DEF Rows
<1>6. ASSUME NEW c \in Calls, LogDecision(c) PROVE UNCHANGED <<row, line>>
  BY <1>6 DEF LogDecision, batchVars
<1>7. ASSUME NEW c \in Calls, Finalize(c)
      PROVE  (row[r] # NoRow => row'[r] # NoRow) /\ (line[r] # NoAmount => line'[r] = line[r])
  <2>1. CASE UNCHANGED <<row, approved, reviewed, line>>
    BY <2>1
  <2>2. CASE /\ UpdateRows("APPROVED", "APPROVED") /\ \A s \in call[c].seen : line[s] = NoAmount
             /\ line' = [s \in RowIds |-> IF s \in call[c].seen THEN call[c].read[s] ELSE line[s]]
    <3>1. Rows' = Rows
      BY <1>0, <2>2, RowsUpdated DEF Stages, Statuses
    <3> QED
      BY <2>2, <3>1 DEF Rows
  <2> QED
    BY <1>7, <2>1, <2>2 DEF Finalize
<1>8. CASE RowAlone
  <2>1. Rows' = Rows /\ UNCHANGED line
    BY <1>0, <1>8, RowAloneFrame
  <2> QED
    BY <2>1 DEF Rows
<1>9. CASE Outside \/ Crash \/ UNCHANGED vars
  BY <1>9 DEF Outside, SetBoardBudget, MoveGate, Crash, vars, batchVars, reviewVars
<1>10. ASSUME NEW c \in Calls, Continue(c)
       PROVE  /\ r \in reviewed /\ row[r] # NoRow => row'[r] # NoRow
              /\ line[r] # NoAmount => line'[r] = line[r]
  BY <1>2, <1>3, <1>4, <1>5, <1>6, <1>7, <1>10 DEF Continue
<1> QED
  BY <1>1, <1>8, <1>9, <1>10, StepCases

\* The foreign key of ReviewDecision and the unique key of FinalizedBudgetLine
\* hold against every late call: no override takes a decided row, no line is
\* written twice.
THEOREM DecidedRowsPermanent == Spec => DecidedRowsStay
<1>1. ASSUME IInv, [Next]_vars
      PROVE [\A r \in RowIds :
               /\ r \in reviewed /\ row[r] # NoRow => row'[r] # NoRow
               /\ line[r] # NoAmount => line'[r] = line[r]]_vars
  BY <1>1, DecidedStay
<1> QED
  BY <1>1, TypesHold, PTL DEF Spec, DecidedRowsStay

-----------------------------------------------------------------------------
(* What holds while uploads run alone.                                      *)

\* The first n - 1 stages have approved the row.
ApprovedBefore(r, n) == \A i \in 1 .. 4 : i < n => RevenueStageOrder[i] \in approved[r]

RowFits(r) ==
  /\ \A j \in 1 .. 4 : row[r].stage = RevenueStageOrder[j] => ApprovedBefore(r, j)
  /\ row[r].stage = "APPROVED" => ApprovedBefore(r, 5) /\ line[r] # NoAmount

\* A decision knows the rows there are, and its stage its approvals.
DecisionFits(c) ==
  /\ Is(c, Deciding) =>
       /\ call[c].seen = Rows
       /\ \A r \in Rows : ApprovedBefore(r, Position(call[c].stage))
  /\ Is(c, {"approve"}) /\ call[c].begun => \A r \in Rows : call[c].stage \in approved[r]

Alone == \A c \in Calls : Is(c, Uploads) => \A d \in Calls \ {c} : ~ Running(d)

Together ==
  category = "REVENUE" =>
    \A r, s \in Rows : row[r].stage = row[s].stage /\ row[r].status = row[s].status

NewRowsAreDrafts ==
  category = "REVENUE" =>
    \A c \in Calls : Is(c, Uploads) /\ call[c].begun =>
      \A r \in Rows : row[r].stage = "DRAFT" /\ row[r].status = "DRAFT"

Orderly ==
  /\ Alone /\ Together /\ NewRowsAreDrafts
  /\ \A r \in Rows : RowFits(r)
  /\ \A c \in Calls : DecisionFits(c)

UInv == ~ torn => Orderly

LEMMA InitIsOrderly == Init => UInv
<1> SUFFICES ASSUME Init PROVE Orderly
  BY DEF UInv
<1>1. Rows = {} /\ \A c \in Calls : ~ Running(c)
  BY DEF Init, Rows, Running
<1> QED
  BY <1>1 DEF Orderly, Alone, Together, NewRowsAreDrafts, DecisionFits, Is

\* A step of a call that is not an upload, over the rows of the batch.
LEMMA OrderlyStep ==
  ASSUME Orderly, NEW c \in Calls, Running(c), ~ Is(c, Uploads), ~ Is(c, Uploads)',
         \A d \in Calls \ {c} : call'[d] = call[d], Rows' = Rows,
         \A r \in Rows : approved[r] \subseteq approved'[r],
         DecisionFits(c)', \A r \in Rows : RowFits(r)', Together'
  PROVE  Orderly'
<1>1. \A d \in Calls : ~ Is(d, Uploads)
  BY DEF Orderly, Alone
<1>2. \A d \in Calls : ~ Is(d, Uploads)'
  BY <1>1 DEF Is, Running
<1>3. Alone' /\ NewRowsAreDrafts'
  BY <1>2 DEF Alone, NewRowsAreDrafts
<1>4. ASSUME NEW d \in Calls \ {c} PROVE DecisionFits(d)'
  <2>1. DecisionFits(d)
    BY DEF Orderly
  <2> QED
    BY <2>1 DEF DecisionFits, Is, Running, ApprovedBefore
<1> QED
  BY <1>3, <1>4 DEF Orderly

\* The call is over and the reviews are as they were.
LEMMA OrderlyEnd ==
  ASSUME TypeOK, Orderly, NEW c \in Calls, Running(c), ~ Is(c, Uploads), Done(c), Rows' = Rows,
         UNCHANGED approved, \A r \in Rows : RowFits(r)', Together'
  PROVE  Orderly'
<1>1. call'[c] = NoCall /\ \A d \in Calls \ {c} : call'[d] = call[d]
  BY DoneTyped
<1>2. ~ Is(c, Uploads)' /\ DecisionFits(c)'
  BY <1>1 DEF Is, Running, DecisionFits
<1> QED
  BY <1>1, <1>2, OrderlyStep

LEMMA OrderlyStart ==
  ASSUME IInv, Orderly, NEW c \in Calls, Start(c), ~ torn'
  PROVE  Orderly'
<1>0. TypeOK /\ HeaderFirst
  BY DEF IInv
<1>a. <<>> \in Seq(RowAmounts) /\ Rows \in SUBSET RowIds
  BY EmptySeq DEF Rows
<1>b. Rows' = Rows /\ UNCHANGED <<category, row, approved, line>> /\ ~ Running(c)
  BY DEF Start, StartUpload, StartOverride, StartSubmit, StartCancel, StartDecision,
         settings, batchVars, reviewVars, Rows
<1>c. Together' /\ \A r \in Rows' : RowFits(r)'
  BY <1>b DEF Orderly, Together, RowFits, ApprovedBefore
<1>1. ASSUME NEW verb \in {"upload", "override"}, NEW t \in Templates,
             Begin(c, verb, {}, "DRAFT", t), verb = "upload" => Rows = {}
      PROVE  Orderly'
  <2>1. /\ call'[c].verb = verb /\ call'[c].begun = (verb = "upload")
        /\ \A d \in Calls \ {c} : call'[d] = call[d]
    <3>1. verb \in Verbs /\ t \in Seq(RowAmounts)
      BY TemplatesTyped DEF Verbs
    <3> QED
      BY <1>0, <1>1, <3>1, BeginTyped
  <2>2. \A d \in Calls : ~ Running(d)
    BY <1>1 DEF Begin, Uploads
  <2>3. \A d \in Calls \ {c} : ~ Running(d)'
    BY <2>1, <2>2 DEF Running
  <2>4. Alone' /\ \A d \in Calls : DecisionFits(d)'
    BY <2>1, <2>3 DEF Alone, DecisionFits, Is, Deciding
  <2>5. NewRowsAreDrafts'
    BY <1>1, <1>b, <2>1, <2>3 DEF NewRowsAreDrafts, Is
  <2> QED
    BY <1>c, <2>4, <2>5 DEF Orderly
<1>2. ASSUME NEW verb \in {"submit", "approve", "return", "cancel"}, NEW seen \in SUBSET RowIds,
             NEW stage \in RevenueStages \cup {"DRAFT"}, Begin(c, verb, seen, stage, <<>>),
             verb \in Deciding => seen = Rows /\ \A r \in Rows : ApprovedBefore(r, Position(stage))
      PROVE  Orderly'
  <2>1. /\ call'[c].verb = verb /\ call'[c].seen = seen /\ call'[c].stage = stage
        /\ call'[c].begun = (verb = "upload") /\ \A d \in Calls \ {c} : call'[d] = call[d]
    <3>1. verb \in Verbs
      BY DEF Verbs
    <3> QED
      BY <1>0, <1>2, <1>a, <3>1, BeginTyped
  <2>2. \A d \in Calls : ~ Is(d, Uploads)
    BY <1>2 DEF Begin, Is
  <2>3. \A d \in Calls : ~ Is(d, Uploads)'
    BY <2>1, <2>2 DEF Is, Running, Uploads
  <2>4. Alone' /\ NewRowsAreDrafts'
    BY <2>3 DEF Alone, NewRowsAreDrafts
  <2>5. DecisionFits(c)'
    BY <1>2, <1>b, <2>1 DEF DecisionFits, Is, ApprovedBefore
  <2>6. ASSUME NEW d \in Calls \ {c} PROVE DecisionFits(d)'
    BY <1>b, <2>1 DEF Orderly, DecisionFits, Is, Running, ApprovedBefore
  <2> QED
    BY <1>c, <2>4, <2>5, <2>6 DEF Orderly
<1>3. ASSUME NEW t \in Templates, StartUpload(c, t) PROVE Orderly'
  BY <1>0, <1>1, <1>3 DEF StartUpload, HeaderFirst
<1>4. ASSUME NEW t \in Templates, StartOverride(c, t) PROVE Orderly'
  BY <1>1, <1>4 DEF StartOverride
<1>5. CASE StartSubmit(c)
  BY <1>2, <1>5, <1>a DEF StartSubmit, Deciding
<1>6. CASE StartCancel(c)
  BY <1>2, <1>6 DEF StartCancel, Deciding
<1>7. ASSUME NEW stage \in RevenueStages, NEW verb \in Deciding, StartDecision(c, stage, verb)
      PROVE  Orderly'
  <2>1. Begin(c, verb, Rows, stage, <<>>) /\ AllAt(stage)
    BY <1>7 DEF StartDecision
  <2>2. \A r \in Rows : ApprovedBefore(r, Position(stage))
    BY <2>1, Positions DEF AllAt, Orderly, RowFits
  <2> QED
    BY <1>2, <1>a, <2>1, <2>2 DEF Deciding
<1> QED
  BY <1>3, <1>4, <1>5, <1>6, <1>7 DEF Start, Deciding

\* An upload's steps.
LEMMA OrderlyUpload ==
  ASSUME IInv, Orderly, NEW c \in Calls, Replace(c) \/ CreateRow(c)
  PROVE  Orderly'
<1>0. TypeOK
  BY DEF IInv
<1>1. Is(c, Uploads) /\ \A d \in Calls \ {c} : ~ Running(d)
  BY DEF Replace, CreateRow, Orderly, Alone, Is, Uploads
<1>2. call'[c] = NoCall \/ call'[c].verb \in Uploads
  <2>1. call[c] \in Call /\ call[c].verb \in Uploads /\ Running(c)
    BY <1>0, <1>1 DEF Is, Running, TypeOK
  <2>2. CASE Done(c)
    BY <1>0, <2>2, DoneTyped
  <2>3. CASE call' = [call EXCEPT ![c].begun = TRUE] \/ call' = [call EXCEPT ![c].amounts = Tail(@)]
    BY <1>0, <2>1, <2>3 DEF TypeOK, Call
  <2> QED
    BY <2>2, <2>3 DEF Replace, CreateRow
<1>3. \A d \in Calls \ {c} : call'[d] = call[d]
  BY <1>0 DEF Replace, CreateRow, Done, TypeOK
<1>4. Alone' /\ \A d \in Calls : DecisionFits(d)'
  BY <1>1, <1>2, <1>3 DEF Alone, DecisionFits, Is, Running, Deciding, Uploads
<1>5. UNCHANGED <<category, approved, line>>
  BY DEF Replace, CreateRow, settings, reviewVars
<1>6. CASE Replace(c)
  <2>1. CASE Rows \cap reviewed = {}
    <3>1. Rows' = {}
      BY <1>6, <2>1 DEF Replace, Rows
    <3> QED
      BY <1>4, <3>1 DEF Orderly, Together, NewRowsAreDrafts
  <2>2. CASE Rows \cap reviewed # {}
    <3>1. UNCHANGED row /\ Done(c)
      BY <1>6, <2>2 DEF Replace
    <3>2. \A d \in Calls : ~ Running(d)'
      BY <1>0, <1>1, <3>1, DoneTyped DEF Running
    <3>3. NewRowsAreDrafts'
      BY <3>2 DEF NewRowsAreDrafts, Is
    <3>4. Together' /\ \A r \in Rows' : RowFits(r)'
      BY <1>5, <3>1 DEF Orderly, Together, RowFits, ApprovedBefore, Rows
    <3> QED
      BY <1>4, <3>3, <3>4 DEF Orderly
  <2> QED
    BY <2>1, <2>2
<1>7. CASE CreateRow(c)
  <2>0. PICK new \in RowIds : new = created'
    BY <1>7, RowCreated
  <2>1. /\ Rows' = Rows \cup {new}
        /\ row'[new].stage = "DRAFT" /\ row'[new].status = "DRAFT"
        /\ \A r \in RowIds \ {new} : row'[r] = row[r]
    BY <1>7, <2>0, RowCreated
  <2>2. category = "REVENUE" => \A r \in Rows : row[r].stage = "DRAFT" /\ row[r].status = "DRAFT"
    BY <1>1, <1>7 DEF Orderly, NewRowsAreDrafts, CreateRow
  <2>3. category = "REVENUE" => \A r \in Rows' : row'[r].stage = "DRAFT" /\ row'[r].status = "DRAFT"
    BY <2>1, <2>2 DEF Rows
  <2>4. Together' /\ NewRowsAreDrafts'
    BY <1>5, <2>3 DEF Together, NewRowsAreDrafts
  <2>5. RowFits(new)'
    <3>1. \A j \in 1 .. 4 : RevenueStageOrder[j] # "DRAFT"
      BY StageIn, StageFacts
    <3> QED
      BY <2>1, <3>1 DEF RowFits
  <2>6. ASSUME NEW r \in Rows \ {new} PROVE RowFits(r)'
    BY <1>5, <2>1 DEF Orderly, RowFits, ApprovedBefore, Rows
  <2> QED
    BY <1>4, <2>1, <2>4, <2>5, <2>6 DEF Orderly
<1> QED
  BY <1>6, <1>7

\* All rows at one stage that had its approvals, with one status.
LEMMA AllMoved ==
  ASSUME TypeOK, Orderly, NEW stage \in Stages, NEW status \in Statuses \cup {"undefined"},
         UpdateRows(stage, status), UNCHANGED category,
         \A r \in Rows : \A j \in 1 .. 4 : stage = RevenueStageOrder[j] => ApprovedBefore(r, j)',
         stage = "APPROVED" => \A r \in Rows : ApprovedBefore(r, 5)' /\ line'[r] # NoAmount
  PROVE  Together' /\ \A r \in Rows : RowFits(r)'
<1>1. /\ Rows' = Rows /\ \A r \in Rows : row'[r].stage = stage
      /\ status = "undefined" => \A r \in Rows : row'[r].status = row[r].status
      /\ status # "undefined" => \A r \in Rows : row'[r].status = status
  BY RowsUpdated
<1>2. Together'
  BY <1>1 DEF Orderly, Together
<1>3. ASSUME NEW r \in Rows PROVE RowFits(r)'
  BY <1>1 DEF RowFits
<1> QED
  BY <1>2, <1>3

LEMMA OrderlyMove ==
  ASSUME IInv, Orderly, NEW c \in Calls, Move(c)
  PROVE  Orderly'
<1>0. TypeOK
  BY DEF IInv
<1>1. Running(c) /\ ~ Is(c, Uploads) /\ Is(c, Deciding) /\ call[c].begun
  BY DEF Move, Is, Uploads, Deciding
<1>2. UNCHANGED <<category, approved, line>>
  BY DEF Move, settings, reviewVars
<1> DEFINE p == Position(call[c].stage)
<1>3. p \in 1 .. 4 /\ RevenueStageOrder[p] = call[c].stage
  BY Moves, Positions
<1>4. /\ \A r \in Rows : ApprovedBefore(r, p)
      /\ call[c].verb = "approve" => \A r \in Rows : RevenueStageOrder[p] \in approved[r]
  BY <1>1, <1>3 DEF Orderly, DecisionFits, Is
<1>5. ASSUME NEW n \in 1 .. 4, UpdateRows(RevenueStageOrder[n], "undefined"),
             \A r \in Rows : ApprovedBefore(r, n)
      PROVE  Together' /\ \A r \in Rows : RowFits(r)'
  <2>1. RevenueStageOrder[n] \in Stages /\ RevenueStageOrder[n] # "APPROVED"
    BY StageIn, StageFacts DEF Stages
  <2>2. \A r \in Rows : \A j \in 1 .. 4 :
           RevenueStageOrder[n] = RevenueStageOrder[j] => ApprovedBefore(r, j)'
    BY <1>2, <1>5, StageFacts DEF ApprovedBefore
  <2> QED
    BY <1>0, <1>2, <1>5, <2>1, <2>2, AllMoved
<1>6. Together' /\ \A r \in Rows : RowFits(r)'
  <2>1. CASE call[c].verb = "approve" /\ p < 4 /\ UpdateRows(RevenueStageOrder[p + 1], "undefined")
    <3>1. p + 1 \in 1 .. 4
      BY <1>3, <2>1
    <3>2. \A r \in Rows : ApprovedBefore(r, p + 1)
      <4> SUFFICES ASSUME NEW r \in Rows, NEW i \in 1 .. 4, i < p + 1
                   PROVE  RevenueStageOrder[i] \in approved[r]
        BY DEF ApprovedBefore
      <4>1. i < p \/ i = p
        BY <1>3
      <4> QED
        BY <1>4, <2>1, <4>1 DEF ApprovedBefore
    <3> QED
      BY <1>5, <2>1, <3>1, <3>2
  <2>2. CASE call[c].verb = "return" /\ p > 1 /\ UpdateRows(RevenueStageOrder[p - 1], "undefined")
    <3>1. p - 1 \in 1 .. 4
      BY <1>3, <2>2
    <3>2. \A r \in Rows : ApprovedBefore(r, p - 1)
      BY <1>3, <1>4 DEF ApprovedBefore
    <3> QED
      BY <1>5, <2>2, <3>1, <3>2
  <2>3. CASE UpdateRows("DRAFT", "RETURNED")
    <3>1. \A j \in 1 .. 4 : RevenueStageOrder[j] # "DRAFT"
      BY StageIn, StageFacts
    <3> QED
      BY <1>0, <1>2, <2>3, <3>1, AllMoved DEF Stages, Statuses
  <2> QED
    BY <2>1, <2>2, <2>3, Moves
<1>7. Done(c) /\ Rows' = Rows
  <2>1. Rows' = Rows
    <3>1. ASSUME NEW r \in RowIds PROVE row'[r] = NoRow <=> row[r] = NoRow
      <4>1. \E stage \in Stages, status \in Statuses \cup {"undefined"} : UpdateRows(stage, status)
        <5>1. \A i \in 1 .. 4 : (i < 4 => i + 1 \in 1 .. 4) /\ (i > 1 => i - 1 \in 1 .. 4)
          OBVIOUS
        <5> QED
          BY <1>3, <5>1, Moves, StageIn DEF Stages, Statuses
      <4> QED
        BY <1>0, <4>1, RowsUpdated DEF Rows
    <3> QED
      BY <3>1 DEF Rows
  <2> QED
    BY <2>1, Moves
<1> QED
  BY <1>0, <1>1, <1>2, <1>6, <1>7, OrderlyEnd

LEMMA OrderlySubmit ==
  ASSUME IInv, Orderly, NEW c \in Calls,
         SubmitRevenue(c) \/ (\E r \in RowIds : SubmitRow(c, r)) \/ Cancel(c)
  PROVE  Orderly'
<1>0. TypeOK
  BY DEF IInv
<1>1. Running(c) /\ ~ Is(c, Uploads) /\ ~ Is(c, Deciding) /\ UNCHANGED <<category, approved, line>>
  BY DEF SubmitRevenue, SubmitRow, Cancel, Is, Uploads, Deciding, settings, reviewVars
<1>2. ASSUME NEW stage \in {FirstStage, "CANCELLED"}, NEW status \in {"IN_REVIEW", "CANCELLED"},
             UpdateRows(stage, status), Done(c)
      PROVE  Orderly'
  <2>1. stage \in Stages /\ status \in Statuses /\ stage # "APPROVED"
    <3>1. 1 \in 1 .. 4
      OBVIOUS
    <3> QED
      BY <3>1, StageIn, StageFacts DEF FirstStage, Stages, Statuses
  <2>2. \A j \in 1 .. 4 : stage = RevenueStageOrder[j] => j = 1
    <3>1. 1 \in 1 .. 4
      OBVIOUS
    <3> QED
      BY <3>1, StageFacts, StageIn DEF FirstStage
  <2>3. \A r \in Rows : \A j \in 1 .. 4 : stage = RevenueStageOrder[j] => ApprovedBefore(r, j)'
    BY <2>2 DEF ApprovedBefore
  <2>4. Together' /\ \A r \in Rows : RowFits(r)'
    BY <1>0, <1>1, <1>2, <2>1, <2>3, AllMoved
  <2>5. Rows' = Rows
    BY <1>0, <1>2, <2>1, RowsUpdated
  <2> QED
    BY <1>0, <1>1, <1>2, <2>4, <2>5, OrderlyEnd
<1>3. CASE SubmitRevenue(c) \/ Cancel(c)
  BY <1>2, <1>3 DEF SubmitRevenue, Cancel
<1>4. ASSUME NEW r \in RowIds, SubmitRow(c, r) PROVE Orderly'
  <2>1. /\ category = "SBU" /\ call[c].verb = "submit" /\ call[c] \in Call
        /\ UNCHANGED row \/ (Submittable(r) /\ row' = Submitted(r))
    BY <1>0, <1>4 DEF SubmitRow, Is, Running, TypeOK
  <2>2. Rows' = Rows /\ \A s \in Rows : row'[s] = row[s] \/ row'[s].stage = "SF_VALIDATION"
    <3>1. CASE UNCHANGED row
      BY <3>1 DEF Rows
    <3>2. CASE Submittable(r) /\ row' = Submitted(r)
      BY <1>0, <3>2, RowSubmitted
    <3> QED
      BY <2>1, <3>1, <3>2
  <2>3. ASSUME NEW s \in Rows PROVE RowFits(s)'
    <3>1. \A j \in 1 .. 4 : RevenueStageOrder[j] # "SF_VALIDATION"
      BY StageIn, StageFacts
    <3>2. RowFits(s)
      BY DEF Orderly
    <3> QED
      BY <1>1, <2>2, <3>1, <3>2 DEF RowFits, ApprovedBefore
  <2>4. Together'
    BY <1>1, <2>1 DEF Together
  <2>5. call'[c] = NoCall \/ call'[c].verb = "submit"
    <3>1. CASE Done(c)
      BY <1>0, <3>1, DoneTyped
    <3>2. CASE call' = [call EXCEPT ![c].seen = @ \ {r}]
      BY <1>0, <2>1, <3>2 DEF TypeOK, Call
    <3> QED
      BY <1>4, <3>1, <3>2 DEF SubmitRow
  <2>6. ~ Is(c, Uploads)' /\ DecisionFits(c)'
    BY <2>5 DEF Is, Running, Uploads, Deciding, DecisionFits
  <2>7. \A d \in Calls \ {c} : call'[d] = call[d]
    BY <1>0, <1>4 DEF SubmitRow, Done, TypeOK
  <2> QED
    BY <1>1, <2>2, <2>3, <2>4, <2>6, <2>7, OrderlyStep
<1> QED
  BY <1>3, <1>4

LEMMA OrderlyReview ==
  ASSUME IInv, Orderly, NEW c \in Calls, LogDecision(c) \/ Finalize(c)
  PROVE  Orderly'
<1>0. TypeOK
  BY DEF IInv
<1>1. Running(c) /\ ~ Is(c, Uploads) /\ Is(c, Deciding) /\ UNCHANGED category
  BY DEF LogDecision, Finalize, Finalizes, Is, Uploads, Deciding, settings
<1>2. /\ call[c] \in Call /\ call[c].seen = Rows /\ call[c].stage \in RevenueStages
      /\ \A r \in Rows : ApprovedBefore(r, Position(call[c].stage))
  BY <1>0, <1>1, DecidingCall DEF Orderly, DecisionFits, IInv, CallsFit
<1>a. Rows \subseteq RowIds
  BY DEF Rows
<1>3. CASE LogDecision(c)
  <2>1. /\ call' = [call EXCEPT ![c].begun = TRUE] /\ UNCHANGED <<row, line>>
        /\ call[c].verb = "approve" => ApprovedNow(c)
        /\ call[c].verb # "approve" => UNCHANGED approved
    BY <1>2, <1>3 DEF LogDecision, batchVars
  <2>2. /\ \A r \in RowIds : approved[r] \subseteq approved'[r]
        /\ call[c].verb = "approve" => \A r \in Rows : call[c].stage \in approved'[r]
    BY <1>1, <1>2, <1>a, <2>1, ApprovedNowTyped
  <2>3. /\ call'[c] = [call[c] EXCEPT !.begun = TRUE]
        /\ \A d \in Calls \ {c} : call'[d] = call[d]
    BY <1>0, <1>1, <2>1, CallBegun
  <2>4. call'[c].verb = call[c].verb /\ call'[c].stage = call[c].stage /\ call'[c].seen = call[c].seen
    BY <1>2, <2>3 DEF Call
  <2>5. Rows' = Rows
    BY <2>1 DEF Rows
  <2>6. \A r \in Rows, n \in 1 .. 5 : ApprovedBefore(r, n) => ApprovedBefore(r, n)'
    BY <1>a, <2>2 DEF ApprovedBefore
  <2>7. Position(call[c].stage) \in 1 .. 4
    BY <1>2, Positions
  <2>8. DecisionFits(c)'
    <3>1. call'[c].seen = Rows'
      BY <1>2, <2>4, <2>5
    <3>0. PICK p \in 1 .. 4 : p = Position(call[c].stage)
      BY <2>7
    <3>2. Position(call'[c].stage) = p /\ \A r \in Rows' : ApprovedBefore(r, p)'
      <4>1. p \in 1 .. 5
        OBVIOUS
      <4> QED
        BY <1>2, <2>4, <2>5, <2>6, <3>0, <4>1
    <3>3. Is(c, {"approve"})' => \A r \in Rows' : call'[c].stage \in approved'[r]
      BY <2>2, <2>4, <2>5 DEF Is
    <3> QED
      BY <3>1, <3>2, <3>3 DEF DecisionFits, ApprovedBefore
  <2>9. ASSUME NEW r \in Rows PROVE RowFits(r)'
    <3>1. RowFits(r)
      BY DEF Orderly
    <3>2. 5 \in 1 .. 5 /\ \A j \in 1 .. 4 : j \in 1 .. 5
      OBVIOUS
    <3> QED
      BY <2>1, <2>6, <3>1, <3>2 DEF RowFits
  <2>10. Together' /\ ~ Is(c, Uploads)'
    <3>1. Together'
      BY <1>1, <2>1, <2>5 DEF Orderly, Together
    <3>2. call[c].verb \in Deciding
      BY <1>1 DEF Is
    <3> QED
      BY <2>4, <3>1, <3>2 DEF Is, Uploads, Deciding
  <2> QED
    BY <1>1, <1>a, <2>2, <2>3, <2>5, <2>8, <2>9, <2>10, OrderlyStep
<1>4. CASE Finalize(c)
  <2>1. CASE \A r \in call[c].seen : line[r] = NoAmount
    <3>1. /\ ApprovedNow(c) /\ UpdateRows("APPROVED", "APPROVED") /\ Done(c)
          /\ line' = [r \in RowIds |-> IF r \in call[c].seen THEN call[c].read[r] ELSE line[r]]
          /\ call[c].stage = LastStage
      BY <1>2, <1>4, <2>1 DEF Finalize, Finalizes
    <3>2. /\ \A r \in RowIds : approved[r] \subseteq approved'[r]
          /\ \A r \in Rows : LastStage \in approved'[r]
      BY <1>1, <1>2, <1>a, <3>1, ApprovedNowTyped
    <3>3. Position(LastStage) = 4
      <4>1. 4 \in 1 .. 4
        OBVIOUS
      <4>2. Position(LastStage) \in 1 .. 4 /\ RevenueStageOrder[Position(LastStage)] = LastStage
        BY <1>2, <3>1, Positions
      <4> QED
        BY <4>1, <4>2, StageFacts DEF LastStage
    <3>4. ASSUME NEW r \in Rows PROVE ApprovedBefore(r, 5)'
      <4> SUFFICES ASSUME NEW i \in 1 .. 4 PROVE RevenueStageOrder[i] \in approved'[r]
        BY DEF ApprovedBefore
      <4>1. i < 4 \/ i = 4
        OBVIOUS
      <4>2. ApprovedBefore(r, 4)
        BY <1>2, <3>1, <3>3
      <4> QED
        BY <1>a, <3>2, <4>1, <4>2 DEF ApprovedBefore, LastStage
    <3>5. ASSUME NEW r \in Rows PROVE line'[r] # NoAmount
      <4>1. CallsFit /\ Finalizes(c)
        BY <1>4 DEF IInv, Finalize
      <4> QED
        BY <1>2, <1>a, <3>1, <4>1 DEF CallsFit
    <3>6. \A j \in 1 .. 4 : RevenueStageOrder[j] # "APPROVED"
      BY StageIn, StageFacts
    <3>7. Together' /\ \A r \in Rows : RowFits(r)'
      BY <1>0, <1>1, <3>1, <3>4, <3>5, <3>6, AllMoved DEF Stages, Statuses
    <3>8. Rows' = Rows
      BY <1>0, <3>1, RowsUpdated DEF Stages, Statuses
    <3>9. call'[c] = NoCall /\ \A d \in Calls \ {c} : call'[d] = call[d]
      BY <1>0, <3>1, DoneTyped
    <3>10. ~ Is(c, Uploads)' /\ DecisionFits(c)'
      BY <3>9 DEF Is, Running, DecisionFits
    <3> QED
      BY <1>1, <1>a, <3>2, <3>7, <3>8, <3>9, <3>10, OrderlyStep
  <2>2. CASE ~(\A r \in call[c].seen : line[r] = NoAmount)
    <3>1. UNCHANGED <<row, approved, line>> /\ Done(c)
      BY <1>4, <2>2 DEF Finalize
    <3>2. Rows' = Rows /\ Together' /\ \A r \in Rows : RowFits(r)'
      BY <1>1, <3>1 DEF Orderly, Together, RowFits, ApprovedBefore, Rows
    <3> QED
      BY <1>0, <1>1, <3>1, <3>2, OrderlyEnd
  <2> QED
    BY <2>1, <2>2
<1> QED
  BY <1>3, <1>4

LEMMA OrderlyElse ==
  ASSUME IInv, Orderly, RowAlone \/ Outside \/ Crash \/ UNCHANGED vars
  PROVE  Orderly'
<1>0. TypeOK
  BY DEF IInv
<1>1. CASE RowAlone
  <2>1. /\ Rows' = Rows /\ UNCHANGED <<category, approved, line, call>>
        /\ \A r \in Rows :
             \/ row'[r].stage = row[r].stage /\ row'[r].status = row[r].status
             \/ category = "SBU" /\ row'[r].stage \in {"DRAFT", "SF_VALIDATION", "CANCELLED"}
    BY <1>0, <1>1, RowAloneFrame DEF settings
  <2>2. Alone' /\ \A c \in Calls : DecisionFits(c)'
    BY <2>1 DEF Orderly, Alone, DecisionFits, Is, Running, ApprovedBefore
  <2>3. Together' /\ NewRowsAreDrafts'
    BY <2>1 DEF Orderly, Together, NewRowsAreDrafts, Is, Running
  <2>4. ASSUME NEW r \in Rows PROVE RowFits(r)'
    <3>1. \A j \in 1 .. 4 : RevenueStageOrder[j] \notin {"DRAFT", "SF_VALIDATION", "CANCELLED"}
      BY StageIn, StageFacts
    <3>2. RowFits(r)
      BY DEF Orderly
    <3> QED
      BY <2>1, <3>1, <3>2 DEF RowFits, ApprovedBefore
  <2> QED
    BY <2>1, <2>2, <2>3, <2>4 DEF Orderly
<1>2. CASE Outside \/ UNCHANGED vars
  <2>1. UNCHANGED <<category, row, approved, line, call>>
    BY <1>2 DEF Outside, SetBoardBudget, MoveGate, vars, batchVars, reviewVars
  <2> QED
    BY <2>1 DEF Orderly, Alone, Together, NewRowsAreDrafts, RowFits, DecisionFits, Is, Running,
                ApprovedBefore, Rows
<1>3. CASE Crash
  <2>1. UNCHANGED <<category, row, approved, line>> /\ \A c \in Calls : ~ Running(c)'
    BY <1>3 DEF Crash, settings, batchVars, reviewVars, Running
  <2>2. Alone' /\ NewRowsAreDrafts' /\ \A c \in Calls : DecisionFits(c)'
    BY <2>1 DEF Alone, NewRowsAreDrafts, DecisionFits, Is
  <2>3. Together' /\ \A r \in Rows' : RowFits(r)'
    BY <2>1 DEF Orderly, Together, RowFits, ApprovedBefore, Rows
  <2> QED
    BY <2>2, <2>3 DEF Orderly
<1> QED
  BY <1>1, <1>2, <1>3

LEMMA StaysOrderly == IInv /\ UInv /\ [Next]_vars => UInv'
<1> SUFFICES ASSUME IInv, UInv, [Next]_vars, ~ torn' PROVE Orderly'
  BY DEF UInv
<1>1. ~ torn
  BY StepCases DEF Start, StartUpload, StartOverride, StartSubmit, StartCancel, StartDecision, Begin,
       Continue, Replace, CreateRow, SubmitRevenue, SubmitRow, Cancel, LogDecision, Move, Finalize,
       RowAlone, Edit, SubmitOne, CancelOne, ReturnOne, Outside, SetBoardBudget, MoveGate, Crash, vars
<1>2. Orderly
  BY <1>1 DEF UInv
<1>3. ASSUME NEW c \in Calls, Continue(c) PROVE Orderly'
  BY <1>2, <1>3, OrderlyUpload, OrderlySubmit, OrderlyReview, OrderlyMove DEF Continue
<1> QED
  BY <1>2, <1>3, OrderlyStart, OrderlyElse, StepCases

LEMMA InvariantHolds == Spec => [](IInv /\ UInv)
BY InitEstablishes, InitIsOrderly, StepKeeps, StaysOrderly, PTL DEF Spec

\* While uploads run alone, the rows of a Revenue batch share one stage and
\* status, for any number of rows and of overlapping decisions, submits, edits
\* and cancels (workflowService.ts, revenueBatches.ts).
THEOREM SiblingsStayTogether == Spec => []SiblingsMoveTogether
<1>1. IInv /\ UInv => SiblingsMoveTogether
  BY DEF UInv, Orderly, Together, SiblingsMoveTogether
<1> QED
  BY <1>1, InvariantHolds, PTL

\* While uploads run alone, a Revenue row is at a stage only after every earlier
\* one approved it, and is approved only after all four and with its line
\* (revenueBatchDecision in workflowService.ts).
THEOREM StagesInOrder == Spec => []EarlierStagesApproved
<1>1. IInv /\ UInv => EarlierStagesApproved
  <2> SUFFICES ASSUME Orderly, NEW r \in Rows
               PROVE  /\ \A i, j \in DOMAIN RevenueStageOrder :
                           row[r].stage = RevenueStageOrder[j] /\ i < j => RevenueStageOrder[i] \in approved[r]
                      /\ row[r].stage = "APPROVED" => RevenueStages \subseteq approved[r] /\ line[r] # NoAmount
    BY DEF UInv, EarlierStagesApproved
  <2>1. RowFits(r)
    BY DEF Orderly
  <2>2. ApprovedBefore(r, 5) => RevenueStages \subseteq approved[r]
    <3>1. 1 \in 1 .. 4 /\ 2 \in 1 .. 4 /\ 3 \in 1 .. 4 /\ 4 \in 1 .. 4 /\ 1 < 5 /\ 2 < 5 /\ 3 < 5 /\ 4 < 5
      OBVIOUS
    <3> QED
      BY <3>1, StageFacts DEF ApprovedBefore
  <2> QED
    BY <2>1, <2>2, StageFacts DEF RowFits, ApprovedBefore
<1> QED
  BY <1>1, InvariantHolds, PTL

=============================================================================
