----------------------------- MODULE ManpowerProofs -----------------------------
(***************************************************************************)
(* The manpower budget, for any companies, ranks, templates and calls.  The *)
(* roster's sum over the ranks is proved to be a number first, by the least *)
(* set of ranks that would not have one: that needs no induction rule.      *)
(***************************************************************************)
EXTENDS Manpower, FiniteSetTheorems, WellFoundedInduction, TLAPS

-----------------------------------------------------------------------------
(* Sums over finite sets.                                                   *)

LEMMA LeastNatural ==
  ASSUME NEW T, T \subseteq Nat, T # {}
  PROVE  \E n \in T : \A m \in T : ~(m < n)
<1>1. IsWellFoundedOn(OpToRel(<, Nat), Nat)
  BY NatLessThanWellFounded
<1>2. PICK n \in T : \A m \in T : ~(<<m, n>> \in OpToRel(<, Nat))
  BY <1>1, WFMin
<1> QED
  BY <1>2 DEF OpToRel

\* The element a sum takes next, and the equation of the sum of v over the
\* sets in D.
First(s) == CHOOSE x \in s : TRUE
SumsUp(D, v, f) ==
  \A s \in D : f[s] = IF s = {} THEN 0 ELSE v[First(s)] + f[s \ {First(s)}]

LEMMA FirstIsIn ==
  ASSUME NEW s, s # {}
  PROVE  First(s) \in s
BY DEF First

\* The subsets of at most n elements.
UpTo(S, n) == {s \in SUBSET S : Cardinality(s) <= n}

LEMMA SubsetsOf ==
  ASSUME NEW S, IsFiniteSet(S)
  PROVE  /\ \A s \in SUBSET S : IsFiniteSet(s) /\ Cardinality(s) \in Nat
         /\ \A s \in SUBSET S : s # {} =>
              s \ {First(s)} \in SUBSET S /\ Cardinality(s \ {First(s)}) = Cardinality(s) - 1
         /\ \A s \in SUBSET S : Cardinality(s) = 0 <=> s = {}
         /\ UpTo(S, Cardinality(S)) = SUBSET S
<1>1. \A s \in SUBSET S : IsFiniteSet(s) /\ Cardinality(s) \in Nat /\ Cardinality(s) <= Cardinality(S)
  BY FS_Subset, FS_CardinalityType
<1>2. \A s \in SUBSET S : s # {} => Cardinality(s \ {First(s)}) = Cardinality(s) - 1
  BY <1>1, FirstIsIn, FS_RemoveElement
<1>3. \A s \in SUBSET S : Cardinality(s) = 0 <=> s = {}
  BY <1>1, FS_EmptySet
<1> QED
  BY <1>1, <1>2, <1>3 DEF UpTo

\* There is a sum over every subset: else there is a least size at which there
\* is none, and the sums over the smaller subsets give those of that size.
LEMMA SumsExist ==
  ASSUME NEW S, IsFiniteSet(S), NEW v \in [S -> Nat]
  PROVE  \E f \in [SUBSET S -> Nat] : SumsUp(SUBSET S, v, f)
<1> DEFINE Has(n) == \E f \in [UpTo(S, n) -> Nat] : SumsUp(UpTo(S, n), v, f)
           T == {n \in Nat : ~Has(n)}
<1>1. ASSUME T # {} PROVE FALSE
  <2>1. PICK n \in T : \A m \in T : ~(m < n)
    BY <1>1, LeastNatural
  <2>2. CASE n = 0
    <3>1. UpTo(S, 0) = {{}}
      BY SubsetsOf DEF UpTo
    <3> DEFINE f == [s \in UpTo(S, 0) |-> 0]
    <3>2. f \in [UpTo(S, 0) -> Nat] /\ SumsUp(UpTo(S, 0), v, f)
      BY <3>1 DEF SumsUp
    <3> QED
      BY <2>1, <2>2, <3>2
  <2>3. CASE n # 0
    <3>1. n \in Nat /\ n - 1 \in Nat /\ n - 1 < n
      BY <2>1, <2>3
    <3>2. Has(n - 1)
      BY <2>1, <3>1
    <3>3. PICK g \in [UpTo(S, n - 1) -> Nat] : SumsUp(UpTo(S, n - 1), v, g)
      BY <3>2
    <3> DEFINE f == [s \in UpTo(S, n) |-> IF s = {} THEN 0 ELSE v[First(s)] + g[s \ {First(s)}]]
    <3>4. UpTo(S, n - 1) \subseteq UpTo(S, n)
      BY <3>1, SubsetsOf DEF UpTo
    <3>5. \A s \in UpTo(S, n) : s # {} => s \ {First(s)} \in UpTo(S, n - 1) /\ First(s) \in S
      BY <3>1, SubsetsOf, FirstIsIn DEF UpTo
    <3>6. \A s \in UpTo(S, n) : s # {} => v[First(s)] \in Nat /\ g[s \ {First(s)}] \in Nat
      BY <3>5
    <3>7. f \in [UpTo(S, n) -> Nat]
      BY <3>6
    <3>8. \A s \in UpTo(S, n - 1) : f[s] = g[s]
      BY <3>3, <3>4 DEF SumsUp
    <3>9. SumsUp(UpTo(S, n), v, f)
      BY <3>5, <3>8 DEF SumsUp
    <3> QED
      BY <2>1, <3>7, <3>9
  <2> QED
    BY <2>2, <2>3
<1>2. Cardinality(S) \in Nat
  BY FS_CardinalityType
<1>3. Has(Cardinality(S))
  BY <1>1, <1>2
<1>4. UpTo(S, Cardinality(S)) = SUBSET S
  BY SubsetsOf
<1> QED
  BY <1>3, <1>4

\* Whatever sums numbers up is a number: the least subset where it was not
\* would add one to the sum over a smaller.
LEMMA SumsAreNumbers ==
  ASSUME NEW S, IsFiniteSet(S), NEW v \in [S -> Nat], NEW f, SumsUp(SUBSET S, v, f)
  PROVE  f[S] \in Nat
<1> DEFINE T == {n \in Nat : \E s \in SUBSET S : Cardinality(s) = n /\ f[s] \notin Nat}
<1>1. ASSUME T # {} PROVE FALSE
  <2>1. PICK n \in T : \A m \in T : ~(m < n)
    BY <1>1, LeastNatural
  <2>2. PICK s \in SUBSET S : Cardinality(s) = n /\ f[s] \notin Nat
    BY <2>1
  <2>3. s # {}
    <3>1. {} \in SUBSET S
      OBVIOUS
    <3>2. f[{}] = 0
      BY <3>1 DEF SumsUp
    <3>3. f[{}] \in Nat
      BY <3>2
    <3> QED
      BY <2>2, <3>3, Zenon
  <2>4. /\ s \ {First(s)} \in SUBSET S /\ First(s) \in S
        /\ Cardinality(s \ {First(s)}) \in Nat /\ Cardinality(s \ {First(s)}) < n
    <3>1. s \ {First(s)} \in SUBSET S /\ Cardinality(s \ {First(s)}) = Cardinality(s) - 1
      BY <2>3, SubsetsOf
    <3>2. Cardinality(s \ {First(s)}) \in Nat /\ Cardinality(s) \in Nat
      BY <3>1, SubsetsOf
    <3>3. First(s) \in S
      BY <2>3, FirstIsIn
    <3> QED
      BY <2>2, <3>1, <3>2, <3>3
  <2>5. f[s \ {First(s)}] \in Nat
    BY <2>1, <2>4
  <2>6. f[s] = v[First(s)] + f[s \ {First(s)}]
    BY <2>3 DEF SumsUp
  <2> QED
    BY <2>2, <2>4, <2>5, <2>6
<1> QED
  BY <1>1, FS_CardinalityType

\* The monthly pay of a company is a number.
LEMMA PayIsNatural ==
  ASSUME NEW company \in Companies, NEW byRank \in Heads, NEW rates \in Rates
  PROVE  MonthlyPay(company, byRank, rates) \in Nat
<1> DEFINE v == [l \in Levels |-> byRank[<<company, l>>] * rates[l]]
           Eq(f) == f = [s \in SUBSET Levels |->
                           IF s = {} THEN 0
                           ELSE byRank[<<company, CHOOSE x \in s : TRUE>>] * rates[CHOOSE x \in s : TRUE]
                                + f[s \ {CHOOSE x \in s : TRUE}]]
<1>1. MonthlyPay(company, byRank, rates) = (CHOOSE f : Eq(f))[Levels]
  BY DEF MonthlyPay, MapThenSumSet, MapThenFoldSet
<1>2. IsFiniteSet(Levels)
  BY ManpowerAssumption
<1>3. v \in [Levels -> Nat]
  <2>1. ASSUME NEW l \in Levels PROVE byRank[<<company, l>>] * rates[l] \in Nat
    <3>1. byRank[<<company, l>>] \in Nat /\ rates[l] \in Nat
      BY DEF Heads, Rates
    <3> QED
      BY <3>1
  <2> QED
    BY <2>1
<1>4. \A s \in SUBSET Levels : s # {} =>
        v[First(s)] = byRank[<<company, CHOOSE x \in s : TRUE>>] * rates[CHOOSE x \in s : TRUE]
  <2> SUFFICES ASSUME NEW s \in SUBSET Levels, s # {}
               PROVE  v[First(s)] = byRank[<<company, First(s)>>] * rates[First(s)]
    BY DEF First
  <2>1. First(s) \in Levels
    BY FirstIsIn
  <2> QED
    BY <2>1
<1> HIDE DEF v
<1>5. PICK g \in [SUBSET Levels -> Nat] : SumsUp(SUBSET Levels, v, g)
  BY <1>2, <1>3, SumsExist
<1>6. Eq(g)
  BY <1>4, <1>5 DEF SumsUp, First
<1>7. Eq(CHOOSE f : Eq(f))
  BY <1>6
<1>8. ASSUME NEW f, Eq(f) PROVE f[Levels] \in Nat
  <2>1. ASSUME NEW s \in SUBSET Levels
        PROVE  f[s] = IF s = {} THEN 0 ELSE v[First(s)] + f[s \ {First(s)}]
    <3>1. f[s] = IF s = {} THEN 0
                 ELSE byRank[<<company, First(s)>>] * rates[First(s)] + f[s \ {First(s)}]
      BY <1>8 DEF First
    <3>2. s # {} => v[First(s)] = byRank[<<company, First(s)>>] * rates[First(s)]
      BY <1>4 DEF First
    <3> QED
      BY <3>1, <3>2
  <2>2. SumsUp(SUBSET Levels, v, f)
    BY <2>1 DEF SumsUp
  <2> QED
    BY <1>2, <1>3, <2>2, SumsAreNumbers
<1> HIDE DEF Eq
<1> QED
  BY <1>1, <1>7, <1>8

-----------------------------------------------------------------------------
(* The types.                                                               *)

AnyCall == UploadCall \cup EditCall \cup ReviewCall
CallType == [Calls -> AnyCall \cup {NoCall}]
RunType == [Runs -> Recompute \cup {NoCall}]

\* A call is told by its verb.
LEMMA CallByVerb ==
  ASSUME TypeOK, NEW c \in Calls, call[c] # NoCall
  PROVE  /\ call[c] \in AnyCall
         /\ call[c].verb = "upload" => call[c] \in UploadCall
         /\ call[c].verb = "edit" => call[c] \in EditCall
         /\ call[c].verb \in Reviews => call[c] \in ReviewCall
<1>1. call[c] \in AnyCall
  BY DEF TypeOK, AnyCall
<1> QED
  BY <1>1 DEF AnyCall, UploadCall, EditCall, ReviewCall, Reviews

LEMMA BeginTyped ==
  ASSUME TypeOK, NEW c \in Calls, NEW new \in AnyCall, Begin(c, new)
  PROVE  /\ call' \in CallType /\ acts' \in 0 .. MaxActs
         /\ torn' \in BOOLEAN /\ crossed' \in BOOLEAN
         /\ call'[c] = new /\ \A d \in Calls \ {c} : call'[d] = call[d]
<1>1. call' = [call EXCEPT ![c] = new] /\ acts < MaxActs /\ acts' = acts + 1
  BY DEF Begin, Act
<1>2. call \in CallType /\ acts \in 0 .. MaxActs /\ MaxActs \in Nat
  BY ManpowerAssumption DEF TypeOK, CallType, AnyCall
<1>3. acts' \in 0 .. MaxActs
  BY <1>1, <1>2
<1>4. torn' \in BOOLEAN /\ crossed' \in BOOLEAN
  BY DEF Begin, TypeOK
<1> QED
  BY <1>1, <1>2, <1>3, <1>4 DEF CallType

LEMMA DoneTyped ==
  ASSUME TypeOK, NEW c \in Calls, Done(c)
  PROVE  call' \in CallType /\ call'[c] = NoCall /\ \A d \in Calls \ {c} : call'[d] = call[d]
BY DEF Done, TypeOK, CallType, AnyCall

LEMMA ActTyped ==
  ASSUME TypeOK, Act
  PROVE  acts' \in 0 .. MaxActs
BY ManpowerAssumption DEF Act, TypeOK

LEMMA InitTyped == Init => TypeOK
<1> SUFFICES ASSUME Init PROVE TypeOK
  OBVIOUS
<1>1. rate \in Rates /\ heads \in Heads /\ roster \in [Companies -> Nat \cup {NoRoster}]
  BY DEF Init, Rates, Heads
<1>2. cell \in [Cells -> Cell]
  <2>1. [ytd |-> 0, lump |-> NoLump, months |-> {}] \in Cell
    BY DEF Cell
  <2> QED
    BY <2>1 DEF Init
<1>3. acts \in 0 .. MaxActs /\ posted \in Nat
  BY ManpowerAssumption DEF Init
<1> QED
  BY <1>1, <1>2, <1>3 DEF Init, TypeOK, Stages

LEMMA UploadTyped ==
  ASSUME TypeOK, NEW c \in Calls, NEW t \in Templates, StartUpload(c, t)
  PROVE  TypeOK'
<1> DEFINE new == [verb |-> "upload", left |-> Companies, heads |-> Unread, rate |-> Unread]
<1>1. new \in AnyCall
  BY DEF AnyCall, UploadCall
<1>2. Begin(c, new)
  BY DEF StartUpload
<1> HIDE DEF new
<1>3. /\ call' \in CallType /\ acts' \in 0 .. MaxActs
      /\ torn' \in BOOLEAN /\ crossed' \in BOOLEAN
  BY <1>1, <1>2, BeginTyped
<1>4. rate' \in Rates
  BY ManpowerAssumption DEF StartUpload, TypeOK, Rates
<1>5. heads' \in Heads
  BY ManpowerAssumption DEF StartUpload, TypeOK, Heads
<1> QED
  BY <1>3, <1>4, <1>5 DEF StartUpload, TypeOK, review, CallType, AnyCall

\* What reading a table and writing a roster make of the call.
LEMMA UploadReads ==
  ASSUME TypeOK, NEW c \in Calls, ReadTable(c)
  PROVE  /\ Is(c, {"upload"}) /\ call[c] \in UploadCall /\ call'[c] \in UploadCall
         /\ call'[c].verb = "upload" /\ call'[c].left = call[c].left
         /\ call'[c].heads \in {call[c].heads, heads} /\ call'[c].rate \in {call[c].rate, rate}
         /\ \A d \in Calls \ {c} : call'[d] = call[d]
         /\ call' \in CallType
<1>1. call[c] \in UploadCall /\ Is(c, {"upload"}) /\ call \in CallType
  BY CallByVerb DEF ReadTable, Is, TypeOK, CallType, AnyCall
<1>2. CASE call' = [call EXCEPT ![c].heads = heads]
  <2>1. call'[c] = [call[c] EXCEPT !.heads = heads] /\ \A d \in Calls \ {c} : call'[d] = call[d]
    BY <1>1, <1>2 DEF CallType
  <2>2. call'[c] \in UploadCall /\ heads \in Heads
    BY <1>1, <2>1 DEF UploadCall, TypeOK
  <2> QED
    BY <1>1, <1>2, <2>1, <2>2 DEF CallType, AnyCall, UploadCall
<1>3. CASE call' = [call EXCEPT ![c].rate = rate]
  <2>1. call'[c] = [call[c] EXCEPT !.rate = rate] /\ \A d \in Calls \ {c} : call'[d] = call[d]
    BY <1>1, <1>3 DEF CallType
  <2>2. call'[c] \in UploadCall /\ rate \in Rates
    BY <1>1, <2>1 DEF UploadCall, TypeOK
  <2> QED
    BY <1>1, <1>3, <2>1, <2>2 DEF CallType, AnyCall, UploadCall
<1> QED
  BY <1>2, <1>3 DEF ReadTable

LEMMA RosterWritten ==
  ASSUME TypeOK, NEW c \in Calls, NEW company \in Companies, WriteRoster(c, company)
  PROVE  /\ Is(c, {"upload"}) /\ call[c] \in UploadCall /\ company \in call[c].left
         /\ call[c].heads \in Heads /\ call[c].rate \in Rates
         /\ roster' = [roster EXCEPT ![company] = MonthlyPay(company, call[c].heads, call[c].rate)]
         /\ MonthlyPay(company, call[c].heads, call[c].rate) \in Nat
         /\ call' \in CallType /\ \A d \in Calls \ {c} : call'[d] = call[d]
         /\ \/ call[c].left = {company} /\ call'[c] = NoCall
            \/ /\ call'[c] \in UploadCall /\ call'[c].verb = "upload"
               /\ call'[c].left = call[c].left \ {company}
               /\ call'[c].heads = Unread /\ call'[c].rate = Unread
<1>1. call[c] \in UploadCall /\ Is(c, {"upload"}) /\ call \in CallType
  BY CallByVerb DEF WriteRoster, Is, TypeOK, CallType, AnyCall
<1>2. call[c].heads \in Heads /\ call[c].rate \in Rates /\ company \in call[c].left
  BY <1>1 DEF WriteRoster, UploadCall
<1>3. MonthlyPay(company, call[c].heads, call[c].rate) \in Nat
  BY <1>2, PayIsNatural
<1>4. CASE call[c].left = {company}
  <2>1. Done(c)
    BY <1>4 DEF WriteRoster
  <2> QED
    BY <1>1, <1>2, <1>3, <1>4, <2>1, DoneTyped DEF WriteRoster
<1>5. CASE call[c].left # {company}
  <2>1. call'[c] = [call[c] EXCEPT !.left = call[c].left \ {company}, !.heads = Unread, !.rate = Unread]
        /\ \A d \in Calls \ {c} : call'[d] = call[d]
    BY <1>1, <1>5 DEF WriteRoster, CallType
  <2>2. /\ call'[c] \in UploadCall /\ call'[c].verb = "upload"
        /\ call'[c].left = call[c].left \ {company}
        /\ call'[c].heads = Unread /\ call'[c].rate = Unread
    BY <1>1, <2>1 DEF UploadCall
  <2>3. call' \in CallType
    <3>1. call' = [d \in Calls |-> call'[d]]
      BY <1>1, <1>5 DEF WriteRoster, CallType
    <3> QED
      BY <1>1, <2>1, <2>2, <3>1 DEF CallType, AnyCall
  <2> QED
    BY <1>1, <1>2, <1>3, <2>1, <2>2, <2>3 DEF WriteRoster
<1> QED
  BY <1>4, <1>5

LEMMA CellRecomputed ==
  ASSUME TypeOK, NEW m \in Runs, NEW k \in Cells, WriteCell(m, k)
  PROVE  /\ run[m] \in Recompute /\ Recomputed(k, m) \in Cell
         /\ cell' = [cell EXCEPT ![k] = Recomputed(k, m)]
         /\ run' \in RunType /\ \A n \in Runs \ {m} : run'[n] = run[n]
         /\ \/ run'[m] = NoCall
            \/ run'[m] \in Recompute /\ run'[m].roster = run[m].roster /\ run'[m].asOf = run[m].asOf
<1>1. run[m] \in Recompute /\ run \in RunType /\ k[1] \in Companies /\ cell[k] \in Cell
  BY DEF WriteCell, Running, TypeOK, RunType, Cells
<1>2. run[m].roster[k[1]] \in Nat \cup {NoRoster} /\ run[m].asOf \in Cutoffs /\ run[m].asOf \in 0 .. 12
  BY <1>1, ManpowerAssumption DEF Recompute
<1>3. Recomputed(k, m) \in Cell
  <2>1. CASE run[m].roster[k[1]] = NoRoster \/ k[2] \notin RosterDriven
    BY <1>1, <1>2, <2>1 DEF Recomputed, Cell
  <2>2. CASE ~(run[m].roster[k[1]] = NoRoster \/ k[2] \notin RosterDriven)
    <3>1. Remaining(k, run[m].roster[k[1]], run[m].asOf) \in [pay : Nat, months : Nat]
      <4>1. run[m].roster[k[1]] \in Nat /\ 12 - run[m].asOf \in Nat /\ 2 \in Nat
        BY <1>2, <2>2
      <4> QED
        BY <4>1 DEF Remaining
    <3> QED
      BY <1>2, <2>2, <3>1 DEF Recomputed, Cell
  <2> QED
    BY <2>1, <2>2
<1>4. /\ run' \in RunType /\ \A n \in Runs \ {m} : run'[n] = run[n]
      /\ \/ run'[m] = NoCall
         \/ run'[m] \in Recompute /\ run'[m].roster = run[m].roster /\ run'[m].asOf = run[m].asOf
  <2>1. CASE run[m].left = {k}
    BY <1>1, <2>1 DEF WriteCell, RunType
  <2>2. CASE run[m].left # {k}
    <3>1. run' = [run EXCEPT ![m] = [run[m] EXCEPT !.left = run[m].left \ {k}]]
      BY <2>2 DEF WriteCell
    <3> DEFINE r == [run[m] EXCEPT !.left = run[m].left \ {k}]
    <3>2. r \in Recompute /\ r.roster = run[m].roster /\ r.asOf = run[m].asOf
      BY <1>1 DEF Recompute
    <3> HIDE DEF r
    <3> QED
      BY <1>1, <3>1, <3>2 DEF RunType, r
  <2> QED
    BY <2>1, <2>2
<1> QED
  BY <1>1, <1>3, <1>4 DEF WriteCell

LEMMA TypeKept == TypeOK /\ [Next]_vars => TypeOK'
<1> SUFFICES ASSUME TypeOK, [Next]_vars PROVE TypeOK'
  OBVIOUS
<1> USE DEF tables, review, history
<1>1. ASSUME NEW c \in Calls, NEW t \in Templates, StartUpload(c, t) PROVE TypeOK'
  BY <1>1, UploadTyped
<1>2. ASSUME NEW c \in Calls, NEW k \in Cells, NEW month \in EditMonths \cup {0}, StartEdit(c, k, month)
      PROVE  TypeOK'
  <2> DEFINE new == [verb |-> "edit", on |-> k, month |-> month, cell |-> cell[k]]
  <2>1. new \in AnyCall /\ Begin(c, new)
    BY <1>2 DEF StartEdit, AnyCall, EditCall, TypeOK
  <2> HIDE DEF new
  <2>2. /\ call' \in CallType /\ acts' \in 0 .. MaxActs
        /\ torn' \in BOOLEAN /\ crossed' \in BOOLEAN
    BY <2>1, BeginTyped
  <2> QED
    BY <1>2, <2>2 DEF StartEdit, TypeOK, CallType, AnyCall
<1>3. ASSUME NEW c \in Calls, NEW verb \in Reviews, StartReview(c, verb) PROVE TypeOK'
  <2> DEFINE new == [verb |-> verb]
  <2>1. new \in AnyCall /\ Begin(c, new)
    BY <1>3 DEF StartReview, AnyCall, ReviewCall
  <2> HIDE DEF new
  <2>2. /\ call' \in CallType /\ acts' \in 0 .. MaxActs
        /\ torn' \in BOOLEAN /\ crossed' \in BOOLEAN
    BY <2>1, BeginTyped
  <2>3. posted' \in Nat
    BY <1>3 DEF StartReview, TypeOK
  <2> QED
    BY <1>3, <2>2, <2>3 DEF StartReview, TypeOK, CallType, AnyCall
<1>4. ASSUME NEW c \in Calls, ReadTable(c) PROVE TypeOK'
  BY <1>4, UploadReads DEF ReadTable, TypeOK, CallType, AnyCall
<1>5. ASSUME NEW c \in Calls, NEW company \in Companies, WriteRoster(c, company) PROVE TypeOK'
  <2>1. call' \in CallType /\ roster' \in [Companies -> Nat \cup {NoRoster}]
    BY <1>5, RosterWritten DEF TypeOK
  <2> QED
    BY <1>5, <2>1 DEF WriteRoster, TypeOK, CallType, AnyCall
<1>6. ASSUME NEW c \in Calls, WriteEdit(c) PROVE TypeOK'
  <2>1. call' \in CallType
    BY <1>6, DoneTyped DEF WriteEdit
  <2>2. call[c] \in EditCall
    BY <1>6, CallByVerb DEF WriteEdit, Is
  <2>3. cell' \in [Cells -> Cell]
    <3>1. call[c].on \in Cells /\ call[c].month \in EditMonths \cup {0} /\ call[c].cell \in Cell
      BY <2>2 DEF EditCall
    <3>2. [ytd |-> cell[call[c].on].ytd, lump |-> call[c].cell.lump,
           months |-> call[c].cell.months \cup ({call[c].month} \ {0})] \in Cell
      BY <3>1 DEF TypeOK, Cell
    <3> QED
      BY <1>6, <3>1, <3>2 DEF WriteEdit, TypeOK
  <2> QED
    BY <1>6, <2>1, <2>3 DEF WriteEdit, TypeOK, CallType, AnyCall
<1>7. ASSUME NEW c \in Calls, WriteStage(c) PROVE TypeOK'
  <2>1. call' \in CallType
    BY <1>7, DoneTyped DEF WriteStage
  <2>2. NextStage(call[c].verb) \in Stages
    BY DEF NextStage, Stages
  <2>3. call[c].verb \in Reviews
    BY <1>7 DEF WriteStage, Is
  <2> QED
    BY <1>7, <2>1, <2>2, <2>3 DEF WriteStage, TypeOK, CallType, AnyCall
<1>8. ASSUME NEW m \in Runs, StartRun(m) PROVE TypeOK'
  <2>1. [fetched |-> FALSE, left |-> Cells, roster |-> roster, asOf |-> asOf] \in Recompute
    BY DEF Recompute, TypeOK
  <2>2. run' \in RunType
    BY <1>8, <2>1 DEF StartRun, TypeOK, RunType
  <2>3. crossed' \in BOOLEAN
    BY <1>8 DEF StartRun, TypeOK
  <2> QED
    BY <1>8, <2>2, <2>3 DEF StartRun, TypeOK, RunType
<1>9. ASSUME NEW m \in Runs, Fetch(m) PROVE TypeOK'
  <2>1. run[m] \in Recompute
    BY <1>9 DEF Fetch, Running, TypeOK
  <2>2. [run[m] EXCEPT !.fetched = TRUE] \in Recompute
    BY <2>1 DEF Recompute
  <2>3. run' \in RunType
    BY <1>9, <2>2 DEF Fetch, TypeOK, RunType
  <2> QED
    BY <1>9, <2>3 DEF Fetch, TypeOK, RunType
<1>10. ASSUME NEW m \in Runs, FetchFails(m) PROVE TypeOK'
  <2>1. acts' \in 0 .. MaxActs
    BY <1>10, ActTyped DEF FetchFails
  <2> QED
    BY <1>10, <2>1 DEF FetchFails, TypeOK
<1>11. ASSUME NEW m \in Runs, NEW k \in Cells, WriteCell(m, k) PROVE TypeOK'
  <2>1. cell' \in [Cells -> Cell] /\ run' \in RunType
    BY <1>11, CellRecomputed DEF TypeOK
  <2> QED
    BY <1>11, <2>1 DEF WriteCell, TypeOK, RunType
<1>12. ASSUME NEW month \in Cutoffs, SetAsOf(month) PROVE TypeOK'
  <2>1. acts' \in 0 .. MaxActs
    BY <1>12, ActTyped DEF SetAsOf
  <2> QED
    BY <1>12, <2>1 DEF SetAsOf, TypeOK
<1>13. CASE Crash
  <2>1. acts' \in 0 .. MaxActs
    BY <1>13, ActTyped DEF Crash
  <2>2. torn' \in BOOLEAN
    BY <1>13 DEF Crash, TypeOK
  <2> QED
    BY <1>13, <2>1, <2>2 DEF Crash, TypeOK
<1>14. CASE UNCHANGED vars
  BY <1>14 DEF vars, TypeOK
<1> QED
  BY <1>1, <1>2, <1>3, <1>4, <1>5, <1>6, <1>7, <1>8, <1>9, <1>10, <1>11, <1>12, <1>13, <1>14
  DEF Next, Start, Continue, RunStep

\* Every variable keeps its type: the monthly pay is a number, an uploaded
\* cell's remaining months are no fewer than none.
THEOREM ManpowerTypeCorrect == Spec => []TypeOK
BY InitTyped, TypeKept, PTL DEF Spec

-----------------------------------------------------------------------------
(* The review.  A decision under way has behind it what its stage had when  *)
(* it was looked at, and no signature or posting is taken back.             *)

Decided(c) ==
  /\ Is(c, {"headApprove"}) => "submit" \in signed
  /\ Is(c, {"officerUpload"}) => {"submit", "headApprove"} \subseteq signed /\ posted > 0

ReviewInv ==
  /\ UploadedWasReviewed
  /\ stage # "HR_ANALYST_DRAFT" => "submit" \in signed
  /\ \A c \in Calls : Decided(c)

LEMMA ReviewKept == TypeOK /\ ReviewInv /\ [Next]_vars => ReviewInv'
<1> SUFFICES ASSUME TypeOK, ReviewInv, [Next]_vars PROVE ReviewInv'
  OBVIOUS
<1>1. ASSUME UNCHANGED review, \A c \in Calls : Is(c, Reviews)' => call'[c] = call[c]
      PROVE  ReviewInv'
  <2>1. \A c \in Calls : Decided(c)'
    <3>1. \A c \in Calls : Is(c, Reviews)' => Is(c, Reviews)
      BY <1>1 DEF Is
    <3> QED
      BY <1>1, <3>1 DEF ReviewInv, Decided, Is, Reviews, review
  <2> QED
    BY <1>1, <2>1 DEF ReviewInv, UploadedWasReviewed, review
<1>2. ASSUME NEW c \in Calls, NEW verb \in Reviews, StartReview(c, verb) PROVE ReviewInv'
  <2> DEFINE new == [verb |-> verb]
  <2>1. new \in AnyCall /\ Begin(c, new)
    BY <1>2 DEF StartReview, AnyCall, ReviewCall
  <2>2. call'[c].verb = verb /\ \A d \in Calls \ {c} : call'[d] = call[d]
    BY <2>1, BeginTyped
  <2>3. UNCHANGED <<stage, signed>> /\ stage = ReviewedAt(verb) /\ posted \in Nat
        /\ posted' = IF verb = "officerUpload" THEN posted + 1 ELSE posted
    BY <1>2 DEF StartReview, TypeOK
  <2>4. Decided(c)'
    <3>1. verb = "headApprove" => "submit" \in signed
      BY <2>3 DEF ReviewedAt, ReviewInv
    <3>2. verb = "officerUpload" => {"submit", "headApprove"} \subseteq signed
      BY <2>3 DEF ReviewedAt, ReviewInv, UploadedWasReviewed
    <3> QED
      BY <2>2, <2>3, <3>1, <3>2 DEF Decided, Is
  <2>5. \A d \in Calls \ {c} : Decided(d)'
    BY <2>2, <2>3 DEF ReviewInv, Decided, Is
  <2> QED
    BY <2>3, <2>4, <2>5 DEF ReviewInv, UploadedWasReviewed
<1>3. ASSUME NEW c \in Calls, WriteStage(c) PROVE ReviewInv'
  <2>1. call'[c] = NoCall /\ \A d \in Calls \ {c} : call'[d] = call[d]
    BY <1>3, DoneTyped DEF WriteStage
  <2>2. /\ call[c].verb \in Reviews /\ Decided(c) /\ UNCHANGED posted
        /\ stage' = NextStage(call[c].verb) /\ signed' = signed \cup {call[c].verb}
    BY <1>3 DEF WriteStage, Is, ReviewInv
  <2>3. \A d \in Calls : Decided(d)'
    BY <2>1, <2>2 DEF ReviewInv, Decided, Is
  <2>4. Is(c, Reviews)
    BY <1>3 DEF WriteStage
  <2>5. CASE call[c].verb = "submit"
    BY <2>2, <2>3, <2>5 DEF NextStage, ReviewInv, UploadedWasReviewed
  <2>6. CASE call[c].verb = "headApprove"
    BY <2>2, <2>3, <2>4, <2>6 DEF NextStage, ReviewInv, UploadedWasReviewed, Decided, Is
  <2>7. CASE call[c].verb = "officerUpload"
    BY <2>2, <2>3, <2>4, <2>7 DEF NextStage, ReviewInv, UploadedWasReviewed, Decided, Is
  <2>8. CASE call[c].verb \in {"headReturn", "officerReturn"}
    BY <2>2, <2>3, <2>8 DEF NextStage, ReviewInv, UploadedWasReviewed
  <2> QED
    BY <2>2, <2>5, <2>6, <2>7, <2>8 DEF Reviews
<1>4. ASSUME NEW c \in Calls, NEW new \in AnyCall, Begin(c, new), new.verb \in {"upload", "edit"}, UNCHANGED review
      PROVE  ReviewInv'
  <2>1. call'[c] = new /\ \A d \in Calls \ {c} : call'[d] = call[d]
    BY <1>4, BeginTyped
  <2>2. ~Is(c, Reviews)'
    BY <1>4, <2>1 DEF Is, Reviews
  <2> QED
    BY <1>1, <1>4, <2>1, <2>2
<1>5. ASSUME NEW c \in Calls, NEW t \in Templates, StartUpload(c, t) PROVE ReviewInv'
  <2>1. [verb |-> "upload", left |-> Companies, heads |-> Unread, rate |-> Unread] \in AnyCall
    BY DEF AnyCall, UploadCall
  <2> QED
    BY <1>4, <1>5, <2>1 DEF StartUpload
<1>6. ASSUME NEW c \in Calls, NEW k \in Cells, NEW month \in EditMonths \cup {0}, StartEdit(c, k, month)
      PROVE  ReviewInv'
  <2>1. [verb |-> "edit", on |-> k, month |-> month, cell |-> cell[k]] \in AnyCall
    BY DEF AnyCall, EditCall, TypeOK
  <2> QED
    BY <1>4, <1>6, <2>1 DEF StartEdit
<1>7. ASSUME NEW c \in Calls, ReadTable(c) PROVE ReviewInv'
  <2>1. ~Is(c, Reviews)' /\ \A d \in Calls \ {c} : call'[d] = call[d]
    BY <1>7, UploadReads DEF Is, Reviews
  <2> QED
    BY <1>1, <1>7, <2>1 DEF ReadTable, tables, review
<1>8. ASSUME NEW c \in Calls, NEW company \in Companies, WriteRoster(c, company) PROVE ReviewInv'
  <2>1. ~Is(c, Reviews)' /\ \A d \in Calls \ {c} : call'[d] = call[d]
    BY <1>8, RosterWritten DEF Is, Reviews
  <2> QED
    BY <1>1, <1>8, <2>1 DEF WriteRoster, review
<1>9. ASSUME NEW c \in Calls, WriteEdit(c) PROVE ReviewInv'
  <2>1. call'[c] = NoCall /\ \A d \in Calls \ {c} : call'[d] = call[d]
    BY <1>9, DoneTyped DEF WriteEdit
  <2> QED
    BY <1>1, <1>9, <2>1 DEF WriteEdit, review, Is
<1>10. CASE Crash
  <2>1. \A c \in Calls : ~Is(c, Reviews)'
    BY <1>10 DEF Crash, Is
  <2> QED
    BY <1>1, <1>10, <2>1 DEF Crash, review
<1>11. CASE UNCHANGED <<review, call>>
  BY <1>1, <1>11
<1> QED
  BY <1>2, <1>3, <1>5, <1>6, <1>7, <1>8, <1>9, <1>10, <1>11
  DEF Next, Start, Continue, RunStep, StartRun, Fetch, FetchFails, WriteCell, SetAsOf, vars, review

\* Nothing is with the Budget Officer, or uploaded, that the HR head has not
\* approved, however late a decision is written (requireSubmissionStage).
THEOREM UploadsWereReviewed == Spec => []UploadedWasReviewed
<1>1. Init => ReviewInv
  BY DEF Init, ReviewInv, UploadedWasReviewed, Decided, Is
<1>2. ReviewInv => UploadedWasReviewed
  BY DEF ReviewInv
<1> QED
  BY <1>1, <1>2, ReviewKept, ManpowerTypeCorrect, PTL DEF Spec

-----------------------------------------------------------------------------
(* The roster.  A lone upload has summed the companies it is through with   *)
(* from the tables as they are, and what it has read of them is what they   *)
(* are: only another upload changes them.                                   *)

Uploading(c) == Is(c, {"upload"})

Summed(company) == roster[company] = MonthlyPay(company, heads, rate)

UploadFits(c) ==
  /\ \A company \in Companies \ call[c].left : Summed(company)
  /\ call[c].heads \in {Unread, heads} /\ call[c].rate \in {Unread, rate}
  /\ \A d \in Calls \ {c} : ~Uploading(d)

RosterInv ==
  ~torn =>
    /\ RosterFollowsRanks
    /\ \A c \in Calls : Uploading(c) => UploadFits(c)

LEMMA RosterUndisturbed ==
  ASSUME RosterInv, UNCHANGED <<rate, heads, roster, torn>>,
         \A c \in Calls : Uploading(c) \/ Uploading(c)' => call'[c] = call[c]
  PROVE  RosterInv'
<1>1. \A c \in Calls : Uploading(c)' <=> Uploading(c)
  BY DEF Uploading, Is
<1>2. \A company \in Companies : Summed(company)' <=> Summed(company)
  BY DEF Summed
<1>3. ASSUME ~torn' PROVE RosterFollowsRanks'
  BY <1>1, <1>3 DEF RosterInv, RosterFollowsRanks, Uploading
<1>4. ASSUME ~torn', NEW c \in Calls, Uploading(c)' PROVE UploadFits(c)'
  <2>1. Uploading(c) /\ UploadFits(c) /\ call'[c] = call[c]
    BY <1>1, <1>4 DEF RosterInv
  <2> QED
    BY <1>1, <1>2, <2>1 DEF UploadFits
<1> QED
  BY <1>3, <1>4 DEF RosterInv

LEMMA UploadKeepsRoster ==
  ASSUME TypeOK, RosterInv, NEW c \in Calls, NEW t \in Templates, StartUpload(c, t)
  PROVE  RosterInv'
<1> DEFINE new == [verb |-> "upload", left |-> Companies, heads |-> Unread, rate |-> Unread]
<1>1. new \in AnyCall /\ Begin(c, new)
  BY DEF AnyCall, UploadCall, StartUpload
<1>2. call'[c] = new /\ \A d \in Calls \ {c} : call'[d] = call[d]
  BY <1>1, BeginTyped
<1>3. Uploading(c)'
  BY <1>1, <1>2, GridAssumption DEF Uploading, Is, AnyCall
<1>4. ~torn' => \A d \in Calls \ {c} : ~Uploading(d)'
  BY <1>1, <1>2 DEF Begin, Uploading, Is
<1>5. UploadFits(c)' \/ torn'
  BY <1>2, <1>4 DEF UploadFits
<1> QED
  BY <1>3, <1>4, <1>5 DEF RosterInv, RosterFollowsRanks, Uploading

LEMMA ReadKeepsRoster ==
  ASSUME TypeOK, RosterInv, NEW c \in Calls, ReadTable(c)
  PROVE  RosterInv'
<1>1. /\ Uploading(c) /\ call[c] \in UploadCall /\ call'[c] \in UploadCall
      /\ call'[c].verb = "upload" /\ call'[c].left = call[c].left
      /\ call'[c].heads \in {call[c].heads, heads} /\ call'[c].rate \in {call[c].rate, rate}
      /\ \A d \in Calls \ {c} : call'[d] = call[d]
  BY UploadReads DEF Uploading
<1>2. UNCHANGED <<rate, heads, roster, torn>>
  BY DEF ReadTable, tables, history
<1>3. Uploading(c)'
  BY <1>1, GridAssumption DEF Uploading, Is
<1>4. \A d \in Calls \ {c} : Uploading(d)' <=> Uploading(d)
  BY <1>1 DEF Uploading, Is
<1>5. \A company \in Companies : Summed(company)' <=> Summed(company)
  BY <1>2 DEF Summed
<1>6. ASSUME ~torn PROVE UploadFits(c)'
  <2>1. UploadFits(c)
    BY <1>1, <1>6 DEF RosterInv
  <2> QED
    BY <1>1, <1>2, <1>4, <1>5, <2>1 DEF UploadFits
<1>7. ~torn => \A d \in Calls \ {c} : ~Uploading(d)
  BY <1>1 DEF RosterInv, UploadFits
<1> QED
  BY <1>2, <1>3, <1>4, <1>6, <1>7 DEF RosterInv, RosterFollowsRanks, Uploading

LEMMA WriteKeepsRoster ==
  ASSUME TypeOK, RosterInv, NEW c \in Calls, NEW company \in Companies, WriteRoster(c, company)
  PROVE  RosterInv'
<1> DEFINE pay == MonthlyPay(company, call[c].heads, call[c].rate)
<1>1. /\ Uploading(c) /\ company \in call[c].left
      /\ roster' = [roster EXCEPT ![company] = pay]
      /\ \A d \in Calls \ {c} : call'[d] = call[d]
      /\ \/ call[c].left = {company} /\ call'[c] = NoCall
         \/ /\ call'[c] \in UploadCall /\ call'[c].verb = "upload"
            /\ call'[c].left = call[c].left \ {company}
            /\ call'[c].heads = Unread /\ call'[c].rate = Unread
  BY RosterWritten DEF Uploading
<1>2. UNCHANGED <<rate, heads, torn>> /\ call[c].heads # Unread /\ call[c].rate # Unread
  BY DEF WriteRoster, history
<1>3. SUFFICES ASSUME ~torn PROVE RosterInv'
  BY <1>2 DEF RosterInv
<1>4. UploadFits(c)
  BY <1>1, <1>3 DEF RosterInv
<1>5. call[c].heads = heads /\ call[c].rate = rate
  BY <1>2, <1>4 DEF UploadFits
<1>6. \A other \in Companies \ (call[c].left \ {company}) : Summed(other)'
  <2>1. Summed(company)'
    <3>1. roster'[company] = MonthlyPay(company, heads, rate)
      BY <1>1, <1>5 DEF TypeOK
    <3> QED
      BY <1>2, <3>1 DEF Summed
  <2>2. ASSUME NEW other \in Companies \ call[c].left PROVE Summed(other)'
    <3>1. other # company /\ Summed(other)
      BY <1>1, <1>4, <2>2 DEF UploadFits
    <3>2. roster'[other] = roster[other]
      BY <1>1, <3>1 DEF TypeOK
    <3> QED
      BY <1>2, <3>1, <3>2 DEF Summed
  <2> QED
    BY <2>1, <2>2
<1>7. \A d \in Calls \ {c} : ~Uploading(d)'
  BY <1>1, <1>4 DEF UploadFits, Uploading, Is
<1>8. CASE call[c].left = {company} /\ call'[c] = NoCall
  <2>1. \A d \in Calls : ~Uploading(d)'
    BY <1>7, <1>8 DEF Uploading, Is
  <2>2. \A other \in Companies : Summed(other)'
    BY <1>6, <1>8
  <2> QED
    BY <2>1, <2>2 DEF RosterInv, RosterFollowsRanks, Summed
<1>9. CASE /\ call'[c] \in UploadCall /\ call'[c].verb = "upload"
           /\ call'[c].left = call[c].left \ {company}
           /\ call'[c].heads = Unread /\ call'[c].rate = Unread
  <2>1. Uploading(c)'
    BY <1>9, GridAssumption DEF Uploading, Is
  <2>2. UploadFits(c)'
    BY <1>6, <1>7, <1>9 DEF UploadFits
  <2> QED
    BY <1>7, <2>1, <2>2 DEF RosterInv, RosterFollowsRanks, Uploading
<1> QED
  BY <1>1, <1>8, <1>9

LEMMA RosterKept == TypeOK /\ RosterInv /\ [Next]_vars => RosterInv'
<1> SUFFICES ASSUME TypeOK, RosterInv, [Next]_vars PROVE RosterInv'
  OBVIOUS
<1>1. ASSUME NEW c \in Calls, NEW new \in AnyCall, Begin(c, new), new.verb # "upload", UNCHANGED tables
      PROVE  RosterInv'
  <2>1. /\ call'[c] = new /\ (\A d \in Calls \ {c} : call'[d] = call[d])
        /\ call[c] = NoCall /\ torn' = torn
    BY <1>1, BeginTyped DEF Begin, TypeOK
  <2>2. ~Uploading(c) /\ ~Uploading(c)'
    BY <1>1, <2>1 DEF Uploading, Is
  <2> QED
    BY <1>1, <2>1, <2>2, RosterUndisturbed DEF tables
<1>2. ASSUME NEW c \in Calls, NEW k \in Cells, NEW month \in EditMonths \cup {0}, StartEdit(c, k, month)
      PROVE  RosterInv'
  <2>1. [verb |-> "edit", on |-> k, month |-> month, cell |-> cell[k]] \in AnyCall
    BY DEF AnyCall, EditCall, TypeOK
  <2> QED
    BY <1>1, <1>2, <2>1 DEF StartEdit
<1>3. ASSUME NEW c \in Calls, NEW verb \in Reviews, StartReview(c, verb) PROVE RosterInv'
  <2>1. [verb |-> verb] \in AnyCall /\ verb # "upload"
    BY DEF AnyCall, ReviewCall, Reviews
  <2> QED
    BY <1>1, <1>3, <2>1 DEF StartReview
<1>4. ASSUME NEW c \in Calls, Done(c), ~Uploading(c), UNCHANGED <<tables, torn>> PROVE RosterInv'
  <2>1. call'[c] = NoCall /\ \A d \in Calls \ {c} : call'[d] = call[d]
    BY <1>4, DoneTyped
  <2>2. ~Uploading(c)'
    BY <2>1 DEF Uploading, Is
  <2> QED
    BY <1>4, <2>1, <2>2, RosterUndisturbed DEF tables
<1>5. ASSUME NEW c \in Calls, WriteEdit(c) \/ WriteStage(c) PROVE RosterInv'
  BY <1>4, <1>5 DEF WriteEdit, WriteStage, Uploading, Is, Reviews, history
<1>6. CASE Crash
  <2>1. \A c \in Calls : ~Uploading(c)'
    BY <1>6 DEF Crash, Uploading, Is
  <2>2. UNCHANGED tables /\ (~torn' => ~torn /\ \A c \in Calls : ~Uploading(c))
    BY <1>6 DEF Crash, Uploading
  <2> QED
    BY <2>1, <2>2 DEF RosterInv, RosterFollowsRanks, Uploading, tables
<1>7. CASE UNCHANGED <<tables, torn, call>>
  BY <1>7, RosterUndisturbed DEF tables
<1> QED
  BY <1>2, <1>3, <1>5, <1>6, <1>7, UploadKeepsRoster, ReadKeepsRoster, WriteKeepsRoster
  DEF Next, Start, Continue, RunStep, StartRun, Fetch, FetchFails, WriteCell, SetAsOf, vars, history

\* Once an upload is through, every company's roster is the sum over the ranks
\* of the tables as they are, unless uploads overlapped or one died
\* (recomputeRosterFromRanks).
THEOREM RosterIsSum == Spec => []RosterFollowsRanks
<1>1. Init => RosterInv
  BY DEF Init, RosterInv, RosterFollowsRanks, Uploading, Is
<1>2. TypeOK /\ RosterInv => RosterFollowsRanks
  BY DEF RosterInv, RosterFollowsRanks
<1> QED
  BY <1>1, <1>2, RosterKept, ManpowerTypeCorrect, PTL DEF Spec

-----------------------------------------------------------------------------
(* The year.  A figure in the grid came from a roster, and a roster never   *)
(* goes away again; so a recompute that finds none has no figure to leave   *)
(* behind.  An edit that no recompute overlaps writes the figure it read.   *)

HasLump(k) == cell[k].lump # NoLump
Covered(company) ==
  HasLump(<<company, "Basic Pay">>) =>
    cell[<<company, "Basic Pay">>].ytd + cell[<<company, "Basic Pay">>].lump.months = 12

RunFits(m) ==
  /\ \A n \in Runs \ {m} : ~Running(n)
  /\ \A k \in Cells : HasLump(k) => run[m].roster[k[1]] # NoRoster
  /\ \A company \in Companies : run[m].roster[company] # NoRoster => roster[company] # NoRoster

EditFits(c) ==
  /\ \A m \in Runs : ~Running(m)
  /\ call[c].cell.lump = cell[call[c].on].lump

YearInv ==
  ~crossed =>
    /\ \A company \in Companies : Covered(company)
    /\ \A k \in Cells : HasLump(k) => roster[k[1]] # NoRoster
    /\ \A m \in Runs : Running(m) => RunFits(m)
    /\ \A c \in Calls : Is(c, {"edit"}) => EditFits(c)

LEMMA BasicPayIsACell ==
  ASSUME NEW company \in Companies
  PROVE  <<company, "Basic Pay">> \in Cells
BY GridAssumption DEF Cells, RosterDriven

\* Calls and recomputes may end, and rosters appear, without harm.
LEMMA YearUndisturbed ==
  ASSUME YearInv, UNCHANGED <<cell, crossed>>,
         \A company \in Companies : roster[company] # NoRoster => roster'[company] # NoRoster,
         \A m \in Runs : Running(m)' => Running(m) /\ run'[m].roster = run[m].roster,
         \A c \in Calls : Is(c, {"edit"})' => Is(c, {"edit"}) /\ call'[c] = call[c]
  PROVE  YearInv'
<1> SUFFICES ASSUME ~crossed PROVE YearInv'
  BY DEF YearInv
<1>1. \A k \in Cells : (HasLump(k)' <=> HasLump(k)) /\ k[1] \in Companies
  BY DEF HasLump, Cells
<1>2. \A company \in Companies : Covered(company)'
  BY DEF YearInv, Covered, HasLump
<1>3. \A k \in Cells : HasLump(k)' => roster'[k[1]] # NoRoster
  BY <1>1 DEF YearInv
<1>4. ASSUME NEW m \in Runs, Running(m)' PROVE RunFits(m)'
  <2>1. RunFits(m)
    BY <1>4 DEF YearInv
  <2> QED
    BY <1>1, <1>4, <2>1 DEF RunFits
<1>5. ASSUME NEW c \in Calls, Is(c, {"edit"})' PROVE EditFits(c)'
  <2>1. EditFits(c)
    BY <1>5 DEF YearInv
  <2> QED
    BY <1>5, <2>1 DEF EditFits
<1> QED
  BY <1>2, <1>3, <1>4, <1>5 DEF YearInv

LEMMA StartRunKeepsYear ==
  ASSUME TypeOK, YearInv, NEW m \in Runs, StartRun(m)
  PROVE  YearInv'
<1>1. /\ UNCHANGED <<cell, roster, call>> /\ run'[m].roster = roster
      /\ \A n \in Runs \ {m} : run'[n] = run[n]
      /\ ~crossed' => ~crossed /\ (\A c \in Calls : ~Is(c, {"edit"})) /\ \A n \in Runs : ~Running(n)
  BY DEF StartRun, tables, TypeOK
<1> SUFFICES ASSUME ~crossed' PROVE YearInv'
  BY DEF YearInv
<1>2. \A n \in Runs : Running(n)' => n = m
  BY <1>1 DEF Running
<1>3. /\ \A company \in Companies : Covered(company)'
      /\ \A k \in Cells : HasLump(k)' => roster'[k[1]] # NoRoster
  BY <1>1 DEF YearInv, Covered, HasLump
<1>4. RunFits(m)'
  BY <1>1, <1>2, <1>3 DEF RunFits
<1>5. \A c \in Calls : ~Is(c, {"edit"})'
  BY <1>1 DEF Is
<1> QED
  BY <1>2, <1>3, <1>4, <1>5 DEF YearInv

LEMMA WriteCellKeepsYear ==
  ASSUME TypeOK, YearInv, NEW m \in Runs, NEW k \in Cells, WriteCell(m, k)
  PROVE  YearInv'
<1> DEFINE new == Recomputed(k, m)
           pay == run[m].roster[k[1]]
<1>1. /\ run[m] \in Recompute /\ new \in Cell /\ cell' = [cell EXCEPT ![k] = new]
      /\ \A n \in Runs \ {m} : run'[n] = run[n]
      /\ run'[m] = NoCall \/ (run'[m] \in Recompute /\ run'[m].roster = run[m].roster)
  BY CellRecomputed
<1>2. UNCHANGED <<roster, call, crossed>> /\ Running(m)
  BY DEF WriteCell, tables, history
<1> SUFFICES ASSUME ~crossed PROVE YearInv'
  BY <1>2 DEF YearInv
<1>3. RunFits(m)
  BY <1>2 DEF YearInv
<1>4. cell'[k] = new /\ \A x \in Cells \ {k} : cell'[x] = cell[x]
  BY <1>1 DEF TypeOK
<1>5. new.lump # NoLump => pay # NoRoster
  <2>1. CASE pay = NoRoster \/ k[2] \notin RosterDriven
    <3>1. new = [cell[k] EXCEPT !.ytd = run[m].asOf] /\ cell[k] \in Cell
      BY <2>1 DEF Recomputed, TypeOK
    <3>2. new.lump = cell[k].lump
      BY <3>1 DEF Cell
    <3> QED
      BY <1>3, <3>2 DEF RunFits, HasLump
  <2>2. CASE ~(pay = NoRoster \/ k[2] \notin RosterDriven)
    BY <2>2
  <2> QED
    BY <2>1, <2>2
<1>6. ASSUME NEW company \in Companies, k = <<company, "Basic Pay">>, new.lump # NoLump
      PROVE  new.ytd + new.lump.months = 12
  <2>1. pay # NoRoster /\ k[2] = "Basic Pay" /\ k[2] \in RosterDriven
    BY <1>5, <1>6 DEF RosterDriven
  <2>2. new = [ytd |-> run[m].asOf, lump |-> Remaining(k, pay, run[m].asOf), months |-> {}]
    BY <2>1 DEF Recomputed
  <2>3. new.ytd = run[m].asOf /\ new.lump.months = 12 - run[m].asOf
    <3>1. Remaining(k, pay, run[m].asOf) = [pay |-> pay, months |-> 12 - run[m].asOf]
      BY <2>1 DEF Remaining
    <3> HIDE DEF new
    <3> QED
      BY <2>2, <3>1
  <2>4. run[m].asOf \in 0 .. 12
    BY <1>1, ManpowerAssumption DEF Recompute
  <2> QED
    BY <2>3, <2>4
<1> HIDE DEF new
<1>7. \A company \in Companies : Covered(company)'
  <2> SUFFICES ASSUME NEW company \in Companies PROVE Covered(company)'
    OBVIOUS
  <2>1. Covered(company) /\ <<company, "Basic Pay">> \in Cells
    BY BasicPayIsACell DEF YearInv
  <2>2. CASE k = <<company, "Basic Pay">>
    BY <1>4, <1>6, <2>2 DEF Covered, HasLump
  <2>3. CASE k # <<company, "Basic Pay">>
    BY <1>4, <2>1, <2>3 DEF Covered, HasLump
  <2> QED
    BY <2>2, <2>3
<1>8. \A x \in Cells : HasLump(x)' => HasLump(x) \/ (x = k /\ pay # NoRoster)
  BY <1>4, <1>5 DEF HasLump
<1>9. \A x \in Cells : HasLump(x)' => run[m].roster[x[1]] # NoRoster /\ x[1] \in Companies
  BY <1>3, <1>8 DEF RunFits, Cells
<1>10. \A x \in Cells : HasLump(x)' => roster'[x[1]] # NoRoster
  BY <1>2, <1>3, <1>9 DEF RunFits
<1>11. \A n \in Runs : Running(n)' => n = m
  BY <1>1, <1>3 DEF RunFits, Running
<1>12. Running(m)' => RunFits(m)'
  <2> SUFFICES ASSUME Running(m)' PROVE RunFits(m)'
    OBVIOUS
  <2>1. run'[m].roster = run[m].roster
    BY <1>1 DEF Running
  <2> QED
    BY <1>2, <1>3, <1>9, <1>11, <2>1 DEF RunFits
<1>13. \A c \in Calls : ~Is(c, {"edit"})'
  <2>1. \A c \in Calls : ~Is(c, {"edit"})
    BY <1>2 DEF YearInv, EditFits
  <2> QED
    BY <1>2, <2>1 DEF Is
<1> QED
  BY <1>7, <1>10, <1>11, <1>12, <1>13 DEF YearInv

LEMMA StartEditKeepsYear ==
  ASSUME TypeOK, YearInv, NEW c \in Calls, NEW k \in Cells, NEW month \in EditMonths \cup {0},
         StartEdit(c, k, month)
  PROVE  YearInv'
<1> DEFINE new == [verb |-> "edit", on |-> k, month |-> month, cell |-> cell[k]]
<1>1. new \in AnyCall /\ Begin(c, new)
  BY DEF AnyCall, EditCall, TypeOK, StartEdit
<1>2. call'[c] = new /\ \A d \in Calls \ {c} : call'[d] = call[d]
  BY <1>1, BeginTyped
<1>3. /\ UNCHANGED <<cell, roster, run>>
      /\ ~crossed' => ~crossed /\ \A m \in Runs : ~Running(m)
  BY <1>1 DEF Begin, StartEdit, tables
<1> SUFFICES ASSUME ~crossed' PROVE YearInv'
  BY DEF YearInv
<1>4. /\ \A company \in Companies : Covered(company)'
      /\ \A x \in Cells : HasLump(x)' => roster'[x[1]] # NoRoster
      /\ \A m \in Runs : ~Running(m)'
  BY <1>3 DEF YearInv, Covered, HasLump, Running
<1>5. call'[c].cell.lump = cell'[call'[c].on].lump
  BY <1>2, <1>3
<1>6. ASSUME NEW d \in Calls, Is(d, {"edit"})' PROVE EditFits(d)'
  <2>1. CASE d = c
    BY <1>4, <1>5, <2>1 DEF EditFits
  <2>2. CASE d # c
    <3>1. Is(d, {"edit"}) /\ EditFits(d)
      BY <1>2, <1>3, <1>6, <2>2 DEF Is, YearInv
    <3> QED
      BY <1>2, <1>3, <1>4, <2>2, <3>1 DEF EditFits
  <2> QED
    BY <2>1, <2>2
<1> QED
  BY <1>4, <1>6 DEF YearInv

LEMMA WriteEditKeepsYear ==
  ASSUME TypeOK, YearInv, NEW c \in Calls, WriteEdit(c)
  PROVE  YearInv'
<1>1. call'[c] = NoCall /\ \A d \in Calls \ {c} : call'[d] = call[d]
  BY DoneTyped DEF WriteEdit
<1>2. UNCHANGED <<roster, run, crossed>> /\ Is(c, {"edit"})
  BY DEF WriteEdit, tables, history
<1> SUFFICES ASSUME ~crossed PROVE YearInv'
  BY <1>2 DEF YearInv
<1>3. EditFits(c) /\ call[c] \in EditCall
  BY <1>2, CallByVerb DEF YearInv, Is
<1>4. call[c].on \in Cells /\ cell[call[c].on] \in Cell
  BY <1>3 DEF EditCall, TypeOK
<1>5. \A x \in Cells : cell'[x].lump = cell[x].lump /\ cell'[x].ytd = cell[x].ytd
  BY <1>3, <1>4 DEF WriteEdit, EditFits, TypeOK
<1>6. \A x \in Cells : HasLump(x)' <=> HasLump(x)
  BY <1>5 DEF HasLump
<1>7. \A company \in Companies : Covered(company)'
  BY <1>5, <1>6, BasicPayIsACell DEF YearInv, Covered
<1>8. \A m \in Runs : ~Running(m)'
  BY <1>2, <1>3 DEF EditFits, Running
<1>9. ASSUME NEW d \in Calls, Is(d, {"edit"})' PROVE EditFits(d)'
  <2>1. d # c /\ Is(d, {"edit"}) /\ call'[d] = call[d]
    BY <1>1, <1>9 DEF Is
  <2>2. EditFits(d) /\ call[d] \in EditCall
    BY <2>1, CallByVerb DEF YearInv, Is
  <2>3. call[d].on \in Cells
    BY <2>2 DEF EditCall
  <2> QED
    BY <1>5, <1>8, <2>1, <2>2, <2>3 DEF EditFits
<1> QED
  BY <1>2, <1>6, <1>7, <1>8, <1>9 DEF YearInv

LEMMA YearKept == TypeOK /\ YearInv /\ [Next]_vars => YearInv'
<1> SUFFICES ASSUME TypeOK, YearInv, [Next]_vars PROVE YearInv'
  OBVIOUS
<1> USE DEF tables, review, history
<1>1. ASSUME NEW c \in Calls, NEW new \in AnyCall, Begin(c, new), new.verb # "edit",
             UNCHANGED <<cell, roster, run>>
      PROVE  YearInv'
  <2>1. /\ call'[c] = new /\ (\A d \in Calls \ {c} : call'[d] = call[d])
        /\ crossed' = crossed
    BY <1>1, BeginTyped DEF Begin, TypeOK
  <2>2. ~Is(c, {"edit"})'
    BY <1>1, <2>1 DEF Is
  <2> QED
    BY <1>1, <2>1, <2>2, YearUndisturbed DEF Running, Is
<1>2. ASSUME NEW c \in Calls, NEW t \in Templates, StartUpload(c, t) PROVE YearInv'
  <2>1. [verb |-> "upload", left |-> Companies, heads |-> Unread, rate |-> Unread] \in AnyCall
    BY DEF AnyCall, UploadCall
  <2> QED
    BY <1>1, <1>2, <2>1 DEF StartUpload
<1>3. ASSUME NEW c \in Calls, NEW verb \in Reviews, StartReview(c, verb) PROVE YearInv'
  <2>1. [verb |-> verb] \in AnyCall /\ verb # "edit"
    BY DEF AnyCall, ReviewCall, Reviews
  <2> QED
    BY <1>1, <1>3, <2>1 DEF StartReview
<1>4. ASSUME NEW c \in Calls, ReadTable(c) PROVE YearInv'
  <2>1. ~Is(c, {"edit"})' /\ \A d \in Calls \ {c} : call'[d] = call[d]
    BY <1>4, UploadReads DEF Is
  <2> QED
    BY <1>4, <2>1, YearUndisturbed DEF ReadTable, Running, Is
<1>5. ASSUME NEW c \in Calls, NEW company \in Companies, WriteRoster(c, company) PROVE YearInv'
  <2>1. /\ ~Is(c, {"edit"})' /\ \A d \in Calls \ {c} : call'[d] = call[d]
        /\ roster' = [roster EXCEPT ![company] = MonthlyPay(company, call[c].heads, call[c].rate)]
        /\ MonthlyPay(company, call[c].heads, call[c].rate) \in Nat
    BY <1>5, RosterWritten DEF Is
  <2>2. \A other \in Companies : roster[other] # NoRoster => roster'[other] # NoRoster
    BY <2>1, ManpowerAssumption DEF TypeOK
  <2> QED
    BY <1>5, <2>1, <2>2, YearUndisturbed DEF WriteRoster, Running, Is
<1>6. ASSUME NEW c \in Calls, WriteStage(c) PROVE YearInv'
  <2>1. call'[c] = NoCall /\ \A d \in Calls \ {c} : call'[d] = call[d]
    BY <1>6, DoneTyped DEF WriteStage
  <2>2. ~Is(c, {"edit"})'
    BY <2>1 DEF Is
  <2> QED
    BY <1>6, <2>1, <2>2, YearUndisturbed DEF WriteStage, Running, Is
<1>7. ASSUME NEW m \in Runs, Fetch(m) PROVE YearInv'
  <2>1. run[m] \in Recompute /\ run'[m] = [run[m] EXCEPT !.fetched = TRUE]
        /\ \A n \in Runs \ {m} : run'[n] = run[n]
    BY <1>7 DEF Fetch, Running, TypeOK
  <2>2. run'[m].roster = run[m].roster
    BY <2>1 DEF Recompute
  <2>3. \A n \in Runs : Running(n)' => Running(n) /\ run'[n].roster = run[n].roster
    BY <1>7, <2>1, <2>2 DEF Fetch, Running
  <2> QED
    BY <1>7, <2>3, YearUndisturbed DEF Fetch, Is
<1>8. ASSUME NEW m \in Runs, FetchFails(m) PROVE YearInv'
  <2>1. \A n \in Runs : Running(n)' => Running(n) /\ run'[n].roster = run[n].roster
    BY <1>8 DEF FetchFails, Running, TypeOK
  <2> QED
    BY <1>8, <2>1, YearUndisturbed DEF FetchFails, Is
<1>9. CASE Crash
  <2>1. /\ \A m \in Runs : ~Running(m)'
        /\ \A c \in Calls : ~Is(c, {"edit"})'
    BY <1>9 DEF Crash, Running, Is
  <2> QED
    BY <1>9, <2>1, YearUndisturbed DEF Crash
<1>10. ASSUME UNCHANGED <<cell, crossed, roster, run, call>> PROVE YearInv'
  BY <1>10, YearUndisturbed DEF Running, Is
<1> QED
  BY <1>2, <1>3, <1>4, <1>5, <1>6, <1>7, <1>8, <1>9, <1>10,
     StartRunKeepsYear, WriteCellKeepsYear, StartEditKeepsYear, WriteEditKeepsYear
  DEF Next, Start, Continue, RunStep, SetAsOf, vars

\* The actuals and the remaining months of basic pay make the twelve months of
\* the year, also half way through a recompute, with the cut-off month moving
\* (runManpowerBudget), unless an edit or another recompute ran beside it.
THEOREM YearAddsUp == Spec => []YearIsCovered
<1>1. Init => YearInv
  <2> SUFFICES ASSUME Init PROVE YearInv
    OBVIOUS
  <2>1. \A k \in Cells : ~HasLump(k)
    BY DEF Init, HasLump
  <2>2. (\A m \in Runs : ~Running(m)) /\ \A c \in Calls : ~Is(c, {"edit"})
    BY DEF Init, Running, Is
  <2> QED
    BY <2>1, <2>2, BasicPayIsACell DEF YearInv, Covered
<1>2. YearInv => YearIsCovered
  BY DEF YearInv, YearIsCovered, Covered, HasLump
<1> QED
  BY <1>1, <1>2, YearKept, ManpowerTypeCorrect, PTL DEF Spec

=============================================================================
