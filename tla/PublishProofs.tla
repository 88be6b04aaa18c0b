---------------------------- MODULE PublishProofs ----------------------------
(***************************************************************************)
(* A results directory whose checks have changed, and what is packed from  *)
(* it meanwhile, for any cells, runs, checks and kills.  None of the       *)
(* properties is inductive.                                                *)
(*                                                                         *)
(* - PublishedFollows and RefusedAreNamed: what a script has done already  *)
(*   is made good by what it has still to do (FollowInv, NamedInv), which  *)
(*   rests on the order its operations come in (DueOrder).                 *)
(* - RenumberedInOrder and EvidenceKept: halfway through, each run that    *)
(*   passes is where it was or where it comes to be, and nothing else is   *)
(*   there, so that a run is renamed to a name that is free (RecheckInv).  *)
(*   The numbers are ranks among the runs that are left, and the lemmas    *)
(*   about Rank say that they are 1 to n and never above the old ones.     *)
(* - UnfinishedIsRefused, PackedIsComplete, ChartsHaveEvidence: runs only  *)
(*   move to lower numbers, so one that was moved behind a `pack` leaves a *)
(*   name ahead of it that is missing when it is read (PackInv).           *)
(***************************************************************************)
EXTENDS Publish, FiniteSetTheorems, TLAPS

-----------------------------------------------------------------------------
(***************************************************************************)
(* Types.                                                                  *)
(***************************************************************************)
FailureNames == [cell : Cells, slot : At, full : BOOLEAN]

\* What an operation of a script can be.  Runs are renumbered downwards.
ScriptOK ==
  \A op \in script :
    /\ op.do \in {"move", "renumber", "unchoose", "reduce", "record"}
    /\ op.do # "record" => op.cell \in Cells
    /\ op.do = "move" => op.from \in At /\ op.to = op.from
    /\ op.do = "renumber" => op.from \in At /\ op.to \in At /\ op.to < op.from
    /\ op.do = "record" => op.names \subseteq FailureNames

Types == TypeOK /\ ScriptOK

\* A command that changes no file of Recheck's is killed.
Killed ==
  /\ kills < MaxKills /\ kills' = kills + 1
  /\ UNCHANGED <<runs, logs, aside, chosen, named, bad, taken, script, judged, applies>>

LEMMA Cases == [PNext]_pvars => Next \/ Killed \/ UNCHANGED vars
  BY DEF PNext, Others, Combine, CombineDies, ListsRuns, ListsRefused, Reads, Finishes,
         Fails, PackDies, Killed, vars, publishing, pvars

LEMMA CellPlace == \A c \in Cells : Place(c) \in 1..Len(CellOrder) /\ CellOrder[Place(c)] = c
<1> SUFFICES ASSUME NEW c \in Cells
             PROVE  Place(c) \in 1..Len(CellOrder) /\ CellOrder[Place(c)] = c
  OBVIOUS
<1>1. DOMAIN CellOrder = 1..Len(CellOrder)
  BY DirectoryAssumption DEF DirectoryAssumption
<1>2. \E i \in DOMAIN CellOrder : CellOrder[i] = c
  BY DEF Cells, Range
<1> QED
  BY <1>1, <1>2 DEF Place

LEMMA FirstIds == \A c \in Cells, s \in At : (Place(c) - 1) * Slots + s \in 1..MaxRuns
<1> SUFFICES ASSUME NEW c \in Cells, NEW s \in At
             PROVE  (Place(c) - 1) * Slots + s \in 1..MaxRuns
  OBVIOUS
<1>1. PICK i \in 1..Len(CellOrder) : i = Place(c)
  BY CellPlace
<1>2. /\ Slots \in Nat /\ Len(CellOrder) \in Nat /\ MaxRuns \in Nat
      /\ Len(CellOrder) * Slots <= MaxRuns
  BY DirectoryAssumption DEF DirectoryAssumption
<1>3. \A k \in Nat : k * Slots \in Nat
  BY <1>2
<1>4. (i - 1) * Slots \in Nat /\ (Len(CellOrder) - i) * Slots \in Nat
  BY <1>2, <1>3
<1>5. (i - 1) * Slots + Slots + (Len(CellOrder) - i) * Slots = Len(CellOrder) * Slots
  BY <1>2
<1>6. PICK before, after, all \in Nat :
        /\ before = (i - 1) * Slots /\ after = (Len(CellOrder) - i) * Slots
        /\ all = Len(CellOrder) * Slots
  BY <1>2, <1>3, <1>4
<1>7. before + s \in 1..MaxRuns
  BY <1>2, <1>5, <1>6 DEF At
<1> QED
  BY <1>1, <1>6, <1>7

\* results::cells counts up to the first run that is missing.
LEMMA CountIs ==
  ASSUME NEW c \in Cells, NEW n \in 0..Slots,
         \A s \in 1..n : runs[c][s] # 0,
         n < Slots => runs[c][n + 1] = 0
  PROVE  Count(c) = n
<1>1. \A m \in 0..Slots :
        (/\ \A s \in 1..m : runs[c][s] # 0
         /\ m < Slots => runs[c][m + 1] = 0) => m = n
  <2> SUFFICES ASSUME NEW m \in 0..Slots,
                      \A s \in 1..m : runs[c][s] # 0,
                      m < Slots => runs[c][m + 1] = 0
               PROVE  m = n
    OBVIOUS
  <2>1. Slots \in Nat
    BY DirectoryAssumption DEF DirectoryAssumption
  <2>2. CASE m < n
    <3>1. m + 1 \in 1..n /\ m < Slots
      BY <2>1, <2>2
    <3> QED
      BY <3>1
  <2>3. CASE n < m
    <3>1. n + 1 \in 1..m /\ n < Slots
      BY <2>1, <2>3
    <3> QED
      BY <3>1
  <2> QED
    BY <2>1, <2>2, <2>3
<1> QED
  BY <1>1 DEF Count

LEMMA Least ==
  ASSUME NEW S, S \subseteq Nat, S # {}
  PROVE  \E m \in S : \A n \in S : m <= n
<1>1. PICK m \in S : \A n \in S : <<n, m>> \notin OpToRel(<, Nat)
  BY WFMin, NatLessThanWellFounded
<1>2. \A n \in S : ~(n < m)
  BY <1>1 DEF OpToRel
<1> QED
  BY <1>2

LEMMA Counts ==
  ASSUME NEW c \in Cells
  PROVE  /\ Count(c) \in 0..Slots
         /\ \A s \in 1..Count(c) : runs[c][s] # 0
         /\ Count(c) < Slots => runs[c][Count(c) + 1] = 0
<1> DEFINE holes == {s \in 1..Slots : runs[c][s] = 0}
           P(n) == /\ \A s \in 1..n : runs[c][s] # 0
                   /\ n < Slots => runs[c][n + 1] = 0
<1>0. Slots \in Nat
  BY DirectoryAssumption DEF DirectoryAssumption
<1>1. CASE holes = {}
  <2>1. P(Slots)
    BY <1>0, <1>1
  <2> HIDE DEF P
  <2>2. \E n \in 0..Slots : P(n)
    BY <1>0, <2>1
  <2> QED
    BY <2>2 DEF Count, P
<1>2. CASE holes # {}
  <2>0. holes \subseteq Nat
    OBVIOUS
  <2>1. PICK m \in holes : \A n \in holes : m <= n
    BY <1>2, <2>0, Least
  <2>2. P(m - 1)
    BY <1>0, <2>1
  <2> HIDE DEF P
  <2>3. \E n \in 0..Slots : P(n)
    BY <1>0, <2>1, <2>2
  <2> QED
    BY <2>3 DEF Count, P
<1> QED
  BY <1>1, <1>2

-----------------------------------------------------------------------------
(***************************************************************************)
(* The numbers that the runs that are left come to have.                   *)
(***************************************************************************)
LEMMA Finite ==
  ASSUME NEW n \in Nat, NEW S, S \subseteq 1..n
  PROVE  IsFiniteSet(S) /\ Cardinality(S) \in Nat /\ S \subseteq Nat
<1>1. IsFiniteSet(1..n)
  BY FS_Interval
<1>2. S \in SUBSET (1..n)
  OBVIOUS
<1>3. IsFiniteSet(S)
  BY <1>1, <1>2, FS_Subset
<1>4. S \subseteq Nat
  OBVIOUS
<1> QED
  BY <1>3, <1>4, FS_CardinalityType

\* The cardinality of what a finite set includes.
LEMMA Part ==
  ASSUME NEW S, IsFiniteSet(S), NEW T, T \subseteq S
  PROVE  /\ IsFiniteSet(T) /\ Cardinality(T) \in Nat /\ Cardinality(S) \in Nat
         /\ Cardinality(T) <= Cardinality(S)
         /\ Cardinality(T) = Cardinality(S) => T = S
<1>1. T \in SUBSET S
  OBVIOUS
<1> QED
  BY <1>1, FS_Subset, FS_CardinalityType

LEMMA RankType ==
  ASSUME NEW n \in Nat, NEW S, S \subseteq 1..n, NEW s \in S
  PROVE  Rank(S, s) \in 1..s /\ Rank(S, s) <= Cardinality(S)
<1> DEFINE upto == {t \in S : t <= s}
<1>1. IsFiniteSet(S) /\ Cardinality(S) \in Nat /\ s \in 1..n /\ S \subseteq Nat
  BY Finite
<1>2. /\ IsFiniteSet(1..s) /\ Cardinality(1..s) = s
  BY <1>1, FS_Interval
<1>3. /\ upto \subseteq S
      /\ upto \subseteq 1..s
      /\ s \in upto
  <2>1. upto \subseteq 1..s
    <3> SUFFICES ASSUME NEW t \in S, t <= s PROVE t \in 1..s
      OBVIOUS
    <3>1. t \in 1..n
      OBVIOUS
    <3> QED
      BY <1>1, <3>1
  <2> QED
    BY <1>1, <2>1
<1> HIDE DEF upto
<1>4. Cardinality(upto) <= Cardinality(S) /\ IsFiniteSet(upto)
  BY <1>1, <1>3, Part
<1>5. Cardinality(upto) <= s /\ Cardinality(upto) \in Nat
  BY <1>2, <1>3, Part
<1>6. Cardinality(upto) # 0
  BY <1>3, <1>4, FS_EmptySet
<1> QED
  BY <1>1, <1>4, <1>5, <1>6 DEF Rank, upto

LEMMA RankGrows ==
  ASSUME NEW n \in Nat, NEW S, S \subseteq 1..n, NEW s \in S, NEW t \in S, s < t
  PROVE  Rank(S, s) < Rank(S, t)
<1> DEFINE below == {u \in S : u <= s}
           upto == {u \in S : u <= t}
<1>1. IsFiniteSet(S) /\ S \subseteq Nat
  BY Finite
<1>0. s \in Nat /\ t \in Nat
  BY <1>1
<1>2. below \subseteq upto /\ upto \subseteq S /\ t \in upto /\ t \notin below
  <2>1. ASSUME NEW u \in S, u <= s PROVE u <= t
    BY <1>0, <1>1, <2>1
  <2>2. t <= t /\ ~(t <= s)
    BY <1>0
  <2> QED
    BY <2>1, <2>2
<1> HIDE DEF below, upto
<1>3. IsFiniteSet(upto)
  BY <1>1, <1>2, Part
<1>4. /\ Cardinality(below) <= Cardinality(upto) /\ Cardinality(below) # Cardinality(upto)
      /\ Cardinality(below) \in Nat /\ Cardinality(upto) \in Nat
  BY <1>2, <1>3, Part
<1>5. Cardinality(below) < Cardinality(upto)
  BY <1>4
<1> QED
  BY <1>5 DEF Rank, below, upto

\* Above a run that moves down every run moves down.
LEMMA RankGap ==
  ASSUME NEW n \in Nat, NEW S, S \subseteq 1..n, NEW s \in S, NEW t \in S, s < t,
         Rank(S, s) < s
  PROVE  Rank(S, t) < t
<1> DEFINE below == {u \in S : u <= s}
           upto == {u \in S : u <= t}
           between == (s + 1)..t
<1>1. IsFiniteSet(S) /\ S \subseteq Nat
  BY Finite
<1>0. s \in Nat /\ t \in Nat
  BY <1>1
<1>2. below \subseteq S /\ upto \subseteq below \cup between /\ below \cap between = {}
  <2>1. ASSUME NEW u \in S, u <= t PROVE u \in below \cup between
    <3>1. u \in Nat
      BY <1>1
    <3> QED
      BY <1>0, <2>1, <3>1
  <2>2. ASSUME NEW u \in S, u <= s PROVE u \notin between
    BY <1>0, <1>1, <2>2
  <2> QED
    BY <2>1, <2>2
<1> HIDE DEF below, upto
<1>3. IsFiniteSet(below) /\ Cardinality(below) \in Nat
  BY <1>1, <1>2, Part
<1>4. IsFiniteSet(between) /\ Cardinality(between) = t - s
  BY <1>1, FS_Interval
<1> HIDE DEF between
<1>5. /\ IsFiniteSet(below \cup between)
      /\ Cardinality(below \cup between)
           = Cardinality(below) + Cardinality(between) - Cardinality(below \cap between)
  BY <1>3, <1>4, FS_Union
<1>6. Cardinality(below \cap between) = 0
  BY <1>2, FS_EmptySet
<1>7. Cardinality(below \cup between) = Cardinality(below) + (t - s)
  BY <1>1, <1>3, <1>4, <1>5, <1>6
<1>8. Cardinality(upto) <= Cardinality(below \cup between) /\ Cardinality(upto) \in Nat
  BY <1>2, <1>5, Part
<1>9. Cardinality(below) < s
  BY DEF Rank, below
<1>10. Cardinality(upto) < t
  BY <1>1, <1>3, <1>7, <1>8, <1>9
<1> QED
  BY <1>10 DEF Rank, upto

\* Without a gap every run keeps its number.
LEMMA RankWhole ==
  ASSUME NEW n \in Nat, NEW s \in 1..n
  PROVE  Rank(1..n, s) = s
<1>1. {t \in 1..n : t <= s} = 1..s
  OBVIOUS
<1>2. Cardinality(1..s) = s
  BY FS_Interval
<1> QED
  BY <1>1, <1>2 DEF Rank

\* No two runs come to one number.
LEMMA RankOnce ==
  ASSUME NEW n \in Nat, NEW S, S \subseteq 1..n, NEW s \in S, NEW t \in S,
         Rank(S, s) = Rank(S, t)
  PROVE  s = t
<1> SUFFICES ASSUME s # t PROVE FALSE
  OBVIOUS
<1>1. s \in Nat /\ t \in Nat
  BY Finite
<1>2. Rank(S, s) \in Nat /\ Rank(S, t) \in Nat
  <2>1. Rank(S, s) \in 1..s /\ Rank(S, t) \in 1..t
    BY RankType
  <2> QED
    BY <1>1, <2>1
<1>3. CASE s < t
  <2>1. Rank(S, s) < Rank(S, t)
    BY <1>3, RankGrows
  <2> QED
    BY <1>2, <2>1
<1>4. CASE t < s
  <2>1. Rank(S, t) < Rank(S, s)
    BY <1>4, RankGrows
  <2> QED
    BY <1>2, <2>1
<1> QED
  BY <1>1, <1>3, <1>4

\* No number is left out.
LEMMA RankOnto ==
  ASSUME NEW n \in Nat, NEW S, S \subseteq 1..n, NEW j \in 1..Cardinality(S)
  PROVE  \E s \in S : Rank(S, s) = j
<1> DEFINE f == [s \in S |-> Rank(S, s)]
           k == Cardinality(S)
<1>1. IsFiniteSet(S) /\ k \in Nat /\ S \subseteq Nat
  BY Finite
<1>2. ASSUME NEW s \in S PROVE Rank(S, s) \in 1..k
  <2>1. Rank(S, s) \in 1..s /\ Rank(S, s) <= k
    BY RankType
  <2> QED
    BY <1>1, <2>1
<1>3. \A s, t \in S : Rank(S, s) = Rank(S, t) => s = t
  BY RankOnce
<1>4. f \in Injection(S, 1..k)
  BY <1>2, <1>3 DEF Injection, IsInjective
<1>5. IsFiniteSet(1..k) /\ Cardinality(1..k) = k
  BY <1>1, FS_Interval
<1>6. f \in Surjection(S, 1..k)
  BY <1>4, <1>5, FS_Injection
<1> QED
  BY <1>6 DEF Surjection

-----------------------------------------------------------------------------
(***************************************************************************)
(* What is in a script.                                                    *)
(***************************************************************************)
TheRecord == Record(named \cup UNION {Names(c) : c \in Cells})

LEMMA ApplyScript ==
  ASSUME Apply, NEW op
  PROVE  op \in script' <=>
           \/ \E c \in Cells : \E s \in Refused(c) : op = Op("move", c, s, s)
           \/ \E c \in Cells : \E s \in Kept(c) :
                Rank(Kept(c), s) # s /\ op = Op("renumber", c, s, Rank(Kept(c), s))
           \/ \E c \in Cells : Refused(c) # {} /\ op = Op("unchoose", c, 0, 0)
           \/ op = TheRecord
<1>1. op \in script' <=> \/ \E c \in Cells : op \in Moves(c)
                         \/ \E c \in Cells : op \in Renumber(c)
                         \/ \E c \in Cells : op \in Unchoose(c)
                         \/ op = TheRecord
  <2>1. script' = {TheRecord}
                    \cup UNION {Moves(c) \cup Renumber(c) \cup Unchoose(c) : c \in Cells}
    BY DEF Apply, TheRecord
  <2>2. op \in UNION {Moves(c) \cup Renumber(c) \cup Unchoose(c) : c \in Cells}
          <=> \E c \in Cells : op \in Moves(c) \/ op \in Renumber(c) \/ op \in Unchoose(c)
    OBVIOUS
  <2>3. op \in script' <=>
          \/ op \in UNION {Moves(c) \cup Renumber(c) \cup Unchoose(c) : c \in Cells}
          \/ op = TheRecord
    BY <2>1
  <2> QED
    BY <2>2, <2>3, Zenon
<1>2. \A c \in Cells : op \in Moves(c) <=> \E s \in Refused(c) : op = Op("move", c, s, s)
  BY DEF Moves
<1>3. \A c \in Cells : op \in Renumber(c) <=>
        \E s \in Kept(c) :
          Rank(Kept(c), s) # s /\ op = Op("renumber", c, s, Rank(Kept(c), s))
  BY DEF Renumber
<1>4. \A c \in Cells :
        op \in Unchoose(c) <=> Refused(c) # {} /\ op = Op("unchoose", c, 0, 0)
  BY DEF Unchoose
<1> QED
  BY <1>1, <1>2, <1>3, <1>4

LEMMA ChooseScript ==
  ASSUME Choose, NEW op \in script'
  PROVE  \E c \in Cells : op = Op("reduce", c, 0, 0)
  BY DEF Choose, Reduce

\* The runs of a cell, as numbers.
LEMMA KeptType ==
  ASSUME NEW c \in Cells
  PROVE  /\ Count(c) \in Nat /\ Count(c) <= Slots
         /\ Refused(c) \subseteq 1..Count(c) /\ Kept(c) \subseteq 1..Count(c)
         /\ 1..Count(c) \subseteq At
         /\ \A s \in Kept(c) : Rank(Kept(c), s) \in 1..s
<1>1. Slots \in Nat /\ Count(c) \in 0..Slots
  BY Counts, DirectoryAssumption DEF DirectoryAssumption
<1>2. Count(c) \in Nat /\ Count(c) <= Slots /\ 1..Count(c) \subseteq At
  BY <1>1 DEF At
<1>3. Refused(c) \subseteq 1..Count(c) /\ Kept(c) \subseteq 1..Count(c)
  BY DEF Refused, Kept
<1>4. \A s \in Kept(c) : Rank(Kept(c), s) \in 1..s
  BY <1>2, <1>3, RankType
<1> QED
  BY <1>2, <1>3, <1>4

LEMMA ScriptApply ==
  ASSUME Types, Apply
  PROVE  ScriptOK'
<1> SUFFICES ASSUME NEW op \in script'
             PROVE  /\ op.do \in {"move", "renumber", "unchoose", "reduce", "record"}
                    /\ op.do # "record" => op.cell \in Cells
                    /\ op.do = "move" => op.from \in At /\ op.to = op.from
                    /\ op.do = "renumber" => op.from \in At /\ op.to \in At /\ op.to < op.from
                    /\ op.do = "record" => op.names \subseteq FailureNames
  BY DEF ScriptOK, FailureNames, Cells, At
<1>1. CASE \E c \in Cells : \E s \in Refused(c) : op = Op("move", c, s, s)
  BY <1>1, KeptType DEF Op
<1>2. CASE \E c \in Cells : \E s \in Kept(c) :
             Rank(Kept(c), s) # s /\ op = Op("renumber", c, s, Rank(Kept(c), s))
  <2>1. PICK c \in Cells : \E s \in Kept(c) :
               Rank(Kept(c), s) # s /\ op = Op("renumber", c, s, Rank(Kept(c), s))
    BY <1>2
  <2>2. PICK s \in Kept(c) :
               Rank(Kept(c), s) # s /\ op = Op("renumber", c, s, Rank(Kept(c), s))
    BY <2>1
  <2>3. Rank(Kept(c), s) \in 1..s /\ s \in 1..Count(c) /\ 1..Count(c) \subseteq At
    BY KeptType
  <2>4. Count(c) \in Nat
    BY KeptType
  <2>5. Rank(Kept(c), s) < s /\ s \in At /\ Rank(Kept(c), s) \in At
    BY <2>2, <2>3, <2>4
  <2> QED
    BY <2>2, <2>5 DEF Op
<1>3. CASE \E c \in Cells : Refused(c) # {} /\ op = Op("unchoose", c, 0, 0)
  BY <1>3 DEF Op
<1>4. CASE op = TheRecord
  <2>1. named \subseteq FailureNames
    BY DEF Types, TypeOK, FailureNames
  <2>2. ASSUME NEW c \in Cells PROVE Names(c) \subseteq FailureNames
    <3>1. Refused(c) \subseteq At
      BY KeptType
    <3>2. \A s \in At : Name(c, s, FALSE) \in FailureNames
      BY DEF Name, FailureNames
    <3> QED
      BY <3>1, <3>2 DEF Names
  <2>3. UNION {Names(c) : c \in Cells} \subseteq FailureNames
    BY <2>2
  <2>4. op.do = "record" /\ op.names = named \cup UNION {Names(c) : c \in Cells}
    BY <1>4 DEF TheRecord, Record
  <2> QED
    BY <2>1, <2>3, <2>4
<1> QED
  BY <1>1, <1>2, <1>3, <1>4, ApplyScript

LEMMA ScriptStep ==
  ASSUME Types, [PNext]_pvars
  PROVE  ScriptOK'
<1>1. script' \subseteq script \/ Apply \/ Choose
  BY Cases DEF Next, Step, Ends, SweepMeasures, SweepFails, Killed, vars
<1>2. CASE script' \subseteq script
  BY <1>2 DEF Types, ScriptOK, FailureNames, Cells, At
<1>3. CASE Choose
  BY <1>3, ChooseScript DEF ScriptOK, Op, Cells
<1> QED
  BY <1>1, <1>2, <1>3, ScriptApply

LEMMA TypesInit == PInit => Types
<1> SUFFICES ASSUME Init PROVE Types
  BY DEF PInit
<1>1. Slots \in Nat /\ MaxRuns \in Nat /\ MaxApplies \in Nat /\ MaxKills \in Nat
  BY DirectoryAssumption DEF DirectoryAssumption
<1>2. Len(CellOrder) \in Nat /\ Len(CellOrder) * Slots \in Ids
  BY <1>1, DirectoryAssumption DEF DirectoryAssumption, Ids
<1>3. runs \in [Cells -> [At -> Ids]]
  BY FirstIds DEF Init, Ids
<1>4. 0 \in Ids /\ 0 \in 0..MaxApplies /\ 0 \in 0..MaxKills
  BY <1>1 DEF Ids
<1>5. TypeOK
  BY <1>2, <1>3, <1>4 DEF Init, TypeOK
<1> QED
  BY <1>5 DEF Types, ScriptOK, Init

LEMMA TypeStep ==
  ASSUME Types, [PNext]_pvars
  PROVE  TypeOK'
<1>0. /\ MaxRuns \in Nat /\ MaxApplies \in Nat /\ MaxKills \in Nat
  BY DirectoryAssumption DEF DirectoryAssumption
<1> USE DEF Types, TypeOK
<1>1. CASE Apply
  BY <1>0, <1>1 DEF Apply
<1>2. CASE Choose
  BY <1>2 DEF Choose
<1>3. CASE Step
  <2>1. PICK op \in script :
          Move(op) \/ Rename(op) \/ RemoveChosen(op) \/ Write(op) \/ WriteChosen(op)
    BY <1>3 DEF Step, Due
  <2>2. UNCHANGED <<logs, bad, taken, judged, applies, kills>>
    BY <1>3 DEF Step
  <2>3. 0 \in Ids
    BY <1>0 DEF Ids
  <2>4. CASE Move(op)
    <3>1. op.cell \in Cells /\ op.from \in At /\ op.to \in At
      BY <2>4 DEF Move, ScriptOK
    <3> QED
      BY <2>2, <2>3, <2>4, <3>1 DEF Move
  <2>5. CASE Rename(op)
    <3>1. op.cell \in Cells /\ op.from \in At /\ op.to \in At
      BY <2>5 DEF Rename, ScriptOK
    <3> DEFINE types == [Cells -> [At -> Ids]]
    <3>2. \A f \in types : \A i \in Ids :
            [f EXCEPT ![op.cell][op.to] = i, ![op.cell][op.from] = 0] \in types
      BY <2>3, <3>1
    <3>3. runs \in types /\ runs[op.cell][op.from] \in Ids
      BY <3>1
    <3> HIDE DEF types
    <3>4. runs' \in types
      BY <2>5, <3>2, <3>3 DEF Rename
    <3>5. UNCHANGED <<logs, aside, chosen, named, bad, taken, applies, kills>>
      BY <2>2, <2>5 DEF Rename
    <3> QED
      BY <3>4, <3>5 DEF types
  <2>6. CASE RemoveChosen(op)
    BY <2>2, <2>6 DEF RemoveChosen, ScriptOK
  <2>7. CASE Write(op)
    BY <2>2, <2>7 DEF Write, ScriptOK, FailureNames
  <2>8. CASE WriteChosen(op)
    <3>1. op.cell \in Cells
      BY <2>8 DEF WriteChosen, ScriptOK
    <3>2. {runs[op.cell][s] : s \in 1..Count(op.cell)} \subseteq Ids
      BY <3>1, KeptType
    <3> QED
      BY <2>2, <2>8, <3>1, <3>2 DEF WriteChosen
  <2> QED
    BY <2>1, <2>4, <2>5, <2>6, <2>7, <2>8
<1>4. CASE Ends \/ Killed
  <2>1. kills' \in 0..MaxKills
    BY <1>0, <1>4 DEF Ends, Killed
  <2>2. UNCHANGED <<runs, logs, aside, chosen, named, bad, taken, applies>>
    BY <1>4 DEF Ends, Killed
  <2> QED
    BY <2>1, <2>2
<1>5. ASSUME NEW c \in Cells, NEW s \in At, SweepMeasures(c, s) \/ SweepFails(c, s)
      PROVE  TypeOK'
  <2>0. taken \in Nat /\ taken + 1 <= MaxRuns
    <3>1. taken \in 0..MaxRuns /\ taken < MaxRuns
      BY <1>5 DEF SweepMeasures, SweepFails, Ids
    <3> QED
      BY <1>0, <3>1
  <2>1. taken + 1 \in Ids /\ bad \cup {taken + 1} \subseteq 1..(taken + 1)
    BY <1>0, <2>0 DEF Ids
  <2>2. /\ Unmeasured \subseteq FailureNames /\ Name(c, s, TRUE) \in FailureNames
    BY DEF Unmeasured, Name, FailureNames
  <2>3. bad \subseteq 1..(taken + 1)
    BY <2>1
  <2>4. named' \subseteq FailureNames
    BY <1>5, <2>2 DEF SweepMeasures, SweepFails
  <2>5. /\ taken' \in Ids /\ logs' \in [Cells -> [At -> Ids]]
        /\ runs' \in [Cells -> [At -> Ids]] /\ bad' \subseteq 1..taken'
    <3>1. taken' = taken + 1 /\ bad' \in {bad, bad \cup {taken + 1}}
      BY <1>5 DEF SweepMeasures, SweepFails
    <3>2. /\ logs' = [logs EXCEPT ![c][s] = taken + 1]
          /\ runs' = runs \/ runs' = [runs EXCEPT ![c][s] = taken + 1]
      BY <1>5 DEF SweepMeasures, SweepFails
    <3> DEFINE types == [Cells -> [At -> Ids]]
    <3>3. \A f \in types : [f EXCEPT ![c][s] = taken + 1] \in types
      BY <2>1
    <3>4. logs \in types /\ runs \in types
      OBVIOUS
    <3> HIDE DEF types
    <3>5. logs' \in types /\ runs' \in types
      BY <3>2, <3>3, <3>4
    <3> QED
      BY <2>1, <2>3, <3>1, <3>5 DEF types
  <2>6. UNCHANGED <<aside, chosen, applies, kills>>
    BY <1>5 DEF SweepMeasures, SweepFails
  <2> QED
    BY <2>4, <2>5, <2>6 DEF FailureNames
<1>6. CASE UNCHANGED vars
  BY <1>6 DEF vars
<1> QED
  BY <1>1, <1>2, <1>3, <1>4, <1>5, <1>6, Cases DEF Next

\* Every variable of the directory keeps its type.
THEOREM DirectoryTyped == PSpec => []TypeOK
<1>1. PInit => Types
  BY TypesInit
<1>2. Types /\ [PNext]_pvars => Types'
  BY TypeStep, ScriptStep DEF Types
<1>3. Types => TypeOK
  BY DEF Types
<1> QED
  BY <1>1, <1>2, <1>3, PTL DEF PSpec

-----------------------------------------------------------------------------
(***************************************************************************)
(* The order of a script.                                                  *)
(***************************************************************************)
LEMMA Stages ==
  /\ Stage["move"] = 1 /\ Stage["renumber"] = 2 /\ Stage["unchoose"] = 3
  /\ Stage["reduce"] = 3 /\ Stage["record"] = 4
  BY DEF Stage

LEMMA DueOrder ==
  ASSUME ScriptOK, NEW op \in Due, NEW other \in script
  PROVE  /\ op.do = "record" => other.do = "record"
         /\ op.do = "unchoose" => other.do \notin {"move", "renumber"}
         /\ op.do = "renumber" => other.do # "move"
         /\ op.do = "renumber" /\ other.do = "renumber" /\ other.cell = op.cell
              => ~(other.from < op.from)
<1>1. ~Precedes(other, op) /\ op \in script
  BY DEF Due
<1>2. /\ op.do \in {"move", "renumber", "unchoose", "reduce", "record"}
      /\ other.do \in {"move", "renumber", "unchoose", "reduce", "record"}
  BY <1>1 DEF ScriptOK
<1>3. ~(Stage[other.do] < Stage[op.do])
  BY <1>1 DEF Precedes
<1>4. other.do = op.do /\ op.do # "record" /\ other.cell = op.cell => ~(other.from < op.from)
  BY <1>1 DEF Precedes
<1> QED
  BY <1>2, <1>3, <1>4, Stages

\* A step does one operation that was due.
LEMMA StepDoes ==
  ASSUME Step
  PROVE  /\ UNCHANGED <<logs, bad, taken, judged, applies, kills>>
         /\ \E op \in Due :
              /\ op \in script /\ script' = script \ {op}
              /\ Move(op) \/ Rename(op) \/ RemoveChosen(op) \/ Write(op) \/ WriteChosen(op)
  BY DEF Step, Due

\* A cell that loses no run keeps its numbers.
LEMMA NothingRefused ==
  ASSUME NEW c \in Cells, Refused(c) = {}, NEW s \in Kept(c)
  PROVE  Rank(Kept(c), s) = s
<1>1. Kept(c) = 1..Count(c) /\ Count(c) \in Nat
  BY KeptType DEF Kept
<1> QED
  BY <1>1, RankWhole

-----------------------------------------------------------------------------
(***************************************************************************)
(* PublishedFollows: a cell that loses a run loses its aggregates in the   *)
(* same script, after its runs have been moved.                            *)
(***************************************************************************)
Pending(do, c) == \E op \in script : op.do = do /\ op.cell = c

UnchosenLater ==
  \A op \in script : op.do \in {"move", "renumber"} => Pending("unchoose", op.cell)

Followed == kills = 0 => \A c \in Cells : chosen[c] \subseteq Held(c) \/ Pending("unchoose", c)

FollowInv == UnchosenLater /\ Followed

LEMMA FollowApply ==
  ASSUME Types, FollowInv, Apply
  PROVE  FollowInv'
<1>1. UnchosenLater'
  <2> SUFFICES ASSUME NEW op \in script', op.do \in {"move", "renumber"}
               PROVE  \E u \in script' : u.do = "unchoose" /\ u.cell = op.cell
    BY DEF UnchosenLater, Pending
  <2>1. op.cell \in Cells /\ Refused(op.cell) # {}
    <3>1. CASE \E c \in Cells : \E s \in Refused(c) : op = Op("move", c, s, s)
      BY <3>1 DEF Op
    <3>2. CASE \E c \in Cells : \E s \in Kept(c) :
                 Rank(Kept(c), s) # s /\ op = Op("renumber", c, s, Rank(Kept(c), s))
      BY <3>2, NothingRefused DEF Op
    <3>3. CASE \E c \in Cells : Refused(c) # {} /\ op = Op("unchoose", c, 0, 0)
      BY <3>3 DEF Op
    <3>4. CASE op = TheRecord
      BY <3>4 DEF TheRecord, Record
    <3> QED
      BY <3>1, <3>2, <3>3, <3>4, ApplyScript
  <2>2. Op("unchoose", op.cell, 0, 0) \in script'
    BY <2>1, ApplyScript
  <2> QED
    BY <2>2 DEF Op
<1>2. Followed'
  BY DEF FollowInv, Followed, Pending, Apply, Held
<1> QED
  BY <1>1, <1>2 DEF FollowInv

LEMMA FollowStep ==
  ASSUME Types, FollowInv, Step
  PROVE  FollowInv'
<1>1. PICK op \in Due :
        /\ op \in script /\ script' = script \ {op}
        /\ Move(op) \/ Rename(op) \/ RemoveChosen(op) \/ Write(op) \/ WriteChosen(op)
  BY StepDoes
<1>2. kills' = kills /\ ScriptOK
  BY StepDoes DEF Types
<1>3. CASE op.do = "unchoose"
  <2>1. RemoveChosen(op)
    BY <1>1, <1>3 DEF Move, Rename, RemoveChosen, Write, WriteChosen
  <2>2. op.cell \in Cells
    BY <1>1, <1>2, <1>3 DEF ScriptOK
  <2>3. UnchosenLater'
    BY <1>1, <1>2, <1>3, DueOrder DEF UnchosenLater
  <2>4. ASSUME NEW c \in Cells, kills' = 0
        PROVE  chosen'[c] \subseteq Held(c)' \/ Pending("unchoose", c)'
    <3>1. CASE c = op.cell
      BY <2>1, <2>2, <3>1 DEF RemoveChosen, Types, TypeOK
    <3>2. CASE c # op.cell
      <4>1. chosen'[c] = chosen[c] /\ runs' = runs
        BY <2>1, <3>2 DEF RemoveChosen, Types, TypeOK
      <4>2. chosen[c] \subseteq Held(c) \/ Pending("unchoose", c)
        BY <1>2, <2>4 DEF FollowInv, Followed
      <4> QED
        BY <1>1, <3>2, <4>1, <4>2 DEF Held, Pending
    <3> QED
      BY <3>1, <3>2
  <2> QED
    BY <2>3, <2>4 DEF FollowInv, Followed
<1>4. CASE op.do # "unchoose"
  <2>1. ASSUME NEW c, Pending("unchoose", c) PROVE Pending("unchoose", c)'
    BY <1>1, <1>4, <2>1 DEF Pending
  <2>2. UnchosenLater'
    BY <1>1, <2>1 DEF UnchosenLater, FollowInv
  <2>3. ASSUME NEW c \in Cells, kills' = 0
        PROVE  chosen'[c] \subseteq Held(c)' \/ Pending("unchoose", c)'
    <3>1. chosen[c] \subseteq Held(c) \/ Pending("unchoose", c)
      BY <1>2, <2>3 DEF FollowInv, Followed
    <3>2. CASE Move(op) \/ Rename(op)
      <4>1. Pending("unchoose", op.cell) /\ op.cell \in Cells
        BY <1>1, <1>2, <3>2 DEF Move, Rename, FollowInv, UnchosenLater, ScriptOK
      <4>2. CASE c = op.cell
        BY <2>1, <4>1, <4>2
      <4>3. CASE c # op.cell
        <5>1. runs'[c] = runs[c] /\ chosen' = chosen
          BY <3>2, <4>3 DEF Move, Rename, Types, TypeOK
        <5> QED
          BY <2>1, <3>1, <5>1 DEF Held
      <4> QED
        BY <4>2, <4>3
    <3>3. CASE WriteChosen(op)
      <4>1. op.cell \in Cells /\ runs' = runs
        BY <1>1, <1>2, <3>3 DEF WriteChosen, ScriptOK
      <4>2. CASE c = op.cell
        <5>1. chosen'[c] = {runs[c][s] : s \in 1..Count(c)}
          BY <3>3, <4>2 DEF WriteChosen, Types, TypeOK
        <5>2. \A s \in 1..Count(c) : s \in At /\ runs[c][s] # 0
          BY KeptType, Counts
        <5> QED
          BY <4>1, <5>1, <5>2 DEF Held
      <4>3. CASE c # op.cell
        <5>1. chosen'[c] = chosen[c]
          BY <3>3, <4>3 DEF WriteChosen, Types, TypeOK
        <5> QED
          BY <2>1, <3>1, <4>1, <5>1 DEF Held
      <4> QED
        BY <4>2, <4>3
    <3>4. CASE Write(op)
      BY <2>1, <3>1, <3>4 DEF Write, Held
    <3> QED
      BY <1>1, <1>4, <3>2, <3>3, <3>4 DEF RemoveChosen
  <2> QED
    BY <2>2, <2>3 DEF FollowInv, Followed
<1> QED
  BY <1>3, <1>4

LEMMA FollowNext ==
  ASSUME Types, FollowInv, [PNext]_pvars
  PROVE  FollowInv'
<1>1. CASE Choose
  <2>1. UnchosenLater'
    BY <1>1, ChooseScript DEF UnchosenLater, Op
  <2>2. Followed'
    BY <1>1 DEF FollowInv, Followed, Pending, Choose, Held
  <2> QED
    BY <2>1, <2>2 DEF FollowInv
<1>2. CASE Ends
  BY <1>2 DEF Ends, FollowInv, UnchosenLater, Followed, Types, TypeOK
<1>3. CASE Killed
  BY <1>3 DEF Killed, FollowInv, UnchosenLater, Pending, Followed, Types, TypeOK
<1>4. ASSUME NEW c \in Cells, NEW s \in At, SweepMeasures(c, s) \/ SweepFails(c, s)
      PROVE  FollowInv'
  <2>1. script = {} /\ script' = {} /\ chosen' = chosen /\ kills' = kills
    BY <1>4 DEF SweepMeasures, SweepFails
  <2>2. ASSUME NEW d \in Cells PROVE Held(d) \subseteq Held(d)'
    <3>1. \A t \in At : runs[d][t] # 0 => runs'[d][t] = runs[d][t]
      <4>1. runs \in [Cells -> [At -> Ids]] /\ runs[c][s] = 0
        BY <1>4 DEF SweepMeasures, SweepFails, Types, TypeOK
      <4>2. runs' = runs \/ runs' = [runs EXCEPT ![c][s] = taken + 1]
        BY <1>4 DEF SweepMeasures, SweepFails
      <4> QED
        BY <4>1, <4>2
    <3> QED
      BY <3>1 DEF Held
  <2>3. kills = 0 => \A d \in Cells : chosen[d] \subseteq Held(d)
    BY <2>1 DEF FollowInv, Followed, Pending
  <2> QED
    BY <2>1, <2>2, <2>3 DEF FollowInv, UnchosenLater, Followed
<1>5. CASE UNCHANGED vars
  BY <1>5 DEF vars, FollowInv, UnchosenLater, Pending, Followed, Held
<1> QED
  BY <1>1, <1>2, <1>3, <1>4, <1>5, FollowApply, FollowStep, Cases DEF Next

\* Published aggregates follow from runs that are there, for any cells, any
\* number of runs and of rechecks.
THEOREM AggregatesFollow == PSpec => []PublishedFollows
<1>1. PInit => Types /\ FollowInv
  BY TypesInit DEF PInit, Init, FollowInv, UnchosenLater, Followed
<1>2. Types /\ FollowInv /\ [PNext]_pvars => (Types /\ FollowInv)'
  BY TypeStep, ScriptStep, FollowNext DEF Types
<1>3. FollowInv => PublishedFollows
  BY DEF FollowInv, Followed, Pending, PublishedFollows
<1> QED
  BY <1>1, <1>2, <1>3, PTL DEF PSpec

-----------------------------------------------------------------------------
(***************************************************************************)
(* RefusedAreNamed: the failure file is written last, with the names that  *)
(* were in it when the command read it and those of every run it moves.    *)
(***************************************************************************)
IsRecord(op) == op.do = "record"

NamedLater ==
  /\ \A r, q \in script : IsRecord(r) /\ IsRecord(q) => r = q
  /\ \A r \in script : IsRecord(r) => named \subseteq r.names
  /\ \A m \in script : m.do = "move" =>
       \E r \in script : IsRecord(r) /\ Name(m.cell, m.from, FALSE) \in r.names

AsideNamed ==
  kills = 0 => \A c \in Cells, s \in At : aside[c][s] # 0 =>
    \/ Name(c, s, FALSE) \in named
    \/ \E r \in script : IsRecord(r) /\ Name(c, s, FALSE) \in r.names

NamedInv == NamedLater /\ AsideNamed

LEMMA NamedApply ==
  ASSUME Types, NamedInv, Apply
  PROVE  NamedInv'
<1>1. TheRecord \in script' /\ IsRecord(TheRecord)
  BY ApplyScript DEF TheRecord, Record, IsRecord
<1>2. \A op \in script' : IsRecord(op) => op = TheRecord
  BY ApplyScript DEF Op, IsRecord
<1>3. named' = named /\ named \subseteq TheRecord.names
  BY DEF Apply, TheRecord, Record
<1>4. ASSUME NEW m \in script', m.do = "move"
      PROVE  Name(m.cell, m.from, FALSE) \in TheRecord.names
  <2>1. PICK c \in Cells : \E s \in Refused(c) : m = Op("move", c, s, s)
    BY <1>4, ApplyScript DEF Op, TheRecord, Record
  <2>2. PICK s \in Refused(c) : m = Op("move", c, s, s)
    BY <2>1
  <2>3. Name(m.cell, m.from, FALSE) \in Names(c)
    BY <2>2 DEF Op, Names
  <2> QED
    BY <2>3 DEF TheRecord, Record
<1>5. NamedLater'
  BY <1>1, <1>2, <1>3, <1>4 DEF NamedLater, IsRecord
<1>6. script = {} /\ aside' = aside /\ kills' = kills
  BY DEF Apply
<1>7. AsideNamed'
  BY <1>3, <1>6 DEF NamedInv, AsideNamed
<1> QED
  BY <1>5, <1>7 DEF NamedInv

LEMMA NamedStep ==
  ASSUME Types, NamedInv, Step
  PROVE  NamedInv'
<1>1. PICK op \in Due :
        /\ op \in script /\ script' = script \ {op}
        /\ Move(op) \/ Rename(op) \/ RemoveChosen(op) \/ Write(op) \/ WriteChosen(op)
  BY StepDoes
<1>2. kills' = kills /\ ScriptOK
  BY StepDoes DEF Types
<1>3. CASE IsRecord(op)
  <2>1. Write(op)
    BY <1>1, <1>3 DEF Move, Rename, RemoveChosen, Write, WriteChosen, IsRecord
  <2>2. \A other \in script : other = op
    BY <1>1, <1>2, <1>3, DueOrder DEF IsRecord, NamedInv, NamedLater
  <2>3. script' = {}
    BY <1>1, <2>2
  <2>4. named' = op.names /\ aside' = aside /\ named \subseteq op.names
    BY <1>1, <1>3, <2>1 DEF Write, NamedInv, NamedLater
  <2>5. AsideNamed'
    BY <1>2, <2>2, <2>4 DEF NamedInv, AsideNamed
  <2> QED
    BY <2>3, <2>5 DEF NamedInv, NamedLater
<1>4. CASE ~IsRecord(op)
  <2>1. named' = named /\ \A r \in script : IsRecord(r) => r \in script'
    BY <1>1, <1>4 DEF Move, Rename, RemoveChosen, Write, WriteChosen, IsRecord
  <2>2. NamedLater'
    BY <1>1, <2>1 DEF NamedInv, NamedLater
  <2>3. ASSUME NEW c \in Cells, NEW s \in At, kills' = 0, aside'[c][s] # 0
        PROVE  \/ Name(c, s, FALSE) \in named
               \/ \E r \in script' : IsRecord(r) /\ Name(c, s, FALSE) \in r.names
    <3>1. CASE aside[c][s] # 0
      BY <1>2, <2>1, <2>3, <3>1 DEF NamedInv, AsideNamed
    <3>2. CASE aside[c][s] = 0
      <4>1. Move(op)
        BY <1>1, <2>3, <3>2 DEF Rename, RemoveChosen, Write, WriteChosen
      <4>2. op.do = "move" /\ op.to = op.from /\ op.cell = c /\ op.to = s
        BY <1>1, <1>2, <2>3, <3>2, <4>1 DEF Move, ScriptOK, Types, TypeOK
      <4> QED
        BY <1>1, <2>1, <4>2 DEF NamedInv, NamedLater
    <3> QED
      BY <3>1, <3>2
  <2>4. AsideNamed'
    BY <2>1, <2>3 DEF AsideNamed
  <2> QED
    BY <2>2, <2>4 DEF NamedInv
<1> QED
  BY <1>3, <1>4

LEMMA NamedNext ==
  ASSUME Types, NamedInv, [PNext]_pvars
  PROVE  NamedInv'
<1>1. CASE Choose
  <2>1. /\ script = {} /\ named' = named /\ aside' = aside /\ kills' = kills
        /\ \A op \in script' : op.do = "reduce"
    BY <1>1, ChooseScript DEF Choose, Op
  <2> QED
    BY <2>1 DEF NamedInv, NamedLater, AsideNamed, IsRecord
<1>2. CASE Ends \/ Killed
  <2>1. named' = named /\ script' \in {script, {}} /\ kills' = kills + 1
    BY <1>2 DEF Ends, Killed
  <2>2. kills' # 0
    BY <2>1 DEF Types, TypeOK
  <2>3. NamedLater'
    BY <2>1 DEF NamedInv, NamedLater
  <2> QED
    BY <2>2, <2>3 DEF NamedInv, AsideNamed
<1>3. ASSUME NEW c \in Cells, NEW s \in At, SweepMeasures(c, s) \/ SweepFails(c, s)
      PROVE  NamedInv'
  <2>1. script = {} /\ script' = {} /\ aside' = aside /\ kills' = kills
    BY <1>3 DEF SweepMeasures, SweepFails
  <2>2. ASSUME NEW d \in Cells, NEW t \in At, Name(d, t, FALSE) \in named
        PROVE  Name(d, t, FALSE) \in named'
    <3>1. Name(d, t, FALSE) \in Unmeasured /\ Name(d, t, FALSE) # Name(c, s, TRUE)
      BY <2>2 DEF Unmeasured, Name
    <3> QED
      BY <1>3, <3>1 DEF SweepMeasures, SweepFails
  <2> QED
    BY <2>1, <2>2 DEF NamedInv, NamedLater, AsideNamed
<1>4. CASE UNCHANGED vars
  BY <1>4 DEF vars, NamedInv, NamedLater, AsideNamed
<1> QED
  BY <1>1, <1>2, <1>3, <1>4, NamedApply, NamedStep, Cases DEF Next

\* Every run that was set aside is named in failures.json.
THEOREM EveryRefusedNamed == PSpec => []RefusedAreNamed
<1>1. PInit => Types /\ NamedInv
  BY TypesInit DEF PInit, Init, NamedInv, NamedLater, AsideNamed
<1>2. Types /\ NamedInv /\ [PNext]_pvars => (Types /\ NamedInv)'
  BY TypeStep, ScriptStep, NamedNext DEF Types
<1>3. NamedInv => RefusedAreNamed
  BY DEF NamedInv, AsideNamed, RefusedAreNamed
<1> QED
  BY <1>1, <1>2, <1>3, PTL DEF PSpec

-----------------------------------------------------------------------------
(***************************************************************************)
(* UnfinishedIsRefused: the MANIFEST is written when nothing is left to    *)
(* read, and truncating the archive takes an older one away.               *)
(***************************************************************************)
ArchiveFields(a) == [members |-> a.members, manifest |-> a.manifest, of |-> a.of]

UnfinishedInv ==
  /\ archive = ArchiveFields(archive)
  /\ packing = "reading" => /\ archive.manifest = Empty
                           /\ archive.of = DOMAIN archive.members \cup toRead
  /\ archive.manifest = Empty \/ DOMAIN archive.members = archive.of

\* What a read does to the archive.
LEMMA ReadDoes ==
  ASSUME UnfinishedInv, Reads
  PROVE  \E n \in Foremost :
           /\ n \in toRead /\ IsThere(n) /\ toRead' = toRead \ {n}
           /\ packing = "reading" /\ packing' = "reading"
           /\ archive' = ArchiveFields(archive')
           /\ archive'.manifest = archive.manifest /\ archive'.of = archive.of
           /\ archive'.members = With(archive.members, n, Content(n))
           /\ UNCHANGED <<vars, output, listed, began, packs>>
<1>1. PICK n \in Foremost :
        /\ IsThere(n) /\ toRead' = toRead \ {n}
        /\ archive' = [archive EXCEPT !.members = With(@, n, Content(n))]
  BY DEF Reads
<1>2. archive' = [members |-> With(archive.members, n, Content(n)),
                  manifest |-> archive.manifest, of |-> archive.of]
  BY <1>1 DEF UnfinishedInv, ArchiveFields
<1>3. n \in toRead
  BY DEF Foremost
<1> QED
  BY <1>1, <1>2, <1>3 DEF Reads, ArchiveFields

LEMMA UnfinishedNext ==
  ASSUME UnfinishedInv, [PNext]_pvars
  PROVE  UnfinishedInv'
<1>1. CASE Reads
  <2>1. PICK n \in Foremost :
           /\ n \in toRead /\ toRead' = toRead \ {n}
           /\ packing = "reading" /\ packing' = "reading"
           /\ archive' = ArchiveFields(archive')
           /\ archive'.manifest = archive.manifest /\ archive'.of = archive.of
           /\ archive'.members = With(archive.members, n, Content(n))
    BY <1>1, ReadDoes
  <2>2. DOMAIN archive'.members = {n} \cup DOMAIN archive.members
    BY <2>1 DEF With
  <2>3. archive'.of = DOMAIN archive'.members \cup toRead'
    BY <2>1, <2>2 DEF UnfinishedInv
  <2> QED
    BY <2>1, <2>3 DEF UnfinishedInv, Empty, ArchiveFields
<1>2. CASE Finishes
  <2>1. archive' = [members |-> archive.members, manifest |-> archive.members,
                    of |-> archive.of]
    BY <1>2 DEF Finishes, UnfinishedInv, ArchiveFields
  <2> QED
    BY <1>2, <2>1 DEF Finishes, UnfinishedInv, ArchiveFields, Empty
<1>3. CASE ListsRefused
  BY <1>3 DEF ListsRefused, UnfinishedInv, ArchiveFields, Empty
<1>4. CASE ListsRuns
  BY <1>4 DEF ListsRuns, UnfinishedInv, ArchiveFields, Empty
<1>5. CASE Fails \/ PackDies
  BY <1>5 DEF Fails, PackDies, UnfinishedInv, ArchiveFields, Empty
<1>6. CASE Others \/ Combine \/ CombineDies \/ UNCHANGED pvars
  BY <1>6 DEF Others, Combine, CombineDies, pvars, publishing, UnfinishedInv, ArchiveFields,
              Empty
<1> QED
  BY <1>1, <1>2, <1>3, <1>4, <1>5, <1>6 DEF PNext

\* An archive that checks has every file its `pack` found.
THEOREM UnfinishedRefused == PSpec => []UnfinishedIsRefused
<1>1. PInit => UnfinishedInv
  BY DEF PInit, UnfinishedInv, ArchiveFields
<1>2. UnfinishedInv /\ [PNext]_pvars => UnfinishedInv'
  BY UnfinishedNext
<1>3. UnfinishedInv => UnfinishedIsRefused
  BY DEF UnfinishedInv, UnfinishedIsRefused, Checks
<1> QED
  BY <1>1, <1>2, <1>3, PTL DEF PSpec

-----------------------------------------------------------------------------
(***************************************************************************)
(* PackedIsComplete, where names sort as their numbers do.                 *)
(***************************************************************************)
InNumberOrder == \A s, t \in At : s < t => NamePlace[s] < NamePlace[t]

\* A run that was listed is still to be read and is not there any more: this
\* `pack` will fail.
Doomed == \E c \in Cells, s \in At : RunFile(c, s) \in toRead /\ runs[c][s] = 0

\* What is to be read is what sorts behind the last that was.
ReadInOrder ==
  packing = "reading" =>
    /\ toRead \subseteq listed /\ DOMAIN archive.members \cap toRead = {}
    /\ \A n \in toRead, m \in listed : Before(Sorts(n), Sorts(m)) => m \in toRead

\* A run that was not listed under its name came from a higher one that was.
Sourced ==
  packing # "idle" /\ taken = began =>
    \A c \in Cells, s \in At : runs[c][s] # 0 =>
      \/ RunFile(c, s) \in listed
      \/ \E z \in At : s < z /\ RunFile(c, z) \in listed /\ runs[c][z] = 0

\* Every measurement is in the archive, or will be read, or `pack` will fail.
Covered ==
  packing = "reading" /\ taken = began /\ ~Doomed =>
    \A c \in Cells, s \in At :
      /\ runs[c][s] # 0  => runs[c][s] \in Evidence \/ RunFile(c, s) \in toRead
      /\ aside[c][s] # 0 => aside[c][s] \in Evidence \/ Refusal(c, s) \in toRead

PackInv ==
  /\ began \in Nat /\ began <= taken
  /\ ReadInOrder /\ Sourced /\ Covered

\* What a step can do to the runs.
Moved(c, s) ==
  /\ aside' = [aside EXCEPT ![c][s] = runs[c][s]]
  /\ runs' = [runs EXCEPT ![c][s] = 0]

Renumbered(c, from, to) ==
  /\ aside' = aside
  /\ runs' = [runs EXCEPT ![c][to] = runs[c][from], ![c][from] = 0]

RunsChange ==
  /\ taken' = taken /\ UNCHANGED publishing
  /\ \/ \E c \in Cells : \E s \in At : Moved(c, s)
     \/ \E c \in Cells : \E from, to \in At : to < from /\ Renumbered(c, from, to)

LEMMA Changes ==
  ASSUME Types, [PNext]_pvars
  PROVE  \/ taken' = taken + 1 /\ UNCHANGED publishing
         \/ /\ taken' = taken /\ UNCHANGED publishing
            /\ \E c \in Cells : \E s \in At : Moved(c, s)
         \/ /\ taken' = taken /\ UNCHANGED publishing
            /\ \E c \in Cells : \E from, to \in At : to < from /\ Renumbered(c, from, to)
         \/ UNCHANGED <<runs, aside, taken>>
<1>1. CASE Others
  <2>1. CASE Step
    <3>1. PICK op \in script :
            Move(op) \/ Rename(op) \/ RemoveChosen(op) \/ Write(op) \/ WriteChosen(op)
      BY <2>1, StepDoes
    <3>2. taken' = taken /\ UNCHANGED publishing /\ ScriptOK
      BY <1>1, <2>1, StepDoes DEF Others, Types
    <3>3. CASE Move(op)
      <4>1. op.cell \in Cells /\ op.from \in At /\ Moved(op.cell, op.from)
        BY <3>2, <3>3 DEF Move, Moved, ScriptOK
      <4> QED
        BY <3>2, <4>1
    <3>4. CASE Rename(op)
      <4>1. /\ op.cell \in Cells /\ op.from \in At /\ op.to \in At /\ op.to < op.from
            /\ Renumbered(op.cell, op.from, op.to)
        BY <3>2, <3>4 DEF Rename, Renumbered, ScriptOK
      <4> QED
        BY <3>2, <4>1
    <3> QED
      BY <3>1, <3>2, <3>3, <3>4 DEF RemoveChosen, Write, WriteChosen
  <2> QED
    BY <1>1, <2>1 DEF Others, Next, Apply, Choose, Ends, SweepMeasures, SweepFails
<1> QED
  BY <1>1 DEF PNext, Combine, CombineDies, ListsRuns, ListsRefused, Reads, Finishes, Fails,
              PackDies, vars, pvars

\* A file is there when its directory has something under its name.
LEMMA There ==
  ASSUME NEW c, NEW s
  PROVE  /\ IsThere(RunFile(c, s)) <=> runs[c][s] # 0
         /\ IsThere(Refusal(c, s)) <=> aside[c][s] # 0
         /\ Content(RunFile(c, s)) = runs[c][s]
         /\ Content(Refusal(c, s)) = aside[c][s]
  BY DEF IsThere, Content, RunFile, Refusal

LEMMA RunsSort ==
  ASSUME InNumberOrder, NEW c \in Cells, NEW s \in At, NEW t \in At, s < t
  PROVE  Before(Sorts(RunFile(c, s)), Sorts(RunFile(c, t)))
<1>1. /\ Sorts(RunFile(c, s)) = <<Place(c), 0, NamePlace[s]>>
      /\ Sorts(RunFile(c, t)) = <<Place(c), 0, NamePlace[t]>>
  BY DEF Sorts, RunFile
<1>2. NamePlace[s] < NamePlace[t]
  BY DEF InNumberOrder
<1> QED
  BY <1>1, <1>2 DEF Before

LEMMA ReadInOrderNext ==
  ASSUME UnfinishedInv, ReadInOrder, [PNext]_pvars
  PROVE  ReadInOrder'
<1>1. CASE Reads
  <2>1. PICK n \in Foremost :
           /\ n \in toRead /\ toRead' = toRead \ {n}
           /\ packing = "reading" /\ packing' = "reading"
           /\ archive'.members = With(archive.members, n, Content(n))
           /\ listed' = listed
    BY <1>1, ReadDoes
  <2>2. DOMAIN archive'.members = DOMAIN archive.members \cup {n}
    BY <2>1 DEF With
  <2>3. ASSUME NEW k \in toRead', NEW m \in listed', Before(Sorts(k), Sorts(m))
        PROVE  m \in toRead'
    <3>1. m \in toRead
      BY <2>1, <2>3 DEF ReadInOrder
    <3>2. m # n
      BY <2>1, <2>3 DEF Foremost
    <3> QED
      BY <2>1, <3>1, <3>2
  <2> QED
    BY <2>1, <2>2, <2>3 DEF ReadInOrder
<1>2. CASE ListsRefused
  <2>1. toRead' = listed' /\ DOMAIN archive'.members = {}
    BY <1>2 DEF ListsRefused, Empty
  <2> QED
    BY <2>1 DEF ReadInOrder
<1>3. CASE ListsRuns \/ Finishes \/ Fails \/ PackDies
  BY <1>3 DEF ListsRuns, Finishes, Fails, PackDies, ReadInOrder
<1>4. CASE Others \/ Combine \/ CombineDies \/ UNCHANGED pvars
  BY <1>4 DEF Others, Combine, CombineDies, pvars, publishing, ReadInOrder
<1> QED
  BY <1>1, <1>2, <1>3, <1>4 DEF PNext

\* What can be listed, other things being equal, is listed.
LEMMA SourcedChange ==
  ASSUME Types, Sourced, taken' = taken, UNCHANGED publishing,
         \/ \E c \in Cells : \E s \in At : Moved(c, s)
         \/ \E c \in Cells : \E from, to \in At : to < from /\ Renumbered(c, from, to)
  PROVE  Sourced'
<1> SUFFICES ASSUME packing # "idle", taken = began,
                    NEW d \in Cells, NEW t \in At, runs'[d][t] # 0
             PROVE  \/ RunFile(d, t) \in listed
                    \/ \E z \in At : t < z /\ RunFile(d, z) \in listed /\ runs'[d][z] = 0
  BY DEF Sourced, publishing, Cells, At, RunFile
<1>a. runs \in [Cells -> [At -> Ids]] /\ At \subseteq Nat
  BY DEF Types, TypeOK, At
<1>b. \A c \in Cells, s \in At : runs[c][s] # 0 =>
        \/ RunFile(c, s) \in listed
        \/ \E z \in At : s < z /\ RunFile(c, z) \in listed /\ runs[c][z] = 0
  BY DEF Sourced
<1>0. /\ runs \in [Cells -> [At -> Ids]] /\ At \subseteq Nat
      /\ \A c \in Cells, s \in At : runs[c][s] # 0 =>
           \/ RunFile(c, s) \in listed
           \/ \E z \in At : s < z /\ RunFile(c, z) \in listed /\ runs[c][z] = 0
  BY <1>a, <1>b
<1>1. CASE \E c \in Cells : \E s \in At : Moved(c, s)
  <2>1. PICK c \in Cells, s \in At : runs' = [runs EXCEPT ![c][s] = 0]
    BY <1>1 DEF Moved
  <2>2. runs[d][t] # 0 /\ \A z \in At : runs[d][z] = 0 => runs'[d][z] = 0
    BY <1>0, <2>1
  <2> QED
    BY <1>0, <2>2
<1>2. CASE \E c \in Cells : \E from, to \in At : to < from /\ Renumbered(c, from, to)
  <2>1. PICK c \in Cells : \E from, to \in At : to < from /\ Renumbered(c, from, to)
    BY <1>2
  <2>2. PICK from \in At, to \in At :
          to < from /\ runs' = [runs EXCEPT ![c][to] = runs[c][from], ![c][from] = 0]
    BY <2>1 DEF Renumbered
  <2>3. /\ \A e \in Cells, u \in At : e # c \/ u \notin {from, to} => runs'[e][u] = runs[e][u]
        /\ runs'[c][from] = 0 /\ runs'[c][to] = runs[c][from]
    BY <1>0, <2>2
  \* What has become of a higher run that was listed and had gone.
  <2>4. ASSUME NEW s \in At, NEW z \in At, s < z, RunFile(c, z) \in listed, runs[c][z] = 0
        PROVE  \E y \in At : s < y /\ RunFile(c, y) \in listed /\ runs'[c][y] = 0
    <3>1. CASE z # to
      <4>1. runs'[c][z] = 0
        BY <2>3, <2>4, <3>1
      <4> QED
        BY <2>4, <4>1
    <3>2. CASE z = to /\ RunFile(c, from) \in listed
      BY <1>0, <2>2, <2>3, <2>4, <3>2
    <3>3. CASE z = to /\ RunFile(c, from) \notin listed /\ runs[c][from] # 0
      <4>1. PICK y \in At : from < y /\ RunFile(c, y) \in listed /\ runs[c][y] = 0
        BY <1>0, <3>3
      <4>2. s < y /\ y # from /\ y # to
        BY <1>0, <2>2, <2>4, <3>3, <4>1
      <4> QED
        BY <2>3, <4>1, <4>2
    <3>4. CASE z = to /\ runs[c][from] = 0
      <4>1. runs'[c][z] = 0
        BY <2>3, <3>4
      <4> QED
        BY <2>4, <4>1
    <3> QED
      BY <3>1, <3>2, <3>3, <3>4
  <2>5. CASE d # c
    <3>1. runs'[d] = runs[d]
      BY <1>0, <2>2, <2>5
    <3> QED
      BY <1>0, <3>1
  <2>6. CASE d = c /\ t = to
    <3>1. runs[c][from] # 0
      BY <2>3, <2>6
    <3>2. CASE RunFile(c, from) \in listed
      BY <2>2, <2>3, <2>6, <3>2
    <3>3. CASE RunFile(c, from) \notin listed
      <4>1. PICK y \in At : from < y /\ RunFile(c, y) \in listed /\ runs[c][y] = 0
        BY <1>0, <3>1, <3>3
      <4>2. to < y /\ y # from /\ y # to
        BY <1>0, <2>2, <4>1
      <4> QED
        BY <2>3, <2>6, <4>1, <4>2
    <3> QED
      BY <3>2, <3>3
  <2>7. CASE d = c /\ t # to
    <3>1. runs[c][t] # 0
      BY <2>3, <2>7
    <3>2. \/ RunFile(c, t) \in listed
          \/ \E z \in At : t < z /\ RunFile(c, z) \in listed /\ runs[c][z] = 0
      BY <1>0, <3>1
    <3> QED
      BY <2>4, <2>7, <3>2
  <2> QED
    BY <2>5, <2>6, <2>7
<1> QED
  BY <1>1, <1>2

LEMMA BeganNext ==
  ASSUME Types, began \in Nat, began <= taken, [PNext]_pvars
  PROVE  began' \in Nat /\ began' <= taken' /\ (taken' # taken => began' < taken')
<1>0. taken \in Nat
  BY DirectoryAssumption DEF DirectoryAssumption, Types, TypeOK, Ids
<1>1. taken' = taken \/ (taken' = taken + 1 /\ UNCHANGED publishing)
  BY Changes
<1>2. began' = began \/ (began' = taken /\ taken' = taken)
  BY DEF PNext, Others, Combine, CombineDies, ListsRuns, ListsRefused, Reads, Finishes, Fails,
         PackDies, vars, publishing, pvars
<1> QED
  BY <1>0, <1>1, <1>2 DEF publishing

LEMMA SourcedNext ==
  ASSUME Types, PackInv, [PNext]_pvars
  PROVE  Sourced'
<1>0. taken \in Nat
  BY DirectoryAssumption DEF DirectoryAssumption, Types, TypeOK, Ids
<1>1. CASE RunsChange
  BY <1>1, SourcedChange DEF PackInv, RunsChange
<1>2. CASE taken' # taken
  <2>1. taken' # began'
    BY <1>2, BeganNext DEF PackInv
  <2> QED
    BY <2>1 DEF Sourced
<1>3. CASE UNCHANGED <<runs, aside, taken>>
  <2>1. CASE ListsRuns
    <3>1. listed' = Present({Output} \cup UNDER[1])
      BY <2>1 DEF ListsRuns
    <3>2. \A c \in Cells, s \in At : runs[c][s] # 0 => RunFile(c, s) \in listed'
      BY <3>1, There DEF Present, UNDER, UnderRuns
    <3> QED
      BY <1>3, <3>2 DEF Sourced, Cells, At, RunFile
  <2>2. CASE ~ListsRuns
    <3>1. /\ packing' # "idle" => packing # "idle" /\ began' = began
          /\ listed \subseteq listed'
      BY <2>2 DEF PNext, Others, Combine, CombineDies, ListsRefused, Reads, Finishes, Fails,
                  PackDies, vars, publishing, pvars
    <3> QED
      BY <1>3, <3>1 DEF PackInv, Sourced, Cells, At, RunFile
  <2> QED
    BY <2>1, <2>2
<1>4. taken + 1 # taken
  BY <1>0
<1> QED
  BY <1>1, <1>2, <1>3, <1>4, Changes DEF RunsChange

\* A `pack` that will fail goes on to: another name is missing when a run has
\* taken the place of the one that was.
LEMMA DoomedStays ==
  ASSUME InNumberOrder, Types, PackInv, packing = "reading", taken = began, Doomed,
         taken' = taken, UNCHANGED publishing,
         \/ \E c \in Cells : \E s \in At : Moved(c, s)
         \/ \E c \in Cells : \E from, to \in At : to < from /\ Renumbered(c, from, to)
  PROVE  Doomed'
<1>0. runs \in [Cells -> [At -> Ids]] /\ At \subseteq Nat
  BY DEF Types, TypeOK, At
<1>1. PICK d \in Cells, x \in At : RunFile(d, x) \in toRead /\ runs[d][x] = 0
  BY DEF Doomed
<1>2. ASSUME NEW z \in At, x < z, RunFile(d, z) \in listed PROVE RunFile(d, z) \in toRead
  BY <1>1, <1>2, RunsSort DEF PackInv, ReadInOrder
<1>3. ASSUME NEW z \in At, RunFile(d, z) \in toRead, runs'[d][z] = 0 PROVE Doomed'
  BY <1>3 DEF Doomed, publishing, RunFile, Cells, At
<1>4. CASE \E c \in Cells : \E s \in At : Moved(c, s)
  <2>1. runs'[d][x] = 0
    BY <1>0, <1>1, <1>4 DEF Moved
  <2> QED
    BY <1>1, <1>3, <2>1
<1>5. CASE \E c \in Cells : \E from, to \in At : to < from /\ Renumbered(c, from, to)
  <2>1. PICK c \in Cells : \E from, to \in At : to < from /\ Renumbered(c, from, to)
    BY <1>5
  <2>2. PICK from \in At, to \in At :
          to < from /\ runs' = [runs EXCEPT ![c][to] = runs[c][from], ![c][from] = 0]
    BY <2>1 DEF Renumbered
  <2>3. CASE d # c \/ x # to
    <3>1. runs'[d][x] = 0
      BY <1>0, <1>1, <2>2, <2>3
    <3> QED
      BY <1>1, <1>3, <3>1
  <2>4. CASE d = c /\ x = to
    <3>1. runs'[c][from] = 0 /\ runs'[c][to] = runs[c][from]
      BY <1>0, <2>2
    <3>2. CASE RunFile(c, from) \in listed
      BY <1>2, <1>3, <2>2, <2>4, <3>1, <3>2
    <3>3. CASE runs[c][from] = 0
      BY <1>1, <1>3, <2>4, <3>1, <3>3
    <3>4. CASE RunFile(c, from) \notin listed /\ runs[c][from] # 0
      <4>1. PICK z \in At : from < z /\ RunFile(c, z) \in listed /\ runs[c][z] = 0
        BY <3>4 DEF PackInv, Sourced
      <4>2. to < z /\ z # from /\ z # to
        BY <1>0, <2>2, <4>1
      <4>3. runs'[c][z] = 0
        BY <1>0, <2>2, <4>1, <4>2
      <4> QED
        BY <1>2, <1>3, <2>4, <4>1, <4>2, <4>3
    <3> QED
      BY <3>2, <3>3, <3>4
  <2> QED
    BY <2>3, <2>4
<1> QED
  BY <1>4, <1>5

LEMMA CoveredChange ==
  ASSUME InNumberOrder, Types, PackInv, taken' = taken, UNCHANGED publishing,
         \/ \E c \in Cells : \E s \in At : Moved(c, s)
         \/ \E c \in Cells : \E from, to \in At : to < from /\ Renumbered(c, from, to)
  PROVE  Covered'
<1> SUFFICES ASSUME packing = "reading", taken = began, ~Doomed',
                    NEW d \in Cells, NEW t \in At
             PROVE  /\ runs'[d][t] # 0 => runs'[d][t] \in Evidence \/ RunFile(d, t) \in toRead
                    /\ aside'[d][t] # 0 => aside'[d][t] \in Evidence \/ Refusal(d, t) \in toRead
  BY DEF Covered, publishing, Cells, At, RunFile, Refusal, Evidence
<1>0. /\ runs \in [Cells -> [At -> Ids]] /\ aside \in [Cells -> [At -> Ids]]
      /\ At \subseteq Nat
  BY DEF Types, TypeOK, At
<1>1. ~Doomed
  BY DoomedStays
<1>2. \A c \in Cells, s \in At :
        /\ runs[c][s] # 0  => runs[c][s] \in Evidence \/ RunFile(c, s) \in toRead
        /\ aside[c][s] # 0 => aside[c][s] \in Evidence \/ Refusal(c, s) \in toRead
  BY <1>1 DEF PackInv, Covered
<1>3. \A c \in Cells, s \in At : RunFile(c, s) \in toRead => runs'[c][s] # 0
  BY DEF Doomed, publishing, RunFile, Cells, At
<1>4. CASE \E c \in Cells : \E s \in At : Moved(c, s)
  <2>1. PICK c \in Cells, s \in At : Moved(c, s)
    BY <1>4
  <2>2. runs'[c][s] = 0 /\ aside'[c][s] = runs[c][s]
    BY <1>0, <2>1 DEF Moved
  <2>3. RunFile(c, s) \notin toRead
    BY <1>3, <2>2
  <2>4. CASE d = c /\ t = s
    BY <1>2, <2>2, <2>3, <2>4
  <2>5. CASE d # c \/ t # s
    <3>1. runs'[d][t] = runs[d][t] /\ aside'[d][t] = aside[d][t]
      BY <1>0, <2>1, <2>5 DEF Moved
    <3> QED
      BY <1>2, <3>1
  <2> QED
    BY <2>4, <2>5
<1>5. CASE \E c \in Cells : \E from, to \in At : to < from /\ Renumbered(c, from, to)
  <2>1. PICK c \in Cells : \E from, to \in At : to < from /\ Renumbered(c, from, to)
    BY <1>5
  <2>2. PICK from \in At, to \in At :
          /\ to < from /\ aside' = aside
          /\ runs' = [runs EXCEPT ![c][to] = runs[c][from], ![c][from] = 0]
    BY <2>1 DEF Renumbered
  <2>3. runs'[c][from] = 0 /\ runs'[c][to] = runs[c][from]
    BY <1>0, <2>2
  <2>4. RunFile(c, from) \notin toRead
    BY <1>3, <2>3
  <2>5. CASE d = c /\ t = to
    BY <1>2, <2>2, <2>3, <2>4, <2>5
  <2>6. CASE d = c /\ t = from
    BY <1>2, <2>2, <2>3, <2>6
  <2>7. CASE d # c \/ t \notin {to, from}
    <3>1. runs'[d][t] = runs[d][t]
      BY <1>0, <2>2, <2>7
    <3> QED
      BY <1>2, <2>2, <3>1
  <2> QED
    BY <2>5, <2>6, <2>7
<1> QED
  BY <1>4, <1>5

LEMMA CoveredReads ==
  ASSUME UnfinishedInv, PackInv, Reads
  PROVE  Covered'
<1>1. PICK n \in Foremost :
        /\ n \in toRead /\ IsThere(n) /\ toRead' = toRead \ {n}
        /\ packing = "reading" /\ packing' = "reading"
        /\ archive'.members = With(archive.members, n, Content(n))
        /\ UNCHANGED <<vars, output, listed, began, packs>>
  BY ReadDoes
<1>2. UNCHANGED <<runs, aside, taken, began>>
  BY <1>1 DEF vars
<1>3. n \notin DOMAIN archive.members
  BY <1>1 DEF PackInv, ReadInOrder
<1>4. /\ DOMAIN archive'.members = DOMAIN archive.members \cup {n}
      /\ archive'.members[n] = Content(n)
      /\ \A m \in DOMAIN archive.members : archive'.members[m] = archive.members[m]
  BY <1>1, <1>3 DEF With
<1>5. Evidence \subseteq Evidence'
  BY <1>4 DEF Evidence
<1>6. n.dir \in {"runs", "refused"} => Content(n) \in Evidence'
  BY <1>4 DEF Evidence
<1>7. Doomed => Doomed'
  <2> SUFFICES ASSUME NEW c \in Cells, NEW s \in At, RunFile(c, s) \in toRead, runs[c][s] = 0
               PROVE  RunFile(c, s) \in toRead'
    BY <1>2 DEF Doomed, RunFile, Cells, At
  <2> QED
    BY <1>1, There
<1> SUFFICES ASSUME taken = began, ~Doomed, NEW c \in Cells, NEW s \in At
             PROVE  /\ runs[c][s] # 0 => runs[c][s] \in Evidence' \/ RunFile(c, s) \in toRead'
                    /\ aside[c][s] # 0 =>
                         aside[c][s] \in Evidence' \/ Refusal(c, s) \in toRead'
  BY <1>2, <1>7 DEF Covered, RunFile, Refusal, Cells, At
<1>8. /\ runs[c][s] # 0  => runs[c][s] \in Evidence \/ RunFile(c, s) \in toRead
      /\ aside[c][s] # 0 => aside[c][s] \in Evidence \/ Refusal(c, s) \in toRead
  BY <1>1 DEF PackInv, Covered
<1>9. RunFile(c, s).dir = "runs" /\ Refusal(c, s).dir = "refused"
  BY DEF RunFile, Refusal
<1> QED
  BY <1>1, <1>5, <1>6, <1>8, <1>9, There

LEMMA CoveredNext ==
  ASSUME InNumberOrder, Types, UnfinishedInv, PackInv, [PNext]_pvars
  PROVE  Covered'
<1>0. taken \in Nat
  BY DirectoryAssumption DEF DirectoryAssumption, Types, TypeOK, Ids
<1>1. CASE RunsChange
  BY <1>1, CoveredChange DEF RunsChange
<1>2. CASE taken' # taken
  <2>1. taken' # began'
    BY <1>2, BeganNext DEF PackInv
  <2> QED
    BY <2>1 DEF Covered
<1>3. CASE UNCHANGED <<runs, aside, taken>>
  <2>1. CASE Reads
    BY <2>1, CoveredReads
  <2>2. CASE ListsRefused
    <3>1. /\ listed' = listed \cup Present(UNDER[2]) /\ toRead' = listed'
          /\ packing # "idle" /\ began' = began
      BY <2>2 DEF ListsRefused
    <3> SUFFICES ASSUME taken = began, ~Doomed', NEW c \in Cells, NEW s \in At
                 PROVE  /\ runs[c][s] # 0 => RunFile(c, s) \in listed'
                        /\ aside[c][s] # 0 => Refusal(c, s) \in listed'
      BY <1>3, <3>1 DEF Covered, RunFile, Refusal, Cells, At
    <3>2. \A e \in Cells, z \in At : RunFile(e, z) \in listed => runs[e][z] # 0
      BY <1>3, <3>1 DEF Doomed, RunFile, Cells, At
    <3>3. runs[c][s] # 0 => RunFile(c, s) \in listed
      BY <3>1, <3>2 DEF PackInv, Sourced
    <3>4. aside[c][s] # 0 => Refusal(c, s) \in Present(UNDER[2])
      BY There DEF Present, UNDER, UnderRefused
    <3> QED
      BY <3>1, <3>3, <3>4
  <2>3. CASE ~Reads /\ ~ListsRefused
    <3>1. packing' = "reading" => packing = "reading" /\ UNCHANGED <<archive, toRead, began>>
      BY <2>3 DEF PNext, Others, Combine, CombineDies, ListsRuns, Finishes, Fails,
                  PackDies, vars, publishing, pvars
    <3> QED
      BY <1>3, <3>1 DEF PackInv, Covered, Doomed, Evidence, RunFile, Refusal, Cells, At
  <2> QED
    BY <2>1, <2>2, <2>3
<1>4. taken + 1 # taken
  BY <1>0
<1> QED
  BY <1>1, <1>2, <1>3, <1>4, Changes DEF RunsChange

LEMMA PackNext ==
  ASSUME InNumberOrder, Types, UnfinishedInv, PackInv, [PNext]_pvars
  PROVE  PackInv'
  BY BeganNext, ReadInOrderNext, SourcedNext, CoveredNext DEF PackInv

LEMMA FinishedHas ==
  ASSUME PackInv, Finishes, taken = began, NEW c \in Cells
  PROVE  Held(c) \cup SetAside(c) \subseteq Evidence'
<1>1. packing = "reading" /\ toRead = {} /\ archive'.members = archive.members
  BY DEF Finishes
<1>2. ~Doomed /\ Evidence' = Evidence
  BY <1>1 DEF Doomed, Evidence
<1> QED
  BY <1>1, <1>2 DEF PackInv, Covered, Held, SetAside

\* An archive finished beside a recheck has every measurement, for any cells,
\* any number of rechecks and kills, as long as the names of a cell's runs sort
\* as their numbers do, which is up to nine runs.
THEOREM PackedComplete == ASSUME InNumberOrder PROVE PSpec => PackedIsComplete
<1>1. PInit => Types /\ UnfinishedInv /\ PackInv
  <2>1. PInit => taken \in Nat
    BY TypesInit, DirectoryAssumption DEF Types, TypeOK, Ids, DirectoryAssumption
  <2> QED
    BY <2>1, TypesInit DEF PInit, UnfinishedInv, ArchiveFields, PackInv, ReadInOrder, Sourced,
                           Covered
<1>2. Types /\ UnfinishedInv /\ PackInv /\ [PNext]_pvars
        => (Types /\ UnfinishedInv /\ PackInv)'
  BY TypeStep, ScriptStep, UnfinishedNext, PackNext DEF Types
<1>4. PackInv /\ [PNext]_pvars =>
        [Finishes /\ taken = began
           => \A c \in Cells : Held(c) \cup SetAside(c) \subseteq Evidence']_pvars
  BY FinishedHas
<1> QED
  BY <1>1, <1>2, <1>4, PTL DEF PSpec, PackedIsComplete

-----------------------------------------------------------------------------
(***************************************************************************)
(* EvidenceKept and RenumberedInOrder, for a directory that one recheck    *)
(* --apply has been used on: of two, the second reads the logs that the    *)
(* first left beside other runs.                                           *)
(***************************************************************************)
Passing(c) == {s \in DOMAIN judged[c] : judged[c][s] \notin bad}

MovePending(c, s)   == Op("move", c, s, s) \in script
NumberPending(c, s) == Op("renumber", c, s, Rank(Passing(c), s)) \in script

Applying == \E op \in script : op.do = "record"

\* Before the first --apply every run has its own logs beside it.
Fresh ==
  applies = 0 =>
    /\ \A c \in Cells, s \in At :
         aside[c][s] = 0 /\ (runs[c][s] # 0 => logs[c][s] = runs[c][s])
    /\ \A op \in script : op.do = "reduce"

RecordedLast == \A op \in script : op.do \in {"move", "renumber"} => Applying

\* A script moves what does not pass, and renumbers what does.
ScriptIs ==
  \A op \in script :
    /\ op.do = "move" =>
         \E c \in Cells : \E s \in DOMAIN judged[c] \ Passing(c) : op = Op("move", c, s, s)
    /\ op.do = "renumber" =>
         \E c \in Cells : \E s \in Passing(c) :
           op = Op("renumber", c, s, Rank(Passing(c), s)) /\ Rank(Passing(c), s) < s

\* The runs that were judged are numbered without a gap, and end before one.
JudgedOK(c) ==
  /\ \E n \in 0..Slots : DOMAIN judged[c] = 1..n /\ (n < Slots => runs[c][n + 1] = 0)
  /\ \A s \in DOMAIN judged[c] : judged[c][s] # 0

\* A refused run that has still to be moved is where it was.
RefusedThere(c) ==
  \A s \in DOMAIN judged[c] \ Passing(c) :
    MovePending(c, s) => runs[c][s] = judged[c][s] /\ aside[c][s] = 0

\* A run that passes is where it was or where it comes to be.
PassingThere(c) ==
  \A s \in Passing(c) :
    IF NumberPending(c, s) THEN runs[c][s] = judged[c][s]
                           ELSE runs[c][Rank(Passing(c), s)] = judged[c][s]

\* Nothing else is there.
NothingElse(c) ==
  \A s \in DOMAIN judged[c] : runs[c][s] # 0 =>
    \/ s \notin Passing(c) /\ MovePending(c, s)
    \/ s \in Passing(c) /\ NumberPending(c, s)
    \/ \E t \in Passing(c) : Rank(Passing(c), t) = s /\ ~NumberPending(c, t)

\* Runs are renumbered from the lowest up.
LowestFirst(c) ==
  \A s, t \in Passing(c) : s < t /\ NumberPending(c, s) => NumberPending(c, t)

CellOK(c) ==
  JudgedOK(c) /\ RefusedThere(c) /\ PassingThere(c) /\ NothingElse(c) /\ LowestFirst(c)

RecheckInv ==
  /\ Fresh /\ RecordedLast
  /\ Applying => ScriptIs /\ \A c \in Cells : CellOK(c)

\* The numbers of the runs of a cell that were judged.
LEMMA PassingType ==
  ASSUME NEW c \in Cells, JudgedOK(c)
  PROVE  \E n \in Nat :
           /\ n <= Slots /\ DOMAIN judged[c] = 1..n /\ Passing(c) \subseteq 1..n
           /\ 1..n \subseteq At
           /\ n < Slots => runs[c][n + 1] = 0
<1>1. Slots \in Nat
  BY DirectoryAssumption DEF DirectoryAssumption
<1>2. PICK n \in 0..Slots : DOMAIN judged[c] = 1..n /\ (n < Slots => runs[c][n + 1] = 0)
  BY DEF JudgedOK
<1>3. n \in Nat /\ n <= Slots /\ 1..n \subseteq At
  BY <1>1 DEF At
<1> QED
  BY <1>2, <1>3 DEF Passing

LEMMA FreshApply ==
  ASSUME Types, Fresh, applies = 0, Apply
  PROVE  RecheckInv'
<1>1. Fresh'
  BY DEF Apply, Fresh
<1>2. TheRecord \in script' /\ TheRecord.do = "record"
  BY ApplyScript DEF TheRecord, Record
<1>3. RecordedLast'
  BY <1>2 DEF RecordedLast, Applying
<1>4. ASSUME NEW c \in Cells
      PROVE  /\ DOMAIN judged'[c] = 1..Count(c)
             /\ \A s \in 1..Count(c) : judged'[c][s] = runs[c][s]
             /\ Passing(c)' = Kept(c)
  <2>1. judged'[c] = [s \in 1..Count(c) |-> runs[c][s]] /\ bad' = bad
    BY DEF Apply
  <2>2. \A s \in 1..Count(c) : runs[c][s] # 0 /\ s \in At
    BY Counts, KeptType
  <2>3. \A s \in 1..Count(c) : logs[c][s] = runs[c][s]
    BY <2>2 DEF Fresh
  <2> QED
    BY <2>1, <2>3 DEF Passing, Kept, Refused
<1>5. ScriptIs'
  <2> SUFFICES ASSUME NEW op \in script'
               PROVE
      /\ op.do = "move" =>
           \E c \in Cells : \E s \in DOMAIN judged'[c] \ Passing(c)' : op = Op("move", c, s, s)
      /\ op.do = "renumber" =>
           \E c \in Cells : \E s \in Passing(c)' :
             op = Op("renumber", c, s, Rank(Passing(c)', s)) /\ Rank(Passing(c)', s) < s
    BY DEF ScriptIs, Op, Rank, Cells
  <2>1. CASE \E c \in Cells : \E s \in Refused(c) : op = Op("move", c, s, s)
    <3>1. PICK c \in Cells : \E s \in Refused(c) : op = Op("move", c, s, s)
      BY <2>1
    <3>2. PICK s \in Refused(c) : op = Op("move", c, s, s)
      BY <3>1
    <3>3. s \in DOMAIN judged'[c] \ Passing(c)' /\ op.do = "move"
      BY <1>4, <3>2, KeptType DEF Kept, Op
    <3> QED
      BY <3>2, <3>3
  <2>2. CASE \E c \in Cells : \E s \in Kept(c) :
               Rank(Kept(c), s) # s /\ op = Op("renumber", c, s, Rank(Kept(c), s))
    <3>1. PICK c \in Cells : \E s \in Kept(c) :
                 Rank(Kept(c), s) # s /\ op = Op("renumber", c, s, Rank(Kept(c), s))
      BY <2>2
    <3>2. PICK s \in Kept(c) :
                 Rank(Kept(c), s) # s /\ op = Op("renumber", c, s, Rank(Kept(c), s))
      BY <3>1
    <3>3. Passing(c)' = Kept(c) /\ op.do = "renumber"
      BY <1>4, <3>2 DEF Op
    <3>4. Rank(Kept(c), s) \in 1..s /\ s \in 1..Count(c) /\ Count(c) \in Nat
      BY KeptType
    <3>5. Rank(Kept(c), s) < s
      BY <3>2, <3>4
    <3> QED
      BY <3>2, <3>3, <3>5
  <2>3. CASE \E c \in Cells : Refused(c) # {} /\ op = Op("unchoose", c, 0, 0)
    BY <2>3 DEF Op
  <2>4. CASE op = TheRecord
    BY <1>2, <2>4
  <2> QED
    BY <2>1, <2>2, <2>3, <2>4, ApplyScript
<1>6. ASSUME NEW c \in Cells PROVE CellOK(c)'
  <2>0. /\ Count(c) \in Nat /\ Count(c) <= Slots
        /\ Refused(c) \subseteq 1..Count(c) /\ Kept(c) \subseteq 1..Count(c)
        /\ 1..Count(c) \subseteq At
        /\ \A s \in Kept(c) : Rank(Kept(c), s) \in 1..s
    BY KeptType
  <2>1. /\ DOMAIN judged'[c] = 1..Count(c)
        /\ \A s \in 1..Count(c) : judged'[c][s] = runs[c][s]
        /\ Passing(c)' = Kept(c)
        /\ runs' = runs /\ aside' = aside
    BY <1>4 DEF Apply
  <2>2. \A s \in Refused(c) : MovePending(c, s)'
    <3> SUFFICES ASSUME NEW s \in Refused(c) PROVE Op("move", c, s, s) \in script'
      BY DEF MovePending, Op
    <3> QED
      BY ApplyScript
  <2>3. \A s \in Kept(c) : NumberPending(c, s)' <=> Rank(Kept(c), s) # s
    <3> SUFFICES ASSUME NEW s \in Kept(c)
                 PROVE  Op("renumber", c, s, Rank(Kept(c), s)) \in script'
                          <=> Rank(Kept(c), s) # s
      BY <2>1 DEF NumberPending, Op, Rank
    <3>1. ASSUME Rank(Kept(c), s) # s
          PROVE  Op("renumber", c, s, Rank(Kept(c), s)) \in script'
      BY <3>1, ApplyScript
    <3>2. ASSUME Op("renumber", c, s, Rank(Kept(c), s)) \in script'
          PROVE  Rank(Kept(c), s) # s
      <4> DEFINE op == Op("renumber", c, s, Rank(Kept(c), s))
      <4>1. op.do = "renumber" /\ op.cell = c /\ op.from = s
        BY DEF Op
      <4> HIDE DEF op
      <4>2. op \in script'
        BY <3>2 DEF op
      <4>3. \E d \in Cells : \E t \in Kept(d) :
              Rank(Kept(d), t) # t /\ op = Op("renumber", d, t, Rank(Kept(d), t))
        <5>1. \A d \in Cells : \A t \in Refused(d) : op # Op("move", d, t, t)
          BY <4>1 DEF Op
        <5>2. \A d \in Cells : op # Op("unchoose", d, 0, 0)
          BY <4>1 DEF Op
        <5>3. op # TheRecord
          BY <1>2, <4>1
        <5> QED
          BY <4>2, <5>1, <5>2, <5>3, ApplyScript
      <4>4. PICK d \in Cells : \E t \in Kept(d) :
              Rank(Kept(d), t) # t /\ op = Op("renumber", d, t, Rank(Kept(d), t))
        BY <4>3
      <4>5. PICK t \in Kept(d) :
              Rank(Kept(d), t) # t /\ op = Op("renumber", d, t, Rank(Kept(d), t))
        BY <4>4
      <4>6. d = c /\ t = s
        BY <4>1, <4>5 DEF Op
      <4> QED
        BY <4>5, <4>6
    <3> QED
      BY <3>1, <3>2
  <2>4. JudgedOK(c)'
    <3>1. /\ \A s \in 1..Count(c) : runs[c][s] # 0
          /\ Count(c) < Slots => runs[c][Count(c) + 1] = 0
          /\ Count(c) \in 0..Slots
      BY Counts
    <3> QED
      BY <2>1, <3>1 DEF JudgedOK
  <2>5. RefusedThere(c)'
    <3>1. \A s \in At : aside[c][s] = 0
      BY DEF Fresh
    <3> QED
      BY <2>0, <2>1, <3>1 DEF RefusedThere
  <2>6. PassingThere(c)'
    <3> SUFFICES ASSUME NEW s \in Kept(c)
                 PROVE  IF NumberPending(c, s)' THEN runs[c][s] = judged'[c][s]
                        ELSE runs[c][Rank(Kept(c), s)] = judged'[c][s]
      BY <2>1 DEF PassingThere, Rank
    <3> QED
      BY <2>0, <2>1, <2>3
  <2>7. NothingElse(c)'
    <3> SUFFICES ASSUME NEW s \in 1..Count(c)
                 PROVE  \/ s \notin Kept(c) /\ MovePending(c, s)'
                        \/ s \in Kept(c) /\ NumberPending(c, s)'
                        \/ \E t \in Kept(c) : Rank(Kept(c), t) = s /\ ~NumberPending(c, t)'
      BY <2>1 DEF NothingElse, Rank
    <3>1. s \in Refused(c) \/ s \in Kept(c)
      BY DEF Kept
    <3>2. s \in Refused(c) => s \notin Kept(c)
      BY DEF Kept
    <3> QED
      BY <2>2, <2>3, <3>1, <3>2
  <2>8. LowestFirst(c)'
    <3> SUFFICES ASSUME NEW s \in Kept(c), NEW t \in Kept(c), s < t, Rank(Kept(c), s) # s
                 PROVE  Rank(Kept(c), t) # t
      BY <2>1, <2>3 DEF LowestFirst
    <3>1. Rank(Kept(c), s) < s
      BY <2>0
    <3>2. Rank(Kept(c), t) < t
      BY <2>0, <3>1, RankGap
    <3> QED
      BY <2>0, <3>2
  <2> QED
    BY <2>4, <2>5, <2>6, <2>7, <2>8 DEF CellOK
<1> QED
  BY <1>1, <1>3, <1>5, <1>6 DEF RecheckInv, Cells

\* A cell that an operation does not reach stays as it was.
LEMMA CellStays ==
  ASSUME NEW c \in Cells, CellOK(c), NEW op, script' = script \ {op},
         op.do \in {"move", "renumber"} => op.cell # c,
         runs'[c] = runs[c], aside'[c] = aside[c], judged' = judged, bad' = bad
  PROVE  CellOK(c)'
<1>1. Passing(c)' = Passing(c)
  BY DEF Passing
<1>2. \A s : MovePending(c, s)' <=> MovePending(c, s)
  <2> SUFFICES ASSUME NEW s PROVE Op("move", c, s, s) # op
    BY DEF MovePending, Op
  <2> QED
    BY DEF Op
<1>3. \A s : NumberPending(c, s)' <=> NumberPending(c, s)
  <2> SUFFICES ASSUME NEW s PROVE Op("renumber", c, s, Rank(Passing(c), s)) # op
    BY <1>1 DEF NumberPending, Op, Rank
  <2> QED
    BY DEF Op
<1>4. JudgedOK(c)' /\ RefusedThere(c)'
  BY <1>1, <1>2 DEF CellOK, JudgedOK, RefusedThere
<1>5. PassingThere(c)'
  BY <1>1, <1>3 DEF CellOK, PassingThere, Rank
<1>6. NothingElse(c)'
  BY <1>1, <1>2, <1>3 DEF CellOK, NothingElse, Rank
<1>7. LowestFirst(c)'
  BY <1>1, <1>3 DEF CellOK, LowestFirst
<1> QED
  BY <1>4, <1>5, <1>6, <1>7 DEF CellOK

\* What is moved does not pass, and nothing is in its way.
LEMMA MoveFinds ==
  ASSUME Types, RecheckInv, Applying, NEW op \in Due, op \in script, op.do = "move"
  PROVE  \E c \in Cells : \E f \in DOMAIN judged[c] \ Passing(c) :
           /\ op = Op("move", c, f, f) /\ f \in At /\ MovePending(c, f) /\ CellOK(c)
           /\ runs[c][f] = judged[c][f] /\ runs[c][f] \in bad /\ aside[c][f] = 0
<1>1. PICK c \in Cells : \E f \in DOMAIN judged[c] \ Passing(c) : op = Op("move", c, f, f)
  BY DEF RecheckInv, ScriptIs
<1>2. PICK f \in DOMAIN judged[c] \ Passing(c) : op = Op("move", c, f, f)
  BY <1>1
<1>3. CellOK(c) /\ MovePending(c, f)
  BY <1>2 DEF RecheckInv, MovePending
<1>4. f \in At
  BY <1>3, PassingType DEF CellOK
<1>5. runs[c][f] = judged[c][f] /\ aside[c][f] = 0
  BY <1>3 DEF CellOK, RefusedThere
<1>6. runs[c][f] \in bad
  BY <1>5 DEF Passing
<1> QED
  BY <1>2, <1>3, <1>4, <1>5, <1>6

LEMMA MoveKeeps ==
  ASSUME Types, RecheckInv, Applying, NEW op \in Due, op \in script, script' = script \ {op},
         Move(op), judged' = judged, bad' = bad, NEW c \in Cells
  PROVE  CellOK(c)'
<1>0. /\ runs \in [Cells -> [At -> Ids]] /\ aside \in [Cells -> [At -> Ids]]
      /\ At \subseteq Nat /\ op.do = "move"
  BY DEF Types, TypeOK, At, Move
<1>1. PICK d \in Cells : \E f \in DOMAIN judged[d] \ Passing(d) :
           /\ op = Op("move", d, f, f) /\ f \in At /\ MovePending(d, f) /\ CellOK(d)
           /\ runs[d][f] = judged[d][f] /\ runs[d][f] \in bad /\ aside[d][f] = 0
  BY <1>0, MoveFinds
<1>2. PICK f \in DOMAIN judged[d] \ Passing(d) :
           /\ op = Op("move", d, f, f) /\ f \in At /\ MovePending(d, f) /\ CellOK(d)
           /\ runs[d][f] = judged[d][f] /\ runs[d][f] \in bad /\ aside[d][f] = 0
  BY <1>1
<1>3. /\ op.cell = d /\ op.from = f /\ op.to = f
      /\ runs' = [runs EXCEPT ![d][f] = 0] /\ aside' = [aside EXCEPT ![d][f] = runs[d][f]]
  BY <1>2 DEF Op, Move
<1>4. CASE c # d
  <2>1. runs'[c] = runs[c] /\ aside'[c] = aside[c] /\ CellOK(c)
    BY <1>0, <1>3, <1>4 DEF RecheckInv
  <2> QED
    BY <1>3, <1>4, <2>1, CellStays
<1>5. CASE c = d
  <2>1. /\ runs'[c][f] = 0
        /\ \A s \in At \ {f} : runs'[c][s] = runs[c][s] /\ aside'[c][s] = aside[c][s]
    BY <1>0, <1>2, <1>3, <1>5
  <2>2. PICK n \in Nat :
           /\ n <= Slots /\ DOMAIN judged[c] = 1..n /\ Passing(c) \subseteq 1..n
           /\ 1..n \subseteq At
           /\ n < Slots => runs[c][n + 1] = 0
    BY <1>2, <1>5, PassingType DEF CellOK
  <2>3. Passing(c)' = Passing(c)
    BY DEF Passing
  <2>4. \A s : s # f => (MovePending(c, s)' <=> MovePending(c, s))
    <3> SUFFICES ASSUME NEW s, s # f PROVE Op("move", c, s, s) # op
      BY DEF MovePending, Op
    <3> QED
      BY <1>3 DEF Op
  <2>5. ~MovePending(c, f)'
    <3>1. op = Op("move", c, f, f)
      BY <1>2, <1>5
    <3> QED
      BY <3>1 DEF MovePending, Op
  <2>6. \A s : NumberPending(c, s)' <=> NumberPending(c, s)
    <3> SUFFICES ASSUME NEW s PROVE Op("renumber", c, s, Rank(Passing(c), s)) # op
      BY <2>3 DEF NumberPending, Op, Rank
    <3> QED
      BY <1>0 DEF Op
  <2>7. JudgedOK(c)'
    <3>1. n < Slots => n + 1 \in At /\ n + 1 # f
      BY <1>2, <1>5, <2>2, DirectoryAssumption DEF DirectoryAssumption, At
    <3>2. n < Slots => runs'[c][n + 1] = 0
      BY <2>1, <2>2, <3>1
    <3>3. n \in 0..Slots /\ \A s \in DOMAIN judged[c] : judged[c][s] # 0
      BY <1>2, <1>5, <2>2, DirectoryAssumption DEF DirectoryAssumption, CellOK, JudgedOK
    <3> QED
      BY <2>2, <3>2, <3>3 DEF JudgedOK
  <2>8. RefusedThere(c)'
    <3> SUFFICES ASSUME NEW s \in DOMAIN judged[c] \ Passing(c), MovePending(c, s)'
                 PROVE  runs'[c][s] = judged[c][s] /\ aside'[c][s] = 0
      BY <2>3 DEF RefusedThere
    <3>1. s # f /\ MovePending(c, s) /\ s \in At
      BY <2>2, <2>4, <2>5
    <3>2. runs[c][s] = judged[c][s] /\ aside[c][s] = 0
      BY <1>2, <1>5, <3>1 DEF CellOK, RefusedThere
    <3> QED
      BY <2>1, <3>1, <3>2
  <2>9. PassingThere(c)'
    <3> SUFFICES ASSUME NEW s \in Passing(c)
                 PROVE  IF NumberPending(c, s) THEN runs'[c][s] = judged[c][s]
                        ELSE runs'[c][Rank(Passing(c), s)] = judged[c][s]
      BY <2>3, <2>6 DEF PassingThere, Rank
    <3>1. IF NumberPending(c, s) THEN runs[c][s] = judged[c][s]
                                 ELSE runs[c][Rank(Passing(c), s)] = judged[c][s]
      BY <1>2, <1>5 DEF CellOK, PassingThere
    <3>2. s \in At /\ s # f
      BY <1>2, <1>5, <2>2
    <3>3. Rank(Passing(c), s) \in At
      <4>1. Rank(Passing(c), s) \in 1..s /\ s \in 1..n
        BY <2>2, RankType
      <4>2. Rank(Passing(c), s) \in 1..n
        BY <4>1
      <4> QED
        BY <2>2, <4>2
    <3>4. judged[c][s] \notin bad
      BY DEF Passing
    <3>5. ~NumberPending(c, s) => Rank(Passing(c), s) # f
      BY <1>2, <1>5, <3>1, <3>4
    <3> QED
      BY <2>1, <3>1, <3>2, <3>3, <3>5
  <2>10. NothingElse(c)'
    <3> SUFFICES ASSUME NEW s \in DOMAIN judged[c], runs'[c][s] # 0
                 PROVE  \/ s \notin Passing(c) /\ MovePending(c, s)'
                        \/ s \in Passing(c) /\ NumberPending(c, s)
                        \/ \E t \in Passing(c) :
                             Rank(Passing(c), t) = s /\ ~NumberPending(c, t)
      BY <2>3, <2>6 DEF NothingElse, Rank
    <3>1. s # f /\ runs[c][s] # 0
      BY <2>1, <2>2
    <3>2. MovePending(c, s)' <=> MovePending(c, s)
      BY <2>4, <3>1
    <3>3. NothingElse(c)
      BY <1>2, <1>5 DEF CellOK
    <3> QED
      BY <3>1, <3>2, <3>3 DEF NothingElse
  <2>11. LowestFirst(c)'
    <3>1. LowestFirst(c)
      BY <1>2, <1>5 DEF CellOK
    <3> QED
      BY <2>3, <2>6, <3>1 DEF LowestFirst
  <2> QED
    BY <2>7, <2>8, <2>9, <2>10, <2>11 DEF CellOK
<1> QED
  BY <1>4, <1>5

\* What is renumbered passes, and nothing is under its new name.
LEMMA RenameFinds ==
  ASSUME Types, RecheckInv, Applying, NEW op \in Due, op \in script, op.do = "renumber"
  PROVE  \E c \in Cells : \E f \in Passing(c) :
           /\ op = Op("renumber", c, f, Rank(Passing(c), f)) /\ Rank(Passing(c), f) < f
           /\ f \in At /\ Rank(Passing(c), f) \in At
           /\ NumberPending(c, f) /\ CellOK(c)
           /\ \A s \in DOMAIN judged[c] : ~MovePending(c, s)
           /\ \A s \in Passing(c) : s < f => ~NumberPending(c, s)
           /\ runs[c][f] = judged[c][f] /\ runs[c][Rank(Passing(c), f)] = 0
<1>1. PICK c \in Cells : \E f \in Passing(c) :
         op = Op("renumber", c, f, Rank(Passing(c), f)) /\ Rank(Passing(c), f) < f
  BY DEF RecheckInv, ScriptIs
<1>2. PICK f \in Passing(c) :
         op = Op("renumber", c, f, Rank(Passing(c), f)) /\ Rank(Passing(c), f) < f
  BY <1>1
<1>3. CellOK(c) /\ NumberPending(c, f) /\ ScriptOK
  BY <1>2 DEF RecheckInv, NumberPending, Types
<1>4. PICK n \in Nat :
         /\ n <= Slots /\ DOMAIN judged[c] = 1..n /\ Passing(c) \subseteq 1..n
         /\ 1..n \subseteq At
  BY <1>3, PassingType DEF CellOK
<1>5. /\ Rank(Passing(c), f) \in 1..f /\ f \in 1..n
  BY <1>4, RankType
<1>6. Rank(Passing(c), f) \in 1..n
  BY <1>5
<1>7. \A s : ~MovePending(c, s)
  <2> SUFFICES ASSUME NEW s, Op("move", c, s, s) \in script PROVE FALSE
    BY DEF MovePending
  <2>1. Op("move", c, s, s).do = "move"
    BY DEF Op
  <2> QED
    BY <1>3, <2>1, DueOrder
<1>8. ASSUME NEW s \in Passing(c), s < f, NumberPending(c, s) PROVE FALSE
  <2> DEFINE other == Op("renumber", c, s, Rank(Passing(c), s))
  <2>1. other.do = "renumber" /\ other.cell = c /\ other.from = s
    BY DEF Op
  <2>2. other \in script
    BY <1>8 DEF NumberPending
  <2>3. op.cell = c /\ op.from = f
    BY <1>2 DEF Op
  <2> HIDE DEF other
  <2> QED
    BY <1>3, <1>8, <2>1, <2>2, <2>3, DueOrder
<1>9. runs[c][Rank(Passing(c), f)] = 0
  <2> SUFFICES ASSUME runs[c][Rank(Passing(c), f)] # 0 PROVE FALSE
    OBVIOUS
  <2>1. NothingElse(c) /\ Rank(Passing(c), f) \in DOMAIN judged[c]
    BY <1>3, <1>4, <1>6 DEF CellOK
  <2>2. CASE /\ Rank(Passing(c), f) \in Passing(c)
             /\ NumberPending(c, Rank(Passing(c), f))
    BY <1>2, <1>8, <2>2
  <2>3. CASE \E t \in Passing(c) :
               Rank(Passing(c), t) = Rank(Passing(c), f) /\ ~NumberPending(c, t)
    <3>1. PICK t \in Passing(c) :
               Rank(Passing(c), t) = Rank(Passing(c), f) /\ ~NumberPending(c, t)
      BY <2>3
    <3>2. t = f
      BY <1>4, <3>1, RankOnce
    <3> QED
      BY <1>3, <3>1, <3>2
  <2> QED
    BY <1>7, <2>1, <2>2, <2>3 DEF NothingElse
<1>10. runs[c][f] = judged[c][f]
  BY <1>3 DEF CellOK, PassingThere
<1>11. f \in At /\ Rank(Passing(c), f) \in At
  BY <1>4, <1>5, <1>6
<1> QED
  BY <1>2, <1>3, <1>7, <1>8, <1>9, <1>10, <1>11

LEMMA RenameKeeps ==
  ASSUME Types, RecheckInv, Applying, NEW op \in Due, op \in script, script' = script \ {op},
         Rename(op), judged' = judged, bad' = bad, NEW c \in Cells
  PROVE  CellOK(c)'
<1>0. /\ runs \in [Cells -> [At -> Ids]] /\ At \subseteq Nat /\ op.do = "renumber"
      /\ aside' = aside
  BY DEF Types, TypeOK, At, Rename
<1>1. PICK d \in Cells : \E f \in Passing(d) :
           /\ op = Op("renumber", d, f, Rank(Passing(d), f)) /\ Rank(Passing(d), f) < f
           /\ f \in At /\ Rank(Passing(d), f) \in At
           /\ NumberPending(d, f) /\ CellOK(d)
           /\ \A s \in DOMAIN judged[d] : ~MovePending(d, s)
           /\ \A s \in Passing(d) : s < f => ~NumberPending(d, s)
           /\ runs[d][f] = judged[d][f] /\ runs[d][Rank(Passing(d), f)] = 0
  BY <1>0, RenameFinds
<1>2. PICK f \in Passing(d) :
           /\ op = Op("renumber", d, f, Rank(Passing(d), f)) /\ Rank(Passing(d), f) < f
           /\ f \in At /\ Rank(Passing(d), f) \in At
           /\ NumberPending(d, f) /\ CellOK(d)
           /\ \A s \in DOMAIN judged[d] : ~MovePending(d, s)
           /\ \A s \in Passing(d) : s < f => ~NumberPending(d, s)
           /\ runs[d][f] = judged[d][f] /\ runs[d][Rank(Passing(d), f)] = 0
  BY <1>1
<1>3. PICK to \in At : to = Rank(Passing(d), f)
  BY <1>2
<1>4. /\ op.cell = d /\ op.from = f /\ op.to = to /\ to < f
      /\ runs' = [runs EXCEPT ![d][to] = runs[d][f], ![d][f] = 0]
  BY <1>2, <1>3 DEF Op, Rename
<1>5. CASE c # d
  <2>1. runs'[c] = runs[c] /\ aside'[c] = aside[c] /\ CellOK(c)
    BY <1>0, <1>4, <1>5 DEF RecheckInv
  <2> QED
    BY <1>4, <1>5, <2>1, CellStays
<1>6. CASE c = d
  <2>1. /\ runs'[c][f] = 0 /\ runs'[c][to] = runs[c][f]
        /\ \A s \in At \ {f, to} : runs'[c][s] = runs[c][s]
    BY <1>0, <1>2, <1>4, <1>6
  <2>2. PICK n \in Nat :
           /\ n <= Slots /\ DOMAIN judged[c] = 1..n /\ Passing(c) \subseteq 1..n
           /\ 1..n \subseteq At
           /\ n < Slots => runs[c][n + 1] = 0
    BY <1>2, <1>6, PassingType DEF CellOK
  <2>3. Passing(c)' = Passing(c)
    BY DEF Passing
  <2>4. \A s : MovePending(c, s)' <=> MovePending(c, s)
    <3> SUFFICES ASSUME NEW s PROVE Op("move", c, s, s) # op
      BY DEF MovePending, Op
    <3> QED
      BY <1>0 DEF Op
  <2>5. \A s : s # f => (NumberPending(c, s)' <=> NumberPending(c, s))
    <3> SUFFICES ASSUME NEW s, s # f
                 PROVE  Op("renumber", c, s, Rank(Passing(c), s)) # op
      BY <2>3 DEF NumberPending, Op, Rank
    <3> QED
      BY <1>4 DEF Op
  <2>6. ~NumberPending(c, f)'
    <3>1. op = Op("renumber", c, f, Rank(Passing(c), f))
      BY <1>2, <1>6
    <3> QED
      BY <2>3, <3>1 DEF NumberPending, Op, Rank
  <2>7. \A s \in Passing(c) : Rank(Passing(c), s) \in 1..s /\ Rank(Passing(c), s) \in At
    <3> SUFFICES ASSUME NEW s \in Passing(c)
                 PROVE  Rank(Passing(c), s) \in 1..s /\ Rank(Passing(c), s) \in At
      OBVIOUS
    <3>1. Rank(Passing(c), s) \in 1..s /\ s \in 1..n
      BY <2>2, RankType
    <3>2. Rank(Passing(c), s) \in 1..n
      BY <3>1
    <3> QED
      BY <2>2, <3>1, <3>2
  <2>8. f \in 1..n /\ to \in 1..n
    <3>1. f \in 1..n
      BY <1>2, <1>6, <2>2
    <3> QED
      BY <1>0, <1>4, <3>1 DEF At
  <2>9. JudgedOK(c)'
    <3>1. n < Slots => n + 1 \in At /\ n + 1 \notin {f, to}
      BY <2>2, <2>8, DirectoryAssumption DEF DirectoryAssumption, At
    <3>2. n < Slots => runs'[c][n + 1] = 0
      BY <2>1, <2>2, <3>1
    <3>3. n \in 0..Slots /\ \A s \in DOMAIN judged[c] : judged[c][s] # 0
      BY <1>2, <1>6, <2>2, DirectoryAssumption DEF DirectoryAssumption, CellOK, JudgedOK
    <3> QED
      BY <2>2, <3>2, <3>3 DEF JudgedOK
  <2>10. RefusedThere(c)'
    BY <1>2, <1>6, <2>3, <2>4 DEF RefusedThere
  \* A run that has its number is not disturbed: no other comes to that number,
  \* and what has still to be renumbered is above it.
  <2>11. PassingThere(c)'
    <3> SUFFICES ASSUME NEW s \in Passing(c)
                 PROVE  IF NumberPending(c, s)' THEN runs'[c][s] = judged[c][s]
                        ELSE runs'[c][Rank(Passing(c), s)] = judged[c][s]
      BY <2>3 DEF PassingThere, Rank
    <3>1. IF NumberPending(c, s) THEN runs[c][s] = judged[c][s]
                                 ELSE runs[c][Rank(Passing(c), s)] = judged[c][s]
      BY <1>2, <1>6 DEF CellOK, PassingThere
    <3>2. CASE s = f
      BY <1>2, <1>3, <1>6, <2>1, <2>6, <3>2
    <3>3. CASE s # f /\ NumberPending(c, s)
      <4>1. ~(s < f) /\ s \in At
        BY <1>2, <1>6, <2>2, <3>3
      <4>2. s # to
        BY <1>0, <1>4, <4>1
      <4> QED
        BY <2>1, <2>5, <3>1, <3>3, <4>1, <4>2
    <3>4. CASE s # f /\ ~NumberPending(c, s)
      <4>1. Rank(Passing(c), s) # to
        BY <1>2, <1>3, <1>6, <2>2, <3>4, RankOnce
      <4>2. Rank(Passing(c), s) # f
        <5> SUFFICES ASSUME Rank(Passing(c), s) = f PROVE FALSE
          OBVIOUS
        <5>1. f < s
          BY <2>2, <2>7, <2>8, <3>4
        <5>2. LowestFirst(c) /\ NumberPending(c, f)
          BY <1>2, <1>6 DEF CellOK
        <5> QED
          BY <1>2, <1>6, <3>4, <5>1, <5>2 DEF LowestFirst
      <4> QED
        BY <2>1, <2>5, <2>7, <3>1, <3>4, <4>1, <4>2
    <3> QED
      BY <3>2, <3>3, <3>4
  <2>12. NothingElse(c)'
    <3> SUFFICES ASSUME NEW s \in DOMAIN judged[c], runs'[c][s] # 0
                 PROVE  \/ s \notin Passing(c) /\ MovePending(c, s)
                        \/ s \in Passing(c) /\ NumberPending(c, s)'
                        \/ \E t \in Passing(c) :
                             Rank(Passing(c), t) = s /\ ~NumberPending(c, t)'
      BY <2>3, <2>4 DEF NothingElse, Rank
    <3>1. s # f
      BY <2>1
    <3>2. CASE s = to
      BY <1>2, <1>3, <1>6, <2>6, <3>2
    <3>3. CASE s # to
      <4>1. runs[c][s] # 0
        BY <2>1, <2>2, <3>1, <3>3
      <4>2. \/ s \notin Passing(c) /\ MovePending(c, s)
            \/ s \in Passing(c) /\ NumberPending(c, s)
            \/ \E t \in Passing(c) : Rank(Passing(c), t) = s /\ ~NumberPending(c, t)
        BY <1>2, <1>6, <4>1 DEF CellOK, NothingElse
      <4>3. \A t \in Passing(c) : ~NumberPending(c, t) => ~NumberPending(c, t)'
        BY <2>5, <2>6
      <4> QED
        BY <2>5, <3>1, <4>2, <4>3
    <3> QED
      BY <3>2, <3>3
  <2>13. LowestFirst(c)'
    <3> SUFFICES ASSUME NEW s \in Passing(c), NEW t \in Passing(c), s < t, NumberPending(c, s)'
                 PROVE  NumberPending(c, t)'
      BY <2>3 DEF LowestFirst
    <3>1. s # f /\ NumberPending(c, s)
      BY <2>5, <2>6
    <3>2. NumberPending(c, t)
      BY <1>2, <1>6, <3>1 DEF CellOK, LowestFirst
    <3>3. ~(s < f)
      BY <1>2, <1>6, <3>1
    <3>4. t # f
      BY <3>3
    <3> QED
      BY <2>5, <3>2, <3>4
  <2> QED
    BY <2>9, <2>10, <2>11, <2>12, <2>13 DEF CellOK
<1> QED
  BY <1>5, <1>6

LEMMA RecheckStep ==
  ASSUME Types, RecheckInv, Step
  PROVE  RecheckInv'
<1>1. PICK op \in Due :
        /\ op \in script /\ script' = script \ {op}
        /\ Move(op) \/ Rename(op) \/ RemoveChosen(op) \/ Write(op) \/ WriteChosen(op)
  BY StepDoes
<1>2. UNCHANGED <<logs, bad, taken, judged, applies, kills>> /\ ScriptOK
  BY StepDoes DEF Types
<1>3. Fresh'
  <2> SUFFICES ASSUME applies = 0 PROVE Fresh'
    BY <1>2 DEF Fresh
  <2>1. op.do = "reduce"
    BY <1>1 DEF RecheckInv, Fresh
  <2>2. UNCHANGED <<runs, aside, logs>>
    BY <1>1, <1>2, <2>1 DEF Move, Rename, RemoveChosen, Write, WriteChosen
  <2> QED
    BY <1>1, <2>2 DEF RecheckInv, Fresh, Cells, At
<1>4. RecordedLast'
  <2> SUFFICES ASSUME NEW other \in script', other.do \in {"move", "renumber"}
               PROVE  \E record \in script' : record.do = "record"
    BY DEF RecordedLast, Applying
  <2>1. op.do # "record"
    BY <1>1, <1>2, DueOrder
  <2>2. PICK record \in script : record.do = "record"
    BY <1>1 DEF RecheckInv, RecordedLast, Applying
  <2> QED
    BY <1>1, <2>1, <2>2
<1>5. ASSUME Applying' PROVE ScriptIs' /\ \A c \in Cells : CellOK(c)'
  <2>1. Applying
    BY <1>1, <1>5 DEF Applying
  <2>2. ScriptIs'
    <3>1. ScriptIs
      BY <2>1 DEF RecheckInv
    <3> SUFFICES ASSUME NEW other \in script'
                 PROVE
        /\ other.do = "move" =>
             \E c \in Cells : \E s \in DOMAIN judged[c] \ Passing(c) :
               other = Op("move", c, s, s)
        /\ other.do = "renumber" =>
             \E c \in Cells : \E s \in Passing(c) :
               /\ other = Op("renumber", c, s, Rank(Passing(c), s))
               /\ Rank(Passing(c), s) < s
      BY <1>2 DEF ScriptIs, Passing, Op, Rank, Cells
    <3> QED
      BY <1>1, <3>1 DEF ScriptIs
  <2>3. ASSUME NEW c \in Cells PROVE CellOK(c)'
    <3>1. CASE Move(op)
      BY <1>1, <1>2, <2>1, <3>1, MoveKeeps
    <3>2. CASE Rename(op)
      BY <1>1, <1>2, <2>1, <3>2, RenameKeeps
    <3>3. CASE RemoveChosen(op) \/ Write(op) \/ WriteChosen(op)
      <4>1. /\ op.do \notin {"move", "renumber"} /\ UNCHANGED <<runs, aside>>
            /\ CellOK(c)
        BY <2>1, <3>3 DEF RemoveChosen, Write, WriteChosen, RecheckInv
      <4> QED
        BY <1>1, <1>2, <4>1, CellStays
    <3> QED
      BY <1>1, <3>1, <3>2, <3>3
  <2> QED
    BY <2>2, <2>3
<1> QED
  BY <1>3, <1>4, <1>5 DEF RecheckInv, Cells

LEMMA RecheckNext ==
  ASSUME MaxApplies = 1, Types, RecheckInv, [PNext]_pvars
  PROVE  RecheckInv'
<1>1. CASE Apply
  <2>1. applies = 0
    BY <1>1 DEF Apply, Types, TypeOK
  <2> QED
    BY <1>1, <2>1, FreshApply DEF RecheckInv
<1>2. CASE Choose
  <2>1. \A op \in script' : op.do = "reduce"
    BY <1>2, ChooseScript DEF Op
  <2>2. UNCHANGED <<runs, logs, aside, applies>>
    BY <1>2 DEF Choose
  <2> QED
    BY <2>1, <2>2 DEF RecheckInv, Fresh, RecordedLast, Applying, Cells, At
<1>3. CASE Step
  BY <1>3, RecheckStep
<1>4. CASE Ends
  <2>1. script' = {} /\ UNCHANGED <<runs, logs, aside, applies>>
    BY <1>4 DEF Ends
  <2> QED
    BY <2>1 DEF RecheckInv, Fresh, RecordedLast, Applying, Cells, At
<1>5. CASE \E c \in Cells, s \in At : SweepMeasures(c, s) \/ SweepFails(c, s)
  <2>1. PICK c \in Cells, s \in At : SweepMeasures(c, s) \/ SweepFails(c, s)
    BY <1>5
  <2>2. /\ script' = {} /\ UNCHANGED <<aside, applies>>
        /\ logs' = [logs EXCEPT ![c][s] = taken + 1]
        /\ runs' = [runs EXCEPT ![c][s] = taken + 1] \/ (runs' = runs /\ runs[c][s] = 0)
    BY <2>1 DEF SweepMeasures, SweepFails
  <2>3. runs \in [Cells -> [At -> Ids]] /\ logs \in [Cells -> [At -> Ids]]
    BY DEF Types, TypeOK
  <2>4. ASSUME NEW d \in Cells, NEW t \in At,
               runs[d][t] # 0 => logs[d][t] = runs[d][t], runs'[d][t] # 0
        PROVE  logs'[d][t] = runs'[d][t]
    <3>1. CASE d = c /\ t = s
      BY <2>2, <2>3, <2>4, <3>1
    <3>2. CASE d # c \/ t # s
      <4>1. runs'[d][t] = runs[d][t] /\ logs'[d][t] = logs[d][t]
        BY <2>2, <2>3, <3>2
      <4> QED
        BY <2>4, <4>1
    <3> QED
      BY <3>1, <3>2
  <2> QED
    BY <2>2, <2>4 DEF RecheckInv, Fresh, RecordedLast, Applying, Cells, At
<1>6. CASE Killed \/ UNCHANGED vars
  <2>1. UNCHANGED <<runs, logs, aside, bad, script, judged, applies>>
    BY <1>6 DEF Killed, vars
  <2>2. ASSUME NEW c \in Cells PROVE CellOK(c)' <=> CellOK(c)
    BY <2>1 DEF CellOK, JudgedOK, RefusedThere, PassingThere, NothingElse, LowestFirst,
                MovePending, NumberPending, Passing, Op, Rank
  <2>3. ScriptIs' <=> ScriptIs
    BY <2>1 DEF ScriptIs, Passing, Op, Rank, Cells
  <2>4. (Fresh' <=> Fresh) /\ (RecordedLast' <=> RecordedLast) /\ (Applying' <=> Applying)
    BY <2>1 DEF Fresh, RecordedLast, Applying, Cells, At
  <2> QED
    BY <2>2, <2>3, <2>4 DEF RecheckInv, Cells
<1> QED
  BY <1>1, <1>2, <1>3, <1>4, <1>5, <1>6, Cases DEF Next

LEMMA RecheckAlways ==
  ASSUME MaxApplies = 1
  PROVE  PSpec => [](Types /\ RecheckInv)
<1>1. PInit => Types /\ RecheckInv
  <2> SUFFICES ASSUME PInit PROVE RecheckInv
    BY TypesInit
  <2> QED
    BY DEF PInit, Init, RecheckInv, Fresh, RecordedLast, Applying
<1>2. Types /\ RecheckInv /\ [PNext]_pvars => (Types /\ RecheckInv)'
  BY TypeStep, ScriptStep, RecheckNext DEF Types
<1> QED
  BY <1>1, <1>2, PTL DEF PSpec

\* When the failure file is due the runs of every cell are those that passed,
\* in their order, for any cells, runs, checks and kills.
THEOREM RenumberedToTheEnd ==
  ASSUME MaxApplies = 1
  PROVE  PSpec => []RenumberedInOrder
<1>1. ASSUME Types, RecheckInv PROVE RenumberedInOrder
  <2> SUFFICES ASSUME NEW op \in Due, op.do = "record", NEW c \in Cells
               PROVE  /\ Count(c) = Cardinality(Passing(c))
                      /\ \A s \in Passing(c) : runs[c][Rank(Passing(c), s)] = judged[c][s]
    BY DEF RenumberedInOrder, Passing
  <2>1. op \in script /\ \A other \in script : other.do = "record"
    <3>1. op \in script
      BY DEF Due
    <3> QED
      BY <1>1, <3>1, DueOrder DEF Types
  <2>2. CellOK(c)
    BY <1>1, <2>1 DEF RecheckInv, Applying
  <2>3. \A s : ~MovePending(c, s) /\ ~NumberPending(c, s)
    BY <2>1 DEF MovePending, NumberPending, Op
  <2>4. \A s \in Passing(c) : runs[c][Rank(Passing(c), s)] = judged[c][s]
    BY <2>2, <2>3 DEF CellOK, PassingThere
  <2>5. PICK n \in Nat :
           /\ n <= Slots /\ DOMAIN judged[c] = 1..n /\ Passing(c) \subseteq 1..n
           /\ 1..n \subseteq At
           /\ n < Slots => runs[c][n + 1] = 0
    BY <2>2, PassingType DEF CellOK
  <2>6. PICK k \in Nat : k = Cardinality(Passing(c)) /\ k <= n
    <3>1. IsFiniteSet(1..n) /\ Cardinality(1..n) = n
      BY FS_Interval
    <3> QED
      BY <2>5, <3>1, Part
  <2>7. ASSUME NEW j \in 1..k PROVE runs[c][j] # 0
    <3>1. PICK s \in Passing(c) : Rank(Passing(c), s) = j
      BY <2>5, <2>6, RankOnto
    <3>2. judged[c][s] # 0
      BY <2>2, <2>5 DEF CellOK, JudgedOK
    <3> QED
      BY <2>4, <3>1, <3>2
  <2>8. k < Slots => runs[c][k + 1] = 0
    <3>1. CASE k < n
      <4> SUFFICES ASSUME runs[c][k + 1] # 0 PROVE FALSE
        OBVIOUS
      <4>1. k + 1 \in DOMAIN judged[c]
        BY <2>5, <2>6, <3>1
      <4>2. PICK t \in Passing(c) : Rank(Passing(c), t) = k + 1
        BY <2>2, <2>3, <4>1 DEF CellOK, NothingElse
      <4>3. Rank(Passing(c), t) <= k
        BY <2>5, <2>6, RankType
      <4> QED
        BY <4>2, <4>3
    <3>2. CASE k = n
      BY <2>5, <3>2
    <3> QED
      BY <2>6, <3>1, <3>2
  <2>9. k \in 0..Slots
    BY <2>5, <2>6, DirectoryAssumption DEF DirectoryAssumption
  <2>10. Count(c) = k
    BY <2>7, <2>8, <2>9, CountIs
  <2> QED
    BY <2>4, <2>6, <2>10
<1>2. Types /\ RecheckInv => RenumberedInOrder
  BY <1>1
<1> QED
  BY <1>2, RecheckAlways, PTL

\* What a step does to the measurements of a cell.
Keeps(c) ==
  /\ Held(c) \cup SetAside(c) \subseteq (Held(c) \cup SetAside(c))'
  /\ Held(c) \ bad \subseteq Held(c)'

LEMMA KeepsAll ==
  ASSUME Types, RecheckInv, [PNext]_pvars, NEW c \in Cells
  PROVE  Keeps(c)
<1>0. /\ runs \in [Cells -> [At -> Ids]] /\ aside \in [Cells -> [At -> Ids]]
      /\ At \subseteq Nat
  BY DEF Types, TypeOK, At
<1>1. CASE UNCHANGED <<runs, aside>>
  BY <1>1 DEF Keeps, Held, SetAside, At
<1>2. CASE Step
  <2>1. PICK op \in Due :
          /\ op \in script /\ script' = script \ {op}
          /\ Move(op) \/ Rename(op) \/ RemoveChosen(op) \/ Write(op) \/ WriteChosen(op)
    BY <1>2, StepDoes
  <2>2. CASE Move(op)
    <3>0. op.do = "move" /\ Applying
      BY <2>1, <2>2 DEF Move, RecheckInv, RecordedLast
    <3>1. PICK d \in Cells : \E f \in DOMAIN judged[d] \ Passing(d) :
             /\ op = Op("move", d, f, f) /\ f \in At /\ MovePending(d, f) /\ CellOK(d)
             /\ runs[d][f] = judged[d][f] /\ runs[d][f] \in bad /\ aside[d][f] = 0
      BY <2>1, <3>0, MoveFinds
    <3>2. PICK f \in At :
             op = Op("move", d, f, f) /\ runs[d][f] \in bad /\ aside[d][f] = 0
      BY <3>1
    <3>3. runs' = [runs EXCEPT ![d][f] = 0] /\ aside' = [aside EXCEPT ![d][f] = runs[d][f]]
      BY <2>2, <3>2 DEF Op, Move
    <3>4. CASE c # d
      <4>1. runs'[c] = runs[c] /\ aside'[c] = aside[c]
        BY <1>0, <3>3, <3>4
      <4> QED
        BY <4>1 DEF Keeps, Held, SetAside, At
    <3>5. CASE c = d
      <4>1. /\ runs'[c][f] = 0 /\ aside'[c][f] = runs[c][f]
            /\ \A s \in At \ {f} : runs'[c][s] = runs[c][s] /\ aside'[c][s] = aside[c][s]
        BY <1>0, <3>3, <3>5
      <4>2. Held(c)' = {runs'[c][s] : s \in At} \ {0}
            /\ SetAside(c)' = {aside'[c][s] : s \in At} \ {0}
        BY DEF Held, SetAside, At
      <4>3. ASSUME NEW s \in At, runs[c][s] # 0
            PROVE  /\ runs[c][s] \in (Held(c) \cup SetAside(c))'
                   /\ runs[c][s] \notin bad => runs[c][s] \in Held(c)'
        BY <3>2, <3>5, <4>1, <4>2, <4>3
      <4>4. ASSUME NEW s \in At, aside[c][s] # 0
            PROVE  aside[c][s] \in (Held(c) \cup SetAside(c))'
        BY <3>2, <3>5, <4>1, <4>2, <4>4
      <4> QED
        BY <4>3, <4>4 DEF Keeps, Held, SetAside
    <3> QED
      BY <3>4, <3>5
  <2>3. CASE Rename(op)
    <3>0. op.do = "renumber" /\ Applying
      BY <2>1, <2>3 DEF Rename, RecheckInv, RecordedLast
    <3>1. PICK d \in Cells : \E f \in Passing(d) :
             /\ op = Op("renumber", d, f, Rank(Passing(d), f)) /\ Rank(Passing(d), f) < f
             /\ f \in At /\ Rank(Passing(d), f) \in At
             /\ NumberPending(d, f) /\ CellOK(d)
             /\ \A s \in DOMAIN judged[d] : ~MovePending(d, s)
             /\ \A s \in Passing(d) : s < f => ~NumberPending(d, s)
             /\ runs[d][f] = judged[d][f] /\ runs[d][Rank(Passing(d), f)] = 0
      BY <2>1, <3>0, RenameFinds
    <3>2. PICK f \in At, to \in At :
             op = Op("renumber", d, f, to) /\ to < f /\ runs[d][to] = 0
      BY <3>1
    <3>3. runs' = [runs EXCEPT ![d][to] = runs[d][f], ![d][f] = 0] /\ aside' = aside
      BY <2>3, <3>2 DEF Op, Rename
    <3>4. CASE c # d
      <4>1. runs'[c] = runs[c] /\ aside'[c] = aside[c]
        BY <1>0, <3>3, <3>4
      <4> QED
        BY <4>1 DEF Keeps, Held, SetAside, At
    <3>5. CASE c = d
      <4>1. /\ runs'[c][to] = runs[c][f]
            /\ \A s \in At \ {f, to} : runs'[c][s] = runs[c][s]
        BY <1>0, <3>2, <3>3, <3>5
      <4>2. Held(c)' = {runs'[c][s] : s \in At} \ {0} /\ SetAside(c)' = SetAside(c)
        BY <3>3 DEF Held, SetAside, At
      <4>3. ASSUME NEW s \in At, runs[c][s] # 0 PROVE runs[c][s] \in Held(c)'
        BY <3>2, <3>5, <4>1, <4>2, <4>3
      <4> QED
        BY <4>2, <4>3 DEF Keeps, Held
    <3> QED
      BY <3>4, <3>5
  <2>4. CASE RemoveChosen(op) \/ Write(op) \/ WriteChosen(op)
    BY <1>1, <2>4 DEF RemoveChosen, Write, WriteChosen
  <2> QED
    BY <2>1, <2>2, <2>3, <2>4
<1>3. CASE \E d \in Cells, t \in At : SweepMeasures(d, t) \/ SweepFails(d, t)
  <2>1. PICK d \in Cells, t \in At : SweepMeasures(d, t) \/ SweepFails(d, t)
    BY <1>3
  <2>2. CASE SweepFails(d, t)
    BY <1>1, <2>2 DEF SweepFails
  <2>3. CASE SweepMeasures(d, t)
    <3>1. runs' = [runs EXCEPT ![d][t] = taken + 1] /\ runs[d][t] = 0 /\ aside' = aside
      BY <2>3 DEF SweepMeasures
    <3>2. ASSUME NEW s \in At, runs[c][s] # 0 PROVE runs'[c][s] = runs[c][s]
      BY <1>0, <3>1, <3>2
    <3>3. Held(c)' = {runs'[c][s] : s \in At} \ {0} /\ SetAside(c)' = SetAside(c)
      BY <3>1 DEF Held, SetAside, At
    <3>4. Held(c) \subseteq Held(c)'
      BY <3>2, <3>3 DEF Held
    <3> QED
      BY <3>3, <3>4 DEF Keeps
  <2> QED
    BY <2>1, <2>2, <2>3
<1>4. CASE Apply \/ Choose \/ Ends \/ Killed \/ UNCHANGED vars
  BY <1>1, <1>4 DEF Apply, Choose, Ends, Killed, vars
<1> QED
  BY <1>2, <1>3, <1>4, Cases DEF Next

\* No step of any command loses a measurement, and a kill anywhere is a step.
THEOREM NothingLost ==
  ASSUME MaxApplies = 1
  PROVE  PSpec => EvidenceKept
<1>1. Types /\ RecheckInv /\ [PNext]_pvars =>
        [\A c \in Cells :
           /\ Held(c) \cup SetAside(c) \subseteq (Held(c) \cup SetAside(c))'
           /\ Held(c) \ bad \subseteq Held(c)']_vars
  BY KeepsAll DEF Keeps
<1> QED
  BY <1>1, RecheckAlways, PTL DEF PSpec, EvidenceKept

-----------------------------------------------------------------------------
(***************************************************************************)
(* ChartsHaveEvidence: what an aggregate, output.json or an archived       *)
(* output.json was reduced from is in the directory still, and an archive  *)
(* that is finished has everything that is in it.                          *)
(***************************************************************************)
InDirectory(c) == Held(c) \cup SetAside(c)

\* What each entry of an output.json came from is in the directory.
Traceable(entries) == \A c \in DOMAIN entries \ {"torn"} :
                        c \in Cells /\ entries[c] \subseteq InDirectory(c)

ChartsInv ==
  /\ \A c \in Cells : chosen[c] \subseteq InDirectory(c)
  /\ Traceable(output)
  /\ Output \in DOMAIN archive.members => Traceable(archive.members[Output])

LEMMA TraceableStays ==
  ASSUME Types, RecheckInv, [PNext]_pvars, NEW entries, Traceable(entries)
  PROVE  \A c \in DOMAIN entries \ {"torn"} :
           c \in Cells /\ entries[c] \subseteq InDirectory(c)'
<1>1. \A c \in Cells : InDirectory(c) \subseteq InDirectory(c)'
  BY KeepsAll DEF Keeps, InDirectory
<1> QED
  BY <1>1 DEF Traceable

LEMMA ChosenNext ==
  ASSUME Types, RecheckInv, ChartsInv, [PNext]_pvars, NEW c \in Cells
  PROVE  chosen'[c] \subseteq InDirectory(c)'
<1>1. InDirectory(c) \subseteq InDirectory(c)' /\ chosen[c] \subseteq InDirectory(c)
  BY KeepsAll DEF Keeps, InDirectory, ChartsInv
<1>2. CASE chosen' = chosen
  BY <1>1, <1>2
<1>3. CASE Step
  <2>1. PICK op \in script :
          Move(op) \/ Rename(op) \/ RemoveChosen(op) \/ Write(op) \/ WriteChosen(op)
    BY <1>3, StepDoes
  <2>2. chosen \in [Cells -> SUBSET Ids]
    BY DEF Types, TypeOK
  <2>3. CASE RemoveChosen(op)
    <3>1. chosen'[c] \subseteq chosen[c]
      BY <2>2, <2>3 DEF RemoveChosen
    <3> QED
      BY <1>1, <3>1
  <2>4. CASE WriteChosen(op)
    <3>1. {runs[c][s] : s \in 1..Count(c)} \subseteq Held(c)
      BY Counts, KeptType DEF Held
    <3>2. chosen'[c] = chosen[c] \/ chosen'[c] = {runs[c][s] : s \in 1..Count(c)}
      BY <2>2, <2>4 DEF WriteChosen
    <3> QED
      BY <1>1, <3>1, <3>2 DEF InDirectory
  <2> QED
    BY <1>2, <2>1, <2>3, <2>4 DEF Move, Rename, Write
<1>4. CASE Killed \/ UNCHANGED vars
  BY <1>2, <1>4 DEF Killed, vars
<1> QED
  BY <1>2, <1>3, <1>4, Cases DEF Next, Apply, Choose, Ends, SweepMeasures, SweepFails

LEMMA ChartsNext ==
  ASSUME Types, UnfinishedInv, RecheckInv, ChartsInv, [PNext]_pvars
  PROVE  ChartsInv'
<1>1. \A c \in Cells : chosen'[c] \subseteq InDirectory(c)'
  BY ChosenNext
<1>2. Traceable(output)'
  <2>1. CASE output' = output
    <3>1. \A c \in DOMAIN output \ {"torn"} :
            c \in Cells /\ output[c] \subseteq InDirectory(c)'
      BY TraceableStays DEF ChartsInv
    <3> QED
      BY <2>1, <3>1 DEF Traceable, Cells
  <2>2. CASE Combine
    <3>1. /\ output' = [c \in {d \in Cells : chosen[d] # {}} |-> chosen[c]]
          /\ chosen' = chosen
      BY <2>2 DEF Combine, vars
    <3> QED
      BY <1>1, <3>1 DEF Traceable, Cells
  <2>3. CASE CombineDies
    BY <2>3 DEF CombineDies, Torn, Traceable
  <2> QED
    BY <2>1, <2>2, <2>3 DEF PNext, Others, ListsRuns, ListsRefused, Reads, Finishes, Fails,
                            PackDies, publishing, pvars
<1>3. ASSUME Output \in DOMAIN archive'.members PROVE Traceable(archive.members[Output])'
  <2>1. CASE archive'.members = archive.members
    <3> DEFINE packed == archive.members[Output]
    <3>1. Traceable(packed) /\ archive'.members[Output] = packed
      BY <1>3, <2>1 DEF ChartsInv
    <3> HIDE DEF packed
    <3>2. \A c \in DOMAIN packed \ {"torn"} :
            c \in Cells /\ packed[c] \subseteq InDirectory(c)'
      BY <3>1, TraceableStays
    <3> QED
      BY <3>1, <3>2 DEF Traceable, Cells
  <2>2. CASE Reads
    <3>1. PICK n \in Foremost : archive'.members = With(archive.members, n, Content(n))
      BY <2>2, ReadDoes
    <3>2. Content(Output) = output /\ output' = output
      BY <2>2 DEF Content, Output, Reads
    <3>3. CASE n = Output
      <4>1. archive'.members[Output] = output
        BY <3>1, <3>2, <3>3 DEF With
      <4> QED
        BY <1>2, <3>2, <4>1 DEF Traceable, Cells
    <3>4. CASE n # Output
      <4> DEFINE packed == archive.members[Output]
      <4>1. Output \in DOMAIN archive.members /\ archive'.members[Output] = packed
        BY <1>3, <3>1, <3>4 DEF With
      <4>2. Traceable(packed)
        BY <4>1 DEF ChartsInv
      <4> HIDE DEF packed
      <4>3. \A c \in DOMAIN packed \ {"torn"} :
              c \in Cells /\ packed[c] \subseteq InDirectory(c)'
        BY <4>2, TraceableStays
      <4> QED
        BY <4>1, <4>3 DEF Traceable, Cells
    <3> QED
      BY <3>3, <3>4
  <2>3. CASE ListsRefused
    BY <1>3, <2>3 DEF ListsRefused, Empty
  <2>4. CASE Finishes
    <3>1. archive'.members = archive.members
      BY <2>4 DEF Finishes
    <3> QED
      BY <2>1, <3>1
  <2> QED
    BY <2>1, <2>2, <2>3, <2>4 DEF PNext, Others, Combine, CombineDies, ListsRuns, Fails,
                                  PackDies, publishing, pvars
<1> QED
  BY <1>1, <1>2, <1>3 DEF ChartsInv, Cells, Output

\* The charts of a finished archive can be traced to runs that are in it, refused
\* or not, for any cells and runs, whatever was killed on the way.
THEOREM ChartsTraced ==
  ASSUME InNumberOrder, MaxApplies = 1
  PROVE  PSpec => ChartsHaveEvidence
<1>1. PInit => UnfinishedInv /\ PackInv /\ ChartsInv
  <2>1. PInit => taken \in Nat
    BY TypesInit, DirectoryAssumption DEF Types, TypeOK, Ids, DirectoryAssumption
  <2>2. PInit => UnfinishedInv /\ PackInv
    BY <2>1 DEF PInit, UnfinishedInv, ArchiveFields, PackInv, ReadInOrder, Sourced, Covered
  <2>3. PInit => ChartsInv
    BY DEF PInit, Init, ChartsInv, Traceable, Empty
  <2> QED
    BY <2>2, <2>3
<1>2. Types /\ RecheckInv /\ UnfinishedInv /\ PackInv /\ ChartsInv /\ [PNext]_pvars
        => (UnfinishedInv /\ PackInv /\ ChartsInv)'
  BY UnfinishedNext, PackNext, ChartsNext
<1>3. ASSUME PackInv, ChartsInv, Finishes, taken = began, Output \in DOMAIN archive.members,
             NEW c \in DOMAIN archive.members[Output] \ {"torn"}
      PROVE  archive.members[Output][c] \subseteq Evidence'
  <2>1. c \in Cells /\ archive.members[Output][c] \subseteq InDirectory(c)
    BY <1>3 DEF ChartsInv, Traceable
  <2>2. InDirectory(c) \subseteq Evidence'
    BY <1>3, <2>1, FinishedHas DEF InDirectory
  <2> QED
    BY <2>1, <2>2
<1>4. PackInv /\ ChartsInv /\ [PNext]_pvars =>
        [Finishes /\ taken = began /\ Output \in DOMAIN archive.members
           => LET packed == archive.members[Output]
              IN  \A c \in DOMAIN packed \ {"torn"} : packed[c] \subseteq Evidence']_pvars
  BY <1>3
<1> QED
  BY <1>1, <1>2, <1>4, RecheckAlways, PTL DEF PSpec, ChartsHaveEvidence
=============================================================================
