----------------------------- MODULE FiguresProofs ----------------------------
(***************************************************************************)
(* Sums over finite sets, what the spread report makes of them, what the   *)
(* four files of a reduced cell say, and what a picture shows, for every   *)
(* directory, cell and output.json.                                        *)
(*                                                                         *)
(* A sum is defined by taking one summand out after another.  Nothing can  *)
(* be proved here by induction over that definition; instead, the function *)
(* that holds the sums of all subsets is shown to exist, and what is said  *)
(* of it has no smallest subset as a counterexample.                       *)
(*                                                                         *)
(* A rank is counted on the order a sort returns: before a place stand the *)
(* smaller, after it the greater, and nothing else.  The invariant says    *)
(* that the files are the calls', in their order, and that upstream's      *)
(* count is what so many calls have made of the runs of the cell.          *)
(*                                                                         *)
(* A picture's bars stand where their engine and their thread count have   *)
(* their places, one each, and are as high as the axis says, which rises.  *)
(***************************************************************************)
EXTENDS Statistics, Spread, Pictures, FiniteSetTheorems, TLAPS

\* The member that is taken out next.
Some(s) == CHOOSE x \in s : TRUE

\* g adds up f over each of some sets.
Adds(f, g, sets) ==
  g = [s \in sets |-> IF s = {} THEN 0 ELSE f[Some(s)] + g[s \ {Some(s)}]]

\* A set of naturals has a least member.
LEMMA LeastOf ==
  ASSUME NEW T, T \subseteq Nat, T # {}
  PROVE  \E n \in T : \A m \in T : n <= m
<1> DEFINE Under == {ss \in Nat \X Nat : ss[1] < ss[2]}
<1>1. IsWellFoundedOn(Under, Nat)
  BY NatLessThanWellFounded DEF OpToRel
<1>2. PICK n \in T : \A m \in T : ~ (<<m, n>> \in Under)
  <2> HIDE DEF Under
  <2> QED BY <1>1, WFMin
<1>3. \A m \in T : ~ (m < n)
  BY <1>2
<1> QED
  BY <1>3

\* What is picked of a finite set leaves a smaller one.
LEMMA PickLeaves ==
  ASSUME NEW s, IsFiniteSet(s), s # {}
  PROVE  /\ Some(s) \in s /\ IsFiniteSet(s \ {Some(s)})
         /\ Cardinality(s) \in Nat /\ Cardinality(s \ {Some(s)}) \in Nat
         /\ Cardinality(s \ {Some(s)}) = Cardinality(s) - 1
<1>1. Some(s) \in s
  BY DEF Some
<1> QED
  BY <1>1, FS_RemoveElement, FS_CardinalityType

\* There is such a function for all subsets of a finite set.
LEMMA AddsExists ==
  ASSUME NEW f, NEW D, IsFiniteSet(D)
  PROVE  \E g : Adds(f, g, SUBSET D)
<1> DEFINE Small(n) == {s \in SUBSET D : Cardinality(s) <= n}
           Bad == {n \in Nat : ~ \E g : Adds(f, g, Small(n))}
<1>f. \A s \in SUBSET D : IsFiniteSet(s) /\ Cardinality(s) \in Nat
  BY FS_Subset, FS_CardinalityType
<1>1. ASSUME Bad # {} PROVE FALSE
  <2>1. PICK n \in Bad : \A m \in Bad : n <= m
    <3> HIDE DEF Small
    <3> QED BY <1>1, LeastOf
  <2>2. CASE n = 0
    <3>1. Small(0) = {{}}
      BY <1>f, FS_EmptySet
    <3>2. Adds(f, [s \in Small(0) |-> 0], Small(0))
      BY <3>1 DEF Adds
    <3> QED
      BY <2>1, <2>2, <3>2
  <2>3. CASE n # 0
    <3>1. n - 1 \in Nat /\ n - 1 \notin Bad
      <4> HIDE DEF Small
      <4> QED BY <2>1, <2>3
    <3>2. PICK g : Adds(f, g, Small(n - 1))
      BY <3>1
    <3> DEFINE h == [s \in Small(n) |-> IF s \in Small(n - 1) THEN g[s]
                                        ELSE IF s = {} THEN 0 ELSE f[Some(s)] + g[s \ {Some(s)}]]
    <3>3. ASSUME NEW s \in Small(n), s # {}
          PROVE  s \ {Some(s)} \in Small(n - 1) /\ s \ {Some(s)} \in Small(n)
      <4>1. Cardinality(s \ {Some(s)}) = Cardinality(s) - 1 /\ Cardinality(s) \in Nat
        BY <3>3, <1>f, PickLeaves
      <4> QED
        BY <4>1, <3>3, <2>1
    <3>4. ASSUME NEW s \in Small(n)
          PROVE  h[s] = IF s = {} THEN 0 ELSE f[Some(s)] + h[s \ {Some(s)}]
      <4> HIDE DEF Small
      <4>1. s \in Small(n - 1) => g[s] = IF s = {} THEN 0 ELSE f[Some(s)] + g[s \ {Some(s)}]
        BY <3>2 DEF Adds
      <4>2. h[s] = IF s = {} THEN 0 ELSE f[Some(s)] + g[s \ {Some(s)}]
        BY <4>1
      <4>3. CASE s = {}
        BY <4>2, <4>3
      <4>4. CASE s # {}
        <5>1. h[s \ {Some(s)}] = g[s \ {Some(s)}]
          BY <3>3, <4>4
        <5> QED
          BY <4>2, <4>4, <5>1
      <4> QED
        BY <4>3, <4>4
    <3>5. h = [s \in Small(n) |-> h[s]]
      OBVIOUS
    <3>6. Adds(f, h, Small(n))
      <4> HIDE DEF Small, h
      <4> QED BY <3>4, <3>5 DEF Adds
    <3> QED
      BY <3>6, <2>1
  <2> QED
    BY <2>2, <2>3
<1>2. Cardinality(D) \in Nat /\ Small(Cardinality(D)) = SUBSET D
  BY FS_CardinalityType, FS_Subset
<1>3. \E g : Adds(f, g, Small(Cardinality(D)))
  <2> HIDE DEF Small
  <2> QED BY <1>1, <1>2
<1> QED
  BY <1>2, <1>3

\* A sum is what such a function makes of the whole set.
LEMMA SumAdds ==
  ASSUME NEW f, IsFiniteSet(DOMAIN f)
  PROVE  \E g : Adds(f, g, SUBSET DOMAIN f) /\ SumFunction(f) = g[DOMAIN f]
<1> DEFINE it == CHOOSE g : Adds(f, g, SUBSET DOMAIN f)
<1>1. Adds(f, it, SUBSET DOMAIN f)
  BY AddsExists
<1>2. SumFunction(f) = it[DOMAIN f]
  BY DEF SumFunction, SumFunctionOnSet, FoldFunctionOnSet, MapThenFoldSet, Adds, Some
<1> QED
  BY <1>1, <1>2

\* A set of subsets of a finite set has a smallest member.
LEMMA SmallestOf ==
  ASSUME NEW D, IsFiniteSet(D), NEW T, T \subseteq SUBSET D, T # {}
  PROVE  \E s \in T : IsFiniteSet(s) /\ (s # {} => s \ {Some(s)} \notin T)
<1> DEFINE Sizes == {n \in Nat : \E s \in T : Cardinality(s) = n}
<1>1. \A s \in T : IsFiniteSet(s) /\ Cardinality(s) \in Nat
  BY FS_Subset, FS_CardinalityType
<1>2. PICK n \in Sizes : \A m \in Sizes : n <= m
  <2>1. Sizes # {} /\ Sizes \subseteq Nat
    BY <1>1
  <2> QED
    BY <2>1, LeastOf
<1>3. PICK s \in T : Cardinality(s) = n
  BY <1>2
<1>4. ASSUME s # {} PROVE s \ {Some(s)} \notin T
  <2>1. Cardinality(s \ {Some(s)}) \in Nat /\ Cardinality(s \ {Some(s)}) = n - 1
    BY <1>1, <1>3, <1>4, PickLeaves
  <2> QED
    BY <1>2, <2>1
<1> QED
  BY <1>1, <1>3, <1>4

\* A sum of naturals is one.
LEMMA AddsNat ==
  ASSUME NEW f, NEW D, IsFiniteSet(D), \A x \in D : f[x] \in Nat,
         NEW g, Adds(f, g, SUBSET D)
  PROVE  \A s \in SUBSET D : g[s] \in Nat
<1> DEFINE Bad == {s \in SUBSET D : g[s] \notin Nat}
<1>1. ASSUME Bad # {} PROVE FALSE
  <2>1. PICK s \in Bad : s # {} => s \ {Some(s)} \notin Bad
    BY <1>1, SmallestOf
  <2>2. g[s] = IF s = {} THEN 0 ELSE f[Some(s)] + g[s \ {Some(s)}]
    BY DEF Adds
  <2>3. s # {} => Some(s) \in s
    BY DEF Some
  <2> QED
    BY <2>1, <2>2, <2>3
<1> QED
  BY <1>1

LEMMA SumNat ==
  ASSUME NEW f, IsFiniteSet(DOMAIN f), \A x \in DOMAIN f : f[x] \in Nat
  PROVE  SumFunction(f) \in Nat
<1>1. PICK g : Adds(f, g, SUBSET DOMAIN f) /\ SumFunction(f) = g[DOMAIN f]
  BY SumAdds
<1>2. \A s \in SUBSET DOMAIN f : g[s] \in Nat
  BY <1>1, AddsNat
<1> QED
  BY <1>1, <1>2

\* What has been added up of some of the summands does not depend on the rest.
LEMMA AddsAgree ==
  ASSUME NEW f, NEW g, NEW D, NEW e, NEW h, NEW E, IsFiniteSet(D), E \in SUBSET D,
         Adds(f, g, SUBSET D), Adds(e, h, SUBSET E), \A x \in E : e[x] = f[x]
  PROVE  h[E] = g[E]
<1> DEFINE Bad == {s \in SUBSET E : h[s] # g[s]}
<1>1. IsFiniteSet(E)
  BY FS_Subset
<1>2. ASSUME Bad # {} PROVE FALSE
  <2>1. PICK s \in Bad : s # {} => s \ {Some(s)} \notin Bad
    BY <1>1, <1>2, SmallestOf
  <2>2. /\ h[s] = IF s = {} THEN 0 ELSE e[Some(s)] + h[s \ {Some(s)}]
        /\ g[s] = IF s = {} THEN 0 ELSE f[Some(s)] + g[s \ {Some(s)}]
    BY DEF Adds
  <2>3. s # {} => Some(s) \in s
    BY DEF Some
  <2> QED
    BY <2>1, <2>2, <2>3
<1> QED
  BY <1>2

\* It does not matter which summand is taken first.
LEMMA AddsAny ==
  ASSUME NEW f, NEW D, IsFiniteSet(D), \A x \in D : f[x] \in Nat,
         NEW g, Adds(f, g, SUBSET D)
  PROVE  \A s \in SUBSET D : \A y \in s : g[s] = f[y] + g[s \ {y}]
<1> DEFINE Bad == {s \in SUBSET D : \E y \in s : g[s] # f[y] + g[s \ {y}]}
<1>1. \A s \in SUBSET D : g[s] \in Nat
  BY AddsNat
<1>2. ASSUME NEW S \in SUBSET Bad, S = Bad, Bad # {} PROVE FALSE
  <2> DEFINE Sizes == {n \in Nat : \E s \in Bad : Cardinality(s) = n}
  <2>f. \A s \in SUBSET D : IsFiniteSet(s) /\ Cardinality(s) \in Nat
    BY FS_Subset, FS_CardinalityType
  <2>1. PICK n \in Sizes : \A m \in Sizes : n <= m
    <3>1. Sizes # {} /\ Sizes \subseteq Nat
      BY <1>2, <2>f
    <3> QED
      BY <3>1, LeastOf
  <2>2. PICK s \in Bad : Cardinality(s) = n
    BY <2>1
  <2>3. \A z \in s : s \ {z} \in SUBSET D /\ s \ {z} \notin Bad
    <3> SUFFICES ASSUME NEW z \in s PROVE s \ {z} \in SUBSET D /\ s \ {z} \notin Bad
      OBVIOUS
    <3>1. s \ {z} \in SUBSET D /\ IsFiniteSet(s)
      BY <2>f
    <3>2. Cardinality(s \ {z}) = Cardinality(s) - 1 /\ Cardinality(s \ {z}) \in Nat
      BY <2>f, <3>1, FS_RemoveElement
    <3>3. s \ {z} \in Bad => Cardinality(s \ {z}) \in Sizes
      <4> HIDE DEF Bad
      <4> QED BY <3>2
    <3>4. Cardinality(s \ {z}) \notin Sizes
      <4> HIDE DEF Sizes
      <4>1. n \in Nat
        BY <2>1 DEF Sizes
      <4> QED BY <2>1, <2>2, <3>2, <4>1
    <3> QED
      BY <3>1, <3>3, <3>4
  <2>4. PICK y \in s : g[s] # f[y] + g[s \ {y}]
    BY <2>2
  <2> DEFINE x == Some(s)
             r == s \ {x, y}
  <2>5. x \in s /\ g[s] = f[x] + g[s \ {x}]
    BY <2>2, <2>4 DEF Adds, Some
  <2> HIDE DEF x
  <2>6. x # y
    BY <2>4, <2>5
  <2>7. /\ s \ {x} \in SUBSET D /\ s \ {x} \notin Bad /\ y \in s \ {x}
        /\ s \ {y} \in SUBSET D /\ s \ {y} \notin Bad /\ x \in s \ {y}
    BY <2>3, <2>4, <2>5, <2>6
  <2>8. g[s \ {x}] = f[y] + g[(s \ {x}) \ {y}] /\ g[s \ {y}] = f[x] + g[(s \ {y}) \ {x}]
    BY <2>7
  <2>9. (s \ {x}) \ {y} = r /\ (s \ {y}) \ {x} = r /\ r \in SUBSET D
    BY <2>2
  <2> HIDE DEF r
  <2>10. f[x] \in Nat /\ f[y] \in Nat /\ g[r] \in Nat
    BY <1>1, <2>2, <2>4, <2>5, <2>9
  <2>11. g[s \ {x}] = f[y] + g[r] /\ g[s \ {y}] = f[x] + g[r]
    BY <2>8, <2>9
  <2>12. f[x] + (f[y] + g[r]) = f[y] + (f[x] + g[r])
    BY <2>10
  <2> QED
    BY <2>4, <2>5, <2>11, <2>12
<1> QED
  BY <1>2

\* A summand on its own, and the sum of the others.
LEMMA SumWithout ==
  ASSUME NEW f, IsFiniteSet(DOMAIN f), \A x \in DOMAIN f : f[x] \in Nat, NEW y \in DOMAIN f,
         NEW e, DOMAIN e = DOMAIN f \ {y}, \A x \in DOMAIN e : e[x] = f[x]
  PROVE  SumFunction(f) = f[y] + SumFunction(e)
<1> DEFINE D == DOMAIN f
           E == DOMAIN e
<1>1. PICK g : Adds(f, g, SUBSET D) /\ SumFunction(f) = g[D]
  BY SumAdds
<1>2. IsFiniteSet(E) /\ E \subseteq D
  BY FS_RemoveElement
<1>3. PICK h : Adds(e, h, SUBSET E) /\ SumFunction(e) = h[E]
  BY <1>2, SumAdds
<1>4. h[E] = g[E]
  <2>1. \A x \in E : e[x] = f[x]
    OBVIOUS
  <2>2. E \in SUBSET D /\ IsFiniteSet(D) /\ Adds(f, g, SUBSET D) /\ Adds(e, h, SUBSET E)
    BY <1>1, <1>2, <1>3
  <2> HIDE DEF D, E
  <2>3. \A ff, gg, DD, ee, hh, EE :
          IsFiniteSet(DD) /\ EE \in SUBSET DD /\ Adds(ff, gg, SUBSET DD) /\ Adds(ee, hh, SUBSET EE)
          /\ (\A x \in EE : ee[x] = ff[x]) => hh[EE] = gg[EE]
    BY AddsAgree
  <2> QED
    BY <2>1, <2>2, <2>3
<1>5. g[D] = f[y] + g[D \ {y}]
  BY <1>1, AddsAny
<1> QED
  BY <1>1, <1>3, <1>4, <1>5

LEMMA SumOfNone ==
  ASSUME NEW f, DOMAIN f = {}
  PROVE  SumFunction(f) = 0
<1>1. PICK g : Adds(f, g, SUBSET DOMAIN f) /\ SumFunction(f) = g[DOMAIN f]
  BY FS_EmptySet, SumAdds
<1> QED
  BY <1>1 DEF Adds

\* The squares of naturals add up to no more than the square of their sum.
LEMMA SquaresBelow ==
  ASSUME NEW f, IsFiniteSet(DOMAIN f), \A x \in DOMAIN f : f[x] \in Nat
  PROVE  LET q == SumFunction([x \in DOMAIN f |-> f[x] * f[x]])
         IN  q \in Nat /\ q <= SumFunction(f) * SumFunction(f)
<1> DEFINE D == DOMAIN f
           sq == [x \in D |-> f[x] * f[x]]
<1>1. PICK g : Adds(f, g, SUBSET D) /\ SumFunction(f) = g[D]
  BY SumAdds
<1>2. DOMAIN sq = D /\ \A x \in D : sq[x] = f[x] * f[x] /\ sq[x] \in Nat
  OBVIOUS
<1>3. PICK h : Adds(sq, h, SUBSET D) /\ SumFunction(sq) = h[D]
  <2> HIDE DEF sq
  <2> QED BY <1>2, SumAdds
<1>4. \A s \in SUBSET D : g[s] \in Nat /\ h[s] \in Nat
  <2> HIDE DEF sq
  <2> QED BY <1>1, <1>2, <1>3, AddsNat
<1> DEFINE Bad == {s \in SUBSET D : ~ (h[s] <= g[s] * g[s])}
<1>5. ASSUME Bad # {} PROVE FALSE
  <2>1. PICK s \in Bad : s # {} => s \ {Some(s)} \notin Bad
    BY <1>5, SmallestOf
  <2>2. /\ g[s] = IF s = {} THEN 0 ELSE f[Some(s)] + g[s \ {Some(s)}]
        /\ h[s] = IF s = {} THEN 0 ELSE sq[Some(s)] + h[s \ {Some(s)}]
    <3> HIDE DEF sq
    <3> QED BY <1>1, <1>3 DEF Adds
  <2>3. s # {}
    BY <2>1, <2>2
  <2>4. Some(s) \in s
    BY <2>3 DEF Some
  <2>5. \A a, b, c \in Nat : c <= b * b => a * a + c <= (a + b) * (a + b)
    <3>1. \A a, b \in Nat : (a + b) * (a + b) = a * a + b * b + 2 * (a * b) /\ a * b \in Nat
      OBVIOUS
    <3> QED
      BY <3>1
  <2>6. sq[Some(s)] = f[Some(s)] * f[Some(s)] /\ f[Some(s)] \in Nat
    BY <1>2, <2>4
  <2>7. h[s \ {Some(s)}] <= g[s \ {Some(s)}] * g[s \ {Some(s)}]
    BY <2>1, <2>3
  <2>8. g[s \ {Some(s)}] \in Nat /\ h[s \ {Some(s)}] \in Nat
    BY <1>4
  <2> HIDE DEF sq
  <2>9. h[s] <= g[s] * g[s]
    BY <2>2, <2>3, <2>5, <2>6, <2>7, <2>8
  <2> QED
    BY <2>1, <2>9
<1>6. h[D] <= g[D] * g[D] /\ h[D] \in Nat
  BY <1>4, <1>5
<1> QED
  BY <1>1, <1>3, <1>6

\* A sum is between as many times the least and as many times the greatest.
LEMMA SumWithin ==
  ASSUME NEW f, IsFiniteSet(DOMAIN f), NEW low \in Nat, NEW high \in Nat,
         \A x \in DOMAIN f : f[x] \in low..high
  PROVE  /\ low * Cardinality(DOMAIN f) <= SumFunction(f)
         /\ SumFunction(f) <= high * Cardinality(DOMAIN f)
<1> DEFINE D == DOMAIN f
<1>1. PICK g : Adds(f, g, SUBSET D) /\ SumFunction(f) = g[D]
  BY SumAdds
<1>2. \A x \in D : f[x] \in Nat
  OBVIOUS
<1>3. \A s \in SUBSET D : g[s] \in Nat
  BY <1>1, <1>2, AddsNat
<1> DEFINE Within(s) == low * Cardinality(s) <= g[s] /\ g[s] <= high * Cardinality(s)
           Bad == {s \in SUBSET D : ~ Within(s)}
<1>4. ASSUME Bad # {} PROVE FALSE
  <2>1. PICK s \in Bad : IsFiniteSet(s) /\ (s # {} => s \ {Some(s)} \notin Bad)
    <3>1. Bad \subseteq SUBSET D
      OBVIOUS
    <3> HIDE DEF Bad
    <3> QED BY <1>4, <3>1, SmallestOf
  <2>2. s \in SUBSET D /\ ~ Within(s)
    BY <2>1
  <2>3. g[s] = IF s = {} THEN 0 ELSE f[Some(s)] + g[s \ {Some(s)}]
    BY <1>1, <2>2 DEF Adds
  <2>4. CASE s = {}
    <3>1. Cardinality(s) = 0
      BY <2>4, FS_EmptySet
    <3> QED
      BY <2>2, <2>3, <2>4, <3>1
  <2>5. CASE s # {}
    <3> DEFINE x == Some(s)
               r == s \ {x}
    <3>1. /\ x \in s /\ Cardinality(s) \in Nat /\ Cardinality(r) \in Nat
          /\ Cardinality(r) = Cardinality(s) - 1
      BY <2>1, <2>5, PickLeaves
    <3>2. r \in SUBSET D /\ r \notin Bad
      BY <2>1, <2>2, <2>5
    <3>3. Within(r)
      BY <3>2
    <3>4. f[x] \in low..high /\ g[r] \in Nat
      BY <1>3, <2>2, <3>1, <3>2
    <3>5. g[s] = f[x] + g[r]
      BY <2>3, <2>5
    <3>6. Within(s)
      <4>1. ASSUME NEW n \in Nat, NEW m \in Nat, m = n - 1
            PROVE  low * n = low * m + low /\ high * n = high * m + high
        BY <4>1
      <4>2. /\ low * Cardinality(s) = low * Cardinality(r) + low
            /\ high * Cardinality(s) = high * Cardinality(r) + high
        BY <3>1, <4>1
      <4>3. /\ low * Cardinality(s) \in Nat /\ low * Cardinality(r) \in Nat
            /\ high * Cardinality(s) \in Nat /\ high * Cardinality(r) \in Nat
        BY <3>1
      <4> HIDE DEF x, r
      <4> QED
        BY <3>3, <3>4, <3>5, <4>2, <4>3
    <3> QED
      BY <2>2, <3>6
  <2> QED
    BY <2>4, <2>5
<1>5. Within(D)
  BY <1>4
<1> QED
  BY <1>1, <1>5

\* A finite set of naturals has a least and a greatest member.
LEMMA Extremes ==
  ASSUME NEW T, T \subseteq Nat, T # {}, IsFiniteSet(T)
  PROVE  /\ Min(T) \in T /\ \A x \in T : Min(T) <= x
         /\ Max(T) \in T /\ \A x \in T : x <= Max(T)
<1>1. PICK n \in T : \A m \in T : n <= m
  BY LeastOf
<1> DEFINE Topped(s) == \E x \in s : \A y \in s : x >= y
           Bad == {s \in SUBSET T : s # {} /\ ~ Topped(s)}
<1>2. ASSUME Bad # {} PROVE FALSE
  <2>1. PICK s \in Bad : s # {} => s \ {Some(s)} \notin Bad
    <3>1. Bad \subseteq SUBSET T
      OBVIOUS
    <3> HIDE DEF Bad
    <3> QED BY <1>2, <3>1, SmallestOf
  <2>2. s \subseteq Nat /\ s # {} /\ ~ Topped(s)
    BY <2>1
  <2> DEFINE x == Some(s)
             r == s \ {x}
  <2>3. x \in s /\ s = r \cup {x}
    BY <2>2 DEF Some
  <2>4. r = {} \/ Topped(r)
    BY <2>1, <2>2
  <2> HIDE DEF x, r
  <2>5. Topped(s)
    BY <2>2, <2>3, <2>4
  <2> QED
    BY <2>2, <2>5
<1>3. PICK x \in T : \A y \in T : x >= y
  BY <1>2
<1>4. Min(T) \in T /\ \A y \in T : Min(T) <= y
  BY <1>1 DEF Min
<1>5. Max(T) \in T /\ \A y \in T : Max(T) >= y
  BY <1>3 DEF Max
<1> QED
  BY <1>4, <1>5

-----------------------------------------------------------------------------
(***************************************************************************)
(* Spread.                                                                 *)
(***************************************************************************)
\* The rates of a cell and their squares add up to numbers.
LEMMA RatesAdd ==
  ASSUME NEW values \in Seq(Nat)
  PROVE  /\ SumOf(values) \in Nat /\ SquaresOf(values) \in Nat /\ Len(values) \in Nat
         /\ SquaresOf(values) <= SumOf(values) * SumOf(values)
<1>1. DOMAIN values = 1..Len(values) /\ Len(values) \in Nat /\ \A i \in DOMAIN values : values[i] \in Nat
  OBVIOUS
<1>2. IsFiniteSet(DOMAIN values)
  BY <1>1, FS_Interval
<1> QED
  BY <1>1, <1>2, SumNat, SquaresBelow DEF SumOf, SquaresOf

\* More halves are harder to exceed, and a cell that did nothing exceeds none.
LEMMA ExceedsDown ==
  ASSUME NEW values \in Seq(Nat), NEW a \in Nat, NEW b \in Nat, a <= b, Exceeds(values, b)
  PROVE  Exceeds(values, a) /\ SumOf(values) # 0
<1> DEFINE s == SumOf(values)
           d == 4 * MILLE * MILLE * Deviation(values)
<1>1. s \in Nat /\ SquaresOf(values) \in Nat /\ Len(values) \in Nat /\ SquaresOf(values) <= s * s
  BY RatesAdd
<1>2. d \in Int
  BY <1>1, SpreadAssumption DEF Deviation
<1>3. d > b * b * s * s
  BY DEF Exceeds
<1>4. a * a * s * s <= b * b * s * s
  <2>1. a * a <= b * b /\ a * a \in Nat /\ b * b \in Nat
    OBVIOUS
  <2>2. \A x, y, z \in Nat : x <= y => x * z * z <= y * z * z
    <3>1. \A x, y, z \in Nat : x <= y => x * z <= y * z /\ x * z \in Nat /\ y * z \in Nat
      OBVIOUS
    <3> QED
      BY <3>1
  <2> HIDE DEF s
  <2> QED
    BY <1>1, <2>1, <2>2
<1>5. s # 0
  <2>1. CASE s = 0
    <3>1. SquaresOf(values) = 0
      BY <1>1, <2>1
    <3>2. d = 0
      BY <2>1, <3>1, <1>1, SpreadAssumption DEF Deviation
    <3>3. b * b * s * s = 0
      BY <2>1
    <3> QED
      BY <1>3, <3>2, <3>3
  <2> QED
    BY <2>1
<1>6. a * a * s * s \in Int /\ b * b * s * s \in Int
  BY <1>1
<1>7. d > a * a * s * s
  <2> HIDE DEF d, s
  <2> QED BY <1>2, <1>3, <1>4, <1>6
<1> QED
  BY <1>5, <1>7 DEF Exceeds

\* The figure of a cell is over the threshold when the variation is above it by
\* more than the rounding.
LEMMA CvOver ==
  ASSUME NEW values \in Seq(Nat)
  PROVE  /\ Cv(values) \in Nat
         /\ Cv(values) > OVER <=> Exceeds(values, 2 * OVER + 1)
<1>a. MILLE \in Nat \ {0} /\ OVER \in Nat
  BY SpreadAssumption
<1>r. /\ SumOf(values) \in Nat /\ SquaresOf(values) \in Nat /\ Len(values) \in Nat
      /\ SquaresOf(values) <= SumOf(values) * SumOf(values)
  BY RatesAdd
<1>1. CASE SumOf(values) = 0
  <2>1. ~ Exceeds(values, 2 * OVER + 1)
    <3>1. 2 * OVER + 1 \in Nat
      BY <1>a
    <3> QED
      BY <1>1, <3>1, ExceedsDown
  <2>2. Cv(values) = 0
    BY <1>1 DEF Cv
  <2> QED
    BY <1>a, <2>1, <2>2
<1>2. CASE SumOf(values) # 0
  <2> DEFINE last == MILLE * Len(values)
             Low == {k \in Nat : ~ Exceeds(values, 2 * k + 1)}
             Closest(k) == /\ ~Exceeds(values, 2 * k + 1)
                           /\ k > 0 => Exceeds(values, 2 * k - 1)
  <2>1. last \in Nat
    BY <1>a, <1>r
  <2>2. last \in Low
    <3> DEFINE s == SumOf(values)
               q == SquaresOf(values)
               n == Len(values)
    <3>1. n * q - s * s <= n * (s * s) /\ n * (s * s) <= n * n * (s * s)
      <4>1. \A a, b, c \in Nat : b <= c => a * b - c <= a * c /\ a * c <= a * a * c
        <5>1. \A a, b, c \in Nat : b <= c => a * b <= a * c /\ a * b \in Nat /\ a * c \in Nat
          OBVIOUS
        <5>2. \A a, x \in Nat : x <= a * x \/ a = 0
          OBVIOUS
        <5>3. \A a, c \in Nat : a * (a * c) = a * a * c /\ a * c \in Nat
          OBVIOUS
        <5>4. \A a, c \in Nat : a * c <= a * a * c
          <6> SUFFICES ASSUME NEW a \in Nat, NEW c \in Nat PROVE a * c <= a * a * c
            OBVIOUS
          <6>1. CASE a = 0
            BY <6>1
          <6>2. CASE a # 0
            BY <6>2, <5>2, <5>3
          <6> QED
            BY <6>1, <6>2
        <5> QED
          BY <5>1, <5>4
      <4>2. s * s \in Nat
        BY <1>r
      <4> HIDE DEF s, q, n
      <4> QED
        BY <1>r, <4>1, <4>2 DEF s, q, n
    <3>2. Deviation(values) <= n * n * (s * s) /\ Deviation(values) \in Int
      <4>1. Deviation(values) = n * q - s * s
        BY DEF Deviation
      <4>2. n * q - s * s \in Int /\ n * (s * s) \in Int /\ n * n * (s * s) \in Int
        <5>1. s * s \in Int /\ n * n \in Int /\ n * q \in Int
          BY <1>r
        <5> QED
          BY <1>r, <5>1
      <4>3. \A a, b, c \in Int : a <= b /\ b <= c => a <= c
        OBVIOUS
      <4> HIDE DEF s, q, n
      <4> QED
        BY <3>1, <4>1, <4>2, <4>3
    <3>3. 4 * MILLE * MILLE * Deviation(values) <= 4 * MILLE * MILLE * (n * n * (s * s))
      <4>1. \A a \in Nat : \A b, c \in Int : b <= c => a * b <= a * c
        OBVIOUS
      <4>2. 4 * MILLE * MILLE \in Nat /\ n * n * (s * s) \in Int
        BY <1>a, <1>r
      <4> HIDE DEF s, n
      <4> QED
        BY <3>2, <4>1, <4>2
    <3>4. 4 * MILLE * MILLE * (n * n * (s * s)) <= (2 * last + 1) * (2 * last + 1) * s * s
      <4>1. 4 * MILLE * MILLE * (n * n * (s * s)) = (2 * last) * (2 * last) * (s * s)
        BY <1>a, <1>r
      <4>2. \A a, c \in Nat : (2 * a) * (2 * a) * c <= (2 * a + 1) * (2 * a + 1) * c
        <5>1. \A a \in Nat : (2 * a) * (2 * a) <= (2 * a + 1) * (2 * a + 1)
                               /\ (2 * a) * (2 * a) \in Nat /\ (2 * a + 1) * (2 * a + 1) \in Nat
          OBVIOUS
        <5>2. \A x, y, c \in Nat : x <= y => x * c <= y * c
          OBVIOUS
        <5> QED
          BY <5>1, <5>2
      <4>3. s * s \in Nat
        BY <1>r
      <4>4. (2 * last + 1) * (2 * last + 1) * (s * s) = (2 * last + 1) * (2 * last + 1) * s * s
        BY <1>a, <1>r
      <4> HIDE DEF last, s, n
      <4> QED
        BY <2>1, <4>1, <4>2, <4>3, <4>4
    <3>5. /\ 4 * MILLE * MILLE * Deviation(values) \in Int
          /\ 4 * MILLE * MILLE * (n * n * (s * s)) \in Int
          /\ (2 * last + 1) * (2 * last + 1) * s * s \in Int
      <4>1. (2 * last + 1) * (2 * last + 1) \in Int
        BY <2>1
      <4> QED
        BY <1>a, <1>r, <3>2, <4>1
    <3>6. ~ Exceeds(values, 2 * last + 1)
      <4> HIDE DEF last, n
      <4> QED BY <3>3, <3>4, <3>5 DEF Exceeds
    <3> QED
      BY <2>1, <3>6
  <2> HIDE DEF last
  <2>3. PICK k \in Low : \A m \in Low : k <= m
    <3>1. Low # {} /\ Low \subseteq Nat
      BY <2>2
    <3> HIDE DEF Low
    <3> QED BY <3>1, LeastOf
  <2>4. k \in 0..last
    BY <2>1, <2>2, <2>3
  <2>5. Closest(k)
    <3>1. k > 0 => k - 1 \in Nat /\ k - 1 \notin Low /\ 2 * (k - 1) + 1 = 2 * k - 1
      BY <2>3
    <3> QED
      BY <2>3, <3>1
  <2>6. Cv(values) = CHOOSE j \in 0..last : Closest(j)
    BY <1>2 DEF Cv, last
  <2> DEFINE v == Cv(values)
  <2>7. v \in 0..last /\ Closest(v)
    <3> HIDE DEF Closest
    <3> QED BY <2>4, <2>5, <2>6
  <2>8. v \in Nat
    BY <2>1, <2>7
  <2>9. ASSUME v > OVER PROVE Exceeds(values, 2 * OVER + 1)
    <3>1. v > 0 /\ 2 * v - 1 \in Nat /\ 2 * OVER + 1 \in Nat /\ 2 * OVER + 1 <= 2 * v - 1
      BY <1>a, <2>8, <2>9
    <3>2. Exceeds(values, 2 * v - 1)
      BY <2>7, <3>1
    <3> HIDE DEF v
    <3> QED
      BY <3>1, <3>2, ExceedsDown
  <2>10. ASSUME Exceeds(values, 2 * OVER + 1) PROVE v > OVER
    <3>1. ASSUME v <= OVER PROVE FALSE
      <4>1. 2 * v + 1 \in Nat /\ 2 * OVER + 1 \in Nat /\ 2 * v + 1 <= 2 * OVER + 1
        BY <1>a, <2>8, <3>1
      <4>2. ~ Exceeds(values, 2 * v + 1)
        BY <2>7
      <4> HIDE DEF v
      <4> QED
        BY <2>10, <4>1, <4>2, ExceedsDown
    <3> QED
      BY <1>a, <2>8, <3>1
  <2> QED
    BY <2>8, <2>9, <2>10
<1> QED
  BY <1>1, <1>2

\* The worse of two passes is over the threshold when one of them is.
LEMMA WorseOver ==
  ASSUME NEW entry, entry.sets \in Seq(Nat), entry.gets \in Seq(Nat)
  PROVE  worse(entry) > OVER <=> \/ Exceeds(entry.sets, 2 * OVER + 1)
                                 \/ Exceeds(entry.gets, 2 * OVER + 1)
<1> DEFINE a == Cv(entry.sets)
           b == Cv(entry.gets)
<1>1. a \in Nat /\ b \in Nat /\ OVER \in Nat
  BY CvOver, SpreadAssumption
<1>2. worse(entry) = CHOOSE x \in {a, b} : \A y \in {a, b} : x >= y
  BY DEF worse, Max
<1>3. \E x \in {a, b} : \A y \in {a, b} : x >= y
  <2> HIDE DEF a, b
  <2> QED BY <1>1
<1>4. worse(entry) \in {a, b} /\ \A y \in {a, b} : worse(entry) >= y
  <2> HIDE DEF a, b
  <2> QED BY <1>2, <1>3
<1>5. worse(entry) > OVER <=> a > OVER \/ b > OVER
  <2> HIDE DEF a, b
  <2> QED BY <1>1, <1>4
<1> QED
  BY <1>5, CvOver

\* The medians of an output.json that are over the threshold are as many as its
\* noisy cells.
LEMMA OneMedianEach ==
  ASSUME output \in Reports, NEW cache
  PROVE  LET noisy == {i \in {j \in read : output[j].cache = cache} : worse(output[i]) > OVER}
         IN  /\ Cardinality(noisy) = Cardinality(Noisy(cache))
             /\ Cardinality(noisy) > 0 <=> Noisy(cache) # {}
             /\ {output[i].threads : i \in noisy} = {place[2] : place \in Noisy(cache)}
<1> DEFINE noisy == {i \in {j \in read : output[j].cache = cache} : worse(output[i]) > OVER}
           name  == [i \in noisy |-> CellOf(output[i])]
           Loud(i) == \/ Exceeds(output[i].sets, 2 * OVER + 1)
                      \/ Exceeds(output[i].gets, 2 * OVER + 1)
<1>1. /\ DOMAIN output = 1..Len(output) /\ Len(output) \in Nat
      /\ \A i \in DOMAIN output : output[i].sets \in Seq(Nat) /\ output[i].gets \in Seq(Nat)
      /\ \A i, j \in DOMAIN output : CellOf(output[i]) = CellOf(output[j]) =>
           /\ output[i].kind = output[j].kind => i = j
           /\ output[i].sets = output[j].sets /\ output[i].gets = output[j].gets
           /\ output[i].spread = output[j].spread
      /\ \A i \in DOMAIN output :
           \E j \in DOMAIN output : CellOf(output[j]) = CellOf(output[i]) /\ output[j].kind = "median"
  BY ReportsAssumption
<1>2. \A i \in DOMAIN output : worse(output[i]) > OVER <=> Loud(i)
  BY <1>1, WorseOver
<1>3. noisy = {i \in DOMAIN output : /\ output[i].kind = "median" /\ output[i].spread
                                     /\ output[i].cache = cache /\ Loud(i)}
  <2> HIDE DEF Loud
  <2> QED BY <1>2 DEF read
<1>4. Noisy(cache) = {CellOf(output[i]) : i \in {j \in DOMAIN output :
                        output[j].spread /\ output[j].cache = cache /\ Loud(j)}}
  BY DEF Noisy
<1>c. \A i, j \in DOMAIN output : CellOf(output[i]) = CellOf(output[j]) =>
        output[i].cache = output[j].cache /\ (Loud(i) <=> Loud(j))
  <2> SUFFICES ASSUME NEW i \in DOMAIN output, NEW j \in DOMAIN output,
                      CellOf(output[i]) = CellOf(output[j])
               PROVE  output[i].cache = output[j].cache /\ (Loud(i) <=> Loud(j))
    OBVIOUS
  <2>1. output[i].sets = output[j].sets /\ output[i].gets = output[j].gets
    BY <1>1
  <2>2. output[i].cache = output[j].cache
    BY DEF CellOf
  <2> QED
    BY <2>1, <2>2
<1> HIDE DEF Loud
<1>5. name \in Surjection(noisy, Noisy(cache))
  <2>1. ASSUME NEW i \in noisy PROVE CellOf(output[i]) \in Noisy(cache)
    <3> HIDE DEF noisy
    <3> QED BY <1>3, <1>4
  <2>2. ASSUME NEW place \in Noisy(cache) PROVE \E i \in noisy : CellOf(output[i]) = place
    <3>1. PICK i \in DOMAIN output : /\ output[i].spread /\ output[i].cache = cache /\ Loud(i)
                                     /\ place = CellOf(output[i])
      BY <1>4
    <3>2. PICK j \in DOMAIN output : CellOf(output[j]) = CellOf(output[i]) /\ output[j].kind = "median"
      BY <1>1
    <3>3. output[j].spread /\ output[j].cache = cache /\ Loud(j)
      BY <1>1, <1>c, <3>1, <3>2
    <3> HIDE DEF noisy
    <3> QED
      BY <1>3, <3>1, <3>2, <3>3
  <2> HIDE DEF noisy
  <2> QED
    BY <2>1, <2>2 DEF Surjection
<1>6. name \in Injection(noisy, Noisy(cache))
  <2>1. \A i, j \in noisy : CellOf(output[i]) = CellOf(output[j]) => i = j
    <3>1. \A i \in noisy : i \in DOMAIN output /\ output[i].kind = "median"
      <4> HIDE DEF noisy
      <4> QED BY <1>3
    <3>2. \A i, j \in DOMAIN output :
            CellOf(output[i]) = CellOf(output[j]) /\ output[i].kind = output[j].kind => i = j
      BY <1>1
    <3> HIDE DEF noisy
    <3> QED BY <3>1, <3>2
  <2> HIDE DEF noisy
  <2> QED
    BY <1>5, <2>1 DEF Injection, IsInjective, Surjection
<1>7. IsFiniteSet(noisy)
  <2>1. IsFiniteSet(1..Len(output)) /\ noisy \in SUBSET (1..Len(output))
    BY <1>1, <1>3, FS_Interval
  <2> HIDE DEF noisy
  <2> QED
    BY <2>1, FS_Subset
<1> HIDE DEF noisy, name
<1>8. Cardinality(noisy) = Cardinality(Noisy(cache)) /\ Cardinality(noisy) \in Nat
  BY <1>5, <1>6, <1>7, FS_Surjection, FS_CardinalityType
<1>9. Cardinality(noisy) > 0 <=> Noisy(cache) # {}
  <2>1. noisy = {} <=> Noisy(cache) = {}
    BY <1>5 DEF Surjection
  <2> QED
    BY <1>7, <1>8, <2>1, FS_EmptySet
<1>10. {output[i].threads : i \in noisy} = {place[2] : place \in Noisy(cache)}
  <2>1. \A i : CellOf(output[i])[2] = output[i].threads
    BY DEF CellOf
  <2>2. \A i \in noisy : name[i] = CellOf(output[i])
    BY DEF name
  <2>3. Noisy(cache) = {name[i] : i \in noisy}
    BY <1>5 DEF Surjection
  <2> QED
    BY <2>1, <2>2, <2>3
<1> QED
  BY <1>8, <1>9, <1>10 DEF noisy

\* A report is of what was read, and refuses when it counted something.
SpreadInv ==
  /\ output \in Reports
  /\ report.is = "report" =>
       /\ report.engines = [cache \in Engines |-> tally(cache)]
       /\ report.refused <=> \E cache \in Engines : report.engines[cache].over > 0

\* Of whatever cells there are, measured however often, the report counts every
\* noisy one once and no quiet one, and refuses when there is one.
THEOREM NoisyNamed == SpreadInit /\ [][SpreadNext]_spreadVars => []NoisyAreNamed
<1>0. output' = output => Engines' = Engines /\ \A cache : tally(cache)' = tally(cache)
  BY DEF Engines, tally, read, worse, Cv, SumOf, SquaresOf, Exceeds, Deviation
<1>1. SpreadInit => SpreadInv
  BY DEF SpreadInit, SpreadInv, Unread
<1>2. SpreadInv /\ [SpreadNext]_spreadVars => SpreadInv'
  <2> SUFFICES ASSUME SpreadInv, [SpreadNext]_spreadVars PROVE SpreadInv'
    OBVIOUS
  <2>1. CASE NoSpread
    BY <2>1 DEF NoSpread, SpreadInv
  <2>2. CASE Tallied
    <3> DEFINE engines == [cache \in Engines |-> tally(cache)]
    <3>1. /\ output' = output
          /\ report' = [is |-> "report", engines |-> engines,
                        refused |-> \E cache \in Engines : engines[cache].over > 0]
      BY <2>2 DEF Tallied
    <3>0. output' = output
      BY <3>1
    <3>2. Engines' = Engines /\ engines' = engines
      BY <1>0, <3>0
    <3>3. /\ report'.engines = engines
          /\ report'.refused <=> \E cache \in Engines : engines[cache].over > 0
      <4> HIDE DEF engines
      <4> QED BY <3>1
    <3>4. output' \in Reports
      BY <3>1 DEF SpreadInv
    <3> QED
      BY <3>2, <3>3, <3>4 DEF SpreadInv
  <2>3. CASE UNCHANGED spreadVars
    BY <1>0, <2>3 DEF spreadVars, SpreadInv
  <2> QED
    BY <2>1, <2>2, <2>3 DEF SpreadNext
<1>3. SpreadInv => NoisyAreNamed
  <2> SUFFICES ASSUME SpreadInv, report.is = "report" PROVE NoisyAreNamed
    BY DEF NoisyAreNamed
  <2>1. /\ report.engines = [cache \in Engines |-> tally(cache)]
        /\ report.refused <=> \E cache \in Engines : report.engines[cache].over > 0
        /\ output \in Reports
    BY DEF SpreadInv
  <2>2. DOMAIN report.engines = Engines
    BY <2>1
  <2>3. ASSUME NEW cache \in Engines
        PROVE  /\ report.engines[cache].over = Cardinality(Noisy(cache))
               /\ report.engines[cache].at = {place[2] : place \in Noisy(cache)}
               /\ report.engines[cache].over > 0 <=> Noisy(cache) # {}
    <3>1. report.engines[cache] = tally(cache)
      BY <2>1
    <3> DEFINE noisy == {i \in {j \in read : output[j].cache = cache} : worse(output[i]) > OVER}
    <3>2. tally(cache).over = Cardinality(noisy) /\ tally(cache).at = {output[i].threads : i \in noisy}
      BY DEF tally
    <3>3. /\ Cardinality(noisy) = Cardinality(Noisy(cache))
          /\ Cardinality(noisy) > 0 <=> Noisy(cache) # {}
          /\ {output[i].threads : i \in noisy} = {place[2] : place \in Noisy(cache)}
      BY <2>1, OneMedianEach
    <3> HIDE DEF noisy
    <3> QED
      BY <3>1, <3>2, <3>3
  <2> QED
    BY <2>1, <2>2, <2>3 DEF NoisyAreNamed
<1> QED
  BY <1>1, <1>2, <1>3, PTL

-----------------------------------------------------------------------------
(***************************************************************************)
(* The ranks of what is picked.                                            *)
(***************************************************************************)
\* There are no more values than places they come from.
LEMMA ImageCount ==
  ASSUME NEW order, NEW D, IsFiniteSet(D), NEW B, \A x \in B : \E i \in D : order[i] = x
  PROVE  IsFiniteSet(B) /\ Cardinality(B) \in Nat /\ Cardinality(B) <= Cardinality(D)
<1> DEFINE T == {order[i] : i \in D}
           f == [i \in D |-> order[i]]
<1>1. f \in Surjection(D, T)
  BY DEF Surjection
<1>2. IsFiniteSet(T) /\ Cardinality(T) <= Cardinality(D)
  <2> HIDE DEF f, T
  <2> QED BY <1>1, FS_Surjection
<1>3. B \in SUBSET T
  OBVIOUS
<1> HIDE DEF T
<1>4. IsFiniteSet(B) /\ Cardinality(B) <= Cardinality(T)
  BY <1>2, <1>3, FS_Subset
<1>5. Cardinality(B) \in Nat /\ Cardinality(T) \in Nat /\ Cardinality(D) \in Nat
  BY <1>2, <1>4, FS_CardinalityType
<1> QED
  BY <1>2, <1>4, <1>5

\* What stands at a place of an order that ascends has that rank.
LEMMA RankIs ==
  ASSUME NEW n \in Nat, NEW key, \A r \in 1..n : key[r] \in Nat,
         NEW order, Ascends(order, key, n), NEW at \in 0..(n - 1)
  PROVE  HasRank(key, n, key[order[at + 1]], at)
<1> DEFINE v == key[order[at + 1]]
<1>1. /\ order \in [1..n -> 1..n]
      /\ \A i, j \in 1..n : i < j => order[i] # order[j] /\ key[order[i]] <= key[order[j]]
  BY DEF Ascends
<1>2. IsFiniteSet(1..n)
  BY FS_Interval
<1>3. \A r \in 1..n : \E i \in 1..n : order[i] = r
  <2>1. \A i, j \in 1..n : order[i] = order[j] => i = j
    BY <1>1
  <2>2. order \in Injection(1..n, 1..n)
    BY <1>1, <2>1 DEF Injection, IsInjective
  <2>3. order \in Surjection(1..n, 1..n)
    BY <1>2, <2>2, FS_Injection
  <2> QED
    BY <2>3 DEF Surjection
<1>4. at + 1 \in 1..n /\ v \in Nat
  BY <1>1
<1>5. Below(key, n, v) <= at
  <2>1. ASSUME NEW r \in {s \in 1..n : key[s] < v} PROVE \E i \in 1..at : order[i] = r
    <3>1. PICK i \in 1..n : order[i] = r
      BY <1>3
    <3>2. r \in 1..n /\ key[r] \in Nat /\ key[r] < v
      BY <2>1
    <3>3. at + 1 < i => v <= key[r]
      BY <1>1, <1>4, <3>1
    <3>4. i = at + 1 => v = key[r]
      BY <3>1
    <3> HIDE DEF v
    <3>5. i <= at
      BY <1>4, <3>1, <3>2, <3>3, <3>4
    <3> QED
      BY <1>4, <3>1, <3>5
  <2>2. IsFiniteSet(1..at) /\ Cardinality(1..at) = at
    BY FS_Interval
  <2> HIDE DEF v
  <2>3. Cardinality({s \in 1..n : key[s] < v}) <= Cardinality(1..at)
    BY <2>1, <2>2, ImageCount
  <2> QED
    BY <2>2, <2>3 DEF Below
<1>6. Above(key, n, v) <= n - 1 - at
  <2>1. ASSUME NEW r \in {s \in 1..n : key[s] > v} PROVE \E i \in (at + 2)..n : order[i] = r
    <3>1. PICK i \in 1..n : order[i] = r
      BY <1>3
    <3>2. r \in 1..n /\ key[r] \in Nat /\ key[r] > v
      BY <2>1
    <3>3. i < at + 1 => key[r] <= v
      BY <1>1, <1>4, <3>1
    <3>4. i = at + 1 => v = key[r]
      BY <3>1
    <3> HIDE DEF v
    <3>5. i >= at + 2
      BY <1>4, <3>1, <3>2, <3>3, <3>4
    <3> QED
      BY <1>4, <3>1, <3>5
  <2>2. IsFiniteSet((at + 2)..n) /\ Cardinality((at + 2)..n) = n - 1 - at
    BY <1>4, FS_Interval
  <2> HIDE DEF v
  <2>3. Cardinality({s \in 1..n : key[s] > v}) <= Cardinality((at + 2)..n)
    BY <2>1, <2>2, ImageCount
  <2> QED
    BY <2>2, <2>3 DEF Above
<1> QED
  BY <1>5, <1>6 DEF HasRank

-----------------------------------------------------------------------------
(***************************************************************************)
(* correct.rs.                                                             *)
(***************************************************************************)
Keys == {cell.sets, cell.gets, Cycles}

\* The rates and the cycles of the runs are numbers, and can be put in order.
LEMMA KeysOrdered ==
  ASSUME cell \in Inputs, NEW key \in Keys
  PROVE  /\ cell.n \in Nat
         /\ key \in [1..cell.n -> Nat]
         /\ Ascends(sort_by(key), key, cell.n)
<1>1. cell.n \in Nat /\ cell.sets \in [1..cell.n -> Nat] /\ cell.gets \in [1..cell.n -> Nat]
  BY InputsAssumption
<1>2. Cycles \in [1..cell.n -> Nat]
  <2>1. ASSUME NEW r \in 1..cell.n PROVE as_f64(cell.perf[r]["cycles"]) \in Nat
    <3>1. "cycles" \in Counters
      BY DEF Counters
    <3>2. \/ cell.perf[r]["cycles"] \in {Missing, Text}
          \/ is_measured(cell.perf[r]["cycles"]) /\ cell.perf[r]["cycles"].value \in Nat
      BY <3>1, InputsAssumption
    <3> QED
      BY <3>2 DEF as_f64, is_measured, Missing, Text
  <2> QED
    BY <2>1 DEF Cycles, CyclesOf
<1>3. key \in [1..cell.n -> Nat]
  BY <1>1, <1>2 DEF Keys
<1>4. Len(key) = cell.n
  BY <1>1, <1>3
<1>5. Ascends(sort_by(key), key, Len(key))
  <2>1. key \in {cell.sets, cell.gets, CyclesOf(cell)}
    BY DEF Keys, Cycles
  <2> QED
    BY <2>1, SortsAssumption
<1> QED
  BY <1>1, <1>3, <1>4, <1>5

\* A trim leaves something in the middle.
LEMMA TrimIs ==
  ASSUME NEW n \in Nat
  PROVE  /\ trim_for(n) \in Nat /\ trim_for(n) = Tenth(n)
         /\ n # 0 => 2 * trim_for(n) < n
  BY DEF trim_for, Tenth

\* What a trim keeps of a list.
LEMMA Middle ==
  ASSUME NEW n \in Nat, NEW t \in Nat, NEW w \in Nat, n = w + 2 * t, NEW order \in [1..n -> 1..n]
  PROVE  LET window == SubSeq(order, t + 1, n - t)
         IN  /\ DOMAIN window = 1..w /\ Len(window) = w
             /\ \A i \in 1..w : i + t \in 1..n /\ window[i] = order[i + t]
<1>1. (n - t) - (t + 1) + 1 = w
  OBVIOUS
<1>2. ASSUME NEW i \in 1..w PROVE i + (t + 1) - 1 = i + t
  OBVIOUS
<1>3. SubSeq(order, t + 1, n - t) = [i \in 1..w |-> order[i + t]]
  BY <1>1, <1>2
<1>4. \A i \in 1..w : i + t \in 1..n
  OBVIOUS
<1> QED
  BY <1>3, <1>4

Width == cell.n - 2 * trim_for(cell.n)

LEMMA TrimmedIs ==
  ASSUME cell \in Inputs, cell.n # 0, NEW key \in Keys
  PROVE  LET t == trim_for(cell.n)
             window == Trimmed(key)
         IN  /\ Width \in Nat \ {0} /\ cell.n = Width + 2 * t /\ t \in Nat
             /\ DOMAIN window = 1..Width /\ Len(window) = Width
             /\ \A i \in 1..Width : /\ i + t \in 1..cell.n
                                    /\ window[i] = sort_by(key)[i + t] /\ window[i] \in 1..cell.n
<1> DEFINE n == cell.n
           t == trim_for(n)
           order == sort_by(key)
<1>1. n \in Nat /\ order \in [1..n -> 1..n]
  BY KeysOrdered DEF Ascends
<1>2. t \in Nat /\ 2 * t < n
  BY <1>1, TrimIs
<1>3. Width \in Nat \ {0} /\ n = Width + 2 * t
  BY <1>1, <1>2 DEF Width
<1>4. Trimmed(key) = SubSeq(order, t + 1, n - t)
  BY DEF Trimmed
<1> HIDE DEF n, t, order
<1>5. LET window == SubSeq(order, t + 1, n - t)
      IN  /\ DOMAIN window = 1..Width /\ Len(window) = Width
          /\ \A i \in 1..Width : i + t \in 1..n /\ window[i] = order[i + t]
  BY <1>1, <1>2, <1>3, Middle
<1>6. \A i \in 1..Width : order[i + t] \in 1..n
  BY <1>1, <1>5
<1> QED
  BY <1>2, <1>3, <1>4, <1>5, <1>6 DEF n, t, order

\* The places picked, among all runs of the cell.
Spot(kind) ==
  CASE kind = "worst"  -> trim_for(cell.n)
    [] kind = "median" -> (cell.n - 1) \div 2
    [] kind = "best"   -> cell.n - 1 - trim_for(cell.n)

LEMMA SpotIs ==
  ASSUME NEW kind \in {"worst", "median", "best"}, cell.n \in Nat, trim_for(cell.n) \in Nat,
         Width \in Nat \ {0}, cell.n = Width + 2 * trim_for(cell.n)
  PROVE  /\ index(kind, Width) \in 0..(Width - 1)
         /\ Spot(kind) = index(kind, Width) + trim_for(cell.n) /\ Spot(kind) \in 0..(cell.n - 1)
<1> DEFINE n == cell.n
           t == trim_for(cell.n)
           w == Width
<1>0. n \in Nat /\ t \in Nat /\ w \in Nat \ {0} /\ n = w + 2 * t
  OBVIOUS
<1>1. CASE kind = "worst"
  <2>1. index(kind, w) = 0 /\ Spot(kind) = t
    BY <1>1 DEF index, Spot
  <2> HIDE DEF n, t, w
  <2>2. 0 \in 0..(w - 1) /\ t \in 0..(n - 1)
    BY <1>0
  <2> QED
    BY <1>0, <2>1, <2>2 DEF n, t, w
<1>2. CASE kind = "median"
  <2>1. index(kind, w) = (w - 1) \div 2 /\ Spot(kind) = (n - 1) \div 2
    BY <1>2 DEF index, Spot
  <2> HIDE DEF n, t, w
  <2>2. (w - 1) \div 2 \in 0..(w - 1) /\ (n - 1) \div 2 \in 0..(n - 1)
        /\ (n - 1) \div 2 = (w - 1) \div 2 + t
    BY <1>0
  <2> QED
    BY <1>0, <2>1, <2>2 DEF n, t, w
<1>3. CASE kind = "best"
  <2>1. index(kind, w) = w - 1 /\ Spot(kind) = n - 1 - t
    BY <1>3 DEF index, Spot
  <2> HIDE DEF n, t, w
  <2>2. w - 1 \in 0..(w - 1) /\ n - 1 - t \in 0..(n - 1) /\ n - 1 - t = w - 1 + t
    BY <1>0
  <2> QED
    BY <1>0, <2>1, <2>2 DEF n, t, w
<1> QED
  BY <1>1, <1>2, <1>3

\* What is picked of a trimmed series has its rank in the whole one.
LEMMA PickedIs ==
  ASSUME cell \in Inputs, cell.n # 0, NEW key \in Keys, NEW kind \in {"worst", "median", "best"}
  PROVE  LET r == Trimmed(key)[index(kind, Len(Trimmed(key))) + 1]
         IN  /\ r \in 1..cell.n /\ r = sort_by(key)[Spot(kind) + 1]
             /\ Spot(kind) \in 0..(cell.n - 1)
             /\ HasRank(key, cell.n, key[r], Spot(kind))
<1> DEFINE t == trim_for(cell.n)
           window == Trimmed(key)
           i == index(kind, Width) + 1
<1>1. /\ Width \in Nat \ {0} /\ cell.n = Width + 2 * t /\ t \in Nat
      /\ DOMAIN window = 1..Width /\ Len(window) = Width
      /\ \A k \in 1..Width : /\ k + t \in 1..cell.n
                             /\ window[k] = sort_by(key)[k + t] /\ window[k] \in 1..cell.n
  BY TrimmedIs
<1>2. cell.n \in Nat /\ key \in [1..cell.n -> Nat] /\ Ascends(sort_by(key), key, cell.n)
  BY KeysOrdered
<1>3. /\ index(kind, Width) \in 0..(Width - 1)
      /\ Spot(kind) = index(kind, Width) + t /\ Spot(kind) \in 0..(cell.n - 1)
  BY <1>1, <1>2, SpotIs
<1> HIDE DEF t, window
<1>4. i \in 1..Width /\ i + t = Spot(kind) + 1
  <2>1. ASSUME NEW w \in Nat \ {0}, NEW a \in 0..(w - 1), NEW b \in Nat
        PROVE  a + 1 \in 1..w /\ (a + 1) + b = (a + b) + 1
    OBVIOUS
  <2>2. Width \in Nat \ {0} /\ t \in Nat
    BY <1>1
  <2> QED
    BY <1>3, <2>1, <2>2
<1>5. window[i] = sort_by(key)[Spot(kind) + 1] /\ window[i] \in 1..cell.n
  BY <1>1, <1>4
<1>6. HasRank(key, cell.n, key[sort_by(key)[Spot(kind) + 1]], Spot(kind))
  <2>1. \A r \in 1..cell.n : key[r] \in Nat
    BY <1>2
  <2> QED
    BY <1>2, <1>3, <2>1, RankIs
<1> QED
  BY <1>1, <1>3, <1>5, <1>6 DEF window

\* The mean of a series is between the worst and the best that are left of it.
LEMMA MeanIs ==
  ASSUME cell \in Inputs, cell.n # 0, NEW key \in Keys
  PROVE  LET mean == Op("average", key)
         IN  /\ Op("worst", key).value * mean.over <= mean.value
             /\ mean.value <= Op("best", key).value * mean.over
<1> DEFINE t == trim_for(cell.n)
           window == Trimmed(key)
           f == [i \in DOMAIN window |-> key[window[i]]]
           order == sort_by(key)
           low == key[order[t + 1]]
           high == key[order[t + Width]]
<1>1. /\ Width \in Nat \ {0} /\ cell.n = Width + 2 * t /\ t \in Nat
      /\ DOMAIN window = 1..Width /\ Len(window) = Width
      /\ \A k \in 1..Width : /\ k + t \in 1..cell.n
                             /\ window[k] = order[k + t] /\ window[k] \in 1..cell.n
  BY TrimmedIs
<1>2. cell.n \in Nat /\ key \in [1..cell.n -> Nat] /\ Ascends(order, key, cell.n)
  BY KeysOrdered
<1>3. /\ Op("worst", key).value = key[window[1]] /\ Op("best", key).value = key[window[Width]]
      /\ Op("average", key).value = SumFunction(f) /\ Op("average", key).over = Width
  <2>1. index("worst", Width) + 1 = 1 /\ index("best", Width) + 1 = Width
    BY <1>1 DEF index
  <2> HIDE DEF window
  <2>2. Op("worst", key) = Value(key[window[1]], 1) /\ Op("best", key) = Value(key[window[Width]], 1)
    BY <1>1, <2>1 DEF Op, Pick, window
  <2>3. Op("average", key) = Value(SumFunction(f), Width)
    BY <1>1 DEF Op, Mean, Total, window
  <2> HIDE DEF f
  <2> QED
    BY <2>2, <2>3 DEF Value
<1> HIDE DEF t, window
<1>4. key[window[1]] = low /\ key[window[Width]] = high /\ low \in Nat /\ high \in Nat
  <2>1. 1 \in 1..Width /\ Width \in 1..Width /\ 1 + t = t + 1 /\ Width + t = t + Width
    BY <1>1
  <2> QED
    BY <1>1, <1>2, <2>1
<1>5. \A x \in 1..Width : f[x] \in low..high
  <2> SUFFICES ASSUME NEW x \in 1..Width PROVE key[window[x]] \in low..high
    BY <1>1
  <2>1. window[x] = order[x + t] /\ key[window[x]] \in Nat
    BY <1>1, <1>2
  <2>2. x + t \in 1..cell.n /\ t + 1 \in 1..cell.n /\ t + Width \in 1..cell.n
        /\ t + 1 <= x + t /\ x + t <= t + Width
    BY <1>1, <1>2
  <2>3. low <= key[order[x + t]]
    <3>1. CASE t + 1 = x + t
      BY <1>4, <3>1
    <3>2. CASE t + 1 < x + t
      BY <1>2, <2>2, <3>2 DEF Ascends
    <3> QED
      BY <1>1, <2>2, <3>1, <3>2
  <2>4. key[order[x + t]] <= high
    <3>1. CASE x + t = t + Width
      BY <1>4, <3>1
    <3>2. CASE x + t < t + Width
      BY <1>2, <2>2, <3>2 DEF Ascends
    <3> QED
      BY <1>1, <2>2, <3>1, <3>2
  <2> HIDE DEF low, high
  <2> QED
    BY <1>4, <2>1, <2>3, <2>4
<1>6. DOMAIN f = 1..Width /\ IsFiniteSet(1..Width) /\ Cardinality(1..Width) = Width
  BY <1>1, FS_Interval
<1> HIDE DEF f, low, high
<1>7. low * Width <= SumFunction(f) /\ SumFunction(f) <= high * Width
  BY <1>4, <1>5, <1>6, SumWithin
<1> QED
  BY <1>3, <1>4, <1>7

\* The quartiles of the whole cell are on both sides of its lower median.
LEMMA QuartilesAre ==
  ASSUME cell \in Inputs, cell.n # 0, NEW key \in Keys
  PROVE  /\ rank(key, 25) <= Op("median", key).value
         /\ Op("median", key).value <= rank(key, 75)
<1> DEFINE n == cell.n
           m == (n - 1) \div 2
           order == sort_by(key)
           q == (25 * n + 99) \div 100
           p == (75 * n + 99) \div 100
<1>1. n \in Nat \ {0} /\ key \in [1..n -> Nat] /\ Ascends(order, key, n)
  BY KeysOrdered
<1>2. Op("median", key).value = key[order[m + 1]]
  <2> DEFINE r == Trimmed(key)[index("median", Len(Trimmed(key))) + 1]
  <2>1. r = order[Spot("median") + 1]
    BY PickedIs
  <2>2. Op("median", key) = Value(key[r], 1)
    BY DEF Op, Pick
  <2>3. Spot("median") = m
    BY DEF Spot
  <2> HIDE DEF r, order
  <2> QED
    BY <2>1, <2>2, <2>3 DEF Value
<1>3. rank(key, 25) = key[order[IF q = 0 THEN 1 ELSE q]] /\ rank(key, 75) = key[order[IF p = 0 THEN 1 ELSE p]]
  BY DEF rank
<1> HIDE DEF n, order
<1>4. /\ q \in 1..n /\ p \in 1..n /\ m + 1 \in 1..n
      /\ q <= m + 1 /\ m + 1 <= p
  BY <1>1
<1> HIDE DEF m, q, p
<1>5. ASSUME NEW a \in 1..n, NEW b \in 1..n, a <= b PROVE key[order[a]] <= key[order[b]]
  <2>1. order[a] \in 1..n /\ order[b] \in 1..n /\ key[order[a]] \in Nat
    BY <1>1 DEF Ascends
  <2>2. CASE a = b
    BY <2>1, <2>2
  <2>3. CASE a < b
    BY <1>1, <2>3 DEF Ascends
  <2> QED
    BY <1>1, <1>5, <2>2, <2>3
<1>6. q # 0 /\ p # 0
  BY <1>1, <1>4
<1> QED
  BY <1>2, <1>3, <1>4, <1>5, <1>6

\* A mean of a counter is of runs that were counted, and within them.
LEMMA CounterIs ==
  ASSUME cell \in Inputs, cell.n # 0, NEW c \in Counters, is_measured(mean_perf(Trimmed(Cycles))[c])
  PROVE  LET mean    == mean_perf(Trimmed(Cycles))[c]
             counted == {r \in 1..cell.n : is_measured(cell.perf[r][c])}
             values  == {cell.perf[r][c].value : r \in counted}
         IN  /\ Cardinality(counted) >= Width
             /\ Min(values) * mean.over <= mean.value /\ mean.value <= Max(values) * mean.over
<1> DEFINE window == Trimmed(Cycles)
           mean == mean_perf(window)[c]
           counted == {r \in 1..cell.n : is_measured(cell.perf[r][c])}
           values  == {cell.perf[r][c].value : r \in counted}
           series == [i \in DOMAIN window |-> cell.perf[window[i]][c]]
           odd == {i \in DOMAIN window : ~ is_measured(series[i])}
           f == [i \in DOMAIN window |-> as_f64(series[i])]
<1>0. Cycles \in Keys
  BY DEF Keys
<1>1. /\ Width \in Nat \ {0} /\ DOMAIN window = 1..Width /\ Len(window) = Width
      /\ \A i \in 1..Width : /\ i + trim_for(cell.n) \in 1..cell.n
                             /\ window[i] = sort_by(Cycles)[i + trim_for(cell.n)]
                             /\ window[i] \in 1..cell.n
  BY <1>0, TrimmedIs
<1>n. cell.n \in Nat /\ Ascends(sort_by(Cycles), Cycles, cell.n) /\ trim_for(cell.n) \in Nat
  BY <1>0, KeysOrdered, TrimIs
<1> HIDE DEF window
<1>2. mean = mean_counter(c, window)
  <2>1. CASE \A r \in Range(window) : has_cycles(cell.perf[r])
    BY <2>1 DEF mean_perf
  <2>2. CASE ~ \A r \in Range(window) : has_cycles(cell.perf[r])
    <3>1. mean = Missing
      BY <2>2 DEF mean_perf
    <3> QED
      BY <3>1 DEF is_measured, Missing, window
  <2> QED
    BY <2>1, <2>2
<1>3. mean_counter(c, window) = IF odd # {} THEN series[Min(odd)] ELSE Value(SumFunction(f), Len(window))
  BY DEF mean_counter
<1>4. odd = {}
  <2> SUFFICES ASSUME odd # {} PROVE FALSE
    OBVIOUS
  <2>1. odd \subseteq Nat /\ IsFiniteSet(odd)
    <3>1. IsFiniteSet(1..Width) /\ odd \in SUBSET (1..Width)
      BY <1>1, FS_Interval
    <3> HIDE DEF odd
    <3>2. IsFiniteSet(odd)
      BY <3>1, FS_Subset
    <3>3. odd \subseteq Nat
      BY <1>1, <3>1
    <3> QED
      BY <3>2, <3>3
  <2>2. Min(odd) \in odd
    <3> HIDE DEF odd
    <3> QED BY <2>1, Extremes
  <2>3. ~ is_measured(series[Min(odd)])
    BY <2>2
  <2> HIDE DEF odd, series
  <2> QED
    BY <1>2, <1>3, <2>3 DEF window
<1>5. mean.value = SumFunction(f) /\ mean.over = Width
  <2>1. mean = Value(SumFunction(f), Width)
    BY <1>1, <1>2, <1>3, <1>4
  <2> HIDE DEF mean, f
  <2> QED
    BY <2>1 DEF Value
<1>6. \A i \in 1..Width : window[i] \in counted /\ f[i] = cell.perf[window[i]][c].value
  <2> SUFFICES ASSUME NEW i \in 1..Width
               PROVE  window[i] \in counted /\ f[i] = cell.perf[window[i]][c].value
    OBVIOUS
  <2>1. is_measured(series[i]) /\ series[i] = cell.perf[window[i]][c]
    BY <1>1, <1>4
  <2>2. f[i] = as_f64(series[i])
    BY <1>1
  <2> HIDE DEF f, series
  <2> QED
    BY <1>1, <2>1, <2>2 DEF as_f64, is_measured
<1>7. IsFiniteSet(counted)
  <2>1. IsFiniteSet(1..cell.n)
    BY <1>n, FS_Interval
  <2>2. counted \in SUBSET (1..cell.n)
    OBVIOUS
  <2> HIDE DEF counted
  <2> QED
    BY <2>1, <2>2, FS_Subset
<1>8. IsFiniteSet(1..Width) /\ Cardinality(1..Width) = Width
  BY <1>1, FS_Interval
<1>9. Cardinality(counted) >= Width
  <2> DEFINE g == [i \in 1..Width |-> window[i]]
  <2>1. \A i, j \in 1..Width : window[i] = window[j] => i = j
    <3> SUFFICES ASSUME NEW i \in 1..Width, NEW j \in 1..Width, i < j PROVE window[i] # window[j]
      BY <1>1
    <3>1. i + trim_for(cell.n) < j + trim_for(cell.n)
      BY <1>n
    <3> QED
      BY <1>1, <1>n, <3>1 DEF Ascends
  <2>2. g \in Injection(1..Width, counted)
    <3>1. g \in [1..Width -> counted]
      <4> HIDE DEF counted
      <4> QED BY <1>6
    <3> HIDE DEF counted
    <3> QED
      BY <2>1, <3>1 DEF Injection, IsInjective
  <2> HIDE DEF g, counted
  <2>3. Cardinality(1..Width) <= Cardinality(counted)
    BY <1>7, <2>2, FS_Injection
  <2> QED
    BY <1>7, <1>8, <2>3, FS_CardinalityType
<1>10. values \subseteq Nat /\ values # {} /\ IsFiniteSet(values)
  <2>1. ASSUME NEW r \in counted PROVE cell.perf[r][c].value \in Nat
    <3>1. r \in 1..cell.n /\ is_measured(cell.perf[r][c])
      OBVIOUS
    <3>2. \/ cell.perf[r][c] \in {Missing, Text}
          \/ is_measured(cell.perf[r][c]) /\ cell.perf[r][c].value \in Nat
      BY <3>1, InputsAssumption
    <3> QED
      BY <3>1, <3>2 DEF is_measured, Missing, Text
  <2>2. counted # {}
    <3>1. 1 \in 1..Width
      BY <1>1
    <3> HIDE DEF counted
    <3> QED BY <1>6, <3>1
  <2> DEFINE h == [r \in counted |-> cell.perf[r][c].value]
  <2> HIDE DEF counted
  <2>3. h \in Surjection(counted, values)
    BY DEF Surjection
  <2>4. values \subseteq Nat /\ values # {}
    BY <2>1, <2>2
  <2> HIDE DEF h, values
  <2> QED
    BY <1>7, <2>3, <2>4, FS_Surjection
<1>11. \A i \in 1..Width : f[i] \in values
  <2> HIDE DEF f, counted
  <2> QED BY <1>6
<1> HIDE DEF values
<1>12. /\ Min(values) \in Nat /\ Max(values) \in Nat
       /\ \A x \in values : x \in Nat /\ Min(values) <= x /\ x <= Max(values)
  BY <1>10, Extremes
<1>13. DOMAIN f = 1..Width
  BY <1>1
<1> HIDE DEF f, mean
<1>14. \A x \in 1..Width : f[x] \in Min(values)..Max(values)
  BY <1>11, <1>12
<1>15. Min(values) * Width <= SumFunction(f) /\ SumFunction(f) <= Max(values) * Width
  BY <1>8, <1>12, <1>13, <1>14, SumWithin
<1> QED
  BY <1>5, <1>9, <1>15 DEF values, counted, mean, window

-----------------------------------------------------------------------------
(***************************************************************************)
(* upstream.rs.                                                            *)
(***************************************************************************)
\* The place of an aggregate among the runs that were opened for it.
PlaceOf(kind, n) ==
  LET w == n - 2 * Tenth(n)
  IN  Tenth(n) + CASE kind = "worst"  -> 0
                   [] kind = "best"   -> w - 1
                   [] kind = "median" -> w \div 2 + 1

RankedGets(f) == f.kind # "average" => HasRank(cell.gets, f.read, f.gets.value, PlaceOf(f.kind, f.read))

LEMMA CountsAre ==
  ASSUME NEW n \in Nat
  PROVE  /\ Fewer(n) \in Nat /\ Fewer(n) <= n
         /\ n >= 3 => Fewer(n) >= 3
         /\ n # 0 => Fewer(n) # 0
  BY DEF Fewer

LEMMA LeftIs ==
  ASSUME count \in Nat
  PROVE  outs = Tenth(count) /\ outs \in Nat /\ Remaining = Fewer(count) /\ Remaining = count - 2 * outs
  BY DEF outs, Tenth, Remaining, Fewer

\* What is picked of the runs in the order of their GET results is what stands
\* at its place in all of them.
LEMMA GetsPicked ==
  ASSUME cell \in Inputs, count \in Counts(cell.n), count \in Nat, count <= cell.n, count # 0,
         NEW kind \in {"median", "best", "worst"}, index_upstream(kind, Remaining) < Remaining
  PROVE  RankedGets(choose_one(kind, Remaining)) /\ choose_one(kind, Remaining).kind = kind
<1> DEFINE n == count
           t == outs
           at == index_upstream(kind, Remaining)
           key == cell.gets
           order == FromGo(gets_sorted)
           window == trim(gets_sorted)
           file == choose_one(kind, Remaining)
<1>1. t = Tenth(n) /\ t \in Nat /\ Remaining \in Nat \ {0} /\ Remaining = n - 2 * t /\ n \in Nat
  BY LeftIs, CountsAre
<1>2. cell.n \in Nat /\ key \in [1..cell.n -> Nat] /\ Len(key) = cell.n
  BY InputsAssumption
<1>3. Ascends(order, key, n)
  <2>1. key \in {c.gets : c \in Inputs}
    OBVIOUS
  <2>2. LET data == sort_slice(ByKey(key), [i \in 0..(n - 1) |-> i + 1], n)
        IN  Ascends([i \in 1..n |-> data[i - 1]], key, n)
    BY <1>2, <2>1, SortsAssumption
  <2> QED
    BY <2>2 DEF FromGo, gets_sorted, InOrder
<1>4. at \in 0..(Remaining - 1) /\ at + t \in 0..(n - 1) /\ t + at = PlaceOf(kind, n)
  <2>1. CASE kind = "worst"
    <3>1. at = 0 /\ PlaceOf(kind, n) = t + 0
      BY <1>1, <2>1 DEF index_upstream, PlaceOf
    <3> HIDE DEF at, t, n
    <3> QED
      BY <1>1, <3>1 DEF at
  <2>2. CASE kind = "best"
    <3>1. at = Remaining - 1 /\ PlaceOf(kind, n) = t + (Remaining - 1)
      BY <1>1, <2>2 DEF index_upstream, PlaceOf
    <3>2. at < Remaining
      OBVIOUS
    <3> HIDE DEF at, t, n
    <3> QED
      BY <1>1, <3>1, <3>2
  <2>3. CASE kind = "median"
    <3>1. at = Remaining \div 2 + 1 /\ PlaceOf(kind, n) = t + (Remaining \div 2 + 1)
      BY <1>1, <2>3 DEF index_upstream, PlaceOf
    <3>2. at < Remaining
      OBVIOUS
    <3> HIDE DEF at, t, n
    <3> QED
      BY <1>1, <3>1, <3>2
  <2> QED
    BY <2>1, <2>2, <2>3
<1>5. file.kind = kind /\ file.read = n /\ file.gets.value = key[window[at + 1]]
  <2>1. file.kind = kind /\ file.read = n
        /\ file.gets = Op_upstream(kind, key, window, Remaining)
    BY DEF choose_one
  <2>2. Op_upstream(kind, key, window, Remaining) = Value(key[window[at + 1]], 1)
    BY DEF Op_upstream, Pick
  <2> HIDE DEF file, window, at, key
  <2> QED
    BY <2>1, <2>2 DEF Value
<1>6. window[at + 1] = order[at + t + 1]
  <2>1. window = SubSeq(order, t + 1, n - t)
    BY DEF trim
  <2>2. order \in [1..n -> 1..n]
    BY <1>3 DEF Ascends
  <2> HIDE DEF window, order, t, n, at
  <2>3. \A i \in 1..Remaining : SubSeq(order, t + 1, n - t)[i] = order[i + t]
    <3> DEFINE w == Remaining
    <3>1. n \in Nat /\ t \in Nat /\ w \in Nat /\ n = w + 2 * t
      BY <1>1
    <3> HIDE DEF w
    <3>2. \A i \in 1..w : SubSeq(order, t + 1, n - t)[i] = order[i + t]
      BY <2>2, <3>1, Middle
    <3> QED
      BY <3>2 DEF w
  <2>4. at + 1 \in 1..Remaining /\ (at + 1) + t = at + t + 1
    BY <1>1, <1>4
  <2> QED
    BY <2>1, <2>3, <2>4
<1>7. HasRank(key, n, key[order[(at + t) + 1]], at + t)
  <2>1. \A r \in 1..n : key[r] \in Nat
    BY <1>2
  <2> HIDE DEF order, key, at, t, n
  <2> QED
    BY <1>1, <1>3, <1>4, <2>1, RankIs
<1>8. RankedGets(file)
  <2> HIDE DEF file, window, order, key, at, t, n
  <2>1. HasRank(key, n, key[window[at + 1]], PlaceOf(kind, n))
    <3>1. at + t = t + at
      BY <1>1, <1>4
    <3> QED
      BY <1>4, <1>6, <1>7, <3>1
  <2> QED
    BY <1>5, <2>1 DEF RankedGets, key
<1> QED
  BY <1>5, <1>8

-----------------------------------------------------------------------------
(***************************************************************************)
(* The invariant of the calls.                                             *)
(***************************************************************************)
\* The count of the original after so many calls.
Afters(n) == <<n, Fewer(n), Fewer(Fewer(n)), Fewer(Fewer(Fewer(n))), Fewer(Fewer(Fewer(Fewer(n))))>>

Typed ==
  /\ cell \in Inputs /\ compat \in {"corrected", "upstream"}
  /\ files \in Seq(Range(files)) /\ Len(files) \in 0..4
  /\ files # <<>> => cell.n # 0

\* The files are the calls', in their order, and all of the one cell.
Corrected == compat = "corrected" => \A k \in 1..Len(files) : files[k] = choose(ALL[k])

\* Each was of the runs the count had come to before its call.
Upstreamed ==
  compat = "upstream" =>
    /\ count = Afters(cell.n)[Len(files) + 1]
    /\ \A k \in 1..Len(files) : files[k].kind = ALL[k] /\ RankedGets(files[k])

Invariant == Typed /\ Corrected /\ Upstreamed /\ EnoughIsReadable

LEMMA AftersAre ==
  ASSUME NEW n \in Nat, NEW k \in 0..3
  PROVE  LET m == Afters(n)[k + 1]
         IN  /\ m \in Counts(n) /\ m \in Nat /\ m <= n
             /\ n # 0 => m # 0
             /\ n >= 3 => m >= 3
             /\ Afters(n)[k + 2] = Fewer(m)
<1> DEFINE a == Fewer(n)
           b == Fewer(a)
           c == Fewer(b)
<1>1. a \in Nat /\ a <= n /\ (n # 0 => a # 0) /\ (n >= 3 => a >= 3)
  BY CountsAre
<1>2. b \in Nat /\ b <= a /\ (a # 0 => b # 0) /\ (a >= 3 => b >= 3)
  BY <1>1, CountsAre
<1>3. c \in Nat /\ c <= b /\ (b # 0 => c # 0) /\ (b >= 3 => c >= 3)
  BY <1>2, CountsAre
<1>4. Counts(n) = {n, a, b, c} /\ Afters(n) = <<n, a, b, c, Fewer(c)>>
  BY DEF Counts, Afters
<1> HIDE DEF a, b, c
<1>5. CASE k = 0
  BY <1>1, <1>4, <1>5 DEF a
<1>6. CASE k = 1
  BY <1>1, <1>2, <1>4, <1>6 DEF b
<1>7. CASE k = 2
  BY <1>1, <1>2, <1>3, <1>4, <1>7 DEF c
<1>8. CASE k = 3
  BY <1>1, <1>2, <1>3, <1>4, <1>8
<1> QED
  BY <1>5, <1>6, <1>7, <1>8

\* What one more call makes of the list of files.
LEMMA OneMore ==
  ASSUME NEW fs, NEW S, fs \in Seq(S), NEW x
  PROVE  /\ Append(fs, x) \in Seq(Range(Append(fs, x)))
         /\ Len(Append(fs, x)) = Len(fs) + 1 /\ Append(fs, x) # <<>>
         /\ Append(fs, x)[Len(fs) + 1] = x
         /\ \A k \in 1..Len(fs) : Append(fs, x)[k] = fs[k]
<1> DEFINE T == S \cup {x}
           g == Append(fs, x)
<1>1. fs \in Seq(T) /\ x \in T
  OBVIOUS
<1>2. /\ g \in Seq(T) /\ Len(g) = Len(fs) + 1 /\ Len(fs) \in Nat
      /\ g[Len(fs) + 1] = x /\ \A k \in 1..Len(fs) : g[k] = fs[k]
  <2> HIDE DEF T
  <2> QED BY <1>1
<1> HIDE DEF T, g
<1>3. g \in Seq(Range(g))
  <2>1. DOMAIN g = 1..Len(g) /\ Len(g) \in Nat /\ g \in [1..Len(g) -> T]
    BY <1>2
  <2>2. g \in [1..Len(g) -> Range(g)]
    BY <2>1 DEF Range
  <2> QED
    BY <2>1, <2>2
<1> QED
  BY <1>2, <1>3 DEF g

\* A cell nothing is wrong with has a run.
LEMMA SomeRuns ==
  ASSUME cell \in Inputs, check = ""
  PROVE  cell.n \in Nat \ {0}
<1>1. cell.n \in Nat
  BY InputsAssumption
<1>2. cell.n = 0 => check = "empty"
  BY DEF check
<1> QED
  BY <1>1, <1>2

LEMMA KindIs ==
  ASSUME files \in Seq(Range(files)), Len(files) \in 0..4, More
  PROVE  /\ Len(files) \in 0..3 /\ Kind = ALL[Len(files) + 1]
         /\ Kind \in {"median", "best", "worst", "average"}
<1>1. Len(files) < 4 /\ Kind = ALL[Len(files) + 1]
  <2>1. Len(ALL) = 4
    BY DEF ALL
  <2> QED
    BY <2>1 DEF More, Kind
<1>2. Len(files) \in 0..3
  BY <1>1
<1>3. \A k \in 0..3 : ALL[k + 1] \in {"median", "best", "worst", "average"}
  <2> SUFFICES ASSUME NEW k \in 0..3 PROVE ALL[k + 1] \in {"median", "best", "worst", "average"}
    OBVIOUS
  <2>1. k = 0 \/ k = 1 \/ k = 2 \/ k = 3
    OBVIOUS
  <2> QED
    BY <2>1 DEF ALL
<1> QED
  BY <1>1, <1>2, <1>3

\* Nothing but the cell decides what `choose` makes of it.
LEMMA ChooseStays ==
  ASSUME cell' = cell, NEW kind
  PROVE  choose(kind)' = choose(kind)
<1>1. Cycles' = Cycles
  BY DEF Cycles
<1> QED
  BY <1>1 DEF choose, Op, Perf, Trimmed, Mean, Total, Pick, mean_perf, mean_counter, rank

LEMMA RankedStays ==
  ASSUME cell' = cell, NEW f
  PROVE  RankedGets(f)' <=> RankedGets(f)
  BY DEF RankedGets

-----------------------------------------------------------------------------
LEMMA Starts == Init => Invariant
<1> SUFFICES ASSUME Init PROVE Invariant
  OBVIOUS
<1>0. files = <<>> /\ count = cell.n /\ cell \in Inputs /\ compat \in {"corrected", "upstream"} /\ refused = ""
  BY DEF Init
<1>1. Len(files) = 0 /\ files \in Seq(Range(files))
  <2>1. <<>> \in Seq(Range(<<>>)) /\ Len(<<>>) = 0
    OBVIOUS
  <2> QED
    BY <1>0, <2>1
<1>2. count = Afters(cell.n)[Len(files) + 1]
  <2>1. Len(files) + 1 = 1
    BY <1>1
  <2>2. Afters(cell.n)[1] = cell.n
    BY DEF Afters
  <2>3. Afters(cell.n)[Len(files) + 1] = Afters(cell.n)[1]
    BY <2>1
  <2> QED
    BY <1>0, <2>2, <2>3
<1>3. Typed
  <2>1. Len(files) \in 0..4 /\ files \in Seq(Range(files))
    BY <1>1
  <2> QED
    BY <1>0, <2>1, Zenon DEF Typed
<1>4. \A k \in 1..Len(files) : FALSE
  BY <1>1
<1>5. Corrected /\ Upstreamed /\ EnoughIsReadable
  BY <1>0, <1>2, <1>4, Zenon DEF Corrected, Upstreamed, EnoughIsReadable
<1> QED
  BY <1>3, <1>5 DEF Invariant

\* A call that adds no file leaves them as they were.
LEMMA Stays ==
  ASSUME Invariant, UNCHANGED <<cell, compat, count, files>>
  PROVE  Typed' /\ Corrected' /\ Upstreamed'
<1>1. Typed'
  BY DEF Invariant, Typed
<1>2. Corrected'
  <2>1. \A kind : choose(kind)' = choose(kind)
    BY ChooseStays
  <2> QED
    BY <2>1 DEF Invariant, Corrected
<1>3. Upstreamed'
  <2>1. \A f : RankedGets(f)' <=> RankedGets(f)
    BY RankedStays
  <2> QED
    BY <2>1 DEF Invariant, Upstreamed
<1> QED
  BY <1>1, <1>2, <1>3

LEMMA RefusesKeeps == ASSUME Invariant, Refuses PROVE Invariant'
<1>1. Typed' /\ Corrected' /\ Upstreamed'
  BY Stays DEF Refuses
<1>2. EnoughIsReadable'
  <2>1. check # "would panic"
    BY DEF check
  <2> QED
    BY <2>1 DEF Refuses, EnoughIsReadable
<1> QED
  BY <1>1, <1>2 DEF Invariant

LEMMA CorrectsKeeps == ASSUME Invariant, Corrects PROVE Invariant'
<1>1. Typed /\ Corrected /\ EnoughIsReadable
  BY DEF Invariant
<1>2. /\ More /\ check = "" /\ compat = "corrected" /\ refused = ""
      /\ files' = Append(files, choose(Kind))
      /\ cell' = cell /\ compat' = compat /\ refused' = refused
  BY DEF Corrects, More
<1>3. files \in Seq(Range(files)) /\ Len(files) \in 0..4 /\ cell \in Inputs
  BY <1>1 DEF Typed
<1>4. Len(files) \in 0..3 /\ Kind = ALL[Len(files) + 1]
  BY <1>2, <1>3, KindIs
<1>5. cell.n # 0
  BY <1>2, <1>3, SomeRuns
<1>6. /\ files' \in Seq(Range(files)') /\ Len(files') = Len(files) + 1
      /\ files'[Len(files) + 1] = choose(Kind)
      /\ \A k \in 1..Len(files) : files'[k] = files[k]
  <2> DEFINE x == choose(Kind)
  <2>1. files' = Append(files, x)
    BY <1>2
  <2> HIDE DEF x
  <2>2. /\ Append(files, x) \in Seq(Range(Append(files, x))) /\ Len(Append(files, x)) = Len(files) + 1
        /\ Append(files, x)[Len(files) + 1] = x
        /\ \A k \in 1..Len(files) : Append(files, x)[k] = files[k]
    BY <1>3, OneMore
  <2> QED
    BY <2>1, <2>2, Zenon DEF x
<1>7. Typed'
  <2>1. Len(files') \in 0..4
    BY <1>4, <1>6
  <2> QED
    BY <1>1, <1>2, <1>5, <1>6, <2>1 DEF Typed
<1>8. Corrected'
  <2> SUFFICES ASSUME NEW k \in 1..(Len(files) + 1) PROVE files'[k] = choose(ALL[k])'
    BY <1>6 DEF Corrected
  <2>1. choose(ALL[k])' = choose(ALL[k])
    BY <1>2, ChooseStays
  <2>2. CASE k = Len(files) + 1
    BY <1>4, <1>6, <2>1, <2>2
  <2>3. CASE k \in 1..Len(files)
    BY <1>1, <1>2, <1>6, <2>1, <2>3 DEF Corrected
  <2> QED
    BY <1>4, <2>2, <2>3
<1>9. Upstreamed' /\ EnoughIsReadable'
  BY <1>2 DEF Upstreamed, EnoughIsReadable
<1> QED
  BY <1>7, <1>8, <1>9 DEF Invariant

LEMMA ReplaysKeeps == ASSUME Invariant, Replays PROVE Invariant'
<1>1. Typed /\ Upstreamed /\ EnoughIsReadable
  BY DEF Invariant
<1>2. /\ More /\ check = "" /\ compat = "upstream" /\ refused = "" /\ Fits
      /\ files' = Append(files, choose_one(Kind, Remaining)) /\ count' = Remaining
      /\ cell' = cell /\ compat' = compat /\ refused' = refused
  BY DEF Replays, More
<1>3. files \in Seq(Range(files)) /\ Len(files) \in 0..4 /\ cell \in Inputs
  BY <1>1 DEF Typed
<1>4. /\ Len(files) \in 0..3 /\ Kind = ALL[Len(files) + 1]
      /\ Kind \in {"median", "best", "worst", "average"}
  BY <1>2, <1>3, KindIs
<1>5. cell.n \in Nat \ {0}
  BY <1>2, <1>3, SomeRuns
<1>6. /\ files' \in Seq(Range(files)') /\ Len(files') = Len(files) + 1
      /\ files'[Len(files) + 1] = choose_one(Kind, Remaining)
      /\ \A k \in 1..Len(files) : files'[k] = files[k]
  <2> DEFINE x == choose_one(Kind, Remaining)
  <2>1. files' = Append(files, x)
    BY <1>2
  <2> HIDE DEF x
  <2>2. /\ Append(files, x) \in Seq(Range(Append(files, x))) /\ Len(Append(files, x)) = Len(files) + 1
        /\ Append(files, x)[Len(files) + 1] = x
        /\ \A k \in 1..Len(files) : Append(files, x)[k] = files[k]
    BY <1>3, OneMore
  <2> QED
    BY <2>1, <2>2, Zenon DEF x
<1>7. Typed'
  <2>1. Len(files') \in 0..4
    BY <1>4, <1>6
  <2> QED
    BY <1>1, <1>2, <1>5, <1>6, <2>1 DEF Typed
<1>8. /\ count \in Counts(cell.n) /\ count \in Nat /\ count <= cell.n /\ count # 0
      /\ Afters(cell.n)[Len(files) + 2] = Fewer(count)
  <2>1. count = Afters(cell.n)[Len(files) + 1]
    BY <1>1, <1>2 DEF Upstreamed
  <2> QED
    BY <1>4, <1>5, <2>1, AftersAre
<1>9. count' = Afters(cell'.n)[Len(files') + 1]
  <2>1. Remaining = Fewer(count)
    BY <1>8, LeftIs
  <2>2. Len(files') + 1 = Len(files) + 2
    BY <1>4, <1>6
  <2> QED
    BY <1>2, <1>8, <2>1, <2>2
<1>10. choose_one(Kind, Remaining).kind = Kind /\ RankedGets(choose_one(Kind, Remaining))
  <2>1. choose_one(Kind, Remaining).kind = Kind
    BY DEF choose_one
  <2>2. CASE Kind = "average"
    BY <2>1, <2>2 DEF RankedGets
  <2>3. CASE Kind # "average"
    <3>1. Kind \in {"median", "best", "worst"} /\ index_upstream(Kind, Remaining) < Remaining
      BY <1>2, <1>4, <2>3 DEF Fits
    <3> QED
      BY <1>3, <1>8, <3>1, GetsPicked
  <2> QED
    BY <2>1, <2>2, <2>3
<1>11. \A k \in 1..Len(files') : files'[k].kind = ALL[k] /\ RankedGets(files'[k])
  <2> SUFFICES ASSUME NEW k \in 1..(Len(files) + 1)
               PROVE  files'[k].kind = ALL[k] /\ RankedGets(files'[k])
    BY <1>6
  <2>1. CASE k = Len(files) + 1
    BY <1>4, <1>6, <1>10, <2>1
  <2>2. CASE k \in 1..Len(files)
    BY <1>1, <1>2, <1>6, <2>2 DEF Upstreamed
  <2> QED
    BY <1>4, <2>1, <2>2
<1>12. Upstreamed'
  <2>1. \A f : RankedGets(f)' <=> RankedGets(f)
    BY <1>2, RankedStays
  <2>2. \A k \in 1..Len(files') : RankedGets(files[k])'
    BY <1>11, <2>1
  <2> QED
    BY <1>9, <1>11, <2>2 DEF Upstreamed
<1>13. Corrected' /\ EnoughIsReadable'
  BY <1>2 DEF Corrected, EnoughIsReadable
<1> QED
  BY <1>7, <1>12, <1>13 DEF Invariant

\* Of three runs and more the original always finds what it reads.
LEMMA PanicsKeeps == ASSUME Invariant, WouldPanic PROVE Invariant'
<1>1. Typed' /\ Corrected' /\ Upstreamed'
  BY Stays DEF WouldPanic
<1>2. cell.n < FEWEST
  <2> SUFFICES ASSUME cell.n >= FEWEST PROVE Fits
    <3>1. cell.n \in Nat /\ FEWEST \in Nat /\ ~ Fits
      BY InputsAssumption DEF Invariant, Typed, WouldPanic
    <3> QED
      BY <3>1
  <2>1. /\ More /\ compat = "upstream" /\ cell \in Inputs
        /\ files \in Seq(Range(files)) /\ Len(files) \in 0..4
    BY DEF WouldPanic, Invariant, Typed
  <2>2. Len(files) \in 0..3 /\ Kind \in {"median", "best", "worst", "average"}
    BY <2>1, KindIs
  <2>3. cell.n \in Nat /\ cell.n >= 3
    BY <2>1, InputsAssumption
  <2>4. count = Afters(cell.n)[Len(files) + 1]
    BY <2>1 DEF Invariant, Upstreamed
  <2>5. count \in Nat /\ count >= 3
    BY <2>2, <2>3, <2>4, AftersAre
  <2>6. Remaining \in Nat /\ Remaining >= 3
    BY <2>5, LeftIs, CountsAre
  <2>7. ASSUME NEW w \in Nat, w >= 3 PROVE 0 < w /\ w - 1 < w /\ w \div 2 + 1 < w
    BY <2>7
  <2>8. CASE Kind = "average"
    BY <2>8 DEF Fits
  <2>9. CASE Kind # "average"
    <3>1. index_upstream(Kind, Remaining) \in {0, Remaining - 1, Remaining \div 2 + 1}
      BY <2>2, <2>9 DEF index_upstream
    <3>2. index_upstream(Kind, Remaining) < Remaining
      BY <2>6, <2>7, <3>1
    <3> QED
      BY <3>2 DEF Fits
  <2> QED
    BY <2>8, <2>9
<1>3. EnoughIsReadable'
  BY <1>2 DEF EnoughIsReadable, WouldPanic
<1> QED
  BY <1>1, <1>3 DEF Invariant

LEMMA StatisticsInvariant == StatisticsSpec => []Invariant
<1>1. Init => Invariant
  BY Starts
<1>2. Invariant /\ [Next]_vars => Invariant'
  <2> SUFFICES ASSUME Invariant, [Next]_vars PROVE Invariant'
    OBVIOUS
  <2>1. CASE Refuses
    BY <2>1, RefusesKeeps
  <2>2. CASE Corrects
    BY <2>2, CorrectsKeeps
  <2>3. CASE Replays
    BY <2>3, ReplaysKeeps
  <2>4. CASE WouldPanic
    BY <2>4, PanicsKeeps
  <2>5. CASE UNCHANGED vars
    <3>1. Typed' /\ Corrected' /\ Upstreamed'
      BY <2>5, Stays DEF vars
    <3>2. EnoughIsReadable'
      BY <2>5 DEF vars, Invariant, EnoughIsReadable
    <3> QED
      BY <3>1, <3>2 DEF Invariant
  <2> QED
    BY <2>1, <2>2, <2>3, <2>4, <2>5 DEF Next
<1> QED
  BY <1>1, <1>2, PTL DEF StatisticsSpec

-----------------------------------------------------------------------------
(***************************************************************************)
(* What the four files of a cell say.                                      *)
(***************************************************************************)
LEMMA FileIs ==
  ASSUME files \in Seq(Range(files)), Len(files) = 4,
         \A k \in 1..Len(files) : files[k] = choose(ALL[k])
  PROVE  /\ \A kind \in {"median", "best", "worst", "average"} : File(kind) = choose(kind)
         /\ \A f \in Range(files) : \E kind : f = choose(kind)
<1>1. DOMAIN files = 1..4
  OBVIOUS
<1>2. \A f \in Range(files) : \E k \in 1..4 : f = choose(ALL[k])
  BY <1>1 DEF Range
<1>3. \A kind : choose(kind).kind = kind
  BY DEF choose
<1>4. ASSUME NEW kind \in {"median", "best", "worst", "average"} PROVE File(kind) = choose(kind)
  <2>1. PICK k \in 1..4 : ALL[k] = kind
    <3>1. 1 \in 1..4 /\ 2 \in 1..4 /\ 3 \in 1..4 /\ 4 \in 1..4
      OBVIOUS
    <3>2. ALL[1] = "median" /\ ALL[2] = "best" /\ ALL[3] = "worst" /\ ALL[4] = "average"
      BY DEF ALL
    <3> QED
      BY <1>4, <3>1, <3>2
  <2>2. choose(kind) \in Range(files)
    BY <1>1, <2>1 DEF Range
  <2>3. \A f \in Range(files) : f.kind = kind => f = choose(kind)
    BY <1>2, <1>3
  <2>4. /\ File(kind) \in Range(files) /\ File(kind).kind = kind
    BY <1>3, <2>2 DEF File
  <2> QED
    BY <2>3, <2>4
<1> QED
  BY <1>2, <1>4

\* The worst, the median and the best have their ranks among all the runs.
LEMMA ChosenRanked ==
  ASSUME cell \in Inputs, cell.n # 0, NEW s \in Halves, NEW kind \in {"worst", "median", "best"}
  PROVE  HasRank(cell[s], cell.n, choose(kind)[s].value, Spot(kind))
<1>1. cell[s] \in Keys /\ choose(kind)[s] = Op(kind, cell[s])
  <2>1. CASE s = "sets"
    BY <2>1 DEF Keys, choose
  <2>2. CASE s = "gets"
    BY <2>2 DEF Keys, choose
  <2> QED
    BY <2>1, <2>2 DEF Halves
<1> DEFINE key == cell[s]
           r == Trimmed(key)[index(kind, Len(Trimmed(key))) + 1]
<1>2. HasRank(key, cell.n, key[r], Spot(kind))
  <2> HIDE DEF key
  <2> QED BY <1>1, PickedIs DEF key
<1>3. Op(kind, key).value = key[r]
  <2>1. Op(kind, key) = Value(key[r], 1)
    BY DEF Op, Pick
  <2> HIDE DEF key, r
  <2> QED
    BY <2>1 DEF Value
<1> QED
  BY <1>1, <1>2, <1>3

\* As many cycles as that.
LEMMA ChosenCycles ==
  ASSUME cell \in Inputs, cell.n # 0, NEW kind \in {"worst", "median", "best"}
  PROVE  HasRank(Cycles, cell.n, as_f64(choose(kind).perf["cycles"]), Spot(kind))
<1> DEFINE r == Trimmed(Cycles)[index(kind, Len(Trimmed(Cycles))) + 1]
<1>1. Cycles \in Keys
  BY DEF Keys
<1>2. r \in 1..cell.n /\ HasRank(Cycles, cell.n, Cycles[r], Spot(kind))
  BY <1>1, PickedIs
<1>3. choose(kind).perf = cell.perf[r]
  BY DEF choose, Perf, Pick
<1> HIDE DEF r
<1>4. Cycles[r] = as_f64(cell.perf[r]["cycles"])
  BY <1>2 DEF Cycles, CyclesOf
<1> QED
  BY <1>2, <1>3, <1>4

\* Corrected mode calls by those names what has those ranks among all runs of
\* the cell, its means are within what they are of, and its quartiles on both
\* sides of its median (correct.rs).
THEOREM CorrectedRanked == StatisticsSpec => []CorrectedIsRanked
<1>1. Invariant => CorrectedIsRanked
  <2> SUFFICES ASSUME Invariant, compat = "corrected", Len(files) = 4 PROVE CorrectedIsRanked
    BY DEF CorrectedIsRanked
  <2> DEFINE n == cell.n
             t == Tenth(n)
             at(kind) == CASE kind = "worst"  -> t
                           [] kind = "median" -> (n - 1) \div 2
                           [] kind = "best"   -> n - 1 - t
  <2>1. /\ cell \in Inputs /\ files \in Seq(Range(files))
        /\ files # <<>> => n # 0
        /\ \A k \in 1..Len(files) : files[k] = choose(ALL[k])
    BY DEF Invariant, Typed, Corrected
  <2>2. n \in Nat /\ n # 0 /\ trim_for(n) = t
    <3>1. n \in Nat
      BY <2>1, InputsAssumption
    <3>2. files # <<>>
      OBVIOUS
    <3> HIDE DEF n
    <3> QED
      BY <2>1, <3>1, <3>2, TrimIs
  <2>3. /\ \A kind \in {"median", "best", "worst", "average"} : File(kind) = choose(kind)
        /\ \A f \in Range(files) : \E kind : f = choose(kind)
    BY <2>1, FileIs
  <2>4. \A kind \in {"worst", "median", "best"} : File(kind) = choose(kind) /\ at(kind) = Spot(kind)
    BY <2>2, <2>3 DEF Spot
  <2>5. File("average") = choose("average")
    BY <2>3
  <2>6. ASSUME NEW s \in Halves
        PROVE  LET is(kind) == File(kind)[s].value
                   mean == File("average")[s]
               IN  /\ \A kind \in {"worst", "median", "best"} : HasRank(cell[s], n, is(kind), at(kind))
                   /\ is("worst") * mean.over <= mean.value /\ mean.value <= is("best") * mean.over
                   /\ \A f \in Range(files) : f.spread[s][1] <= is("median") /\ is("median") <= f.spread[s][2]
    <3> DEFINE key == cell[s]
    <3>1. key \in Keys /\ \A kind : choose(kind)[s] = Op(kind, key)
      <4>1. CASE s = "sets"
        BY <4>1 DEF Keys, choose
      <4>2. CASE s = "gets"
        BY <4>2 DEF Keys, choose
      <4> QED
        BY <2>6, <4>1, <4>2 DEF Halves
    <3>2. \A kind : choose(kind).spread[s] = <<rank(key, 25), rank(key, 75)>>
      BY <2>6 DEF choose
    <3>3. \A kind \in {"worst", "median", "best"} : HasRank(key, n, File(kind)[s].value, at(kind))
      <4> SUFFICES ASSUME NEW kind \in {"worst", "median", "best"}
                   PROVE  HasRank(key, n, File(kind)[s].value, at(kind))
        OBVIOUS
      <4>1. HasRank(key, n, choose(kind)[s].value, Spot(kind))
        BY <2>1, <2>2, <2>6, ChosenRanked
      <4>2. File(kind) = choose(kind) /\ at(kind) = Spot(kind)
        BY <2>4
      <4> HIDE DEF key, n, at
      <4> QED
        BY <4>1, <4>2
    <3>4. LET mean == Op("average", key)
          IN  /\ Op("worst", key).value * mean.over <= mean.value
              /\ mean.value <= Op("best", key).value * mean.over
      <4> HIDE DEF key
      <4> QED BY <2>1, <2>2, <3>1, MeanIs
    <3>5. rank(key, 25) <= Op("median", key).value /\ Op("median", key).value <= rank(key, 75)
      <4> HIDE DEF key
      <4> QED BY <2>1, <2>2, <3>1, QuartilesAre
    <3>6. /\ File("worst")[s] = Op("worst", key) /\ File("median")[s] = Op("median", key)
          /\ File("best")[s] = Op("best", key) /\ File("average")[s] = Op("average", key)
      BY <2>3, <3>1
    <3> HIDE DEF key, n, at
    <3>7. \A f \in Range(files) : f.spread[s][1] = rank(key, 25) /\ f.spread[s][2] = rank(key, 75)
      BY <2>3, <3>2
    <3>8. \A f \in Range(files) : /\ f.spread[s][1] <= File("median")[s].value
                                  /\ File("median")[s].value <= f.spread[s][2]
      BY <3>5, <3>6, <3>7, Zenon
    <3>9. /\ File("worst")[s].value * File("average")[s].over <= File("average")[s].value
          /\ File("average")[s].value <= File("best")[s].value * File("average")[s].over
      BY <3>4, <3>6, Zenon
    <3> QED
      BY <3>3, <3>8, <3>9, Zenon DEF key
  <2>7. \A kind \in {"worst", "median", "best"} :
          HasRank(Cycles, n, as_f64(File(kind).perf["cycles"]), at(kind))
    <3> SUFFICES ASSUME NEW kind \in {"worst", "median", "best"}
                 PROVE  HasRank(Cycles, n, as_f64(File(kind).perf["cycles"]), at(kind))
      OBVIOUS
    <3>1. HasRank(Cycles, n, as_f64(choose(kind).perf["cycles"]), Spot(kind))
      BY <2>1, <2>2, ChosenCycles
    <3>2. File(kind) = choose(kind) /\ at(kind) = Spot(kind)
      BY <2>4
    <3> HIDE DEF n, at
    <3> QED
      BY <3>1, <3>2
  <2>8. ASSUME NEW c \in Counters
        PROVE  LET mean    == File("average").perf[c]
                   counted == {r \in 1..n : is_measured(cell.perf[r][c])}
                   values  == {cell.perf[r][c].value : r \in counted}
               IN  is_measured(mean) =>
                     /\ Cardinality(counted) >= n - 2 * t
                     /\ Min(values) * mean.over <= mean.value /\ mean.value <= Max(values) * mean.over
    <3>1. File("average").perf = mean_perf(Trimmed(Cycles))
      <4>1. choose("average").perf = Perf("average")
        BY DEF choose
      <4> QED
        BY <2>5, <4>1 DEF Perf
    <3>2. Width = n - 2 * t
      BY <2>2 DEF Width
    <3> QED
      BY <2>1, <2>2, <2>8, <3>1, <3>2, CounterIs
  <2> HIDE DEF n, t, at
  <2> QED
    BY <2>6, <2>7, <2>8, Zenon DEF CorrectedIsRanked, n, t, at
<1> QED
  BY <1>1, StatisticsInvariant, PTL

\* A cell of as many runs as `choose` asks for is never one on which the
\* original reads past its slice (upstream.rs).
THEOREM EnoughReadable == StatisticsSpec => []EnoughIsReadable
<1>1. Invariant => EnoughIsReadable
  BY DEF Invariant
<1> QED
  BY <1>1, StatisticsInvariant, PTL

\* Each GET result of upstream mode has the rank its index says among the runs
\* that were opened for it (upstream.rs).
THEOREM UpstreamRanked == StatisticsSpec => []UpstreamGetsAreRanked
<1>1. Invariant => UpstreamGetsAreRanked
  <2> SUFFICES ASSUME Invariant, compat = "upstream",
                      NEW f \in Range(files) \ {g \in Range(files) : g.kind = "average"}
               PROVE  HasRank(cell.gets, f.read, f.gets.value, PlaceOf(f.kind, f.read))
    BY Zenon DEF UpstreamGetsAreRanked, PlaceOf
  <2>1. DOMAIN files = 1..Len(files)
    BY DEF Invariant, Typed
  <2>2. PICK k \in 1..Len(files) : f = files[k]
    BY <2>1 DEF Range
  <2>3. RankedGets(files[k])
    BY DEF Invariant, Upstreamed
  <2> QED
    BY <2>2, <2>3 DEF RankedGets
<1> QED
  BY <1>1, StatisticsInvariant, PTL

-----------------------------------------------------------------------------
(***************************************************************************)
(* A picture reads as its numbers.                                         *)
(***************************************************************************)
\* A set of numbers has a least member.
LEMMA LeastIs ==
  ASSUME NEW S, S \subseteq Nat, S # {}
  PROVE  Min(S) \in S /\ \A n \in S : Min(S) <= n
<1>1. PICK m \in S : \A n \in S : m <= n
  BY LeastOf
<1>2. \E x \in S : \A y \in S : x <= y
  BY <1>1
<1> QED
  BY <1>2 DEF Min

\* A set of numbers that nothing exceeds has a greatest member.
LEMMA Greatest ==
  ASSUME NEW S, S \subseteq Nat, S # {}, NEW top \in Nat, \A n \in S : n <= top
  PROVE  Max(S) \in S /\ \A n \in S : n <= Max(S)
<1> DEFINE T == {m \in Nat : \A n \in S : n <= m}
<1>1. T \subseteq Nat /\ T # {}
  OBVIOUS
<1>2. PICK m \in T : \A k \in T : m <= k
  <2> HIDE DEF T
  <2> QED BY <1>1, LeastIs
<1>3. m \in S
  <2> SUFFICES ASSUME m \notin S PROVE FALSE
    OBVIOUS
  <2>1. \A n \in S : n < m
    BY <1>2
  <2>2. m - 1 \in Nat
    <3>1. PICK n \in S : n \in Nat
      OBVIOUS
    <3>2. m \in Nat /\ n < m
      BY <1>2, <2>1
    <3> QED
      BY <3>1, <3>2
  <2>3. m - 1 \in T
    BY <1>2, <2>1, <2>2
  <2> QED
    BY <1>2, <2>2, <2>3
<1>4. \A n \in S : m >= n
  BY <1>2
<1>5. \E x \in S : \A y \in S : x >= y
  BY <1>3, <1>4
<1>6. Max(S) \in S /\ \A y \in S : Max(S) >= y
  BY <1>5, Zenon DEF Max
<1> QED
  BY <1>6

\* The members of a set are put in order, each in one place.
LEMMA InOrderAre ==
  ASSUME NEW S, S \subseteq Nat, IsFiniteSet(S)
  PROVE  LET n == Cardinality(S)
         IN  /\ n \in Nat /\ DOMAIN Ascending(S) = 1..n
             /\ \A k \in 1..n : Ascending(S)[k] \in S
             /\ \A x \in S : \E k \in 1..n : Ascending(S)[k] = x
             /\ \A j, k \in 1..n : Ascending(S)[j] < Ascending(S)[k] => j < k
<1> DEFINE n == Cardinality(S)
           below(x) == {y \in S : y < x}
           f == [x \in S |-> Cardinality(below(x)) + 1]
<1>1. n \in Nat
  BY FS_CardinalityType
<1>2. ASSUME NEW x \in S
      PROVE  IsFiniteSet(below(x)) /\ Cardinality(below(x)) \in 0..(n - 1)
  <2>1. below(x) \in SUBSET (S \ {x})
    OBVIOUS
  <2>2. IsFiniteSet(S \ {x}) /\ Cardinality(S \ {x}) = n - 1
    BY FS_RemoveElement
  <2> HIDE DEF below
  <2>3. IsFiniteSet(below(x)) /\ Cardinality(below(x)) <= n - 1
    BY <2>1, <2>2, FS_Subset
  <2>4. Cardinality(below(x)) \in Nat
    BY <2>3, FS_CardinalityType
  <2> QED
    BY <1>1, <2>3, <2>4
<1>3. ASSUME NEW x \in S, NEW z \in S, x < z
      PROVE  Cardinality(below(x)) < Cardinality(below(z))
  <2>0. x \in Nat /\ z \in Nat /\ \A y \in S : y \in Nat /\ (y < x => y < z /\ y # x)
    BY <1>3
  <2>1. x \in below(z) /\ below(x) \in SUBSET (below(z) \ {x})
    BY <1>3, <2>0
  <2> HIDE DEF below
  <2>2. IsFiniteSet(below(z)) /\ Cardinality(below(z)) \in Nat
    BY <1>1, <1>2
  <2>3. IsFiniteSet(below(z) \ {x}) /\ Cardinality(below(z) \ {x}) = Cardinality(below(z)) - 1
    BY <2>1, <2>2, FS_RemoveElement
  <2>4. Cardinality(below(x)) <= Cardinality(below(z) \ {x})
    BY <2>1, <2>3, FS_Subset
  <2>5. Cardinality(below(x)) \in Nat
    BY <1>1, <1>2
  <2> QED
    BY <2>2, <2>3, <2>4, <2>5
<1> HIDE DEF below
<1>4. \A x, z \in S : Cardinality(below(x)) = Cardinality(below(z)) => x = z
  <2> SUFFICES ASSUME NEW x \in S, NEW z \in S, Cardinality(below(x)) = Cardinality(below(z)), x # z
               PROVE  FALSE
    OBVIOUS
  <2>1. Cardinality(below(x)) \in Nat /\ Cardinality(below(z)) \in Nat
    BY <1>1, <1>2
  <2>2. x < z \/ z < x
    OBVIOUS
  <2>3. CASE x < z
    BY <1>3, <2>1, <2>3
  <2>4. CASE z < x
    BY <1>3, <2>1, <2>4
  <2> QED
    BY <2>2, <2>3, <2>4
<1>5. f \in Surjection(S, 1..n)
  <2>1. \A x \in S : f[x] \in 1..n
    BY <1>1, <1>2
  <2>2. f \in [S -> 1..n]
    BY <2>1
  <2>3. \A x, z \in S : f[x] = f[z] => x = z
    <3> SUFFICES ASSUME NEW x \in S, NEW z \in S, f[x] = f[z] PROVE x = z
      OBVIOUS
    <3>1. Cardinality(below(x)) \in Nat /\ Cardinality(below(z)) \in Nat
      BY <1>1, <1>2
    <3> QED
      BY <1>4, <3>1
  <2> HIDE DEF f
  <2>4. f \in Injection(S, 1..n)
    BY <2>2, <2>3 DEF Injection, IsInjective
  <2>5. IsFiniteSet(1..n) /\ Cardinality(1..n) = n
    BY <1>1, FS_Interval
  <2> QED
    BY <2>4, <2>5, FS_Injection
<1>6. ASSUME NEW k \in 1..n
      PROVE  Ascending(S)[k] \in S /\ Cardinality(below(Ascending(S)[k])) = k - 1
  <2>1. PICK x \in S : f[x] = k
    <3> HIDE DEF f
    <3> QED BY <1>5 DEF Surjection
  <2>2. Cardinality(below(x)) = k - 1
    BY <1>1, <1>2, <2>1
  <2>3. Ascending(S)[k] = CHOOSE y \in S : Cardinality(below(y)) = k - 1
    BY DEF Ascending, below
  <2> HIDE DEF n, f
  <2> QED
    BY <2>2, <2>3
<1>7. ASSUME NEW x \in S PROVE \E k \in 1..n : Ascending(S)[k] = x
  <2> DEFINE k == Cardinality(below(x)) + 1
  <2>1. k \in 1..n /\ k - 1 = Cardinality(below(x))
    BY <1>1, <1>2
  <2> HIDE DEF k
  <2>2. Ascending(S)[k] \in S /\ Cardinality(below(Ascending(S)[k])) = k - 1
    BY <1>6, <2>1
  <2> QED
    BY <1>4, <2>1, <2>2
<1>8. ASSUME NEW j \in 1..n, NEW k \in 1..n, Ascending(S)[j] < Ascending(S)[k] PROVE j < k
  <2>1. /\ Ascending(S)[j] \in S /\ Cardinality(below(Ascending(S)[j])) = j - 1
        /\ Ascending(S)[k] \in S /\ Cardinality(below(Ascending(S)[k])) = k - 1
    BY <1>6
  <2>2. Cardinality(below(Ascending(S)[j])) < Cardinality(below(Ascending(S)[k]))
    BY <1>3, <1>8, <2>1
  <2>3. j - 1 < k - 1
    BY <2>1, <2>2
  <2> QED
    BY <1>1, <2>3
<1>9. DOMAIN Ascending(S) = 1..n
  BY DEF Ascending
<1> QED
  BY <1>1, <1>6, <1>7, <1>8, <1>9

\* Where something stands in a row it is in.
LEMMA PlaceIs ==
  ASSUME NEW row, NEW x, \E at \in DOMAIN row : row[at] = x
  PROVE  Place(row, x) \in DOMAIN row /\ row[Place(row, x)] = x
  BY DEF Place

\* The legend has every engine, and no more of them than there are colours.
LEMMA LegendIs ==
  ASSUME NEW entries, Legible(entries), ~ BadCorpus(entries)
  PROVE  LET row == Series(entries)
             m   == Cardinality(Firsts(entries))
         IN  /\ m \in Nat /\ DOMAIN row = 1..m /\ Len(row) = m /\ BAR_WIDTH * m <= UNIT
             /\ \A c \in Caches(entries) : \E at \in DOMAIN row : row[at] = c
<1> DEFINE D == DOMAIN entries
           F == Firsts(entries)
           m == Cardinality(F)
           row == Series(entries)
<1>1. D \subseteq Nat /\ IsFiniteSet(D) /\ D = 1..Len(entries)
  <2>1. D = 1..Len(entries) /\ Len(entries) \in Nat
    BY DEF Legible
  <2> HIDE DEF D
  <2> QED
    BY <2>1, FS_Interval
<1>2. F \in SUBSET D /\ \A i \in F : \A j \in 1..(i - 1) : entries[j].cache # entries[i].cache
  BY DEF Firsts
<1>3. IsFiniteSet(F)
  <2> HIDE DEF D, F
  <2> QED BY <1>1, <1>2, FS_Subset
<1>4. /\ m \in Nat /\ DOMAIN Ascending(F) = 1..m
      /\ \A k \in 1..m : Ascending(F)[k] \in F
      /\ \A x \in F : \E k \in 1..m : Ascending(F)[k] = x
  <2> HIDE DEF D, F
  <2>1. F \subseteq Nat
    BY <1>1, <1>2
  <2> QED
    BY <1>3, <2>1, InOrderAre
<1>5. row = [k \in 1..m |-> entries[Ascending(F)[k]].cache]
  BY DEF Series
<1>6. \A i \in D : entries[i].cache \in ASSIGNED
  BY DEF BadCorpus, Range
<1>7. m <= Cardinality(ASSIGNED)
  <2> DEFINE f == [i \in F |-> entries[i].cache]
  <2>1. \A i, j \in F : entries[i].cache = entries[j].cache => i = j
    <3> SUFFICES ASSUME NEW i \in F, NEW j \in F, i < j PROVE entries[i].cache # entries[j].cache
      BY <1>1, <1>2
    <3>1. i \in Nat /\ i >= 1 /\ j \in Nat
      BY <1>1, <1>2
    <3>2. i \in 1..(j - 1)
      BY <3>1
    <3> QED
      BY <1>2, <3>2
  <2>2. f \in [F -> ASSIGNED]
    BY <1>2, <1>6
  <2>3. \A i, j \in F : f[i] = f[j] => i = j
    BY <2>1
  <2> HIDE DEF F, f
  <2>4. f \in Injection(F, ASSIGNED)
    BY <2>2, <2>3 DEF Injection, IsInjective
  <2> QED
    BY <1>3, <2>4, ColoursAssumption, FS_Injection
<1>8. ASSUME NEW c \in Caches(entries) PROVE \E at \in 1..m : row[at] = c
  <2> DEFINE S == {i \in D : entries[i].cache = c}
             i == Min(S)
  <2>1. S # {} /\ S \subseteq Nat
    BY <1>1, <1>8 DEF Caches, Range
  <2>2. i \in S /\ \A j \in S : i <= j
    <3> HIDE DEF S
    <3> QED BY <2>1, LeastIs
  <2>3. i \in F
    <3>1. i \in D /\ entries[i].cache = c
      BY <2>2
    <3>2. \A j \in D : entries[j].cache = c => i <= j
      BY <2>2
    <3> HIDE DEF i, S
    <3>3. \A j \in 1..(i - 1) : j \in D /\ ~ (i <= j)
      BY <1>1, <3>1
    <3> QED
      BY <3>1, <3>2, <3>3 DEF Firsts
  <2>4. PICK k \in 1..m : Ascending(F)[k] = i
    BY <1>4, <2>3
  <2> HIDE DEF F, row
  <2> QED
    BY <1>5, <2>2, <2>4
<1>9. BAR_WIDTH * m <= UNIT
  <2>1. Cardinality(ASSIGNED) \in Nat
    BY ColoursAssumption, FS_CardinalityType
  <2> HIDE DEF m
  <2> QED
    BY <1>4, <1>7, <2>1, ColoursAssumption DEF BAR_WIDTH, UNIT
<1>10. DOMAIN row = 1..m /\ Len(row) = m
  <2> HIDE DEF m, F
  <2> QED BY <1>4, <1>5
<1> QED
  BY <1>4, <1>8, <1>9, <1>10

\* The groups are the thread counts there are, from few to many.
LEMMA GroupsAre ==
  ASSUME NEW entries, Legible(entries)
  PROVE  LET row == Groups(entries)
             n   == Cardinality(Threads(entries))
         IN  /\ n \in Nat /\ DOMAIN row = 1..n
             /\ \A t \in Threads(entries) : t \in Nat /\ \E at \in DOMAIN row : row[at] = t
             /\ \A j, k \in 1..n : row[j] < row[k] => j < k
<1> DEFINE D == DOMAIN entries
           T == Threads(entries)
           f == [i \in D |-> entries[i].threads]
<1>1. IsFiniteSet(D)
  <2>1. D = 1..Len(entries) /\ Len(entries) \in Nat
    BY DEF Legible
  <2> HIDE DEF D
  <2> QED
    BY <2>1, FS_Interval
<1>2. T = {entries[i].threads : i \in D} /\ T \subseteq Nat
  BY DEF Threads, Range, Legible
<1>3. IsFiniteSet(T)
  <2> HIDE DEF D, T
  <2>1. f \in Surjection(D, T)
    BY <1>2 DEF Surjection
  <2> HIDE DEF f
  <2> QED
    BY <1>1, <2>1, FS_Surjection
<1> HIDE DEF T
<1>4. LET n == Cardinality(T)
      IN  /\ n \in Nat /\ DOMAIN Ascending(T) = 1..n
          /\ \A k \in 1..n : Ascending(T)[k] \in T
          /\ \A x \in T : \E k \in 1..n : Ascending(T)[k] = x
          /\ \A j, k \in 1..n : Ascending(T)[j] < Ascending(T)[k] => j < k
  BY <1>2, <1>3, InOrderAre
<1>5. Groups(entries) = Ascending(T)
  BY DEF Groups, T
<1> QED
  BY <1>2, <1>4, <1>5 DEF T

-----------------------------------------------------------------------------
\* A quotient rounded to the nearest is a number.
LEMMA NearestIs ==
  ASSUME NEW n \in Nat, NEW d \in Nat \ {0}
  PROVE  Nearest(n, d) \in Nat
<1>1. n \div d \in Nat
  OBVIOUS
<1> DEFINE whole == n \div d
<1>2. Nearest(n, d) = whole \/ Nearest(n, d) = whole + 1
  BY DEF Nearest
<1> HIDE DEF whole
<1>3. whole \in Nat
  BY <1>1 DEF whole
<1> QED
  BY <1>2, <1>3

\* What is plotted is a number, or nothing.
LEMMA PointIs ==
  ASSUME NEW entries, Legible(entries), ~ BadCorpus(entries), NEW way, NEW spec \in All, NEW cache, NEW threads
  PROVE  LET v == Point(entries, way, spec, cache, threads)
         IN  v \in Nat \cup {NoPoint} /\ v <= 10 ^ MOST
<1> DEFINE D == DOMAIN entries
           cells == Cells(entries, spec, cache, threads)
           v == Point(entries, way, spec, cache, threads)
           operations == entries[1].operations
<1> SUFFICES v \in Nat \cup {NoPoint} /\ v <= 10 ^ MOST
  OBVIOUS
<1>1. /\ D = 1..Len(entries) /\ Len(entries) \in Nat
      /\ \A i \in D : /\ entries[i].operations \in Nat \ {0} /\ entries[i].cycles \in Nat
                     /\ PerOperation(entries[i].cycles, operations) <= 10 ^ MOST
      /\ \A i \in D : \A w \in Which : entries[i].opsec[w] \in Nat /\ Kops(entries[i].opsec[w]) <= 10 ^ MOST
      /\ \A i \in D : \A w \in Which : \A p \in PERCENTILES :
           entries[i].latency[w][p] \in Nat /\ Micros(entries[i].latency[w][p]) <= 10 ^ MOST
  BY DEF Legible, Plottable
<1>2. MOST \in Nat /\ 10 ^ MOST \in Nat
  <2>1. MOST \in 0..MOST
    BY DecadesAssumption
  <2> QED
    BY <2>1, DecadesAssumption
<1>3. ASSUME NEW x \in {0, NoPoint} PROVE x \in Nat \cup {NoPoint} /\ x <= 10 ^ MOST
  BY <1>2, <1>3 DEF NoPoint
<1>4. Absent(way) \in {0, NoPoint}
  BY DEF Absent
<1>5. CASE Drops(spec, cache, threads) \/ cells = {}
  <2>1. v = Absent(way)
    BY <1>5 DEF Point
  <2> QED
    BY <1>3, <1>4, <2>1
<1>6. CASE ~ (Drops(spec, cache, threads) \/ cells = {})
  <2> DEFINE i == Min(cells)
  <2>1. v = Read(entries[i], spec, way, operations)
    BY <1>6 DEF Point
  <2>2. i \in D
    <3>1. cells \subseteq D /\ cells # {}
      BY <1>6 DEF Cells
    <3> HIDE DEF cells
    <3>2. cells \subseteq Nat
      BY <1>1, <3>1
    <3>3. i \in cells
      BY <3>1, <3>2, LeastIs
    <3> QED
      BY <3>1, <3>3
  <2>3. operations \in Nat \ {0}
    <3>1. 1 \in D
      BY <1>1, <2>2
    <3> QED
      BY <1>1, <3>1
  <2>4. spec.metric \in Metrics
    BY ChartsAssumption DEF All, Spec, Redraws, Metrics
  <2> HIDE DEF i, D, cells, operations, v
  <2> DEFINE e == entries[i]
             w == spec.metric.which
             p == spec.metric.percentile
  <2>5. CASE spec.metric.slug = "opsec"
    <3>1. w \in Which
      BY <2>4, <2>5 DEF Metrics, Throughput, Latency, CpuCycles
    <3>2. v = Kops(e.opsec[w])
      BY <2>1, <2>5 DEF Read
    <3>3. e.opsec[w] \in Nat /\ Kops(e.opsec[w]) <= 10 ^ MOST
      BY <1>1, <2>2, <3>1
    <3> HIDE DEF e, w
    <3>4. Kops(e.opsec[w]) \in Nat
      BY <3>3 DEF Kops
    <3> QED
      BY <3>2, <3>3, <3>4
  <2>6. CASE spec.metric.slug = "latency"
    <3>1. w \in Which /\ p \in PERCENTILES
      BY <2>4, <2>6 DEF Metrics, Throughput, Latency, CpuCycles
    <3>2. v = Micros(e.latency[w][p])
      BY <2>1, <2>6 DEF Read
    <3>3. e.latency[w][p] \in Nat /\ Micros(e.latency[w][p]) <= 10 ^ MOST
      BY <1>1, <2>2, <3>1
    <3> HIDE DEF e, w, p
    <3>4. Micros(e.latency[w][p]) \in Nat
      BY <3>3, NearestIs DEF Micros
    <3> QED
      BY <3>2, <3>3, <3>4
  <2>7. CASE spec.metric.slug # "opsec" /\ spec.metric.slug # "latency"
    <3>1. v = IF e.measured THEN PerOperation(e.cycles, operations) ELSE Absent(way)
      BY <2>1, <2>7 DEF Read
    <3>2. e.cycles \in Nat /\ PerOperation(e.cycles, operations) <= 10 ^ MOST
      BY <1>1, <2>2
    <3> HIDE DEF e
    <3>3. PerOperation(e.cycles, operations) \in Nat
      <4>1. 2 * operations \in Nat \ {0}
        BY <2>3
      <4> QED
        BY <3>2, <4>1, NearestIs DEF PerOperation
    <3> QED
      BY <1>3, <1>4, <3>1, <3>2, <3>3
  <2> QED
    BY <2>5, <2>6, <2>7
<1> QED
  BY <1>5, <1>6

\* The greatest and the least of what is plotted.
LEMMA ValuesAre ==
  ASSUME NEW chart, \A x \in DOMAIN chart : chart[x] \in Nat \cup {NoPoint} /\ chart[x] <= 10 ^ MOST,
         Values(chart) # {}
  PROVE  LET high == Max(Values(chart))
             low  == Min(Values(chart))
         IN  /\ low \in Nat /\ high \in Nat /\ high <= 10 ^ MOST
             /\ \A x \in DOMAIN chart : chart[x] # NoPoint => low <= chart[x] /\ chart[x] <= high
<1> DEFINE V == Values(chart)
<1>1. V \subseteq Nat /\ \A v \in V : v <= 10 ^ MOST
  BY DEF Values, Range
<1>2. \A x \in DOMAIN chart : chart[x] # NoPoint => chart[x] \in V
  BY DEF Values, Range
<1>3. 10 ^ MOST \in Nat
  <2>1. MOST \in 0..MOST
    BY DecadesAssumption
  <2> QED
    BY <2>1, DecadesAssumption
<1> HIDE DEF V
<1>4. Max(V) \in V /\ \A v \in V : v <= Max(V)
  BY <1>1, <1>3, Greatest DEF V
<1>5. Min(V) \in V /\ \A v \in V : Min(V) <= v
  BY <1>1, LeastIs DEF V
<1> QED
  BY <1>1, <1>2, <1>4, <1>5 DEF V

\* The powers of ten that enclose what is plotted.
LEMMA PowersAre ==
  ASSUME NEW low \in Nat \ {0}, NEW high \in Nat, high <= 10 ^ MOST
  PROVE  LET b == Bottom(low)
             t == Top(high)
         IN  /\ b \in 0..MOST /\ 10 ^ b \in Nat /\ 10 ^ b <= low
             /\ t \in 0..MOST /\ 10 ^ t \in Nat /\ high <= 10 ^ t
<1> DEFINE B == {e \in EXPONENTS : 10 ^ e <= low}
           T == {e \in EXPONENTS : high <= 10 ^ e}
<1>1. MOST \in Nat /\ 0 \in 0..MOST /\ MOST \in 0..MOST
  BY DecadesAssumption
<1>2. \A e \in 0..MOST : 10 ^ e \in Nat
  BY <1>1, DecadesAssumption
<1>3. 0 \in B /\ B \subseteq Nat /\ \A e \in B : e <= MOST
  <2>1. 10 ^ 0 <= low
    BY DecadesAssumption
  <2> QED
    BY <1>1, <2>1 DEF EXPONENTS
<1>4. MOST \in T /\ T \subseteq Nat
  BY <1>1 DEF EXPONENTS
<1>5. Bottom(low) \in B
  <2>1. Max(B) \in B
    <3> HIDE DEF B
    <3> QED BY <1>1, <1>3, Greatest
  <2> QED
    BY <2>1 DEF Bottom
<1>6. Top(high) \in T
  <2>1. Min(T) \in T
    <3> HIDE DEF T
    <3> QED BY <1>4, LeastIs
  <2> QED
    BY <2>1 DEF Top
<1> QED
  BY <1>2, <1>5, <1>6 DEF EXPONENTS

\* Of two values that are plotted the greater has the higher bar.
LEMMA HeightsRank ==
  ASSUME NEW chart, \A x \in DOMAIN chart : chart[x] \in Nat \cup {NoPoint} /\ chart[x] <= 10 ^ MOST,
         NEW scale \in Scales, ~ Unscalable(scale, chart),
         NEW x \in DOMAIN chart, NEW y \in DOMAIN chart, NoPoint < chart[x], chart[x] < chart[y]
  PROVE  Height(chart[x], Axis(scale, chart)) < Height(chart[y], Axis(scale, chart))
<1> DEFINE low  == Min(Values(chart))
           high == Max(Values(chart))
           axis == Axis(scale, chart)
           v == chart[x]
           w == chart[y]
<1>1. v \in Nat /\ w \in Nat /\ v # NoPoint /\ w # NoPoint
  BY DEF NoPoint
<1>2. Values(chart) # {}
  BY DEF Unscalable
<1>3. /\ low \in Nat /\ high \in Nat /\ high <= 10 ^ MOST
      /\ low <= v /\ v <= high /\ low <= w /\ w <= high
  BY <1>1, <1>2, ValuesAre
<1>4. ASSUME NEW a \in Int, NEW b \in Int, a <= b PROVE Min({a, b}) = a
  <2>1. \A n \in {a, b} : a <= n
    BY <1>4
  <2>2. \A n \in {a, b} : (\A k \in {a, b} : n <= k) => n = a
    BY <1>4
  <2> QED
    BY <2>1, <2>2 DEF Min
<1> HIDE DEF low, high, v, w
<1>5. CASE scale = "logarithmic"
  <2> DEFINE b == Bottom(low)
             t == Top(high)
             floor == 10 ^ b
             ceiling == 10 ^ t
  <2>1. low # 0
    BY <1>2, <1>3, <1>5 DEF Unscalable, low
  <2>2. /\ floor \in Nat /\ floor <= low
        /\ ceiling \in Nat /\ high <= ceiling
    BY <1>3, <2>1, PowersAre
  <2>3. axis.unit = 1 /\ axis.bottom = floor /\ axis.top = ceiling
    BY <1>5 DEF Axis, logarithmic, low, high
  <2> HIDE DEF axis, floor, ceiling
  <2>4. axis.top # axis.bottom
    BY <1>1, <1>3, <2>2, <2>3 DEF v, w
  <2>5. Height(v, axis) = v - floor /\ Height(w, axis) = w - floor
    <3>1. Height(v, axis) = Min({v * axis.unit, axis.top}) - axis.bottom
      BY <1>1, <2>4 DEF Height
    <3>2. Height(w, axis) = Min({w * axis.unit, axis.top}) - axis.bottom
      BY <1>1, <2>4 DEF Height
    <3>3. v * axis.unit = v /\ w * axis.unit = w
      BY <1>1, <2>3
    <3>4. v <= ceiling /\ w <= ceiling
      BY <1>1, <1>3, <2>2
    <3>5. Min({v, ceiling}) = v /\ Min({w, ceiling}) = w
      BY <1>1, <1>4, <2>2, <3>4
    <3> QED
      BY <2>3, <3>1, <3>2, <3>3, <3>5
  <2>6. v - floor < w - floor
    BY <1>1, <2>2 DEF v, w
  <2> QED
    BY <2>5, <2>6 DEF axis, v, w
<1>6. CASE scale = "linear"
  <2>1. axis.unit = 10 /\ axis.bottom = 0 /\ axis.top = 11 * high
    BY <1>6 DEF Axis, linear, high
  <2>0. v < w
    BY DEF v, w
  <2> HIDE DEF axis
  <2>2. high # 0 /\ axis.top # axis.bottom
    BY <1>1, <1>3, <2>0, <2>1
  <2>3. Height(v, axis) = v * 10 /\ Height(w, axis) = w * 10
    <3>1. Height(v, axis) = Min({v * axis.unit, axis.top}) - axis.bottom
      BY <1>1, <2>2 DEF Height
    <3>2. Height(w, axis) = Min({w * axis.unit, axis.top}) - axis.bottom
      BY <1>1, <2>2 DEF Height
    <3>3. v * 10 <= 11 * high /\ w * 10 <= 11 * high
      BY <1>1, <1>3
    <3>4. Min({v * 10, 11 * high}) = v * 10 /\ Min({w * 10, 11 * high}) = w * 10
      BY <1>1, <1>3, <1>4, <3>3
    <3>5. v * 10 - 0 = v * 10 /\ w * 10 - 0 = w * 10
      BY <1>1
    <3> QED
      BY <2>1, <3>1, <3>2, <3>4, <3>5
  <2>4. v * 10 < w * 10
    BY <1>1, <2>0
  <2> QED
    BY <2>3, <2>4 DEF axis, v, w
<1> QED
  BY <1>5, <1>6 DEF Scales

\* The ticks rise, and a gridline is between two of them.
LEMMA TicksRise ==
  ASSUME NEW chart, \A x \in DOMAIN chart : chart[x] \in Nat \cup {NoPoint} /\ chart[x] <= 10 ^ MOST,
         NEW scale \in Scales, ~ Unscalable(scale, chart)
  PROVE  LET axis == Axis(scale, chart)
         IN  /\ \A t, u \in axis.ticks : t.at < u.at => t.label <= u.label
             /\ \A l \in axis.lines : /\ \E t \in axis.ticks : t.at < l
                                      /\ \E t \in axis.ticks : l < t.at
<1> DEFINE low  == Min(Values(chart))
           high == Max(Values(chart))
           axis == Axis(scale, chart)
<1>1. Values(chart) # {}
  BY DEF Unscalable
<1>2. low \in Nat /\ high \in Nat /\ high <= 10 ^ MOST
  BY <1>1, ValuesAre
<1> HIDE DEF low, high
<1>3. CASE scale = "logarithmic"
  <2> DEFINE b == Bottom(low)
             t == Top(high)
             tick(e) == [at |-> EIGHTHS * e, label |-> 10 ^ e]
  <2>1. low # 0
    BY <1>1, <1>2, <1>3 DEF Unscalable, low
  <2>2. b \in 0..MOST /\ t \in 0..MOST
    BY <1>2, <2>1, PowersAre
  <2>3. /\ axis.ticks = {tick(e) : e \in b..t}
        /\ axis.lines = {i \in (EIGHTHS * b)..(EIGHTHS * t - 1) : i % EIGHTHS # 0}
    BY <1>3 DEF Axis, logarithmic, low, high
  <2> HIDE DEF axis, b, t
  <2>4. b..t \subseteq 0..MOST /\ MOST \in Nat
    BY <2>2, DecadesAssumption
  <2>5. ASSUME NEW p \in axis.ticks, NEW q \in axis.ticks, p.at < q.at PROVE p.label <= q.label
    <3>1. PICK e \in b..t : p = tick(e)
      BY <2>3
    <3>2. PICK f \in b..t : q = tick(f)
      BY <2>3
    <3>3. p.at = 8 * e /\ p.label = 10 ^ e /\ q.at = 8 * f /\ q.label = 10 ^ f
      BY <3>1, <3>2 DEF EIGHTHS
    <3>4. e \in 0..MOST /\ f \in 0..MOST
      BY <2>4
    <3>5. e < f
      BY <2>5, <3>3, <3>4
    <3>6. 10 ^ e \in Nat /\ 10 ^ f \in Nat /\ 10 ^ e < 10 ^ f
      BY <3>4, <3>5, DecadesAssumption
    <3> QED
      BY <3>3, <3>6
  <2>6. ASSUME NEW l \in axis.lines
        PROVE  (\E p \in axis.ticks : p.at < l) /\ (\E p \in axis.ticks : l < p.at)
    <3>1. l \in (8 * b)..(8 * t - 1) /\ l % 8 # 0
      BY <2>3 DEF EIGHTHS
    <3>2. b \in Nat /\ t \in Nat
      BY <2>2, <2>4
    <3>3. b \in b..t /\ t \in b..t
      BY <3>1, <3>2
    <3>4. tick(b) \in axis.ticks /\ tick(t) \in axis.ticks /\ tick(b).at = 8 * b /\ tick(t).at = 8 * t
      BY <2>3, <3>3 DEF EIGHTHS
    <3>5. 8 * b < l /\ l < 8 * t
      <4>1. l # 8 * b
        BY <3>1, <3>2
      <4> QED
        BY <3>1, <3>2, <4>1
    <3> HIDE DEF tick
    <3> QED
      BY <3>4, <3>5
  <2> QED
    BY <2>5, <2>6 DEF axis
<1>4. CASE scale = "linear"
  <2> DEFINE tick(i) == [at |-> QUARTERS * i, label |-> (11 * high * i) \div (10 * GAPS)]
  <2>1. /\ axis.ticks = {tick(i) : i \in 0..GAPS}
        /\ axis.lines = {i \in 0..(QUARTERS * GAPS) : i % QUARTERS # 0}
    BY <1>4 DEF Axis, linear, high
  <2> HIDE DEF axis
  <2>2. ASSUME NEW p \in axis.ticks, NEW q \in axis.ticks, p.at < q.at PROVE p.label <= q.label
    <3>1. PICK i \in 0..19 : p = tick(i)
      BY <2>1 DEF GAPS
    <3>2. PICK j \in 0..19 : q = tick(j)
      BY <2>1 DEF GAPS
    <3>3. /\ p.at = 4 * i /\ p.label = (11 * high * i) \div 190
          /\ q.at = 4 * j /\ q.label = (11 * high * j) \div 190
      BY <3>1, <3>2 DEF QUARTERS, GAPS
    <3>4. i < j /\ i \in Nat /\ j \in Nat
      BY <2>2, <3>3
    <3>5. 11 * high * i \in Nat /\ 11 * high * j \in Nat /\ 11 * high * i <= 11 * high * j
      <4>1. ASSUME NEW k \in Nat PROVE k * i \in Nat /\ k * j \in Nat /\ k * i <= k * j
        <5>1. k * j = k * i + k * (j - i) /\ k * (j - i) \in Nat /\ k * i \in Nat
          BY <3>4
        <5> QED
          BY <5>1
      <4>2. 11 * high \in Nat
        BY <1>2
      <4> QED
        BY <4>1, <4>2
    <3>6. ASSUME NEW a \in Nat, NEW c \in Nat, a <= c PROVE a \div 190 <= c \div 190
      BY <3>6
    <3> QED
      BY <3>3, <3>5, <3>6
  <2>3. ASSUME NEW l \in axis.lines
        PROVE  (\E p \in axis.ticks : p.at < l) /\ (\E p \in axis.ticks : l < p.at)
    <3>1. l \in 0..76 /\ l % 4 # 0
      BY <2>1 DEF QUARTERS, GAPS
    <3>2. 0 < l /\ l < 76
      BY <3>1
    <3>3. tick(0) \in axis.ticks /\ tick(19) \in axis.ticks /\ tick(0).at = 0 /\ tick(19).at = 76
      BY <2>1 DEF QUARTERS, GAPS
    <3> HIDE DEF tick
    <3> QED
      BY <3>2, <3>3
  <2> QED
    BY <2>2, <2>3 DEF axis
<1> QED
  BY <1>3, <1>4 DEF Scales

\* Where the bar of an engine and a thread count starts.
Start(entries, bar) ==
  Left(Place(Groups(entries), bar[2]), Place(Series(entries), bar[1]), Cardinality(Firsts(entries)))

\* A bar is in the plot, and starts where the one before it in its group or in
\* an earlier group has ended.
LEMMA BarsStand ==
  ASSUME NEW entries, Legible(entries), ~ BadCorpus(entries)
  PROVE  LET X == Caches(entries) \X Threads(entries)
             n == Cardinality(Threads(entries))
             place(bar) == Place(Series(entries), bar[1])
         IN  /\ \A x \in X : Start(entries, x) \in 0..(UNIT * n - BAR_WIDTH)
             /\ \A x, y \in X : (x[2] < y[2] \/ (x[2] = y[2] /\ place(x) < place(y)))
                                  => Start(entries, x) + BAR_WIDTH <= Start(entries, y)
<1> DEFINE X == Caches(entries) \X Threads(entries)
           n == Cardinality(Threads(entries))
           m == Cardinality(Firsts(entries))
           place(bar) == Place(Series(entries), bar[1])
           group(bar) == Place(Groups(entries), bar[2])
           gap == (200 - 24 * m) \div 2
<1>1. n \in Nat /\ m \in Nat /\ 24 * m <= 200
  BY LegendIs, GroupsAre DEF BAR_WIDTH, UNIT
<1>2. ASSUME NEW x \in X
      PROVE  /\ place(x) \in 1..m /\ group(x) \in 1..n
             /\ Groups(entries)[group(x)] = x[2] /\ x[2] \in Nat
  <2>1. x[1] \in Caches(entries) /\ x[2] \in Threads(entries)
    OBVIOUS
  <2> HIDE DEF X, place, group, m, n
  <2>2. place(x) \in 1..m
    BY <2>1, LegendIs, PlaceIs DEF place, m
  <2>3. group(x) \in 1..n /\ Groups(entries)[group(x)] = x[2] /\ x[2] \in Nat
    BY <2>1, GroupsAre, PlaceIs DEF group, n
  <2> QED
    BY <2>2, <2>3
<1>3. ASSUME NEW x \in X, NEW y \in X, x[2] < y[2] PROVE group(x) < group(y)
  <2>1. /\ group(x) \in 1..n /\ Groups(entries)[group(x)] = x[2]
        /\ group(y) \in 1..n /\ Groups(entries)[group(y)] = y[2]
    BY <1>2
  <2> HIDE DEF X, group, n
  <2> QED
    BY <1>3, <2>1, GroupsAre DEF n
<1>4. gap \in Nat /\ 2 * gap + 24 * m = 200
  <2>1. 200 - 24 * m = 2 * (100 - 12 * m) /\ 100 - 12 * m \in Nat
    BY <1>1
  <2>2. \A k \in Nat : (2 * k) \div 2 = k
    OBVIOUS
  <2>3. gap = 100 - 12 * m
    BY <2>1, <2>2
  <2> QED
    BY <1>1, <2>1, <2>3
<1>5. \A x \in X : Start(entries, x) = 200 * (group(x) - 1) + gap + 24 * (place(x) - 1)
  BY DEF Start, Left, end_gap, UNIT, BAR_WIDTH
<1>6. \A x, y \in X : x[2] = y[2] => group(x) = group(y)
  OBVIOUS
<1> HIDE DEF X, n, m, place, group, gap
<1>7. ASSUME NEW x \in X PROVE Start(entries, x) \in 0..(200 * n - 24)
  <2>1. place(x) \in 1..m /\ group(x) \in 1..n
    BY <1>2
  <2> QED
    BY <1>1, <1>4, <1>5, <2>1
<1>8. ASSUME NEW x \in X, NEW y \in X, x[2] < y[2] \/ (x[2] = y[2] /\ place(x) < place(y))
      PROVE  Start(entries, x) + 24 <= Start(entries, y)
  <2>1. place(x) \in 1..m /\ group(x) \in 1..n /\ place(y) \in 1..m /\ group(y) \in 1..n
    BY <1>2
  <2>2. CASE x[2] < y[2]
    <3>1. group(x) < group(y)
      BY <1>3, <2>2
    <3> QED
      BY <1>1, <1>4, <1>5, <2>1, <3>1
  <2>3. CASE x[2] = y[2] /\ place(x) < place(y)
    <3>1. group(x) = group(y)
      BY <1>6, <2>3
    <3> QED
      BY <1>1, <1>4, <1>5, <2>1, <2>3, <3>1
  <2> QED
    BY <1>8, <2>2, <2>3
<1> QED
  BY <1>7, <1>8 DEF X, n, place, UNIT, BAR_WIDTH

-----------------------------------------------------------------------------
\* A picture that was drawn is the one of its corpus.
Drew ==
  drawn.is = "picture" =>
    \E spec \in All :
      LET chart == Chart(corpus, mode, spec)
      IN  /\ ~ BadCorpus(corpus) /\ ~ Unscalable(spec.scale, chart)
          /\ drawn.picture = Render(spec.scale, chart, Series(corpus), Groups(corpus))

PicturesInv == corpus \in Corpora /\ Drew

LEMMA PictureRanks ==
  ASSUME \A entries \in Corpora : Legible(entries), PicturesInv
  PROVE  BarsRank
<1> SUFFICES ASSUME drawn.is = "picture" PROVE BarsRank
  BY DEF BarsRank
<1>1. PICK spec \in All : LET chart == Chart(corpus, mode, spec)
                          IN  /\ ~ BadCorpus(corpus) /\ ~ Unscalable(spec.scale, chart)
                              /\ drawn.picture = Render(spec.scale, chart, Series(corpus), Groups(corpus))
  BY DEF PicturesInv, Drew
<1> DEFINE chart == Chart(corpus, mode, spec)
           X == Caches(corpus) \X Threads(corpus)
           axis == Axis(spec.scale, chart)
           is == drawn.picture
<1>2. Legible(corpus)
  BY DEF PicturesInv
<1>3. spec.scale \in Scales
  BY DEF All, Spec, Redraws, Scales
<1>4. DOMAIN chart = X
  BY DEF Chart
<1>5. \A x \in DOMAIN chart : chart[x] \in Nat \cup {NoPoint} /\ chart[x] <= 10 ^ MOST
  <2>1. \A x \in X : chart[x] = Point(corpus, mode, spec, x[1], x[2])
    BY DEF Chart
  <2> HIDE DEF chart, X
  <2> QED
    BY <1>1, <1>2, <1>4, <2>1, PointIs
<1>6. ~ Unscalable(spec.scale, chart)
  BY <1>1
<1>7. /\ is.axis = axis /\ is.legend = Series(corpus)
      /\ DOMAIN is.labels = DOMAIN Groups(corpus)
      /\ is.labels = [at \in DOMAIN Groups(corpus) |->
           [threads |-> Groups(corpus)[at], x |-> XTick(at, Len(Series(corpus)))]]
      /\ DOMAIN is.bars = DOMAIN chart
      /\ \A x \in DOMAIN chart :
           is.bars[x] = [value |-> chart[x], height |-> Height(chart[x], axis),
                         x0 |-> Left(Place(Groups(corpus), x[2]), Place(Series(corpus), x[1]), Len(Series(corpus)))]
  <2> HIDE DEF chart, axis
  <2> QED
    BY <1>1 DEF Render, chart, axis
<1>8. Len(Series(corpus)) = Cardinality(Firsts(corpus))
  BY <1>1, <1>2, LegendIs
<1>9. Len(is.labels) = Cardinality(Threads(corpus))
  <2> DEFINE n == Cardinality(Threads(corpus))
  <2>1. n \in Nat /\ DOMAIN Groups(corpus) = 1..n
    BY <1>2, GroupsAre
  <2> HIDE DEF n, is
  <2>2. is.labels = [at \in 1..n |-> [threads |-> Groups(corpus)[at], x |-> XTick(at, Len(Series(corpus)))]]
    BY <1>7, <2>1
  <2>3. Len(is.labels) = n
    BY <2>1, <2>2
  <2> QED
    BY <2>3 DEF n
<1>10. \A x \in DOMAIN chart : /\ is.bars[x].value = chart[x] /\ is.bars[x].height = Height(chart[x], axis)
                               /\ is.bars[x].x0 = Start(corpus, x)
  <2> SUFFICES ASSUME NEW x \in DOMAIN chart
               PROVE  /\ is.bars[x].value = chart[x] /\ is.bars[x].height = Height(chart[x], axis)
                      /\ is.bars[x].x0 = Start(corpus, x)
    OBVIOUS
  <2> DEFINE x0 == Left(Place(Groups(corpus), x[2]), Place(Series(corpus), x[1]), Len(Series(corpus)))
             h == Height(chart[x], axis)
  <2>1. is.bars[x] = [value |-> chart[x], height |-> h, x0 |-> x0]
    BY <1>7
  <2>2. x0 = Start(corpus, x)
    BY <1>8 DEF Start
  <2> HIDE DEF chart, axis, is, x0, h
  <2>3. is.bars[x].value = chart[x] /\ is.bars[x].height = h /\ is.bars[x].x0 = x0
    BY <2>1
  <2> QED
    BY <2>2, <2>3 DEF h
<1> HIDE DEF chart, axis, is, X
<1>11. ASSUME NEW x \in DOMAIN is.bars, NEW y \in DOMAIN is.bars, NoPoint < is.bars[x].value, is.bars[x].value < is.bars[y].value
       PROVE  is.bars[x].height < is.bars[y].height
  <2>1. x \in DOMAIN chart /\ y \in DOMAIN chart /\ NoPoint < chart[x] /\ chart[x] < chart[y]
    BY <1>7, <1>10, <1>11
  <2>2. Height(chart[x], axis) < Height(chart[y], axis)
    BY <1>3, <1>5, <1>6, <2>1, HeightsRank DEF axis
  <2> QED
    BY <1>10, <2>1, <2>2
<1>12. ASSUME NEW x \in DOMAIN is.bars, NEW y \in DOMAIN is.bars,
              x[2] < y[2] \/ (x[2] = y[2] /\ Place(is.legend, x[1]) < Place(is.legend, y[1]))
       PROVE  is.bars[x].x0 + BAR_WIDTH <= is.bars[y].x0
  <2>1. x \in X /\ y \in X
    BY <1>4, <1>7
  <2>2. Start(corpus, x) + BAR_WIDTH <= Start(corpus, y)
    BY <1>1, <1>2, <1>7, <1>12, <2>1, BarsStand DEF X
  <2> QED
    BY <1>4, <1>10, <2>1, <2>2
<1>13. ASSUME NEW x \in DOMAIN is.bars PROVE is.bars[x].x0 \in 0..(UNIT * Len(is.labels) - BAR_WIDTH)
  <2>1. x \in X
    BY <1>4, <1>7
  <2>2. Start(corpus, x) \in 0..(UNIT * Cardinality(Threads(corpus)) - BAR_WIDTH)
    BY <1>1, <1>2, <2>1, BarsStand DEF X
  <2> QED
    BY <1>4, <1>9, <1>10, <2>1, <2>2
<1>14. /\ \A t, u \in is.axis.ticks : t.at < u.at => t.label <= u.label
       /\ \A l \in is.axis.lines : /\ \E t \in is.axis.ticks : t.at < l
                                   /\ \E t \in is.axis.ticks : l < t.at
  BY <1>3, <1>5, <1>6, <1>7, TicksRise DEF axis
<1> QED
  BY <1>11, <1>12, <1>13, <1>14 DEF BarsRank, is

LEMMA PicturesStep ==
  ASSUME PicturesInv, [PicturesNext]_pictureVars
  PROVE  PicturesInv'
<1>1. CASE Unreadable
  BY <1>1 DEF PicturesInv, Drew, Unreadable
<1>2. ASSUME NEW spec \in All, Skips(spec) PROVE PicturesInv'
  BY <1>2 DEF PicturesInv, Drew, Skips
<1>3. ASSUME NEW spec \in All, Draws(spec) PROVE PicturesInv'
  <2>1. corpus' = corpus /\ mode' = mode
    BY <1>3 DEF Draws
  <2>2. /\ ~ BadCorpus(corpus) /\ ~ Unscalable(spec.scale, Chart(corpus, mode, spec))
        /\ drawn'.picture = Render(spec.scale, Chart(corpus, mode, spec), Series(corpus), Groups(corpus))
    BY <1>3 DEF Draws
  <2> QED
    BY <2>1, <2>2 DEF PicturesInv, Drew
<1>4. CASE UNCHANGED pictureVars
  BY <1>4 DEF PicturesInv, Drew, pictureVars
<1> QED
  BY <1>1, <1>2, <1>3, <1>4 DEF PicturesNext

\* BarsRank, for any list of charts and any output.json, however many engines
\* there are colours for: in a picture that was drawn the bars, the gridlines
\* and the labels are in the order of the numbers.  What is read where a number
\* is due must be one and not beyond the bound of the model.
THEOREM BarsRanked ==
  ASSUME \A entries \in Corpora : Legible(entries)
  PROVE  PicturesInit /\ [][PicturesNext]_pictureVars => []BarsRank
<1>1. PicturesInit => PicturesInv
  <2> SUFFICES ASSUME PicturesInit PROVE corpus \in Corpora /\ drawn.is # "picture"
    BY DEF PicturesInv, Drew
  <2> QED
    BY DEF PicturesInit, Blank
<1>2. PicturesInv /\ [PicturesNext]_pictureVars => PicturesInv'
  BY PicturesStep
<1>3. PicturesInv => BarsRank
  BY PictureRanks
<1> QED
  BY <1>1, <1>2, <1>3, PTL

=============================================================================
