---------------------------- MODULE MCStatistics ----------------------------
(***************************************************************************)
(* MCCells for Statistics: lengths around each boundary of the code, with    *)
(* throughputs and cycles in orders that differ from one another, with and *)
(* without ties, and cells that are refused.                               *)
(***************************************************************************)
EXTENDS Statistics, GoSort

\* 12 ends the insertion sorts, 31 is a full cell and 25, 21 and 17 are what
\* the shared count leaves of it; 53 takes the sort's long ranges.
Lengths == {1, 2, 3, 4, 10, 11, 12, 13, 17, 20, 21, 25, 31, 53}

\* Orders: rising, falling, mixed by a multiplier, and with many equal values.
Rising(n)    == [r \in 1..n |-> r]
Falling(n)   == [r \in 1..n |-> n - r]
Mixed(n, k)  == [r \in 1..n |-> (k * r + 5) % 59]
Ties(n, k)   == [r \in 1..n |-> (k * r * r) % 7]
Pipe(n)      == [r \in 1..n |-> IF 2 * r < n THEN r ELSE n - r]

Orders(n) == {Rising(n), Falling(n), Pipe(n)}
               \cup {Mixed(n, k) : k \in {7, 23, 41}} \cup {Ties(n, k) : k \in {1, 3}}

\* Cycles and times that are zero stand for those that were not counted, and
\* of the branches some are not counted or not there at all.
Printed(v) == IF v = 0 THEN Text ELSE Value(v, 1)
Detached  == [c \in Counters |-> Missing]

Cell(n, sets, gets, cycles, counted) ==
  [n |-> n, of |-> [r \in 1..n |-> 1], sets |-> sets, gets |-> gets,
   perf |-> [r \in 1..n |->
     IF ~counted THEN Detached
     ELSE [c \in Counters |->
             CASE c = "cycles"   -> Printed(cycles[r])
               [] c = "branches" -> IF r % 11 = 5 THEN Text ELSE IF r % 17 = 8 THEN Missing
                                    ELSE Value(cycles[r] + r, 1)
               [] c = "secsuser" -> Printed(gets[r])]]]

Whole == UNION {{Cell(n, s, g, c, TRUE) : s \in Orders(n), g \in Orders(n), c \in {Mixed(n, 23), Ties(n, 3)}}
                  \cup {Cell(n, s, g, g, FALSE) : s \in Orders(n), g \in Orders(n)} : n \in Lengths}

\* Every order of three values in cells of three and four runs.
Small == UNION {{Cell(n, s, s, s, TRUE) : s \in [1..n -> 1..3]} : n \in 3..4}

\* Every order of two values in the shortest cell that is partitioned.
Twos == {Cell(13, s, s, s, TRUE) : s \in [1..13 -> 0..1]}

Spoilt(n) ==
  LET good == Cell(n, Rising(n), Falling(n), Rising(n), TRUE)
  IN  {[good EXCEPT !.of[n] = 2], [good EXCEPT !.perf[n] = Detached]}

MCCells == Whole \cup Small \cup Twos \cup Spoilt(3) \cup Spoilt(31)
           \cup {Cell(0, <<>>, <<>>, <<>>, FALSE)}

\* What Go's sort.Slice made of two lists sorted by another, in
\* crates/cb-core/golden/gosort.json: aliased_17_0 and aliased_31_0.  The
\* lists sorted were the multiples of 100.
By17 == <<331793, 27924, 385930, 460030, 3112, 109798, 388909, 371389,
    56670, 395948, 786852, 908349, 983972, 450916, 784340, 512003,
    420274>>
Go17 == <<1200, 300, 200, 1600, 600, 1400, 1500, 700, 1100, 1000, 900, 1300,
    800, 500, 0, 400, 100>>
By31 == <<266052, 490190, 216965, 883893, 102556, 847686, 935524, 335276,
    432312, 209108, 300036, 596048, 962428, 719214, 646955, 401429,
    131546, 91382, 747099, 304283, 36006, 764991, 795564, 14307, 707310,
    225318, 537995, 47933, 251344, 505403, 52905>>
Go31 == <<100, 1000, 1300, 1200, 600, 500, 1100, 1900, 700, 300, 1800, 1500,
    0, 800, 2400, 2600, 2200, 2900, 2100, 1400, 1600, 1700, 2000, 900,
    2300, 400, 2500, 200, 2800, 2700, 3000>>

\* The runs in the order of a key, the earlier of two equal ones first.
InOrderOf(key) ==
  SortSeq([r \in 1..Len(key) |-> r], LAMBDA r, s : key[r] < key[s] \/ (key[r] = key[s] /\ r < s))

Sliced(by) ==
  LET n == Len(by)
      d == slice(Aliased([i \in 0..(n - 1) |-> by[i + 1]]), [i \in 0..(n - 1) |-> i], n)
  IN  [i \in 1..n |-> 100 * d[i - 1]]

ASSUME GoAgrees == Sliced(By17) = Go17 /\ Sliced(By31) = Go31

=============================================================================
