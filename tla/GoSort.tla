------------------------------- MODULE GoSort -------------------------------
(***************************************************************************)
(* crates/cb-stats/src/gosort.rs: Go's `sort.Slice`, a pattern defeating   *)
(* quicksort, function for function.  Upstream mode needs it because it    *)
(* sorts one list with a comparison that reads another, and the outcome    *)
(* then depends on which comparisons and swaps the sort makes.             *)
(*                                                                         *)
(* The data is a function on positions 0..n-1 to run numbers, and a        *)
(* function that changes it in the code is an operator on it here.  Each   *)
(* loop is a least or a greatest position, or a recursive operator.        *)
(***************************************************************************)
EXTENDS Integers, FiniteSetsExt

\* A comparison `by` is of the elements' own keys, ascending, or of a list that
\* is read at the positions and never moved, descending.
less(by, d, i, j) ==
  IF by.own THEN by.key[d[i]] < by.key[d[j]] ELSE by.key[i] > by.key[j]

swap(d, i, j) == [d EXCEPT ![i] = d[j], ![j] = d[i]]

\* Shift the element at j left for as long as it is less, not below `low`.
RECURSIVE ShiftLeft(_, _, _, _)
ShiftLeft(by, d, low, j) ==
  IF j > low /\ less(by, d, j, j - 1) THEN ShiftLeft(by, swap(d, j, j - 1), low, j - 1) ELSE d

RECURSIVE ShiftRight(_, _, _, _)
ShiftRight(by, d, high, j) ==
  IF j < high /\ less(by, d, j, j - 1) THEN ShiftRight(by, swap(d, j, j - 1), high, j + 1) ELSE d

RECURSIVE insertion_sort(_, _, _, _)
insertion_sort(by, d, a, b) ==
  IF b - a < 2 THEN d ELSE ShiftLeft(by, insertion_sort(by, d, a, b - 1), a, b - 1)

RECURSIVE sift_down(_, _, _, _, _)
sift_down(by, d, root, hi, first) ==
  LET left  == 2 * root + 1
      child == IF left + 1 < hi /\ less(by, d, first + left, first + left + 1)
                 THEN left + 1 ELSE left
  IN  IF left >= hi \/ ~less(by, d, first + root, first + child) THEN d
      ELSE sift_down(by, swap(d, first + root, first + child), child, hi, first)

RECURSIVE Heapify(_, _, _, _, _)
Heapify(by, d, i, hi, first) ==
  LET e == sift_down(by, d, i, hi, first)
  IN  IF i = 0 THEN e ELSE Heapify(by, e, i - 1, hi, first)

RECURSIVE PopAll(_, _, _, _)
PopAll(by, d, i, first) ==
  LET e == sift_down(by, swap(d, first, first + i), 0, i, first)
  IN  IF i = 0 THEN e ELSE PopAll(by, e, i - 1, first)

heap_sort(by, d, a, b) ==
  LET hi == b - a
  IN  IF hi = 0 THEN d ELSE PopAll(by, Heapify(by, d, (hi - 1) \div 2, hi, a), hi - 1, a)

\* From i up past what is less than the pivot at a, and from j down past what
\* is not, as far as the other.
Upto(by, d, a, i, j)   == Min({k \in i..(j + 1) : k > j \/ ~less(by, d, k, a)})
Downto(by, d, a, i, j) == Max({k \in (i - 1)..j : k < i \/ less(by, d, k, a)})

RECURSIVE Cross(_, _, _, _, _)
Cross(by, d, a, i, j) ==
  LET u == Upto(by, d, a, i, j)
      w == Downto(by, d, a, u, j)
  IN  IF u > w THEN [data |-> d, mid |-> w] ELSE Cross(by, swap(d, u, w), a, u + 1, w - 1)

\* One partition around the pivot: where it comes to stand, and whether
\* nothing had to cross.
partition(by, d, a, b, pivot) ==
  LET e     == swap(d, a, pivot)
      u     == Upto(by, e, a, a + 1, b - 1)
      found == Cross(by, e, a, a + 1, b - 1)
  IN  [data |-> swap(found.data, found.mid, a), mid |-> found.mid,
       already |-> u > Downto(by, e, a, u, b - 1)]

RECURSIVE CrossEqual(_, _, _, _, _)
CrossEqual(by, d, a, i, j) ==
  LET u == Min({k \in i..(j + 1) : k > j \/ less(by, d, a, k)})
      w == Max({k \in (u - 1)..j : k < u \/ ~less(by, d, a, k)})
  IN  IF u > w THEN [data |-> d, from |-> u] ELSE CrossEqual(by, swap(d, u, w), a, u + 1, w - 1)

partition_equal(by, d, a, b, pivot) == CrossEqual(by, swap(d, a, pivot), a, a + 1, b - 1)

MAX_STEPS         == 5
SHORTEST_SHIFTING == 50

\* The shift to the left stops at 1 and not at a, as Go's does.
RECURSIVE Mend(_, _, _, _, _, _)
Mend(by, d, a, b, i, steps) ==
  LET k == Min({m \in i..b : m = b \/ less(by, d, m, m - 1)})
      e == swap(d, k, k - 1)
      f == IF k - a >= 2 THEN ShiftLeft(by, e, 0, k - 1) ELSE e
      g == IF b - k >= 2 THEN ShiftRight(by, f, b, k + 1) ELSE f
  IN  IF steps = 0 THEN [data |-> d, sorted |-> FALSE]
      ELSE IF k = b THEN [data |-> d, sorted |-> TRUE]
      ELSE IF b - a < SHORTEST_SHIFTING THEN [data |-> d, sorted |-> FALSE]
      ELSE Mend(by, g, a, b, k, steps - 1)

partial_insertion_sort(by, d, a, b) == Mend(by, d, a, b, a + 1, MAX_STEPS)

(***************************************************************************)
(* The generator: 64 bits as the set of those that are one.                *)
(***************************************************************************)
Bits      == 0..63
ToBits(n) == {i \in Bits : i < 30 /\ (n \div 2^i) % 2 = 1}
Number(x) == SumSet({2^i : i \in x})

Xor(x, y) == (x \ y) \cup (y \ x)
Shl(x, k) == {i + k : i \in x} \cap Bits
Shr(x, k) == {i - k : i \in x} \cap Bits

Xorshift(x) ==
  LET y == Xor(x, Shl(x, 13))
      z == Xor(y, Shr(y, 7))
  IN  Xor(z, Shl(z, 17))

\* How many bits a length takes, one more than it needs for a power of two.
BitLength(n) == Min({k \in 0..30 : 2^k > n})

\* One of the three swaps, with the generator's next number cut to its low bits.
Scatter(d, a, len, idx, x) ==
  LET other == Number({i \in x : i < BitLength(len)})
  IN  swap(d, idx, a + IF other >= len THEN other - len ELSE other)

break_patterns(d, a, b) ==
  LET len == b - a
      mid == a + (len \div 4) * 2
      x   == Xorshift(ToBits(len))
      y   == Xorshift(x)
  IN  IF len < 8 THEN d
      ELSE Scatter(Scatter(Scatter(d, a, len, mid - 1, x), a, len, mid, y),
                   a, len, mid + 1, Xorshift(y))

(***************************************************************************)
(* The pivot, and how many exchanges it took to find it.                   *)
(***************************************************************************)
order2(by, d, a, b) == IF less(by, d, b, a) THEN <<b, a, 1>> ELSE <<a, b, 0>>

median(by, d, a, b, c) ==
  LET o == order2(by, d, a, b)
      p == order2(by, d, o[2], c)
      q == order2(by, d, o[1], p[1])
  IN  [at |-> q[2], swaps |-> o[3] + p[3] + q[3]]

median_adjacent(by, d, a) == median(by, d, a - 1, a, a + 1)

SHORTEST_NINTHER == 50
MAX_SWAPS        == 12

Hint(swaps) == CASE swaps = 0         -> "Increasing"
                 [] swaps = MAX_SWAPS -> "Decreasing"
                 [] OTHER             -> "Unknown"

choose_pivot(by, d, a, b) ==
  LET len    == b - a
      At(k)  == a + (len \div 4) * k
      near   == [k \in 1..3 |-> IF len >= SHORTEST_NINTHER THEN median_adjacent(by, d, At(k))
                                ELSE [at |-> At(k), swaps |-> 0]]
      m      == median(by, d, near[1].at, near[2].at, near[3].at)
  IN  IF len < 8 THEN [at |-> At(2), hint |-> "Increasing"]
      ELSE [at   |-> m.at,
            hint |-> Hint(m.swaps + near[1].swaps + near[2].swaps + near[3].swaps)]

reverse_range(d, a, b) == [i \in DOMAIN d |-> IF i \in a..(b - 1) THEN d[a + b - 1 - i] ELSE d[i]]

MAX_INSERTION == 12

(***************************************************************************)
(* The loop, one operator for each thing it does in turn to the range it   *)
(* has left.  `was` is what it remembers of the partition before.          *)
(***************************************************************************)
RECURSIVE pdqsort(_, _, _, _, _, _)
RECURSIVE Aim(_, _, _, _, _, _, _), Try(_, _, _, _, _, _, _)
RECURSIVE Divide(_, _, _, _, _, _, _), Recur(_, _, _, _, _)

Fresh == [balanced |-> TRUE, partitioned |-> TRUE]

pdqsort(by, d, a, b, allowed, was) ==
  IF b - a <= MAX_INSERTION THEN insertion_sort(by, d, a, b)
  ELSE IF allowed = 0 THEN heap_sort(by, d, a, b)
  ELSE IF was.balanced THEN Aim(by, d, a, b, allowed, was, choose_pivot(by, d, a, b))
  ELSE LET e == break_patterns(d, a, b)
       IN  Aim(by, e, a, b, allowed - 1, was, choose_pivot(by, e, a, b))

\* A range that looks as if it falls is turned round, and its pivot with it.
Aim(by, d, a, b, allowed, was, chosen) ==
  IF chosen.hint = "Decreasing"
    THEN Try(by, reverse_range(d, a, b), a, b, allowed, was,
             [at |-> (b - 1) - (chosen.at - a), hint |-> "Increasing"])
    ELSE Try(by, d, a, b, allowed, was, chosen)

\* One that looks as if it rises may need no more than a few shifts.
Try(by, d, a, b, allowed, was, chosen) ==
  IF was.balanced /\ was.partitioned /\ chosen.hint = "Increasing"
    THEN LET mended == partial_insertion_sort(by, d, a, b)
         IN  IF mended.sorted THEN mended.data
             ELSE Divide(by, mended.data, a, b, allowed, was, chosen.at)
    ELSE Divide(by, d, a, b, allowed, was, chosen.at)

Divide(by, d, a, b, allowed, was, pivot) ==
  IF a > 0 /\ ~less(by, d, a - 1, pivot)
    THEN LET equal == partition_equal(by, d, a, b, pivot)
         IN  pdqsort(by, equal.data, equal.from, b, allowed, was)
    ELSE Recur(by, partition(by, d, a, b, pivot), a, b, allowed)

\* The shorter part first, the longer one in the next turn of the loop.
Recur(by, cut, a, b, allowed) ==
  LET left  == cut.mid - a
      right == b - cut.mid
      Now(n) == [balanced |-> n >= (b - a) \div 8, partitioned |-> cut.already]
  IN  IF left < right
        THEN pdqsort(by, pdqsort(by, cut.data, a, cut.mid, allowed, Fresh),
                     cut.mid + 1, b, allowed, Now(left))
        ELSE pdqsort(by, pdqsort(by, cut.data, cut.mid + 1, b, allowed, Fresh),
                     a, cut.mid, allowed, Now(right))

slice(by, d, length) == pdqsort(by, d, 0, length, BitLength(length), Fresh)

=============================================================================
