---------------------------- MODULE LaunchProofs ----------------------------
(***************************************************************************)
(* What is started, seen and recorded is what the profile says, for every  *)
(* profile, command line and machine.                                      *)
(*                                                                         *)
(* Everything is checked once, of every profile in the file, before any    *)
(* process is started.  The invariant says that the processes, what they   *)
(* were seen to do and what is put on record are functions of what was     *)
(* checked; the rest is arithmetic: that a fill of a checked profile fits  *)
(* in the memory the server understood, that the product of two u32 that   *)
(* wraps would be noticed in the count of what was done, and that digits   *)
(* counted a decade at a time are those of the keys one by one.            *)
(***************************************************************************)
EXTENDS Launch, FiguresProofs

\* What both commands have checked when they start a server.
Checked ==
  /\ Usable
  /\ \/ args.command = "run" /\ CheckThreads
     \/ args.command = "mem" /\ Plannable /\ Roomy

Mode == IF args.command = "run" THEN args.compat ELSE "corrected"

\* What memtier was seen to do when its first client stopped there.
Outcome(done) ==
  [is |-> "ran", done |-> Cardinality(Operations(done)),
   keys |-> IF Slice = 0 THEN {} ELSE {KeyOf(o[1], o[2]) : o \in Operations(done)}]

Info == [is |-> "info", connections |-> Connections(Profile), operations |-> TotalOperations(Profile)]
Row  == [is |-> "row", entries |-> Entries, payload |-> Payload]

\* Everything that is started, seen and recorded follows from what was checked.
LaunchInv ==
  /\ file \in Files /\ args \in Args /\ cpus \in Machines
  /\ pc \in {"up", "loading", "read back", "recorded"} =>
       Checked /\ server = Server(args.threads, Mode)
  /\ pc \in {"loading", "read back", "recorded"} => load = Invocation(Asked)
  /\ pc \in {"read back", "recorded"} => \E done \in 0..load.n : ran = Outcome(done)
  /\ pc = "recorded" =>
       Counted /\ record = IF args.command = "run" THEN Info ELSE Row

-----------------------------------------------------------------------------
LEMMA InitLaunch == LaunchInit => LaunchInv
  BY DEF LaunchInit, LaunchInv

\* What does not depend on more than what was read.
LEMMA InputsStay ==
  ASSUME UNCHANGED inputs
  PROVE  /\ Profile' = Profile /\ Mode' = Mode /\ Checked' = Checked
         /\ Server(args.threads, Mode)' = Server(args.threads, Mode)
         /\ Asked' = Asked /\ Invocation(Asked)' = Invocation(Asked)
         /\ Info' = Info /\ Row' = Row /\ Wanted' = Wanted
<1>1. file' = file /\ args' = args /\ cpus' = cpus
  BY DEF inputs
<1>2. Profile' = Profile /\ Mode' = Mode
  BY <1>1 DEF Profile, Mode
<1>3. Clients' = Clients /\ Entries' = Entries
  BY <1>1, <1>2 DEF Clients, Entries, AboutTenMillion
<1>4. PerClient' = PerClient /\ Payload' = Payload
  BY <1>1, <1>2, <1>3 DEF PerClient, Payload
<1>5. Checked' = Checked
  BY <1>1, <1>2, <1>3, <1>4 DEF Checked, Usable, CheckThreads, ProfilesParse, Named, Plannable, Roomy
<1>6. Server(args.threads, Mode)' = Server(args.threads, Mode)
  BY <1>1, <1>2 DEF Server, OnMachine
<1>7. Asked' = Asked
  BY <1>1, <1>2, <1>3, <1>4 DEF Asked, Shaped
<1>8. Invocation(Asked)' = Invocation(Asked) /\ Wanted' = Wanted
  BY <1>1, <1>7 DEF Invocation, OnMachine, Wanted
<1> QED
  BY <1>2, <1>3, <1>4, <1>5, <1>6, <1>7, <1>8 DEF Info, Row

LEMMA StepLaunch == LaunchInv /\ [LaunchNext]_launchVars => LaunchInv'
<1> SUFFICES ASSUME LaunchInv, [LaunchNext]_launchVars PROVE LaunchInv'
  OBVIOUS
<1>i. UNCHANGED inputs
  BY DEF LaunchNext, RunStarts, MemStarts, Refused, LoadStarts, LoadRefused, LoadEnds, Records,
         Miscounted, launchVars, inputs
<1>t. file' \in Files /\ args' \in Args /\ cpus' \in Machines
  BY <1>i DEF LaunchInv, inputs
<1>u. /\ Checked' = Checked /\ args' = args /\ Server(args.threads, Mode)' = Server(args.threads, Mode)
      /\ Invocation(Asked)' = Invocation(Asked) /\ Info' = Info /\ Row' = Row /\ Wanted' = Wanted
  BY <1>i, InputsStay DEF inputs
<1>o. UNCHANGED load => load.n' = load.n /\ \A done : Outcome(done)' = Outcome(done)
  BY DEF Outcome, Operations, KeyOf, Slice
<1>c. UNCHANGED ran => Counted' = Counted
  BY <1>u DEF Counted
<1>1. CASE RunStarts
  <2>1. Checked /\ Mode = args.compat /\ server' = Server(args.threads, args.compat) /\ pc' = "up"
    BY <1>1 DEF RunStarts, Checked, Mode
  <2> QED
    BY <2>1, <1>t, <1>u DEF LaunchInv
<1>2. CASE MemStarts
  <2>1. Checked /\ Mode = "corrected" /\ server' = Server(args.threads, "corrected") /\ pc' = "up"
    BY <1>2 DEF MemStarts, Checked, Mode
  <2> QED
    BY <2>1, <1>t, <1>u DEF LaunchInv
<1>3. CASE LoadStarts
  <2>1. pc = "up" /\ pc' = "loading" /\ server' = server /\ load' = Invocation(Asked)
    BY <1>3 DEF LoadStarts
  <2> QED
    BY <2>1, <1>t, <1>u DEF LaunchInv
<1>4. CASE LoadEnds
  <2>1. pc = "loading" /\ pc' = "read back" /\ server' = server /\ load' = load
        /\ \E done \in 0..load.n : ran' = Outcome(done)
    BY <1>4 DEF LoadEnds, Outcome
  <2> QED
    BY <2>1, <1>t, <1>u, <1>o DEF LaunchInv
<1>5. CASE Records
  <2>1. /\ pc = "read back" /\ pc' = "recorded" /\ server' = server /\ load' = load /\ ran' = ran
        /\ Counted /\ record' = IF args.command = "run" THEN Info ELSE Row
    BY <1>5 DEF Records, Info, Row
  <2> QED
    BY <2>1, <1>t, <1>u, <1>o, <1>c DEF LaunchInv
<1>6. CASE Refused \/ LoadRefused \/ Miscounted
  <2>1. pc' = "refused"
    BY <1>6 DEF Refused, LoadRefused, Miscounted
  <2> QED
    BY <2>1, <1>t DEF LaunchInv
<1>7. CASE UNCHANGED launchVars
  <2>1. pc' = pc /\ server' = server /\ load' = load /\ ran' = ran /\ record' = record
    BY <1>7 DEF launchVars
  <2> QED
    BY <2>1, <1>t, <1>u, <1>o, <1>c DEF LaunchInv
<1> QED
  BY <1>1, <1>2, <1>3, <1>4, <1>5, <1>6, <1>7 DEF LaunchNext

-----------------------------------------------------------------------------
LEMMA Elements ==
  ASSUME NEW S, NEW s \in Seq(S)
  PROVE  DOMAIN s = 1..Len(s) /\ \A i \in 1..Len(s) : s[i] \in S
  OBVIOUS

\* The CPUs of a pin that does not run off the end are the machine's, and can
\* be counted.
LEMMA PinIsThere ==
  ASSUME NEW pin \in Seq([lo : Nat, hi : Nat]), NEW cores \in Nat, NEW n \in Nat, cores <= n,
         \A c \in CpusOf(pin) : ~(c >= cores)
  PROVE  /\ CpusOf(pin) \cap 0..(n - 1) = CpusOf(pin)
         /\ Cardinality(CpusOf(pin)) \in Nat
<1>1. ASSUME NEW c \in CpusOf(pin) PROVE c \in 0..(n - 1)
  <2>1. PICK part \in Range(pin) : c \in part.lo..part.hi
    BY DEF CpusOf
  <2>2. part \in [lo : Nat, hi : Nat]
    <3>1. PICK i \in DOMAIN pin : part = pin[i]
      BY DEF Range
    <3>2. pin[i] \in [lo : Nat, hi : Nat]
      BY Elements
    <3> QED
      BY <3>1, <3>2
  <2> QED
    BY <2>1, <2>2
<1>2. IsFiniteSet(0..(n - 1))
  BY FS_Interval
<1>3. CpusOf(pin) \in SUBSET (0..(n - 1))
  BY <1>1
<1>4. IsFiniteSet(CpusOf(pin))
  BY <1>2, <1>3, FS_Subset
<1> QED
  BY <1>3, <1>4, FS_CardinalityType

\* A server and a load generator that are started share no CPU; on a machine
\* that says how many it has they have every one their profile gives them, and
\* no more threads than CPUs.
THEOREM PinsApart == LaunchInit /\ [][LaunchNext]_launchVars => []PinsAreApart
<1>1. ASSUME LaunchInv PROVE PinsAreApart
  <2> SUFFICES ASSUME pc = "loading"
               PROVE  /\ server.cpus \cap load.cpus = {}
                      /\ cpus.said =>
                           /\ server.cpus = CpusOf(Profile.cache_pin)
                           /\ load.cpus = CpusOf(Profile.bench_pin)
                           /\ load.t <= Cardinality(load.cpus)
                           /\ args.command = "run" => server.threads \in 1..Cardinality(server.cpus)
    BY DEF PinsAreApart
  <2>0. /\ server.threads = args.threads /\ load.t = Profile.bench_threads
        /\ server.cpus = CpusOf(Profile.cache_pin) \cap 0..(cpus.here - 1)
        /\ load.cpus = CpusOf(Profile.bench_pin) \cap 0..(cpus.here - 1)
    BY <1>1 DEF LaunchInv, Server, Invocation, Asked, Shaped, OnMachine
  <2>1. Checked /\ Check(Profile) /\ (cpus.said => Profile.cores <= cpus.here)
    BY <1>1 DEF LaunchInv, Checked, Usable, ProfilesParse, Profile
  <2>2. /\ Profile.cores \in Nat /\ Profile.bench_threads \in Nat
        /\ Profile.cache_pin \in Seq([lo : Nat, hi : Nat])
        /\ Profile.bench_pin \in Seq([lo : Nat, hi : Nat])
        /\ cpus.here \in Nat /\ args.threads \in Nat
    BY <1>1, <2>1, NumbersAssumption DEF LaunchInv, Checked, Usable, Profile
  <2>3. \A c \in CpusOf(Profile.cache_pin) \cup CpusOf(Profile.bench_pin) : ~(c >= Profile.cores)
    BY <2>1 DEF Check, PinOffTheEnd
  <2>5. CpusOf(Profile.cache_pin) \cap CpusOf(Profile.bench_pin) = {}
    BY <2>1 DEF Check, SharedCores
  <2>8. server.cpus \cap load.cpus = {}
    BY <2>0, <2>5
  <2> SUFFICES ASSUME cpus.said
               PROVE  /\ server.cpus = CpusOf(Profile.cache_pin)
                      /\ load.cpus = CpusOf(Profile.bench_pin)
                      /\ load.t <= Cardinality(load.cpus)
                      /\ args.command = "run" => server.threads \in 1..Cardinality(server.cpus)
    BY <2>8
  <2>4. server.cpus = CpusOf(Profile.cache_pin) /\ load.cpus = CpusOf(Profile.bench_pin)
    BY <2>0, <2>1, <2>2, <2>3, PinIsThere
  <2>6. load.t <= Cardinality(load.cpus)
    <3>1. ~(Profile.bench_threads > Cardinality(CpusOf(Profile.bench_pin)))
      BY <2>1 DEF Check, TooManyThreads
    <3>2. Cardinality(CpusOf(Profile.bench_pin)) \in Nat
      BY <2>1, <2>2, <2>3, PinIsThere
    <3>3. load.t = Profile.bench_threads /\ load.cpus = CpusOf(Profile.bench_pin)
      BY <2>0, <2>4
    <3>4. Profile.bench_threads \in Nat
      BY <2>2
    <3> QED
      BY <3>1, <3>2, <3>3, <3>4
  <2>7. args.command = "run" => server.threads \in 1..Cardinality(server.cpus)
    <3>1. Cardinality(CpusOf(Profile.cache_pin)) \in Nat
      BY <2>1, <2>2, <2>3, PinIsThere
    <3>2. server.threads = args.threads /\ server.cpus = CpusOf(Profile.cache_pin) /\ args.threads \in Nat
      BY <2>0, <2>2, <2>4
    <3>3. args.command = "run" => args.threads # 0 /\ args.threads <= Cardinality(CpusOf(Profile.cache_pin))
      BY <2>1 DEF Checked, CheckThreads
    <3> QED
      BY <3>1, <3>2, <3>3
  <2> QED
    BY <2>4, <2>6, <2>7
<1> QED
  BY <1>1, InitLaunch, StepLaunch, PTL

-----------------------------------------------------------------------------
(***************************************************************************)
(* Sizes, and what a server understands of them.                           *)
(***************************************************************************)
LEMMA Units ==
  /\ DOMAIN Power = {"k", "m", "g", "b"}
  /\ \A u \in {"k", "m", "g", "b"} : Power[u] \in Nat \ {0}
  /\ Power.b = 1
<1>1. KIB \in Nat \ {0}
  BY LaunchAssumption
<1>2. KIB * KIB \in Nat \ {0}
  BY <1>1
<1>3. KIB * KIB * KIB \in Nat \ {0}
  BY <1>1, <1>2
<1> QED
  BY <1>1, <1>2, <1>3 DEF Power

\* Of the units that divide a count there is a largest.
LEMMA UnitDivides ==
  ASSUME NEW b \in Nat
  PROVE  Unit(b) \in {"k", "m", "g", "b"} /\ b % Power[Unit(b)] = 0
<1>1. CASE Divides(b) = {}
  <2>1. Unit(b) = "b"
    BY <1>1 DEF Unit
  <2>2. b % 1 = 0
    OBVIOUS
  <2> QED
    BY <2>1, <2>2, Units
<1>2. CASE Divides(b) # {}
  <2>1. Divides(b) \subseteq {"k", "m", "g"} /\ \A u \in Divides(b) : b % Power[u] = 0
    BY DEF Divides
  <2>2. \A u \in {"k", "m", "g"} : Power[u] \in Nat
    BY Units
  <2>3. \E u \in Divides(b) : \A v \in Divides(b) : Power[v] <= Power[u]
    <3> DEFINE k == Power["k"]
               m == Power["m"]
               g == Power["g"]
    <3>1. k \in Nat /\ m \in Nat /\ g \in Nat
      BY <2>2
    <3>2. k <= m /\ m <= g
      <4>1. KIB \in Nat \ {0} /\ KIB * KIB \in Nat
        BY LaunchAssumption
      <4>2. \A x, y \in Nat : y # 0 => x <= x * y
        OBVIOUS
      <4> QED
        BY <4>1, <4>2 DEF Power
    <3> HIDE DEF k, m, g
    <3>3. CASE "g" \in Divides(b)
      <4>1. \A v \in {"k", "m", "g"} : Power[v] <= Power["g"]
        <5>1. k <= g /\ m <= g /\ g <= g
          BY <3>1, <3>2
        <5> QED
          BY <5>1 DEF k, m, g
      <4> QED
        BY <2>1, <3>3, <4>1
    <3>4. CASE "g" \notin Divides(b) /\ "m" \in Divides(b)
      BY <2>1, <3>1, <3>2, <3>4 DEF k, m, g
    <3>5. CASE "g" \notin Divides(b) /\ "m" \notin Divides(b)
      BY <1>2, <2>1, <3>1, <3>5 DEF k, m, g
    <3> QED
      BY <3>3, <3>4, <3>5
  <2>4. Unit(b) \in Divides(b)
    BY <1>2, <2>3 DEF Unit
  <2> QED
    BY <2>1, <2>4
<1> QED
  BY <1>1, <1>2

LEMMA Quotients ==
  ASSUME NEW b \in Nat, NEW p \in Nat \ {0}
  PROVE  /\ b \div p \in Nat
         /\ b % p = 0 => (b \div p) * p = b
         /\ (b \div p) * p <= b /\ b < (b \div p) * p + p
  OBVIOUS

\* A size that is spelled out and read again is the size, and memcached's is
\* short of it by less than a megabyte.
LEMMA Understands ==
  ASSUME NEW b \in Nat, NEW cache, NEW threads, NEW way,
         ~ (cache = "dragonfly" /\ way = "upstream")
  PROVE  LET limit == Understood(cache, MemoryValue(cache, b, threads, way))
         IN  /\ limit \in Nat
             /\ cache # "memcache" => limit = b
             /\ cache = "memcache" => limit <= b /\ b < limit + Power.m
<1> DEFINE value == MemoryValue(cache, b, threads, way)
<1>1. CASE cache = "memcache"
  <2>1. value.n = b \div Power.m
    BY <1>1 DEF MemoryValue, Mib
  <2>2. Understood(cache, value) = value.n * Power.m
    BY <1>1 DEF Understood
  <2>3. Power.m \in Nat \ {0}
    BY Units
  <2> HIDE DEF value
  <2>4. Understood(cache, value) = (b \div Power.m) * Power.m
    BY <2>1, <2>2
  <2>5. (b \div Power.m) * Power.m \in Nat
    BY <2>3, Quotients
  <2> QED
    BY <1>1, <2>3, <2>4, <2>5, Quotients DEF value
<1>2. CASE cache # "memcache"
  <2>1. PICK letters \in {1, 2} : value = Spelled(b, letters) /\ (letters = 1 => cache = "garnet")
    BY <1>2 DEF MemoryValue, Short, Long
  <2>2. value.unit = Unit(b) /\ value.n = b \div Power[Unit(b)]
        /\ (value.letters = 1 => cache = "garnet")
    BY <2>1 DEF Spelled
  <2> HIDE DEF value
  <2>3. Understood(cache, value) = value.n * Power[value.unit]
    BY <1>2, <2>2 DEF Understood
  <2>4. Power[Unit(b)] \in Nat \ {0} /\ b % Power[Unit(b)] = 0
    BY Units, UnitDivides
  <2>5. (b \div Power[Unit(b)]) * Power[Unit(b)] = b
    BY <2>4, Quotients
  <2> QED
    BY <1>2, <2>2, <2>3, <2>5 DEF value
<1> QED
  BY <1>1, <1>2

-----------------------------------------------------------------------------
(***************************************************************************)
(* What the keys and values weigh, against what was checked.               *)
(***************************************************************************)
LEMMA DecadesAre ==
  ASSUME NEW n \in Nat
  PROVE  /\ Decades(n) \subseteq 0..(DIGITS - 1) /\ IsFiniteSet(Decades(n))
         /\ \A w \in Decades(n) : DecadeOf(n, w) \in Nat
<1>1. Decades(n) \in SUBSET (0..(DIGITS - 1)) /\ IsFiniteSet(0..(DIGITS - 1))
  <2>1. DIGITS \in Nat
    BY PowersAssumption
  <2>2. IsFiniteSet(0..(DIGITS - 1))
    BY <2>1, FS_Interval
  <2> QED
    BY <2>2 DEF Decades
<1>2. ASSUME NEW w \in Decades(n) PROVE DecadeOf(n, w) \in Nat
  <2> DEFINE a == TEN ^ w
             b == TEN ^ (w + 1)
             c == (IF b - 1 < n THEN b - 1 ELSE n) - a + 1
  <2>1. w \in 0..DIGITS /\ w + 1 \in 0..DIGITS /\ w < w + 1 /\ w + 1 \in Nat
    BY <1>1, PowersAssumption
  <2>2. a \in Nat /\ b \in Nat /\ a < b
    BY <2>1, PowersAssumption
  <2>3. a <= n
    BY DEF Decades
  <2> HIDE DEF a, b
  <2>4. c \in Nat
    BY <2>2, <2>3
  <2> HIDE DEF c
  <2>5. c * (w + 1) \in Nat
    BY <2>1, <2>4
  <2> QED
    BY <2>5 DEF DecadeOf, a, b, c
<1> QED
  BY <1>1, <1>2, FS_Subset

LEMMA DigitsNat ==
  ASSUME NEW n \in Nat
  PROVE  digits(n) \in Nat
<1> DEFINE f == [w \in Decades(n) |-> DecadeOf(n, w)]
<1>1. DOMAIN f = Decades(n) /\ \A w \in Decades(n) : f[w] = DecadeOf(n, w)
  OBVIOUS
<1> HIDE DEF f
<1>2. IsFiniteSet(DOMAIN f) /\ \A w \in DOMAIN f : f[w] \in Nat
  BY <1>1, DecadesAre
<1> QED
  BY <1>2, SumNat DEF digits, f

LEMMA Saturates ==
  ASSUME NEW n \in Nat
  PROVE  Saturated(n) \in 0..WORD /\ (Saturated(n) < WORD => Saturated(n) = n)
  BY LaunchAssumption DEF Saturated

\* What is read of a profile that the file has.
LEMMA ProfileIs ==
  ASSUME LaunchInv, Checked
  PROVE  /\ Check(Profile) /\ IsRange(Profile.size_range) /\ args.profile \in DOMAIN file.profiles
         /\ Profile.bench_threads \in 0..(U32 - 1) /\ Profile.connections_per_thread \in 0..(U32 - 1)
         /\ Profile.operations \in 0..WORD /\ Profile.key_maximum \in 0..WORD
         /\ Profile.size_range.min \in Nat /\ Profile.size_range.max \in Nat
         /\ BytesOf(Profile.maxmemory) \in Nat
         /\ Average(Profile.size_range) \in Nat \ {0}
         /\ Profile.size_range.min + Profile.size_range.max <= 2 * Average(Profile.size_range) + 1
<1>1. Check(Profile) /\ IsRange(Profile.size_range) /\ args.profile \in DOMAIN file.profiles
  BY DEF Checked, Usable, ProfilesParse, Parses, Profile
<1>2. /\ {Profile.bench_threads, Profile.connections_per_thread} \subseteq 0..(U32 - 1)
      /\ {Profile.operations, Profile.key_maximum} \subseteq 0..WORD
      /\ {Profile.size_range.min, Profile.size_range.max} \subseteq Nat
      /\ Profile.maxmemory.n \in Nat /\ Profile.maxmemory.unit \in {"k", "m", "g", "b"}
  BY <1>1, NumbersAssumption DEF LaunchInv, Profile
<1>3. BytesOf(Profile.maxmemory) \in Nat
  <2>1. Power[Profile.maxmemory.unit] \in Nat
    BY <1>2, Units
  <2> QED
    BY <1>2, <2>1 DEF BytesOf
<1>4. \A lo, hi \in Nat : lo # 0 /\ lo <= hi =>
        (lo + hi) \div 2 \in Nat \ {0} /\ lo + hi <= 2 * ((lo + hi) \div 2) + 1
  OBVIOUS
<1>5. /\ Profile.size_range.min # 0 /\ Profile.size_range.min <= Profile.size_range.max
      /\ Profile.size_range.min \in Nat /\ Profile.size_range.max \in Nat
  BY <1>1, <1>2 DEF IsRange
<1> QED
  BY <1>1, <1>2, <1>3, <1>4, <1>5 DEF Average

\* No limit is the largest word, which a need that is cut off at a word would
\* meet, and none that memcached may be told is so small that the part of a
\* megabyte it is not told would matter.
Ample ==
  \A f \in Files : \A name \in DOMAIN f.profiles :
    LET limit == BytesOf(f.profiles[name].maxmemory)
    IN  /\ limit < WORD
        /\ (\E a \in Args : a.cache = "memcache") => limit = 0 \/ limit >= 4 * Power.m

\* A quantity of keys at a mean size, with its digits, of which twice as much
\* is there.
LEMMA HalfIsEnough ==
  ASSUME NEW keys \in Nat, NEW d \in Nat, NEW mean \in Nat \ {0}, NEW both \in Nat, both <= 2 * mean + 1,
         NEW max \in Nat, 2 * (d + keys * mean) <= max,
         NEW limit \in Nat, NEW m \in Nat,
         limit = max \/ (max >= 4 * m /\ max < limit + m)
  PROVE  2 * d + keys * both <= 2 * limit
<1> DEFINE w == keys * mean
           most == keys * both
<1>1. w \in Nat /\ keys <= w
  OBVIOUS
<1>2. most <= 2 * w + keys /\ most \in Nat
  <2>1. keys * both <= keys * (2 * mean + 1)
    OBVIOUS
  <2>2. keys * (2 * mean + 1) = 2 * (keys * mean) + keys
    OBVIOUS
  <2> QED
    BY <2>1, <2>2
<1>3. 2 * (d + w) <= max
  OBVIOUS
<1> HIDE DEF w, most
<1>4. 2 * d + most <= 2 * limit
  BY <1>1, <1>2, <1>3
<1> QED
  BY <1>4 DEF most

LEMMA EntriesAre ==
  ASSUME LaunchInv, Checked
  PROVE  /\ Clients \in Nat
         /\ Entries \in 0..WORD
<1> DEFINE c == Profile.connections_per_thread
           t == Profile.bench_threads
<1>1. c \in 0..(U32 - 1) /\ t \in 0..(U32 - 1) /\ U32 \in Nat \ {0, 1} /\ U32 * U32 <= WORD + 1
      /\ TEN_MILLION \in Nat /\ TEN_MILLION <= WORD /\ WORD \in Nat
  BY ProfileIs, LaunchAssumption
<1>2. c * t \in 0..WORD
  <2>1. \A x, y, u \in Nat : x <= u - 1 /\ y <= u - 1 => x * y <= (u - 1) * (u - 1)
    <3>1. \A x, y, v \in Nat : x <= v /\ y <= v => x * y <= v * v
      <4>1. \A x, y, v \in Nat : y <= v => x * y <= x * v /\ x * y \in Nat /\ x * v \in Nat
        OBVIOUS
      <4>2. \A x, v \in Nat : x <= v => x * v <= v * v /\ v * v \in Nat
        OBVIOUS
      <4> QED
        BY <4>1, <4>2
    <3> SUFFICES ASSUME NEW x \in Nat, NEW y \in Nat, NEW u \in Nat, x <= u - 1, y <= u - 1
                 PROVE  x * y <= (u - 1) * (u - 1)
      OBVIOUS
    <3>2. u - 1 \in Nat
      OBVIOUS
    <3> QED
      BY <3>1, <3>2
  <2>2. \A u \in Nat \ {0, 1} : (u - 1) * (u - 1) = u * u - 2 * u + 1 /\ u * u \in Nat
    OBVIOUS
  <2>3. c * t \in Nat /\ c * t <= (U32 - 1) * (U32 - 1)
    <3> HIDE DEF c, t
    <3> QED BY <1>1, <2>1
  <2> HIDE DEF c, t
  <2> QED
    BY <1>1, <2>2, <2>3
<1>3. Clients = c * t
  BY DEF Clients
<1> HIDE DEF c, t
<1>4. AboutTenMillion \in 0..WORD
  <2>1. CASE Clients = 0
    BY <1>1, <2>1 DEF AboutTenMillion
  <2>2. CASE Clients # 0
    <3> DEFINE q == TEN_MILLION \div Clients
    <3>1. Clients \in Nat \ {0}
      BY <1>2, <1>3, <2>2
    <3>2. q \in Nat /\ q * Clients <= TEN_MILLION /\ q * Clients \in Nat
      BY <1>1, <3>1, Quotients
    <3> HIDE DEF q
    <3>3. Max({q, 1}) = CHOOSE x \in {q, 1} : \A y \in {q, 1} : x >= y
      BY DEF Max
    <3>4. Max({q, 1}) \in {q, 1}
      <4>1. \E x \in {q, 1} : \A y \in {q, 1} : x >= y
        BY <3>2
      <4> QED
        BY <3>3, <4>1
    <3>5. AboutTenMillion = Max({q, 1}) * Clients
      BY <2>2 DEF AboutTenMillion, q
    <3>6. CASE Max({q, 1}) = q
      BY <1>1, <3>2, <3>5, <3>6
    <3>7. CASE Max({q, 1}) = 1
      BY <1>2, <1>3, <3>1, <3>5, <3>7
    <3> QED
      BY <3>4, <3>6, <3>7
  <2> QED
    BY <2>1, <2>2
<1>5. args.entries # NotGiven => args.entries \in 0..WORD
  BY NumbersAssumption DEF LaunchInv
<1> QED
  BY <1>2, <1>3, <1>4, <1>5 DEF Entries

\* A need that is doubled and cut off at a word, and met by less than a word,
\* was not cut off.
LEMMA NotCutOff ==
  ASSUME NEW n \in Nat, NEW limit \in Nat, limit < WORD, Saturated(Saturated(n) * 2) <= limit
  PROVE  Saturated(n) = n /\ 2 * n <= limit
  BY LaunchAssumption DEF Saturated

\* With limits that are ample, whatever unit a server is told its memory in, it
\* has room for the keys and values it will be sent.
THEOREM NobodyIsEvicted ==
  ASSUME Ample
  PROVE  LaunchInit /\ [][LaunchNext]_launchVars => []NobodyEvicts
<1>1. ASSUME LaunchInv PROVE NobodyEvicts
  <2> DEFINE b == BytesOf(Profile.maxmemory)
             mean == Average(Profile.size_range)
             both == load.sizes.min + load.sizes.max
             keys == IF args.command = "mem" THEN digits(load.keys) ELSE 0
  <2> SUFFICES ASSUME pc = "loading",
                      ~(server.cache = "dragonfly" /\ args.command = "run" /\ args.compat = "upstream"),
                      server.limit # 0
               PROVE  2 * keys + load.keys * both <= 2 * server.limit
    BY DEF NobodyEvicts
  <2>1. Checked /\ server = Server(args.threads, Mode) /\ load = Invocation(Asked)
    BY <1>1 DEF LaunchInv
  <2>2. /\ server.cache = args.cache
        /\ server.limit = Understood(args.cache, MemoryValue(args.cache, b, args.threads, Mode))
    BY <2>1 DEF Server
  <2>3. load.keys = (IF args.command = "mem" THEN Entries ELSE Profile.key_maximum)
        /\ load.sizes = Profile.size_range
    BY <2>1 DEF Invocation, Asked, Shaped
  <2>4. ~(args.cache = "dragonfly" /\ Mode = "upstream")
    BY <2>2 DEF Mode
  <2>5. /\ b \in Nat /\ mean \in Nat \ {0} /\ both \in Nat /\ both <= 2 * mean + 1
        /\ Profile.key_maximum \in Nat /\ Check(Profile) /\ args.profile \in DOMAIN file.profiles
    BY <1>1, <2>1, <2>3, ProfileIs
  <2>6. /\ server.limit \in Nat
        /\ args.cache # "memcache" => server.limit = b
        /\ args.cache = "memcache" => server.limit <= b /\ b < server.limit + Power.m
    BY <2>2, <2>4, <2>5, Understands
  <2>7. b # 0
    BY <2>5, <2>6
  <2>8. b < WORD /\ (args.cache = "memcache" => b >= 4 * Power.m)
    BY <1>1, <2>5, <2>7 DEF Ample, LaunchInv, Profile
  <2>9. server.limit = b \/ (b >= 4 * Power.m /\ b < server.limit + Power.m)
    BY <2>6, <2>8
  <2>10. Power.m \in Nat
    BY Units
  <2>11. CASE args.command = "mem"
    <3> DEFINE d == digits(Entries)
               weight == Entries * mean
    <3>1. Entries \in Nat /\ d \in Nat
      BY <1>1, <2>1, EntriesAre, DigitsNat
    <3>2. Saturated(2 * Payload) <= b
      BY <2>1, <2>7, <2>11 DEF Checked, Roomy
    <3>3. Payload = Saturated(d + Saturated(weight))
      BY DEF Payload
    <3>4. weight \in Nat
      BY <2>5, <3>1
    <3> HIDE DEF d, weight
    <3>5. Saturated(weight) \in Nat /\ d + Saturated(weight) \in Nat
      BY <3>1, <3>4, Saturates
    <3>6. Payload \in Nat
      BY <3>3, <3>5, Saturates
    <3>7. Payload = d + Saturated(weight) /\ 2 * (d + Saturated(weight)) <= b
      <4>1. 2 * Payload = Saturated(d + Saturated(weight)) * 2
        BY <3>3, <3>6
      <4> HIDE DEF b
      <4> QED
        BY <2>5, <2>8, <3>2, <3>3, <3>5, <4>1, NotCutOff
    <3>8. Saturated(weight) = weight
      <4>1. Saturated(weight) < WORD
        <5> HIDE DEF b
        <5> QED BY <2>5, <2>8, <3>1, <3>5, <3>7, LaunchAssumption
      <4> QED
        BY <3>4, <4>1, Saturates
    <3>9. 2 * (d + Entries * mean) <= b
      BY <3>7, <3>8 DEF weight
    <3>10. 2 * d + Entries * both <= 2 * server.limit
      <4> HIDE DEF b, mean, both
      <4> QED
        BY <2>5, <2>6, <2>9, <2>10, <3>1, <3>9, HalfIsEnough
    <3> QED
      BY <2>3, <2>11, <3>10 DEF d
  <2>12. CASE args.command # "mem"
    <3> DEFINE set == Profile.key_maximum * mean
    <3>1. Saturated(Saturated(set) * 2) <= b
      <4>1. ~(b < Saturated(Saturated(set) * 2))
        BY <2>5 DEF Check, WillEvict, WorkingSet, HEADROOM
      <4>2. Saturated(Saturated(set) * 2) \in Nat
        <5>1. set \in Nat
          BY <2>5
        <5>2. Saturated(set) * 2 \in Nat
          <6> HIDE DEF set
          <6> QED BY <5>1, Saturates
        <5> QED
          BY <5>2, Saturates
      <4> QED
        BY <2>5, <4>1, <4>2
    <3>2. 2 * set <= b
      <4>1. set \in Nat
        BY <2>5
      <4> HIDE DEF set, b
      <4> QED
        BY <2>5, <2>8, <3>1, <4>1, NotCutOff
    <3>3. 2 * (0 + Profile.key_maximum * mean) <= b
      BY <2>5, <3>2
    <3>4. 2 * 0 + Profile.key_maximum * both <= 2 * server.limit
      <4> HIDE DEF b, mean, both
      <4> QED
        BY <2>5, <2>6, <2>9, <2>10, <3>3, HalfIsEnough
    <3> QED
      BY <2>3, <2>12, <3>4
  <2> QED
    BY <2>11, <2>12
<1> QED
  BY <1>1, InitLaunch, StepLaunch, PTL

-----------------------------------------------------------------------------
(***************************************************************************)
(* What the clients do.                                                    *)
(***************************************************************************)
\* The clients of a load, its operations and keys, as numbers.
LEMMA LoadIs ==
  ASSUME LaunchInv, Checked, load = Invocation(Asked)
  PROVE  /\ load.c \in 0..(U32 - 1) /\ load.t \in 0..(U32 - 1) /\ load.n \in Nat
         /\ load.c = Profile.connections_per_thread /\ load.t = Profile.bench_threads
         /\ Wanted = Saturated(load.n * ((load.c * load.t) % U32))
         /\ Connections(Profile) = (load.c * load.t) % U32
         /\ args.command = "mem" =>
              /\ load.keys = Entries /\ Entries \in 0..WORD /\ load.sizes = Profile.size_range
              /\ load.c * load.t \in Nat \ {0} /\ load.n * (load.c * load.t) = Entries
              /\ Entries \div (load.c * load.t) = load.n
<1>1. /\ load.c = Profile.connections_per_thread /\ load.t = Profile.bench_threads
      /\ load.n = Asked.operations /\ load.keys = Asked.key_maximum /\ load.sizes = Profile.size_range
      /\ Connections(Asked) = Connections(Profile)
      /\ args.command = "mem" => load.n = PerClient /\ load.keys = Entries
      /\ args.command # "mem" => load.n = Profile.operations
  BY DEF Invocation, Asked, Shaped, Connections
<1>2. /\ load.c \in 0..(U32 - 1) /\ load.t \in 0..(U32 - 1) /\ U32 \in Nat \ {0}
      /\ Profile.operations \in Nat
  BY <1>1, ProfileIs, LaunchAssumption
<1>3. Clients \in Nat /\ Entries \in 0..WORD /\ Clients = load.c * load.t
  BY <1>1, EntriesAre DEF Clients
<1>4. ASSUME args.command = "mem"
      PROVE  /\ Clients # 0 /\ load.n \in Nat /\ load.n * Clients = Entries
             /\ Entries \div Clients = load.n
  <2>1. Clients # 0 /\ Entries % Clients = 0
    BY <1>4 DEF Checked, Plannable
  <2> QED
    BY <1>1, <1>3, <1>4, <2>1, Quotients DEF PerClient
<1>5. Connections(Profile) = (load.c * load.t) % U32
  <2>1. \A x, y \in Nat : x * y = y * x
    OBVIOUS
  <2> QED
    BY <1>1, <1>2, <2>1 DEF Connections
<1>6. Wanted = Saturated(load.n * ((load.c * load.t) % U32))
  BY <1>1, <1>5 DEF Wanted, TotalOperations
<1> QED
  BY <1>1, <1>2, <1>3, <1>4, <1>5, <1>6

\* However early the first client stops, the others go through.
LEMMA OperationsAre ==
  ASSUME NEW c \in Nat, c = load.c * load.t, load.n \in Nat, NEW done \in 0..load.n
  PROVE  /\ IsFiniteSet(Operations(done)) /\ Cardinality(Operations(done)) \in Nat
         /\ c # 0 => Cardinality(Operations(done)) >= (c - 1) * load.n
         /\ Cardinality(Operations(done)) <= c * load.n
<1> DEFINE n == load.n
           all == (0..(c - 1)) \X (0..(n - 1))
           others == (1..(c - 1)) \X (0..(n - 1))
           ops == Operations(done)
<1>1. ops \in SUBSET all /\ (c # 0 => others \in SUBSET ops)
  BY DEF Operations
<1>2. /\ IsFiniteSet(0..(c - 1)) /\ Cardinality(0..(c - 1)) = c
      /\ IsFiniteSet(0..(n - 1)) /\ Cardinality(0..(n - 1)) = n
      /\ IsFiniteSet(1..(c - 1)) /\ (c # 0 => Cardinality(1..(c - 1)) = c - 1)
  <2>1. n \in Nat /\ 0 \in Int /\ 1 \in Int /\ c - 1 \in Int /\ n - 1 \in Int
    OBVIOUS
  <2> HIDE DEF n
  <2>2. \A a, b \in Int : /\ IsFiniteSet(a..b)
                          /\ Cardinality(a..b) = IF a > b THEN 0 ELSE b - a + 1
    BY FS_Interval
  <2>3. IsFiniteSet(0..(c - 1)) /\ Cardinality(0..(c - 1)) = IF 0 > c - 1 THEN 0 ELSE c - 1 - 0 + 1
    BY <2>1, <2>2
  <2>4. IsFiniteSet(0..(n - 1)) /\ Cardinality(0..(n - 1)) = IF 0 > n - 1 THEN 0 ELSE n - 1 - 0 + 1
    BY <2>1, <2>2
  <2>5. IsFiniteSet(1..(c - 1)) /\ Cardinality(1..(c - 1)) = IF 1 > c - 1 THEN 0 ELSE c - 1 - 1 + 1
    BY <2>1, <2>2
  <2>6. \A k \in Nat : /\ (IF 0 > k - 1 THEN 0 ELSE k - 1 - 0 + 1) = k
                       /\ k # 0 => (IF 1 > k - 1 THEN 0 ELSE k - 1 - 1 + 1) = k - 1
    OBVIOUS
  <2> QED
    BY <2>1, <2>3, <2>4, <2>5, <2>6
<1>p. \A S, T : IsFiniteSet(S) /\ IsFiniteSet(T) =>
        IsFiniteSet(S \X T) /\ Cardinality(S \X T) = Cardinality(S) * Cardinality(T)
  BY FS_Product
<1>3. IsFiniteSet(all) /\ Cardinality(all) = c * n
  <2>1. Cardinality(all) = Cardinality(0..(c - 1)) * Cardinality(0..(n - 1)) /\ IsFiniteSet(all)
    BY <1>2, <1>p
  <2> QED
    BY <1>2, <2>1
<1>4. IsFiniteSet(others) /\ (c # 0 => Cardinality(others) = (c - 1) * n)
  <2>1. Cardinality(others) = Cardinality(1..(c - 1)) * Cardinality(0..(n - 1)) /\ IsFiniteSet(others)
    BY <1>2, <1>p
  <2> QED
    BY <1>2, <2>1
<1> HIDE DEF all, others, ops
<1>5. IsFiniteSet(ops) /\ Cardinality(ops) <= Cardinality(all) /\ Cardinality(ops) \in Nat
  BY <1>1, <1>3, FS_Subset, FS_CardinalityType
<1>6. c # 0 => Cardinality(others) <= Cardinality(ops)
  BY <1>1, <1>5, FS_Subset
<1>7. (c - 1) * n \in Int /\ c * n \in Int
  OBVIOUS
<1>8. Cardinality(ops) <= c * n /\ (c # 0 => Cardinality(ops) >= (c - 1) * n)
  <2> HIDE DEF n
  <2> QED BY <1>3, <1>4, <1>5, <1>6, <1>7
<1> QED
  BY <1>5, <1>8 DEF ops

\* A product of two u32 that did not fit one would have been noticed: as many
\* operations as memtier did were not asked for.
LEMMA NoWrap ==
  ASSUME NEW c \in Nat, NEW n \in Nat, NEW done \in Nat, done # 0,
         c # 0 => done >= (c - 1) * n, done <= c * n,
         NEW wanted \in Nat, wanted <= n * (c % U32),
         Distance(done, wanted) * TOLERANCE <= wanted
  PROVE  c % U32 = c
<1>1. U32 \in Nat \ {0, 1} /\ TOLERANCE \in Nat \ {0, 1}
  BY LaunchAssumption
<1>2. ASSUME c >= U32 PROVE FALSE
  <2> DEFINE r == c % U32
  <2>1. r \in 0..(U32 - 1) /\ r <= c - U32
    <3>1. r \in 0..(U32 - 1) /\ c \div U32 \in Nat /\ c = (c \div U32) * U32 + r
      BY <1>1
    <3>2. c \div U32 # 0
      BY <1>1, <1>2, <3>1
    <3>3. (c \div U32) * U32 >= U32
      <4>1. \A x, y \in Nat : x # 0 => x * y >= y
        OBVIOUS
      <4> QED
        BY <1>1, <3>1, <3>2, <4>1
    <3>4. (c \div U32) * U32 \in Nat
      BY <1>1, <3>1
    <3> HIDE DEF r
    <3> QED
      BY <1>1, <3>1, <3>3, <3>4
  <2> HIDE DEF r
  <2>2. n # 0
    <3>1. CASE n = 0
      <4>1. c * n = 0
        BY <3>1
      <4> QED
        BY <4>1
    <3> QED
      BY <3>1
  <2>3. n * r <= n * (U32 - 1) /\ n * r <= n * (c - U32) /\ n * r \in Nat
    <3>1. \A x, y, z \in Nat : y <= z => x * y <= x * z /\ x * y \in Nat
      OBVIOUS
    <3>2. U32 - 1 \in Nat /\ c - U32 \in Nat /\ r \in Nat
      BY <1>1, <1>2, <2>1
    <3> QED
      BY <2>1, <3>1, <3>2
  <2>4. (c - 1) * n = n * (c - U32) + n * (U32 - 1)
    BY <1>1, <1>2
  <2>5. n * (U32 - 1) \in Nat /\ n * (U32 - 1) # 0 /\ n * (c - U32) \in Int
    <3>1. \A x, y \in Nat : x # 0 /\ y # 0 => x * y \in Nat /\ x * y # 0
      OBVIOUS
    <3>2. U32 - 1 \in Nat /\ U32 - 1 # 0 /\ c - U32 \in Int
      BY <1>1
    <3>3. n * (U32 - 1) \in Nat /\ n * (U32 - 1) # 0
      BY <2>2, <3>1, <3>2
    <3>4. n * (c - U32) \in Int
      BY <3>2
    <3> QED
      BY <3>3, <3>4
  <2>6. wanted <= n * r
    BY DEF r
  <2>7. done >= (c - 1) * n
    BY <1>1, <1>2
  <2> DEFINE k == n * (U32 - 1)
             j == n * (c - U32)
             i == n * r
  <2>8. done >= j + k /\ i <= k /\ i <= j /\ wanted <= i /\ k # 0 /\ k \in Nat /\ j \in Int /\ i \in Nat
    BY <2>3, <2>4, <2>5, <2>6, <2>7
  <2> HIDE DEF i, j, k
  <2>9. Distance(done, wanted) = done - wanted /\ done - wanted \in Nat /\ done - wanted >= k
    BY <2>8 DEF Distance
  <2>10. \A x, y \in Nat : y # 0 /\ y # 1 => x * y >= x + x
    OBVIOUS
  <2>11. Distance(done, wanted) * TOLERANCE >= Distance(done, wanted) + Distance(done, wanted)
    BY <1>1, <2>9, <2>10
  <2>12. Distance(done, wanted) * TOLERANCE \in Nat
    BY <1>1, <2>9
  <2> QED
    BY <2>8, <2>9, <2>11, <2>12
<1>3. c < U32 => c % U32 = c
  BY <1>1
<1> QED
  BY <1>1, <1>2, <1>3

\* When the slices have as many keys as a client has operations, every key is
\* written once.
LEMMA KeysAre ==
  ASSUME NEW c \in Nat, c = load.c * load.t, c # 0, load.n \in Nat, load.n # 0,
         load.keys = c * load.n, load.keys \div c = load.n, NEW done \in 0..load.n
  PROVE  LET ops == Operations(done)
             keys == {KeyOf(o[1], o[2]) : o \in ops}
         IN  Slice # 0 /\ keys \subseteq 1..load.keys /\ Cardinality(keys) = Cardinality(ops)
<1> DEFINE n == load.n
           ops == Operations(done)
           keys == {KeyOf(o[1], o[2]) : o \in ops}
           write == [o \in ops |-> KeyOf(o[1], o[2])]
<1>1. Slice = n
  BY DEF Slice
<1>2. \A o \in ops : o[1] \in 0..(c - 1) /\ o[2] \in 0..(n - 1) /\ o = <<o[1], o[2]>>
  BY DEF Operations
<1>3. \A a \in Nat, b \in 0..(n - 1) : KeyOf(a, b) = 1 + a * n + b
  <2>1. \A b \in 0..(n - 1) : b % n = b
    OBVIOUS
  <2> QED
    BY <1>1, <2>1 DEF KeyOf
<1>4. n \in Nat /\ load.keys = c * n
  OBVIOUS
<1> HIDE DEF n, ops
<1>5. \A o \in ops : /\ o[1] \in Nat /\ o[1] <= c - 1 /\ o[2] \in Nat /\ o[2] <= n - 1
                     /\ KeyOf(o[1], o[2]) = 1 + o[1] * n + o[2]
  BY <1>2, <1>3, <1>4
<1>6. \A a \in Nat : a <= c - 1 => a * n + n <= c * n /\ a * n \in Nat /\ c * n \in Nat
  <2> SUFFICES ASSUME NEW a \in Nat, a <= c - 1
               PROVE  a * n + n <= c * n /\ a * n \in Nat /\ c * n \in Nat
    OBVIOUS
  <2>1. \A x, y, z \in Nat : x <= y => x * z <= y * z /\ x * z \in Nat /\ y * z \in Nat
    OBVIOUS
  <2>2. a + 1 \in Nat /\ a + 1 <= c
    OBVIOUS
  <2>3. (a + 1) * n = a * n + n
    BY <1>4
  <2> QED
    BY <1>4, <2>1, <2>2, <2>3
<1>7. keys \subseteq 1..load.keys
  <2> SUFFICES ASSUME NEW o \in ops PROVE KeyOf(o[1], o[2]) \in 1..load.keys
    OBVIOUS
  <2>1. o[1] * n + n <= c * n /\ o[1] * n \in Nat /\ c * n \in Nat
    BY <1>5, <1>6
  <2> DEFINE x == o[1] * n
             y == c * n
  <2>2. x + n <= y /\ x \in Nat /\ y \in Nat
    BY <2>1
  <2> HIDE DEF x, y
  <2>3. 1 + x + o[2] \in 1..y
    BY <1>4, <1>5, <2>2
  <2> QED
    BY <1>4, <1>5, <2>3 DEF x, y
<1>8. ASSUME NEW o \in ops, NEW u \in ops, KeyOf(o[1], o[2]) = KeyOf(u[1], u[2])
      PROVE  o = u
  <2> DEFINE a == o[1]
             b == u[1]
  <2>1. /\ a \in Nat /\ b \in Nat /\ o[2] \in Nat /\ u[2] \in Nat /\ o[2] <= n - 1 /\ u[2] <= n - 1
        /\ 1 + a * n + o[2] = 1 + b * n + u[2]
    BY <1>5, <1>8
  <2>2. \A x, y \in Nat : x < y => x * n + n <= y * n /\ x * n \in Nat /\ y * n \in Nat
    <3> SUFFICES ASSUME NEW x \in Nat, NEW y \in Nat, x < y
                 PROVE  x * n + n <= y * n /\ x * n \in Nat /\ y * n \in Nat
      OBVIOUS
    <3>1. \A p, q, z \in Nat : p <= q => p * z <= q * z /\ p * z \in Nat /\ q * z \in Nat
      OBVIOUS
    <3>2. x + 1 \in Nat /\ x + 1 <= y
      OBVIOUS
    <3>3. (x + 1) * n = x * n + n
      BY <1>4
    <3> QED
      BY <1>4, <3>1, <3>2, <3>3
  <2> HIDE DEF a, b
  <2>3. a = b
    <3>1. CASE a < b
      BY <1>4, <2>1, <2>2, <3>1
    <3>2. CASE b < a
      BY <1>4, <2>1, <2>2, <3>2
    <3> QED
      BY <2>1, <3>1, <3>2
  <2>4. o[2] = u[2]
    <3>1. a * n \in Nat
      BY <1>4, <2>1
    <3>2. 1 + a * n + o[2] = 1 + a * n + u[2]
      BY <2>1, <2>3
    <3>3. \A x, y, z \in Nat : 1 + x + y = 1 + x + z => y = z
      OBVIOUS
    <3> QED
      BY <2>1, <3>1, <3>2, <3>3
  <2> QED
    BY <1>2, <2>3, <2>4 DEF a, b
<1>9. write \in Surjection(ops, keys) /\ write \in Injection(ops, keys)
  <2>1. write \in [ops -> keys]
    OBVIOUS
  <2>2. \A k \in keys : \E o \in ops : write[o] = k
    OBVIOUS
  <2>3. \A o, u \in ops : write[o] = write[u] => o = u
    BY <1>8
  <2> HIDE DEF keys, write
  <2>4. DOMAIN write = ops
    BY DEF write
  <2> QED
    BY <2>1, <2>2, <2>3, <2>4 DEF Surjection, Injection, IsInjective
<1>10. IsFiniteSet(ops)
  BY OperationsAre DEF ops
<1> HIDE DEF keys, write
<1>11. Cardinality(keys) = Cardinality(ops)
  BY <1>9, <1>10, FS_Surjection
<1> QED
  BY <1>1, <1>4, <1>7, <1>11 DEF keys, ops, n

-----------------------------------------------------------------------------
(***************************************************************************)
(* Digits, counted a decade at a time and key by key.                      *)
(***************************************************************************)
\* The decades that a number has reached are those up to its own.
LEMMA TopDecade ==
  ASSUME NEW n \in Nat, n < TEN ^ DIGITS, Decades(n) # {}
  PROVE  \E top \in 0..(DIGITS - 1) :
           /\ Decades(n) = 0..top /\ TEN ^ top <= n /\ n < TEN ^ (top + 1)
           /\ \A w \in 0..top : TEN ^ w <= TEN ^ top /\ TEN ^ w \in Nat
<1> DEFINE Larger == {w \in 0..DIGITS : n < TEN ^ w}
<1>1. /\ DIGITS \in Nat /\ \A w \in 0..DIGITS : TEN ^ w \in Nat
      /\ \A v, w \in 0..DIGITS : v < w => TEN ^ v < TEN ^ w
  BY PowersAssumption
<1>2. DIGITS \in Larger /\ Larger \subseteq Nat
  BY <1>1
<1>3. PICK v \in Larger : \A w \in Larger : v <= w
  <2> HIDE DEF Larger
  <2> QED BY <1>2, LeastOf
<1>4. v \in 0..DIGITS /\ n < TEN ^ v /\ TEN ^ v \in Nat
  BY <1>1, <1>3
<1>5. PICK low \in 0..(DIGITS - 1) : TEN ^ low <= n
  BY DEF Decades
<1>6. low < v
  <2>1. CASE v = low
    BY <1>1, <1>4, <1>5, <2>1
  <2>2. CASE v < low
    <3>1. low \in 0..DIGITS /\ TEN ^ v < TEN ^ low /\ TEN ^ low \in Nat
      BY <1>1, <1>4, <1>5, <2>2
    <3> QED
      BY <1>4, <1>5, <3>1
  <2> QED
    BY <1>1, <1>4, <1>5, <2>1, <2>2
<1> DEFINE top == v - 1
<1>7. top \in 0..(DIGITS - 1) /\ top \in 0..DIGITS /\ top + 1 = v /\ top < v
  BY <1>1, <1>4, <1>5, <1>6
<1> HIDE DEF top
<1>8. TEN ^ top <= n /\ TEN ^ top \in Nat
  <2>1. top \notin Larger
    <3> HIDE DEF Larger
    <3> QED BY <1>3, <1>4, <1>7
  <2> QED
    BY <1>1, <1>7, <2>1
<1>9. \A w \in 0..top : TEN ^ w <= TEN ^ top /\ TEN ^ w \in Nat /\ w \in 0..(DIGITS - 1)
  <2> SUFFICES ASSUME NEW w \in 0..top
               PROVE  TEN ^ w <= TEN ^ top /\ TEN ^ w \in Nat /\ w \in 0..(DIGITS - 1)
    OBVIOUS
  <2>1. w \in 0..DIGITS /\ w \in 0..(DIGITS - 1) /\ (w = top \/ w < top)
    BY <1>1, <1>7
  <2>2. TEN ^ w \in Nat /\ (w < top => TEN ^ w < TEN ^ top)
    BY <1>1, <1>7, <2>1
  <2> QED
    BY <1>8, <2>1, <2>2
<1>10. ASSUME NEW w \in Decades(n) PROVE w \in 0..top
  <2>1. w \in 0..(DIGITS - 1) /\ w \in 0..DIGITS /\ TEN ^ w <= n
    BY <1>1 DEF Decades
  <2>2. ASSUME v <= w PROVE FALSE
    <3>1. TEN ^ w \in Nat /\ (v = w \/ TEN ^ v < TEN ^ w)
      BY <1>1, <1>4, <2>1, <2>2
    <3> QED
      BY <1>4, <2>1, <3>1
  <2> QED
    BY <1>4, <1>7, <2>1, <2>2
<1>11. Decades(n) = 0..top
  <2>1. ASSUME NEW w \in 0..top PROVE w \in Decades(n)
    <3>1. w \in 0..(DIGITS - 1) /\ TEN ^ w <= n
      BY <1>8, <1>9
    <3> QED
      BY <3>1 DEF Decades
  <2> QED
    BY <1>10, <2>1
<1> QED
  BY <1>4, <1>7, <1>8, <1>9, <1>11

\* One more key has the digits it has.
LEMMA DigitsStep ==
  ASSUME NEW n \in Nat, n # 0, n < TEN ^ DIGITS
  PROVE  digits(n) = digits(n - 1) + DigitsOf(n) /\ DigitsOf(n) \in Nat
<1> DEFINE f == [w \in Decades(n) |-> DecadeOf(n, w)]
           g == [w \in Decades(n - 1) |-> DecadeOf(n - 1, w)]
<1>1. n - 1 \in Nat
  OBVIOUS
<1>2. DigitsOf(n) = Cardinality(Decades(n)) /\ DigitsOf(n) \in Nat
  <2>1. DigitsOf(n) = Cardinality(Decades(n))
    BY DEF DigitsOf, Decades
  <2> QED
    BY <2>1, DecadesAre, FS_CardinalityType
<1>3. digits(n) = SumFunction(f) /\ digits(n - 1) = SumFunction(g)
  BY DEF digits
<1>4. DOMAIN f = Decades(n) /\ \A w \in Decades(n) : f[w] = DecadeOf(n, w)
  OBVIOUS
<1>5. DOMAIN g = Decades(n - 1) /\ \A w \in Decades(n - 1) : g[w] = DecadeOf(n - 1, w)
  OBVIOUS
<1>6. CASE Decades(n) = {}
  <2>1. Decades(n - 1) = {}
    <3>1. ASSUME NEW w \in Decades(n - 1) PROVE w \in Decades(n)
      <4>1. w \in 0..(DIGITS - 1) /\ TEN ^ w <= n - 1 /\ w \in 0..DIGITS
        BY PowersAssumption DEF Decades
      <4>2. TEN ^ w \in Nat
        BY <4>1, PowersAssumption
      <4>3. TEN ^ w <= n
        BY <4>1, <4>2
      <4> QED
        BY <4>1, <4>3 DEF Decades
    <3> QED
      BY <1>6, <3>1
  <2>2. Cardinality(Decades(n)) = 0
    BY <1>6, FS_EmptySet
  <2>3. DOMAIN f = {} /\ DOMAIN g = {}
    BY <1>6, <2>1
  <2> HIDE DEF f, g
  <2>4. SumFunction(f) = 0 /\ SumFunction(g) = 0
    BY <2>3, SumOfNone
  <2> QED
    BY <1>2, <1>3, <2>2, <2>4
<1>7. CASE Decades(n) # {}
  <2>1. PICK top \in 0..(DIGITS - 1) :
           /\ Decades(n) = 0..top /\ TEN ^ top <= n /\ n < TEN ^ (top + 1)
           /\ \A w \in 0..top : TEN ^ w <= TEN ^ top /\ TEN ^ w \in Nat
    BY <1>7, TopDecade
  <2> DEFINE a == TEN ^ top
             b == TEN ^ (top + 1)
             e == [w \in 0..(top - 1) |-> DecadeOf(n, w)]
  <2>2. /\ top \in Nat /\ a \in Nat /\ b \in Nat /\ a <= n /\ n < b
        /\ top + 1 \in 0..DIGITS /\ top \in 0..top
    BY <2>1, PowersAssumption
  <2>3. DigitsOf(n) = top + 1
    <3>1. Cardinality(0..top) = top + 1
      BY <2>2, FS_Interval
    <3> QED
      BY <1>2, <2>1, <3>1
  <2>4. IsFiniteSet(Decades(n)) /\ \A w \in Decades(n) : DecadeOf(n, w) \in Nat
    BY DecadesAre
  <2>5. DOMAIN e = 0..(top - 1) /\ \A w \in 0..(top - 1) : e[w] = DecadeOf(n, w)
    OBVIOUS
  <2>6. ASSUME NEW w \in 0..(top - 1) PROVE DecadeOf(n, w) = DecadeOf(n - 1, w)
    <3> DEFINE c == TEN ^ (w + 1)
    <3>1. w + 1 \in 0..top
      BY <2>2
    <3>2. c \in Nat /\ c <= n
      <4>1. c <= a /\ c \in Nat
        BY <2>1, <3>1
      <4> HIDE DEF a, c
      <4> QED
        BY <2>2, <4>1
    <3> HIDE DEF c
    <3>3. (IF c - 1 < n THEN c - 1 ELSE n) = (IF c - 1 < n - 1 THEN c - 1 ELSE n - 1)
      BY <3>2
    <3> QED
      BY <3>3 DEF DecadeOf, c
  <2>7. DecadeOf(n, top) = (n - a + 1) * (top + 1)
    <3>1. (IF b - 1 < n THEN b - 1 ELSE n) = n
      <4> HIDE DEF a, b
      <4> QED BY <2>2
    <3> QED
      BY <3>1 DEF DecadeOf
  <2>8. SumFunction(f) = DecadeOf(n, top) + SumFunction(e)
    <3>1. /\ IsFiniteSet(DOMAIN f) /\ top \in DOMAIN f /\ DOMAIN e = DOMAIN f \ {top}
          /\ f[top] = DecadeOf(n, top)
      BY <1>4, <2>1, <2>2, <2>4, <2>5
    <3>2. (\A x \in DOMAIN f : f[x] \in Nat) /\ (\A x \in DOMAIN e : e[x] = f[x])
      <4>1. \A x \in 0..(top - 1) : x \in Decades(n)
        BY <2>1, <2>2
      <4> HIDE DEF e, f
      <4> QED
        BY <1>4, <2>4, <2>5, <4>1
    <3> HIDE DEF e, f
    <3> QED
      BY <3>1, <3>2, SumWithout
  <2>9. SumFunction(e) \in Nat
    <3>1. IsFiniteSet(DOMAIN e)
      BY <2>2, FS_Interval
    <3>2. \A x \in DOMAIN e : e[x] \in Nat
      <4>1. \A x \in 0..(top - 1) : x \in Decades(n)
        BY <2>1, <2>2
      <4> HIDE DEF e
      <4> QED
        BY <2>4, <2>5, <4>1
    <3> HIDE DEF e
    <3> QED
      BY <3>1, <3>2, SumNat
  <2>10. \A w \in 0..(DIGITS - 1) : w \in Decades(n - 1) <=> w \in 0..top /\ TEN ^ w <= n - 1
    <3> SUFFICES ASSUME NEW w \in 0..(DIGITS - 1), TEN ^ w <= n - 1 PROVE w \in 0..top
      BY DEF Decades
    <3>1. TEN ^ w \in Nat
      BY PowersAssumption
    <3>2. TEN ^ w <= n
      BY <3>1
    <3>3. w \in Decades(n)
      BY <3>2 DEF Decades
    <3> QED
      BY <2>1, <3>3
  <2>11. \A w \in 0..(top - 1) : TEN ^ w <= n - 1 /\ w \in 0..(DIGITS - 1) /\ w \in 0..top
    <3> SUFFICES ASSUME NEW w \in 0..(top - 1)
                 PROVE  TEN ^ w <= n - 1 /\ w \in 0..(DIGITS - 1) /\ w \in 0..top
      OBVIOUS
    <3>1. w \in 0..DIGITS /\ top \in 0..DIGITS /\ w < top /\ w \in 0..(DIGITS - 1) /\ w \in 0..top
      BY <2>1, <2>2, PowersAssumption
    <3>2. TEN ^ w < a /\ TEN ^ w \in Nat
      BY <3>1, PowersAssumption
    <3> HIDE DEF a
    <3> QED
      BY <2>2, <3>1, <3>2
  <2>12. CASE a = n
    <3>1. Decades(n - 1) = 0..(top - 1)
      <4>1. ~ (a <= n - 1)
        <5> HIDE DEF a
        <5> QED BY <2>12
      <4>2. \A w \in 0..top : w = top \/ w \in 0..(top - 1)
        BY <2>2
      <4>3. Decades(n - 1) \subseteq 0..(DIGITS - 1)
        BY DEF Decades
      <4> QED
        BY <2>10, <2>11, <4>1, <4>2, <4>3
    <3>2. g = e
      BY <2>6, <3>1
    <3>3. DecadeOf(n, top) = top + 1
      <4>1. n - a + 1 = 1
        <5> HIDE DEF a
        <5> QED BY <2>12
      <4> QED
        BY <2>2, <2>7, <4>1
    <3> HIDE DEF e, f, g
    <3> QED
      BY <1>2, <1>3, <2>2, <2>3, <2>8, <2>9, <3>2, <3>3
  <2>13. CASE a # n
    <3>1. Decades(n - 1) = 0..top
      <4>1. a <= n - 1
        <5> HIDE DEF a
        <5> QED BY <2>2, <2>13
      <4>2. \A w \in 0..top : w = top \/ w \in 0..(top - 1)
        BY <2>2
      <4>3. Decades(n - 1) \subseteq 0..(DIGITS - 1)
        BY DEF Decades
      <4> QED
        BY <2>1, <2>10, <2>11, <4>1, <4>2, <4>3
    <3>2. DecadeOf(n - 1, top) = (n - 1 - a + 1) * (top + 1)
      <4>1. (IF b - 1 < n - 1 THEN b - 1 ELSE n - 1) = n - 1
        <5> HIDE DEF a, b
        <5> QED BY <2>2
      <4> QED
        BY <4>1 DEF DecadeOf
    <3>3. SumFunction(g) = DecadeOf(n - 1, top) + SumFunction(e)
      <4>1. IsFiniteSet(Decades(n - 1)) /\ \A w \in Decades(n - 1) : DecadeOf(n - 1, w) \in Nat
        BY <1>1, DecadesAre
      <4>2. /\ IsFiniteSet(DOMAIN g) /\ top \in DOMAIN g /\ DOMAIN e = DOMAIN g \ {top}
            /\ g[top] = DecadeOf(n - 1, top)
        BY <1>5, <2>2, <2>5, <3>1, <4>1
      <4>3. (\A x \in DOMAIN g : g[x] \in Nat) /\ (\A x \in DOMAIN e : e[x] = g[x])
        BY <1>5, <2>2, <2>5, <2>6, <3>1, <4>1
      <4> HIDE DEF e, g
      <4> QED
        BY <4>2, <4>3, SumWithout
    <3>4. (n - a + 1) * (top + 1) = (n - 1 - a + 1) * (top + 1) + (top + 1)
          /\ (n - 1 - a + 1) * (top + 1) \in Int
      <4>1. \A x \in Int, y \in Nat : (x + 1) * y = x * y + y /\ x * y \in Int
        OBVIOUS
      <4>2. n - a \in Int /\ n - 1 - a + 1 = n - a /\ top + 1 \in Nat
        <5> HIDE DEF a
        <5> QED BY <2>2
      <4> HIDE DEF a
      <4> QED
        BY <4>1, <4>2
    <3> HIDE DEF e, f, g, a
    <3> QED
      BY <1>2, <1>3, <2>2, <2>3, <2>7, <2>8, <2>9, <3>2, <3>3, <3>4
  <2> QED
    BY <2>12, <2>13
<1> QED
  BY <1>6, <1>7

\* Counting them a decade at a time is counting them key by key.
LEMMA DigitsByKey ==
  ASSUME NEW n \in Nat, n < TEN ^ DIGITS
  PROVE  digits(n) = SumFunction([k \in 1..n |-> DigitsOf(k)])
<1> DEFINE byKey(m) == [k \in 1..m |-> DigitsOf(k)]
           Bad == {m \in Nat : m < TEN ^ DIGITS /\ digits(m) # SumFunction(byKey(m))}
<1>0. \A k \in Nat : DigitsOf(k) \in Nat
  <2> SUFFICES ASSUME NEW k \in Nat PROVE DigitsOf(k) \in Nat
    OBVIOUS
  <2>1. DigitsOf(k) = Cardinality(Decades(k))
    BY DEF DigitsOf, Decades
  <2> QED
    BY <2>1, DecadesAre, FS_CardinalityType
<1>1. ASSUME Bad # {} PROVE FALSE
  <2>1. PICK m \in Bad : \A i \in Bad : m <= i
    <3>1. Bad \subseteq Nat
      OBVIOUS
    <3> HIDE DEF Bad
    <3> QED BY <1>1, <3>1, LeastOf
  <2>2. m \in Nat /\ m < TEN ^ DIGITS /\ digits(m) # SumFunction(byKey(m))
    OBVIOUS
  <2>3. CASE m = 0
    <3>1. Decades(0) = {}
      <4>1. \A w \in 0..(DIGITS - 1) : TEN ^ w \in Nat \ {0}
        BY PowersAssumption
      <4>2. \A w \in 0..(DIGITS - 1) : ~ (TEN ^ w <= 0)
        BY <4>1
      <4> QED
        BY <4>2 DEF Decades
    <3> DEFINE none == [w \in Decades(0) |-> DecadeOf(0, w)]
    <3>2. DOMAIN none = {} /\ digits(0) = SumFunction(none)
      BY <3>1 DEF digits
    <3>3. DOMAIN byKey(0) = {}
      OBVIOUS
    <3> HIDE DEF none, byKey
    <3>4. digits(0) = 0 /\ SumFunction(byKey(0)) = 0
      BY <3>2, <3>3, SumOfNone
    <3> QED
      BY <2>2, <2>3, <3>4
  <2>4. CASE m # 0
    <3> DEFINE f == byKey(m)
               e == byKey(m - 1)
    <3>1. m - 1 \in Nat /\ TEN ^ DIGITS \in Nat /\ m - 1 < TEN ^ DIGITS
      <4>1. TEN ^ DIGITS \in Nat
        BY PowersAssumption
      <4> QED
        BY <2>2, <2>4, <4>1
    <3>2. digits(m - 1) = SumFunction(e)
      <4>1. m - 1 \notin Bad
        <5> HIDE DEF Bad
        <5> QED BY <2>1, <2>2, <3>1
      <4> HIDE DEF byKey
      <4> QED
        BY <3>1, <4>1
    <3>3. digits(m) = digits(m - 1) + DigitsOf(m) /\ digits(m - 1) \in Nat
      BY <2>2, <2>4, <3>1, DigitsStep, DigitsNat
    <3>4. SumFunction(f) = DigitsOf(m) + SumFunction(e)
      <4>1. /\ DOMAIN f = 1..m /\ DOMAIN e = DOMAIN f \ {m} /\ m \in DOMAIN f /\ f[m] = DigitsOf(m)
        BY <2>2, <2>4
      <4>2. (\A x \in DOMAIN f : f[x] \in Nat) /\ (\A x \in DOMAIN e : e[x] = f[x])
        <5>1. \A x \in 1..m : f[x] = DigitsOf(x) /\ x \in Nat
          BY <2>2
        <5>2. \A x \in 1..(m - 1) : e[x] = DigitsOf(x) /\ x \in 1..m
          BY <2>2
        <5>3. DOMAIN f = 1..m /\ DOMAIN e = 1..(m - 1)
          OBVIOUS
        <5> HIDE DEF e, f
        <5> QED
          BY <1>0, <5>1, <5>2, <5>3
      <4>3. IsFiniteSet(DOMAIN f)
        BY <2>2, <4>1, FS_Interval
      <4>4. f[m] + SumFunction(e) = DigitsOf(m) + SumFunction(e)
        BY <4>1
      <4> HIDE DEF e, f, byKey, Bad
      <4>5. SumFunction(f) = f[m] + SumFunction(e)
        BY <4>1, <4>2, <4>3, SumWithout
      <4> QED
        BY <4>4, <4>5
    <3> HIDE DEF byKey
    <3> QED
      BY <1>0, <2>2, <3>2, <3>3, <3>4
  <2> QED
    BY <2>3, <2>4
<1> QED
  <2>1. n \notin Bad
    BY <1>1
  <2> QED
    BY <2>1

-----------------------------------------------------------------------------
(***************************************************************************)
(* What is put on record.                                                  *)
(***************************************************************************)
\* Every profile sets a limit, and none the largest word: a payload that has
\* room in it was not cut off.
Limited ==
  \A f \in Files : \A name \in DOMAIN f.profiles :
    BytesOf(f.profiles[name].maxmemory) \in 1..(WORD - 1)

\* What a fill weighs is what its keys and values do.
LEMMA PayloadIs ==
  ASSUME Limited, LaunchInv, Checked, args.command = "mem"
  PROVE  Payload = SumFunction([k \in 1..Entries |-> DigitsOf(k)]) + Entries * Average(Profile.size_range)
<1> DEFINE d == digits(Entries)
           weight == Entries * Average(Profile.size_range)
           limit == BytesOf(Profile.maxmemory)
<1>1. Entries \in 0..WORD /\ Average(Profile.size_range) \in Nat /\ d \in Nat /\ WORD \in Nat
  BY EntriesAre, ProfileIs, DigitsNat, LaunchAssumption
<1>2. limit \in 1..(WORD - 1)
  BY ProfileIs DEF Limited, LaunchInv, Profile
<1>3. Saturated(2 * Payload) <= limit
  BY <1>2 DEF Checked, Roomy
<1>4. Payload = Saturated(d + Saturated(weight)) /\ weight \in Nat
  BY <1>1 DEF Payload
<1>5. d = SumFunction([k \in 1..Entries |-> DigitsOf(k)])
  <2>1. TEN ^ DIGITS \in Nat /\ WORD < TEN ^ DIGITS
    BY PowersAssumption
  <2>2. Entries < TEN ^ DIGITS
    BY <1>1, <2>1
  <2> QED
    BY <1>1, <2>2, DigitsByKey
<1> HIDE DEF d, weight, limit
<1>6. Saturated(weight) \in Nat /\ d + Saturated(weight) \in Nat
  BY <1>1, <1>4, Saturates
<1>7. Saturated(d + Saturated(weight)) = d + Saturated(weight) /\ 2 * (d + Saturated(weight)) <= limit
  <2>1. Payload \in Nat
    BY <1>4, <1>6, Saturates
  <2>2. 2 * Payload = Saturated(d + Saturated(weight)) * 2
    BY <1>4, <2>1
  <2> QED
    BY <1>1, <1>2, <1>3, <1>6, <2>2, NotCutOff
<1>8. Saturated(weight) = weight
  <2>1. Saturated(weight) < WORD
    BY <1>1, <1>2, <1>6, <1>7
  <2> QED
    BY <1>4, <2>1, Saturates
<1> QED
  BY <1>4, <1>5, <1>7, <1>8 DEF weight

\* Whatever was asked for, what is put on record is what was done: no more keys
\* than the entries of the row, each of them once, and their weight; no other
\* connections and operations than there were, however their products wrapped.
THEOREM RecordedDone ==
  ASSUME Limited
  PROVE  LaunchInit /\ [][LaunchNext]_launchVars => []RecordedIsDone
<1>1. ASSUME LaunchInv PROVE RecordedIsDone
  <2> SUFFICES ASSUME pc = "recorded" PROVE RecordedIsDone
    BY DEF RecordedIsDone
  <2> DEFINE c == load.c * load.t
  <2>1. /\ Checked /\ load = Invocation(Asked) /\ Counted
        /\ record = IF args.command = "run" THEN Info ELSE Row
    BY <1>1 DEF LaunchInv
  <2>2. PICK done \in 0..load.n : ran = Outcome(done)
    BY <1>1 DEF LaunchInv
  <2> DEFINE ops == Operations(done)
  <2>3. /\ c \in Nat /\ load.n \in Nat
        /\ Wanted = Saturated(load.n * (c % U32)) /\ Connections(Profile) = c % U32
        /\ args.command = "mem" =>
             /\ load.keys = Entries /\ Entries \in 0..WORD /\ load.sizes = Profile.size_range
             /\ c # 0 /\ load.n * c = Entries /\ Entries \div c = load.n
    <3>1. load.c \in Nat /\ load.t \in Nat
      BY <1>1, <2>1, LoadIs, LaunchAssumption
    <3>2. c \in Nat
      BY <3>1
    <3> QED
      BY <1>1, <2>1, <3>2, LoadIs
  <2>4. /\ Cardinality(ops) \in Nat /\ Cardinality(ops) <= c * load.n
        /\ c # 0 => Cardinality(ops) >= (c - 1) * load.n
    BY <2>3, OperationsAre
  <2>5. /\ ran.done = Cardinality(ops)
        /\ ran.keys = IF Slice = 0 THEN {} ELSE {KeyOf(o[1], o[2]) : o \in ops}
    BY <2>2 DEF Outcome
  <2>6. ran.done # 0 /\ Distance(ran.done, Wanted) * TOLERANCE <= Wanted
    BY <2>1 DEF Counted
  <2>7. Wanted \in Nat /\ Wanted <= load.n * (c % U32)
    <3>1. load.n * (c % U32) \in Nat
      <4>1. c % U32 \in Nat
        BY <2>3, LaunchAssumption
      <4> QED
        BY <2>3, <4>1
    <3> QED
      BY <2>3, <3>1, LaunchAssumption DEF Saturated
  <2> HIDE DEF c, ops
  <2>8. c % U32 = c
    BY <2>3, <2>4, <2>5, <2>6, <2>7, NoWrap
  <2>9. load.n # 0
    <3>1. CASE load.n = 0
      <4>1. c * load.n = 0
        BY <2>3, <3>1
      <4> QED
        BY <2>4, <2>5, <2>6, <4>1
    <3> QED
      BY <3>1
  <2>10. CASE args.command = "run"
    <3>1. record = Info /\ Wanted = TotalOperations(Profile)
      BY <2>1, <2>10 DEF Wanted, Asked
    <3>2. record.is = "info" /\ record.connections = c /\ record.operations = Wanted
      BY <2>3, <2>8, <3>1 DEF Info
    <3> QED
      BY <2>6, <3>2 DEF RecordedIsDone, c
  <2>11. CASE args.command # "run"
    <3>1. args.command = "mem" /\ record = Row
      BY <2>1, <2>11 DEF Checked
    <3>2. record.is = "row" /\ record.entries = Entries /\ record.payload = Payload
      BY <3>1 DEF Row
    <3>3. Entries \in Nat /\ load.keys = Entries /\ Entries = c * load.n /\ c # 0 /\ Entries \div c = load.n
          /\ Entries \in 0..WORD
      BY <2>3, <3>1
    <3>4. Slice # 0 /\ ran.keys \subseteq 1..Entries /\ Cardinality(ran.keys) = ran.done
      BY <2>2, <2>3, <2>5, <2>9, <3>3, KeysAre DEF c, ops
    <3>5. Wanted = Entries
      <4>1. load.n * (c % U32) = Entries
        BY <2>3, <2>8, <3>1
      <4> QED
        BY <2>3, <3>3, <4>1, LaunchAssumption DEF Saturated
    <3>6. (Entries - ran.done) * TOLERANCE <= Entries
      <4>1. ran.done <= Entries /\ ran.done \in Nat
        BY <2>4, <2>5, <3>3
      <4>2. Distance(ran.done, Entries) = Entries - ran.done
        BY <3>3, <4>1 DEF Distance
      <4> QED
        BY <2>6, <3>5, <4>2
    <3>7. Payload = SumFunction([k \in 1..Entries |-> DigitsOf(k)]) + Entries * Average(load.sizes)
      BY <1>1, <2>1, <2>3, <3>1, PayloadIs
    <3> QED
      BY <3>2, <3>4, <3>6, <3>7 DEF RecordedIsDone
  <2> QED
    BY <2>10, <2>11
<1> QED
  BY <1>1, InitLaunch, StepLaunch, PTL

=============================================================================
