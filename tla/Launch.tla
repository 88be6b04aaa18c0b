------------------------------- MODULE Launch -------------------------------
(***************************************************************************)
(* From profiles.toml, config.jsonc and a command line to the processes    *)
(* that are started: `run` (crates/cache-bench/src/run.rs) and one engine  *)
(* of `mem` (mem.rs), with what each of them puts on record.  The profile  *)
(* and its check are cb-core/src/profile.rs, sizes size.rs, pins           *)
(* cpuset.rs, servers' command lines cache.rs, memtier's argv.rs, the fill *)
(* cb-mem/src/plan.rs.                                                     *)
(*                                                                         *)
(* A number written down is its value; a size is a count and a unit, a pin *)
(* a sequence of ranges.  What the constants are in the code is beside     *)
(* them: an instance scales them down and keeps their order.               *)
(***************************************************************************)
EXTENDS Integers, Sequences, FiniteSetsExt, Functions

CONSTANTS
  KIB,          \* 1024, the step between units
  KILO,         \* 1000, what Redis means by a unit of one letter
  WORD,         \* the largest u64
  U32,          \* 2^32
  TEN,          \* the base keys are written in
  DIGITS,       \* how many digits a word may have
  TEN_MILLION,
  LEAST, SHARE, \* 32384 and 256: Dragonfly's megabytes as the original had it
  TOLERANCE,    \* 1000: an operation in so many may be missing
  Files, Args, Machines \* what there is to read

HEADROOM == 2

\* An option that was not given.
NotGiven == -1

ASSUME LaunchAssumption ==
  /\ {KIB, KILO, WORD, U32, TEN, TEN_MILLION, TOLERANCE} \subseteq Nat \ {0, 1}
  /\ TEN_MILLION <= WORD /\ U32 * U32 <= WORD + 1

\* A word has that many digits, and powers rise.
ASSUME PowersAssumption ==
  /\ DIGITS \in Nat
  /\ \A w \in 0..DIGITS : TEN ^ w \in Nat \ {0}
  /\ \A v, w \in 0..DIGITS : v < w => TEN ^ v < TEN ^ w
  /\ WORD < TEN ^ DIGITS

\* What was read where a number is due is one, of the width of its field.
ASSUME NumbersAssumption ==
  /\ Machines \subseteq [here : Nat, said : BOOLEAN]
  /\ \A a \in Args : a.threads \in Nat /\ a.entries \in (0..WORD) \cup {NotGiven}
  /\ \A f \in Files : \A name \in DOMAIN f.profiles :
       LET p == f.profiles[name]
       IN  /\ p.cores \in Nat
           /\ {p.bench_threads, p.connections_per_thread} \subseteq 0..(U32 - 1)
           /\ {p.operations, p.key_maximum} \subseteq 0..WORD
           /\ {p.size_range.min, p.size_range.max} \subseteq Nat
           /\ p.maxmemory.n \in Nat /\ p.maxmemory.unit \in {"k", "m", "g", "b"}
           /\ p.cache_pin \in Seq([lo : Nat, hi : Nat])
           /\ p.bench_pin \in Seq([lo : Nat, hi : Nat])

VARIABLES
  file, args,        \* what was read
  cpus,              \* how many CPUs are here, and whether the machine says so
  pc,
  server, load,      \* the processes
  ran,               \* what memtier was seen to do
  record             \* what was put on record
launchVars == <<file, args, cpus, pc, server, load, ran, record>>

Nothing == [is |-> "nothing"]

Saturated(n) == IF n > WORD THEN WORD ELSE n

(***************************************************************************)
(* Sizes.                                                                  *)
(***************************************************************************)
Power == [k |-> KIB, m |-> KIB * KIB, g |-> KIB * KIB * KIB, b |-> 1]

\* Bytes::from_str.  What does not fit a word is not a size.
FitsWord(size) == size.n * Power[size.unit] <= WORD
BytesOf(size)  == size.n * Power[size.unit]

\* split: the largest unit that divides the count.
Divides(b) == {u \in {"k", "m", "g"} : b >= Power[u] /\ b % Power[u] = 0}
Unit(b) ==
  IF Divides(b) = {} THEN "b"
  ELSE CHOOSE u \in Divides(b) : \A v \in Divides(b) : Power[v] <= Power[u]

Spelled(b, letters) ==
  [n |-> b \div Power[Unit(b)], unit |-> Unit(b),
   letters |-> IF Unit(b) = "b" THEN 0 ELSE letters]

\* Mutant: the letter Garnet takes, for all.
LongOfOne(b) == Spelled(b, 1)

Long(b)  == Spelled(b, 2)
Short(b) == Spelled(b, 1)
Mib(b)   == [n |-> b \div Power.m, unit |-> "b", letters |-> 0]

(***************************************************************************)
(* Pins.                                                                   *)
(***************************************************************************)
\* CpuSet::from_str: ranges in any order, overlapping or not.
IsPin(text)   == text # <<>> /\ \A part \in Range(text) : part.lo <= part.hi
CpusOf(text)  == UNION {part.lo..part.hi : part \in Range(text)}

\* What the kernel makes of a mask: the CPUs it names that are here.
OnMachine(pin) == CpusOf(pin) \cap 0..(cpus.here - 1)

(***************************************************************************)
(* A profile.                                                              *)
(***************************************************************************)
IsRange(r) == r.min # 0 /\ r.min <= r.max

Average(r) == (r.min + r.max) \div 2

\* A product of two u32 is a u32.
Connections(p)     == (p.bench_threads * p.connections_per_thread) % U32
TotalOperations(p) == Saturated(p.operations * Connections(p))
WorkingSet(p)      == Saturated(p.key_maximum * Average(p.size_range))

\* Profile::check.
\* Mutant: only where the one's ranges end and the other's begin.
SharedCoresAtEnds(p) ==
  \E a \in Range(p.cache_pin), b \in Range(p.bench_pin) : a.hi = b.lo \/ b.hi = a.lo

SharedCores(p)  == CpusOf(p.cache_pin) \cap CpusOf(p.bench_pin) # {}
PinOffTheEnd(p) == \E c \in CpusOf(p.cache_pin) \cup CpusOf(p.bench_pin) : c >= p.cores
TooManyThreads(p) ==
  \/ \E t \in p.threads : t > Cardinality(CpusOf(p.cache_pin))
  \/ p.bench_threads > Cardinality(CpusOf(p.bench_pin))
WillEvict(p) == BytesOf(p.maxmemory) < Saturated(WorkingSet(p) * HEADROOM)
Empty(p) == p.threads = {} \/ p.runs = 0

Check(p) ==
  ~Empty(p) /\ ~SharedCores(p) /\ ~PinOffTheEnd(p) /\ ~TooManyThreads(p) /\ ~WillEvict(p)

\* Profiles::parse: one profile that cannot work refuses the file.
Parses(p) == IsPin(p.cache_pin) /\ IsPin(p.bench_pin) /\ IsRange(p.size_range) /\ FitsWord(p.maxmemory)
ProfilesParse == \A name \in DOMAIN file.profiles : Parses(file.profiles[name]) /\ Check(file.profiles[name])

Profile == file.profiles[args.profile]

(***************************************************************************)
(* config.jsonc: a path for each program, some with ${arch} in it.         *)
(***************************************************************************)
Named(what) == what \in DOMAIN file.paths /\ (file.paths[what] = "arch" => file.arch)

(***************************************************************************)
(* How each server is told its memory, and what it understands by it.      *)
(***************************************************************************)
MemoryValue(cache, maxmemory, threads, compat) ==
  CASE cache = "memcache" -> Mib(maxmemory)
    [] cache = "garnet"   -> Short(maxmemory)
    [] cache = "dragonfly" /\ compat = "upstream" ->
         [n |-> Max({SHARE * threads, LEAST}) \div KIB, unit |-> "g", letters |-> 2]
    [] OTHER -> Long(maxmemory)

\* memcached counts in megabytes; a unit of one letter is decimal to Redis
\* and what came of it, and binary to Garnet.
Understood(cache, value) ==
  CASE cache = "memcache" -> value.n * Power.m
    [] cache # "memcache" /\ value.letters = 1 /\ cache # "garnet" ->
         value.n * [k |-> KILO, m |-> KILO * KILO, g |-> KILO * KILO * KILO][value.unit]
    [] OTHER -> value.n * Power[value.unit]

\* Server::start of a Launch: the supervisor pins it before exec.
Server(threads, compat) ==
  [is |-> "server", cache |-> args.cache, threads |-> threads,
   cpus |-> OnMachine(Profile.cache_pin),
   limit |-> Understood(args.cache,
               MemoryValue(args.cache, BytesOf(Profile.maxmemory), threads, compat))]

\* memtier's -c, -t, -n, --key-maximum and --data-size-range.
Invocation(p) ==
  [is |-> "memtier", c |-> p.connections_per_thread, t |-> p.bench_threads, n |-> p.operations,
   keys |-> p.key_maximum, sizes |-> p.size_range,
   cpus |-> OnMachine(p.bench_pin)]

(***************************************************************************)
(* The fill.                                                               *)
(***************************************************************************)
\* Plan::new multiplies as u64, and so does the default.
Clients == Profile.connections_per_thread * Profile.bench_threads
AboutTenMillion ==
  IF Clients = 0 THEN TEN_MILLION ELSE Max({TEN_MILLION \div Clients, 1}) * Clients
Entries == IF args.entries = NotGiven THEN AboutTenMillion ELSE args.entries

\* Mutant: an uneven count is rounded.
PlannableRounded == Clients # 0 /\ Entries >= Clients
Plannable == Clients # 0 /\ Entries # 0 /\ Entries % Clients = 0
PerClient == Entries \div Clients

\* digits: a decade at a time.
Decades(n)    == {w \in 0..(DIGITS - 1) : TEN ^ w <= n}
DecadeOf(n, w) == ((IF TEN ^ (w + 1) - 1 < n THEN TEN ^ (w + 1) - 1 ELSE n) - TEN ^ w + 1) * (w + 1)
digits(n)     == SumFunction([w \in Decades(n) |-> DecadeOf(n, w)])
Payload       == Saturated(digits(Entries) + Saturated(Entries * Average(Profile.size_range)))

\* check_headroom.
Roomy ==
  LET limit == BytesOf(Profile.maxmemory)
  IN  limit = 0 \/ Saturated(2 * Payload) <= limit

Shaped == [Profile EXCEPT !.operations = PerClient, !.key_maximum = Entries]

(***************************************************************************)
(* The commands.                                                           *)
(***************************************************************************)
LaunchInit ==
  /\ file \in Files /\ args \in Args /\ cpus \in Machines
  /\ pc = "read" /\ server = Nothing /\ load = Nothing /\ ran = Nothing /\ record = Nothing

inputs == <<file, args, cpus>>

\* What both refuse before they look at anything that is theirs.  A machine
\* that does not say how many CPUs it has is let through.
Usable ==
  /\ ProfilesParse
  /\ args.profile \in DOMAIN file.profiles
  /\ cpus.said => Profile.cores <= cpus.here
  /\ Named(args.cache) /\ Named("memtier")

\* check_threads.
CheckThreads == args.threads # 0 /\ args.threads <= Cardinality(CpusOf(Profile.cache_pin))

\* A process whose mask names no CPU that is here is refused by the kernel.
Startable(pin) == OnMachine(pin) # {}

RunStarts ==
  /\ pc = "read" /\ args.command = "run"
  /\ Usable /\ CheckThreads /\ Startable(Profile.cache_pin)
  /\ server' = Server(args.threads, args.compat)
  /\ pc' = "up"
  /\ UNCHANGED <<inputs, load, ran, record>>

MemStarts ==
  /\ pc = "read" /\ args.command = "mem"
  /\ Usable /\ Plannable /\ Roomy /\ Startable(Profile.cache_pin)
  /\ server' = Server(args.threads, "corrected")
  /\ pc' = "up"
  /\ UNCHANGED <<inputs, load, ran, record>>

Refused ==
  /\ pc = "read"
  /\ \/ ~Usable
     \/ Usable /\ args.command = "run" /\ ~CheckThreads
     \/ Usable /\ args.command = "mem" /\ ~(Plannable /\ Roomy)
     \/ Usable /\ ~Startable(Profile.cache_pin)
  /\ pc' = "refused"
  /\ UNCHANGED <<inputs, server, load, ran, record>>

\* A measured pass: Shaped is the profile of the fill.
Asked == IF args.command = "mem" THEN Shaped ELSE Profile

LoadStarts ==
  /\ pc = "up"
  /\ Startable(Asked.bench_pin)
  /\ load' = Invocation(Asked)
  /\ pc' = "loading"
  /\ UNCHANGED <<inputs, server, ran, record>>

LoadRefused ==
  /\ pc = "up"
  /\ ~Startable(Asked.bench_pin)
  /\ pc' = "refused"
  /\ UNCHANGED <<inputs, server, load, ran, record>>

\* memtier with --key-pattern=P:P: each client walks a slice of its own, and
\* starts it again when it is through.  One of them may stop early.
Slice == IF load.c * load.t = 0 THEN 0 ELSE load.keys \div (load.c * load.t)
KeyOf(client, op) == 1 + client * Slice + (op % Slice)
Operations(done) ==
  {o \in (0..(load.c * load.t - 1)) \X (0..(load.n - 1)) : o[1] = 0 => o[2] < done}

LoadEnds ==
  /\ pc = "loading"
  /\ \E done \in 0..load.n :
       LET ops == Operations(done)
       IN  ran' = [is |-> "ran", done |-> Cardinality(ops),
                   keys |-> IF Slice = 0 THEN {} ELSE {KeyOf(o[1], o[2]) : o \in ops}]
  /\ pc' = "read back"
  /\ UNCHANGED <<inputs, server, load, record>>

\* parse::read: as many operations as were asked for, give or take a few.
Wanted == TotalOperations(Asked)
Distance(a, b) == IF a < b THEN b - a ELSE a - b
Counted == ran.done # 0 /\ Distance(ran.done, Wanted) * TOLERANCE <= Wanted

\* The Info of a run file, or the row of an engine.
Records ==
  /\ pc = "read back" /\ Counted
  /\ record' = IF args.command = "run"
               THEN [is |-> "info", connections |-> Connections(Profile),
                     operations |-> TotalOperations(Profile)]
               ELSE [is |-> "row", entries |-> Entries, payload |-> Payload]
  /\ pc' = "recorded"
  /\ UNCHANGED <<inputs, server, load, ran>>

Miscounted ==
  /\ pc = "read back" /\ ~Counted
  /\ pc' = "refused"
  /\ UNCHANGED <<inputs, server, load, ran, record>>

LaunchNext ==
  \/ RunStarts \/ MemStarts \/ Refused \/ LoadStarts \/ LoadRefused \/ LoadEnds
  \/ Records \/ Miscounted

-----------------------------------------------------------------------------
(***************************************************************************)
(* Properties.                                                             *)
(***************************************************************************)

\* A server that is measured is never made to evict: the keys and values it
\* will hold, at their mean size, fit what it understands its limit to be,
\* whatever unit it is told it in and however long the numbers are.  The
\* original's limit for Dragonfly is excepted, which no profile sets.
NobodyEvicts ==
  pc = "loading" /\ ~(server.cache = "dragonfly" /\ args.command = "run" /\ args.compat = "upstream") =>
    LET most == load.keys * (load.sizes.min + load.sizes.max)
        keys == IF args.command = "mem" THEN digits(load.keys) ELSE 0
    IN  server.limit = 0 \/ 2 * keys + most <= 2 * server.limit

\* Load generator and server share no CPU, and on a machine that says how many
\* it has they have every CPU their profile gives them, and a measured server
\* or memtier never has more threads than CPUs.
PinsAreApart ==
  pc = "loading" =>
    /\ server.cpus \cap load.cpus = {}
    /\ cpus.said =>
         /\ server.cpus = CpusOf(Profile.cache_pin) /\ load.cpus = CpusOf(Profile.bench_pin)
         /\ load.t <= Cardinality(load.cpus)
         /\ args.command = "run" => server.threads \in 1..Cardinality(server.cpus)

\* How many digits k has.
DigitsOf(k) == Cardinality({w \in 0..(DIGITS - 1) : TEN ^ w <= k})

\* What is on record is what was done: a row's entries are the keys the
\* server was left holding, each written once, but for the operations that
\* may be missing, and its payload is what they weigh; a run's connections
\* and operations are those there were.
RecordedIsDone ==
  pc = "recorded" =>
    /\ record.is = "row" =>
         /\ ran.keys \subseteq 1..record.entries
         /\ ran.done = Cardinality(ran.keys)
         /\ (record.entries - ran.done) * TOLERANCE <= record.entries
         /\ record.payload = SumFunction([k \in 1..record.entries |-> DigitsOf(k)])
                               + record.entries * Average(load.sizes)
    /\ record.is = "info" =>
         /\ record.connections = load.c * load.t
         /\ Distance(ran.done, record.operations) * TOLERANCE <= record.operations

=============================================================================
