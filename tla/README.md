# A TLA+ development of cache-bench

cache-bench measures eight cache servers over a matrix of cells (engine, thread count, pipeline depth, counters, run number), for days, unattended, on machines that are rebooted under it. What is hard to test is the part that runs for days: which files are on the disk after a kill, what a restarted sweep makes of them, who may write into a results directory, whether a number belongs to the server it is filed under, and whether the directory, its documents and its pictures still say one thing after its runs were judged again. Around that part are computations that no test exhausts: which run is the median, whether a server will evict, whether a bar is as high as its number. Both are modelled here.

## The system

| component | state | operations | what has to be right |
|---|---|---|---|
| sweep (`cache-bench/src/sweep.rs`) | run files, `failures.json`, `logs/sweep.jsonl`; in memory the failure file, the cells left, engines proven and put down, failures in a row | start (read, reconsider, `--retry-failed`, `whats_left`), `keep`, `wait_for_quiet`, an attempt, `note`, return; `run` and `run --force` by hand | nothing measured is measured again or lost; success means a file for every cell; every hole is named; tries are capped across sessions; only an engine that never ran is put down; a session and a series of sessions end |
| failure file (`cb-core/src/journal.rs`) | attempts per cell, engines given up | `failed`, `measured`, `abandon`, `reconsider`, `try_again` | agrees with the run files |
| results directory (`results.rs`) | run files, aggregates | `write` (truncate, fill, sync), `read`, `cells`, `span` | a half written file is never taken for a measurement |
| one attempt (`run.rs` `once`, `measure`) | the server, memtier, perf, three JSON files, the run file | stray check, start, wait, three passes, perf, stop, write | the file holds this attempt's numbers from this attempt's server; nothing is left running; the attempt ends |
| supervisor, server, wait (`cb-cache`) | a process group, a handle, a socket path | `start`, `alive`, `stop`, `settle`, `interrupt`, `Drop`, `clear`, `wait` | the group is gone when it is said to be; no signal to a pid that is somebody else's |
| load generator, perf (`cb-memtier`, `cb-perf`) | a process, a file it writes | `run`, `attach`, `finish`, `Drop` | no stale file is read; counters cover the measured passes |
| lock (`lock.rs`) | `.lock`, pids, start times, boot id | `take` with the takeover of a stale lock, `Drop` | one writer at a time; the dead are not obeyed, the living are |
| recheck (`recheck.rs`) | run files, logs, `runs/refused`, aggregates, `failures.json` | judge, move, renumber, remove aggregates, record | no measurement is lost, survivors keep their order, what is published follows from what is there |
| choose, combine, archive (`choose.rs`, `combine.rs`, `archive.rs`) | aggregates, `output.json`, a tar | reduce, collect, pack, check | the aggregate is of the cell's runs; the archive holds what the output was built from |
| statistics, spread (`cb-stats`, `spread.rs`) | none that outlives a call | trim, sort, pick, average; judge | ranks are those of the cell; a noisy cell is named |
| memory report (`mem.rs`, `cb-mem`) | servers on the socket path, `memory.json` | plan, start, read, fill, read, stop, write, engine by engine | a row is of the server started for it, full; rows recorded are kept |
| doctor (`doctor.rs`, `host.rs`, `machine.rs`) | servers on the socket path, `host.json` | check, `--deep`, `--write` | what answered is what was started; the record fits the runs and never denies counters that were measured |
| profiles, configuration, launch (`profile.rs`, `config.rs`, `size.rs`, `cpuset.rs`, `cache.rs`, `argv.rs`) | none | parse, check, command lines | no eviction, no shared core, the record is what was done |
| charts (`cb-chart`, `chart.rs`) | `graphs/` | pick values, scale, draw; one file after another | a picture reads as its numbers |
| documents (`cb-docs`, `docs.rs`) | three documents | write, compare | links lead somewhere; the count is of what is indexed; checked means current |
| verify, golden files, fonts and pixels | none | compare, draw | byte for byte output |

How they interact: `sweep`, `run` and `mem` take the lock; `sweep` and `run` call `once`, which drives Server, memtier and perf through the one supervisor, and `mem` and `doctor --deep` drive the same Server on the same socket path, the latter without the lock. `sweep` alone writes the journal and, with `recheck`, the failure file; `recheck` and `choose` read and move the run files that `sweep` counts as done, without the lock. `chart`, `docs` and `doctor --write` read what the others left and write beside them. Processes meet on the file system and on the socket path, never in memory.

What is hard is therefore crashes between two file operations, files half written, two commands at once, servers that fork, hang, die alone or outlive their harness, deadlines that pass while an answer arrives, records of one fact in two files, and indices, units and scales at their boundaries. `PROJECT.json` lists these hazards at their lines with the properties that watch them.

## Modules

| module | models | extended by |
|---|---|---|
| `Sweep` | the directory under sweeps, kills, failed writes and runs by hand | `SweepRefines`, `SweepProofs` |
| `SweepPlan` | the order of the matrix (`plan`, `caches`) | `MCSweep` |
| `Campaign` | what a sweep promises, as a specification of its own | instantiated by `SweepRefines` |
| `SweepRefines` | the mapping by which `Sweep` implements `Campaign` | `MCSweep`, `SweepProofs` |
| `Lock` | `.lock` under concurrent commands, kills and reboots | `MCLock`, `LockProofs` |
| `Once` | one attempt after another, with the processes around it | `OnceProofs` |
| `Recheck` | `recheck --apply`, `choose` and the sweep after it | `Publish`, `MCRecheck` |
| `Publish` | `combine`, `archive` and `archive --check` over the directory of `Recheck` while it changes | `MCPublish`, `PublishProofs` |
| `Memory` | `mem`, its servers and `memory.json` | `Doctor` |
| `Doctor` | `doctor --deep` beside `mem` on one socket path | `MCMemory`, `MemoryProofs` |
| `Charts` | which charts there are, their values, their axis and bars | `Pages`, `Pictures` |
| `Pages` | the three documents as functions of what was read | `Documents` |
| `Machines` | what a machine says of itself, the doctor's checks and record | `Documents` |
| `Documents` | `chart`, `docs`, `docs --check` and `doctor --write` beside everybody else | `MCDocuments`, `DocumentsProofs` |
| `Pictures` | one picture being drawn | `MCFigures`, `FiguresProofs` |
| `Statistics` | the reduction of a cell to four aggregates, corrected and as the original did it | `MCStatistics`, `FiguresProofs` |
| `GoSort` | the sort the original used, also when it reads keys that do not move | `MCStatistics` |
| `Launch` | from profile, configuration and command line to the processes and the record | `MCLaunch`, `LaunchProofs` |
| `Spread` | the variation of a cell and the report on it | `MCFigures`, `FiguresProofs` |
| `MCFigures` | the last four in one run | |
| `SweepProofs`, `LockProofs`, `OnceProofs`, `PublishProofs`, `MemoryProofs`, `DocumentsProofs`, `FiguresProofs`, `LaunchProofs` | theorems about `Sweep` and its refinement, `Lock`, `Once`, `Publish` (with `Recheck`), `Doctor` (with `Memory`), `Documents`, `Statistics` with `Spread` and `Pictures`, and `Launch` | `LaunchProofs` extends `FiguresProofs` for its lemmas about sums |

### Sweep

A run file is absent, torn or whole; so is `failures.json`, and what a whole one says is `recorded`. `results::write` is two steps, so a kill can fall between them. The journal is kept as the set of cells with a line in it. `pc` follows `sweep::run` and `measure_all`:

    idle -Start-> keep -> keeping -> next -Look-> once -> write -> note -> keep ...
                                     next -Return-> idle

`CountFailure` and `CountMeasured` are the two arms of the match in `measure_all`. `WhatsLeft` is `whats_left`. An attempt is its outcome here (`OnceFails`, `WriteStarts`, `WriteDone`, `WriteFails`); its inside is `Once`. The process that holds the directory is the only one (`Lock` says when that is so); `HandStarts` and `HandSkips` are `cache-bench run`, which looks at existence only. `MCSweep` assumes that the written out plans are what `SweepPlan` computes, so TLC checks that too.

Left out: times, load averages, reasons, the estimate, the summary. The state that `write`'s last directory sync protects (a name that is not on the disk yet) is not modelled.

### Campaign and SweepRefines

`Campaign` says what a sweep is for without saying how it goes about it: a session owes an attempt to every unmeasured cell it was asked for that has tries left, attempts only what it owes and once, passes over a cell only when its engine was put down, puts an engine down only when enough of its own cells failed and none was measured, reports only when it owes nothing, and never takes a measurement away. There is no plan, no place in it, no streak, no torn file. `SweepRefines` maps a session to it: owed is what is left to measure ahead of the place in the plan, results are the whole files, the counts are the failure file in memory and on disk. `KeepsThePromise` is `Campaign`'s specification under that mapping.

### Lock

Every call of `Lock::take` and of `Drop` is a step: exclusive creation, the two halves of `fs::write`, the read, the look at `/proc`, the takeover, the removal. A pid is free again when its process has ended, start times grow within a boot, and a reboot starts both again, so a stale record can look alive by any two of its three parts. `Overlap` says whether commands may be inside `take` together. Where they may, two holders need no kill: a record read while its writer held the lock is judged when that one has given it back and gone, and written over when a third has created the file anew (`LockTwoTakers`). A lock left by a kill and found by two commands goes the same way. The boot id and `/proc` are taken to be readable, as on the hosts measured on.

### Once

`pc` follows `once` from the stray check to the run file. A group has a leader (`starting`, `up`, `zombie` until it is reaped, `gone`) and possibly workers, who keep listening when the leader is dead. `late` is the deadline of whichever wait the harness is in. `served` remembers which group memtier reached in each pass, `out` whether the JSON at a pass's path is from an earlier attempt, this one, short, or missing. `HarnessDies` can happen anywhere; what it was holding goes to `left`, the groups that nobody stops any more.

A server that finds the path taken exits, or unlinks what is there and binds over it: `server.rs:134` says only that several of them refuse. `ousted` remembers who was bound over; such a server still runs and nobody reaches it. `queued` is the server in whose full backlog a connect waits. `open` sets no timeout on it, so while the harness is `Hung` no other step of it is possible; the connect comes back when the listener accepts (`Accepts`, for which no fairness is assumed) or goes.

When a server left behind binds over the one that was started, it answers the passes, and `once` asks only whether the leader it started is there: it is, and the file is written. The code has no means to notice, so `WrittenIsOwn` says of every pass that its numbers are of this attempt and from this attempt's server, except where one of the two was bound over (`BoundOver`). `NoCompany` excepts for the same reason what was bound over, which the look for strays cannot find.

Assumed of the programs outside `src/`: a server forks workers only after it has bound, and has bound or exited by the time a pass ends. Nothing else is assumed of them, in particular not that they exit when asked or accept a connection.

### Recheck

A measurement is a number; a run file, a log and a file under `runs/refused` hold one each. `Apply` computes the file operations that `apply` performs and `Step` does one that is `Due`: they are a set with the order `Precedes`, which is the program's (all moves, all renumberings, all removals, then the failure file; cell by cell within each, and the lowest run of a cell first). `Ends` abandons the rest. `Rank` is the number a run that is left comes to have: how many that are left are not above it. Each rename and each removal is a step, except that the four aggregates of one cell go together. A name in `failures.json` has `.json` on it if the sweep wrote it and has not if `recheck` did.

### Publish

`Publish` extends `Recheck`: every step of its `Next` can fall between two steps of a `pack`, which takes no lock. `pack` lists `runs`, then `runs/refused`, truncates the archive, reads one file per step in name order (`Sorts`: `runs/refused` is among the names under `runs`, in front of the cells of `rugo` and behind those of `redis`; `NamePlace` is where a run's name comes among those of its cell), and writes the MANIFEST last; a listed file that has gone makes it fail. Members hold the contents that were there when they were read. `Checks` and `Against` are `--check` and `--check --dir`, which compare the archive with its MANIFEST and then look for names. `output` remembers which measurements each entry of `output.json` was reduced from.

That `PackedIsComplete` holds rests on two things the code does not remark on: a refused run moves from the directory that is listed first to the one that is listed second, and runs only move to lower numbers, so that one renumbered behind a `pack` leaves a name ahead of it that is missing when it is read, and the `pack` fails. A sweep that fills a slot while `pack` runs takes the second away, and the property excludes it. So do ten runs in a cell, since the names sort as text: see Met and not run.

### Memory and Doctor

Servers are process groups as in `Once`, on a path that two commands use: `mem`, which looks whether somebody answers before it starts anything, and `doctor --deep`, which does not and takes no lock. `Memory` follows `run`, `one` and `fill_and_read`; a group's peak is the sum of what its members peaked at, a zombie member fails the reading, and `memory.json` is truncated and filled in two steps. `Doctor` adds `deep`: clear, start, wait, stop, unlink, for each engine. `held` in a row and `answers` in the doctor remember what the code cannot know: whose memory was read, who answered.

A fill counts as whole when memtier's file was read as whole, which leaves it up to a thousandth short (`Launch` has the tolerance and what is recorded of it). `StartsBlind` is a `mem` that cannot read the file it finds: every error of the read is taken for a file that is not there, and the rows in it are written over. A server on a taken path exits or binds over it, as in `Once`.

`RowsAreOwn` speaks of engines that are one process. In an engine that forks the worker can die alone after the fill; the leader is asked whether it lives and the worker is not, and what is left of the peak is still above the first reading when the keys were shared out.

### Charts, Pages, Machines, Pictures and Documents

A chart is its `Spec`, which is all that its file name says. `Charts` has the three conversions (truncated twice for throughput; to the nearest, ties to even, for the others), the choice of one cell out of `output.json`, both axes, and each bar as a height and a place in integers: a logarithmic height is compared before the logarithm, since that keeps order. `Pages` gives each document as a record of what it links, counts and claims. `Machines` follows a fact from the kernel's files to `host.json`. The doctor may be given any profile, whatever the one in `host.json` is. `Documents` lets the four commands run beside one another, one file a step, each killed anywhere; pictures remember what they were drawn from so that a document can be compared with the directory. `Pictures` draws any chart of any corpus, for `BarsRank`.

`MOST` bounds what is plotted by a power of ten, so that the powers an axis begins and ends at are picked out of a finite set; 18 would take every value of the code's 64 bits that it can label. `ColoursAssumption` says that a bar for every engine with a colour fits between two thread counts, as it does for the eight of `palette.rs`: without it `end_gap` would be negative and groups would run into each other.

`EveryChartIsIndexed` rests on the pictures being listed once, before anything else is read. `CountersAreThere` rests on a check the doctor makes for a different reason: it refuses a profile with counters on a machine that cannot count, so a later visit to a machine that was locked down leaves the old record.

### Statistics

A step is one call: `correct::choose` for the next kind, or `choose_one`, which leaves the shared `count` smaller for the call after it. `files` are the aggregates so far, each with how many runs it opened. A throughput is an integer, a mean is a sum with what it is over. Of the counters there are three: cycles, which the cells are sorted by, branches, which a run may lack, and a time, which the original averages in another way; a counter is missing, not counted, or a number.

The two sorts are parameters, so that what is said of a rank can be proved: `sort_by`, the standard library's, and `sort_slice`, the original's. `SortsAssumption` says what a sort by a key gives: each run in one place, and none before one with a smaller key. Nothing is assumed of a sort that reads keys which do not move. `Figures` gives `sort_by` the order of the keys and `sort_slice` the `slice` of `GoSort`, and so evaluates the assumption on the lists of its cells.

`GoSort` follows `gosort.rs` function for function, because the order the third sort leaves depends on which comparisons it makes: `less` of an `Aliased` reads keys that its swaps do not move. The generator that `break_patterns` draws from is 64 bits wide and is kept as the set of the bits that are one. `MCStatistics` assumes that the operators give what Go itself gave for two of the vectors in `golden/gosort.json`, and TLC evaluates that before the run.

### Launch and Spread

`Launch` is one command line at a time: the profile and its check, the server with the memory it is told and what it makes of it, memtier with the keys its clients walk, and the record. Machine words, units and decades are constants that the instance scales down in the same order (the unit Redis reads as a thousand stays smaller than the one it is written for), so that saturation, truncation and a fill that does not divide all occur. An `--entries` that was not given is `NotGiven` and an explicit 0 is refused. A machine may not say how many CPUs it has: it is let through, the kernel narrows a pin to the CPUs that are here (`OnMachine`), and refuses one that names none (`Startable`). `Spread` compares variations by their squares, so that the three decimals of the stored figure are exact; the files it reads are those of cells that were reduced to the end (`ReportsAssumption`): `choose` writes the four files of a cell from the same runs.

## Runs

| run | bounds | shows |
|---|---|---|
| `SweepKill` | 2 engines × 2 cells, 2 tries, 2 failures in a row, 1 nap, 1 kill, sweeps of any set of engines, both flags | the refinement and the safety of the sweep against kills, hand runs and one another's sessions, and that a session ends |
| `SweepFaults` | 1 engine × 4 cells, the code's 4 tries and 3 in a row, no naps, 2 faults of either kind, runs by hand without `--force` | holes named and engines put down rightly with failed writes too, and that repeated sweeps settle |
| `SweepTornRecord` | 1 engine × 4 cells | a kill inside `keep` stops every later sweep |
| `LockSafe` | 3 pids, 3 start times a boot, 1 reboot, 1 kill, no overlap | one holder, named; a record is obeyed exactly while its writer runs |
| `LockTwoTakers` | 3 pids, overlap | a command that judged the record of a holder now gone writes over the lock of a third |
| `Once` | 2 groups, leaders that die alone, servers that refuse a taken path or bind over it, connects that wait | the run file is this attempt's own unless a server was bound over; nothing is left; it ends unless a connect is never accepted |
| `OnceLeftWorkers` | 2 groups | a reaped leader leaves its group unconfirmed |
| `Publish` | 1 cell × 4 runs, any set refused, 1 more measurement, 1 apply, 1 kill, 2 archives | evidence and order are kept, names and aggregates follow; an archive that checks is complete and holds the evidence of its `output.json` |
| `RecheckTwice` | 1 cell × 3 runs, 2 applies | the second apply writes over evidence |
| `Memory` | 2 engines (one forks), 2 groups, 1 kill, failed write or failed read, `mem` of all or of one, any number of times, `doctor --deep` at any time | rows are of the server started for them and are kept; what answered the doctor was its own |
| `Documents` | 7 of the 154 charts, 3 states of `output.json` and none, 4 profiles, 4 machines, 4 beginnings of a command or changes, 1 run | links, counts, `--check`, the first run, the counters |
| `Figures` | cells of 0 to 4, 10 to 13, 17, 20, 21, 25, 31 and 53 runs in orders that agree, disagree and tie; memory limits, ranges, pins, threads and fills around each limit, machines that say their CPUs and that do not; rates around the threshold and its rounding; 2 and 8 engines at 1 to 3 thread counts with values around powers of ten | ranks in both modes and no panic of the original; no eviction, no shared CPU, a true record; noisy cells named; bars in the order of their numbers |

Why the bounds are enough. Engines interact only through the streak that may cross from one to the next, so two suffice, and two cells each make a streak, a cell left behind and a cell measured. One engine of four cells is the smallest on which three failures in a row leave a cell over. One kill reaches every intermediate disk state from every disk state the sessions before it can produce; the second fault of `SweepFaults` hits the session that repairs the first. Three pids are a holder, a judge and a newcomer; one reboot makes every record old. Two groups in `Once` are the server and one left behind, each of which may be the one that binds over the other; a third would only be left behind as well, and `OnceProofs` proves the four invariants for any number. Four runs with three enough lets a cell lose one and be reduced or lose two and not be; cells meet only in the order of the file operations, so one shows it. Two archives at one path are an older one and the one that replaces it. Two groups in `Memory` are `mem`'s server and one that was left, or the doctor's; two engines are a row that is there and one that is being written. Four beginnings in `Documents` let a picture be drawn, a document be written, something change under it and `--check` look. The lengths of `Statistics` lie on both sides of every place where the code changes its mind: three runs, the trim above ten, insertion sort up to twelve, a full cell of 31 and what the shared count leaves of it, and the sort's longer ranges above fifty.

`LockSafe` and `LockTwoTakers` end when the start times run out, `Documents` when the beginnings are used up, and each computation of `Figures` when it is done, so these four do not check deadlock; the other runs do.

The four violation runs are disagreements between what the repository says and what its code does that modelling met. Each quotes its line in `PROJECT.json`.

### Met and not run

Disagreements and surprises that were met while modelling and that no run shows, each at its line:

- `pack` reads names in the order of their text (`archive.rs:297`), in which `run_10` comes before `run_2`, and a profile may ask for 31 runs (`profiles.toml`). A `recheck --apply` that falls between two reads can then renumber a run from a name that is still to be read to one that was read already, or not listed, without leaving a name missing that is still to be read: with ten runs of which the second is refused, a `pack` that has read the names of runs 1, 10, 2 and 3 when the whole `--apply` happens goes on to read 4 to 9, which are what was 5 to 10, finishes, passes `--check`, and does not have run 4, which passed; had it read only 1 and 10, it would not have the refused one. `README.md:15` says of the archives that they hold the runs the charts come from and the runs a check refused, `archive.rs:32` that leaving these out would be a loss. TLC finds it when `Publish` is given ten runs and that order of names; the state space is too large for a run beside the others.
- `archive --check --dir` compares names and not contents, so an archive of a directory before `recheck`, `choose` and `combine` passes against the `output.json` after them (`archive.rs:251`; `archive.rs:243` says it answers whether it belongs to the charts).
- `recheck` records a refused run without `.json` (`recheck.rs:189`), the sweep with it (`sweep.rs:341`), so a slot measured again stays named.
- A thread count's label on a bar chart is at the middle of the places the bars start from (`axis.rs:239`), half a bar left of the middle of the group they fill (`render.rs:332`).
- A linear chart on which everything is zero has an axis of no length; a height is then not a number and its maximum with the edge is the edge, so every zero fills the plot (`render.rs:216`, `:337`).
- A logarithmic bar at the bottom power of ten has no height and looks like a missing one (`render.rs:343`).
- `chart` skips a chart without an axis and keeps the picture it had (`chart.rs:70`), which the documents link on.
- README.md can say that cycles per operation were measured above a cycles chart listed as not drawn (`readme.rs:219`).
- `host.json` says when the last run finished as of the doctor's visit, and nothing updates it.
- Of two `u32` a product is a `u32`: the number of connections wraps (`profile.rs`); a limit of the largest word passes the eviction check because the need saturates at it; a limit below a megabyte is told to memcached as zero, which it takes as its own default, and one of a few megabytes loses up to a megabyte, more than the check leaves spare (see `NobodyIsEvicted`).
- `mem` accepts a fill a thousandth short and records the planned entries.
- `mem` takes every error of reading `memory.json` for a file that is not there (`mem.rs:122`), so the first row it writes costs the others.
- A connect has no timeout: `ready.rs:25` says of `ATTEMPT` that "A connect that hangs is the case this exists for", and it is set on the connection after the connect (`ready.rs:79`). `[]<>(pc = "idle")` alone is therefore false of `Once`: `Queues` in the wait for the server, and nothing moves until the listener accepts or goes. `AttemptEnds` has the case as its second half, `<>[]Hung`, so the run `Once` shows that nothing else holds an attempt.
- A server left by a killed harness that unlinks the path and binds over the one just started is measured in its place (`run.rs:347` looks at the leader only; `ready.rs:69` says what such numbers are worth). See `BoundOver` in `Once`.

## Fairness

`RunningSpec`: a running process takes its next step (weak fairness of the session's steps together, not of each: `wait_for_quiet` is bounded by its count, not by fairness). `SessionEnds` needs no more. `PersistentSpec`, for `Settles` only, adds that a machine looked at again and again is quiet at one of the looks and that somebody keeps starting the whole sweep; the code's own remark that a script can rely on the exit code is the reason to ask. `Once` assumes that the harness runs, that time passes, and that a process sent SIGKILL dies, since `stop` waits for it without a deadline. Nothing is assumed of servers, memtier or perf, and nothing makes the harness start again, so an attempt ends by the code's own deadlines, and the one wait without any, a connect that is not accepted, is named in `AttemptEnds`: no server is assumed to accept. The other specifications are checked for safety only.

## Proofs

`SweepProofs` proves `TypeCorrect`, `Spec => []TypeOK`, from `Base`: the types, plus that a process outside a sweep remembers nothing (`Resting`), that an attempt is at a cell of the plan that was left to measure (`Attempted`), and that the file a hand run is writing is torn (`HandTorn`).

It also proves, for every set of engines and shapes, every plan that visits each cell once, every limit and any number of kills and failed writes:

- `TriesCapped`, `ProvenOnDisk`: two invariants;
- `WholeFilesKept`: no step but a hand run truncates a whole run file;
- `HolesNamed`, `OkIsMeasured`: what a sweep that reaches the end reports;
- `FailuresAreJournalled`: the journal has a line for every failure in the file, assuming no write fails (`"write" \notin Faults`; with failed writes a journal line is lost and the sweep carries on).

None of these is inductive. `HolesNamed` and `OkIsMeasured` speak of one moment, the return, about all cells; what holds on the way there is a division of the plan at the place the loop is at. `Accounted`: every cell asked for is still ahead, or whole, or counted as failed, or its engine is written down as given up. `Owed`: every cell ahead that was left to measure has no whole file and has tries left; this is why an attempt never truncates a measured file (a plan that named a cell twice would break it) and why a count never passes `TRIES`. `GivenUpIsNamed` carries a cell that is passed over because its engine was put down. Their conjunction with `Base` is `Inv`, checked by TLC on the bounds of `SweepKill` and `SweepFaults` before it was proved. The steps are first sorted into eight kinds by what they do to the state `Inv` speaks of (`StepKinds`), and `StepInv` has one case per kind.

It proves the refinement as well, `PromiseKept`, `Spec => KeepsThePromise`. The initial states map to each other; every step of the sweep maps to a step of the campaign or a stutter, one case per kind of step. What `Inv` does not say and the simulation needs is why an engine is put down (`Known`): `in_a_row` is at most the number of failed cells of the last engine that are behind the place in the plan (`StreakIsOwn`), because each failure in the row was at another cell; and an engine with a measured cell is known to run (`MeasuredIsProven`), so it is not put down at all. `MeasuredNeverPutDown` follows from the same invariant.

`LockProofs` proves `OneHolderAlways`, `HolderNamed` and `RecordObeyed` for any number of pids, boots and kills, assuming `Overlap = FALSE` (with it the first is false: `LockTwoTakers`). `OneHolder` is not inductive: a takeover is safe because the process about to seize the file judged the record of that very moment. So `LockInv` adds that one process at a time is deciding (`OneInside`), that whoever is about to own the file owns it alone (`OwnerIsAlone`), that what is being judged is what the file says and the holder's (`JudgedIsCurrent`), that no record is from the future, and that a writer who runs holds the directory (`WriterHolds`).

`OnceProofs` proves the four invariants of `Once`, `OwnIsWritten`, `GoneWhenWritten`, `WrittenWithCounters` and `PassesAreAlone`, for any number of process groups, attempts and kills, with or without leaders that die by themselves. Nothing in `once` says who answers on the socket. `HandleInv` has what does: the handle is held from the spawn to the reaping (`HandleKept`), every other leader that is there is one that nobody stops any more (`LeadersKnown`), and a group that is somebody's and can answer has the path or was bound over (`AnswersAtPath`), so the look for strays sees it and the path is cleared only when there is none (`Alone`). A look that waits in a backlog waits in that group's, if it is there at all (`WaitsForIt`). `MeasureInv` follows the passes on top of that: a pass that did all its operations found the server bound or gone, and if it is still up at the last look it is the one that was talked to, unless one of the two was bound over (`PassesAreOwn`); perf was across every pass since it was attached, or it ended with its target, or it has nothing (`PerfFollows`). The look after the last pass rules out the middle case, and this is what `GoodIsWhole` carries to the write.

`PublishProofs` proves every property of the run `Publish`, for any cells, runs, checks, measurements, archives and kills, and `DirectoryTyped`. `AggregatesFollow` and `EveryRefusedNamed` say of the moments between commands what during one is made good by the rest of its script: a cell that is losing runs has its removal pending (`FollowInv`), a refused run that was moved is in the record that is pending (`NamedInv`), and the order of the operations (`DueOrder`) puts both last. `RenumberedToTheEnd` and `NothingLost` need the middle of a renumbering (`RecheckInv`): each run that passes is where it was, if its operation is pending, or under its rank (`PassingThere`); nothing else is there (`NothingElse`), so a rename never replaces a run; and what is pending is above what is done (`LowestFirst`). That rests on what `Rank` does: it is within 1 and the old number (`RankType`), grows (`RankGrows`), leaves no number out (`RankOnto`), and above a run that moves every run moves (`RankGap`). The two assume `MaxApplies = 1`; with two they are false, as `RecheckTwice` shows. `PackedComplete` follows a `pack` through any recheck: a run that is not under the name it was listed by came from a higher name that was listed and is gone (`Sourced`); a `pack` that has a missing name ahead of it keeps having one (`DoomedStays`), so it fails; otherwise every measurement is in the archive or still to be read (`Covered`). It assumes `InNumberOrder`, that the names of a cell's runs sort as their numbers do, which is true up to nine runs; beyond it the property is false. `ChartsTraced` adds that what an aggregate, `output.json` and the archived `output.json` were reduced from never leaves the directory (`ChartsInv`, from the step lemma of `NothingLost`), and assumes both.

`MemoryProofs` proves the three properties of the run `Memory` over the composition in `Doctor`, for any engines, groups left behind, kills and failed writes. `RowsKept`: the file is replaced by what the command has in memory, so a command must remember every recorded row from the moment it starts (`Remembers`), and a file that is cut off must be known to be gone (`TornIsWritten`, `SyncIsTorn`, `AbsentIsEmpty`). `RowsOwn`: a server is its command's from the spawn to the stop, because a pid that is waited for is not given out again, and one that is a single process has grown only if a fill reached it (`ServedInv`). `DeepAnswers`: as long as nobody else is on the path, the doctor's server is the only one that can take it (`Alone`).

`FiguresProofs` proves the three properties of `Statistics` for cells of any number of runs, under the contract of the two sorts. `Invariant` says that the files are what the calls return, in their order, and that upstream's count is what so many calls have made of the number of runs (`Afters`). In corrected mode what stands at a place of a sorted list has at most that many smaller runs before it and at most the rest greater ones after it (`RankIs`, by counting the places that are left); a trim shifts the place by what it takes off (`Middle`, `PickedIs`), so a pick from the middle has its rank in the whole cell. A sum is between as many times the least and as many times the greatest (`SumWithin`), which puts a mean between the worst and the best (`MeanIs`) and a mean of a counter within the counters (`CounterIs`); the quartiles are places on both sides of the lower median (`QuartilesAre`). In upstream mode a count of three or more stays so (`CountsAre`), and of three the original finds what it reads (`PanicsKeeps`).

It proves `NoisyNamed` for any cells, measured any number of times. A sum over a finite set is defined by taking one summand out after another; the function that holds the sums of all subsets is shown to exist (`AddsExists`), and a fact about it has no smallest subset as a counterexample (`SmallestOf`). The squares of natural numbers add up to at most the square of their sum (`SquaresBelow`), so the variation is at most the root of the number of runs and the nearest decimal exists; being over the threshold is then being above it by more than half of the last decimal (`CvOver`). `worse` of a median file and the rates of any of the four files of its cell agree, and a cell has one median file (`OneMedianEach`), so what is counted is the cells.

It proves `BarsRanked`, for any list of charts, any `output.json` and any number of engines that have a colour. What is drawn is what `Render` makes of the corpus (`PicturesInv`), so the rest is about `Charts`. Each engine has one place in the legend, the first entry that names it, and there are no more of these than colours (`LegendIs`); each thread count has one place among the groups, in their order, since what stands before a number in a sorted set is counted (`InOrderAre`, `GroupsAre`). A bar then starts where the one before it in its group or in an earlier one has ended (`BarsStand`). The two ends of an axis enclose what is plotted (`PowersAre`, `ValuesAre`), so nothing is cut off and the greater value has the higher bar (`HeightsRank`), and an axis with two different values has a length. The theorem assumes of every corpus that it is `Legible`: what is read where a number is due is one, the operations that cycles are divided by are not zero, and nothing is beyond `MOST`. `CorporaAssumption` evaluates that on the corpora of the run.

`LaunchProofs` proves the three properties of `Launch` for every profile, command line and machine. The profiles are checked once, before anything starts; `LaunchInv` says that the processes, what they were seen to do and what is recorded are functions of what was checked, whichever way a fill reshapes the profile.

- `PinsApart`: pins that share no core share none after the machine has cut them, and one which does not run off the end is not cut by a machine that has the profile's cores (`PinIsThere`), which is checked where the machine says how many it has.
- `NobodyIsEvicted`: a limit that is spelled in the largest unit that divides it and read again is the limit, or short of it by less than a megabyte (`Understands`); a fill checked at the mean size of its values, with its digits counted once per decade, stays within half of it (`HalfIsEnough`, `EntriesAre`), unless the need was cut off at a word (`NotCutOff`). It assumes `Ample`: no limit is the largest word, and none is below four megabytes where memcached may be told it. Without the second it is false: a limit of two megabytes less two bytes passes the check for a fill of values of one or two bytes that needs just under half of it, and memcached is told one megabyte. Limits in `profiles.toml` are 1 GB and more.
- `RecordedDone`: every client that did its operations wrote keys of its own slice, so keys are as many as operations (`KeysAre`); if the product of two `u32` had wrapped, what was done would be far from what was wanted and the run refused (`NoWrap`); the digits that are counted a decade at a time are those of the keys one by one (`DigitsByKey`). It assumes `Limited`: every profile sets a limit below the largest word, as all in `profiles.toml` do. Without one nothing bounds a fill, and a payload is cut off at the largest word.

`DocumentsProofs` proves every property of the run `Documents`, for any list of charts, profiles, machines and reports and any order of the commands. `LinksThere`: between the listing of the pictures and the writing of a document the pictures that were listed must stay (`Listed`); they do because no command takes one away, a command that is cut off included (`OthersAdd`). `CheckedCurrent` and `EveryChartIndexed`: the documents a `--check` has passed are what it would write (`Passed`), and the two indexes of charts have the whole list between them (`Sectioned`). `FirstRun`: runs begin one at a time, so the least beginning on the disk is the least there will be (`NoneBefore`). `CountersThere`: from the check the doctor makes to the page, a record of a host has the counters its profile asks for (`Counted`).

The assumptions on constants are `LimitsAssumption`, `PlanAssumption`, `NumbersAssumption` (what was read where a number is due is one, of the width of its field), `PowersAssumption` (that powers of ten rise and a word has `DIGITS` digits, which the provers, who know nothing of `^`, cannot find out), `ReportsAssumption`, `InputsAssumption` and `SortsAssumption`, `DecadesAssumption` and `ColoursAssumption` (the powers of ten up to `MOST` rise, and the palette fits between two groups), `DirectoryAssumption` and `NamesAssumption` (no cell twice, names in an order) and those of the other modules, which TLC evaluates on every run. The hypotheses `MaxApplies = 1`, `InNumberOrder`, `Overlap = FALSE`, `"write" \notin Faults`, `Ample`, `Limited` and `Legible` are conditions on use and not on the code, and each theorem that needs one has it in its statement.

Only model-checked: that the sort of `GoSort`, which is recursive, keeps the contract; and all liveness. Liveness under fairness, ENABLED and what a RECURSIVE operator computes are out of the prover's reach and stay with TLC; an induction over numbers or finite sets can be had from a least counterexample (`LeastOf`, `SmallestOf`).

## Plan

Done: every part that keeps state, and the computations whose boundaries matter.

Every safety property that a passing run checks is stated by a theorem; `SessionEnds`, `Settles` and `AttemptEnds`, which are liveness, stay with TLC.

Next, modelling: the four aggregates of a cell one at a time in `Publish`; `run --force` beside `Recheck`, whose failure replaces the logs of a run that stays.

## Not modelled

`verify`, the golden files and the list of divergences compare computed bytes with committed ones. Canvas, text and fonts turn a picture into pixels. The readers of JSON, TOML and CSV are field by field. They are sequential functions without state that outlives a call, compared byte for byte by the repository's own tests. Two harnesses of two directories on one socket path are covered only as far as `mem` and `doctor --deep` are two such commands.
