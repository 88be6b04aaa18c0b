----------------------------- MODULE Documents -----------------------------
(***************************************************************************)
(* A results directory being put into words and pictures: `cache-bench     *)
(* chart` (crates/cache-bench/src/chart.rs), `docs` and `docs --check`     *)
(* (docs.rs, crates/cb-docs) and `doctor --write` (doctor.rs).  None takes *)
(* a lock: each reads one file after another and writes one after another, *)
(* beside the others and beside whoever measures and combines, and can be  *)
(* killed anywhere.  Wording is left out; what a document says of the      *)
(* directory is kept.                                                      *)
(***************************************************************************)
EXTENDS Pages, Machines

CONSTANTS
  Outputs,      \* the files combine may come to, each a sequence of entries
  Profiles,     \* profiles.toml
  Hosts,        \* hosts.toml, empty when there is none
  Boxes,        \* what the machine may say of itself when it is asked
  Reports,      \* what memory.json may hold: sequences of rows
  Compats,      \* what --compat of `chart` may be
  Said,         \* what --compat of `docs` is
  MaxBegun,     \* commands begun and killed, runs begun, and other changes
  MaxClock      \* runs begun, plus one

ASSUME DocumentsAssumption ==
  MaxBegun \in Nat /\ MaxClock \in Nat /\ <<>> \in Reports

VARIABLES
  output,     \* output.json: one of Outputs, or 0 when it is not readable
  host,       \* host.json
  memory,     \* memory.json: whether it can be read, and its rows
  notes,      \* whether there is a NOTES.md
  runs,       \* when each run on the disk started
  flight,     \* when the run under way started, or 0
  clock,
  graphs,     \* the pictures, by file
  documents,  \* the documents, by file
  chart, docs, doctor,  \* the commands
  begun

results == <<output, memory, notes>>
machine == <<runs, flight, clock>>
vars == <<results, machine, host, graphs, documents, chart, docs, doctor, begun>>

NoHost  == [there |-> FALSE, profile |-> "-", facts |-> Silent, started |-> 0, finished |-> 0,
            alone |-> FALSE]
NoRows  == [readable |-> TRUE, rows |-> <<>>]
NoChart == [pc |-> "idle", todo |-> {}, output |-> 0, compat |-> "-", profile |-> "-"]
NoDocs  == [pc |-> "idle", check |-> FALSE, have |-> {}, host |-> NoHost,
            output |-> 0, notes |-> FALSE, memory |-> <<>>, at |-> 1, stale |-> FALSE,
            quiet |-> TRUE]
NoDoctor == [pc |-> "idle", profile |-> "-", box |-> Silent, span |-> {}, alone |-> FALSE]
Torn == [torn |-> TRUE]

Fits(p, box, measured) ==
  check(Profiles[p], probe(box), pmu(box), box.memtier, measured)

Writable(box) ==
  Describable(probe(box)) /\ check_anonymous(probe(box), box.memtier, names_of(Hosts))

\* host.json as a doctor left it before the first run.
Described ==
  {[there |-> TRUE, profile |-> w[1], facts |-> describe(probe(w[2]), pmu(w[2]), w[2].memtier),
    started |-> 0, finished |-> 0, alone |-> FALSE] :
     w \in {x \in (DOMAIN Profiles) \X Boxes : Fits(x[1], x[2], FALSE) /\ Writable(x[2])}}

Init ==
  /\ output \in 0..Len(Outputs)
  /\ host \in {h \in Described : Profiles[h.profile].publishable /\ TRUE \in Profiles[h.profile].perf}
  /\ memory = NoRows /\ notes = FALSE
  /\ runs = {} /\ flight = 0 /\ clock = 1
  /\ graphs = [s \in {} |-> Torn] /\ documents = [n \in {} |-> Torn]
  /\ chart = NoChart /\ docs = NoDocs /\ doctor = NoDoctor
  /\ begun = 0

Begins == begun < MaxBegun /\ begun' = begun + 1

Put(f, x, y) == [z \in DOMAIN f \cup {x} |-> IF z = x THEN y ELSE f[z]]

(***************************************************************************)
(* chart: output.json, the stamp, then one picture after another.  A chart *)
(* with no axis is skipped; the file it may have had stays.                *)
(***************************************************************************)
NextFile == CHOOSE s \in chart.todo : TRUE   \* in the order of their names

ChartReads ==
  /\ chart.pc = "idle" /\ Begins
  /\ output # 0 /\ ~BadCorpus(Outputs[output])
  /\ \E compat \in Compats :
       chart' = [NoChart EXCEPT !.pc = "stamp", !.todo = All, !.output = output, !.compat = compat]
  /\ UNCHANGED <<results, machine, host, graphs, documents, doctor>>

ChartStamps ==
  /\ chart.pc = "stamp"
  /\ chart' = IF host.there THEN [chart EXCEPT !.pc = "draw", !.profile = host.profile] ELSE NoChart
  /\ UNCHANGED <<results, machine, host, graphs, documents, doctor, begun>>

\* What it shows of the numbers is in Pictures.
Picture(c) ==
  IF Unscalable(NextFile.scale, Chart(Outputs[c.output], c.compat, NextFile)) THEN {}
  ELSE {[of |-> c.output, compat |-> c.compat, stamp |-> c.profile]}

Draws ==
  /\ chart.pc = "draw"
  /\ graphs' = IF Picture(chart) = {} THEN graphs
               ELSE Put(graphs, NextFile, CHOOSE p \in Picture(chart) : TRUE)
  /\ chart' = IF chart.todo = {NextFile} THEN NoChart ELSE [chart EXCEPT !.todo = @ \ {NextFile}]
  /\ UNCHANGED <<results, machine, host, documents, doctor, begun>>

\* Killed, in the middle of a file or between two.
ChartKilled ==
  /\ chart.pc # "idle" /\ Begins
  /\ graphs' \in {graphs} \cup IF chart.pc = "draw" /\ Picture(chart) # {}
                               THEN {Put(graphs, NextFile, Torn)} ELSE {}
  /\ chart' = NoChart
  /\ UNCHANGED <<results, machine, host, documents, doctor>>

(***************************************************************************)
(* docs: the pictures there are, the host and its profile, the versions,   *)
(* the note, the memory; then the documents are written or compared.       *)
(***************************************************************************)
\* Mutant: every chart of the list is there.
PresentAll == All

Present == DOMAIN graphs

DocsRefused == docs' = NoDocs

DocsStarts ==
  /\ docs.pc = "idle" /\ Begins
  /\ \E compare \in BOOLEAN :
       docs' = [NoDocs EXCEPT !.pc = "host", !.check = compare, !.have = Present]
  /\ UNCHANGED <<results, machine, host, graphs, documents, chart, doctor>>

DocsReadsHost ==
  /\ docs.pc = "host"
  /\ IF host.there /\ Profiles[host.profile].publishable
     THEN docs' = [docs EXCEPT !.pc = "output", !.host = host]
     ELSE DocsRefused
  /\ UNCHANGED <<results, machine, host, graphs, documents, chart, doctor, begun>>

OneVersion(entries) ==
  \A d, e \in Range(entries) : d.cache = e.cache => d.version = e.version

DocsReadsOutput ==
  /\ docs.pc = "output"
  /\ IF output # 0 /\ OneVersion(Outputs[output])
     THEN docs' = [docs EXCEPT !.pc = "memory", !.output = output, !.notes = notes]
     ELSE DocsRefused
  /\ UNCHANGED <<results, machine, host, graphs, documents, chart, doctor, begun>>

DocsReadsMemory ==
  /\ docs.pc = "memory"
  /\ IF ~memory.readable THEN DocsRefused
     ELSE docs' = [docs EXCEPT !.pc = IF docs.check THEN "compare" ELSE "write",
                               !.memory = memory.rows]
  /\ UNCHANGED <<results, machine, host, graphs, documents, chart, doctor, begun>>

Names == <<"LOGARITHMIC.md", "LINEAR.md", "README.md">>

Page(name, d) ==
  LET read == [have |-> d.have, host |-> d.host, profile |-> Profiles[d.host.profile],
               output |-> Outputs[d.output], memory |-> d.memory, notes |-> d.notes,
               compat |-> Said]
  IN  CASE name = "LOGARITHMIC.md" -> Index("logarithmic", read)
        [] name = "LINEAR.md" -> Index("linear", read)
        [] name = "README.md" -> Readme(read)

DocsWrites ==
  /\ docs.pc = "write"
  /\ documents' = Put(documents, Names[docs.at], Page(Names[docs.at], docs))
  /\ docs' = IF docs.at = 3 THEN [docs EXCEPT !.pc = "written"] ELSE [docs EXCEPT !.at = @ + 1]
  /\ UNCHANGED <<results, machine, host, graphs, chart, doctor, begun>>

\* Mutant: a document that is not there is not stale.
StaleIfThere(name, d) == name \in DOMAIN documents /\ documents[name] # Page(name, d)

Stale(name, d) == name \notin DOMAIN documents \/ documents[name] # Page(name, d)

DocsCompares ==
  /\ docs.pc = "compare"
  /\ docs' = LET stale == docs.stale \/ Stale(Names[docs.at], docs)
             IN  IF docs.at < 3 THEN [docs EXCEPT !.at = @ + 1, !.stale = stale]
                 ELSE IF stale THEN NoDocs
                 ELSE [docs EXCEPT !.pc = "up to date"]
  /\ UNCHANGED <<results, machine, host, graphs, documents, chart, doctor, begun>>

DocsReturns ==
  /\ docs.pc \in {"written", "up to date"}
  /\ docs' = NoDocs
  /\ UNCHANGED <<results, machine, host, graphs, documents, chart, doctor, begun>>

DocsKilled ==
  /\ docs.pc = "write" /\ Begins
  /\ documents' \in {documents, Put(documents, Names[docs.at], Torn)}
  /\ docs' = NoDocs
  /\ UNCHANGED <<results, machine, host, graphs, chart, doctor>>

(***************************************************************************)
(* doctor --write: hosts.toml, the machine, the span of the runs, whether  *)
(* the machine can run the profile; the engines one by one; the record.  A *)
(* file cut off in the middle is as good as none.                          *)
(***************************************************************************)
\* results::span: the runs, and not the aggregates, which repeat one's start.
span == runs

DoctorLooks ==
  /\ doctor.pc = "idle" /\ Begins
  /\ check_against(Hosts, DOMAIN Profiles)
  /\ \E p \in DOMAIN Profiles, box \in Boxes :
       /\ Fits(p, box, span # {})
       /\ doctor' = [pc |-> "record", profile |-> p, box |-> box, span |-> span,
                     alone |-> runs # {} \/ flight = 0]
  /\ UNCHANGED <<results, machine, host, graphs, documents, chart>>

\* Mutant: the clock says when the first run was.
RecordByClock(d) ==
  [there |-> TRUE, profile |-> d.profile, alone |-> d.alone,
   facts |-> describe(probe(d.box), pmu(d.box), d.box.memtier),
   started |-> clock, finished |-> IF d.span = {} THEN 0 ELSE Max(d.span)]

Record(d) ==
  [there |-> TRUE, profile |-> d.profile, alone |-> d.alone,
   facts |-> describe(probe(d.box), pmu(d.box), d.box.memtier),
   started |-> IF d.span = {} THEN clock ELSE Min(d.span),
   finished |-> IF d.span = {} THEN 0 ELSE Max(d.span)]

DoctorRecords ==
  /\ doctor.pc = "record" /\ Writable(doctor.box)
  /\ host' \in {Record(doctor), NoHost}
  /\ doctor' = NoDoctor
  /\ UNCHANGED <<results, machine, graphs, documents, chart, begun>>

\* An engine did not come up, a fact is missing, or one names the machine.
DoctorRefuses ==
  /\ doctor.pc = "record"
  /\ doctor' = NoDoctor
  /\ UNCHANGED <<results, machine, host, graphs, documents, chart, begun>>

(***************************************************************************)
(* Everybody else: a run, measured anew or over an old one; combine; mem;  *)
(* a note.                                                                 *)
(***************************************************************************)
RunBegins ==
  /\ flight = 0 /\ clock < MaxClock /\ Begins
  /\ clock' = clock + 1 /\ flight' = clock
  /\ doctor' = [doctor EXCEPT !.alone = @ /\ doctor.span # {}]
  /\ UNCHANGED <<results, runs, host, graphs, documents, chart>>

RunEnds ==
  /\ flight # 0
  /\ runs' \in {runs, runs \cup {flight}} \cup {(runs \ {old}) \cup {flight} : old \in runs}
  /\ flight' = 0
  /\ UNCHANGED <<results, clock, host, graphs, documents, chart, doctor, begun>>

Changes ==
  /\ Begins
  /\ \/ output' \in 0..Len(Outputs) /\ UNCHANGED <<memory, notes>>
     \/ /\ memory' \in {[NoRows EXCEPT !.readable = FALSE]}
                       \cup {[NoRows EXCEPT !.rows = r] : r \in Reports \ {<<>>}}
        /\ UNCHANGED <<output, notes>>
     \/ notes' = ~notes /\ UNCHANGED <<output, memory>>
  /\ UNCHANGED <<machine, host, graphs, documents, chart, doctor>>

-----------------------------------------------------------------------------
Others ==
  \/ ChartReads \/ ChartStamps \/ Draws \/ ChartKilled
  \/ DoctorLooks \/ DoctorRecords \/ DoctorRefuses
  \/ RunBegins \/ RunEnds \/ Changes

Docs ==
  \/ DocsStarts \/ DocsReadsHost \/ DocsReadsOutput \/ DocsReadsMemory
  \/ DocsWrites \/ DocsCompares \/ DocsReturns \/ DocsKilled

Beside == docs' = IF docs.pc = "idle" THEN docs ELSE [docs EXCEPT !.quiet = FALSE]

Next == Docs \/ (Others /\ Beside)

DocumentsSpec == Init /\ [][Next]_vars

-----------------------------------------------------------------------------
(***************************************************************************)
(* Properties.                                                             *)
(***************************************************************************)
Written == {n \in DOMAIN documents : documents[n] # Torn}

Indexed(page)  == UNION {s.images : s \in Range(page.sections)}
Highlighted(b) == b.throughput.images \cup b.cycles.images \cup UNION {s.images : s \in Range(b.p99s)}
LinksOf(name, page) ==
  IF name = "README.md" THEN Highlighted(page.benchmarks) ELSE Indexed(page)
Links(name) == LinksOf(name, documents[name])

\* docs.rs, readme.rs, index.rs: a document links no picture that is not in
\* graphs, whichever output.json it was last drawn from, whatever was cut off
\* while it was drawn, and whatever is drawn while the documents are written.
LinksAreThere == \A n \in Written : Links(n) \subseteq DOMAIN graphs

\* readme.rs: "There are {} charts in this directory and the two indexes below
\* have every one of them".  The three documents that one command wrote count
\* and link the same charts, also when some are drawn meanwhile.
EveryChartIsIndexed ==
  docs.pc = "written" =>
    LET indexed == Links("LINEAR.md") \cup Links("LOGARITHMIC.md")
    IN  /\ documents["README.md"].benchmarks.charts = Cardinality(indexed)
        /\ Links("README.md") \subseteq indexed

\* doctor.rs, readme.rs: no README says that the host has no counters of a
\* profile that sweeps with them, whatever the machine said to a later doctor.
CountersAreThere ==
  "README.md" \in Written =>
    LET page == documents["README.md"]
    IN  page.bullets.cycles = "no PMU" => TRUE \notin Profiles[page.hardware.profile].perf

\* docs.rs: a `docs --check` beside which nothing happened and that finds
\* nothing stale has every document on the disk say what is on the disk now:
\* none left over from a command that was killed, or from before a chart was
\* drawn, a host described, a cell combined or a note written.
CheckedIsCurrent ==
  docs.pc = "up to date" /\ docs.quiet =>
    \A i \in DOMAIN Names :
      /\ Names[i] \in DOMAIN documents
      /\ documents[Names[i]] = Page(Names[i], [docs EXCEPT
             !.have = DOMAIN graphs, !.host = host, !.output = output, !.notes = notes,
             !.memory = memory.rows])

\* doctor.rs: `--write` before the sweep, in the middle of it or after it makes
\* no difference to "First run started": no run on the disk is older, unless a
\* first run was under way while the doctor was at it.
FirstRunIsFirst == host.there /\ host.alone => \A t \in runs : host.started <= t

=============================================================================
