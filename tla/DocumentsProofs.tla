--------------------------- MODULE DocumentsProofs ---------------------------
(***************************************************************************)
(* What the documents and host.json say is so, for any list of charts, any *)
(* output.json, profiles, machines and reports, and however the commands   *)
(* run beside one another.  Five invariants, of which none is inductive:   *)
(*                                                                         *)
(* - LinksAreThere: between the listing of the pictures and the writing of *)
(*   a document a command remembers what was there, and that has to be     *)
(*   there still (Listed).  No command takes a picture away.               *)
(* - CheckedIsCurrent and EveryChartIsIndexed: the documents a command has *)
(*   passed are what it would write (Passed), what it would write is what  *)
(*   is there as long as nothing happens beside it (Fresh), and the two    *)
(*   indexes have the whole list of charts between them (Sectioned).       *)
(* - FirstRunIsFirst: runs start one at a time, so the least start on the  *)
(*   disk is the least there will be (NoneBefore).                         *)
(* - CountersAreThere: a record of a host has the counters its profile     *)
(*   asks for, from the doctor's check to the page (Counted).              *)
(***************************************************************************)
EXTENDS Documents, WellFoundedInduction, TLAPS

DocsFields(d) ==
  [pc |-> d.pc, check |-> d.check, have |-> d.have, host |-> d.host, output |-> d.output,
   notes |-> d.notes, memory |-> d.memory, at |-> d.at, stale |-> d.stale, quiet |-> d.quiet]

\* The pictures a command has listed are there, and its place is a document's.
Listed == docs.pc # "idle" => docs.have \subseteq DOMAIN graphs

LinksInv ==
  /\ docs = DocsFields(docs) /\ docs.at \in 1..3
  /\ Listed /\ LinksAreThere

-----------------------------------------------------------------------------
\* What a document links is among the pictures it was written from.
LEMMA PicturesAreHad == \A specs, have : pictures(specs, have).images \subseteq have
  BY DEF pictures

LEMMA IndexLinks ==
  ASSUME NEW scale, NEW d
  PROVE  Indexed(Index(scale, d)) \subseteq d.have
<1> DEFINE sections == [x \in SECTIONS \X PIPELINES |-> pictures(charts(x[1], x[2], scale), d.have)]
<1>1. Index(scale, d).sections = sections
  BY DEF Index
<1>2. ASSUME NEW s \in Range(sections) PROVE s.images \subseteq d.have
  <2>1. PICK x \in SECTIONS \X PIPELINES : s = pictures(charts(x[1], x[2], scale), d.have)
    BY DEF Range
  <2> QED
    BY <2>1, PicturesAreHad
<1> HIDE DEF sections
<1> QED
  BY <1>1, <1>2 DEF Indexed

LEMMA ExplainedLinks == \A d, specs : Explained(d, specs).images \subseteq d.have
  BY PicturesAreHad DEF Explained

LEMMA ReadmeLinks ==
  ASSUME NEW d
  PROVE  Highlighted(Readme(d).benchmarks) \subseteq d.have
<1> DEFINE listed == [i \in DOMAIN p99s(d) |-> Explained(d, p99s(d)[i])]
<1>1. /\ Readme(d).benchmarks.throughput = Explained(d, throughput)
      /\ Readme(d).benchmarks.cycles = Explained(d, cycles)
      /\ Readme(d).benchmarks.p99s = listed
  BY DEF Readme, benchmarks
<1>2. ASSUME NEW s \in Range(listed) PROVE s.images \subseteq d.have
  <2>1. PICK i \in DOMAIN p99s(d) : s = Explained(d, p99s(d)[i])
    BY DEF Range
  <2> QED
    BY <2>1, ExplainedLinks
<1> HIDE DEF listed
<1> QED
  BY <1>1, <1>2, ExplainedLinks DEF Highlighted

LEMMA PageLinks ==
  ASSUME NEW d, NEW i \in 1..3
  PROVE  LinksOf(Names[i], Page(Names[i], d)) \subseteq d.have
<1> DEFINE read == [have |-> d.have, host |-> d.host, profile |-> Profiles[d.host.profile],
                    output |-> Outputs[d.output], memory |-> d.memory, notes |-> d.notes,
                    compat |-> Said]
<1>1. read.have = d.have
  OBVIOUS
<1>2. \/ Names[i] = "LOGARITHMIC.md" /\ Page(Names[i], d) = Index("logarithmic", read)
      \/ Names[i] = "LINEAR.md" /\ Page(Names[i], d) = Index("linear", read)
      \/ Names[i] = "README.md" /\ Page(Names[i], d) = Readme(read)
  BY DEF Names, Page
<1> HIDE DEF read
<1> QED
  BY <1>1, <1>2, IndexLinks, ReadmeLinks DEF LinksOf

-----------------------------------------------------------------------------
LEMMA PutIn ==
  \A f, x, y : /\ DOMAIN Put(f, x, y) = DOMAIN f \cup {x}
               /\ \A z \in DOMAIN f \cup {x} : Put(f, x, y)[z] = IF z = x THEN y ELSE f[z]
  BY DEF Put

LEMMA PutElsewhere ==
  ASSUME NEW f, NEW x, NEW y, NEW z \in DOMAIN Put(f, x, y), z # x
  PROVE  z \in DOMAIN f /\ Put(f, x, y)[z] = f[z]
  BY DEF Put

LEMMA InitLinks == Init => LinksInv
  BY DEF Init, LinksInv, NoDocs, DocsFields, Listed, LinksAreThere, Written

\* Pictures are only added, and the documents are left alone.
Adds == DOMAIN graphs \subseteq DOMAIN graphs' /\ documents' = documents

LEMMA AddsKeeps == LinksAreThere /\ Adds => LinksAreThere'
  BY DEF Adds, LinksAreThere, Written, Links

LEMMA OthersAdd == Others => Adds
<1>1. ChartReads \/ ChartStamps => Adds
  BY DEF ChartReads, ChartStamps, Adds
<1>2. ASSUME Draws PROVE Adds
  <2>1. documents' = documents
    BY <1>2 DEF Draws
  <2>2. graphs' = graphs \/ \E p : graphs' = Put(graphs, NextFile, p)
    BY <1>2 DEF Draws
  <2> QED
    BY <2>1, <2>2 DEF Adds, Put
<1>3. ASSUME ChartKilled PROVE Adds
  <2>1. documents' = documents
    BY <1>3 DEF ChartKilled
  <2>2. graphs' = graphs \/ graphs' = Put(graphs, NextFile, Torn)
    BY <1>3 DEF ChartKilled
  <2> QED
    BY <2>1, <2>2 DEF Adds, Put
<1>4. DoctorLooks \/ DoctorRecords \/ DoctorRefuses \/ RunBegins \/ RunEnds \/ Changes => Adds
  BY DEF DoctorLooks, DoctorRecords, DoctorRefuses, RunBegins, RunEnds, Changes, Adds
<1> QED
  BY <1>1, <1>2, <1>3, <1>4 DEF Others

LEMMA StepLinks == LinksInv /\ [Next]_vars => LinksInv'
<1> SUFFICES ASSUME LinksInv, [Next]_vars PROVE LinksInv'
  OBVIOUS
<1>r. docs = DocsFields(docs) /\ NoDocs = DocsFields(NoDocs)
  BY DEF LinksInv, DocsFields, NoDocs
<1>1. CASE Others /\ Beside
  <2>1. Adds
    BY <1>1, OthersAdd
  <2>2. /\ docs' = DocsFields(docs') /\ docs'.pc = docs.pc
        /\ docs'.have = docs.have /\ docs'.at = docs.at
    BY <1>1, <1>r DEF Beside, DocsFields
  <2> QED
    BY <2>1, <2>2, AddsKeeps DEF LinksInv, Listed, Adds
<1>2. CASE DocsStarts
  <2>1. /\ docs' = DocsFields(docs') /\ docs'.have = DOMAIN graphs /\ docs'.at = 1
        /\ UNCHANGED <<graphs, documents>>
    BY <1>2 DEF DocsStarts, NoDocs, DocsFields, Present
  <2> QED
    BY <2>1, AddsKeeps DEF Adds, LinksInv, Listed
<1>3. CASE DocsReadsHost \/ DocsReadsOutput \/ DocsReadsMemory \/ DocsCompares \/ DocsReturns
  <2>1. docs.at \in 1..3 /\ UNCHANGED <<graphs, documents>>
    BY <1>3 DEF LinksInv, DocsReadsHost, DocsReadsOutput, DocsReadsMemory, DocsCompares, DocsReturns
  <2>2. CASE docs' = NoDocs
    BY <1>r, <2>1, <2>2, AddsKeeps DEF Adds, LinksInv, Listed, NoDocs
  <2>3. CASE docs' # NoDocs
    <3>1. docs.pc # "idle"
      BY <1>3, <2>3
      DEF DocsReadsHost, DocsReadsOutput, DocsReadsMemory, DocsCompares, DocsReturns
    <3>2. docs' = DocsFields(docs') /\ docs'.have = docs.have /\ docs'.at \in 1..3
      <4>1. CASE DocsReadsHost
        BY <1>r, <2>1, <2>3, <4>1 DEF DocsReadsHost, DocsRefused, DocsFields
      <4>2. CASE DocsReadsOutput
        BY <1>r, <2>1, <2>3, <4>2 DEF DocsReadsOutput, DocsRefused, DocsFields
      <4>3. CASE DocsReadsMemory
        BY <1>r, <2>1, <2>3, <4>3 DEF DocsReadsMemory, DocsRefused, DocsFields
      <4>4. CASE DocsCompares
        <5>1. \E stale : \/ docs.at < 3 /\ docs' = [docs EXCEPT !.at = @ + 1, !.stale = stale]
                         \/ docs' = [docs EXCEPT !.pc = "up to date"]
          BY <2>3, <4>4 DEF DocsCompares
        <5>2. CASE docs' = [docs EXCEPT !.pc = "up to date"]
          BY <1>r, <2>1, <5>2 DEF DocsFields
        <5>3. ASSUME docs.at < 3, NEW stale, docs' = [docs EXCEPT !.at = @ + 1, !.stale = stale]
              PROVE  docs' = DocsFields(docs') /\ docs'.have = docs.have /\ docs'.at \in 1..3
          <6>1. docs' = [DocsFields(docs) EXCEPT !.at = docs.at + 1, !.stale = stale]
            BY <1>r, <5>3
          <6>2. docs.at + 1 \in 1..3
            BY <2>1, <5>3
          <6> QED
            BY <6>1, <6>2 DEF DocsFields
        <5> QED
          BY <5>1, <5>2, <5>3
      <4> QED
        BY <1>3, <2>3, <4>1, <4>2, <4>3, <4>4 DEF DocsReturns
    <3> QED
      BY <2>1, <3>1, <3>2, AddsKeeps DEF Adds, LinksInv, Listed
  <2> QED
    BY <2>2, <2>3
<1>4. CASE DocsWrites
  <2>1. /\ docs' = DocsFields(docs') /\ docs'.at \in 1..3 /\ docs.pc # "idle"
        /\ docs'.have = docs.have /\ graphs' = graphs
    BY <1>4, <1>r DEF LinksInv, DocsWrites, DocsFields
  <2>2. documents' = Put(documents, Names[docs.at], Page(Names[docs.at], docs))
    BY <1>4 DEF DocsWrites
  <2>3. ASSUME NEW n \in Written' PROVE Links(n)' \subseteq DOMAIN graphs'
    <3>1. CASE n = Names[docs.at]
      <4>1. Links(n)' \subseteq docs.have
        BY <2>2, <3>1, PutIn, PageLinks DEF LinksInv, Links
      <4> QED
        BY <2>1, <4>1 DEF LinksInv, Listed
    <3>2. CASE n # Names[docs.at]
      <4>1. n \in Written /\ documents'[n] = documents[n]
        BY <2>2, <2>3, <3>2, PutElsewhere DEF Written
      <4> QED
        BY <2>1, <4>1 DEF LinksInv, LinksAreThere, Links
    <3> QED
      BY <3>1, <3>2
  <2> QED
    BY <2>1, <2>3 DEF LinksInv, Listed, LinksAreThere
<1>5. CASE DocsKilled
  <2>1. docs' = NoDocs /\ graphs' = graphs
    BY <1>5 DEF DocsKilled
  <2>2. ASSUME NEW n \in Written' PROVE n \in Written /\ documents'[n] = documents[n]
    <3>1. n \in DOMAIN documents' /\ documents'[n] # Torn
      BY <2>2 DEF Written
    <3>2. CASE documents' = documents
      BY <3>1, <3>2 DEF Written
    <3>3. CASE documents' = Put(documents, Names[docs.at], Torn)
      <4>1. n # Names[docs.at]
        BY <3>1, <3>3, PutIn
      <4> QED
        BY <3>1, <3>3, <4>1, PutElsewhere DEF Written
    <3> QED
      BY <1>5, <3>2, <3>3 DEF DocsKilled
  <2> QED
    BY <2>1, <2>2, <1>r DEF LinksInv, Listed, LinksAreThere, Links, NoDocs
<1>6. CASE UNCHANGED vars
  BY <1>6 DEF vars, LinksInv, DocsFields, Listed, LinksAreThere, Written, Links
<1> QED
  BY <1>1, <1>2, <1>3, <1>4, <1>5, <1>6 DEF Next, Docs

\* No document links a picture that is not in graphs, whichever output.json it
\* was last drawn from and whatever is drawn while the documents are written.
THEOREM LinksThere == DocumentsSpec => []LinksAreThere
<1>1. LinksInv => LinksAreThere
  BY DEF LinksInv
<1> QED
  BY <1>1, InitLinks, StepLinks, PTL DEF DocumentsSpec

-----------------------------------------------------------------------------
(***************************************************************************)
(* What one command of docs has read, written and compared.                *)
(***************************************************************************)
\* The first n of some documents say what a command would write.
Agreed(n, d, written) ==
  \A i \in 1..n : Names[i] \in DOMAIN written /\ written[Names[i]] = Page(Names[i], d)

\* A command starts at the first document, with none of them stale.
Early == docs.pc \in {"host", "output", "memory"} => docs.at = 1 /\ ~docs.stale

\* The documents it has passed are its own.
Passed ==
  /\ docs.pc = "write" \/ (docs.pc = "compare" /\ ~docs.stale) => Agreed(docs.at - 1, docs, documents)
  /\ docs.pc \in {"written", "up to date"} => Agreed(3, docs, documents)

\* What it has read is what is there, as long as nothing happens beside it.
Fresh == docs.quiet /\ docs.pc # "idle" =>
  /\ docs.have = DOMAIN graphs
  /\ docs.pc # "host" => docs.host = host
  /\ docs.pc \notin {"host", "output"} => docs.output = output /\ docs.notes = notes
  /\ docs.pc \notin {"host", "output", "memory"} => docs.memory = memory.rows

DocsOK ==
  docs = DocsFields(docs) /\ docs.at \in 1..3 /\ docs.stale \in BOOLEAN /\ docs.quiet \in BOOLEAN

DocsInv == DocsOK /\ Early /\ Passed /\ Fresh

LEMMA NamesDiffer == \A i, j \in 1..3 : Names[i] = Names[j] => i = j
  BY DEF Names

\* A page is made from five of the things a command remembers.
LEMMA PageReads ==
  ASSUME NEW n, NEW d, NEW e, d.have = e.have, d.host = e.host, d.output = e.output,
         d.memory = e.memory, d.notes = e.notes
  PROVE  Page(n, d) = Page(n, e)
  BY DEF Page

\* Two commands that remember the same agree with the same documents.
SameReading(d, e) ==
  /\ d.have = e.have /\ d.host = e.host /\ d.output = e.output
  /\ d.memory = e.memory /\ d.notes = e.notes

LEMMA AgreedKept ==
  ASSUME NEW d, NEW e, SameReading(d, e), NEW written, NEW n, Agreed(n, d, written)
  PROVE  Agreed(n, e, written)
<1>1. ASSUME NEW i \in 1..n PROVE Page(Names[i], e) = Page(Names[i], d)
  BY PageReads DEF SameReading
<1> QED
  BY <1>1 DEF Agreed

\* A document that is put down is added to those that agree.
LEMMA AgreedGrows ==
  ASSUME NEW d, NEW written, NEW i \in 1..3, Agreed(i - 1, d, written)
  PROVE  Agreed(i, d, Put(written, Names[i], Page(Names[i], d)))
<1> DEFINE after == Put(written, Names[i], Page(Names[i], d))
<1>1. SUFFICES ASSUME NEW j \in 1..i
      PROVE  Names[j] \in DOMAIN after /\ after[Names[j]] = Page(Names[j], d)
  BY DEF Agreed
<1>2. /\ DOMAIN after = DOMAIN written \cup {Names[i]}
      /\ \A z \in DOMAIN written \cup {Names[i]} :
           after[z] = IF z = Names[i] THEN Page(Names[i], d) ELSE written[z]
  BY DEF Put
<1> HIDE DEF after
<1>3. CASE j = i
  BY <1>2, <1>3
<1>4. CASE j # i
  <2>1. j \in 1..(i - 1) /\ Names[j] # Names[i]
    BY <1>4, NamesDiffer
  <2>2. Names[j] \in DOMAIN written /\ written[Names[j]] = Page(Names[j], d)
    BY <2>1 DEF Agreed
  <2> QED
    BY <1>2, <2>1, <2>2
<1> QED
  BY <1>3, <1>4

\* So is one that is found not to be stale.
LEMMA AgreedFound ==
  ASSUME NEW i \in 1..3, Agreed(i - 1, docs, documents), ~Stale(Names[i], docs)
  PROVE  Agreed(i, docs, documents)
  BY DEF Agreed, Stale

LEMMA InitDocs == Init => DocsInv
  BY DEF Init, DocsInv, DocsOK, NoDocs, DocsFields, Early, Passed, Fresh

\* What a comparison comes to.
LEMMA Compared ==
  ASSUME DocsCompares
  PROVE  \E stale \in BOOLEAN :
           /\ stale <=> (docs.stale \/ Stale(Names[docs.at], docs))
           /\ docs' = IF docs.at < 3 THEN [docs EXCEPT !.at = @ + 1, !.stale = stale]
                      ELSE IF stale THEN NoDocs
                      ELSE [docs EXCEPT !.pc = "up to date"]
<1> DEFINE found == docs.stale \/ Stale(Names[docs.at], docs)
<1>1. docs' = IF docs.at < 3 THEN [docs EXCEPT !.at = @ + 1, !.stale = found]
              ELSE IF found THEN NoDocs
              ELSE [docs EXCEPT !.pc = "up to date"]
  BY DEF DocsCompares
<1>2. found \in BOOLEAN /\ (found <=> (docs.stale \/ Stale(Names[docs.at], docs)))
  OBVIOUS
<1> HIDE DEF found
<1> QED
  BY <1>1, <1>2, Zenon

LEMMA StepDocs == DocsInv /\ [Next]_vars => DocsInv'
<1> SUFFICES ASSUME DocsInv, [Next]_vars PROVE DocsInv'
  OBVIOUS
<1>r. docs = DocsFields(docs) /\ docs.at \in 1..3 /\ docs.stale \in BOOLEAN /\ docs.quiet \in BOOLEAN
  BY DEF DocsInv, DocsOK
<1>p. ASSUME docs' = DocsFields(docs'), docs'.at \in 1..3, docs'.stale \in BOOLEAN, docs'.quiet \in BOOLEAN
      PROVE  DocsOK'
  BY <1>p DEF DocsOK, DocsFields
<1>z. /\ NoDocs = DocsFields(NoDocs) /\ NoDocs.pc = "idle" /\ NoDocs.at = 1
      /\ NoDocs.stale \in BOOLEAN /\ NoDocs.quiet \in BOOLEAN
  BY DEF NoDocs, DocsFields
<1>n. ASSUME docs' = NoDocs PROVE DocsInv'
  <2>o. DocsOK'
    BY <1>n, <1>z, <1>p DEF DocsInv
  <2>e. Early'
    BY <1>n, <1>z DEF Early
  <2>p. Passed'
    BY <1>n, <1>z DEF Passed
  <2>f. Fresh'
    BY <1>n, <1>z DEF Fresh
  <2> QED
    BY <2>o, <2>e, <2>p, <2>f DEF DocsInv
<1>1. CASE Others /\ Beside
  <2>1. documents' = documents
    BY <1>1, OthersAdd DEF Adds
  <2>2. CASE docs.pc = "idle"
    <3>1. docs' = docs /\ docs.pc = "idle"
      BY <1>1, <2>2 DEF Beside
    <3>o. DocsOK'
      BY <1>r, <3>1, <1>p DEF DocsInv
    <3>e. Early'
      BY <1>r, <3>1 DEF Early
    <3>p. Passed'
      BY <1>r, <3>1 DEF Passed
    <3>f. Fresh'
      BY <1>r, <3>1 DEF Fresh
    <3> QED
      BY <3>o, <3>e, <3>p, <3>f DEF DocsInv
  <2>3. CASE docs.pc # "idle"
    <3>1. /\ docs' = DocsFields(docs') /\ SameReading(docs, docs') /\ docs'.pc = docs.pc
          /\ docs'.at = docs.at
          /\ docs'.stale = docs.stale /\ docs'.quiet = FALSE
      BY <1>1, <1>r, <2>3 DEF Beside, DocsFields, SameReading
    <3>2. \A n : Agreed(n, docs, documents) => Agreed(n, docs', documents')
      BY <2>1, <3>1, AgreedKept
    <3>o. DocsOK'
      BY <1>r, <3>1, <3>2, <1>p DEF DocsInv
    <3>e. Early'
      BY <1>r, <3>1, <3>2 DEF Early, DocsInv
    <3>p. Passed'
      BY <1>r, <3>1, <3>2 DEF Passed, DocsInv
    <3>f. Fresh'
      BY <1>r, <3>1, <3>2 DEF Fresh, DocsInv
    <3> QED
      BY <3>o, <3>e, <3>p, <3>f DEF DocsInv
  <2> QED
    BY <2>2, <2>3
<1>2. CASE DocsStarts
  <2>1. /\ docs' = DocsFields(docs') /\ docs'.pc = "host" /\ docs'.at = 1 /\ ~docs'.stale
        /\ docs'.stale \in BOOLEAN /\ docs'.quiet \in BOOLEAN
        /\ docs'.have = DOMAIN graphs /\ graphs' = graphs
    BY <1>2 DEF DocsStarts, NoDocs, DocsFields, Present
  <2>o. DocsOK'
    BY <2>1, <1>p DEF DocsInv
  <2>e. Early'
    BY <2>1 DEF Early
  <2>p. Passed'
    BY <2>1 DEF Passed
  <2>f. Fresh'
    BY <2>1 DEF Fresh
  <2> QED
    BY <2>o, <2>e, <2>p, <2>f DEF DocsInv
<1>3. CASE DocsReadsHost
  <2>1. CASE docs' # NoDocs
    <3>1. /\ docs' = DocsFields(docs') /\ docs'.pc = "output" /\ docs'.have = docs.have
          /\ docs'.host = host /\ docs'.at = docs.at /\ docs'.stale = docs.stale
          /\ docs'.quiet = docs.quiet /\ docs.pc = "host" /\ UNCHANGED <<graphs, host>>
      BY <1>3, <1>r, <2>1 DEF DocsReadsHost, DocsRefused, DocsFields
    <3>o. DocsOK'
      BY <1>r, <3>1, <1>p DEF DocsInv
    <3>e. Early'
      BY <1>r, <3>1 DEF Early, DocsInv
    <3>p. Passed'
      BY <1>r, <3>1 DEF Passed, DocsInv
    <3>f. Fresh'
      BY <1>r, <3>1 DEF Fresh, DocsInv
    <3> QED
      BY <3>o, <3>e, <3>p, <3>f DEF DocsInv
  <2> QED
    BY <1>n, <2>1
<1>4. CASE DocsReadsOutput
  <2>1. CASE docs' # NoDocs
    <3>1. /\ docs' = DocsFields(docs') /\ docs'.pc = "memory" /\ docs'.have = docs.have
          /\ docs'.host = docs.host /\ docs'.output = output /\ docs'.notes = notes
          /\ docs'.at = docs.at /\ docs'.stale = docs.stale
          /\ docs'.quiet = docs.quiet /\ docs.pc = "output" /\ UNCHANGED <<results, graphs, host>>
      BY <1>4, <1>r, <2>1 DEF DocsReadsOutput, DocsRefused, DocsFields
    <3>o. DocsOK'
      BY <1>r, <3>1, <1>p DEF DocsInv
    <3>e. Early'
      BY <1>r, <3>1 DEF Early, DocsInv
    <3>p. Passed'
      BY <1>r, <3>1 DEF Passed, DocsInv
    <3>f. Fresh'
      BY <1>r, <3>1 DEF Fresh, DocsInv, results
    <3> QED
      BY <3>o, <3>e, <3>p, <3>f DEF DocsInv
  <2> QED
    BY <1>n, <2>1
<1>5. CASE DocsReadsMemory
  <2>1. CASE docs' # NoDocs
    <3>1. /\ docs' = DocsFields(docs') /\ docs'.pc \in {"compare", "write"} /\ docs'.have = docs.have
          /\ docs'.host = docs.host /\ docs'.output = docs.output /\ docs'.notes = docs.notes
          /\ docs'.memory = memory.rows /\ docs'.at = docs.at /\ docs'.stale = docs.stale
          /\ docs'.quiet = docs.quiet /\ docs.pc = "memory" /\ UNCHANGED <<results, graphs, host>>
      BY <1>5, <1>r, <2>1 DEF DocsReadsMemory, DocsRefused, DocsFields
    <3>2. Agreed(docs'.at - 1, docs', documents')
      BY <1>r, <3>1 DEF Agreed, DocsInv, Early
    <3>o. DocsOK'
      BY <1>r, <3>1, <3>2, <1>p DEF DocsInv
    <3>e. Early'
      BY <1>r, <3>1, <3>2 DEF Early, DocsInv
    <3>p. Passed'
      BY <1>r, <3>1, <3>2 DEF Passed, DocsInv
    <3>f. Fresh'
      BY <1>r, <3>1, <3>2 DEF Fresh, DocsInv, results
    <3> QED
      BY <3>o, <3>e, <3>p, <3>f DEF DocsInv
  <2> QED
    BY <1>n, <2>1
<1>6. CASE DocsWrites
  <2>1. /\ docs' = DocsFields(docs') /\ SameReading(docs, docs') /\ docs'.stale = docs.stale
        /\ docs'.quiet = docs.quiet /\ docs.pc = "write" /\ UNCHANGED <<results, graphs, host>>
        /\ \/ docs.at = 3 /\ docs'.at = 3 /\ docs'.pc = "written"
           \/ docs.at # 3 /\ docs'.at = docs.at + 1 /\ docs'.pc = "write"
    BY <1>6, <1>r DEF DocsWrites, DocsFields, SameReading
  <2>2. Agreed(docs.at - 1, docs, documents)
    BY <2>1 DEF DocsInv, Passed
  <2>3. Agreed(docs.at, docs, documents')
    BY <1>6, <1>r, <2>2, AgreedGrows DEF DocsWrites
  <2>4. Agreed(docs.at, docs', documents')
    BY <2>1, <2>3, AgreedKept
  <2>o. DocsOK'
    BY <1>r, <2>1, <2>4, <1>p DEF DocsInv
  <2>e. Early'
    BY <1>r, <2>1, <2>4 DEF Early
  <2>p. Passed'
    <3>1. docs.at # 3 => docs'.at - 1 = docs.at
      BY <1>r, <2>1
    <3>2. docs.at # 3 => Agreed(docs'.at - 1, docs', documents')
      BY <2>4, <3>1
    <3> QED
      BY <2>1, <2>4, <3>2 DEF Passed
  <2>f. Fresh'
    BY <1>r, <2>1, <2>4 DEF Fresh, DocsInv, results, SameReading
  <2> QED
    BY <2>o, <2>e, <2>p, <2>f DEF DocsInv
<1>7. CASE DocsCompares
  <2>1. CASE docs' # NoDocs
    <3>1. docs.pc = "compare" /\ UNCHANGED <<results, graphs, host, documents>>
      BY <1>7 DEF DocsCompares
    <3>2. PICK stale \in BOOLEAN :
            /\ ~stale => ~docs.stale /\ ~Stale(Names[docs.at], docs)
            /\ \/ docs.at < 3 /\ docs' = [docs EXCEPT !.at = @ + 1, !.stale = stale]
               \/ docs.at = 3 /\ ~stale /\ docs' = [docs EXCEPT !.pc = "up to date"]
      <4>1. PICK stale \in BOOLEAN :
              /\ stale <=> (docs.stale \/ Stale(Names[docs.at], docs))
              /\ docs' = IF docs.at < 3 THEN [docs EXCEPT !.at = @ + 1, !.stale = stale]
                         ELSE IF stale THEN NoDocs
                         ELSE [docs EXCEPT !.pc = "up to date"]
        BY <1>7, Compared
      <4>2. docs.at < 3 \/ docs.at = 3
        BY <1>r
      <4> QED
        BY <2>1, <4>1, <4>2
    <3>4. ~stale => Agreed(docs.at, docs, documents)
      BY <1>r, <3>1, <3>2, AgreedFound DEF DocsInv, Passed
    <3>5. CASE docs.at = 3 /\ ~stale /\ docs' = [docs EXCEPT !.pc = "up to date"]
      <4>1. /\ docs' = DocsFields(docs') /\ SameReading(docs, docs') /\ docs'.quiet = docs.quiet
            /\ docs'.at = 3 /\ docs'.at \in 1..3 /\ docs'.pc = "up to date" /\ docs'.stale \in BOOLEAN
        BY <1>r, <3>5 DEF DocsFields, SameReading
      <4>2. Agreed(3, docs', documents')
        BY <3>1, <3>4, <3>5, <4>1, AgreedKept
      <4>o. DocsOK'
        BY <1>r, <4>1, <1>p
      <4>f. Fresh'
        BY <3>1, <4>1 DEF Fresh, DocsInv, results, SameReading
      <4> QED
        BY <4>1, <4>2, <4>o, <4>f DEF DocsInv, Early, Passed
    <3>6. CASE docs.at < 3 /\ docs' = [docs EXCEPT !.at = @ + 1, !.stale = stale]
      <4>1. /\ docs' = DocsFields(docs') /\ SameReading(docs, docs') /\ docs'.quiet = docs.quiet
            /\ docs'.at = docs.at + 1 /\ docs'.pc = docs.pc
        BY <1>r, <3>6 DEF DocsFields, SameReading
      <4>2. docs'.stale \in BOOLEAN /\ (docs'.stale <=> stale)
        BY <1>r, <3>2, <3>6 DEF DocsFields
      <4>3. docs'.at - 1 = docs.at /\ docs'.at \in 1..3
        BY <1>r, <3>6, <4>1
      <4>4. ~stale => Agreed(docs'.at - 1, docs', documents')
        BY <3>1, <3>4, <4>1, <4>3, AgreedKept
      <4>o. DocsOK'
        BY <1>r, <4>1, <4>2, <4>3, <1>p
      <4>f. Fresh'
        BY <3>1, <4>1 DEF Fresh, DocsInv, results, SameReading
      <4> QED
        BY <3>1, <4>1, <4>2, <4>4, <4>o, <4>f DEF DocsInv, Early, Passed
    <3> QED
      BY <3>2, <3>5, <3>6
  <2> QED
    BY <1>n, <2>1
<1>8. CASE DocsReturns \/ DocsKilled
  BY <1>8, <1>n DEF DocsReturns, DocsKilled
<1>9. CASE UNCHANGED vars
  BY <1>9 DEF vars, results, DocsInv, DocsOK, Early, Passed, Fresh, DocsFields
<1> QED
  BY <1>1, <1>2, <1>3, <1>4, <1>5, <1>6, <1>7, <1>8, <1>9 DEF Next, Docs

\* A `docs --check` beside which nothing happened and that finds nothing stale
\* has every document on the disk say what is on the disk now.
THEOREM CheckedCurrent == DocumentsSpec => []CheckedIsCurrent
<1>1. ASSUME DocsInv PROVE CheckedIsCurrent
  <2>1. SUFFICES ASSUME docs.pc = "up to date", docs.quiet, NEW i \in DOMAIN Names
        PROVE  /\ Names[i] \in DOMAIN documents
               /\ documents[Names[i]] = Page(Names[i], [docs EXCEPT
                    !.have = DOMAIN graphs, !.host = host, !.output = output, !.notes = notes,
                    !.memory = memory.rows])
    BY DEF CheckedIsCurrent
  <2>2. i \in 1..3
    BY DEF Names
  <2>3. Names[i] \in DOMAIN documents /\ documents[Names[i]] = Page(Names[i], docs)
    BY <1>1, <2>1, <2>2 DEF DocsInv, Passed, Agreed
  <2>4. [docs EXCEPT !.have = DOMAIN graphs, !.host = host, !.output = output, !.notes = notes,
                     !.memory = memory.rows] = docs
    BY <1>1, <2>1 DEF DocsInv, DocsOK, Fresh, DocsFields
  <2> QED
    BY <2>3, <2>4
<1> QED
  BY <1>1, InitDocs, StepDocs, PTL DEF DocumentsSpec

-----------------------------------------------------------------------------
(***************************************************************************)
(* The charts that are drawn are in the list, and the indexes have all of  *)
(* the list between them.                                                  *)
(***************************************************************************)
ChartFields(c) ==
  [pc |-> c.pc, todo |-> c.todo, output |-> c.output, compat |-> c.compat, profile |-> c.profile]

DrawnInv ==
  /\ chart = ChartFields(chart)
  /\ chart.pc # "idle" => chart.todo # {} /\ chart.todo \subseteq All
  /\ DOMAIN graphs \subseteq All

LEMMA ThereAreCharts == All # {}
<1>1. Spec(CpuCycles, 1, "linear", "none") \in All
  BY ChartsAssumption DEF All, Metrics, Scales
<1> QED
  BY <1>1

LEMMA InitDrawn == Init => DrawnInv
  BY DEF Init, NoChart, ChartFields, DrawnInv

LEMMA StepDrawn == DrawnInv /\ [Next]_vars => DrawnInv'
<1> SUFFICES ASSUME DrawnInv, [Next]_vars PROVE DrawnInv'
  OBVIOUS
<1>r. chart = ChartFields(chart) /\ NoChart = ChartFields(NoChart) /\ NoChart.pc = "idle"
  BY DEF DrawnInv, NoChart, ChartFields
<1>n. chart.pc # "idle" => NextFile \in chart.todo
  BY DEF DrawnInv, NextFile
<1>1. CASE ChartReads
  <2>1. chart' = ChartFields(chart') /\ chart'.todo = All
    BY <1>1 DEF ChartReads, NoChart, ChartFields
  <2> QED
    BY <1>1, <2>1, ThereAreCharts DEF ChartReads, DrawnInv
<1>2. CASE ChartStamps
  <2>1. chart' = NoChart \/ (chart' = ChartFields(chart') /\ chart'.todo = chart.todo)
    BY <1>2, <1>r DEF ChartStamps, ChartFields
  <2> QED
    BY <1>2, <1>r, <2>1 DEF ChartStamps, DrawnInv
<1>3. CASE Draws
  <2>1. \/ chart' = NoChart
        \/ /\ chart' = ChartFields(chart') /\ chart'.todo = chart.todo \ {NextFile}
           /\ chart.todo # {NextFile}
    BY <1>3, <1>r DEF Draws, ChartFields
  <2>2. DOMAIN graphs' \subseteq DOMAIN graphs \cup {NextFile}
    <3>1. graphs' = graphs \/ \E p : graphs' = Put(graphs, NextFile, p)
      BY <1>3 DEF Draws
    <3> QED
      BY <3>1, PutIn
  <2>3. chart.pc # "idle"
    BY <1>3 DEF Draws
  <2> QED
    BY <1>r, <1>n, <2>1, <2>2, <2>3 DEF DrawnInv
<1>4. CASE ChartKilled
  <2>1. DOMAIN graphs' \subseteq DOMAIN graphs \cup {NextFile}
    <3>1. graphs' = graphs \/ graphs' = Put(graphs, NextFile, Torn)
      BY <1>4 DEF ChartKilled
    <3> QED
      BY <3>1, PutIn
  <2> QED
    BY <1>4, <1>r, <1>n, <2>1 DEF ChartKilled, DrawnInv
<1>5. DoctorLooks \/ DoctorRecords \/ DoctorRefuses \/ RunBegins \/ RunEnds \/ Changes \/ Docs
        => UNCHANGED <<graphs, chart>>
  BY DEF DoctorLooks, DoctorRecords, DoctorRefuses, RunBegins, RunEnds, Changes, Docs, DocsStarts,
     DocsReadsHost, DocsReadsOutput, DocsReadsMemory, DocsWrites, DocsCompares, DocsReturns, DocsKilled
<1>6. CASE UNCHANGED <<graphs, chart>>
  BY <1>6 DEF DrawnInv, ChartFields
<1> QED
  BY <1>1, <1>2, <1>3, <1>4, <1>5, <1>6 DEF Next, Others, vars

\* Every chart of the list is under a section of one of the two indexes.
LEMMA Sectioned ==
  All \subseteq UNION {charts(section, pipeline, scale) :
                         section \in SECTIONS, pipeline \in PIPELINES, scale \in Scales}
<1>1. ASSUME NEW m \in Metrics, NEW p \in PIPELINES, NEW s \in Scales
      PROVE  \E section \in SECTIONS : Spec(m, p, s, "none") \in charts(section, p, s)
  <2>1. [slug |-> m.slug, percentile |-> m.percentile] \in SECTIONS
    BY DEF Metrics, Throughput, CpuCycles, Latency, SECTIONS
  <2> QED
    BY <2>1 DEF charts, plain
<1>2. Redraws(1) \subseteq charts([slug |-> "latency", percentile |-> "P99"], 1, "linear")
  BY DEF charts, hand_drawn
<1>3. [slug |-> "latency", percentile |-> "P99"] \in SECTIONS /\ 1 \in PIPELINES /\ "linear" \in Scales
  BY ChartsAssumption DEF SECTIONS, Scales
<1> QED
  BY <1>1, <1>2, <1>3 DEF All

\* What the index of a scale links is what there is under its sections.
LEMMA IndexHas ==
  ASSUME NEW scale, NEW d, NEW section \in SECTIONS, NEW pipeline \in PIPELINES
  PROVE  charts(section, pipeline, scale) \cap d.have \subseteq Indexed(Index(scale, d))
<1> DEFINE sections == [x \in SECTIONS \X PIPELINES |-> pictures(charts(x[1], x[2], scale), d.have)]
<1>1. Index(scale, d).sections = sections
  BY DEF Index
<1>2. <<section, pipeline>> \in DOMAIN sections
  OBVIOUS
<1>3. sections[<<section, pipeline>>] = pictures(charts(section, pipeline, scale), d.have)
  BY <1>2
<1>4. pictures(charts(section, pipeline, scale), d.have) \in Range(sections)
  <2> HIDE DEF sections
  <2> QED
    BY <1>2, <1>3 DEF Range
<1> HIDE DEF sections
<1> QED
  BY <1>1, <1>4 DEF Indexed, pictures

\* What a command wrote links, and counts, every chart it had listed.
LEMMA WrittenIsIndexed ==
  ASSUME Agreed(3, docs, documents), docs.have \subseteq All
  PROVE  LET indexed == Links("LINEAR.md") \cup Links("LOGARITHMIC.md")
         IN  /\ documents["README.md"].benchmarks.charts = Cardinality(indexed)
             /\ Links("README.md") \subseteq indexed
<1> DEFINE read == [have |-> docs.have, host |-> docs.host, profile |-> Profiles[docs.host.profile],
                    output |-> Outputs[docs.output], memory |-> docs.memory, notes |-> docs.notes,
                    compat |-> Said]
           indexed == Links("LINEAR.md") \cup Links("LOGARITHMIC.md")
<1>1. /\ documents["LOGARITHMIC.md"] = Index("logarithmic", read)
      /\ documents["LINEAR.md"] = Index("linear", read)
      /\ documents["README.md"] = Readme(read)
  <2>1. Names[1] = "LOGARITHMIC.md" /\ Names[2] = "LINEAR.md" /\ Names[3] = "README.md"
    BY DEF Names
  <2>2. \A i \in 1..3 : documents[Names[i]] = Page(Names[i], docs)
    BY DEF Agreed
  <2> QED
    BY <2>1, <2>2 DEF Page
<1>2. read.have = docs.have
  OBVIOUS
<1> HIDE DEF read
<1>3. indexed = Indexed(Index("linear", read)) \cup Indexed(Index("logarithmic", read))
  BY <1>1 DEF Links, LinksOf
<1>4. indexed \subseteq docs.have
  BY <1>2, <1>3, IndexLinks
<1>5. docs.have \subseteq indexed
  <2>1. SUFFICES ASSUME NEW s \in docs.have PROVE s \in indexed
    OBVIOUS
  <2>2. PICK section \in SECTIONS, pipeline \in PIPELINES, scale \in Scales :
          s \in charts(section, pipeline, scale)
    BY Sectioned
  <2>3. s \in Indexed(Index(scale, read))
    BY <1>2, <2>2, IndexHas
  <2> QED
    BY <1>3, <2>3 DEF Scales
<1>6. documents["README.md"].benchmarks.charts = Cardinality(docs.have)
  BY <1>1, <1>2 DEF Readme, benchmarks
<1>7. Links("README.md") \subseteq docs.have
  BY <1>1, <1>2, ReadmeLinks DEF Links, LinksOf
<1> QED
  BY <1>4, <1>5, <1>6, <1>7

\* The three documents that one command wrote count and link the same charts,
\* also when some are drawn meanwhile.
THEOREM EveryChartIndexed == DocumentsSpec => []EveryChartIsIndexed
<1>1. ASSUME LinksInv, DocsInv, DrawnInv PROVE EveryChartIsIndexed
  <2>1. CASE docs.pc = "written"
    <3>1. Agreed(3, docs, documents) /\ docs.have \subseteq All
      BY <1>1, <2>1 DEF DocsInv, Passed, LinksInv, Listed, DrawnInv
    <3> QED
      BY <3>1, WrittenIsIndexed DEF EveryChartIsIndexed
  <2> QED
    BY <2>1 DEF EveryChartIsIndexed
<1> QED
  BY <1>1, InitLinks, StepLinks, InitDocs, StepDocs, InitDrawn, StepDrawn, PTL DEF DocumentsSpec

-----------------------------------------------------------------------------
(***************************************************************************)
(* When the first run was, and what counters the host has.                 *)
(***************************************************************************)
\* A set of numbers that is not empty has a least.
LEMMA Least ==
  ASSUME NEW S, S \subseteq Nat, S # {}
  PROVE  Min(S) \in S /\ \A n \in S : Min(S) <= n
<1>1. PICK m \in S : \A n \in S : <<n, m>> \notin OpToRel(<, Nat)
  BY WFMin, NatLessThanWellFounded
<1>2. \A n \in S : ~(n < m)
  BY <1>1 DEF OpToRel
<1>3. \E x \in S : \A y \in S : x <= y
  BY <1>2
<1> QED
  BY <1>3, Zenon DEF Min

\* Runs start one at a time: the one under way is the last that was begun.
TimesInv ==
  /\ clock \in Nat \ {0} /\ flight \in Nat /\ flight < clock
  /\ runs \subseteq Nat \ {0} /\ (\A t \in runs : t < clock /\ (flight # 0 => t < flight))

\* From now on no run can be older than a time.
NoneBefore(time) ==
  time <= clock /\ (\A t \in runs : time <= t) /\ (flight # 0 => time <= flight)

\* A doctor has seen the first run, or there has been none since it looked.
DoctorInv ==
  /\ doctor = [pc |-> doctor.pc, profile |-> doctor.profile, box |-> doctor.box,
               span |-> doctor.span, alone |-> doctor.alone]
  /\ doctor.pc = "record" =>
       /\ doctor.span \subseteq Nat
       /\ doctor.alone /\ doctor.span # {} => NoneBefore(Min(doctor.span))
       /\ doctor.alone /\ doctor.span = {} => runs = {} /\ flight = 0
       /\ Counts(Profiles[doctor.profile], pmu(doctor.box))

\* The record has the time of the first run, and counters if its profile needs them.
Counted(h) == h.facts["pmu"] = "absent" => TRUE \notin Profiles[h.profile].perf
HostInv ==
  /\ host.there /\ host.alone => host.started \in Nat /\ NoneBefore(host.started)
  /\ host.there => Counted(host)

RunsInv == TimesInv /\ DoctorInv /\ HostInv

\* The pmu of a record says whether the machine counts.
LEMMA Describes ==
  ASSUME NEW h, NEW counters, NEW memtier
  PROVE  describe(h, counters, memtier)["pmu"] = IF counters.counted THEN "present" ELSE "absent"
  BY DEF describe

LEMMA InitRuns == Init => RunsInv
<1> SUFFICES ASSUME Init PROVE RunsInv
  OBVIOUS
<1>1. TimesInv /\ DoctorInv
  BY DEF Init, TimesInv, DoctorInv, NoDoctor
<1>2. PICK w \in (DOMAIN Profiles) \X Boxes :
        /\ Fits(w[1], w[2], FALSE)
        /\ host = [there |-> TRUE, profile |-> w[1],
                   facts |-> describe(probe(w[2]), pmu(w[2]), w[2].memtier),
                   started |-> 0, finished |-> 0, alone |-> FALSE]
  BY DEF Init, Described
<1>3. Counts(Profiles[w[1]], pmu(w[2]))
  BY <1>2 DEF Fits, check
<1>4. /\ host.alone = FALSE /\ host.profile = w[1]
      /\ host.facts = describe(probe(w[2]), pmu(w[2]), w[2].memtier)
  BY <1>2
<1>5. Counted(host)
  <2>1. host.facts["pmu"] = IF pmu(w[2]).counted THEN "present" ELSE "absent"
    BY <1>4, Describes
  <2>2. host.facts["pmu"] = "absent" => ~pmu(w[2]).counted
    BY <2>1
  <2> QED
    BY <1>3, <1>4, <2>2 DEF Counted, Counts
<1> QED
  BY <1>1, <1>4, <1>5 DEF RunsInv, HostInv

LEMMA StepRuns == RunsInv /\ [Next]_vars => RunsInv'
<1> SUFFICES ASSUME RunsInv, [Next]_vars PROVE RunsInv'
  OBVIOUS
<1>i. TimesInv /\ DoctorInv /\ HostInv
  BY DEF RunsInv
<1>1. CASE UNCHANGED <<machine, host, doctor>>
  BY <1>i, <1>1 DEF machine, RunsInv, TimesInv, DoctorInv, HostInv, NoneBefore, Counted
<1>2. CASE DoctorLooks
  <2>1. PICK p, box :
          /\ Fits(p, box, span # {})
          /\ doctor' = [pc |-> "record", profile |-> p, box |-> box, span |-> span,
                        alone |-> runs # {} \/ flight = 0]
    BY <1>2 DEF DoctorLooks
  <2>2. UNCHANGED <<machine, host>>
    BY <1>2 DEF DoctorLooks
  <2>3. Counts(Profiles[p], pmu(box))
    BY <2>1 DEF Fits, check
  <2>4. runs # {} => NoneBefore(Min(runs))
    <3>1. SUFFICES ASSUME runs # {} PROVE NoneBefore(Min(runs))
      OBVIOUS
    <3>2. Min(runs) \in runs /\ \A t \in runs : Min(runs) <= t
      BY <1>i, <3>1, Least DEF TimesInv
    <3> DEFINE first == Min(runs)
    <3>3. first \in Nat /\ first < clock /\ (flight # 0 => first < flight)
      BY <1>i, <3>2 DEF TimesInv
    <3>4. \A t \in runs : first <= t
      BY <3>2
    <3> HIDE DEF first
    <3>5. NoneBefore(first)
      BY <1>i, <3>3, <3>4 DEF NoneBefore, TimesInv
    <3> QED
      BY <3>5 DEF first
  <2>5. DoctorInv'
    <3>1. doctor'.span = runs /\ (doctor'.alone <=> runs # {} \/ flight = 0) /\ doctor'.profile = p
          /\ doctor'.box = box
      BY <2>1 DEF span
    <3>2. doctor'.alone /\ doctor'.span # {} => NoneBefore(Min(doctor.span))'
      BY <2>2, <2>4, <3>1 DEF NoneBefore, machine
    <3>3. doctor'.alone /\ doctor'.span = {} => runs' = {} /\ flight' = 0
      BY <2>2, <3>1 DEF machine
    <3>4. doctor' = [pc |-> doctor'.pc, profile |-> doctor'.profile, box |-> doctor'.box,
                     span |-> doctor'.span, alone |-> doctor'.alone]
      BY <2>1
    <3>5. doctor'.span \subseteq Nat /\ Counts(Profiles[doctor'.profile], pmu(doctor'.box))
      BY <1>i, <2>3, <3>1 DEF TimesInv
    <3> QED
      BY <3>2, <3>3, <3>4, <3>5 DEF DoctorInv
  <2> QED
    BY <1>i, <2>2, <2>5 DEF RunsInv, TimesInv, HostInv, NoneBefore, machine
<1>3. CASE DoctorRecords
  <2>1. UNCHANGED machine /\ doctor' = NoDoctor /\ doctor.pc = "record"
    BY <1>3 DEF DoctorRecords
  <2>2. CASE host' = NoHost
    BY <1>i, <2>1, <2>2 DEF RunsInv, TimesInv, DoctorInv, HostInv, NoneBefore, machine, NoDoctor, NoHost
  <2>3. CASE host' = Record(doctor)
    <3>1. /\ host'.profile = doctor.profile /\ host'.alone = doctor.alone
          /\ host'.facts = describe(probe(doctor.box), pmu(doctor.box), doctor.box.memtier)
          /\ host'.started = IF doctor.span = {} THEN clock ELSE Min(doctor.span)
      BY <2>3 DEF Record
    <3>2. Counted(host')
      BY <1>i, <2>1, <3>1, Describes DEF DoctorInv, Counted, Counts
    <3>3. doctor.alone => host'.started \in Nat /\ NoneBefore(host'.started)
      <4>1. CASE doctor.span = {}
        BY <1>i, <2>1, <3>1, <4>1 DEF DoctorInv, TimesInv, NoneBefore
      <4>2. CASE doctor.span # {}
        <5>1. Min(doctor.span) \in Nat
          BY <1>i, <2>1, <4>2, Least DEF DoctorInv
        <5> QED
          BY <1>i, <2>1, <3>1, <4>2, <5>1 DEF DoctorInv
      <4> QED
        BY <4>1, <4>2
    <3> QED
      BY <1>i, <2>1, <3>1, <3>2, <3>3
      DEF RunsInv, TimesInv, DoctorInv, HostInv, NoneBefore, Counted, machine, NoDoctor
  <2> QED
    BY <1>3, <2>2, <2>3 DEF DoctorRecords
<1>4. CASE DoctorRefuses
  BY <1>4, <1>i DEF DoctorRefuses, RunsInv, TimesInv, DoctorInv, HostInv, NoneBefore, Counted, machine,
     NoDoctor
<1>5. CASE RunBegins
  <2>1. /\ runs' = runs /\ flight = 0 /\ flight' = clock /\ clock' = clock + 1 /\ host' = host
        /\ doctor' = [doctor EXCEPT !.alone = @ /\ doctor.span # {}]
    BY <1>5 DEF RunBegins
  <2>2. TimesInv'
    BY <1>i, <2>1 DEF TimesInv
  <2>3. \A time \in Nat : NoneBefore(time) => NoneBefore(time)'
    BY <1>i, <2>1 DEF NoneBefore, TimesInv
  <2>4. DoctorInv'
    <3>1. PICK alone \in BOOLEAN : (alone <=> doctor.alone /\ doctor.span # {})
                                   /\ doctor' = [doctor EXCEPT !.alone = alone]
      <4>1. doctor' = [doctor EXCEPT !.alone = (doctor.alone /\ doctor.span # {})]
        BY <2>1
      <4> QED
        BY <4>1, Zenon
    <3>2. /\ doctor' = [pc |-> doctor'.pc, profile |-> doctor'.profile, box |-> doctor'.box,
                        span |-> doctor'.span, alone |-> doctor'.alone]
          /\ doctor'.pc = doctor.pc /\ doctor'.profile = doctor.profile /\ doctor'.box = doctor.box
          /\ doctor'.span = doctor.span /\ (doctor'.alone <=> doctor.alone /\ doctor.span # {})
      BY <1>i, <3>1 DEF DoctorInv
    <3>3. doctor.pc = "record" /\ doctor.span # {} => Min(doctor.span) \in Nat
      BY <1>i, Least DEF DoctorInv
    <3>4. doctor'.pc = "record" /\ doctor'.alone /\ doctor'.span # {} => NoneBefore(Min(doctor.span))'
      BY <1>i, <2>1, <3>2, <3>3 DEF DoctorInv, NoneBefore, TimesInv
    <3> QED
      BY <1>i, <3>2, <3>4 DEF DoctorInv
  <2> QED
    BY <1>i, <2>1, <2>2, <2>3, <2>4 DEF RunsInv, HostInv, Counted
<1>6. CASE RunEnds
  <2>1. /\ runs' \subseteq runs \cup {flight} /\ flight # 0 /\ flight' = 0 /\ clock' = clock
        /\ host' = host /\ doctor' = doctor
    BY <1>6 DEF RunEnds
  <2>2. TimesInv'
    BY <1>i, <2>1 DEF TimesInv
  <2>3. \A time \in Nat : NoneBefore(time) => NoneBefore(time)'
    BY <1>i, <2>1 DEF NoneBefore, TimesInv
  <2>4. DoctorInv'
    BY <1>i, <2>1 DEF DoctorInv, NoneBefore, TimesInv
  <2> QED
    BY <1>i, <2>1, <2>2, <2>3, <2>4 DEF RunsInv, HostInv, Counted
<1>7. ChartReads \/ ChartStamps \/ Draws \/ ChartKilled \/ Changes \/ Docs
        => UNCHANGED <<machine, host, doctor>>
  BY DEF ChartReads, ChartStamps, Draws, ChartKilled, Changes, Docs, DocsStarts,
     DocsReadsHost, DocsReadsOutput, DocsReadsMemory, DocsWrites, DocsCompares, DocsReturns, DocsKilled
<1> QED
  BY <1>1, <1>2, <1>3, <1>4, <1>5, <1>6, <1>7 DEF Next, Others, vars

\* `--write` before the sweep, in the middle of it or after it makes no
\* difference to "First run started".
THEOREM FirstRun == DocumentsSpec => []FirstRunIsFirst
<1>1. RunsInv => FirstRunIsFirst
  BY DEF RunsInv, HostInv, NoneBefore, FirstRunIsFirst
<1> QED
  BY <1>1, InitRuns, StepRuns, PTL DEF DocumentsSpec

\* The host a command of docs has read is one that was written down, and so is
\* that of a README.
ReadmeInv ==
  /\ docs.pc \notin {"idle", "host"} => Counted(docs.host)
  /\ CountersAreThere

LEMMA InitReadme == Init => ReadmeInv
  BY DEF Init, NoDocs, ReadmeInv, CountersAreThere, Written

LEMMA ReadmeCounts ==
  ASSUME NEW d, Counted(d.host)
  PROVE  LET page == Page("README.md", d)
         IN  page.bullets.cycles = "no PMU" => TRUE \notin Profiles[page.hardware.profile].perf
<1> DEFINE read == [have |-> d.have, host |-> d.host, profile |-> Profiles[d.host.profile],
                    output |-> Outputs[d.output], memory |-> d.memory, notes |-> d.notes,
                    compat |-> Said]
<1>1. Page("README.md", d) = Readme(read)
  BY DEF Page
<1>2. read.host = d.host
  OBVIOUS
<1> HIDE DEF read
<1>3. Readme(read).bullets.cycles = cycles_bullet(read) /\ Readme(read).hardware.profile = d.host.profile
  BY <1>2 DEF Readme, bullets, hardware
<1>4. cycles_bullet(read) = "no PMU" => d.host.facts.pmu = "absent"
  BY <1>2 DEF cycles_bullet
<1> QED
  BY <1>1, <1>3, <1>4 DEF Counted

LEMMA StepReadme == ReadmeInv /\ HostInv /\ DocsInv /\ [Next]_vars => ReadmeInv'
<1> SUFFICES ASSUME ReadmeInv, HostInv, DocsInv, [Next]_vars PROVE ReadmeInv'
  OBVIOUS
<1>r. docs = DocsFields(docs)
  BY DEF DocsInv, DocsOK
<1>k. UNCHANGED documents => CountersAreThere'
  BY DEF ReadmeInv, CountersAreThere, Written
<1>1. CASE Others /\ Beside
  <2>1. documents' = documents
    BY <1>1, OthersAdd DEF Adds
  <2>2. docs'.pc = docs.pc /\ docs'.host = docs.host
    BY <1>1, <1>r DEF Beside, DocsFields
  <2> QED
    BY <1>k, <2>1, <2>2 DEF ReadmeInv, Counted
<1>2. CASE DocsStarts \/ DocsReadsHost \/ DocsReadsOutput \/ DocsReadsMemory \/ DocsCompares \/ DocsReturns
  <2>1. documents' = documents
    BY <1>2 DEF DocsStarts, DocsReadsHost, DocsReadsOutput, DocsReadsMemory, DocsCompares, DocsReturns
  <2>2. \/ docs'.pc \in {"idle", "host"}
        \/ docs.pc = "host" /\ host.there /\ docs'.host = host
        \/ docs.pc \notin {"idle", "host"} /\ docs'.host = docs.host
    <3>z. NoDocs.pc = "idle"
      BY DEF NoDocs
    <3>1. CASE DocsStarts
      BY <3>1 DEF DocsStarts, NoDocs
    <3>2. CASE DocsReadsHost
      BY <3>2, <3>z, <1>r DEF DocsReadsHost, DocsRefused, DocsFields
    <3>3. CASE DocsReadsOutput \/ DocsReadsMemory \/ DocsReturns
      BY <3>3, <3>z, <1>r DEF DocsReadsOutput, DocsReadsMemory, DocsReturns, DocsRefused, DocsFields
    <3>4. CASE DocsCompares
      <4>1. docs.pc = "compare"
        BY <3>4 DEF DocsCompares
      <4>2. docs'.host = docs.host \/ docs' = NoDocs
        BY <3>4, <1>r, Compared DEF DocsFields
      <4> QED
        BY <4>1, <4>2, <3>z
    <3> QED
      BY <1>2, <3>1, <3>2, <3>3, <3>4
  <2> QED
    BY <1>k, <2>1, <2>2 DEF ReadmeInv, HostInv, Counted
<1>3. CASE DocsWrites
  <2>1. /\ docs.pc = "write" /\ docs'.host = docs.host
        /\ documents' = Put(documents, Names[docs.at], Page(Names[docs.at], docs))
    BY <1>3, <1>r DEF DocsWrites, DocsFields
  <2>2. Counted(docs.host)
    BY <2>1 DEF ReadmeInv
  <2>3. CountersAreThere'
    <3>1. CASE Names[docs.at] = "README.md"
      <4>1. documents'["README.md"] = Page("README.md", docs)
        BY <2>1, <3>1, PutIn
      <4> QED
        BY <2>2, <4>1, ReadmeCounts DEF CountersAreThere
    <3>2. CASE Names[docs.at] # "README.md"
      <4>1. "README.md" \in DOMAIN documents' =>
              "README.md" \in DOMAIN documents /\ documents'["README.md"] = documents["README.md"]
        BY <2>1, <3>2, PutElsewhere
      <4> QED
        BY <4>1 DEF ReadmeInv, CountersAreThere, Written
    <3> QED
      BY <3>1, <3>2
  <2> QED
    BY <2>1, <2>2, <2>3 DEF ReadmeInv, Counted
<1>4. CASE DocsKilled
  <2>1. docs'.pc = "idle"
    BY <1>4 DEF DocsKilled, NoDocs
  <2>2. CountersAreThere'
    <3>1. CASE documents' = documents
      BY <1>k, <3>1
    <3>2. CASE documents' = Put(documents, Names[docs.at], Torn)
      <4>1. "README.md" \in Written' =>
              "README.md" \in Written /\ documents'["README.md"] = documents["README.md"]
        BY <3>2, PutIn, PutElsewhere DEF Written
      <4> QED
        BY <4>1 DEF ReadmeInv, CountersAreThere
    <3> QED
      BY <1>4, <3>1, <3>2 DEF DocsKilled
  <2> QED
    BY <2>1, <2>2 DEF ReadmeInv
<1>5. CASE UNCHANGED vars
  BY <1>5, <1>k DEF vars, ReadmeInv, Counted
<1> QED
  BY <1>1, <1>2, <1>3, <1>4, <1>5 DEF Next, Docs

\* No README says that the host has no counters of a profile that sweeps with
\* them, whatever the machine said to a later doctor.
THEOREM CountersThere == DocumentsSpec => []CountersAreThere
<1>1. ReadmeInv => CountersAreThere
  BY DEF ReadmeInv
<1>2. Init => ReadmeInv /\ RunsInv /\ DocsInv
  BY InitReadme, InitRuns, InitDocs
<1>3. (ReadmeInv /\ RunsInv /\ DocsInv) /\ [Next]_vars => (ReadmeInv /\ RunsInv /\ DocsInv)'
  BY StepReadme, StepRuns, StepDocs DEF RunsInv
<1> QED
  BY <1>1, <1>2, <1>3, PTL DEF DocumentsSpec

=============================================================================
