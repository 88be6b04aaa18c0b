------------------------------ MODULE Pictures ------------------------------
(***************************************************************************)
(* One picture being drawn (cb-chart's Corpus::new, Corpus::chart,         *)
(* Axis::new and draw): any chart of the list, from an output.json.        *)
(***************************************************************************)
EXTENDS Charts

CONSTANTS
  Corpora,   \* the files, sequences of entries
  Modes      \* what --compat may be

VARIABLES
  corpus, mode,
  drawn      \* nothing yet, no picture and why, or a chart and its picture
pictureVars == <<corpus, mode, drawn>>

\* What was read where a number is due is one, and makes a bar that can be
\* plotted; the operations are what the cycles are divided by.
Plottable(v) == v <= 10 ^ MOST

Legible(entries) ==
  /\ DOMAIN entries = 1..Len(entries) /\ Len(entries) \in Nat
  /\ \A i \in DOMAIN entries :
       /\ entries[i].threads \in Nat /\ entries[i].operations \in Nat \ {0} /\ entries[i].cycles \in Nat
       /\ Plottable(PerOperation(entries[i].cycles, entries[1].operations))
       /\ \A w \in Which :
            /\ entries[i].opsec[w] \in Nat /\ Plottable(Kops(entries[i].opsec[w]))
            /\ \A p \in PERCENTILES : entries[i].latency[w][p] \in Nat /\ Plottable(Micros(entries[i].latency[w][p]))

Blank == [is |-> "nothing yet"]

PicturesInit == corpus \in Corpora /\ mode \in Modes /\ drawn = Blank

Unreadable ==
  /\ drawn = Blank
  /\ BadCorpus(corpus)
  /\ drawn' = [is |-> "no corpus"]
  /\ UNCHANGED <<corpus, mode>>

Skips(spec) ==
  /\ drawn = Blank
  /\ ~BadCorpus(corpus) /\ Unscalable(spec.scale, Chart(corpus, mode, spec))
  /\ drawn' = [is |-> "no axis", spec |-> spec]
  /\ UNCHANGED <<corpus, mode>>

Draws(spec) ==
  /\ drawn = Blank
  /\ ~BadCorpus(corpus) /\ ~Unscalable(spec.scale, Chart(corpus, mode, spec))
  /\ drawn' = [is |-> "picture", spec |-> spec,
               picture |-> Render(spec.scale, Chart(corpus, mode, spec), Series(corpus), Groups(corpus))]
  /\ UNCHANGED <<corpus, mode>>

PicturesNext == Unreadable \/ \E spec \in All : Skips(spec) \/ Draws(spec)

-----------------------------------------------------------------------------
(***************************************************************************)
(* Properties.                                                             *)
(***************************************************************************)
\* render.rs, axis.rs: a picture reads as its numbers.  Of two measured values
\* the greater has the higher bar, none cut off by the top of the plot or lost below its bottom,
\* with the values of two engines any number of powers of ten apart; a bar is
\* over no other, stands in the plot and in its own group, in the order of the
\* legend; and every gridline is between two ticks, whose labels rise with them.
BarsRank ==
  drawn.is = "picture" =>
    LET is   == drawn.picture
        bars == is.bars
        place(bar) == Place(is.legend, bar[1])
    IN  /\ \A x, y \in DOMAIN bars :
             /\ NoPoint < bars[x].value /\ bars[x].value < bars[y].value
                  => bars[x].height < bars[y].height
             /\ x[2] < y[2] \/ (x[2] = y[2] /\ place(x) < place(y))
                  => bars[x].x0 + BAR_WIDTH <= bars[y].x0
        /\ \A x \in DOMAIN bars : bars[x].x0 \in 0..(UNIT * Len(is.labels) - BAR_WIDTH)
        /\ \A t, u \in is.axis.ticks : t.at < u.at => t.label <= u.label
        /\ \A l \in is.axis.lines :
             (\E t \in is.axis.ticks : t.at < l) /\ (\E t \in is.axis.ticks : l < t.at)

=============================================================================
