------------------------------ MODULE Campaign ------------------------------
(***************************************************************************)
(* What a sweep promises, without how it goes about it: the matrix is a    *)
(* set and not a plan with a place in it, an attempt is one step, and a    *)
(* file is whole or it is not.  SweepRefines shows that module Sweep    *)
(* implements it, run files that are torn, failure files that are lost,    *)
(* kills and cells measured by hand included.                              *)
(*                                                                         *)
(* The promise: a session owes an attempt to each unmeasured cell it was   *)
(* asked for that has tries left; it attempts a cell once, and only a cell *)
(* it owes; it leaves one unattempted only when its engine was put down,   *)
(* which GIVE_UP of that engine's own cells and no measurement of it must  *)
(* justify; it reports on the matrix only when it owes nothing; and it     *)
(* never takes a measurement away.                                         *)
(***************************************************************************)
EXTENDS Integers, FiniteSets

CONSTANTS
  Cells,    \* the matrix: records with the engine under `cache`
  Engines,  \* the cache servers
  TRIES,    \* attempts a cell gets
  GIVE_UP   \* failed cells that put an engine down

VARIABLES
  results, \* the cells with a measurement on the disk
  counted,  \* the failed attempts of each cell, as the session counts them
  kept,     \* the same, as the disk has them
  asked,    \* the engines of the session, none between sessions
  owed,     \* the cells the session still owes an attempt
  down,     \* the engines the session put down
  verdict   \* what the last session said of the matrix

campaign == <<results, counted, kept, asked, owed, down, verdict>>

Untried == [c \in Cells |-> 0]

Init ==
  /\ results = {} /\ counted = Untried /\ kept = Untried
  /\ asked = {} /\ owed = {} /\ down = {} /\ verdict = "none"

\* A session takes up the counts on the disk, or starts them again.
Begin(mine, past) ==
  /\ asked = {}
  /\ counted' = [c \in Cells |->
                   IF c \in results /\ c.cache \in mine THEN 0 ELSE past[c]]
  /\ owed' = {c \in Cells \ results : c.cache \in mine /\ counted'[c] < TRIES}
  /\ asked' = mine /\ down' = {} /\ verdict' = "none"
  /\ UNCHANGED <<results, kept>>

Succeed(c) ==
  /\ c \in owed /\ c.cache \notin down
  /\ results' = results \cup {c}
  /\ counted' = [counted EXCEPT ![c] = 0]
  /\ owed' = owed \ {c}
  /\ UNCHANGED <<kept, asked, down, verdict>>

\* What putting engine e down takes, by the counts of the session.
Hopeless(e, count) ==
  /\ Cardinality({c \in Cells : c.cache = e /\ count[c] > 0}) >= GIVE_UP
  /\ \A c \in results : c.cache = e => count[c] > 0

\* A file that was written and not known to be synced counts as a failure,
\* until the next session finds it.
Fail(c) ==
  /\ c \in owed /\ c.cache \notin down
  /\ results' = results \/ results' = results \cup {c}
  /\ counted' = [counted EXCEPT ![c] = @ + 1]
  /\ owed' = owed \ {c}
  /\ \/ down' = down
     \/ down' = down \cup {c.cache} /\ Hopeless(c.cache, counted')
  /\ UNCHANGED <<kept, asked, verdict>>

Pass(c) ==
  /\ c \in owed /\ c.cache \in down
  /\ owed' = owed \ {c}
  /\ UNCHANGED <<results, counted, kept, asked, down, verdict>>

\* The counts reach the disk, or the file they were in is lost.
Save ==
  /\ asked # {}
  /\ kept' = counted \/ kept' = Untried
  /\ UNCHANGED <<results, counted, asked, owed, down, verdict>>

Over(says) ==
  /\ asked # {}
  /\ verdict' = says
  /\ asked' = {} /\ counted' = Untried /\ owed' = {} /\ down' = {}
  /\ UNCHANGED <<results, kept>>

Finish == owed = {} /\ Over(IF counted = Untried /\ down = {} THEN "ok" ELSE "missing")

\* Killed, or the machine did not come to rest.
Stop == Over("none")

\* Between sessions: a cell measured by hand, whose file an operator may also
\* spend, or a command that is turned away.
ByHand(c) ==
  /\ asked = {}
  /\ results' = results \/ results' = results \cup {c} \/ results' = results \ {c}
  /\ verdict' = "none"
  /\ UNCHANGED <<counted, kept, asked, owed, down>>

TurnedAway ==
  /\ asked = {}
  /\ verdict' = "none"
  /\ UNCHANGED <<results, counted, kept, asked, owed, down>>

Next ==
  \/ \E mine \in (SUBSET Engines) \ {{}}, past \in {kept, Untried} : Begin(mine, past)
  \/ \E c \in Cells : Succeed(c) \/ Fail(c) \/ Pass(c) \/ ByHand(c)
  \/ Save \/ Finish \/ Stop \/ TurnedAway

Spec == Init /\ [][Next]_campaign

=============================================================================
