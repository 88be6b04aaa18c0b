------------------------------- MODULE Doctor -------------------------------
(***************************************************************************)
(* `cache-bench doctor --deep` (crates/cache-bench/src/doctor.rs) beside   *)
(* `mem`: after its checks it starts every engine on the socket path and   *)
(* stops it again.  It takes no lock and does not look whether somebody    *)
(* answers on the path.  `--write` is in Documents.                        *)
(***************************************************************************)
EXTENDS Memory

VARIABLE doc   \* the command: where it is, the engines still to start, its
               \* server, and who has answered it

vars == <<memvars, doc>>

\* "own" is every answer so far from the server it started, "beside" that
\* another command was there too.
Nothing == [pc |-> "idle", kinds |-> <<>>, me |-> Nobody, answers |-> "own"]

Init == MemInit /\ doc = Nothing

At(pc) == doc' = [doc EXCEPT !.pc = pc]
Done == doc' = Nothing

\* The files are read, the machine is asked, and what does not fit the profile
\* is refused.
Checks ==
  /\ doc.pc = "idle"
  /\ doc' = [Nothing EXCEPT !.pc = "clear", !.kinds = ALL,
       !.answers = IF mem.pc # "idle" \/ \E g \in Groups : life[g] = "starting" THEN "beside" ELSE "own"]
  /\ UNCHANGED memvars

(***************************************************************************)
(* deep: clear, start, wait, stop, for each engine in turn.                *)
(***************************************************************************)
\* Mutant: whatever is at the path stays.
DeepStartsOver ==
  /\ doc.pc = "clear"
  /\ At("spawn")
  /\ UNCHANGED memvars

DeepClears ==
  /\ doc.pc = "clear"
  /\ Clears
  /\ At("spawn")
  /\ UNCHANGED <<mem, disk, faults>>

DeepSpawns(g) ==
  /\ doc.pc = "spawn"
  /\ Spawns(g, Head(doc.kinds))
  /\ doc' = [doc EXCEPT !.pc = "wait", !.me = g]
  /\ UNCHANGED <<mem, disk, faults>>

DeepAnswered ==
  /\ doc.pc = "wait"
  /\ Answering
  /\ doc' = [doc EXCEPT !.pc = "stop",
               !.answers = IF @ = "own" /\ socket # {doc.me} THEN "another's" ELSE @]
  /\ UNCHANGED memvars

DeepNotUp ==
  /\ doc.pc = "wait"
  /\ IF life[doc.me] = "zombie" THEN Reaps(doc.me) ELSE Falls(doc.me)
  /\ Done
  /\ UNCHANGED <<mem, disk, faults>>

DeepStops ==
  /\ doc.pc = "stop"
  /\ Falls(doc.me)
  /\ doc' = [doc EXCEPT !.pc = "unlink", !.me = Nobody]
  /\ UNCHANGED <<mem, disk, faults>>

DeepUnlinks ==
  /\ doc.pc = "unlink"
  /\ Clears
  /\ doc' = [doc EXCEPT !.kinds = Tail(@),
                        !.pc = IF Len(doc.kinds) > 1 THEN "clear" ELSE "done"]
  /\ UNCHANGED <<mem, disk, faults>>

Leaves ==
  /\ doc.pc = "done"
  /\ Done
  /\ UNCHANGED memvars

Doc ==
  \/ Checks \/ DeepClears \/ (\E g \in Groups : DeepSpawns(g)) \/ DeepAnswered
  \/ DeepNotUp \/ DeepStops \/ DeepUnlinks \/ Leaves

Beside == doc' = IF doc.pc = "idle" THEN doc ELSE [doc EXCEPT !.answers = "beside"]

Next ==
  \/ Mem /\ Beside
  \/ World /\ UNCHANGED <<mem, disk, faults, doc>>
  \/ Doc

Spec == Init /\ [][Next]_vars

-----------------------------------------------------------------------------
\* doctor.rs: what `--deep` calls up and answered was the engine it started,
\* whatever an earlier command left at the path, unless another command starts
\* servers at the same time.
DeepMeansAnswered == doc.pc = "done" => doc.answers # "another's"

=============================================================================
