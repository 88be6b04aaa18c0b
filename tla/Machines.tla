------------------------------ MODULE Machines ------------------------------
(***************************************************************************)
(* What a machine says about itself (crates/cache-bench/src/host.rs and    *)
(* cb-perf/src/probe.rs), whether it can run a profile (doctor.rs, run.rs) *)
(* and the record of it in host.json (cb-core/src/machine.rs).             *)
(*                                                                         *)
(* A machine is what its kernel publishes: for each source what it says,   *)
(* or Silent.  Loads are in tenths.                                        *)
(***************************************************************************)
EXTENDS Integers, Sequences, FiniteSetsExt, Functions

CONSTANTS
  Silent,     \* what a source that is not there says
  BUSY,       \* 1.0: the load average above which a machine is not quiet
  PARANOID    \* 2: the highest perf_event_paranoid that can count a process

Or(fact, other) == IF fact = Silent THEN other ELSE fact

(***************************************************************************)
(* host::probe.                                                            *)
(***************************************************************************)
\* A counter of /proc/meminfo in any unit but its own is not one.
meminfo(machine, key) ==
  IF machine.meminfo = Silent \/ machine.meminfo[key].unit # "kB" THEN Silent
  ELSE machine.meminfo[key].n

\* The files of the vulnerabilities: how many, and which are left open.
mitigations(machine) ==
  IF machine.vulnerabilities = Silent \/ DOMAIN machine.vulnerabilities = {} THEN Silent
  ELSE [known |-> Cardinality(DOMAIN machine.vulnerabilities),
        open  |-> {v \in DOMAIN machine.vulnerabilities : machine.vulnerabilities[v] = "Vulnerable"}]

probe(machine) ==
  [kernel |-> machine.uname, distro |-> machine.pretty_name,
   cpu_model |-> Or(machine.lscpu, machine.cpuinfo), cpus |-> machine.cpus,
   memory |-> meminfo(machine, "MemTotal"), available |-> meminfo(machine, "MemAvailable"),
   governor |-> machine.scaling_governor, mitigations |-> mitigations(machine),
   load |-> machine.loadavg]

\* cb_perf::probe: a source of events, a setting that allows it, and a perf
\* that counts cycles.
pmu(machine) ==
  [counted |-> /\ machine.sources \cap {"cpu", "cpu_core"} # {}
               /\ machine.paranoid # Silent => machine.paranoid <= PARANOID
               /\ machine.perf = "counted"]

(***************************************************************************)
(* doctor::check.                                                          *)
(***************************************************************************)
HasTheCores(profile, host) == host.cpus # Silent => profile.cores <= host.cpus

\* Mutant: the counters are looked for when there are any.
CountsIfItCan(profile, counters) == TRUE

Counts(profile, counters) == TRUE \in profile.perf => counters.counted

HasTheMemory(profile, host) ==
  host.available # Silent => host.available >= 2 * profile.working_set
IsQuiet(host, measured) == host.load # Silent /\ ~measured => host.load <= BUSY

check(profile, host, counters, memtier, measured) ==
  /\ HasTheCores(profile, host)
  /\ memtier # Silent
  /\ Counts(profile, counters)
  /\ HasTheMemory(profile, host)
  /\ IsQuiet(host, measured)

(***************************************************************************)
(* doctor::record: what is not published is not written down, but for the  *)
(* governor.  Nothing in it may name the machine.                          *)
(***************************************************************************)
Needed == {"kernel", "distro", "cpu_model", "cpus", "memory", "mitigations"}

Describable(host) == \A fact \in Needed : host[fact] # Silent

\* Machine::check_anonymous: the names in hosts.toml.
check_anonymous(host, memtier, named) ==
  {host.kernel, host.distro, host.cpu_model, memtier} \cap named = {}

describe(host, counters, memtier) ==
  [fact \in Needed \cup {"governor", "pmu", "memtier"} |->
     CASE fact = "governor" -> Or(host.governor, "absent")
       [] fact = "pmu"      -> IF counters.counted THEN "present" ELSE "absent"
       [] fact = "memtier"  -> memtier
       [] OTHER             -> host[fact]]

(***************************************************************************)
(* hosts.toml: absent, or every machine in it with a profile there is.     *)
(***************************************************************************)
check_against(hosts, profiles) == \A name \in DOMAIN hosts : hosts[name].profile \in profiles

names_of(hosts) == DOMAIN hosts \cup ({hosts[n].ssh : n \in DOMAIN hosts} \ {"local"})

=============================================================================
