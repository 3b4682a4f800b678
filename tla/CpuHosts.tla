------------------------------ MODULE CpuHosts ------------------------------
(***************************************************************************)
(* The compute hosts that the CPU pinning tests run on, and what Nova puts *)
(* into the domain of a server it places there.                            *)
(*                                                                         *)
(* Every NUMA cell of a host offers the same number of CPUs for pinning    *)
(* and for sharing, as whitebox_hardware says; which CPUs these are        *)
(* differs between hosts, so that a set read from the wrong one is seen.   *)
(***************************************************************************)
EXTENDS Integers, FiniteSets, Functions, FiniteSetsExt

CONSTANTS
    Hosts,          \* host numbers; host h has its CPUs shifted by 2 * h
    Cells,          \* NUMA cells of every host
    MaxDedicated,   \* dedicated_cpus_per_numa is at most this
    MaxShared       \* shared_cpus_per_numa is at most this

ASSUME HostsAssumption ==
    /\ IsFiniteSet(Hosts) /\ Hosts # {} /\ Hosts \subseteq Nat
    /\ IsFiniteSet(Cells) /\ Cells # {} /\ Cells \subseteq Nat
    /\ MaxDedicated \in Nat /\ MaxShared \in Nat

VARIABLES
    conf,       \* what the deployment offers, and tempest.conf says it does
    unset,      \* the hosts where cpu_shared_set is deleted
    servers,    \* the servers of the test, in the order of their creation
    left        \* servers that could not be deleted: their hosts and CPUs

CellSize == 2 * (MaxDedicated + MaxShared + Cardinality(Hosts))

First(h, k) == CellSize * k + 2 * h

Dedicated(h, k) == First(h, k) .. (First(h, k) + conf.dedicated - 1)

Shared(h, k) ==
    IF h \in unset THEN {}
    ELSE (First(h, k) + conf.dedicated) .. (First(h, k) + conf.dedicated + conf.shared - 1)

\* compute.cpu_dedicated_set and compute.cpu_shared_set of a host.
cpu_dedicated_set(h) == UNION {Dedicated(h, k) : k \in Cells}

cpu_shared_set(h) == UNION {Shared(h, k) : k \in Cells}

\* The threads of a CPU's core.
Siblings(h, c) == IF h \in conf.smt THEN {2 * (c \div 2), 2 * (c \div 2) + 1} ELSE {c}

-----------------------------------------------------------------------------
(* A flavor says which vCPUs each guest cell has, which of them are pinned *)
(* and what becomes of the emulator threads.  A domain has, for each vCPU  *)
(* of a pinned server, the host CPUs in its vcpupin element; the CPUs of   *)
(* its emulatorpin elements; those of its iothreadpin element, as a set    *)
(* that is empty where there is no such element; the cpuset of its vcpu    *)
(* element; the number of its memnode elements; and the pins that Nova     *)
(* keeps in the numa_topology of its database.                             *)

\* `cells` is a function from the guest's cells to sets of vCPUs.
Vcpus(f) == UNION Range(f.cells)

\* Host CPUs that other servers on h have to themselves.
Used(h, others) ==
    UNION {s.domain.reserved : s \in {o \in others : o.host = h}}
    \cup UNION {s.reserved : s \in {o \in left : o.host = h}}

\* With guest cell g on host cell node[g].
Pinnings(h, f, node, others) ==
    LET used == Used(h, others)
        free == [g \in DOMAIN f.cells |-> Dedicated(h, node[g]) \ used]
    IN  {p \in [f.dedicated -> UNION Range(free)] :
            /\ IsInjective(p)
            /\ \A g \in DOMAIN f.cells : \A v \in f.cells[g] \cap f.dedicated : p[v] \in free[g]}

\* Every pinned vCPU has another thread of its core beside it.
OnSiblings(h, p) ==
    \A v \in DOMAIN p : Range(p) \cap (Siblings(h, p[v]) \ {p[v]}) # {}

ThreadPolicy(h, f, node, p, others) ==
    CASE f.threads = "isolate" ->
            \A v \in DOMAIN p :
                (Range(p) \cup Used(h, others)) \cap (Siblings(h, p[v]) \ {p[v]}) = {}
      [] f.threads = "require" -> OnSiblings(h, p)
      [] f.threads = "prefer" -> \/ OnSiblings(h, p)
                                 \/ \A q \in Pinnings(h, f, node, others) : ~OnSiblings(h, q)
      [] OTHER -> TRUE

\* The host CPUs that the emulator threads may be put on.
EmulatorPins(h, f, node, p, others) ==
    CASE f.emulator = "isolate" ->
            {{c} : c \in Dedicated(h, node[0]) \ (Used(h, others) \cup Range(p))}
      [] f.emulator = "share" /\ cpu_shared_set(h) # {} -> {cpu_shared_set(h)}
      [] OTHER -> {Range(p) \cup UNION {IF f.cells[g] \subseteq f.dedicated THEN {}
                                        ELSE Shared(h, node[g]) : g \in DOMAIN f.cells}}

PinnedDomain(f, p, e, node, h) ==
    LET pins == [v \in Vcpus(f) |->
                    IF v \in f.dedicated THEN {p[v]}
                    ELSE Shared(h, node[CHOOSE g \in DOMAIN f.cells : v \in f.cells[g]])]
    IN  [pins |-> pins, emulator |-> e, iothread |-> IF conf.iothreads THEN {e} ELSE {},
         cpuset |-> {}, memnodes |-> Cardinality(DOMAIN f.cells), db |-> Range(p),
         reserved |-> Range(p) \cup (IF f.emulator = "isolate" THEN e ELSE {})]

SharedDomain(h) ==
    [pins |-> [v \in {} |-> {}], emulator |-> {}, iothread |-> {},
     cpuset |-> cpu_shared_set(h), memnodes |-> 0, db |-> {}, reserved |-> {}]

\* What Nova may do with a server of flavor f on host h: guest cells go to
\* different host cells, pinned vCPUs to CPUs nobody has, the others float.
Domains(h, f, others) ==
    IF f.dedicated = {} THEN (IF cpu_shared_set(h) = {} THEN {} ELSE {SharedDomain(h)})
    ELSE UNION {UNION {{PinnedDomain(f, p, e, node, h) : e \in EmulatorPins(h, f, node, p, others)} :
                       p \in {q \in Pinnings(h, f, node, others) :
                                ThreadPolicy(h, f, node, q, others)}} :
                node \in {m \in [DOMAIN f.cells -> Cells] :
                            /\ IsInjective(m)
                            /\ \A g \in DOMAIN f.cells :
                                  f.cells[g] \subseteq f.dedicated \/ Shared(h, m[g]) # {}}}

-----------------------------------------------------------------------------
(* What a faulty Nova may do instead: leave the server unpinned, or pinned *)
(* though it should float, pin one vCPU to some other CPU, put the         *)
(* emulator threads or the iothread elsewhere, or keep something else in   *)
(* the database.                                                           *)

HostCpus(h) == cpu_dedicated_set(h) \cup cpu_shared_set(h)

Moved(d, v, c) ==
    [d EXCEPT !.pins[v] = {c}, !.db = UNION Range([d.pins EXCEPT ![v] = {c}])]

\* One CPU stands for all: the pins of d take every place around it.
Elsewhere(h, d) ==
    {{}, cpu_shared_set(h), UNION Range(d.pins)}
    \cup (IF conf.dedicated = 0 THEN {} ELSE {{Min(cpu_dedicated_set(h))}})

Faults(h, d) ==
    {SharedDomain(h)}
    \cup {[d EXCEPT !.pins = [v \in {0} |-> {c}]] :
              c \in IF DOMAIN d.pins = {} THEN cpu_dedicated_set(h) ELSE {}}
    \cup {Moved(d, v, c) : v \in DOMAIN d.pins, c \in HostCpus(h)}
    \cup {[d EXCEPT !.emulator = s] : s \in Elsewhere(h, d)}
    \cup (IF conf.iothreads
          THEN {[d EXCEPT !.iothread = i] : i \in {{}} \cup {{s} : s \in Elsewhere(h, d)}}
          ELSE {})
    \cup {[d EXCEPT !.cpuset = cpu_shared_set(g)] : g \in Hosts}
    \cup {[d EXCEPT !.db = s] : s \in Elsewhere(h, d)}
=============================================================================
