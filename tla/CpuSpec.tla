------------------------------ MODULE CpuSpec ------------------------------
(***************************************************************************)
(* hardware.parse_cpu_spec, rule by rule, and what the plugin does with    *)
(* the CPU sets it finds in libvirt's XML and in its own configuration.    *)
(***************************************************************************)
EXTENDS Integers, Sequences

CONSTANTS Numbers, NaN, MaxRules

VARIABLES
    spec,               \* the rules: spec.split(',')
    next,               \* the index of the next rule
    cpuset_ids,
    cpuset_reject_ids,
    pc                  \* "loop", "returned", or "raised" for InvalidCPUSpec

vars == <<spec, next, cpuset_ids, cpuset_reject_ids, pc>>

\* What the call has come to, for its caller.
result ==
    CASE pc = "loop" -> [outcome |-> "pending", cpus |-> {}]
      [] pc = "returned" -> [outcome |-> "returned", cpus |-> cpuset_ids]
      [] pc = "raised" -> [outcome |-> "InvalidCPUSpec", cpus |-> {}]

\* What the parser promises.
Promise == INSTANCE CpuSet

ASSUME CpuSpecAssumption == Numbers \subseteq Nat /\ NaN \notin Int /\ MaxRules \in Nat

TypeOK ==
    /\ spec \in Seq(Promise!Rule)
    /\ next \in 1..(Len(spec) + 1)
    /\ cpuset_ids \in SUBSET Nat
    /\ cpuset_reject_ids \in SUBSET Nat
    /\ pc \in {"loop", "returned", "raised"}

Init ==
    /\ \E n \in 0..MaxRules : spec \in [1..n -> Promise!Rule]
    /\ next = 1
    /\ cpuset_ids = {}
    /\ cpuset_reject_ids = {}
    /\ pc = "loop"

-----------------------------------------------------------------------------
(* The loop.                                                               *)

rule == spec[next]

\* The rule has had its effect on the two sets: on to the next.
Continue == pc = "loop" /\ next <= Len(spec) /\ next' = next + 1 /\ UNCHANGED <<spec, pc>>

Raise ==
    /\ pc = "loop" /\ next <= Len(spec)
    /\ pc' = "raised"
    /\ UNCHANGED <<spec, next, cpuset_ids, cpuset_reject_ids>>

Blank ==
    /\ Continue
    /\ rule.kind = "blank"
    /\ UNCHANGED <<cpuset_ids, cpuset_reject_ids>>

\* Mutant: an empty range is taken for no CPUs.
RangeUnchecked ==
    /\ Continue
    /\ rule.kind = "range"
    /\ NaN \notin {rule.start, rule.end}
    /\ IF rule.caret
       THEN /\ cpuset_reject_ids' = cpuset_reject_ids \cup rule.start..rule.end
            /\ UNCHANGED cpuset_ids
       ELSE /\ cpuset_ids' = cpuset_ids \cup rule.start..rule.end
            /\ UNCHANGED cpuset_reject_ids

Range ==
    /\ Continue
    /\ rule.kind = "range"
    /\ NaN \notin {rule.start, rule.end}
    /\ rule.start <= rule.end
    /\ IF rule.caret
       THEN /\ cpuset_reject_ids' = cpuset_reject_ids \cup rule.start..rule.end
            /\ UNCHANGED cpuset_ids
       ELSE /\ cpuset_ids' = cpuset_ids \cup rule.start..rule.end
            /\ UNCHANGED cpuset_reject_ids

BadRange ==
    /\ Raise
    /\ rule.kind = "range"
    /\ NaN \in {rule.start, rule.end} \/ rule.start > rule.end

\* Mutant: a single CPU replaces what was collected so far.
IncludeOnly ==
    /\ Continue
    /\ rule.kind = "single" /\ ~rule.caret /\ rule.start # NaN
    /\ cpuset_ids' = {rule.start}
    /\ UNCHANGED cpuset_reject_ids

Exclude ==
    /\ Continue
    /\ rule.kind = "single" /\ rule.caret /\ rule.start # NaN
    /\ cpuset_reject_ids' = cpuset_reject_ids \cup {rule.start}
    /\ UNCHANGED cpuset_ids

Include ==
    /\ Continue
    /\ rule.kind = "single" /\ ~rule.caret /\ rule.start # NaN
    /\ cpuset_ids' = cpuset_ids \cup {rule.start}
    /\ UNCHANGED cpuset_reject_ids

BadNumber ==
    /\ Raise
    /\ rule.kind = "single" /\ rule.start = NaN

\* After the loop the exclusions are taken out and the set is returned.
Return ==
    /\ pc = "loop" /\ next > Len(spec)
    /\ cpuset_ids' = cpuset_ids \ cpuset_reject_ids
    /\ pc' = "returned"
    /\ UNCHANGED <<spec, next, cpuset_reject_ids>>

Next == Blank \/ Range \/ BadRange \/ Exclude \/ Include \/ BadNumber \/ Return

Spec == Init /\ [][Next]_vars

-----------------------------------------------------------------------------
(* Properties.                                                             *)

(* The loop implements the promise of CpuSet: it raises if some rule is    *)
(* malformed, and else returns the set that the docstring describes.  Only *)
(* where a rule includes a CPU that an earlier one excludes may the CPU be *)
(* missing: the loop takes the exclusions out at the end, from later rules *)
(* too (hardware.py 88).                                                   *)
KeepsPromise == Promise!Spec

\* get_pinning_as_set parses every cpuset of a domain, and
\* get_host_pcpus_for_guest_vcpu their texts joined with commas.
PinningAsSet(cpusets) == UNION {Promise!Denoted(cpusets[i]) : i \in DOMAIN cpusets}

(* The two ways of reading the CPUs a domain is pinned to agree, wherever  *)
(* the text is cut into the cpusets of two vCPUs, unless there is an       *)
(* exclusion: then joining loses CPUs that another vCPU is pinned to.      *)
JoiningAgrees ==
    pc = "returned" =>
        \A k \in 0..Len(spec) :
            LET cpusets == <<SubSeq(spec, 1, k), SubSeq(spec, k + 1, Len(spec))>>
            IN  /\ cpuset_ids \subseteq PinningAsSet(cpusets)
                /\ (\A i \in DOMAIN spec : ~Promise!Excludes(spec[i]))
                       => cpuset_ids = PinningAsSet(cpusets)

-----------------------------------------------------------------------------
(* The inductive invariant behind KeepsPromise: how far the loop is.       *)

LoopInv ==
    /\ pc = "loop" =>
           /\ \A i \in 1..(next - 1) : ~Promise!Malformed(spec[i])
           /\ cpuset_ids = Promise!Named(spec, 1..(next - 1), FALSE)
           /\ cpuset_reject_ids = Promise!Named(spec, 1..(next - 1), TRUE)
    /\ pc = "returned" => Promise!WellFormed(spec) /\ cpuset_ids = Promise!Denoted(spec)
    /\ pc = "raised" => ~Promise!WellFormed(spec)
=============================================================================
