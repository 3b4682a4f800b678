------------------------------- MODULE CpuSet -------------------------------
(***************************************************************************)
(* What a CPU set specification such as "1-4,^3,6" stands for, and what    *)
(* hardware.parse_cpu_spec promises about it: in one step, the set, or     *)
(* InvalidCPUSpec if some rule of it is malformed.                         *)
(*                                                                         *)
(* A rule is what stands between two commas, after strip(): nothing, a     *)
(* number or two numbers with a hyphen, and a caret or not.  A text that   *)
(* int() refuses is NaN.                                                   *)
(***************************************************************************)
EXTENDS Integers, Sequences

CONSTANTS
    Numbers,    \* the numbers that occur
    NaN,        \* a text that is not a number
    MaxRules    \* how many rules a specification has at most

Number == Numbers \cup {NaN}

Rule ==
    [kind : {"blank"}]
        \cup [kind : {"single"}, caret : BOOLEAN, start : Number]
        \cup [kind : {"range"}, caret : BOOLEAN, start : Number, end : Number]

Malformed(rule) ==
    \/ rule.kind = "single" /\ rule.start = NaN
    \/ rule.kind = "range" /\ (NaN \in {rule.start, rule.end} \/ rule.start > rule.end)

\* The CPUs a well-formed rule names.
Cpus(rule) ==
    CASE rule.kind = "blank" -> {}
      [] rule.kind = "single" -> {rule.start}
      [] rule.kind = "range" -> rule.start..rule.end

Excludes(rule) == rule.kind # "blank" /\ rule.caret

\* The CPUs named by the rules of s at the indices I, with or without a caret.
Named(s, I, caret) == UNION {Cpus(s[i]) : i \in {j \in I : Excludes(s[j]) = caret}}

WellFormed(s) == \A i \in DOMAIN s : ~Malformed(s[i])

\* The docstring: a CPU is excluded "from a previous range", so that a later
\* rule can include it again.
Documented(s) ==
    {c \in Named(s, DOMAIN s, FALSE) :
        \E i \in DOMAIN s :
            /\ ~Excludes(s[i]) /\ c \in Cpus(s[i])
            /\ \A j \in DOMAIN s : i < j /\ Excludes(s[j]) => c \notin Cpus(s[j])}

\* The code: an exclusion is from all the rules.
Denoted(s) == Named(s, DOMAIN s, FALSE) \ Named(s, DOMAIN s, TRUE)

\* No rule includes a CPU that a rule before it excludes.
InOrder(s) ==
    \A i, j \in DOMAIN s :
        i < j /\ Excludes(s[i]) /\ ~Excludes(s[j]) => Cpus(s[i]) \cap Cpus(s[j]) = {}

\* The sets that a caller has to expect: the documented one, and that of the
\* code too where an exclusion comes before what it excludes.
Readings(s) == IF InOrder(s) THEN {Documented(s)} ELSE {Documented(s), Denoted(s)}

-----------------------------------------------------------------------------
VARIABLES
    spec,       \* the specification parsed
    result      \* what the call has come to

Pending == [outcome |-> "pending", cpus |-> {}]
Returned(cpus) == [outcome |-> "returned", cpus |-> cpus]
InvalidCPUSpec == [outcome |-> "InvalidCPUSpec", cpus |-> {}]

Init ==
    /\ \E n \in 0..MaxRules : spec \in [1..n -> Rule]
    /\ result = Pending

Parse ==
    /\ result = Pending
    /\ result' \in IF WellFormed(spec) THEN {Returned(cpus) : cpus \in Readings(spec)}
                                       ELSE {InvalidCPUSpec}
    /\ UNCHANGED spec

Spec == Init /\ [][Parse]_<<spec, result>>
=============================================================================
