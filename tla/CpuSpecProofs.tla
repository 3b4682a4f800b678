--------------------------- MODULE CpuSpecProofs ---------------------------
(***************************************************************************)
(* parse_cpu_spec keeps the promise of CpuSet, for every specification:    *)
(* any number of rules, any numbers in them.                               *)
(***************************************************************************)
EXTENDS CpuSpec, TLAPS

Fits(r) ==
    /\ r.kind \in {"blank", "single", "range"}
    /\ r.kind # "blank" => r.caret \in BOOLEAN /\ r.start \in Numbers \cup {NaN}
    /\ r.kind = "range" => r.end \in Numbers \cup {NaN}

LEMMA RuleFields == \A r \in Promise!Rule : Fits(r)
BY DEF Promise!Rule, Promise!Number, Fits

(* What a well-formed rule names are CPU numbers.                          *)
LEMMA CpusType ==
    ASSUME NEW r \in Promise!Rule, ~Promise!Malformed(r)
    PROVE  Promise!Cpus(r) \in SUBSET Nat
<1>1. Fits(r) BY RuleFields
<1>2. CASE r.kind = "blank" BY <1>2 DEF Promise!Cpus
<1>3. CASE r.kind = "single"
    BY <1>1, <1>3, CpuSpecAssumption DEF Promise!Cpus, Promise!Malformed, Fits
<1>4. CASE r.kind = "range"
    <2>1. r.start \in Nat /\ r.end \in Nat
        BY <1>1, <1>4, CpuSpecAssumption DEF Promise!Malformed, Fits
    <2>2. Promise!Cpus(r) = r.start..r.end BY <1>4 DEF Promise!Cpus
    <2> QED BY <2>1, <2>2
<1> QED BY <1>1, <1>2, <1>3, <1>4 DEF Fits

(* One more rule names its CPUs, on the side it is on.                     *)
LEMMA NamedStep ==
    ASSUME NEW s \in Seq(Promise!Rule), NEW i \in 1..Len(s), NEW c \in BOOLEAN
    PROVE  Promise!Named(s, 1..i, c)
               = Promise!Named(s, 1..(i - 1), c)
                     \cup (IF Promise!Excludes(s[i]) = c THEN Promise!Cpus(s[i]) ELSE {})
<1>1. 1..i = 1..(i - 1) \cup {i} OBVIOUS
<1> QED BY <1>1 DEF Promise!Named

LEMMA NamedNone == ASSUME NEW s, NEW c PROVE Promise!Named(s, {}, c) = {}
BY DEF Promise!Named

(* A step to the next rule keeps the invariant if the rule is well formed  *)
(* and its CPUs went to the set they belong to.                            *)
LEMMA ContinueKeeps ==
    ASSUME TypeOK, LoopInv, Continue, ~Promise!Malformed(rule),
           cpuset_ids' = cpuset_ids
               \cup (IF Promise!Excludes(rule) = FALSE THEN Promise!Cpus(rule) ELSE {}),
           cpuset_reject_ids' = cpuset_reject_ids
               \cup (IF Promise!Excludes(rule) = TRUE THEN Promise!Cpus(rule) ELSE {})
    PROVE  TypeOK' /\ LoopInv'
<1>1. /\ spec \in Seq(Promise!Rule) /\ next \in 1..Len(spec) /\ pc = "loop"
      /\ spec' = spec /\ pc' = "loop" /\ next' = next + 1
    BY DEF TypeOK, Continue
<1>2. rule \in Promise!Rule BY <1>1 DEF rule
<1>3. Promise!Cpus(rule) \in SUBSET Nat BY <1>2, CpusType
<1>4. TypeOK'
    <2>1. cpuset_ids' \in SUBSET Nat BY <1>3 DEF TypeOK
    <2>2. cpuset_reject_ids' \in SUBSET Nat BY <1>3 DEF TypeOK
    <2>3. next' \in 1..(Len(spec') + 1) BY <1>1
    <2> QED BY <1>1, <2>1, <2>2, <2>3 DEF TypeOK
<1>5. /\ cpuset_ids' = Promise!Named(spec, 1..next, FALSE)
      /\ cpuset_reject_ids' = Promise!Named(spec, 1..next, TRUE)
    <2>1. /\ cpuset_ids = Promise!Named(spec, 1..(next - 1), FALSE)
          /\ cpuset_reject_ids = Promise!Named(spec, 1..(next - 1), TRUE)
        BY <1>1 DEF LoopInv
    <2>2. ASSUME NEW c \in BOOLEAN
          PROVE  Promise!Named(spec, 1..next, c)
                     = Promise!Named(spec, 1..(next - 1), c)
                           \cup (IF Promise!Excludes(rule) = c THEN Promise!Cpus(rule) ELSE {})
        BY <1>1, NamedStep DEF rule
    <2> QED BY <2>1, <2>2
<1>6. \A i \in 1..next : ~Promise!Malformed(spec[i])
    BY <1>1 DEF LoopInv, rule
<1>7. next' - 1 = next BY <1>1
<1> QED BY <1>1, <1>4, <1>5, <1>6, <1>7 DEF LoopInv

LEMMA RaiseKeeps ==
    ASSUME TypeOK, LoopInv, Raise, Promise!Malformed(rule)
    PROVE  TypeOK' /\ LoopInv'
<1>1. next \in DOMAIN spec BY DEF TypeOK, Raise
<1>2. ~Promise!WellFormed(spec) BY <1>1 DEF Promise!WellFormed, rule
<1> QED BY <1>2 DEF TypeOK, LoopInv, Raise

LEMMA ReturnKeeps ==
    ASSUME TypeOK, LoopInv, Return
    PROVE  TypeOK' /\ LoopInv'
<1>1. 1..(next - 1) = DOMAIN spec BY DEF TypeOK, Return
<1>2. Promise!WellFormed(spec) /\ cpuset_ids' = Promise!Denoted(spec)
    BY <1>1 DEF LoopInv, Return, Promise!WellFormed, Promise!Denoted
<1> QED BY <1>2 DEF TypeOK, LoopInv, Return

LEMMA LoopInit == Init => TypeOK /\ LoopInv
<1> SUFFICES ASSUME Init PROVE TypeOK /\ LoopInv OBVIOUS
<1>1. PICK n \in 0..MaxRules : spec \in [1..n -> Promise!Rule] BY DEF Init
<1>2. spec \in Seq(Promise!Rule) /\ Len(spec) \in Nat BY <1>1, CpuSpecAssumption
<1>3. 1..(next - 1) = {} BY DEF Init
<1>4. LoopInv BY <1>3, NamedNone DEF Init, LoopInv
<1> QED BY <1>2, <1>4 DEF Init, TypeOK

LEMMA LoopNext == TypeOK /\ LoopInv /\ [Next]_vars => TypeOK' /\ LoopInv'
<1> SUFFICES ASSUME TypeOK, LoopInv, [Next]_vars PROVE TypeOK' /\ LoopInv' OBVIOUS
<1>1. ASSUME Continue \/ Raise PROVE rule \in Promise!Rule /\ Fits(rule)
    BY <1>1, RuleFields DEF TypeOK, Continue, Raise, rule
<1>2. CASE Blank
    <2>1. ~Promise!Malformed(rule) /\ Promise!Cpus(rule) = {}
        BY <1>2 DEF Blank, Promise!Malformed, Promise!Cpus
    <2> QED BY <1>2, <2>1, ContinueKeeps DEF Blank
<1>3. CASE Range
    <2>1. ~Promise!Malformed(rule) /\ Promise!Cpus(rule) = rule.start..rule.end
        BY <1>1, <1>3, CpuSpecAssumption DEF Range, Promise!Malformed, Promise!Cpus, Fits
    <2>2. Promise!Excludes(rule) = rule.caret /\ rule.caret \in BOOLEAN
        BY <1>1, <1>3 DEF Range, Promise!Excludes, Fits
    <2> QED BY <1>3, <2>1, <2>2, ContinueKeeps DEF Range
<1>4. CASE BadRange
    BY <1>4, RaiseKeeps DEF BadRange, Promise!Malformed
<1>5. CASE Exclude
    <2>1. ~Promise!Malformed(rule) /\ Promise!Cpus(rule) = {rule.start}
        BY <1>5 DEF Exclude, Promise!Malformed, Promise!Cpus
    <2>2. Promise!Excludes(rule) = TRUE
        BY <1>1, <1>5 DEF Exclude, Promise!Excludes, Fits
    <2> QED BY <1>5, <2>1, <2>2, ContinueKeeps DEF Exclude
<1>6. CASE Include
    <2>1. ~Promise!Malformed(rule) /\ Promise!Cpus(rule) = {rule.start}
        BY <1>6 DEF Include, Promise!Malformed, Promise!Cpus
    <2>2. Promise!Excludes(rule) = FALSE
        BY <1>1, <1>6 DEF Include, Promise!Excludes, Fits
    <2> QED BY <1>6, <2>1, <2>2, ContinueKeeps DEF Include
<1>7. CASE BadNumber
    BY <1>7, RaiseKeeps DEF BadNumber, Promise!Malformed
<1>8. CASE Return BY <1>8, ReturnKeeps
<1>9. CASE UNCHANGED vars
    BY <1>9 DEF vars, TypeOK, LoopInv
<1> QED BY <1>2, <1>3, <1>4, <1>5, <1>6, <1>7, <1>8, <1>9 DEF Next

LEMMA LoopAlways == Spec => [](TypeOK /\ LoopInv)
BY LoopInit, LoopNext, PTL DEF Spec

(* The two sets hold CPU numbers only, and the loop stays within the text. *)
THEOREM TypeCorrect == Spec => []TypeOK
BY LoopAlways, PTL

(* What a list of rules names is what one of its rules does.               *)
LEMMA NamedMeans ==
    ASSUME NEW s, NEW I, NEW c, NEW x
    PROVE  x \in Promise!Named(s, I, c)
               <=> \E i \in I : Promise!Excludes(s[i]) = c /\ x \in Promise!Cpus(s[i])
BY DEF Promise!Named

LEMMA ExcludesType == ASSUME NEW s \in Seq(Promise!Rule), NEW i \in DOMAIN s
                      PROVE  Promise!Excludes(s[i]) \in BOOLEAN
BY DEF Promise!Excludes

(* Where no rule includes what an earlier one excludes, excluding at the   *)
(* end, from all the rules, is excluding from the ones before.             *)
LEMMA InOrderAgrees ==
    ASSUME NEW s \in Seq(Promise!Rule), Promise!InOrder(s)
    PROVE  Promise!Denoted(s) = Promise!Documented(s)
<1>1. ASSUME NEW x \in Promise!Denoted(s) PROVE x \in Promise!Documented(s)
    <2>1. /\ x \in Promise!Named(s, DOMAIN s, FALSE)
          /\ x \notin Promise!Named(s, DOMAIN s, TRUE)
        BY <1>1 DEF Promise!Denoted
    <2>2. PICK i \in DOMAIN s : Promise!Excludes(s[i]) = FALSE /\ x \in Promise!Cpus(s[i])
        BY <2>1, NamedMeans, Zenon
    <2>3. \A j \in DOMAIN s : Promise!Excludes(s[j]) = TRUE => x \notin Promise!Cpus(s[j])
        BY <2>1, NamedMeans, Zenon
    <2>4. \A j \in DOMAIN s : Promise!Excludes(s[j]) => x \notin Promise!Cpus(s[j])
        BY <2>3, ExcludesType, Zenon
    <2> QED BY <2>1, <2>2, <2>4 DEF Promise!Documented
<1>2. ASSUME NEW x \in Promise!Documented(s) PROVE x \in Promise!Denoted(s)
    <2>1. x \in Promise!Named(s, DOMAIN s, FALSE) BY <1>2 DEF Promise!Documented
    <2>2. PICK i \in DOMAIN s :
              /\ ~Promise!Excludes(s[i]) /\ x \in Promise!Cpus(s[i])
              /\ \A j \in DOMAIN s : i < j /\ Promise!Excludes(s[j]) => x \notin Promise!Cpus(s[j])
        BY <1>2 DEF Promise!Documented
    <2>3. ASSUME NEW j \in DOMAIN s, Promise!Excludes(s[j]) PROVE x \notin Promise!Cpus(s[j])
        <3>1. i \in Int /\ j \in Int /\ i # j BY <2>2, <2>3
        <3>2. CASE i < j BY <2>2, <2>3, <3>2
        <3>3. CASE j < i
            <4>1. Promise!Cpus(s[j]) \cap Promise!Cpus(s[i]) = {}
                BY <2>2, <2>3, <3>3 DEF Promise!InOrder
            <4> QED BY <2>2, <4>1
        <3> QED BY <3>1, <3>2, <3>3
    <2>4. x \notin Promise!Named(s, DOMAIN s, TRUE)
        BY <2>3, NamedMeans, Zenon
    <2> QED BY <2>1, <2>4 DEF Promise!Denoted
<1> QED BY <1>1, <1>2

(* parse_cpu_spec implements CpuSet: it raises if a rule is malformed, and *)
(* else returns the set of the docstring, unless a rule includes a CPU     *)
(* that an earlier one excludes.                                           *)
THEOREM ParserKeepsPromise == Spec => KeepsPromise
<1>1. Init => Promise!Init
    BY DEF Init, result, Promise!Init, Promise!Pending
<1>2. TypeOK /\ LoopInv /\ LoopInv' /\ [Next]_vars => [Promise!Parse]_<<spec, result>>
    <2> SUFFICES ASSUME TypeOK, LoopInv, LoopInv', [Next]_vars
                 PROVE  Promise!Parse \/ UNCHANGED <<spec, result>>
        OBVIOUS
    <2>1. CASE Return
        <3>1. Promise!WellFormed(spec) /\ cpuset_ids' = Promise!Denoted(spec)
            BY <2>1 DEF Return, LoopInv
        <3>2. Promise!Denoted(spec) \in Promise!Readings(spec)
            BY InOrderAgrees DEF TypeOK, Promise!Readings
        <3>3. result = Promise!Pending /\ result' = Promise!Returned(cpuset_ids') /\ spec' = spec
            BY <2>1 DEF Return, result, Promise!Pending, Promise!Returned
        <3> QED BY <3>1, <3>2, <3>3 DEF Promise!Parse
    <2>2. CASE BadRange \/ BadNumber
        BY <2>2 DEF BadRange, BadNumber, Raise, LoopInv, result,
                    Promise!Parse, Promise!Pending, Promise!InvalidCPUSpec
    <2>3. CASE Blank \/ Range \/ Exclude \/ Include
        BY <2>3 DEF Blank, Range, Exclude, Include, Continue, result
    <2>4. CASE UNCHANGED vars BY <2>4 DEF vars, result
    <2> QED BY <2>1, <2>2, <2>3, <2>4 DEF Next
<1> QED BY <1>1, <1>2, LoopAlways, PTL DEF Spec, KeepsPromise, Promise!Spec

(* Parsing two cpusets one by one gives what both stand for.               *)
LEMMA TwoCpusets ==
    ASSUME NEW a, NEW b
    PROVE  PinningAsSet(<<a, b>>) = Promise!Denoted(a) \cup Promise!Denoted(b)
<1>1. /\ DOMAIN <<a, b>> = {1, 2} /\ <<a, b>>[1] = a /\ <<a, b>>[2] = b
    OBVIOUS
<1> DEFINE p == <<a, b>>
<1> HIDE DEF p
<1>2. DOMAIN p = {1, 2} /\ p[1] = a /\ p[2] = b
    BY <1>1 DEF p
<1>3. PinningAsSet(p) = Promise!Denoted(a) \cup Promise!Denoted(b)
    BY <1>2 DEF PinningAsSet
<1> QED BY <1>3 DEF p

(* Cutting a text in two keeps every rule, in one part or the other.       *)
LEMMA Cut ==
    ASSUME NEW s \in Seq(Promise!Rule), NEW k \in 0..Len(s)
    PROVE  LET a == SubSeq(s, 1, k)
               b == SubSeq(s, k + 1, Len(s))
           IN  /\ DOMAIN a = 1..k /\ \A i \in 1..k : a[i] = s[i]
               /\ DOMAIN b = 1..(Len(s) - k) /\ \A i \in 1..(Len(s) - k) : b[i] = s[i + k]
<1>1. Len(s) \in Nat /\ k \in Nat /\ k <= Len(s)
    OBVIOUS
<1>2. DOMAIN SubSeq(s, 1, k) = 1..k /\ \A i \in 1..k : SubSeq(s, 1, k)[i] = s[i]
    BY <1>1
<1>3. /\ DOMAIN SubSeq(s, k + 1, Len(s)) = 1..(Len(s) - k)
      /\ \A i \in 1..(Len(s) - k) : SubSeq(s, k + 1, Len(s))[i] = s[i + k]
    BY <1>1
<1> QED BY <1>2, <1>3

(* get_pinning_as_set and get_host_pcpus_for_guest_vcpu read the same CPUs *)
(* of a domain whose pins exclude none, and joining never adds one.        *)
THEOREM BothReadersAgree == Spec => []JoiningAgrees
<1>1. TypeOK /\ LoopInv => JoiningAgrees
  <2> SUFFICES ASSUME TypeOK, LoopInv, pc = "returned", NEW k \in 0..Len(spec)
               PROVE  LET cpusets == <<SubSeq(spec, 1, k), SubSeq(spec, k + 1, Len(spec))>>
                      IN  /\ cpuset_ids \subseteq PinningAsSet(cpusets)
                          /\ (\A i \in DOMAIN spec : ~Promise!Excludes(spec[i]))
                                 => cpuset_ids = PinningAsSet(cpusets)
    BY DEF JoiningAgrees
  <2> DEFINE a == SubSeq(spec, 1, k)
             b == SubSeq(spec, k + 1, Len(spec))
             n == Len(spec)
  <2>1. spec \in Seq(Promise!Rule) /\ n \in Nat /\ DOMAIN spec = 1..n /\ k \in 0..n
    BY DEF TypeOK
  <2>2. /\ DOMAIN a = 1..k /\ \A i \in 1..k : a[i] = spec[i]
        /\ DOMAIN b = 1..(n - k) /\ \A i \in 1..(n - k) : b[i] = spec[i + k]
    BY <2>1, Cut
  <2>3. PinningAsSet(<<a, b>>) = Promise!Denoted(a) \cup Promise!Denoted(b)
    BY TwoCpusets
  <2>4. cpuset_ids = Promise!Denoted(spec)
    BY DEF LoopInv
  <2> HIDE DEF a, b, n
  <2>5. \A c, x : x \in Promise!Named(spec, DOMAIN spec, c)
                    <=> \/ x \in Promise!Named(a, DOMAIN a, c)
                        \/ x \in Promise!Named(b, DOMAIN b, c)
    <3> TAKE c, x
    <3> DEFINE Hit(r) == Promise!Excludes(r) = c /\ x \in Promise!Cpus(r)
    <3>1. /\ x \in Promise!Named(spec, DOMAIN spec, c) <=> \E i \in 1..n : Hit(spec[i])
          /\ x \in Promise!Named(a, DOMAIN a, c) <=> \E i \in 1..k : Hit(a[i])
          /\ x \in Promise!Named(b, DOMAIN b, c) <=> \E i \in 1..(n - k) : Hit(b[i])
      <4>1. x \in Promise!Named(spec, DOMAIN spec, c) <=> \E i \in DOMAIN spec : Hit(spec[i])
        BY NamedMeans, Zenon
      <4>2. x \in Promise!Named(a, DOMAIN a, c) <=> \E i \in DOMAIN a : Hit(a[i])
        BY NamedMeans, Zenon
      <4>3. x \in Promise!Named(b, DOMAIN b, c) <=> \E i \in DOMAIN b : Hit(b[i])
        BY NamedMeans, Zenon
      <4> HIDE DEF Hit
      <4>4. DOMAIN spec = 1..n /\ DOMAIN a = 1..k /\ DOMAIN b = 1..(n - k)
        BY <2>1, <2>2
      <4> QED BY <4>1, <4>2, <4>3, <4>4, Zenon
    <3> HIDE DEF Hit
    <3>2. (\E i \in 1..n : Hit(spec[i])) => (\E i \in 1..k : Hit(a[i])) \/ (\E i \in 1..(n - k) : Hit(b[i]))
      <4> SUFFICES ASSUME NEW i \in 1..n, Hit(spec[i])
                   PROVE  (\E j \in 1..k : Hit(a[j])) \/ (\E j \in 1..(n - k) : Hit(b[j]))
        OBVIOUS
      <4>1. CASE i <= k
        BY <2>1, <2>2, <4>1
      <4>2. CASE i > k
        <5>1. i - k \in 1..(n - k) /\ (i - k) + k = i
            BY <2>1, <4>2
        <5>2. b[i - k] = spec[i]
            BY <2>2, <5>1
        <5> QED BY <5>1, <5>2
      <4> QED BY <2>1, <4>1, <4>2
    <3>3. (\E i \in 1..k : Hit(a[i])) => \E i \in 1..n : Hit(spec[i])
        BY <2>1, <2>2
    <3>4. (\E i \in 1..(n - k) : Hit(b[i])) => \E i \in 1..n : Hit(spec[i])
      <4> SUFFICES ASSUME NEW i \in 1..(n - k), Hit(b[i])
                   PROVE  \E j \in 1..n : Hit(spec[j])
        OBVIOUS
      <4>1. i + k \in 1..n
        BY <2>1
      <4> QED BY <2>2, <4>1
    <3> QED BY <3>1, <3>2, <3>3, <3>4
  <2>6. cpuset_ids \subseteq PinningAsSet(<<a, b>>)
    BY <2>3, <2>4, <2>5 DEF Promise!Denoted
  <2>7. ASSUME \A i \in DOMAIN spec : ~Promise!Excludes(spec[i])
        PROVE  cpuset_ids = PinningAsSet(<<a, b>>)
    <3>1. Promise!Named(spec, DOMAIN spec, TRUE) = {}
        BY <2>7, NamedMeans
    <3>2. Promise!Named(a, DOMAIN a, TRUE) = {} /\ Promise!Named(b, DOMAIN b, TRUE) = {}
        BY <2>5, <3>1
    <3> QED BY <2>3, <2>4, <2>5, <3>1, <3>2 DEF Promise!Denoted
  <2> QED BY <2>6, <2>7 DEF a, b
<1> QED BY <1>1, LoopAlways, PTL
=============================================================================
