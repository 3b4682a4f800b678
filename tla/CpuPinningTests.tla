--------------------------- MODULE CpuPinningTests ---------------------------
(***************************************************************************)
(* The tests of api/compute/test_cpu_pinning.py, and the one on pinning of *)
(* test_live_migration.py, one after the other on the same hosts.  A test  *)
(* is a sequence of operations on Nova and of assertions on what it reads  *)
(* back; when it is over, passed or not, the servers it made are deleted,  *)
(* the last one first; one that cannot be deleted is left to the tests     *)
(* that follow.                                                            *)
(*                                                                         *)
(* Nova does what it should (a domain of Domains), or, at most once in a   *)
(* test, something else (one of Faults).  So the assertions can be judged  *)
(* from both sides: without a fault none may fail, and with one those that *)
(* promise to notice it must.  A failed deletion is the only thing that    *)
(* goes wrong in its test and in those that follow.                        *)
(***************************************************************************)
EXTENDS CpuHosts, Sequences, SequencesExt

CONSTANT MaxFailed  \* bound on the servers that cannot be deleted

VARIABLES
    test,       \* the test that runs, or "none"
    todo,       \* the steps of the test that are still to come
    cleanups,   \* how many of its servers it has still to delete
    broken,     \* history: the hosts whose configuration raised
    fault,      \* Nova has done something it should not have
    verdict     \* of the test: "running", "passed", "failed" or "skipped"

vars == <<conf, unset, servers, left, test, todo, cleanups, broken, fault, verdict>>

Tests == {"test_cpu_shared", "test_cpu_dedicated", "test_resize_pinned_server_to_unpinned",
          "test_resize_unpinned_server_to_pinned", "test_reboot_pinned_server",
          "test_threads_isolate", "test_threads_prefer", "test_threads_require",
          "test_policy_share_cpu_shared_set", "test_policy_share_cpu_shared_unset",
          "test_policy_isolate", "test_emulator_no_extra_cpu",
          "test_cpu_pinning_and_emulator_threads", "test_collocation_migration",
          "test_in_place_rebuild", "test_shared_pinned_and_unpinned_guest",
          "test_shared_pinned_and_unpinned_guest_multi_numa",
          "test_symmetric_multi_numa", "test_asymmetric_multi_numa",
          "test_live_migrate_and_reboot"}

\* CONF.whitebox_hardware and what else decides which tests run.  A Nova that pins
\* iothreads is newer than the fix of bug 1869804.
Configurations ==
    {c \in [dedicated : 0..MaxDedicated, shared : 0..MaxShared, smt : {{}, {Max(Hosts)}, Hosts},
            iothreads : BOOLEAN, fix_1869804 : BOOLEAN] : c.iothreads => c.fix_1869804}

TypeOK ==
    /\ conf \in Configurations
    /\ unset \subseteq Hosts
    /\ \A i \in DOMAIN servers : servers[i].host \in Hosts
    /\ test \in Tests \cup {"none"}
    /\ cleanups \in 0..Len(servers)
    /\ \A s \in left : s.host \in Hosts /\ s.reserved \subseteq cpu_dedicated_set(s.host)
    /\ broken \subseteq Hosts
    /\ fault \in BOOLEAN
    /\ verdict \in {"running", "passed", "failed", "skipped"}

Init ==
    /\ conf \in Configurations
    /\ unset = {}
    /\ servers = <<>>
    /\ left = {}
    /\ test = "none"
    /\ todo = <<>>
    /\ cleanups = 0
    /\ broken = {}
    /\ fault = FALSE
    /\ verdict = "passed"

-----------------------------------------------------------------------------
(* The flavors.                                                            *)

OneCell(n) == [g \in {0} |-> 0..(n - 1)]

\* No hw:cpu_policy, or 'shared'.
SharedFlavor(n) ==
    [cells |-> OneCell(n), dedicated |-> {}, emulator |-> "none", threads |-> "none"]

DedicatedFlavor(n) == [SharedFlavor(n) EXCEPT !.dedicated = 0..(n - 1)]

ThreadsFlavor(policy) == [DedicatedFlavor(2) EXCEPT !.threads = policy]

EmulatorFlavor(policy, n) == [DedicatedFlavor(n) EXCEPT !.emulator = policy]

\* hw:cpu_dedicated_mask '^0'.
MixedFlavor(cells) ==
    [cells |-> cells, dedicated |-> (UNION Range(cells)) \ {0}, emulator |-> "none",
     threads |-> "none"]

-----------------------------------------------------------------------------
(* The tests.                                                              *)

Create(flavor, hint, i) == [op |-> "create", flavor |-> flavor, hint |-> hint, of |-> i]
CreateAnywhere(flavor) == Create(flavor, "none", 0)
Resize(flavor) == [op |-> "resize", flavor |-> flavor]
LiveMigrate(i, j) == [op |-> "live_migrate", server |-> i, target |-> j]
Operation(name) == [op |-> name]
Check(n) == [op |-> "check", n |-> n]

Half == conf.dedicated \div 2

\* Each test is when it is skipped, and its steps.

test_cpu_shared ==
    [skip |-> conf.shared = 0,
     steps |-> <<CreateAnywhere(SharedFlavor(conf.shared)), Check(1)>>]

test_cpu_dedicated ==
    [skip |-> conf.dedicated < 2,
     steps |-> <<CreateAnywhere(DedicatedFlavor(Half)),
                 Create(DedicatedFlavor(Half), "same_host", 1), Check(1)>>]

test_resize_pinned_server_to_unpinned ==
    [skip |-> conf.shared = 0 \/ conf.dedicated = 0,
     steps |-> <<CreateAnywhere(DedicatedFlavor(conf.dedicated)), Check(1),
                 Resize(SharedFlavor(conf.shared)), Check(2)>>]

test_resize_unpinned_server_to_pinned ==
    [skip |-> conf.shared = 0 \/ conf.dedicated = 0,
     steps |-> <<CreateAnywhere(SharedFlavor(conf.shared)), Check(1),
                 Resize(DedicatedFlavor(conf.dedicated)), Check(2)>>]

test_reboot_pinned_server ==
    [skip |-> conf.dedicated = 0,
     steps |-> <<CreateAnywhere(DedicatedFlavor(conf.dedicated)), Check(1),
                 Operation("reboot"), Check(1)>>]

test_threads_isolate ==
    [skip |-> FALSE, steps |-> <<CreateAnywhere(ThreadsFlavor("isolate")), Check(1)>>]

test_threads_prefer ==
    [skip |-> conf.smt = {}, steps |-> <<CreateAnywhere(ThreadsFlavor("prefer")), Check(1)>>]

test_threads_require ==
    [skip |-> conf.smt = {}, steps |-> <<CreateAnywhere(ThreadsFlavor("require")), Check(1)>>]

test_policy_share_cpu_shared_set ==
    [skip |-> conf.shared = 0,
     steps |-> <<CreateAnywhere(EmulatorFlavor("share", conf.shared)), Check(1)>>]

test_policy_share_cpu_shared_unset ==
    [skip |-> conf.dedicated < 2,
     steps |-> <<Operation("unset"), CreateAnywhere(EmulatorFlavor("share", Half)),
                 Create(EmulatorFlavor("share", Half), "same_host", 1), Check(1),
                 Operation("restore")>>]

\* Mutant: one CPU is taken for enough.
test_policy_isolate_one_cpu ==
    [skip |-> conf.dedicated < 1,
     steps |-> <<CreateAnywhere(EmulatorFlavor("isolate", conf.dedicated - 1)), Check(1)>>]

test_policy_isolate ==
    [skip |-> conf.dedicated < 2,
     steps |-> <<CreateAnywhere(EmulatorFlavor("isolate", conf.dedicated - 1)), Check(1)>>]

\* The server must not be built.
test_emulator_no_extra_cpu ==
    [skip |-> FALSE, steps |-> <<CreateAnywhere(EmulatorFlavor("isolate", conf.dedicated))>>]

\* The shared CPUs it asks for are the dedicated ones again.
test_cpu_pinning_and_emulator_threads ==
    [skip |-> Cardinality(Hosts) # 2 \/ conf.dedicated < 2 \/ conf.dedicated = 0,
     steps |-> <<CreateAnywhere(EmulatorFlavor("share", Half)),
                 Create(EmulatorFlavor("share", Half), "different_host", 1), Check(1),
                 LiveMigrate(2, 1), Check(2)>>]

test_collocation_migration ==
    [skip |-> Cardinality(Hosts) # 2 \/ conf.dedicated < 2 \/ conf.shared = 0,
     steps |-> <<CreateAnywhere(DedicatedFlavor(1)), Create(SharedFlavor(1), "host", 1),
                 Create(DedicatedFlavor(1), "different_host", 1),
                 Create(SharedFlavor(1), "host", 3), Check(1),
                 LiveMigrate(2, 3), Check(2), LiveMigrate(1, 3), Check(3)>>]

test_in_place_rebuild ==
    [skip |-> FALSE,
     steps |-> <<CreateAnywhere(ThreadsFlavor("prefer")), Operation("rebuild")>>]

test_shared_pinned_and_unpinned_guest ==
    [skip |-> conf.shared = 0,
     steps |-> <<CreateAnywhere(MixedFlavor(OneCell(2))), Check(1)>>]

\* MixedCPUPolicyTestMultiNuma adds to the checks of its parent.
SkippedMultiNuma == conf.shared = 0 \/ conf.dedicated = 0 \/ Cardinality(Cells) < 2

\* The test above, which MixedCPUPolicyTestMultiNuma inherits with four vCPUs.
test_shared_pinned_and_unpinned_guest_multi_numa ==
    [skip |-> SkippedMultiNuma,
     steps |-> <<CreateAnywhere(MixedFlavor(OneCell(4))), Check(1)>>]

test_symmetric_multi_numa ==
    [skip |-> SkippedMultiNuma,
     steps |-> <<CreateAnywhere(MixedFlavor([g \in 0..1 |-> {2 * g, 2 * g + 1}])), Check(1)>>]

test_asymmetric_multi_numa ==
    [skip |-> SkippedMultiNuma \/ conf.dedicated < 3,
     steps |-> <<CreateAnywhere(MixedFlavor([g \in 0..1 |-> IF g = 0 THEN {0} ELSE 1..3])),
                 Check(1)>>]

test_live_migrate_and_reboot ==
    [skip |-> Cardinality(Hosts) < 2,
     steps |-> <<CreateAnywhere(DedicatedFlavor(2)), Operation("migrate_away"),
                 Operation("soft_reboot")>>]

Test(t) ==
    CASE t = "test_cpu_shared" -> test_cpu_shared
      [] t = "test_cpu_dedicated" -> test_cpu_dedicated
      [] t = "test_resize_pinned_server_to_unpinned" -> test_resize_pinned_server_to_unpinned
      [] t = "test_resize_unpinned_server_to_pinned" -> test_resize_unpinned_server_to_pinned
      [] t = "test_reboot_pinned_server" -> test_reboot_pinned_server
      [] t = "test_threads_isolate" -> test_threads_isolate
      [] t = "test_threads_prefer" -> test_threads_prefer
      [] t = "test_threads_require" -> test_threads_require
      [] t = "test_policy_share_cpu_shared_set" -> test_policy_share_cpu_shared_set
      [] t = "test_policy_share_cpu_shared_unset" -> test_policy_share_cpu_shared_unset
      [] t = "test_policy_isolate" -> test_policy_isolate
      [] t = "test_emulator_no_extra_cpu" -> test_emulator_no_extra_cpu
      [] t = "test_cpu_pinning_and_emulator_threads" -> test_cpu_pinning_and_emulator_threads
      [] t = "test_collocation_migration" -> test_collocation_migration
      [] t = "test_in_place_rebuild" -> test_in_place_rebuild
      [] t = "test_shared_pinned_and_unpinned_guest" -> test_shared_pinned_and_unpinned_guest
      [] t = "test_shared_pinned_and_unpinned_guest_multi_numa" -> test_shared_pinned_and_unpinned_guest_multi_numa
      [] t = "test_symmetric_multi_numa" -> test_symmetric_multi_numa
      [] t = "test_asymmetric_multi_numa" -> test_asymmetric_multi_numa
      [] t = "test_live_migrate_and_reboot" -> test_live_migrate_and_reboot

-----------------------------------------------------------------------------
(* What the tests read, and what they assert.                              *)

Domain(i) == servers[i].domain
Host(i) == servers[i].host

\* get_pinning_as_set(), and the values of get_server_cpu_pinning().
PinSet(i) == UNION Range(Domain(i).pins)

\* _assert_iothread_pins(): `expected` is {} for None and {pins} for pins.
IothreadPins(i, expected) == conf.iothreads => Domain(i).iothread = expected

WithinDedicated(i) == PinSet(i) \subseteq cpu_dedicated_set(Host(i))

Disjoint(i, j) == PinSet(i) \cap PinSet(j) = {}

\* Removing a CPU from its list of siblings a second time raises ValueError.
ThreadPins(used) ==
    /\ Cardinality(DOMAIN Domain(1).pins) = 2
    /\ IsInjective(Domain(1).pins)
    /\ \A v \in DOMAIN Domain(1).pins :
          LET pcpu == CHOOSE c \in Domain(1).pins[v] : TRUE
          IN  ((Siblings(Host(1), pcpu) \ {pcpu}) \cap PinSet(1) # {}) = used

ShareChecked(i) ==
    /\ Domain(i).emulator = cpu_shared_set(Host(i))
    /\ IothreadPins(i, {cpu_shared_set(Host(i))})

\* Mutant: the emulator threads may be among the vCPUs'.
IsolateCheckedWithin ==
    /\ WithinDedicated(1)
    /\ Domain(1).emulator \subseteq cpu_dedicated_set(Host(1))

IsolateChecked ==
    /\ WithinDedicated(1)
    /\ PinSet(1) \cap Domain(1).emulator = {}
    /\ Domain(1).emulator \subseteq cpu_dedicated_set(Host(1))
    /\ conf.iothreads =>
          /\ Domain(1).iothread # {}
          /\ \A pins \in Domain(1).iothread :
                PinSet(1) \cap pins = {} /\ pins \subseteq cpu_dedicated_set(Host(1))

MigratedChecked ==
    /\ PinSet(1) # {} /\ PinSet(2) # {} /\ Disjoint(1, 2)
    /\ Domain(1).db # {} /\ Domain(2).db # {} /\ Domain(1).db \cap Domain(2).db = {}
    /\ Domain(1).emulator # {} /\ Domain(1).emulator = Domain(2).emulator
    /\ conf.iothreads => /\ UNION Domain(1).iothread # {}
                         /\ Domain(1).iothread = Domain(2).iothread

CollocationChecked(n) ==
    CASE n = 1 -> /\ WithinDedicated(1) /\ WithinDedicated(3)
                  /\ Domain(2).cpuset = cpu_shared_set(Host(2))
                  /\ Domain(4).cpuset = cpu_shared_set(Host(4))
      [] n = 2 -> Domain(2).cpuset = cpu_shared_set(Host(IF conf.fix_1869804 THEN 3 ELSE 1))
      [] n = 3 -> /\ PinSet(1) \subseteq cpu_dedicated_set(Host(3))
                  /\ Disjoint(1, 3)
                  /\ PinSet(1) \cap cpu_shared_set(Host(3)) = {}

MixedChecked ==
    /\ {0, 1} \subseteq DOMAIN Domain(1).pins
    /\ Cardinality(Domain(1).pins[0]) = conf.shared
    /\ Domain(1).pins[0] \subseteq cpu_shared_set(Host(1))
    /\ Cardinality(Domain(1).pins[1]) = 1
    /\ Domain(1).pins[1] \subseteq cpu_dedicated_set(Host(1))

MultiNumaChecked ==
    /\ Domain(1).memnodes = 2
    /\ 0..3 \subseteq DOMAIN Domain(1).pins
    /\ Cardinality(Domain(1).pins[0]) = conf.shared
    /\ Domain(1).pins[0] \subseteq cpu_shared_set(Host(1))
    /\ LET dedicated_pin == UNION {Domain(1).pins[v] : v \in 1..3}
       IN  /\ dedicated_pin \subseteq cpu_dedicated_set(Host(1))
           /\ Cardinality(dedicated_pin) = 3
           /\ Domain(1).pins[0] \cap dedicated_pin = {}

Asserted(n) ==
    CASE test = "test_cpu_shared" -> IothreadPins(1, {})
      [] test = "test_cpu_dedicated" ->
            /\ PinSet(1) \subseteq cpu_dedicated_set(Host(1))
            /\ PinSet(2) \subseteq cpu_dedicated_set(Host(1))
            /\ Disjoint(1, 2)
            /\ \A i \in 1..2 : IothreadPins(i, {PinSet(i)})
      [] test = "test_resize_pinned_server_to_unpinned" ->
            IF n = 1 THEN WithinDedicated(1) ELSE PinSet(1) = {}
      [] test = "test_resize_unpinned_server_to_pinned" ->
            IF n = 1 THEN PinSet(1) = {} ELSE WithinDedicated(1)
      [] test = "test_reboot_pinned_server" -> WithinDedicated(1)
      [] test = "test_threads_isolate" -> ThreadPins(FALSE)
      [] test \in {"test_threads_prefer", "test_threads_require"} -> ThreadPins(TRUE)
      [] test = "test_policy_share_cpu_shared_set" -> ShareChecked(1)
      [] test = "test_policy_share_cpu_shared_unset" ->
            /\ \A i \in 1..2 : /\ Domain(i).emulator = PinSet(i)
                               /\ IothreadPins(i, {PinSet(i)})
            /\ Disjoint(1, 2)
      [] test = "test_policy_isolate" -> IsolateChecked
      [] test = "test_cpu_pinning_and_emulator_threads" ->
            IF n = 2 THEN MigratedChecked
            ELSE \A i \in 1..2 : /\ Domain(i).db \subseteq cpu_dedicated_set(Host(i))
                                 /\ ShareChecked(i)
                                 /\ WithinDedicated(i)
      [] test = "test_collocation_migration" -> CollocationChecked(n)
      [] test \in {"test_shared_pinned_and_unpinned_guest",
                   "test_shared_pinned_and_unpinned_guest_multi_numa"} -> MixedChecked
      [] test \in {"test_symmetric_multi_numa", "test_asymmetric_multi_numa"} -> MultiNumaChecked

-----------------------------------------------------------------------------
(* The steps of a test.                                                    *)

\* The tests that follow a host whose configuration raised are not looked at.
Begin ==
    /\ test = "none" /\ broken = {}
    /\ test' \in Tests
    /\ LET t == Test(test')
       IN  IF t.skip THEN verdict' = "skipped" /\ UNCHANGED todo
                     ELSE verdict' = "running" /\ todo' = t.steps
    /\ UNCHANGED <<conf, unset, servers, left, cleanups, broken, fault>>

Now(op) == verdict = "running" /\ todo # <<>> /\ Head(todo).op = op

Advance == todo' = Tail(todo) /\ UNCHANGED <<test, unset, verdict, broken>>

\* config_options of one host raises: what it has deleted may stay deleted.
ConfigRaises ==
    \E h \in Hosts : broken' = {h} /\ unset' \in SUBSET {h}

\* Mutant: config_options restores after the yield, without try and finally.
FailUnrestored ==
    verdict' = "failed" /\ todo' = <<>> /\ UNCHANGED <<test, unset, broken>>

\* An exception leaves the test, and config_all_computes if it is within:
\* every host is restored, but for one where that raises.
Fail ==
    /\ verdict' = "failed" /\ todo' = <<>>
    /\ \/ unset' = {} /\ UNCHANGED broken
       \/ unset # {} /\ ConfigRaises
    /\ UNCHANGED test

Others(i) == Range(RemoveAt(servers, i))

Candidates(hint, of) ==
    CASE hint = "none" -> Hosts
      [] hint \in {"same_host", "host"} -> {Host(of)}
      [] hint = "different_host" -> Hosts \ {Host(of)}

MayErr == ~fault /\ left = {}

\* Nova gives a server on host h one of the domains it should, or another.
Placed(h, domains, Outcome(_)) ==
    \/ \E d \in domains : Outcome(d) /\ UNCHANGED fault
    \/ /\ MayErr /\ fault' = TRUE
       /\ \E d \in domains : \E x \in Faults(h, d) \ domains : Outcome(x)

\* create_test_server(): the server is there, and its deletion registered.
\* A flavor with no vCPUs is refused; a server that cannot be placed ends in
\* BuildErrorException, which is what test_emulator_no_extra_cpu asserts.
CreateServer ==
    /\ Now("create")
    /\ LET f == Head(todo).flavor
           fits == [h \in Candidates(Head(todo).hint, Head(todo).of) |->
                       Domains(h, f, Range(servers))]
           Made(h, d) == /\ servers' = Append(servers, [host |-> h, flavor |-> f, domain |-> d])
                         /\ cleanups' = cleanups + 1
           expected == test = "test_emulator_no_extra_cpu"
       IN  \/ /\ Vcpus(f) = {}
              /\ Fail /\ UNCHANGED <<servers, cleanups, fault>>
           \/ /\ Vcpus(f) # {}
              /\ \E h \in DOMAIN fits : LET Outcome(d) == Made(h, d)
                                        IN  Placed(h, fits[h], Outcome)
              /\ IF expected THEN Fail ELSE Advance
           \/ /\ Vcpus(f) # {} /\ UNION Range(fits) = {}
              /\ UNCHANGED <<servers, cleanups, fault>>
              /\ IF expected THEN Advance ELSE Fail
           \/ /\ expected /\ Vcpus(f) # {} /\ MayErr /\ fault' = TRUE
              /\ \E h \in DOMAIN fits : Made(h, SharedDomain(h))
              /\ Fail
    /\ UNCHANGED <<conf, left>>

\* resize_server() on any host, and its confirmation.
ResizeServer ==
    /\ Now("resize")
    /\ LET f == Head(todo).flavor
       IN  \/ /\ \E h \in Hosts :
                    LET Outcome(d) == servers' = <<[host |-> h, flavor |-> f, domain |-> d]>>
                    IN  Placed(h, Domains(h, f, Range(servers)), Outcome)
              /\ Advance
           \/ /\ \A h \in Hosts : Domains(h, f, Range(servers)) = {}
              /\ Fail /\ UNCHANGED <<servers, fault>>
    /\ UNCHANGED <<conf, left, cleanups>>

\* reboot_server(): the domain is made anew.
RebootServer ==
    /\ Now("reboot")
    /\ LET Outcome(d) == servers' = [servers EXCEPT ![1].domain = d]
       IN  Placed(Host(1), Domains(Host(1), servers[1].flavor, Others(1)), Outcome)
    /\ Advance
    /\ UNCHANGED <<conf, left, cleanups>>

\* rebuild_server(), and the topology in the database compared with the one before.
RebuildServer ==
    /\ Now("rebuild")
    /\ \/ Advance /\ UNCHANGED <<servers, fault>>
       \/ /\ MayErr /\ fault' = TRUE
          /\ \E x \in Faults(Host(1), Domain(1)) \ {Domain(1)} :
                /\ servers' = [servers EXCEPT ![1].domain = x]
                /\ IF x.db = Domain(1).db THEN Advance ELSE Fail
    /\ UNCHANGED <<conf, left, cleanups>>

\* live_migrate() to the host of another server, where the server must be then.
\* Before bug 1869804 was fixed, a server that floats kept the CPUs it had.
LiveMigrateServer ==
    /\ Now("live_migrate")
    /\ LET i == Head(todo).server
           h == Host(Head(todo).target)
           f == servers[i].flavor
           domains == IF f.dedicated = {} /\ ~conf.fix_1869804 THEN {Domain(i)}
                      ELSE Domains(h, f, Others(i))
           Outcome(d) == servers' = [servers EXCEPT ![i].host = h, ![i].domain = d]
       IN  \/ Placed(h, domains, Outcome) /\ Advance
           \/ /\ MayErr \/ domains = {}
              /\ fault' = (fault \/ domains # {})
              /\ Fail /\ UNCHANGED servers
    /\ UNCHANGED <<conf, left, cleanups>>

\* live_migrate() without a target, after which the server must be on another
\* host, and none of the CPUs it is pinned to may be one of those before.
MigrateAway ==
    /\ Now("migrate_away")
    /\ LET f == servers[1].flavor
           Fits(h) == Domains(h, f, Others(1))
       IN  \/ \E h \in Hosts \ {Host(1)} :
                 LET Outcome(d) ==
                         /\ servers' = [servers EXCEPT ![1].host = h, ![1].domain = d]
                         /\ IF UNION Range(d.pins) \cap PinSet(1) = {} THEN Advance ELSE Fail
                 IN  Placed(h, Fits(h), Outcome)
           \/ LET possible == \E h \in Hosts \ {Host(1)} : Fits(h) # {}
              IN  /\ MayErr \/ ~possible
                  /\ fault' = (fault \/ possible)
                  /\ Fail /\ UNCHANGED servers
    /\ UNCHANGED <<conf, left, cleanups>>

\* reboot_server(type='SOFT'), after which the pins must be the same.
SoftRebootServer ==
    /\ Now("soft_reboot")
    /\ \/ Advance /\ UNCHANGED <<servers, fault>>
       \/ /\ MayErr /\ fault' = TRUE
          /\ \E x \in Faults(Host(1), Domain(1)) \ {Domain(1)} :
                /\ servers' = [servers EXCEPT ![1].domain = x]
                /\ IF UNION Range(x.pins) = PinSet(1) THEN Advance ELSE Fail
    /\ UNCHANGED <<conf, left, cleanups>>

\* config_all_computes(('compute', 'cpu_shared_set', None)) is entered.  If one
\* host raises, the ones before it are restored and the body does not run.
EnterConfig ==
    /\ Now("unset")
    /\ \/ unset' = Hosts /\ todo' = Tail(todo) /\ UNCHANGED <<broken, verdict>>
       \/ ConfigRaises /\ verdict' = "failed" /\ todo' = <<>>
    /\ UNCHANGED <<conf, servers, left, test, cleanups, fault>>

\* It is left after a body that has not raised.
ExitConfig ==
    /\ Now("restore")
    /\ \/ unset' = {} /\ todo' = Tail(todo) /\ UNCHANGED <<broken, verdict>>
       \/ ConfigRaises /\ verdict' = "failed" /\ todo' = <<>>
    /\ UNCHANGED <<conf, servers, left, test, cleanups, fault>>

CheckServers ==
    /\ Now("check")
    /\ IF Asserted(Head(todo).n) THEN Advance ELSE Fail
    /\ UNCHANGED <<conf, servers, left, cleanups, fault>>

Pass ==
    /\ verdict = "running" /\ todo = <<>>
    /\ verdict' = "passed"
    /\ UNCHANGED <<conf, unset, servers, left, test, todo, cleanups, broken, fault>>

\* The server is gone, or its deletion or the wait for it has failed.  As the
\* cells of a host are alike, one that stays is looked at in the first only.
Gone(i) ==
    \/ UNCHANGED left
    \/ /\ ~fault /\ Cardinality(left) < MaxFailed
       /\ Domain(i).reserved \subseteq Dedicated(Host(i), Min(Cells))
       /\ left' = left \cup {[host |-> Host(i), reserved |-> Domain(i).reserved]}

\* Mutant: the clean-up of a server that is gone stays registered.
DeleteServerAgain ==
    /\ verdict # "running" /\ cleanups > 0 /\ servers # <<>>
    /\ servers' = Front(servers)
    /\ UNCHANGED <<conf, unset, left, test, todo, cleanups, broken, fault, verdict>>

\* _admin_delete_server(): an exception is logged, and that is all.
DeleteServer ==
    /\ verdict # "running" /\ cleanups > 0
    /\ servers' = RemoveAt(servers, cleanups)
    /\ Gone(cleanups)
    /\ cleanups' = cleanups - 1
    /\ UNCHANGED <<conf, unset, test, todo, broken, fault, verdict>>

End ==
    /\ test # "none" /\ verdict # "running" /\ cleanups = 0
    /\ test' = "none" /\ fault' = FALSE
    /\ UNCHANGED <<conf, unset, todo, servers, left, cleanups, broken, verdict>>

Next ==
    \/ Begin
    \/ CreateServer
    \/ ResizeServer
    \/ RebootServer
    \/ RebuildServer
    \/ LiveMigrateServer
    \/ MigrateAway
    \/ SoftRebootServer
    \/ EnterConfig
    \/ ExitConfig
    \/ CheckServers
    \/ Pass
    \/ DeleteServer
    \/ End

Spec == Init /\ [][Next]_vars

-----------------------------------------------------------------------------
(* Properties.                                                             *)

\* What a test needs of the deployment beyond what its skip checks ask for.
Needs(t) ==
    CASE t = "test_threads_isolate" ->
            conf.dedicated >= 3 \/ (conf.smt # Hosts /\ conf.dedicated >= 2)
      [] t = "test_threads_prefer" -> conf.dedicated >= 2 /\ conf.smt = Hosts
      [] t \in {"test_threads_require", "test_in_place_rebuild", "test_symmetric_multi_numa"} ->
            conf.dedicated >= 2
      [] t = "test_policy_share_cpu_shared_set" -> conf.dedicated >= conf.shared
      [] t = "test_live_migrate_and_reboot" ->
            /\ conf.dedicated >= 2
            /\ \A g, h \in Hosts : g # h => cpu_dedicated_set(g) \cap cpu_dedicated_set(h) = {}
      [] t \in {"test_emulator_no_extra_cpu", "test_shared_pinned_and_unpinned_guest"} ->
            conf.dedicated >= 1
      [] t = "test_cpu_pinning_and_emulator_threads" -> conf.shared >= 1
      [] t = "test_shared_pinned_and_unpinned_guest_multi_numa" -> conf.dedicated >= 3
      [] OTHER -> TRUE

\* The tests whose next servers must go where the first one is, or where it is
\* not, and those that only some hosts will do for.
NeedsWholeHosts ==
    {"test_cpu_dedicated", "test_policy_share_cpu_shared_unset",
     "test_cpu_pinning_and_emulator_threads", "test_collocation_migration",
     "test_live_migrate_and_reboot", "test_threads_isolate", "test_threads_prefer",
     "test_threads_require"}

(* Where a deployment has what a test needs, and Nova does what it should, *)
(* the test does not fail: no assertion asks more than Nova promises, and  *)
(* its servers fit.  That holds too after tests whose servers could not be *)
(* deleted and keep their CPUs (_admin_delete_server logs it and goes on), *)
(* for every test but those that need whole hosts.                         *)
NoFalseAlarm ==
    /\ test # "none" /\ ~fault /\ broken = {}
    /\ Needs(test)
    /\ test \in NeedsWholeHosts => \A s \in left : s.reserved = {}
    => verdict # "failed"

Pinned(i) == PinSet(i) # {} /\ WithinDedicated(i)

\* What the docstrings and comments of the tests say they are there to see.
\* test_in_place_rebuild and test_live_migrate_and_reboot are not here: all they
\* promise is that two readings of a server agree, which is their steps' own.
Promised ==
    CASE test = "test_cpu_shared" -> PinSet(1) = {} => Domain(1).iothread = {}
      [] test = "test_cpu_dedicated" -> Pinned(1) /\ Pinned(2) /\ Disjoint(1, 2)
      [] test = "test_resize_pinned_server_to_unpinned" -> PinSet(1) = {}
      [] test \in {"test_resize_unpinned_server_to_pinned", "test_reboot_pinned_server"} ->
            Pinned(1)
      [] test = "test_threads_isolate" ->
            \A v, w \in 0..1 : v # w => \A c \in Domain(1).pins[v] :
                Domain(1).pins[w] \cap Siblings(Host(1), c) = {}
      [] test \in {"test_threads_prefer", "test_threads_require"} ->
            OnSiblings(Host(1), [v \in 0..1 |-> Min(Domain(1).pins[v])])
      [] test = "test_policy_share_cpu_shared_set" ->
            Domain(1).emulator = cpu_shared_set(Host(1)) /\ Domain(1).emulator # {}
      [] test = "test_policy_share_cpu_shared_unset" ->
            /\ Disjoint(1, 2)
            /\ \A i \in 1..2 : PinSet(i) # {} /\ Domain(i).emulator = PinSet(i)
      [] test = "test_policy_isolate" ->
            /\ Pinned(1)
            /\ Domain(1).emulator # {}
            /\ Domain(1).emulator \subseteq cpu_dedicated_set(Host(1)) \ PinSet(1)
      [] test = "test_emulator_no_extra_cpu" -> servers = <<>>
      [] test = "test_cpu_pinning_and_emulator_threads" ->
            /\ Host(1) = Host(2) /\ Pinned(1) /\ PinSet(2) # {} /\ Disjoint(1, 2)
            /\ \A i \in 1..2 : Domain(i).emulator = cpu_shared_set(Host(1))
      [] test = "test_collocation_migration" ->
            /\ \A i \in 1..4 : Host(i) = Host(3)
            /\ Pinned(1) /\ Pinned(3)
            /\ PinSet(1) \cap (PinSet(3) \cup cpu_shared_set(Host(3))) = {}
            /\ conf.fix_1869804 => Domain(2).cpuset = Domain(4).cpuset
      [] test = "test_shared_pinned_and_unpinned_guest" ->
            Domain(1).pins[0] \cap Domain(1).pins[1] = {}
      [] test \in {"test_symmetric_multi_numa", "test_asymmetric_multi_numa"} ->
            Cardinality(PinSet(1)) = 3 + conf.shared
      [] OTHER -> TRUE

\* The tests that compare a server's CPUs with those of its host as sets, and
\* what they do not notice: no pins, and no emulatorpin, are a subset of
\* everything and disjoint from everything.
EmptySetPasses ==
    \/ /\ test \in {"test_resize_unpinned_server_to_pinned", "test_reboot_pinned_server"}
       /\ PinSet(1) = {}
    \/ /\ test \in {"test_cpu_dedicated", "test_policy_share_cpu_shared_unset"}
       /\ ~conf.iothreads
       /\ PinSet(1) = {} \/ PinSet(2) = {}
    \/ test = "test_collocation_migration" /\ (PinSet(1) = {} \/ PinSet(3) = {})
    \/ /\ test = "test_policy_isolate"
       /\ Domain(1).emulator = {} \/ (~conf.iothreads /\ PinSet(1) = {})

(* A test that passes has seen what it says it is there to see, whatever   *)
(* Nova did: that vCPUs are pinned and have CPUs of their own, that a      *)
(* thread policy was followed, where emulator threads are, that a resize   *)
(* drops pins and a migration moves them.  The only exception is a server  *)
(* without any pins, or without an emulatorpin, in EmptySetPasses; some    *)
(* but not all pins lost, or pins to other CPUs, are always noticed.       *)
PassMeansPromise ==
    [][verdict = "running" /\ verdict' = "passed" => Promised \/ EmptySetPasses]_vars

(* Whatever became of a test, the next one finds none of its servers but   *)
(* those whose own deletion failed, and cpu_shared_set as it was on every  *)
(* host but the one where config_options itself raised: that one does not  *)
(* keep the others from being restored (config_all_computes), whether the  *)
(* body of the `with` has raised or not.                                   *)
CleanedUp == test = "none" => servers = <<>> /\ unset \subseteq broken

=============================================================================
