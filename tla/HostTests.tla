------------------------------ MODULE HostTests ------------------------------
(* Tests that read the state of hosts through the clients of HostClients    *)
(* and DatabaseClient: test_cpu_state, the reading of XML, images and logs, *)
(* the shutdown of a domain, and the database queries.  Each step of a test *)
(* is a call; Nova and earlier tests go on in between.                      *)
EXTENDS HostClients, DatabaseClient

CONSTANT
    HostCpus    \* CPUs of the host of test_cpu_state

VARIABLES
    test,       \* the test that runs
    at,         \* the step it is at
    verdict,    \* "running", or how it ended
    fault,      \* the mistake that Nova makes, or "none"
    pinned,     \* the CPU of the server of this, [1], and of an earlier test, [2]
    offline,    \* CPUs that are offline
    seen        \* what the test has read

testVars == <<test, at, verdict, fault, pinned, offline, seen>>
vars == <<clientVars, testVars, dbVars>>

NoCpu == -1
NotSeen == [before |-> {}, after |-> {}]

-----------------------------------------------------------------------------
(* The deployments.  A test is combined with what matters to it.            *)

Plain == [containers |-> FALSE, named |-> FALSE, installed |-> {},
          addresses |-> {}, zgrep |-> FALSE, listed |-> Hosts,
          sections |-> Services, dedicated |-> {}, shared |-> {}, dead |-> {}]

Readers == {"xml", "image", "logs", "shutdown"}

ReaderConfs ==
    {[Plain EXCEPT !.containers = c, !.named = n, !.installed = i,
                   !.addresses = a, !.zgrep = z, !.listed = l, !.sections = s] :
        c \in BOOLEAN, n \in BOOLEAN, i \in SUBSET Services, a \in SUBSET Hosts,
        z \in BOOLEAN, l \in SUBSET Hosts, s \in SUBSET Services}

CpuConfs ==
    {[Plain EXCEPT !.listed = l, !.dedicated = d, !.shared = s, !.dead = x] :
        l \in {Hosts, {2}}, d \in SUBSET HostCpus, s \in SUBSET HostCpus,
        x \in {{}} \cup {{c} : c \in HostCpus \ {0}}}

Init ==
    /\ DbInit
    /\ nodes = NotRead
    /\ at = 1
    /\ verdict = "running"
    /\ seen = NotSeen
    /\ \/ /\ test \in Readers
          /\ conf \in ReaderConfs
          /\ fault = "none"
          /\ pinned = [s \in 1..2 |-> NoCpu]
          /\ offline = {}
       \/ /\ test = "cpu_state"
          /\ conf \in CpuConfs
          /\ conf.dedicated \cap conf.shared = {}
          /\ conf.dead \cap (conf.dedicated \cup conf.shared) = {}
          /\ fault \in {"none", "asleep", "awake", "other"}
          \* A server of an earlier test may not be gone: its CPU is online.
          /\ \E left \in conf.dedicated \cup {NoCpu} :
                /\ pinned = <<NoCpu, left>>
                /\ offline = conf.dead \cup (conf.dedicated \ {0, left})
       \/ /\ test = "database"
          /\ conf = Plain
          /\ fault = "none"
          /\ pinned = [s \in 1..2 |-> NoCpu]
          /\ offline = {}

-----------------------------------------------------------------------------
(* The end of a step.                                                       *)

Advance == at' = at + 1 /\ UNCHANGED verdict
Ends(v) == verdict' = v /\ UNCHANGED at
Asserts(p) == IF p THEN Advance ELSE Ends("failed")

\* The test t is at its step n.
At(t, n) == test = t /\ at = n /\ verdict = "running"

-----------------------------------------------------------------------------
(* get_server_xml, get_secret_xml, get_server_blockdevice_path; qemu-img    *)
(* info; the log query of test_rbd_logs_and_conf; shutdown_server_domain.   *)

MakeClient ==
    /\ test \in Readers
    /\ At(test, 1)
    /\ nodes' = NodesRead
    /\ Asserts(IF test \in {"xml", "image"} THEN ServiceClientMade(1, "libvirt")
                                            ELSE SSHClientMade(1))
    /\ UNCHANGED <<conf, test, fault, pinned, offline, seen, dbVars>>

UseClient ==
    /\ test \in Readers
    /\ At(test, 2)
    /\ LET done == CASE test = "logs" -> parse(1)
                     [] test = "shutdown" -> virsh_shutdown
                     [] test = "image" -> info
                     [] OTHER -> virsh
       IN  Ends(IF done THEN "passed" ELSE "failed")
    /\ UNCHANGED <<clientVars, test, fault, pinned, offline, seen, dbVars>>

-----------------------------------------------------------------------------
(* TestCPUStateMgmt.test_cpu_state, on the first host                       *)

ReadOffline == get_sysfs_value("cpu/offline", offline)
ReadOnline == get_sysfs_value("cpu/online", HostCpus \ offline)

\* dedicated_cpus without CPU 0
HotPluggable == conf.dedicated \ {0}

MakeSysFSClient ==
    /\ At("cpu_state", 1)
    /\ nodes' = NodesRead
    /\ Asserts(SSHClientMade(1) /\ ServiceClientMade(1, "nova-compute"))
    /\ UNCHANGED <<conf, test, fault, pinned, offline, seen, dbVars>>

\* get_cpu_dedicated_set and get_cpu_shared_set
ReadSets ==
    /\ At("cpu_state", 2)
    /\ IF Cardinality(HotPluggable) < 2 THEN Ends("skipped") ELSE Advance
    /\ UNCHANGED <<clientVars, test, fault, pinned, offline, seen, dbVars>>

CheckShared ==
    /\ At("cpu_state", 3)
    /\ Asserts(conf.shared \subseteq ReadOnline)
    /\ UNCHANGED <<clientVars, test, fault, pinned, offline, seen, dbVars>>

CheckOfflineBefore ==
    /\ At("cpu_state", 4)
    /\ seen' = [seen EXCEPT !.before = ReadOffline]
    /\ Asserts(HotPluggable = ReadOffline)
    /\ UNCHANGED <<clientVars, test, fault, pinned, offline, dbVars>>

\* External: Nova pins the server to a CPU that no server has, online first.
CreatePinned ==
    /\ At("cpu_state", 5)
    /\ \E c \in conf.dedicated \ {pinned[2]} :
          /\ pinned' = [pinned EXCEPT ![1] = c]
          /\ \/ fault # "other" /\ offline' = offline \ {c}
             \/ fault = "asleep" /\ UNCHANGED offline
             \/ /\ fault = "other"
                /\ \E o \in HotPluggable \ {c} : offline' = offline \ {o}
    /\ Advance
    /\ UNCHANGED <<clientVars, test, fault, seen, dbVars>>

\* Mutant: assertLessEqual instead of assertLess.
CheckOfflineAfterOrEqual ==
    /\ At("cpu_state", 6)
    /\ seen' = [seen EXCEPT !.after = ReadOffline]
    /\ Asserts(ReadOffline \subseteq seen.before)
    /\ UNCHANGED <<clientVars, test, fault, pinned, offline, dbVars>>

\* assertLess: a proper subset
CheckOfflineAfter ==
    /\ At("cpu_state", 6)
    /\ seen' = [seen EXCEPT !.after = ReadOffline]
    /\ Asserts(ReadOffline \subseteq seen.before /\ ReadOffline # seen.before)
    /\ UNCHANGED <<clientVars, test, fault, pinned, offline, dbVars>>

\* delete_server and wait_for_server_termination.  External: the CPU goes
\* offline before the server's record is gone.
DeletePinned ==
    /\ At("cpu_state", 7)
    /\ offline' = offline \cup CASE fault = "awake" -> {}
                                [] fault = "other" -> HotPluggable
                                [] OTHER -> {pinned[1]} \ {0}
    /\ Advance
    /\ UNCHANGED <<clientVars, test, fault, pinned, seen, dbVars>>

CheckOfflineFinal ==
    /\ At("cpu_state", 8)
    /\ Ends(IF seen.before = ReadOffline THEN "passed" ELSE "failed")
    /\ UNCHANGED <<clientVars, test, fault, pinned, offline, seen, dbVars>>

-----------------------------------------------------------------------------
(* What goes on beside a test.                                              *)

\* External: the server that an earlier test left behind goes.
ReleaseCpu ==
    /\ test = "cpu_state"
    /\ verdict = "running"
    /\ pinned[2] # NoCpu
    /\ pinned' = [pinned EXCEPT ![2] = NoCpu]
    /\ offline' = offline \cup ({pinned[2]} \ {0})
    /\ UNCHANGED <<clientVars, test, at, verdict, fault, seen, dbVars>>

Database ==
    /\ test = "database"
    /\ DbNext
    /\ UNCHANGED <<clientVars, testVars>>

Next ==
    \/ MakeClient \/ UseClient
    \/ MakeSysFSClient \/ ReadSets \/ CheckShared \/ CheckOfflineBefore
    \/ CreatePinned \/ CheckOfflineAfter \/ DeletePinned
    \/ CheckOfflineFinal
    \/ ReleaseCpu \/ Database

Spec == Init /\ [][Next]_vars

-----------------------------------------------------------------------------
(* Properties                                                               *)

\* The variables have their types; in particular a connection is closed at
\* most once, and only CPUs of the host are offline.
TypeOK ==
    /\ nodes \in {NotRead} \cup SUBSET Hosts
    /\ at \in 1..8
    /\ verdict \in {"running", "passed", "skipped", "failed"}
    /\ pinned \in [1..2 -> HostCpus \cup {NoCpu}]
    /\ offline \subseteq HostCpus
    /\ conns \in 0..MaxCalls
    /\ view \in 0..NoView
    /\ answer \in 0..MaxRows

\* The program of a service is where its client looks for it: a containerised
\* deployment names the containers in nodes.yaml, or has it on the hosts too.
Reachable(service) == conf.containers => conf.named \/ service \in conf.installed

\* What a deployment has to have beyond what the test checks before it skips:
\* no CPU offline for another reason, no other pinned server, and not CPU 0 for
\* the server (test_cpu_state); an address if there are any; complete sections
\* and names of containers in nodes.yaml; logs not read with zgrep; and virsh on
\* the host itself for shutdown_server_domain, which knows no container.
Needs ==
    /\ get_ctlplane_address(1)
    /\ test # "shutdown" => 1 \in conf.listed
    /\ CASE test = "cpu_state" -> /\ conf.dead = {}
                                  /\ pinned[2] \in {NoCpu, 0}
                                  /\ pinned[1] # 0
         [] test = "shutdown" -> conf.containers => "libvirt" \in conf.installed
         [] test = "logs" -> /\ ~conf.zgrep
                             /\ "nova-compute" \in conf.sections
                             /\ Reachable("nova-compute")
         [] OTHER -> "libvirt" \in conf.sections /\ Reachable("libvirt")

\* Where Nova makes no mistake and the deployment has what the test needs, no
\* test fails, whatever earlier tests still release while it runs, and every
\* client finds its program on the host or in the container where it looks
\* (test_cpu_state_mgmt.py, SSHClient.execute).
NoFalseAlarm == verdict = "failed" => fault # "none" \/ ~Needs

\* A test_cpu_state that passes has seen what it is about, also when Nova makes
\* a mistake and an earlier server goes meanwhile: the CPU of the server online
\* while there was a server, and all dedicated CPUs offline again.  That it is
\* the server's own CPU that went online is not checked by the test ("other").
PassMeansPromise ==
    verdict = "passed" /\ test = "cpu_state" =>
        /\ offline = HotPluggable
        /\ pinned[1] \notin seen.after \/ fault = "other"
=============================================================================
