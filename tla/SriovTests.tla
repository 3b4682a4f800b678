----------------------------- MODULE SriovTests -----------------------------
(***************************************************************************)
(* The tests of api/compute/test_sriov.py and test_vdpa.py, one after the  *)
(* other: NUMA affinity policies, migrations, and attaching a port to a    *)
(* server that runs.  A test makes a network, a subnet, ports, images and  *)
(* servers, and registers the deletion of each one when it has made it;    *)
(* the deletions run when the test is over, the last one first.            *)
(*                                                                         *)
(* Nova does what it should, at its own pace, or gets one thing of one     *)
(* operation wrong; and one call of the test may raise, with or without    *)
(* having done what it was asked for.                                      *)
(***************************************************************************)
EXTENDS SriovHosts

CONSTANTS
    Hotplug,        \* possible values of CONF.compute_feature_enabled.sriov_hotplug
    MaxFailed       \* bound on the deletions of a test that fail

VARIABLES
    made,       \* which of network, subnet, image there are
    cleanups,   \* deletions registered, the first one first
    failed,     \* how many deletions have failed that Neutron did not refuse
    test,       \* the test that runs, or "none"
    todo,       \* the steps of the test that are still to come
    slept,      \* _validate_pci_allocation has polled, and sleeps
    fault,      \* Nova has got something wrong, or a call has raised
    oldest,     \* status of the last migration that list_migrations() shows
    lost,       \* history: what was made by a call that raised
    excuse,     \* why a test has failed that Nova is not to blame for
    verdict     \* of the test: "running", "passed", "failed" or "skipped"

deployment == <<conf, pci, ports, servers, pending>>
resources == <<made, cleanups, failed, lost>>
progress == <<test, todo, slept, fault, oldest, excuse, verdict>>
vars == <<deployment, resources, progress>>

AffinityTests ==
    {"test_sriov_affinity_preferred_with_flavor", "test_sriov_affinity_required_with_flavor",
     "test_sriov_affinity_preferred_with_image", "test_sriov_affinity_required_with_image",
     "test_sriov_affinity_preferred_with_port_policy", "test_sriov_mixed_affinity_port_policies",
     "test_sriov_affinity_required_with_port_policy",
     "test_sriov_affinity_port_policy_precedence_flavor",
     "test_sriov_affinity_port_policy_precedence_image", "test_sriov_affinity_socket_policy"}

MigrationTests == {"test_sriov_direct_live_migration", "test_sriov_macvtap_live_migration"}

AttachTests ==
    {"test_sriov_direct_attach_detach_port", "test_sriov_macvtap_attach_detach_port",
     "test_sriov_direct_physical_attach_detach_port"}

VdpaMoves ==
    {"test_vdpa_cold_migration", "test_revert_vdpa_cold_migration", "test_vdpa_to_standard_resize",
     "test_evacuate_server_vdpa"}

VdpaTests == VdpaMoves \cup {"test_guest_creation_with_vdpa_port"}

Tests == AffinityTests \cup MigrationTests \cup AttachTests \cup VdpaTests

\* sriov: the options that SRIOVBase.skip_checks asks for; numa: those of
\* SRIOVNumaAffinity; socket: those of the socket policy; levels: where a NUMA affinity
\* policy is supported; vdpa: what is supported of vDPA.  A deployment for vDPA, and
\* one with few functions, is looked at with one choice of the rest.
Configurations ==
    [sriov : {TRUE}, vnic : {"direct", "macvtap"}, hotplug : Hotplug, back_and_forth : BOOLEAN,
     numa : BOOLEAN, socket : BOOLEAN, levels : {{}, {"image", "port"}}, vdpa : {"none"},
     few : {FALSE}]
    \cup [sriov : {TRUE}, vnic : {"direct"}, hotplug : Hotplug, back_and_forth : {TRUE},
          numa : {TRUE}, socket : {FALSE}, levels : {{}}, vdpa : {"none"}, few : {TRUE}]
    \cup [sriov : {FALSE}, vnic : {"direct"}, hotplug : Hotplug, back_and_forth : {FALSE},
          numa : {FALSE}, socket : {FALSE}, levels : {{}}, vdpa : {"ports", "migration"},
          few : {FALSE}]

Statuses == {"available", "claimed", "allocated"}

TypeOK ==
    /\ conf \in Configurations
    /\ pci \in [Devices -> [status : Statuses, of : 0..Len(servers)]]
    /\ \A p \in DOMAIN ports : /\ ports[p].device \in 0..Len(servers)
                               /\ ports[p].slot \in Slots \cup {0}
    /\ \A i \in DOMAIN servers : servers[i].host \in Hosts
    /\ \A w \in pending : w.kind \in {"detach", "release", "resize", "evacuation"} /\ w.server \in DOMAIN servers
    /\ made \subseteq {"network", "subnet", "image"}
    /\ \A k \in DOMAIN cleanups :
          /\ cleanups[k].kind = "server" => cleanups[k].of \in DOMAIN servers
          /\ cleanups[k].kind = "port" => cleanups[k].of \in DOMAIN ports
    /\ failed \in 0..MaxFailed
    /\ test \in Tests \cup {"none"}
    /\ slept \in BOOLEAN /\ fault \in BOOLEAN
    /\ oldest \in {"none", "done", "finished", "failed"} /\ lost \subseteq {"network", "subnet", "image", "port"}
    /\ excuse \in {"none", "slow", "stale", "older"}
    /\ verdict \in {"running", "passed", "failed", "skipped"}

Init ==
    /\ conf \in Configurations
    /\ pci = [d \in Devices |-> Available]
    /\ ports = <<>> /\ servers = <<>> /\ pending = {}
    /\ made = {} /\ cleanups = <<>> /\ failed = 0 /\ lost = {} /\ oldest = "none"
    /\ test = "none" /\ todo = <<>> /\ slept = FALSE /\ fault = FALSE
    /\ excuse = "none" /\ verdict = "passed"

-----------------------------------------------------------------------------
(* The tests.  A policy of a flavor or an image is one of the server.      *)

Make(kind) == [op |-> "make", kind |-> kind]
Flavor == [op |-> "flavor"]
Port(vnic, policy) == [op |-> "port", vnic |-> vnic, policy |-> policy]
Create(port, policy, of, fails) ==
    [op |-> "create", port |-> port, policy |-> policy, of |-> of, fails |-> fails]
On(op, i) == [op |-> op, server |-> i]

SetUp == <<Make("network"), Make("subnet")>>

\* _preferred_test_procedure(), and _socket_test_procedure(), which makes the same servers.
PreferredProcedure(policy, check) ==
    <<Create(1, policy, 0, FALSE), Create(2, policy, 1, FALSE), [op |-> check]>>

\* _required_test_procedure(): the second server must not be built.
RequiredProcedure(policy) ==
    <<Create(1, policy, 0, FALSE), Create(2, policy, 1, TRUE), [op |-> "required"]>>

TwoPorts(a, b) == <<Port(conf.vnic, a), Port(conf.vnic, b)>>

AffinitySetUp == SetUp \o <<Flavor>>

\* SRIOVBase.skip_checks(), on which those of the other classes build.
SkippedSriov == ~conf.sriov

SkippedNuma == SkippedSriov \/ ~conf.numa

test_sriov_affinity_preferred_with_flavor ==
    [skip |-> SkippedNuma,
     steps |-> AffinitySetUp \o TwoPorts("none", "none")
               \o PreferredProcedure("preferred", "preferred")]

test_sriov_affinity_required_with_flavor ==
    [skip |-> SkippedNuma,
     steps |-> AffinitySetUp \o TwoPorts("none", "none") \o RequiredProcedure("required")]

test_sriov_affinity_preferred_with_image ==
    [skip |-> SkippedNuma \/ "image" \notin conf.levels,
     steps |-> AffinitySetUp \o <<Make("image")>> \o TwoPorts("none", "none")
               \o PreferredProcedure("preferred", "preferred")]

test_sriov_affinity_required_with_image ==
    [skip |-> SkippedNuma \/ "image" \notin conf.levels,
     steps |-> AffinitySetUp \o <<Make("image")>> \o TwoPorts("none", "none")
               \o RequiredProcedure("required")]

SkippedPort == SkippedNuma \/ "port" \notin conf.levels

test_sriov_affinity_preferred_with_port_policy ==
    [skip |-> SkippedPort,
     steps |-> AffinitySetUp \o TwoPorts("preferred", "preferred")
               \o PreferredProcedure("legacy", "preferred")]

test_sriov_mixed_affinity_port_policies ==
    [skip |-> SkippedPort,
     steps |-> AffinitySetUp \o TwoPorts("required", "preferred")
               \o PreferredProcedure("legacy", "preferred")]

test_sriov_affinity_required_with_port_policy ==
    [skip |-> SkippedPort,
     steps |-> AffinitySetUp \o TwoPorts("required", "required") \o RequiredProcedure("legacy")]

test_sriov_affinity_port_policy_precedence_flavor ==
    [skip |-> SkippedPort,
     steps |-> AffinitySetUp \o TwoPorts("preferred", "preferred")
               \o PreferredProcedure("required", "preferred")]

test_sriov_affinity_port_policy_precedence_image ==
    [skip |-> SkippedPort,
     steps |-> AffinitySetUp \o <<Make("image")>> \o TwoPorts("preferred", "preferred")
               \o PreferredProcedure("required", "preferred")]

\* Its skip_checks() calls that of SRIOVBase, not the one of SRIOVNumaAffinity.
test_sriov_affinity_socket_policy ==
    [skip |-> SkippedSriov \/ ~conf.socket,
     steps |-> AffinitySetUp \o TwoPorts("none", "none") \o PreferredProcedure("socket", "socket")]

\* _base_test_live_migration()
LiveMigration(vnic) ==
    LET round(back) == <<[op |-> "live_migrate", back |-> back], [op |-> "migrated"], [op |-> "count"]>>
    IN  [skip |-> SkippedSriov \/ Cardinality(Hosts) < 2,
         steps |-> SetUp \o <<Port(vnic, "none"), Create(1, "none", 0, FALSE)>> \o round(FALSE)
                   \o (IF conf.back_and_forth THEN round(TRUE) ELSE <<>>)]

\* The options with the IDs of the NIC are taken to be set.
SkippedAttach == SkippedSriov \/ ~conf.hotplug

\* Mutant: the port is not waited for.
AttachAndDetachNoWait(vnic) ==
    [skip |-> SkippedAttach,
     steps |-> SetUp \o <<Create(0, "none", 0, FALSE), Create(0, "none", 0, FALSE), Port(vnic, "none"),
                 On("attach", 1), On("attached", 1), On("detach", 1),
                 On("attach", 2), On("attached", 2), On("detach", 2), On("wait_detach", 2)>>]

\* _base_test_attach_and_detach_sriov_port()
AttachAndDetach(vnic) ==
    LET round(i) == <<On("attach", i), On("attached", i), On("detach", i), On("wait_detach", i)>>
    IN  [skip |-> SkippedAttach,
         steps |-> SetUp \o <<Create(0, "none", 0, FALSE), Create(0, "none", 0, FALSE),
                              Port(vnic, "none")>> \o round(1) \o round(2)]

test_sriov_direct_physical_attach_detach_port == AttachAndDetach("direct-physical")

\* A server with a vDPA port; VDPASmokeTests.setUp() is that of the SR-IOV tests.
Vdpa(skip, steps) ==
    [skip |-> conf.vdpa = "none" \/ skip,
     steps |-> SetUp \o <<Port("vdpa", "none"), Create(1, "none", 0, FALSE)>> \o steps]

VdpaChecked(where) == [op |-> "vdpa", where |-> where]

test_guest_creation_with_vdpa_port == Vdpa(FALSE, <<VdpaChecked("anywhere")>>)

test_vdpa_cold_migration ==
    Vdpa(Cardinality(Hosts) < 2 \/ conf.vdpa # "migration",
         <<[op |-> "cold_migrate"], [op |-> "confirm"], VdpaChecked("elsewhere")>>)

test_revert_vdpa_cold_migration ==
    Vdpa(Cardinality(Hosts) < 2 \/ conf.vdpa # "migration",
         <<[op |-> "cold_migrate"], [op |-> "revert"], VdpaChecked("back")>>)

test_vdpa_to_standard_resize ==
    Vdpa(conf.vdpa # "migration", <<[op |-> "resize"], [op |-> "confirm"], VdpaChecked("anywhere")>>)

\* What happens within stopped() is in Evacuation.
test_evacuate_server_vdpa ==
    Vdpa(Cardinality(Hosts) < 2, <<[op |-> "evacuate"], VdpaChecked("evacuated")>>)

Test(t) ==
    CASE t = "test_sriov_affinity_preferred_with_flavor" -> test_sriov_affinity_preferred_with_flavor
      [] t = "test_sriov_affinity_required_with_flavor" -> test_sriov_affinity_required_with_flavor
      [] t = "test_sriov_affinity_preferred_with_image" -> test_sriov_affinity_preferred_with_image
      [] t = "test_sriov_affinity_required_with_image" -> test_sriov_affinity_required_with_image
      [] t = "test_sriov_affinity_preferred_with_port_policy" ->
            test_sriov_affinity_preferred_with_port_policy
      [] t = "test_sriov_mixed_affinity_port_policies" -> test_sriov_mixed_affinity_port_policies
      [] t = "test_sriov_affinity_required_with_port_policy" ->
            test_sriov_affinity_required_with_port_policy
      [] t = "test_sriov_affinity_port_policy_precedence_flavor" ->
            test_sriov_affinity_port_policy_precedence_flavor
      [] t = "test_sriov_affinity_port_policy_precedence_image" ->
            test_sriov_affinity_port_policy_precedence_image
      [] t = "test_sriov_affinity_socket_policy" -> test_sriov_affinity_socket_policy
      [] t = "test_sriov_direct_live_migration" -> LiveMigration("direct")
      [] t = "test_sriov_macvtap_live_migration" -> LiveMigration("macvtap")
      [] t = "test_sriov_direct_attach_detach_port" -> AttachAndDetach("direct")
      [] t = "test_sriov_macvtap_attach_detach_port" -> AttachAndDetach("macvtap")
      [] t = "test_sriov_direct_physical_attach_detach_port" ->
            test_sriov_direct_physical_attach_detach_port
      [] t = "test_guest_creation_with_vdpa_port" -> test_guest_creation_with_vdpa_port
      [] t = "test_vdpa_cold_migration" -> test_vdpa_cold_migration
      [] t = "test_revert_vdpa_cold_migration" -> test_revert_vdpa_cold_migration
      [] t = "test_vdpa_to_standard_resize" -> test_vdpa_to_standard_resize
      [] t = "test_evacuate_server_vdpa" -> test_evacuate_server_vdpa

Script == Test(test).steps

-----------------------------------------------------------------------------
(* What the tests assert.                                                  *)

\* _get_expected_xml_interface_type(): a 'direct' port is a hostdev in the domain.
ExpectedType(vnic) ==
    CASE vnic = "macvtap" -> "direct"
      [] vnic = "vdpa" -> "vdpa"
      [] OTHER -> "hostdev"

\* _get_xml_interface_device()
InterfaceFound(i, p) == servers[i].iface.type = ExpectedType(ports[p].vnic)

\* The same, and _validate_port_xml_vlan_tag().
InterfaceChecked(i, p) == InterfaceFound(i, p) /\ servers[i].iface.vlan

\* Mutant: the address of the function is not compared.
BindingCheckedStatus(rows, p) == \A d \in rows : pci[d].status = "allocated"

\* _verify_neutron_port_binding(), over the rows that name the server.
BindingChecked(rows, p) ==
    \A d \in rows :
        /\ pci[d].status = "allocated"
        /\ d[2] = ports[p].slot
        /\ DevType(d) = TypeFor(ports[p].vnic)

\* _check_device_in_guest()
DeviceInGuest(i) == servers[i].iface # NoInterface

\* _validate_port_data_after_attach(), the domain, lspci in the guest, and the table.
AttachedChecked(i, rows) ==
    LET iface == servers[i].iface
        physical == ports[1].vnic = "direct-physical"
    IN  /\ (iface.mac # "original") = physical
        /\ IF physical THEN iface.type = "pci" /\ iface.address = ports[1].slot
                       ELSE InterfaceChecked(i, 1)
        /\ DeviceInGuest(i)
        /\ BindingChecked(rows, 1)

MigratedChecked(rows) == InterfaceChecked(1, 1) /\ BindingChecked(rows, 1)

\* The host of the server, the interface (whose rx_queue_size is left out), and the
\* table.  A server that is evacuated has no domain yet.
VdpaAsserted(where, rows) ==
    /\ where \in {"elsewhere", "evacuated"} => servers[1].host # servers[1].first
    /\ where = "back" => servers[1].host = servers[1].first
    /\ where # "evacuated" => InterfaceFound(1, 1)
    /\ BindingChecked(rows, 1)

\* _get_dedicated_cpus_from_numa_node()
WithAffinity == cpu_dedicated_set \cap Cpus(AffinityNode)

RequiredChecked == servers[1].pins = WithAffinity /\ InterfaceChecked(1, 1)

\* Server B has its CPUs from `pool`.
PreferredChecked(pool) ==
    /\ servers[1].pins = WithAffinity
    /\ servers[2].pins \subseteq pool
    /\ servers[1].pins \cap servers[2].pins = {}
    /\ \A i \in 1..2 : InterfaceChecked(i, i)

\* _get_cpu_ids_with_socket_affinity()
OnSocket == UNION {Cpus(n) : n \in SocketNodes} \cap cpu_dedicated_set

\* `table` is the part of the pci_devices table that is looked at.
Asserted(s, table) ==
    CASE s.op = "attached" -> AttachedChecked(s.server, Held(s.server) \cap table)
      [] s.op = "migrated" -> MigratedChecked(Held(1) \cap table)
      [] s.op = "vdpa" -> VdpaAsserted(s.where, Held(1) \cap table)
      [] s.op = "required" -> RequiredChecked
      [] s.op = "preferred" -> PreferredChecked(cpu_dedicated_set)
      [] s.op = "socket" -> PreferredChecked(OnSocket)

-----------------------------------------------------------------------------
(* The steps of a test.                                                    *)

Begin ==
    /\ test = "none" /\ failed = 0 /\ lost = {}
    /\ test' \in Tests
    /\ LET t == Test(test')
       IN  IF t.skip THEN verdict' = "skipped" /\ UNCHANGED todo
                     ELSE verdict' = "running" /\ todo' = t.steps
    /\ UNCHANGED <<deployment, resources, slept, fault, oldest, excuse>>

Now(op) == verdict = "running" /\ todo # <<>> /\ Head(todo).op = op

Advance == todo' = Tail(todo) /\ excuse' = "none" /\ UNCHANGED <<test, slept, verdict>>

FailBecause(why) ==
    verdict' = "failed" /\ todo' = <<>> /\ excuse' = why /\ UNCHANGED <<test, slept>>

Fail == FailBecause(excuse)

\* addCleanup()
Register(kind, of) == cleanups' = Append(cleanups, [kind |-> kind, of |-> of])

\* _create_net_from_physical_network(), _create_subnet() and copy_default_image().
MakeResource ==
    /\ Now("make")
    /\ made' = made \cup {Head(todo).kind}
    /\ Register(Head(todo).kind, 0)
    /\ Advance
    /\ UNCHANGED <<deployment, failed, lost, fault, oldest>>

\* create_flavor(vcpus=self.dedicated_cpus_per_numa), which may be None.
CreateFlavor ==
    /\ Now("flavor")
    /\ IF conf.numa THEN Advance ELSE Fail
    /\ UNCHANGED <<deployment, resources, fault, oldest>>

NewPort == [vnic |-> Head(todo).vnic, policy |-> Head(todo).policy,
            device |-> 0, slot |-> 0, there |-> TRUE]

\* Mutant: the deletion of the port is left to others.
CreatePortOnly ==
    /\ Now("port")
    /\ ports' = Append(ports, NewPort)
    /\ Advance
    /\ UNCHANGED <<conf, pci, servers, pending, made, cleanups, failed, lost, fault, oldest>>

\* _create_port_from_vnic_type()
CreatePort ==
    /\ Now("port")
    /\ ports' = Append(ports, NewPort)
    /\ Register("port", Len(ports) + 1)
    /\ Advance
    /\ UNCHANGED <<conf, pci, servers, pending, made, failed, lost, fault, oldest>>

Server(h, pins, iface) ==
    [host |-> h, first |-> h, pins |-> pins, iface |-> iface, there |-> TRUE]

\* A port has a policy of its own, or follows the flavor or the image.
Policy(s) == IF s.port # 0 /\ ports[s.port].policy # "none" THEN ports[s.port].policy
                                                             ELSE s.policy

\* What Nova does: one of the outcomes it should have, or one it should not.
Done(outcomes, others, Effect(_)) ==
    \/ \E o \in outcomes : Effect(o) /\ UNCHANGED fault
    \/ ~fault /\ fault' = TRUE /\ \E o \in others : Effect(o)

\* Mutant: the deletion is registered before the server is there.
NotBuiltRegistered(i) == Register("server", i)

\* super().create_test_server() raises, and addCleanup() is not reached.
NotBuilt(i) == UNCHANGED cleanups

\* create_test_server() without a port.
CreatePlainServer ==
    /\ Now("create") /\ Head(todo).port = 0
    /\ \E h \in Hosts : servers' = Append(servers, Server(h, {}, NoInterface))
    /\ Register("server", Len(servers) + 1)
    /\ Advance
    /\ UNCHANGED <<conf, pci, ports, pending, made, failed, lost, fault, oldest>>

\* create_test_server() with a port, on any host or on that of another server.
\* Where Nova cannot build the server, BuildErrorException is raised.
CreateServer ==
    /\ Now("create") /\ Head(todo).port # 0
    /\ LET s == Head(todo)
           p == s.port
           i == Len(servers) + 1
           vnic == ports[p].vnic
           hosts == IF s.of = 0 THEN Hosts ELSE {servers[s.of].host}
           right == UNION {Outcomes(h, vnic, Policy(s)) : h \in hosts}
           anywhere == UNION {{Outcome(d, vnic, Cpus(n)) : d \in Usable(h, vnic), n \in Nodes} :
                              h \in hosts}
           others == IF right = {} THEN anywhere ELSE UNION {Wrong(o) : o \in right}
           Built(o) == /\ servers' = Append(servers, Server(o.device[1], o.pins, o.iface))
                       /\ pci' = Recorded(o, i)
                       /\ ports' = Bound(p, o, i)
       IN  \/ /\ Done(right, others, Built)
              /\ Register("server", i)
              /\ IF s.fails THEN Fail ELSE Advance
              /\ UNCHANGED <<conf, pending, made, failed, lost, oldest>>
           \/ /\ right = {}
              /\ IF s.fails THEN Advance ELSE Fail
              /\ NotBuilt(i)
              /\ UNCHANGED <<deployment, made, failed, lost, fault, oldest>>

\* The functions that Nova is about to release, and whether h has one for a port.
Releasing == {w.device : w \in {v \in pending : v.kind = "release"}}

AwaitsRelease(h, vnic) == \E d \in Releasing : d[1] = h /\ DevType(d) = TypeFor(vnic)

\* create_interface(): refused if the port is in use, or no function is left for it.
AttachInterface ==
    /\ Now("attach")
    /\ LET i == Head(todo).server
           right == IF ports[1].device # 0 THEN {}
                    ELSE Outcomes(servers[i].host, ports[1].vnic, "none")
           Attached(o) == /\ servers' = [servers EXCEPT ![i].iface = o.iface]
                          /\ pci' = Recorded(o, i)
                          /\ ports' = Bound(1, o, i)
       IN  \/ Done(right, UNION {Wrong(o) : o \in right}, Attached) /\ Advance
           \/ /\ right = {}
              /\ FailBecause(IF ports[1].device = 0 /\ AwaitsRelease(servers[i].host, ports[1].vnic)
                             THEN "stale" ELSE "none")
              /\ UNCHANGED <<pci, ports, servers, fault>>
    /\ UNCHANGED <<conf, pending, resources, oldest>>

\* delete_interface() returns before Nova has begun.
DetachInterface ==
    /\ Now("detach")
    /\ pending' = pending \cup {[kind |-> "detach", server |-> Head(todo).server, port |-> 1]}
    /\ Advance
    /\ UNCHANGED <<conf, pci, ports, servers, resources, fault, oldest>>

\* wait_for_port_detach(): it raises only if the last poll has found the port in use.
WaitForPortDetach ==
    /\ Now("wait_detach")
    /\ \/ ports[1].device = 0 /\ Advance
       \/ /\ ports[1].device # 0
          /\ FailBecause("slow")
    /\ UNCHANGED <<deployment, resources, fault, oldest>>

\* The status that Nova gives to the function on the target of a migration, if it
\* has no hot-plugging: either, says _base_test_live_migration().
Landed(outcomes) ==
    outcomes \cup (IF conf.hotplug THEN {} ELSE {[o EXCEPT !.status = "claimed"] : o \in outcomes})

Destinations(hosts) == UNION {Outcomes(h, ports[1].vnic, "none") : h \in hosts}

Releases(devices) == {[kind |-> "release", server |-> 1, device |-> d] : d \in devices}

\* Every migration stays in the list.  Only the tests of vDPA ask for it.
Listed(status) == oldest' = IF conf.vdpa = "none" \/ oldest # "none" THEN oldest ELSE status

\* Nova moves the server, and has then still to do what is in `later`; or the move fails.
Move(right, later, status) ==
    LET Moved(o) ==
            /\ servers' = [servers EXCEPT ![1].host = o.device[1], ![1].iface = o.iface]
            /\ pci' = Recorded(o, 1)
            /\ ports' = Bound(1, o, 1)
            /\ pending' = pending \cup later
    IN  \/ Done(right, UNION {Wrong(o) : o \in right}, Moved) /\ Listed(status) /\ Advance
        \/ /\ right = {} \/ ~fault
           /\ fault' = (fault \/ right # {})
           /\ Listed("failed") /\ Fail /\ UNCHANGED <<pci, ports, servers, pending>>

\* live_migrate(), anywhere else or back to the first host.  The server is ACTIVE
\* there while the function on the source is still to be released.
LiveMigrate ==
    /\ Now("live_migrate")
    /\ LET hosts == IF Head(todo).back THEN {servers[1].first} ELSE Hosts \ {servers[1].host}
       IN  Move(Landed(Destinations(hosts)), Releases(Held(1)), "done")
    /\ UNCHANGED <<conf, resources>>

\* Within stopped(), shutdown_server_domain() and evacuate_server().  The wait looks at
\* the last migration in the list, which is the oldest one: it ends with this evacuation
\* if that is the only one.  Otherwise it returns at once, raises at once, or goes on
\* until it times out, for a status that it does not know; Nova evacuates the server
\* meanwhile, or does not.
Evacuate ==
    /\ Now("evacuate")
    /\ \/ /\ oldest = "none"
          /\ Move(Destinations(Hosts \ {servers[1].host}), Releases(Held(1)), "done")
       \/ /\ oldest # "none"
          /\ IF oldest = "done" THEN Advance ELSE FailBecause("older")
          /\ pending' = pending \cup {[kind |-> "evacuation", server |-> 1, port |-> 1]}
          /\ UNCHANGED <<pci, ports, servers, fault, oldest>>
    /\ UNCHANGED <<conf, resources>>

\* migrate_server() to another host, or resize_server() to any; VERIFY_RESIZE.  The
\* server has its function on the source until the one or the other is given up.
\* The status of the migration is "finished", and then "confirmed" or "reverted".
ColdMigrate ==
    /\ Now("cold_migrate") \/ Now("resize")
    /\ LET hosts == IF Head(todo).op = "resize" THEN Hosts ELSE Hosts \ {servers[1].host}
       IN  Move(Destinations(hosts),
                {[kind |-> "resize", server |-> 1, host |-> servers[1].host,
                  iface |-> servers[1].iface, slot |-> ports[1].slot, devices |-> Held(1)]},
                "finished")
    /\ UNCHANGED <<conf, resources>>

\* confirm_resize_server(): the functions on the source are to be released.
ConfirmResize ==
    /\ Now("confirm")
    /\ \E w \in pending : w.kind = "resize" /\ pending' = (pending \ {w}) \cup Releases(w.devices)
    /\ Advance
    /\ UNCHANGED <<conf, pci, ports, servers, resources, fault, oldest>>

\* revert_resize_server(), after which the server is as it was on the source, and
\* the functions on the destination are to be released; or Nova leaves it there.
RevertResize ==
    /\ Now("revert")
    /\ \E w \in pending :
          /\ w.kind = "resize"
          /\ \/ /\ servers' = [servers EXCEPT ![1].host = w.host, ![1].iface = w.iface]
                /\ ports' = [ports EXCEPT ![1].slot = w.slot]
                /\ pending' = (pending \ {w}) \cup Releases(Held(1) \ w.devices)
                /\ UNCHANGED fault
             \/ /\ ~fault /\ fault' = TRUE
                /\ pending' = (pending \ {w}) \cup Releases(w.devices)
                /\ UNCHANGED <<servers, ports>>
    /\ Advance
    /\ UNCHANGED <<conf, pci, resources, oldest>>

\* What Nova was not done with, if that is why an assertion does not hold: a server that
\* is not moved yet, or rows that are to be released.
Unfinished ==
    CASE \E w \in pending : w.kind = "evacuation" -> "older"
      [] Asserted(Head(todo), Devices \ Releasing) -> "stale"
      [] OTHER -> "none"

CheckAssertions ==
    /\ \E op \in {"attached", "migrated", "required", "preferred", "socket", "vdpa"} : Now(op)
    /\ IF Asserted(Head(todo), Devices) THEN Advance ELSE FailBecause(Unfinished)
    /\ UNCHANGED <<deployment, resources, fault, oldest>>

\* _get_pci_status_count(): the status is compared with `=`.
PciStatusCount(status) == Cardinality({d \in Devices : pci[d].status = status})

\* _validate_pci_allocation(): poll, sleep, and give up after some sleep.
ValidatePciAllocation ==
    /\ Now("count")
    /\ LET regex == IF conf.hotplug THEN "allocated" ELSE "allocated|claimed"
           meant == IF conf.hotplug THEN {"allocated"} ELSE {"allocated", "claimed"}
       IN  \/ ~slept /\ PciStatusCount(regex) = 1 /\ Advance
           \/ /\ ~slept /\ PciStatusCount(regex) # 1
              /\ slept' = TRUE
              /\ excuse' = IF Cardinality({d \in Devices : pci[d].status \in meant}) = 1
                           THEN "none" ELSE "slow"
              /\ UNCHANGED <<test, todo, verdict>>
           \/ slept /\ slept' = FALSE /\ UNCHANGED <<test, todo, excuse, verdict>>
           \/ slept /\ Fail
    /\ UNCHANGED <<deployment, resources, fault, oldest>>

\* A call that makes or changes something raises.  It has not done it; or it has, and
\* then what it made is lost, for addCleanup() is not reached.  Other calls leave nothing
\* that is not deleted with the server; create_test_server() deletes what it cannot build.
CallRaises ==
    /\ ~fault /\ fault' = TRUE
    /\ \/ /\ \E op \in {"make", "flavor", "port", "create", "attach", "detach", "confirm", "revert"} :
                Now(op)
          /\ UNCHANGED <<made, ports, lost>>
       \/ /\ Now("make")
          /\ made' = made \cup {Head(todo).kind} /\ lost' = {Head(todo).kind}
          /\ UNCHANGED ports
       \/ /\ Now("port")
          /\ ports' = Append(ports, NewPort) /\ lost' = {"port"}
          /\ UNCHANGED made
    /\ Fail
    /\ UNCHANGED <<conf, pci, servers, pending, cleanups, failed, oldest>>

Pass ==
    /\ verdict = "running" /\ todo = <<>>
    /\ verdict' = "passed"
    /\ UNCHANGED <<deployment, resources, test, todo, slept, fault, oldest, excuse>>

-----------------------------------------------------------------------------
(* The clean-up.  A deletion that raises does not keep the others from     *)
(* being done.                                                             *)

CleaningUp(kind) == verdict # "running" /\ cleanups # <<>> /\ Last(cleanups).kind = kind

Deleted == cleanups' = Front(cleanups) /\ UNCHANGED <<failed, lost, progress>>

\* _admin_delete_server() waits until the server is gone, and what it had is free.
DeleteServer ==
    /\ CleaningUp("server")
    /\ LET i == Last(cleanups).of
       IN  /\ servers' = [servers EXCEPT ![i].there = FALSE]
           /\ pci' = [d \in Devices |-> IF d \in Held(i) THEN Available ELSE pci[d]]
           /\ ports' = [p \in DOMAIN ports |->
                           IF ports[p].device = i THEN [ports[p] EXCEPT !.device = 0, !.slot = 0]
                                                  ELSE ports[p]]
           /\ pending' = {w \in pending : w.server # i}
    /\ Deleted
    /\ UNCHANGED <<conf, made>>

\* delete_port(): Nova hears of it, and takes the interface out of the server.
DeletePort ==
    /\ CleaningUp("port")
    /\ LET p == Last(cleanups).of
       IN  /\ ports' = [ports EXCEPT ![p].there = FALSE]
           /\ pending' = IF ports[p].device = 0 THEN pending
                         ELSE pending \cup {[kind |-> "detach", server |-> ports[p].device, port |-> p]}
    /\ Deleted
    /\ UNCHANGED <<conf, pci, servers, made>>

\* Neutron does not delete a network or a subnet that has ports.
InUse(kind) == kind \in {"network", "subnet"} /\ \E p \in DOMAIN ports : ports[p].there

\* Neutron deletes a network with its subnets.
DeleteResource ==
    /\ \E kind \in {"network", "subnet", "image"} :
          /\ CleaningUp(kind) /\ ~InUse(kind)
          /\ made' = made \ (IF kind = "network" THEN {"network", "subnet"} ELSE {kind})
    /\ Deleted
    /\ UNCHANGED deployment

\* A deletion raises: that of a server is logged, any other one is reported.
DeletionFails ==
    /\ verdict # "running" /\ cleanups # <<>>
    /\ \/ failed < MaxFailed /\ failed' = failed + 1
       \/ InUse(Last(cleanups).kind) /\ UNCHANGED failed
    /\ cleanups' = Front(cleanups)
    /\ UNCHANGED <<deployment, made, lost, progress>>

End ==
    /\ test # "none" /\ verdict # "running" /\ cleanups = <<>>
    /\ IF \E r \in Range(servers \o ports) : r.there
       THEN UNCHANGED <<servers, ports>>
       ELSE servers' = <<>> /\ ports' = <<>>
    /\ test' = "none" /\ slept' = FALSE /\ fault' = FALSE /\ excuse' = "none"
    /\ UNCHANGED <<conf, pci, pending, resources, todo, oldest, verdict>>

Nova == Unbind \/ Evacuated \/ Release

Next ==
    \/ Begin
    \/ MakeResource
    \/ CreateFlavor
    \/ CreatePort
    \/ CreatePlainServer
    \/ CreateServer
    \/ AttachInterface
    \/ DetachInterface
    \/ WaitForPortDetach
    \/ LiveMigrate
    \/ Evacuate
    \/ ColdMigrate
    \/ ConfirmResize
    \/ RevertResize
    \/ CheckAssertions
    \/ ValidatePciAllocation
    \/ CallRaises
    \/ Pass
    \/ DeleteServer
    \/ DeletePort
    \/ DeleteResource
    \/ DeletionFails
    \/ End
    \/ Nova /\ UNCHANGED <<resources, progress>>

Spec == Init /\ [][Next]_vars

-----------------------------------------------------------------------------
(* Properties.                                                             *)

\* What a test needs of the deployment beyond what its skip checks ask for.
Needs(t) ==
    CASE t = "test_sriov_affinity_socket_policy" ->
            conf.numa /\ AffinityNode \in SocketNodes /\ Cardinality(SocketNodes) >= 2
      [] t \in MigrationTests -> conf.hotplug
      [] t \in VdpaTests \cup AttachTests -> TRUE
      [] OTHER -> Cardinality(Nodes) >= 2 /\ ~conf.few

(* A test that fails, on a deployment that has what it needs, has a reason: *)
(* Nova got something wrong, or a wait ended before Nova was done ("slow"). *)
(* Or Nova was behind: an assertion does not hold that would if the rows    *)
(* that are to be released were, or the second attachment is refused while  *)
(* the only function of the host is to be released ("stale", for            *)
(* wait_for_port_detach() waits for the port alone); or evacuate_server()   *)
(* looked at an older migration ("older").  Where a host has two functions, *)
(* the second attachment succeeds however late the first is released.       *)
NoFalseAlarm ==
    test # "none" /\ ~fault /\ excuse = "none" /\ Needs(test) => verdict # "failed"

(* "Confirm dev_type, allocation status, and pci address information are   *)
(* correct in pci_devices table" (test_sriov.py:754): but the table is     *)
(* read before _validate_pci_allocation() waits for the source to release  *)
(* its function.                                                           *)
BindingReadInTime ==
    test \in MigrationTests /\ ~fault /\ excuse # "slow" /\ Needs(test) => verdict # "failed"

\* The rows of the host of server 1 that name it.
Rows == {d \in Held(1) : d[1] = servers[1].host}

\* "dev_type, allocation status, and pci address information are correct in pci_devices
\* table": there is one row for the server on its host, and it is that of the port.
RowCorrect ==
    /\ Rows = {<<servers[1].host, ports[1].slot>>}
    /\ \A d \in Rows : pci[d].status = "allocated" /\ DevType(d) = TypeFor(ports[1].vnic)

\* What the docstrings and comments of the tests say they are there to see.  That the
\* CPUs of the first server are those of the node of the function with its own PCI
\* address, step 7 of test_sriov_affinity_required_with_flavor(), no test looks at.
Promised ==
    CASE test \in MigrationTests ->
            /\ InterfaceChecked(1, 1)
            /\ RowCorrect
            /\ PciStatusCount("allocated") = 1
            /\ (servers[1].host = servers[1].first) = conf.back_and_forth
      [] test \in VdpaTests ->
            /\ RowCorrect
            /\ test \in {"test_vdpa_cold_migration", "test_evacuate_server_vdpa"} =>
                  servers[1].host # servers[1].first
            /\ test = "test_revert_vdpa_cold_migration" => servers[1].host = servers[1].first
      [] test \in AttachTests -> ports[1].device = 0 /\ \A i \in 1..2 : servers[i].iface = NoInterface
      [] Script[Len(Script)].op = "required" ->
            /\ Len(servers) = 1 /\ servers[1].pins = Cpus(AffinityNode) /\ InterfaceChecked(1, 1)
            /\ Usable(servers[1].host, conf.vnic) # {}
      [] OTHER ->
            /\ Len(servers) = 2 /\ servers[1].pins = Cpus(AffinityNode)
            /\ \E n \in IF Script[Len(Script)].op = "socket" THEN SocketNodes ELSE Nodes :
                  servers[2].pins \subseteq Cpus(n) /\ servers[2].pins # {} /\ n # AffinityNode

\* What the tests take for it: a table without a row for the server on its host, over
\* which _verify_neutron_port_binding() asserts nothing, while the row of the source may
\* be the one that _validate_pci_allocation() counts; a second server that is not built
\* because its host has no function left; a second server that is not pinned at all.
TakenForIt ==
    CASE test \in MigrationTests \cup VdpaTests -> Rows = {}
      [] test \in AttachTests -> FALSE
      [] Script[Len(Script)].op = "required" -> Usable(servers[1].host, conf.vnic) = {}
      [] OTHER -> servers[2].pins = {}

(* A test that passes has seen what it is there to see, whatever Nova did:  *)
(* after a migration one and only one function is allocated, on the host    *)
(* where the server now is, and it is the one that the port names; the port *)
(* free again after it was attached to both servers; the NUMA node of the   *)
(* device taken by the first server, and the second one on another node, or *)
(* not built though there is a function for it.  The exceptions are those   *)
(* of TakenForIt, and no others.                                            *)
PassMeansPromise ==
    [][verdict = "running" /\ verdict' = "passed" => Promised \/ TakenForIt]_vars

(* However a test ended, and if no deletion failed, the next one finds no   *)
(* port, subnet, network, image or server of it, and every function         *)
(* available: the deletions run in an order in which none is refused.  Only *)
(* what was made by a call that raised is left, and with a port the subnet  *)
(* and the network that Neutron does not delete then; a subnet goes with    *)
(* its network.                                                             *)
CleanedUp ==
    test = "none" /\ failed = 0 =>
        /\ \A i \in DOMAIN servers : ~servers[i].there
        /\ pending = {} /\ \A d \in Devices : pci[d] = Available
        /\ IF "port" \in lost
           THEN /\ made \subseteq {"network", "subnet"}
                /\ Cardinality({p \in DOMAIN ports : ports[p].there}) = 1
           ELSE ports = <<>> /\ made \subseteq lost \ {"subnet"}
=============================================================================
