----------------------------- MODULE SriovHosts -----------------------------
(***************************************************************************)
(* What the SR-IOV tests deal with: compute hosts with NUMA nodes and PCI  *)
(* functions, the pci_devices table in which Nova keeps track of the       *)
(* functions, the ports of Neutron, and the servers whose domains have an  *)
(* interface for a port.                                                   *)
(*                                                                         *)
(* Nova works on its own after an API call has returned: a detached port   *)
(* is unbound some time later, and the function it had is released later   *)
(* still; a migration that is over releases the function on the source     *)
(* after the server is ACTIVE again; and an evacuation takes its time.     *)
(***************************************************************************)
EXTENDS Integers, FiniteSets, Sequences, SequencesExt

CONSTANTS
    Hosts,          \* compute hosts, all with the same topology
    Nodes,          \* NUMA nodes of every host
    AffinityNode,   \* physnet_numa_affinity
    SocketNodes,    \* socket_topology[socket_affinity]
    VfSlots,        \* PCI addresses of virtual functions, the same on every host
    PfSlots,        \* PCI addresses of physical functions
    VdpaSlots       \* PCI addresses of vDPA devices, where there are any

ASSUME SriovAssumption ==
    /\ IsFiniteSet(Hosts) /\ IsFiniteSet(Nodes) /\ Nodes \subseteq Nat
    /\ AffinityNode \in Nodes /\ SocketNodes \subseteq Nodes
    /\ VfSlots \cap PfSlots = {} /\ (VfSlots \cup PfSlots) \cap VdpaSlots = {}
    /\ VfSlots \cup PfSlots \cup VdpaSlots \subseteq Nat \ {0}

VARIABLES
    conf,       \* what tempest.conf says
    pci,        \* the pci_devices table: the status and the server of a function
    ports,      \* ports of the test, with the server in device_id (or 0) and the pci_slot
    servers,    \* servers of the test: host, pinned CPUs, interface of the port
    pending     \* what Nova has still to do

\* Where there are few, every host has one virtual function.
Slots == (IF conf.few THEN {Min(VfSlots)} ELSE VfSlots)
         \cup PfSlots \cup (IF conf.vdpa = "none" THEN {} ELSE VdpaSlots)

Devices == Hosts \X Slots

Available == [status |-> "available", of |-> 0]

DevType(d) ==
    CASE d[2] \in PfSlots -> "type-PF"
      [] d[2] \in VfSlots -> "type-VF"
      [] d[2] \in VdpaSlots -> "vdpa"

\* The dev_type of the functions that a port can have.
TypeFor(vnic) ==
    CASE vnic = "vdpa" -> "vdpa"
      [] vnic = "direct-physical" -> "type-PF"
      [] OTHER -> "type-VF"

\* The functions on h that Nova may give to a port.
Usable(h, vnic) ==
    {d \in Devices : d[1] = h /\ pci[d] = Available /\ DevType(d) = TypeFor(vnic)}

\* Every node has two dedicated CPUs, which dedicated_cpus_per_numa says.
Cpus(n) == {2 * n, 2 * n + 1}

cpu_dedicated_set == UNION {Cpus(n) : n \in Nodes}

\* Nodes of h on which no CPU is pinned.
FreeNodes(h) ==
    {n \in Nodes : \A i \in DOMAIN servers :
        servers[i].there /\ servers[i].host = h => servers[i].pins \cap Cpus(n) = {}}

\* Nova prefers the node of the device, and may have to insist on it.
Fit(h, policy) ==
    LET allowed == CASE policy = "required" -> {AffinityNode}
                     [] policy = "socket" -> SocketNodes
                     [] OTHER -> Nodes
        free == FreeNodes(h) \cap allowed
    IN  IF AffinityNode \in free THEN {AffinityNode} ELSE free

\* "none" is the policy of a flavor that pins nothing.
Pinnings(h, policy) == IF policy = "none" THEN {{}} ELSE {Cpus(n) : n \in Fit(h, policy)}

NoInterface == [type |-> "none", vlan |-> FALSE, mac |-> "none", address |-> 0]

\* The element that Nova puts into a domain for a port, and the MAC of the port then.
Interface(vnic, d) ==
    [type |-> CASE vnic = "direct" -> "hostdev"
                [] vnic = "macvtap" -> "direct"
                [] vnic = "direct-physical" -> "pci"
                [] vnic = "vdpa" -> "vdpa",
     vlan |-> TRUE,
     mac |-> IF vnic = "direct-physical" THEN "physical" ELSE "original",
     address |-> d[2]]

\* What becomes of a port that gets function d: the row of the function and
\* whether it names the server, the pci_slot of the port, the interface and
\* the pinned CPUs of the server.
Outcome(d, vnic, pins) ==
    [device |-> d, status |-> "allocated", recorded |-> TRUE, slot |-> d[2],
     iface |-> Interface(vnic, d), pins |-> pins]

Outcomes(h, vnic, policy) ==
    {Outcome(d, vnic, pins) : d \in Usable(h, vnic), pins \in Pinnings(h, policy)}

\* One thing that a faulty Nova gets wrong.
Wrong(o) ==
    {[o EXCEPT !.status = "claimed"], [o EXCEPT !.recorded = FALSE]}
    \cup {[o EXCEPT !.slot = a] : a \in Slots \ {o.slot}}
    \cup {[o EXCEPT !.device[2] = a, !.slot = a] :
            a \in {b \in Slots : DevType(<<o.device[1], b>>) # DevType(o.device)
                                 /\ pci[<<o.device[1], b>>] = Available}}
    \cup {[o EXCEPT !.iface = NoInterface], [o EXCEPT !.iface.vlan = FALSE],
          [o EXCEPT !.iface.type = IF @ = "direct" THEN "hostdev" ELSE "direct"],
          [o EXCEPT !.iface.mac = IF @ = "original" THEN "physical" ELSE "original"]}
    \cup {[o EXCEPT !.iface.address = a] : a \in Slots \ {o.slot}}
    \cup (IF o.pins = {} THEN {} ELSE {[o EXCEPT !.pins = q] :
            q \in ({{}} \cup {Cpus(n) : n \in Nodes} \cup {{2 * n} : n \in Nodes}) \ {o.pins}})

Recorded(o, i) ==
    IF o.recorded THEN [pci EXCEPT ![o.device] = [status |-> o.status, of |-> i]] ELSE pci

Bound(p, o, i) == [ports EXCEPT ![p].device = i, ![p].slot = o.slot]

\* The functions that the table gives to server i.
Held(i) == {d \in Devices : pci[d].of = i}

-----------------------------------------------------------------------------
(* Nova on its own.                                                        *)

\* The interface is out of the domain, and the port has no device_id.
Unbind ==
    /\ \E w \in pending :
          /\ w.kind = "detach"
          /\ servers' = [servers EXCEPT ![w.server].iface = NoInterface]
          /\ ports' = [ports EXCEPT ![w.port].device = 0, ![w.port].slot = 0]
          /\ pending' = (pending \ {w}) \cup
                {[kind |-> "release", server |-> w.server, device |-> d] : d \in Held(w.server)}
    /\ UNCHANGED <<conf, pci>>

\* The rebuilding of a server on another host is over, where there is a function;
\* the source releases its own when its nova-compute is back.
Evacuated ==
    /\ \E w \in pending :
          /\ w.kind = "evacuation" /\ ports[w.port].there
          /\ \E h \in Hosts \ {servers[w.server].host} : \E o \in Outcomes(h, ports[w.port].vnic, "none") :
                /\ servers' = [servers EXCEPT ![w.server].host = h, ![w.server].iface = o.iface]
                /\ pci' = Recorded(o, w.server)
                /\ ports' = Bound(w.port, o, w.server)
          /\ pending' = (pending \ {w}) \cup
                {[kind |-> "release", server |-> w.server, device |-> d] : d \in Held(w.server)}
    /\ UNCHANGED conf

Release ==
    /\ \E w \in pending :
          /\ w.kind = "release"
          /\ pci' = [pci EXCEPT ![w.device] = Available]
          /\ pending' = pending \ {w}
    /\ UNCHANGED <<conf, ports, servers>>
=============================================================================
