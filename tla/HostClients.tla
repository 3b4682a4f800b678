----------------------------- MODULE HostClients -----------------------------
(* The clients of services/clients.py that run a command on a host and read *)
(* its output: how a client finds the host, where its commands run and what *)
(* is made of their output.  A text is abstracted to what is extracted from *)
(* it.  NUMAClient is left out: its one user, test_hugepages, is skipped.   *)
EXTENDS Integers, FiniteSetsExt, SequencesExt

VARIABLES
    conf,    \* the deployment, and what tempest.conf and nodes.yaml say of it
    nodes    \* utils._nodes: the hosts that nodes.yaml lists, once it is read

clientVars == <<conf, nodes>>

Hosts == {1, 2}
Services == {"libvirt", "nova-compute"}
NotRead == {0}
NoContainer == "none"

-----------------------------------------------------------------------------
(* Finding a host.  Names resolve at the runner where ctlplane_addresses is *)
(* empty.                                                                   *)

\* get_ctlplane_address returns: no CtrlplaneAddressResolutionError.
get_ctlplane_address(h) == conf.addresses = {} \/ h \in conf.addresses

\* utils._nodes after a look-up.
NodesRead == IF nodes = NotRead THEN conf.listed ELSE nodes

\* _nodes.get(host) is not None.
get_host_details(h) == h \in NodesRead

\* SSHClient.__init__ succeeds: an unknown host is noticed later only.
SSHClientMade(h) == get_ctlplane_address(h)

\* VirshXMLClient, QEMUImgClient and ServiceManager also read a section of the
\* host.
ServiceClientMade(h, service) ==
    /\ SSHClientMade(h)
    /\ get_host_details(h)
    /\ service \in conf.sections

\* container_name in the section of a service.
ContainerName(service) ==
    IF conf.named THEN service ELSE NoContainer

-----------------------------------------------------------------------------
(* Running a command.                                                       *)

\* Mutant: the container takes precedence over a deployment without any.
ExecutedInContainer(container) == container

\* SSHClient.execute: the container in which a command runs, NoContainer for
\* the host itself.
execute(container) ==
    IF conf.containers /\ container # NoContainer THEN container ELSE NoContainer

\* External: where the programs and logs of a service are.  In a containerised
\* deployment they may be installed on the host as well.
Found(service, where) ==
    IF where = NoContainer THEN ~conf.containers \/ service \in conf.installed
                           ELSE conf.containers /\ where = service

\* VirshXMLClient.dumpxml, capabilities, domblklist and secret_dumpxml succeed.
virsh == Found("libvirt", execute(ContainerName("libvirt")))

\* QEMUImgClient.info
info == Found("libvirt", execute(ContainerName("libvirt")))

\* The two commands of shutdown_server_domain, on a plain SSHClient.
virsh_shutdown == Found("libvirt", execute(NoContainer))

\* LogParserClient.parse: with zgrep container_name is unbound, and the host or
\* its section may be missing.
parse(h) ==
    /\ ~conf.zgrep
    /\ get_host_details(h) /\ "nova-compute" \in conf.sections
    /\ Found("nova-compute", execute(ContainerName("nova-compute")))

-----------------------------------------------------------------------------
(* Reading what was printed.                                                *)

\* SysFSClient.get_sysfs_values on the lines of grep -H: a path that was not
\* asked for raises ({}); of several lines of one path the last one counts,
\* since results is keyed by the path without /sys/.
get_sysfs_values(lines, paths) ==
    IF \E i \in DOMAIN lines : lines[i].path \notin paths THEN {}
    ELSE {[p \in {lines[i].path : i \in DOMAIN lines} |->
              lines[Max({i \in DOMAIN lines : lines[i].path = p})].value]}

\* SysFSClient.get_sysfs_value of a file of one line.
get_sysfs_value(path, value) ==
    LET result == get_sysfs_values(<<[path |-> path, value |-> value]>>,
                                   {path})
    IN  (CHOOSE r \in result : TRUE)[path]
=============================================================================
