------------------------------ MODULE HostReads ------------------------------
(* What the tests read of the hosts, and from whom: a CPU specification     *)
(* that parse_cpu_spec is given (CpuSpec), or the tests of HostTests, which *)
(* read hosts and the database through the clients.  Tests run one after    *)
(* another; in a behaviour there is one or the other.                       *)
EXTENDS CpuSpec, DatabaseClient

CONSTANT HostCpus

VARIABLES
    suite,      \* "cpu_spec" or "hosts"
    conf, nodes,
    test, at, verdict, fault, pinned, offline, seen

H == INSTANCE HostTests

hostVars == <<conf, nodes, test, at, verdict, fault, pinned, offline, seen,
              dbVars>>

readVars == <<suite, vars, hostVars>>

ReadInit ==
    \/ /\ suite = "cpu_spec"
       /\ Init
       /\ test = "database" /\ internal = FALSE
       /\ H!Init
    \/ /\ suite = "hosts"
       /\ spec = <<>>
       /\ Init
       /\ H!Init

ReadNext ==
    \/ suite = "cpu_spec" /\ UNCHANGED <<suite, hostVars>> /\ Next
    \/ suite = "hosts" /\ UNCHANGED <<suite, vars>> /\ H!Next

ReadSpec == ReadInit /\ [][ReadNext]_readVars

-----------------------------------------------------------------------------
(* The properties of HostTests, by their names here.  Those of              *)
(* DatabaseClient have their own.                                           *)

\* The variables have their types; the parser collects CPU numbers only
\* (parse_cpu_spec), and cursor() closes a connection once.
ReadTypeOK == TypeOK /\ H!TypeOK

\* Where Nova makes no mistake and the deployment has what a test needs, it
\* does not fail, whatever earlier tests still release, and wherever the
\* clients' commands have to run (test_cpu_state, SSHClient.execute).
HostNoFalseAlarm == H!NoFalseAlarm

\* A test that passes has seen what it is about, mistakes of Nova included
\* (test_cpu_state).
HostPassMeansPromise == H!PassMeansPromise
=============================================================================
