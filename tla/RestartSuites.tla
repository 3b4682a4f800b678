---------------------------- MODULE RestartSuites ----------------------------
(* The tests that restart services through a manager that waits for Nova,   *)
(* of which one runs in a behaviour: the restart of virtqemud               *)
(* (VirtQEMUdRestart) or the tests of ProviderYaml, on the same hosts.      *)
EXTENDS VirtQEMUdRestart

VARIABLES
    suite,      \* the suite that runs
    test, part, servers, verdict, traits, rp, rp0, own, blamed

Y == INSTANCE ProviderYaml

yamlVars == <<test, part, servers, verdict, traits, rp, rp0, own, blamed>>

suiteVars == <<suite, vars, yamlVars>>

\* What ProviderYaml has beside the hosts, while it does not run.
YamlIdle ==
    /\ test = "test_invalid_trait"
    /\ part = 1 /\ servers = 0 /\ verdict = "running"
    /\ traits = {} /\ rp = [h \in Hosts |-> {}] /\ rp0 = rp
    /\ own = [h \in Hosts |-> TRUE]
    /\ blamed = FALSE

SuiteInit ==
    \/ /\ suite = "virtqemud"
       /\ conf = [h \in Hosts |-> [o \in Options |-> NoValue]]
       /\ Init
       /\ YamlIdle
    \/ /\ suite = "provider_yaml"
       /\ Y!Init
       /\ host = 1 /\ raised = FALSE /\ old = [h \in Hosts |-> TRUE]

VirtQEMUd(A) == suite = "virtqemud" /\ UNCHANGED <<suite, yamlVars>> /\ A

Yaml(A) == suite = "provider_yaml" /\ UNCHANGED <<suite, testVars>> /\ A

SuiteNext == VirtQEMUd(Next) \/ Yaml(Y!Next)

\* The test runner keeps running.
SuiteSpec ==
    /\ SuiteInit
    /\ [][SuiteNext]_suiteVars
    /\ WF_suiteVars(VirtQEMUd(Plugin))
    /\ WF_suiteVars(Yaml(Y!Plugin))

-----------------------------------------------------------------------------
(* The properties of ProviderYaml, by their names here.                     *)

\* The provider.yaml tests fail only if a call failed by itself, something was
\* late, Nova made a mistake, or an earlier run left its traits on other hosts
\* (test_provider_yaml.py, wait_for_trait_add_in_rp).
YamlNoFalseAlarm == Y!NoFalseAlarm

\* Servers are created when the target runs with the provider.yaml just
\* written, and has itself reported its trait unless an earlier run had
\* (test_provider_yaml.py).
TraitFromFile == suite = "provider_yaml" => Y!TraitFromFile
=============================================================================
