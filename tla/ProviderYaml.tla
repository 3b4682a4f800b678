---------------------------- MODULE ProviderYaml ----------------------------
(***************************************************************************)
(* TestProviderYamlViaTraits (api/compute/test_provider_yaml.py).  A trait *)
(* is written into provider.yaml of a host, nova-compute is restarted      *)
(* there, reads the file and some time later gives the trait to its        *)
(* resource provider in Placement; servers that require the trait must     *)
(* then be built on that host.  Nothing removes the files or the traits,   *)
(* so the deployment may hold those of earlier runs, for which Placement   *)
(* may have listed the hosts in another order.                             *)
(*                                                                         *)
(* The option "traits" of ComputeService's files stands for the trait that *)
(* provider.yaml names.                                                    *)
(***************************************************************************)
EXTENDS NovaServiceManager

VARIABLES
    test,       \* the test that runs
    part,       \* 1: trait_a for host2, 2: trait_b for host1
    servers,    \* number of servers built
    verdict,    \* "running", "passed" or "failed"
    traits,     \* the traits that Placement knows
    rp,         \* rp[h]: the traits of the resource provider of h
    rp0,        \* history: rp when the test began
    own,        \* history: the present process of h has reported to Placement
    blamed      \* history: a call failed by itself, something was too late, or
                \* Nova made a mistake

testVars == <<test, part, servers, verdict>>
placementVars == <<traits, rp, own>>
vars == <<serviceVars, managerVars, testVars, placementVars, rp0, blamed>>

Option == "traits"
Trait == IF part = 1 THEN "trait_a" ELSE "trait_b"
Target == IF part = 1 THEN 2 ELSE 1

InFile(h) == {loaded[h][Option]} \ {NoValue}

Init ==
    /\ ServiceInit
    /\ rp \in [Hosts -> SUBSET Values]
    /\ \A h \in Hosts : InFile(h) \subseteq rp[h]
    /\ rp0 = rp
    /\ traits = UNION {rp[h] : h \in Hosts}
    /\ own = [h \in Hosts |-> TRUE]
    /\ test \in {"test_valid_trait_with_provider_yaml", "test_invalid_trait"}
    /\ pc = IF test = "test_invalid_trait" THEN "list_invalid" ELSE "trait"
    /\ polls = 0
    /\ part = 1
    /\ servers = 0
    /\ verdict = "running"
    /\ blamed = FALSE

-----------------------------------------------------------------------------
(* How a call ends.                                                        *)

Keep == UNCHANGED <<testVars, blamed>>

Ends(v) == Goto("end") /\ verdict' = v /\ UNCHANGED <<test, part, servers>>

\* A call fails by itself, or a wait times out.
Raise == Ends("failed") /\ blamed' = TRUE

\* An assertion fails as Nova did what it should not.
Mistaken == Ends("failed") /\ blamed' = TRUE

\* An assertion fails.
Fail == Ends("failed") /\ UNCHANGED blamed

-----------------------------------------------------------------------------
(* _create_provider_yaml_at_target_host                                    *)

\* create_trait, any exception of which is swallowed.
CreateTrait ==
    /\ pc = "trait"
    /\ Goto("prepare")
    /\ \/ traits' = traits \cup {Trait} /\ UNCHANGED blamed
       \/ UNCHANGED traits /\ blamed' = (blamed \/ Trait \notin traits)
    /\ UNCHANGED <<serviceVars, testVars, rp, own, rp0>>

\* SSHClient, mkdir -p, and echo into a file in /tmp.
PrepareFile ==
    /\ pc = "prepare"
    /\ (Goto("mv") /\ Keep) \/ Raise
    /\ UNCHANGED <<serviceVars, placementVars, rp0>>

\* Mutant: the file is moved on the other host.
MoveFileElsewhere ==
    /\ pc = "mv"
    /\ Executed(Crudini(3 - Target, Option, Trait), Goto("construct") /\ Keep, Raise)
    /\ UNCHANGED <<placementVars, rp0>>

\* mv into provider_config_location.
MoveFile ==
    /\ pc = "mv"
    /\ Executed(Crudini(Target, Option, Trait), Goto("construct") /\ Keep, Raise)
    /\ UNCHANGED <<placementVars, rp0>>

-----------------------------------------------------------------------------
(* _restart_nova_compute_service                                           *)

Construct ==
    /\ pc = "construct"
    /\ (Goto("stop") /\ Keep) \/ Raise
    /\ UNCHANGED <<serviceVars, placementVars, rp0>>

RestartService ==
    /\ Restart(Target, Keep, Goto("list") /\ Keep, Raise)
    /\ own' = [own EXCEPT ![Target] = @ /\ running'[Target]]
    /\ UNCHANGED <<traits, rp, rp0>>

-----------------------------------------------------------------------------
(* assert_trait_present_in_rp                                              *)

\* Mutant: a trait that Placement knows is enough.
ListTraitsNoWait ==
    /\ pc = "list"
    /\ \/ Trait \in traits /\ Goto("create_server") /\ Keep
       \/ Trait \notin traits /\ Fail
       \/ Raise
    /\ UNCHANGED <<serviceVars, placementVars, rp0>>

ListTraits ==
    /\ pc = "list"
    /\ \/ Trait \in traits /\ Goto("poll_trait") /\ Keep
       \/ Trait \notin traits /\ Fail
       \/ Raise
    /\ UNCHANGED <<serviceVars, placementVars, rp0>>

\* wait_for_trait_add_in_rp
PollTrait ==
    /\ pc = "poll_trait"
    /\ \/ Trait \in rp[Target] /\ Goto("create_server") /\ Keep
       \/ Trait \notin rp[Target] /\ pc' = "sleep_trait" /\ UNCHANGED polls /\ Keep
       \/ Raise
    /\ UNCHANGED <<serviceVars, placementVars, rp0>>

SleepTrait ==
    /\ pc = "sleep_trait"
    /\ Sleep("poll_trait", Keep, Raise)
    /\ UNCHANGED <<placementVars, rp0>>

-----------------------------------------------------------------------------
(* The servers.                                                            *)

\* External: the hosts on which Nova may build a server that requires Trait.
Candidates == {h \in Hosts : Trait \in rp[h] /\ reported[h] = "up"}

\* A server is where it should be: the next one, the next part, or the end.
Built ==
    /\ servers' = servers + 1
    /\ CASE servers = 0 -> Goto("create_server") /\ UNCHANGED <<part, verdict>>
         [] servers = 1 -> Goto("trait") /\ part' = 2 /\ UNCHANGED verdict
         [] servers = 2 -> Goto("end") /\ verdict' = "passed" /\ UNCHANGED part
    /\ UNCHANGED <<test, blamed>>

\* create_test_server, the assertion on its host, and of the first and the third
\* server _verify_trait_in_xml.  Without a candidate the call raises, which is
\* no mistake of the test if Nova takes the host for down.
CreateServer ==
    /\ pc = "create_server"
    /\ \/ \E h \in Candidates : IF h = Target THEN Built ELSE Fail
       \/ Target \in Candidates /\ servers \in {0, 2} /\ Mistaken  \* not in the XML
       \/ /\ Candidates = {}
          /\ Ends("failed")
          /\ blamed' = (blamed \/ reported[Target] = "down")
       \/ Raise
    /\ UNCHANGED <<serviceVars, placementVars, rp0>>

\* test_invalid_trait: Placement does not know the trait, and with a flavor
\* that requires it no server can be built: BuildErrorException.
ListInvalid ==
    /\ pc = "list_invalid"
    /\ (Goto("create_invalid") /\ Keep) \/ Raise
    /\ UNCHANGED <<serviceVars, placementVars, rp0>>

CreateInvalid ==
    /\ pc = "create_invalid"
    /\ \/ Ends("passed") /\ UNCHANGED blamed
       \/ Mistaken     \* it was built, and assertRaises fails
       \/ Raise        \* another exception
    /\ UNCHANGED <<serviceVars, placementVars, rp0>>

-----------------------------------------------------------------------------
(* nova-compute and Placement.                                             *)

\* The resource tracker of a process gives the traits of its file to its
\* provider.  Traits of earlier files may stay there or not.
ReportTraits(h) ==
    /\ running[h]
    /\ \E kept \in {rp[h], InFile(h)} : rp' = [rp EXCEPT ![h] = kept \cup InFile(h)]
    /\ traits' = traits \cup InFile(h)
    /\ own' = [own EXCEPT ![h] = TRUE]
    /\ UNCHANGED <<serviceVars, managerVars, testVars, rp0, blamed>>

Environment ==
    \/ \E h \in Hosts : ReportTraits(h)
    \/ ServiceStep /\ UNCHANGED <<managerVars, testVars, placementVars, rp0, blamed>>

Plugin ==
    \/ CreateTrait \/ PrepareFile \/ MoveFile
    \/ Construct \/ RestartService
    \/ ListTraits \/ PollTrait \/ SleepTrait
    \/ CreateServer
    \/ ListInvalid \/ CreateInvalid

Next == Plugin \/ Environment

Spec == Init /\ [][Next]_vars /\ WF_vars(Plugin)

-----------------------------------------------------------------------------
(* Properties.                                                             *)

\* An earlier run, with the hosts in another order, has left a trait on a host
\* where this one does not expect it.
LeftOver ==
    \E h \in Hosts : \/ "trait_a" \in rp0[h] /\ h # 2
                     \/ "trait_b" \in rp0[h] /\ h # 1

(* The test fails only if a call failed by itself, something was not done  *)
(* within its timeout, Nova built a server it should not or left the trait *)
(* out of its XML, or an earlier run has left its traits on other hosts:   *)
(* in particular, once wait_for_trait_add_in_rp has returned, no server is *)
(* refused or built elsewhere.                                             *)
NoFalseAlarm == verdict = "failed" => blamed \/ LeftOver

(* When servers are created, the process that runs on the target has read  *)
(* the provider.yaml of this test, and the trait that the wait has seen    *)
(* was given by that very process, unless the provider had it from an      *)
(* earlier run: then the wait shows nothing, but the file is still the one *)
(* just written.                                                           *)
TraitFromFile ==
    pc = "create_server" =>
        /\ running[Target]
        /\ InFile(Target) = {Trait}
        /\ own[Target] \/ Trait \in rp0[Target]
=============================================================================
