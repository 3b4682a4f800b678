-------------------------- MODULE EvacuationProofs --------------------------
(***************************************************************************)
(* The evacuation tests never run a server twice and leave the service of  *)
(* the source host running, for any number of hosts and polls.             *)
(***************************************************************************)
EXTENDS Evacuation, TLAPS

SafeInv == TypeOK /\ SourceInv /\ ServerInv

Labels == ManagerLabels \cup BodyLabels \cup {"construct", "assert", "end"}

-----------------------------------------------------------------------------
(* Type correctness.                                                       *)

(* Hosts exist, and the source host is one of them.                        *)
LEMMA SourceHost == TypeOK => host_a \in Hosts /\ host_a # 0
BY NAssumption DEF TypeOK, Hosts

LEMMA TypeInit == Init => TypeOK
<1> SUFFICES ASSUME Init PROVE TypeOK OBVIOUS
<1>1. ServiceTypeOK BY DEF Init, ServiceInit, ServiceTypeOK
<1>2. polls \in 0..MaxPolls BY MaxPollsAssumption DEF Init
<1>3. stays_off \in BOOLEAN BY DEF Init
<1>4. server \in [host : Hosts, status : {"ACTIVE", "SHUTOFF"}] BY DEF Init
<1>5. domain \in [Hosts -> {"absent", "running", "shutoff"}] BY DEF Init
<1> QED BY <1>1, <1>2, <1>3, <1>4, <1>5 DEF Init, TypeOK, Finished, Failed

(* A step of the plugin that leaves Nova's records well typed.             *)
LEMMA PluginType ==
    ASSUME TypeOK, ServiceTypeOK', pc' \in Labels, polls' \in 0..MaxPolls,
           raised' \in {"no", "stop", "body", "start", "other"},
           UNCHANGED <<testCase, novaVars>>
    PROVE  TypeOK'
BY DEF TypeOK, Labels, testCase, novaVars

LEMMA RaiseType ==
    ASSUME TypeOK, Raise
    PROVE  /\ pc' \in {"start", "end"} /\ polls' \in 0..MaxPolls
           /\ raised' \in {"no", "stop", "body", "start", "other"}
           /\ UNCHANGED testCase
BY MaxPollsAssumption DEF Raise, Part, Goto

LEMMA ServiceType ==
    ASSUME TypeOK,
           SystemctlStop(host_a) \/ SystemctlStart(host_a) \/ UNCHANGED serviceVars
    PROVE  ServiceTypeOK'
<1>1. ServiceTypeOK /\ host_a \in Hosts BY SourceHost DEF TypeOK
<1>2. CASE SystemctlStop(host_a) BY <1>1, <1>2 DEF ServiceTypeOK, SystemctlStop
<1>3. CASE SystemctlStart(host_a) BY <1>1, <1>3 DEF ServiceTypeOK, SystemctlStart
<1>4. CASE UNCHANGED serviceVars BY <1>1, <1>4 DEF ServiceTypeOK, serviceVars
<1> QED BY <1>2, <1>3, <1>4

(* Sleeping does not count past MaxPolls.                                  *)
LEMMA SleepType ==
    ASSUME TypeOK, polls < MaxPolls, polls' = polls + 1
    PROVE  polls' \in 0..MaxPolls
BY MaxPollsAssumption DEF TypeOK

LEMMA ManagerType == ASSUME TypeOK, StopService \/ StartService PROVE TypeOK'
<1>1. ServiceTypeOK'
    BY ServiceType DEF StopService, StartService, Stop, Start, Executed, Poll, Sleep
<1>2. UNCHANGED <<testCase, novaVars>>
    BY RaiseType
    DEF StopService, StartService, Stop, Start, Executed, Poll, Sleep, Keep, Restarted, testVars
<1>3. pc' \in Labels
    BY RaiseType
    DEF StopService, StartService, Stop, Start, Executed, Poll, Sleep, Restarted, Goto,
        Labels, ManagerLabels, WaitLabels, BodyLabels
<1>4. polls' \in 0..MaxPolls
    BY RaiseType, SleepType, MaxPollsAssumption
    DEF StopService, StartService, Stop, Start, Executed, Poll, Sleep, Restarted, Goto, TypeOK
<1>5. raised' \in {"no", "stop", "body", "start", "other"}
    BY RaiseType
    DEF StopService, StartService, Stop, Start, Executed, Poll, Sleep, Keep, Restarted,
        testVars, TypeOK
<1> QED BY <1>1, <1>2, <1>3, <1>4, <1>5, PluginType

LEMMA BodyType ==
    ASSUME TypeOK,
           \/ Construct \/ VirshShutdown \/ WaitForDomainShutdown \/ EvacuateServer
           \/ PollMigration \/ SleepMigration \/ Assert
    PROVE  TypeOK'
<1>1. UNCHANGED serviceVars
    BY DEF Construct, VirshShutdown, WaitForDomainShutdown, EvacuateServer,
           PollMigration, SleepMigration, Sleep, Assert
<1>2. ServiceTypeOK' BY <1>1, ServiceType
<1>3. UNCHANGED <<testCase, domain, server, older>>
    BY RaiseType
    DEF Construct, VirshShutdown, WaitForDomainShutdown, EvacuateServer,
        PollMigration, SleepMigration, Sleep, Assert, Continue, Keep, testVars, novaVars
<1>4. /\ pc' \in Labels
      /\ raised' \in {"no", "stop", "body", "start", "other"}
    BY RaiseType
    DEF Construct, VirshShutdown, WaitForDomainShutdown, EvacuateServer,
        PollMigration, SleepMigration, Sleep, Assert, Continue, Keep, testVars, Goto,
        Labels, ManagerLabels, WaitLabels, BodyLabels, TypeOK
<1>5. polls' \in 0..MaxPolls
    BY RaiseType, SleepType, MaxPollsAssumption
    DEF Construct, VirshShutdown, WaitForDomainShutdown, EvacuateServer,
        PollMigration, SleepMigration, Sleep, Assert, Continue, Goto, TypeOK
<1>6. shutdown' \in BOOLEAN
    BY DEF Construct, VirshShutdown, WaitForDomainShutdown, EvacuateServer,
           PollMigration, SleepMigration, Sleep, Assert, Keep, novaVars, TypeOK
<1>7. evacuation' \in {"none", "accepted", "pre-migrating"} \cup Finished \cup Failed
    BY DEF Construct, VirshShutdown, WaitForDomainShutdown, EvacuateServer,
           PollMigration, SleepMigration, Sleep, Assert, Keep, novaVars, TypeOK
<1> QED BY <1>2, <1>3, <1>4, <1>5, <1>6, <1>7 DEF TypeOK, Labels, testCase

LEMMA NovaType ==
    ASSUME TypeOK, UNCHANGED serviceVars, UNCHANGED <<managerVars, testVars>>,
           GuestShutsDown \/ Rebuild \/ RebuildDone \/ RebuildFails
    PROVE  TypeOK'
<1>1. host_a \in Hosts BY SourceHost
<1>2. /\ domain' \in [Hosts -> {"absent", "running", "shutoff"}]
      /\ server' \in [host : Hosts, status : {"ACTIVE", "SHUTOFF"}]
      /\ evacuation' \in {"none", "accepted", "pre-migrating"} \cup Finished \cup Failed
      /\ UNCHANGED <<shutdown, older>>
    <2>1. CASE GuestShutsDown BY <1>1, <2>1 DEF GuestShutsDown, TypeOK
    <2>2. CASE Rebuild BY <1>1, <2>2 DEF Rebuild, TypeOK
    <2>3. CASE RebuildDone BY <1>1, <2>3 DEF RebuildDone, TypeOK, Finished
    <2>4. CASE RebuildFails BY <2>4 DEF RebuildFails, TypeOK
    <2> QED BY <2>1, <2>2, <2>3, <2>4
<1>3. ServiceTypeOK' BY ServiceType
<1> QED BY <1>2, <1>3 DEF TypeOK, managerVars, testVars, testCase

LEMMA HostType ==
    ASSUME TypeOK, UNCHANGED <<managerVars, testVars>>, NEW h \in Hosts,
           Heartbeat(h) \/ Expire(h), DestroyEvacuated(h) \/ UNCHANGED novaVars
    PROVE  TypeOK'
<1>1. ServiceTypeOK'
    <2>1. CASE Heartbeat(h) BY <2>1 DEF TypeOK, ServiceTypeOK, Heartbeat
    <2>2. CASE Expire(h) BY <2>2 DEF TypeOK, ServiceTypeOK, Expire
    <2> QED BY <2>1, <2>2
<1>2. /\ domain' \in [Hosts -> {"absent", "running", "shutoff"}]
      /\ evacuation' \in {"none", "accepted", "pre-migrating"} \cup Finished \cup Failed
      /\ UNCHANGED <<shutdown, server, older>>
    BY DEF TypeOK, DestroyEvacuated, novaVars, Finished
<1> QED BY <1>1, <1>2 DEF TypeOK, managerVars, testVars, testCase

LEMMA TypeNext == TypeOK /\ [Next]_vars => TypeOK'
<1> SUFFICES ASSUME TypeOK, [Next]_vars PROVE TypeOK' OBVIOUS
<1>1. CASE Plugin BY <1>1, ManagerType, BodyType DEF Plugin
<1>2. CASE Environment
    <2>1. CASE UNCHANGED serviceVars /\ (GuestShutsDown \/ Rebuild \/ RebuildDone \/ RebuildFails)
        BY <1>2, <2>1, NovaType DEF Environment
    <2>2. ASSUME NEW h \in Hosts, Heartbeat(h) /\ DestroyEvacuated(h) PROVE TypeOK'
        BY <1>2, <2>2, HostType DEF Environment
    <2>3. ASSUME NEW h \in Hosts, Expire(h) /\ UNCHANGED novaVars PROVE TypeOK'
        BY <1>2, <2>3, HostType DEF Environment
    <2> QED BY <1>2, <2>1, <2>2, <2>3 DEF Environment
<1>3. CASE UNCHANGED vars
    BY <1>3, ServiceType DEF TypeOK, vars, managerVars, testVars, testCase, novaVars
<1> QED BY <1>1, <1>2, <1>3 DEF Next

-----------------------------------------------------------------------------
(* The process of the source host.                                         *)

(* What an exception leaves, by the part it was raised in: SourceInv is    *)
(* kept unless the process was touched.                                    *)
LEMMA RaiseSource ==
    ASSUME TypeOK, SourceInv, Raise, UNCHANGED <<running, reported, beat>>, pc # "end"
    PROVE  SourceInv'
<1>1. UNCHANGED host_a BY DEF Raise, testCase
<1>2. CASE pc \in BodyLabels
    BY <1>1, <1>2
    DEF SourceInv, ServiceStartedAgain, Raise, Part, Goto, BodyLabels
<1>3. CASE pc \in {"stop", "poll_down", "sleep_down"}
    BY <1>1, <1>3
    DEF SourceInv, ServiceStartedAgain, Raise, Part, Goto, BodyLabels
<1>4. CASE pc \in {"start", "poll_up", "sleep_up"}
    BY <1>1, <1>4
    DEF SourceInv, ServiceStartedAgain, Raise, Part, Goto, BodyLabels
<1>5. CASE pc \in {"construct", "assert"}
    BY <1>1, <1>5
    DEF SourceInv, ServiceStartedAgain, Raise, Part, Goto, BodyLabels
<1> QED BY <1>2, <1>3, <1>4, <1>5 DEF TypeOK, ManagerLabels, WaitLabels

LEMMA StopSource ==
    ASSUME TypeOK, SourceInv, StopService
    PROVE  SourceInv'
<1>1. host_a \in Hosts BY SourceHost
<1>2. ASSUME pc = "stop", SystemctlStop(host_a), Goto("poll_down"), Keep PROVE SourceInv'
    BY <1>1, <1>2
    DEF TypeOK, ServiceTypeOK, SourceInv, ServiceStartedAgain, SystemctlStop, Goto, Keep,
        testVars, testCase, BodyLabels
<1>3. ASSUME pc = "stop", Raise PROVE SourceInv'
    BY <1>3 DEF SourceInv, ServiceStartedAgain, Raise, Part, Goto, BodyLabels
<1>4. ASSUME pc = "poll_down", UNCHANGED serviceVars, reported[host_a] = "down",
             Goto("virsh"), Keep
      PROVE  SourceInv'
    BY <1>4
    DEF SourceInv, ServiceStartedAgain, serviceVars, Goto, Keep, testVars, testCase, BodyLabels
<1>5. ASSUME pc \in {"poll_down", "sleep_down"}, UNCHANGED serviceVars,
             pc' \in {"poll_down", "sleep_down"}, Keep
      PROVE  SourceInv'
    BY <1>5
    DEF SourceInv, ServiceStartedAgain, serviceVars, Keep, testVars, testCase, BodyLabels
<1>6. ASSUME pc \in {"poll_down", "sleep_down"}, UNCHANGED serviceVars, Raise
      PROVE  SourceInv'
    BY <1>6, RaiseSource DEF serviceVars
<1> QED BY <1>2, <1>3, <1>4, <1>5, <1>6 DEF StopService, Stop, Executed, Poll, Sleep

LEMMA StartSource ==
    ASSUME TypeOK, SourceInv, StartService
    PROVE  SourceInv'
<1>1. host_a \in Hosts BY SourceHost
<1>2. ASSUME pc = "start", SystemctlStart(host_a), Goto("poll_up"), Keep PROVE SourceInv'
    BY <1>1, <1>2
    DEF TypeOK, ServiceTypeOK, SourceInv, ServiceStartedAgain, SystemctlStart, Goto, Keep,
        testVars, testCase, BodyLabels
<1>3. ASSUME pc = "start", Raise PROVE SourceInv'
    BY <1>3 DEF SourceInv, ServiceStartedAgain, Raise, Part, Goto, BodyLabels
<1>4. ASSUME pc = "poll_up", UNCHANGED serviceVars, reported[host_a] = "up", Restarted
      PROVE  SourceInv'
    BY <1>4
    DEF SourceInv, ServiceStartedAgain, serviceVars, Restarted, Goto, testVars, testCase,
        BodyLabels
<1>5. ASSUME pc \in {"poll_up", "sleep_up"}, UNCHANGED serviceVars,
             pc' \in {"poll_up", "sleep_up"}, Keep
      PROVE  SourceInv'
    BY <1>5
    DEF SourceInv, ServiceStartedAgain, serviceVars, Keep, testVars, testCase, BodyLabels
<1>6. ASSUME pc \in {"poll_up", "sleep_up"}, UNCHANGED serviceVars, Raise
      PROVE  SourceInv'
    BY <1>6, RaiseSource DEF serviceVars
<1> QED BY <1>2, <1>3, <1>4, <1>5, <1>6 DEF StartService, Start, Executed, Poll, Sleep

LEMMA BodySource ==
    ASSUME TypeOK, SourceInv,
           \/ Construct \/ VirshShutdown \/ WaitForDomainShutdown \/ EvacuateServer
           \/ PollMigration \/ SleepMigration \/ Assert
    PROVE  SourceInv'
<1>1. UNCHANGED serviceVars
    BY DEF Construct, VirshShutdown, WaitForDomainShutdown, EvacuateServer,
           PollMigration, SleepMigration, Sleep, Assert
<1>2. ASSUME Raise, pc # "end" PROVE SourceInv'
    BY <1>1, <1>2, RaiseSource DEF serviceVars
<1>3. ASSUME pc = "construct", Continue("stop") PROVE SourceInv'
    BY <1>1, <1>3
    DEF SourceInv, ServiceStartedAgain, Continue, Goto, serviceVars, testVars, testCase, BodyLabels
<1>4. ASSUME pc \in BodyLabels, pc' \in BodyLabels \cup {"start"}, UNCHANGED testVars
      PROVE  SourceInv'
    BY <1>1, <1>4
    DEF SourceInv, ServiceStartedAgain, serviceVars, testVars, testCase, BodyLabels
<1>5. CASE Construct BY <1>2, <1>3, <1>5 DEF Construct
<1>6. CASE VirshShutdown BY <1>2, <1>4, <1>6 DEF VirshShutdown, Continue, Goto, BodyLabels
<1>7. CASE WaitForDomainShutdown
    BY <1>2, <1>4, <1>7 DEF WaitForDomainShutdown, Continue, Goto, BodyLabels
<1>8. CASE EvacuateServer BY <1>2, <1>4, <1>8 DEF EvacuateServer, Continue, Goto, BodyLabels
<1>9. CASE PollMigration BY <1>2, <1>4, <1>9 DEF PollMigration, Continue, Goto, BodyLabels
<1>10. CASE SleepMigration
    BY <1>2, <1>4, <1>10 DEF SleepMigration, Sleep, Keep, BodyLabels
<1>11. CASE Assert
    BY <1>1, <1>11
    DEF Assert, Goto, SourceInv, ServiceStartedAgain, serviceVars, testCase, BodyLabels
<1> QED BY <1>5, <1>6, <1>7, <1>8, <1>9, <1>10, <1>11

LEMMA EnvironmentSource ==
    ASSUME TypeOK, SourceInv, Environment
    PROVE  SourceInv'
<1>1. /\ UNCHANGED <<pc, raised, host_a>> /\ host_a \in Hosts
      /\ running' = running
    BY SourceHost
    DEF Environment, managerVars, testVars, testCase, serviceVars, Heartbeat, Expire
<1>2. running[host_a] => (beat[host_a] => beat'[host_a])
    BY <1>1 DEF Environment, serviceVars, Heartbeat, Expire, TypeOK, ServiceTypeOK
<1>3. ~running[host_a] /\ reported[host_a] = "down" => reported'[host_a] = "down"
    BY <1>1 DEF Environment, serviceVars, Heartbeat, Expire, TypeOK, ServiceTypeOK
<1>4. (reported[host_a] = "up" => beat[host_a]) => (reported'[host_a] = "up" => beat'[host_a])
    BY <1>1 DEF Environment, serviceVars, Heartbeat, Expire, TypeOK, ServiceTypeOK
<1> QED BY <1>1, <1>2, <1>3, <1>4 DEF SourceInv, ServiceStartedAgain

LEMMA SourceInit == Init => SourceInv
BY DEF Init, ServiceInit, SourceInv, ServiceStartedAgain, BodyLabels, Hosts

LEMMA SourceNext == TypeOK /\ SourceInv /\ [Next]_vars => SourceInv'
<1> SUFFICES ASSUME TypeOK, SourceInv, [Next]_vars PROVE SourceInv' OBVIOUS
<1>1. CASE Plugin BY <1>1, StopSource, StartSource, BodySource DEF Plugin
<1>2. CASE Environment BY <1>2, EnvironmentSource
<1>3. CASE UNCHANGED vars
    BY <1>3
    DEF SourceInv, ServiceStartedAgain, vars, serviceVars, managerVars, testVars, testCase
<1> QED BY <1>1, <1>2, <1>3 DEF Next

-----------------------------------------------------------------------------
(* Where the server is.                                                    *)

\* The labels at which the evacuation has not been asked for.
Before == {"construct", "stop", "poll_down", "sleep_down", "virsh", "poll_domain", "evacuate"}

(* The plugin's steps, but for the evacuation request, only need to keep   *)
(* Before and the shut down domain in order.                               *)
LEMMA PluginServer ==
    ASSUME ServerInv, UNCHANGED <<domain, server, evacuation>>, UNCHANGED testCase,
           pc' \in Before => pc \in Before,
           pc' = "evacuate" => domain[host_a] # "running"
    PROVE  ServerInv'
BY DEF ServerInv, testCase, Before

LEMMA ManagerServer ==
    ASSUME TypeOK, ServerInv, StopService \/ StartService
    PROVE  ServerInv'
<1>1. UNCHANGED <<testCase, novaVars>>
    BY RaiseType
    DEF StopService, StartService, Stop, Start, Executed, Poll, Sleep, Keep, Restarted, testVars
<1>2. /\ pc' \in Before => pc \in Before
      /\ pc' # "evacuate"
    BY RaiseType
    DEF StopService, StartService, Stop, Start, Executed, Poll, Sleep, Restarted, Goto, Before
<1> QED BY <1>1, <1>2, PluginServer DEF novaVars

LEMMA BodyServer ==
    ASSUME TypeOK, ServerInv,
           \/ Construct \/ VirshShutdown \/ WaitForDomainShutdown
           \/ PollMigration \/ SleepMigration \/ Assert
    PROVE  ServerInv'
<1>1. UNCHANGED <<testCase, domain, server, evacuation>>
    BY RaiseType
    DEF Construct, VirshShutdown, WaitForDomainShutdown, PollMigration, SleepMigration,
        Sleep, Assert, Continue, Keep, testVars, novaVars
<1>2. pc' \in Before => pc \in Before
    BY RaiseType
    DEF Construct, VirshShutdown, WaitForDomainShutdown, PollMigration, SleepMigration,
        Sleep, Assert, Continue, Goto, Before
<1>3. pc' = "evacuate" => domain[host_a] # "running"
    BY RaiseType
    DEF Construct, VirshShutdown, WaitForDomainShutdown, PollMigration, SleepMigration,
        Sleep, Assert, Continue, Goto
<1> QED BY <1>1, <1>2, <1>3, PluginServer

LEMMA EvacuateKeepsServer ==
    ASSUME TypeOK, ServerInv, EvacuateServer
    PROVE  ServerInv'
<1>1. /\ UNCHANGED <<testCase, domain, server>>
      /\ pc' \notin Before
      /\ evacuation = "none" /\ domain[host_a] # "running"
      /\ evacuation' \in {"none", "accepted"}
    BY RaiseType DEF ServerInv, EvacuateServer, Continue, Goto, Before, testVars
<1> QED BY <1>1 DEF ServerInv, testCase, Before, Failed, Finished

LEMMA NovaServer ==
    ASSUME TypeOK, ServerInv, UNCHANGED <<managerVars, testVars>>,
           GuestShutsDown \/ Rebuild \/ RebuildDone \/ RebuildFails
    PROVE  ServerInv'
<1>1. UNCHANGED <<pc, testCase>> BY DEF managerVars, testVars
<1>2. host_a \in Hosts BY SourceHost
<1>3. CASE GuestShutsDown
    BY <1>1, <1>2, <1>3 DEF GuestShutsDown, ServerInv, TypeOK, testCase, Finished, Failed
<1>4. CASE Rebuild
    <2>1. PICK h \in Hosts \ {host_a} :
              /\ target \in {0, h}
              /\ domain' = [domain EXCEPT ![h] = "running"]
              /\ server' = [server EXCEPT !.host = h]
        BY <1>4 DEF Rebuild
    <2>2. server'.host = h /\ server'.status = server.status BY <2>1 DEF TypeOK
    <2> QED
        BY <1>1, <1>2, <1>4, <2>1, <2>2
        DEF Rebuild, ServerInv, TypeOK, testCase, Finished, Failed
<1>5. CASE RebuildDone
    <2>1. server'.host = server.host /\ server'.status = IF stays_off THEN "SHUTOFF" ELSE server.status
        BY <1>5 DEF RebuildDone, TypeOK
    <2> QED
        BY <1>1, <1>2, <1>5, <2>1
        DEF RebuildDone, ServerInv, TypeOK, testCase, Finished, Failed
<1>6. CASE RebuildFails
    BY <1>1, <1>6 DEF RebuildFails, ServerInv, testCase, Finished, Failed
<1> QED BY <1>3, <1>4, <1>5, <1>6

LEMMA HostServer ==
    ASSUME TypeOK, ServerInv, UNCHANGED <<managerVars, testVars>>, NEW h \in Hosts,
           DestroyEvacuated(h) \/ UNCHANGED novaVars
    PROVE  ServerInv'
<1>1. UNCHANGED <<pc, testCase>> BY DEF managerVars, testVars
<1>2. CASE UNCHANGED novaVars BY <1>1, <1>2 DEF novaVars, ServerInv, testCase
<1>3. CASE DestroyEvacuated(h) /\ ~UNCHANGED novaVars
    BY <1>1, <1>3 DEF DestroyEvacuated, ServerInv, TypeOK, testCase, Finished, Failed
<1> QED BY <1>2, <1>3

LEMMA ServerInit == Init => ServerInv
BY DEF Init, ServerInv, Finished, Failed

LEMMA ServerNext == TypeOK /\ ServerInv /\ [Next]_vars => ServerInv'
<1> SUFFICES ASSUME TypeOK, ServerInv, [Next]_vars PROVE ServerInv' OBVIOUS
<1>1. CASE Plugin BY <1>1, ManagerServer, BodyServer, EvacuateKeepsServer DEF Plugin
<1>2. CASE Environment BY <1>2, NovaServer, HostServer DEF Environment
<1>3. CASE UNCHANGED vars
    BY <1>3 DEF ServerInv, vars, managerVars, testVars, testCase, novaVars
<1> QED BY <1>1, <1>2, <1>3 DEF Next

LEMMA SafeAlways == Spec => []SafeInv
<1>1. Init => SafeInv BY TypeInit, SourceInit, ServerInit DEF SafeInv
<1>2. SafeInv /\ [Next]_vars => SafeInv'
    BY TypeNext, SourceNext, ServerNext DEF SafeInv
<1> QED BY <1>1, <1>2, PTL DEF Spec

-----------------------------------------------------------------------------
(* What the test knows after it has waited for the migration.              *)

LEMMA WaitedNext ==
    ASSUME SafeInv, WaitedInv, [Next]_vars
    PROVE  WaitedInv'
<1>1. TypeOK /\ SourceInv /\ ServerInv /\ host_a \in Hosts BY SourceHost DEF SafeInv
<1>2. CASE StopService
    BY <1>2
    DEF StopService, Stop, Executed, Poll, Sleep, Raise, Part, Goto, Keep, WaitedInv, BodyLabels
<1>3. CASE StartService
    <2>1. ASSUME Raise, pc \in {"start", "poll_up", "sleep_up"} PROVE WaitedInv'
        BY <2>1 DEF Raise, Part, Goto, WaitedInv, BodyLabels
    <2>2. ASSUME pc = "start", SystemctlStart(host_a), Goto("poll_up"), Keep PROVE WaitedInv'
        BY <1>1, <2>2
        DEF SystemctlStart, Goto, Keep, WaitedInv, SourceInv, TypeOK, ServiceTypeOK,
            testVars, testCase, novaVars
    <2>3. ASSUME pc = "poll_up", UNCHANGED serviceVars, reported[host_a] = "up", Restarted
          PROVE  WaitedInv'
        BY <1>1, <2>3
        DEF Restarted, Goto, WaitedInv, SourceInv, serviceVars, testVars, testCase, novaVars
    <2>4. ASSUME pc \in {"poll_up", "sleep_up"}, UNCHANGED serviceVars,
                 pc' \in {"poll_up", "sleep_up"}, Keep
          PROVE  WaitedInv'
        BY <2>4 DEF Keep, WaitedInv, serviceVars, testVars, testCase, novaVars
    <2> QED BY <1>3, <2>1, <2>2, <2>3, <2>4 DEF StartService, Start, Executed, Poll, Sleep
<1>4. CASE Construct \/ VirshShutdown \/ WaitForDomainShutdown \/ EvacuateServer
    BY <1>4
    DEF Construct, VirshShutdown, WaitForDomainShutdown, EvacuateServer, Continue,
        Raise, Part, Goto, WaitedInv, BodyLabels
<1>5. CASE PollMigration \/ SleepMigration
    BY <1>1, <1>5
    DEF PollMigration, SleepMigration, Sleep, Keep, Continue, LastMigration,
        Raise, Part, Goto, WaitedInv, BodyLabels, testVars, novaVars
<1>6. CASE Assert BY <1>6 DEF Assert, Goto, WaitedInv
<1>7. CASE Environment
    <2>1. UNCHANGED <<pc, raised, host_a>>
        BY <1>7 DEF Environment, managerVars, testVars, testCase
    <2>2. CASE UNCHANGED serviceVars /\ (GuestShutsDown \/ Rebuild \/ RebuildDone \/ RebuildFails)
        BY <2>1, <2>2
        DEF GuestShutsDown, Rebuild, RebuildDone, RebuildFails, serviceVars, WaitedInv,
            Finished, Failed
    <2>3. ASSUME NEW h \in Hosts, Heartbeat(h) /\ DestroyEvacuated(h) PROVE WaitedInv'
        <3>1. CASE h = host_a
            BY <1>1, <2>1, <2>3, <3>1
            DEF Heartbeat, DestroyEvacuated, WaitedInv, TypeOK, ServiceTypeOK, novaVars, Finished
        <3>2. CASE h # host_a
            BY <1>1, <2>1, <2>3, <3>2
            DEF Heartbeat, DestroyEvacuated, WaitedInv, TypeOK, ServiceTypeOK, novaVars
        <3> QED BY <3>1, <3>2
    <2>4. ASSUME NEW h \in Hosts, Expire(h) /\ UNCHANGED novaVars PROVE WaitedInv'
        BY <2>1, <2>4 DEF Expire, WaitedInv, novaVars
    <2> QED BY <1>7, <2>2, <2>3, <2>4 DEF Environment
<1>8. CASE UNCHANGED vars
    BY <1>8 DEF vars, serviceVars, managerVars, testVars, testCase, novaVars, WaitedInv
<1> QED BY <1>2, <1>3, <1>4, <1>5, <1>6, <1>7, <1>8 DEF Next, Plugin

(* What the assertions have seen stays so: nothing moves the server back.  *)
LEMMA AssertedNext ==
    ASSUME SafeInv, AssertedInv, WaitedInv, [Next]_vars
    PROVE  AssertedInv'
<1>1. TypeOK /\ ServerInv /\ host_a \in Hosts /\ host_a # 0 BY SourceHost DEF SafeInv
<1>2. CASE Construct \/ VirshShutdown \/ WaitForDomainShutdown \/ EvacuateServer
           \/ PollMigration \/ SleepMigration
    BY <1>2
    DEF Construct, VirshShutdown, WaitForDomainShutdown, EvacuateServer, PollMigration,
        SleepMigration, Sleep, Keep, Continue, Raise, Part, Goto, AssertedInv, BodyLabels
<1>3. CASE StopService \/ StartService
    BY <1>3
    DEF StopService, StartService, Stop, Start, Executed, Poll, Sleep, Raise, Part, Goto, Keep,
        Restarted, AssertedInv, BodyLabels, testVars
<1>4. CASE Assert
    BY <1>1, <1>4 DEF Assert, Evacuated, Goto, AssertedInv, TypeOK, testCase, novaVars
<1>5. CASE Environment
    <2>1. UNCHANGED <<pc, raised, host_a, stays_off>>
        BY <1>5 DEF Environment, managerVars, testVars, testCase
    <2>2. CASE GuestShutsDown \/ Rebuild \/ RebuildDone \/ RebuildFails
        BY <1>1, <2>1, <2>2
        DEF GuestShutsDown, Rebuild, RebuildDone, RebuildFails, AssertedInv, ServerInv, TypeOK,
            Finished, Failed
    <2>3. ASSUME NEW h \in Hosts, DestroyEvacuated(h) PROVE AssertedInv'
        BY <2>1, <2>3 DEF DestroyEvacuated, AssertedInv, novaVars
    <2>4. CASE UNCHANGED novaVars BY <2>1, <2>4 DEF AssertedInv, novaVars
    <2> QED BY <1>5, <2>2, <2>3, <2>4 DEF Environment
<1>6. CASE UNCHANGED vars BY <1>6 DEF vars, testVars, testCase, managerVars, novaVars, AssertedInv
<1> QED BY <1>2, <1>3, <1>4, <1>5, <1>6 DEF Next, Plugin

-----------------------------------------------------------------------------
(* The theorems.                                                           *)

(* Every variable of the evacuation tests keeps its type; polls never      *)
(* passes the bound on polls.                                              *)
THEOREM TypeCorrect == Spec => []TypeOK
BY SafeAlways, PTL DEF SafeInv

(* A server evacuated by the tests never runs on two hosts, whatever       *)
(* fails: evacuate_server is called only after _wait_for_domain_shutdown.  *)
THEOREM ServerRunsOnce == Spec => []NoSplitBrain
<1>1. SafeInv => NoSplitBrain
    <2> SUFFICES ASSUME SafeInv PROVE NoSplitBrain OBVIOUS
    <2>1. TypeOK /\ ServerInv BY DEF SafeInv
    <2> QED BY <2>1 DEF TypeOK, ServerInv, NoSplitBrain, Finished, Failed
<1> QED BY <1>1, SafeAlways, PTL

(* stopped() leaves the service running and reported by its own process,   *)
(* also when the body raised, unless stop() or start() itself raised.      *)
THEOREM StartedAgain == Spec => []ServiceStartedAgain
BY SafeAlways, PTL DEF SafeInv, SourceInv

(* A test whose migration is the only one on record finds its assertions   *)
(* true and the source host rid of the server: evacuate_server waited.     *)
THEOREM EvacuatedThen == Spec => []FirstEvacuatedWhenAsserted
<1>1. Init => WaitedInv BY DEF Init, WaitedInv
<1>2. SafeInv /\ WaitedInv /\ [Next]_vars => WaitedInv' BY WaitedNext
<1>3. SafeInv /\ WaitedInv => FirstEvacuatedWhenAsserted
    <2> SUFFICES ASSUME SafeInv, WaitedInv, older = "none", pc = "assert"
                 PROVE  EvacuatedWhenAsserted
        BY DEF EvacuatedWhenAsserted, FirstEvacuatedWhenAsserted
    <2>1. TypeOK /\ SourceInv /\ ServerInv BY DEF SafeInv
    <2>2. evacuation = "completed" BY <2>1 DEF SourceInv, WaitedInv
    <2> QED
        BY <2>1, <2>2
        DEF EvacuatedWhenAsserted, Evacuated, ServerInv, TypeOK, Finished
<1> QED BY <1>1, <1>2, <1>3, SafeAlways, PTL DEF Spec

(* Whatever record ended the wait, a test that passes has seen the server  *)
(* on another host and, where it is to stay stopped, its evacuation done.  *)
THEOREM PassedThen == Spec => []PassedAfterEvacuation
<1>1. Init => AssertedInv BY DEF Init, AssertedInv
<1>2. SafeInv /\ AssertedInv /\ WaitedInv /\ [Next]_vars => AssertedInv' BY AssertedNext
<1>3. SafeInv /\ AssertedInv => PassedAfterEvacuation
    <2> SUFFICES ASSUME SafeInv, AssertedInv, pc = "end", raised = "no"
                 PROVE  PassedAfterEvacuation
        BY DEF PassedAfterEvacuation
    <2>1. TypeOK /\ ServerInv BY DEF SafeInv
    <2> QED BY <2>1 DEF PassedAfterEvacuation, AssertedInv, ServerInv, TypeOK, Finished, Failed
<1>4. Init => WaitedInv BY DEF Init, WaitedInv
<1>5. SafeInv /\ WaitedInv /\ [Next]_vars => WaitedInv' BY WaitedNext
<1> QED BY <1>1, <1>2, <1>3, <1>4, <1>5, SafeAlways, PTL DEF Spec
=============================================================================
