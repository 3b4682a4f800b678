----------------------- MODULE VirtQEMUdRestartProofs -----------------------
(***************************************************************************)
(* The vTPM test creates its server after every virtqemud is a new one     *)
(* that Nova has seen, and touches one host at a time, for any number of   *)
(* hosts and polls and with sockets that activate virtqemud at any time.   *)
(***************************************************************************)
EXTENDS VirtQEMUdRestart, TLAPS

Labels == ManagerLabels \cup {"construct", "create", "end"}

-----------------------------------------------------------------------------
(* Type correctness.                                                       *)

LEMMA TypeInit == Init => TypeOK
<1> SUFFICES ASSUME Init PROVE TypeOK OBVIOUS
<1>1. ServiceTypeOK BY DEF Init, ServiceInit, ServiceTypeOK
<1>2. polls \in 0..MaxPolls BY MaxPollsAssumption DEF Init
<1>3. host \in Hosts BY NAssumption DEF Init, Hosts
<1>4. raised \in BOOLEAN /\ old \in [Hosts -> BOOLEAN] BY DEF Init
<1> QED BY <1>1, <1>2, <1>3, <1>4 DEF Init, TypeOK

(* The commands and the services keep the records of the hosts well typed. *)
LEMMA ServiceType ==
    ASSUME ServiceTypeOK, NEW h \in Hosts,
           \/ SystemctlStop(h) \/ SystemctlStart(h) \/ Heartbeat(h) \/ Expire(h)
           \/ UNCHANGED serviceVars
    PROVE  ServiceTypeOK'
<1>1. CASE SystemctlStop(h) BY <1>1 DEF ServiceTypeOK, SystemctlStop
<1>2. CASE SystemctlStart(h) BY <1>2 DEF ServiceTypeOK, SystemctlStart
<1>3. CASE Heartbeat(h) BY <1>3 DEF ServiceTypeOK, Heartbeat
<1>4. CASE Expire(h) BY <1>4 DEF ServiceTypeOK, Expire
<1>5. CASE UNCHANGED serviceVars BY <1>5 DEF ServiceTypeOK, serviceVars
<1> QED BY <1>1, <1>2, <1>3, <1>4, <1>5

(* What restart() does to its own host, label by label; the loop's state   *)
(* follows from where it goes.                                             *)
LEMMA RestartSteps ==
    ASSUME TypeOK, RestartService
    PROVE  /\ SystemctlStop(host) \/ SystemctlStart(host) \/ UNCHANGED serviceVars
           /\ pc' \in Labels
           /\ polls' \in 0..MaxPolls
           /\ host' \in Hosts
           /\ raised' \in BOOLEAN
<1> USE DEF RestartService, Restart, Stop, Start, Executed, Poll, Sleep
<1>1. SystemctlStop(host) \/ SystemctlStart(host) \/ UNCHANGED serviceVars
    OBVIOUS
<1>2. pc' \in Labels
    BY DEF Restarted, Raise, Goto, Labels, ManagerLabels, WaitLabels
<1>3. polls' \in 0..MaxPolls
    BY MaxPollsAssumption DEF TypeOK, Restarted, Raise, Goto
<1>4. host' \in Hosts
    BY NAssumption DEF TypeOK, Restarted, Raise, Keep, Hosts
<1>5. raised' \in BOOLEAN
    BY DEF TypeOK, Restarted, Raise, Keep
<1> QED BY <1>1, <1>2, <1>3, <1>4, <1>5

LEMMA TypeNext == TypeOK /\ [Next]_vars => TypeOK'
<1> SUFFICES ASSUME TypeOK, [Next]_vars PROVE TypeOK' OBVIOUS
<1>1. CASE Construct
    <2>1. ServiceTypeOK' /\ UNCHANGED <<host, old>>
        BY <1>1 DEF Construct, Raise, Keep, TypeOK, ServiceTypeOK, serviceVars
    <2>2. pc' \in Labels /\ polls' \in 0..MaxPolls
        BY <1>1, MaxPollsAssumption
        DEF Construct, Raise, Goto, Labels, ManagerLabels, WaitLabels
    <2>3. raised' \in BOOLEAN
        BY <1>1 DEF Construct, Raise, Keep, TypeOK
    <2> QED BY <2>1, <2>2, <2>3 DEF TypeOK, Labels
<1>2. CASE RestartService
    <2>1. ServiceTypeOK'
        BY <1>2, RestartSteps, ServiceType DEF TypeOK
    <2>2. old' \in [Hosts -> BOOLEAN]
        BY <1>2, <2>1 DEF RestartService, TypeOK, ServiceTypeOK
    <2> QED BY <1>2, <2>1, <2>2, RestartSteps DEF TypeOK, Labels
<1>3. CASE Create
    BY <1>3, MaxPollsAssumption
    DEF Create, Goto, TypeOK, ServiceTypeOK, serviceVars
<1>4. CASE Environment
    <2>1. ServiceTypeOK'
        BY <1>4, ServiceType DEF Environment, ServiceStep, Activate, TypeOK
    <2> QED BY <1>4, <2>1 DEF Environment, TypeOK, managerVars, testVars
<1>5. CASE UNCHANGED vars
    BY <1>5 DEF vars, serviceVars, managerVars, testVars, TypeOK, ServiceTypeOK
<1> QED BY <1>1, <1>2, <1>3, <1>4, <1>5 DEF Next, Plugin

(* The loop of the test stays well typed, for every number of hosts and    *)
(* polls.                                                                  *)
THEOREM TypeCorrect == Spec => []TypeOK
BY TypeInit, TypeNext, PTL DEF Spec

-----------------------------------------------------------------------------
(* The restarts.                                                           *)

LEMMA RestartInit == Init => RestartInv
BY NAssumption
DEF Init, ServiceInit, RestartInv, HostsInv, PresentInv, Renewed, Hosts

(* Hosts other than the present one are not touched.                       *)
LEMMA OthersKept ==
    ASSUME TypeOK, RestartService, NEW h \in Hosts, h # host
    PROVE  running'[h] = running[h] /\ beat'[h] = beat[h] /\ old'[h] = old[h]
<1>1. SystemctlStop(host) \/ SystemctlStart(host) \/ UNCHANGED serviceVars
    BY RestartSteps
<1>2. old'[h] = old[h]
    BY DEF RestartService, TypeOK
<1>3. running'[h] = running[h] /\ beat'[h] = beat[h]
    <2>1. CASE SystemctlStop(host)
        BY <2>1 DEF SystemctlStop, TypeOK, ServiceTypeOK
    <2>2. CASE SystemctlStart(host)
        BY <2>2 DEF SystemctlStart, TypeOK, ServiceTypeOK
    <2>3. CASE UNCHANGED serviceVars
        BY <2>3 DEF serviceVars
    <2> QED BY <1>1, <2>1, <2>2, <2>3
<1> QED BY <1>2, <1>3

(* The step of restart() at each label: where it goes, and what it does to *)
(* the present host.                                                       *)
LEMMA StopStep ==
    ASSUME TypeOK, RestartInv, RestartService,
           pc \in {"stop", "poll_down", "sleep_down"}
    PROVE  /\ pc' \in {"poll_down", "sleep_down", "start", "end"}
           /\ host' = host
           /\ PresentInv'
<1>1. /\ pc' \in {"poll_down", "sleep_down", "start", "end"}
      /\ host' = host
    BY DEF RestartService, Restart, Stop, Start, Executed, Poll, Sleep, Raise, Keep, Goto
<1>2. host \in Hosts /\ ServiceTypeOK /\ old \in [Hosts -> BOOLEAN]
    BY DEF TypeOK
<1>3. ASSUME pc' # "end" PROVE ~old'[host]
    <2>1. CASE pc = "stop"
        <3>1. SystemctlStop(host)
            BY <2>1, <1>3
            DEF RestartService, Restart, Stop, Start, Executed, Raise, Goto
        <3>2. ~running'[host]
            BY <3>1, <1>2 DEF SystemctlStop, ServiceTypeOK
        <3> QED BY <3>2, <1>2 DEF RestartService
    <2>2. CASE pc \in {"poll_down", "sleep_down"}
        BY <2>2, <1>2 DEF RestartService, RestartInv, PresentInv
    <2> QED BY <2>1, <2>2
<1>4. ASSUME pc' = "start" PROVE reported'[host] = "down"
    <2>1. pc = "poll_down" /\ reported[host] = "down" /\ UNCHANGED serviceVars
        BY <1>4 DEF RestartService, Restart, Stop, Start, Executed, Poll, Sleep, Raise, Goto
    <2> QED BY <2>1 DEF serviceVars
<1> QED BY <1>1, <1>3, <1>4 DEF PresentInv, ReportIsOfPresent

LEMMA StartStep ==
    ASSUME TypeOK, RestartInv, RestartService,
           pc \in {"start", "poll_up", "sleep_up"}
    PROVE  \/ /\ pc' \in {"poll_up", "sleep_up", "end"}
              /\ host' = host
              /\ PresentInv'
           \/ /\ pc' \in {"construct", "create"}
              /\ Restarted
              /\ UNCHANGED serviceVars
              /\ Renewed(host)
<1>1. host \in Hosts /\ ServiceTypeOK /\ old \in [Hosts -> BOOLEAN]
    BY DEF TypeOK
<1>2. ~old[host] /\ ReportIsOfPresent(host)
    BY DEF RestartInv, PresentInv
<1>3. ~old'[host]
    BY <1>1, <1>2 DEF RestartService
<1>4. CASE pc = "start"
    <2>1. /\ pc' \in {"poll_up", "end"}
          /\ host' = host
          /\ pc' = "poll_up" => SystemctlStart(host)
        BY <1>4 DEF RestartService, Restart, Stop, Start, Executed, Raise, Keep, Goto
    <2>2. ASSUME pc' = "poll_up"
          PROVE  running'[host] /\ ReportIsOfPresent(host)'
        <3>1. SystemctlStart(host) BY <2>1, <2>2
        <3>2. running'[host] /\ reported' = reported
            BY <3>1, <1>1 DEF SystemctlStart, ServiceTypeOK
        <3>3. ASSUME reported[host] = "up" PROVE beat'[host]
            BY <3>1, <3>3, <1>1, <1>2 DEF SystemctlStart, ServiceTypeOK, ReportIsOfPresent
        <3> QED BY <2>1, <3>2, <3>3 DEF ReportIsOfPresent
    <2> QED BY <2>1, <2>2, <1>3 DEF PresentInv
<1>5. CASE pc \in {"poll_up", "sleep_up"}
    <2>1. UNCHANGED serviceVars
        BY <1>5 DEF RestartService, Restart, Stop, Start, Poll, Sleep
    <2>2. \/ pc' \in {"poll_up", "sleep_up", "end"} /\ host' = host
          \/ pc = "poll_up" /\ reported[host] = "up" /\ Restarted
        BY <1>5 DEF RestartService, Restart, Stop, Start, Poll, Sleep, Raise, Keep, Goto
    <2>3. running[host]
        BY <1>5 DEF RestartInv, PresentInv
    <2>4. CASE pc' \in {"poll_up", "sleep_up", "end"} /\ host' = host
        BY <2>1, <2>3, <2>4, <1>2, <1>3 DEF PresentInv, ReportIsOfPresent, serviceVars
    <2>5. CASE reported[host] = "up" /\ Restarted
        BY <2>1, <2>5, <1>2 DEF Restarted, Goto, Renewed, ReportIsOfPresent
    <2> QED BY <2>2, <2>4, <2>5
<1> QED BY <1>4, <1>5

LEMMA RestartServiceInv ==
    ASSUME TypeOK, RestartInv, RestartService
    PROVE  RestartInv'
<1> USE DEF RestartInv
<1>0. host \in Hosts /\ Hosts \subseteq Nat
    BY DEF TypeOK, Hosts
<1>1. ASSUME host' = host PROVE HostsInv'
    BY <1>0, <1>1, OthersKept DEF HostsInv, Renewed
<1>2. CASE pc \in {"stop", "poll_down", "sleep_down"}
    BY <1>1, <1>2, StopStep
<1>3. CASE pc \in {"start", "poll_up", "sleep_up"}
    <2>1. CASE host' = host /\ PresentInv'
        BY <2>1, <1>1
    <2>2. CASE Restarted /\ UNCHANGED serviceVars /\ Renewed(host)
        <3>1. ~old'[host] /\ \A h \in Hosts : h # host => old'[h] = old[h]
            BY <2>2, <1>0, OthersKept DEF RestartService, TypeOK, Renewed
        <3>2. \A h \in Hosts : h <= host => Renewed(h)'
            BY <2>2, <3>1, <1>0 DEF HostsInv, Renewed, serviceVars
        <3>3. \A h \in Hosts : h > host => old'[h] /\ running'[h]
            BY <2>2, <3>1, <1>0 DEF HostsInv, serviceVars
        <3>4. CASE host < N
            <4>1. pc' = "construct" /\ host' = host + 1 /\ host' \in Hosts
                BY <2>2, <3>4, <1>0, NAssumption DEF Restarted, Goto, Hosts
            <4> QED BY <4>1, <3>2, <3>3, <1>0 DEF HostsInv, PresentInv
        <3>5. CASE ~(host < N)
            <4>1. pc' = "create" /\ host' = host /\ host = N
                BY <2>2, <3>5, <1>0, NAssumption DEF Restarted, Goto, Hosts
            <4> QED BY <4>1, <3>2, <1>1, <1>0 DEF PresentInv
        <3> QED BY <3>4, <3>5
    <2> QED BY <1>3, <2>1, <2>2, StartStep
<1>4. pc \in {"stop", "poll_down", "sleep_down", "start", "poll_up", "sleep_up"}
    BY DEF RestartService, Restart, Stop, Start
<1> QED BY <1>2, <1>3, <1>4

(* A heartbeat, a report that expires and an activation keep what is known *)
(* of each host: none of them stops a process, and 'enabled' comes with a  *)
(* connection to the process that runs.                                    *)
LEMMA HostStep ==
    ASSUME TypeOK, NEW g \in Hosts, Heartbeat(g) \/ Expire(g) \/ Activate(g),
           NEW h \in Hosts
    PROVE  /\ running[h] => running'[h]
           /\ running[h] /\ beat[h] => beat'[h]
           /\ ReportIsOfPresent(h) => ReportIsOfPresent(h)'
<1> USE DEF TypeOK, ServiceTypeOK, ReportIsOfPresent
<1>1. CASE Heartbeat(g) BY <1>1 DEF Heartbeat
<1>2. CASE Expire(g) BY <1>2 DEF Expire
<1>3. CASE Activate(g) BY <1>3 DEF Activate, SystemctlStart
<1> QED BY <1>1, <1>2, <1>3

LEMMA EnvironmentInv ==
    ASSUME TypeOK, RestartInv, Environment
    PROVE  RestartInv'
<1>1. PICK g \in Hosts : Heartbeat(g) \/ Expire(g) \/ Activate(g)
    BY DEF Environment, ServiceStep
<1>2. UNCHANGED <<pc, host, old>>
    BY DEF Environment, managerVars, testVars
<1>3. host \in Hosts
    BY DEF TypeOK
<1>4. \A h \in Hosts : /\ running[h] => running'[h]
                       /\ running[h] /\ beat[h] => beat'[h]
                       /\ ReportIsOfPresent(h) => ReportIsOfPresent(h)'
    BY <1>1, HostStep
<1>5. HostsInv'
    BY <1>2, <1>4 DEF RestartInv, HostsInv, Renewed
<1>6. PresentInv'
    BY <1>2, <1>3, <1>4 DEF RestartInv, PresentInv, Renewed
<1> QED BY <1>5, <1>6 DEF RestartInv

LEMMA RestartNext == TypeOK /\ RestartInv /\ [Next]_vars => RestartInv'
<1> SUFFICES ASSUME TypeOK, RestartInv, [Next]_vars PROVE RestartInv' OBVIOUS
<1>1. CASE Construct
    <2>1. UNCHANGED <<serviceVars, host, old>> /\ pc' \in {"stop", "end"}
        BY <1>1 DEF Construct, Raise, Keep, Goto
    <2> QED BY <1>1, <2>1
        DEF Construct, RestartInv, HostsInv, PresentInv, Renewed, serviceVars
<1>2. CASE RestartService BY <1>2, RestartServiceInv
<1>3. CASE Create
    BY <1>3 DEF Create, Goto, RestartInv, HostsInv, PresentInv, Renewed, serviceVars
<1>4. CASE Environment BY <1>4, EnvironmentInv
<1>5. CASE UNCHANGED vars
    BY <1>5
    DEF vars, serviceVars, managerVars, testVars, RestartInv, HostsInv, PresentInv,
        Renewed, ReportIsOfPresent
<1> QED BY <1>1, <1>2, <1>3, <1>4, <1>5 DEF Next, Plugin

LEMMA RestartAlways == Spec => [](TypeOK /\ RestartInv)
<1>1. Init => TypeOK /\ RestartInv BY TypeInit, RestartInit
<1>2. TypeOK /\ RestartInv /\ [Next]_vars => (TypeOK /\ RestartInv)'
    BY TypeNext, RestartNext
<1> QED BY <1>1, <1>2, PTL DEF Spec

(* With any number of hosts, and virtqemud activated at any time, the vTPM *)
(* server is created only when every host has a new virtqemud that         *)
(* nova-compute has connected to.                                          *)
THEOREM CreatedThen == Spec => []CreatedAfterRestart
<1>1. TypeOK /\ RestartInv => CreatedAfterRestart
    BY DEF TypeOK, RestartInv, HostsInv, PresentInv, Renewed, CreatedAfterRestart, Hosts
<1> QED BY <1>1, RestartAlways, PTL

(* The loop touches one host at a time: what it has not come to is as      *)
(* found, and what it has left runs a new virtqemud.                       *)
THEOREM OneByOne == Spec => []OneHostAtATime
<1>1. RestartInv => OneHostAtATime
    BY DEF RestartInv, HostsInv, Renewed, OneHostAtATime
<1> QED BY <1>1, RestartAlways, PTL
=============================================================================
