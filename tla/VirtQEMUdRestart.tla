-------------------------- MODULE VirtQEMUdRestart --------------------------
(***************************************************************************)
(* test_vtpm_creation_after_virtqemud_restart (api/compute/test_vtpm.py):  *)
(* VirtQEMUdManager.restart() on one host after the other, and then a      *)
(* server is created.                                                      *)
(*                                                                         *)
(* VirtQEMUdManager is NovaServiceManager over another pair of signals:    *)
(* the process is virtqemud, and what is polled is the "status" of the     *)
(* nova-compute service, which Nova turns to 'disabled' (here "down") when *)
(* nova-compute loses libvirt and to 'enabled' ("up") when it connects.    *)
(* Unlike ServiceManager it does not mask the unit: a virtqemud that is    *)
(* socket activated may be back before start() is called.                  *)
(***************************************************************************)
EXTENDS NovaServiceManager

VARIABLES
    host,       \* the host whose manager runs
    raised,     \* an exception ended the test
    old         \* history: old[h], the process on h is the one found

testVars == <<host, raised, old>>

vars == <<serviceVars, managerVars, testVars>>

TypeOK ==
    /\ ServiceTypeOK
    /\ pc \in ManagerLabels \cup {"construct", "create", "end"}
    /\ polls \in 0..MaxPolls
    /\ host \in Hosts
    /\ raised \in BOOLEAN
    /\ old \in [Hosts -> BOOLEAN]

Init ==
    /\ ServiceInit
    /\ pc = "construct"
    /\ polls = 0
    /\ host = 1
    /\ raised = FALSE
    /\ old = [h \in Hosts |-> TRUE]

-----------------------------------------------------------------------------
(* The loop over the hosts.                                                *)

Raise == Goto("end") /\ raised' = TRUE /\ UNCHANGED host

Keep == UNCHANGED <<host, raised>>

Restarted ==
    /\ IF host < N THEN Goto("construct") /\ host' = host + 1
                   ELSE Goto("create") /\ UNCHANGED host
    /\ UNCHANGED raised

Construct ==
    /\ pc = "construct"
    /\ \/ Goto("stop") /\ Keep
       \/ Raise
    /\ UNCHANGED <<serviceVars, old>>

RestartService ==
    /\ Restart(host, Keep, Restarted, Raise)
    /\ old' = [old EXCEPT ![host] = @ /\ running'[host]]

\* _vtpm_server_creation_check.
Create ==
    /\ pc = "create"
    /\ Goto("end")
    /\ raised' \in BOOLEAN
    /\ UNCHANGED <<serviceVars, host, old>>

-----------------------------------------------------------------------------
(* nova-compute connects to the socket, and systemd starts virtqemud.      *)
Activate(h) ==
    /\ ~running[h]
    /\ SystemctlStart(h)

Environment ==
    /\ ServiceStep \/ \E h \in Hosts : Activate(h)
    /\ UNCHANGED <<managerVars, testVars>>

Plugin == Construct \/ RestartService \/ Create

Next == Plugin \/ Environment

\* The test runner keeps running: a step the plugin can take is taken.
Fairness == WF_vars(Plugin)

Spec == Init /\ [][Next]_vars /\ Fairness

-----------------------------------------------------------------------------
(* Properties.                                                             *)

(* The server is created only when every host runs a new virtqemud that    *)
(* nova-compute has connected to: restart() waits for 'disabled' before it *)
(* starts, so 'enabled' is not what Nova said of the old one.              *)
CreatedAfterRestart ==
    pc = "create" => \A h \in Hosts : ~old[h] /\ running[h] /\ beat[h]

(* Hosts are restarted one at a time: a host that the loop has not come to *)
(* is untouched, and one it has left has a new virtqemud running.          *)
OneHostAtATime ==
    /\ \A h \in Hosts : h > host => old[h] /\ running[h]
    /\ \A h \in Hosts : h < host => ~old[h] /\ running[h]

(* Every wait is bounded, so the test ends.                                *)
Termination == <>(pc = "end")

-----------------------------------------------------------------------------
(* The inductive invariant behind the first two.                           *)

\* h runs a virtqemud that the test started and nova-compute has connected to.
Renewed(h) == ~old[h] /\ running[h] /\ beat[h]

\* Nova's 'enabled' is about the process that runs.
ReportIsOfPresent(h) == reported[h] = "up" => running[h] /\ beat[h]

HostsInv ==
    /\ \A h \in Hosts : h > host => old[h] /\ running[h]
    /\ \A h \in Hosts : h < host => Renewed(h)

PresentInv ==
    /\ pc \in {"construct", "stop"} => old[host] /\ running[host]
    /\ pc \in {"poll_down", "sleep_down"} => ~old[host]
    /\ pc \in {"start", "poll_up", "sleep_up"} =>
          ~old[host] /\ ReportIsOfPresent(host)
    /\ pc \in {"poll_up", "sleep_up"} => running[host]
    /\ pc = "create" => host = N /\ Renewed(host)

RestartInv == HostsInv /\ PresentInv
=============================================================================
