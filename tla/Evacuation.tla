----------------------------- MODULE Evacuation -----------------------------
(***************************************************************************)
(* The evacuation tests (api/compute/test_server_evacuation.py and the     *)
(* vGPU and vDPA ones): with NovaServiceManager.stopped() around it, the   *)
(* test shuts the server's domain down behind Nova's back, evacuates the   *)
(* server and waits for its migration; after the `with` it looks at where  *)
(* the server is.                                                          *)
(*                                                                         *)
(* Nova's part, the evacuation itself, runs at its own pace beside it.     *)
(***************************************************************************)
EXTENDS NovaServiceManager

VARIABLES
    target,     \* the host passed to evacuate_server, or 0 for none
    stays_off,  \* microversion 2.95 on: an evacuated server is SHUTOFF
    host_a,     \* the host of the server when the test began
    raised,     \* which part raised an exception, "no" if none has
    domain,     \* domain[h]: the libvirt domain of the server on h
    shutdown,   \* virsh shutdown was sent to it
    server,     \* the API's record: its host and its status
    evacuation, \* status of the migration record of this evacuation
    older       \* status of the oldest migration record before it, "none" without one

\* Chosen by the test and by where its server was scheduled.
testCase == <<target, stays_off, host_a>>

testVars == <<testCase, raised>>

novaVars == <<domain, shutdown, server, evacuation, older>>

vars == <<serviceVars, managerVars, testVars, novaVars>>

BodyLabels == {"virsh", "poll_domain", "evacuate", "poll_migration", "sleep_migration"}

Finished == {"done", "completed"}
Failed == {"error", "failed"}

TypeOK ==
    /\ ServiceTypeOK
    /\ pc \in ManagerLabels \cup BodyLabels \cup {"construct", "assert", "end"}
    /\ polls \in 0..MaxPolls
    /\ target \in 0..N
    /\ stays_off \in BOOLEAN
    /\ host_a \in Hosts \ {target}
    /\ raised \in {"no", "stop", "body", "start", "other"}
    /\ domain \in [Hosts -> {"absent", "running", "shutoff"}]
    /\ shutdown \in BOOLEAN
    /\ server \in [host : Hosts, status : {"ACTIVE", "SHUTOFF"}]
    /\ evacuation \in {"none", "accepted", "pre-migrating"} \cup Finished \cup Failed
    /\ older \in {"none", "confirmed"} \cup Finished \cup Failed

\* The server is ACTIVE; get_host_other_than gave a target that is not its host.
\* test_evacuate_to_active, the test at microversion 2.94, passes no target.
Init ==
    /\ ServiceInit
    /\ pc = "construct"
    /\ polls = 0
    /\ target \in 0..N
    /\ stays_off \in IF target = 0 THEN BOOLEAN ELSE {TRUE}
    /\ host_a \in Hosts \ {target}
    /\ raised = "no"
    /\ domain = [h \in Hosts |-> IF h = host_a THEN "running" ELSE "absent"]
    /\ shutdown = FALSE
    /\ server = [host |-> host_a, status |-> "ACTIVE"]
    /\ evacuation = "none"
    /\ older \in {"none", "completed", "confirmed", "failed"}

-----------------------------------------------------------------------------
(* stopped(): the service is stopped before the `try`; whatever the body   *)
(* does, `finally` starts it.                                              *)

Part ==
    CASE pc \in {"stop", "poll_down", "sleep_down"} -> "stop"
      [] pc \in {"start", "poll_up", "sleep_up"} -> "start"
      [] pc \in BodyLabels -> "body"
      [] OTHER -> "other"

Keep == UNCHANGED <<testVars, novaVars>>

Continue(label) == Goto(label) /\ UNCHANGED testVars

\* Mutant: no `finally`, the exception of the body leaves the with at once.
RaiseNoFinally ==
    /\ Goto("end")
    /\ raised' = Part
    /\ UNCHANGED testCase

Raise ==
    /\ Goto(IF Part = "body" THEN "start" ELSE "end")
    /\ raised' = Part
    /\ UNCHANGED testCase

\* start() returned: an exception of the body propagates, else the test goes on.
Restarted ==
    /\ Goto(IF raised = "no" THEN "assert" ELSE "end")
    /\ UNCHANGED <<testVars, novaVars>>

Construct ==
    /\ pc = "construct"
    /\ \/ Continue("stop")
       \/ Raise
    /\ UNCHANGED <<serviceVars, novaVars>>

StopService == Stop(host_a, Keep, Goto("virsh") /\ Keep, Raise /\ UNCHANGED novaVars)

StartService == Start(host_a, Keep, Restarted, Raise /\ UNCHANGED novaVars)

-----------------------------------------------------------------------------
(* shutdown_server_domain.                                                 *)

\* Mutant: the domain is told to shut down and not waited for.
VirshShutdownNoWait ==
    /\ pc = "virsh"
    /\ \/ shutdown' = TRUE /\ (Continue("evacuate") \/ Raise)
       \/ UNCHANGED shutdown /\ Raise
    /\ UNCHANGED <<serviceVars, domain, server, evacuation, older>>

VirshShutdown ==
    /\ pc = "virsh"
    /\ \/ shutdown' = TRUE /\ (Continue("poll_domain") \/ Raise)
       \/ UNCHANGED shutdown /\ Raise
    /\ UNCHANGED <<serviceVars, domain, server, evacuation, older>>

\* _wait_for_domain_shutdown.  `continue` skips the sleep, so the loop polls
\* `virsh list` as fast as it can until build_timeout is over.
WaitForDomainShutdown ==
    /\ pc = "poll_domain"
    /\ \/ domain[host_a] # "running" /\ Continue("evacuate")
       \/ /\ domain[host_a] = "running" /\ polls < MaxPolls
          /\ polls' = polls + 1 /\ UNCHANGED <<pc, testVars>>
       \/ Raise
    /\ UNCHANGED <<serviceVars, novaVars>>

-----------------------------------------------------------------------------
(* evacuate_server: the API refuses while the service is reported up, and  *)
(* has created the migration record when it returns.                       *)

\* Mutant: evacuate_server returns when the API does.
EvacuateServerNoWait ==
    /\ pc = "evacuate"
    /\ \/ /\ reported[host_a] = "down"
          /\ evacuation' = "accepted"
          /\ Continue("start") \/ Raise
       \/ UNCHANGED evacuation /\ Raise
    /\ UNCHANGED <<serviceVars, domain, shutdown, server, older>>

EvacuateServer ==
    /\ pc = "evacuate"
    /\ \/ /\ reported[host_a] = "down"
          /\ evacuation' = "accepted"
          /\ Continue("poll_migration") \/ Raise
       \/ UNCHANGED evacuation /\ Raise
    /\ UNCHANGED <<serviceVars, domain, shutdown, server, older>>

\* list_migrations()['migrations'][-1]['status'], over all the servers.  All the
\* tests that evacuate ask for microversion 2.94 or 2.95, with which the newest
\* record is the first, so that the last one is the oldest.
LastMigration == IF older = "none" THEN evacuation ELSE older

\* wait_for_server_migration_complete.
PollMigration ==
    /\ pc = "poll_migration"
    /\ \/ LastMigration \in Finished /\ Continue("start")
       \/ /\ LastMigration \notin Finished \cup Failed
          /\ pc' = "sleep_migration" /\ UNCHANGED <<polls, testVars>>
       \/ Raise    \* the migration failed, or the call did
    /\ UNCHANGED <<serviceVars, novaVars>>

SleepMigration ==
    pc = "sleep_migration" /\ Sleep("poll_migration", Keep, Raise /\ UNCHANGED novaVars)

-----------------------------------------------------------------------------
(* The assertions after the with.                                          *)

\* Mutant: the status of the server is not looked at.
EvacuatedAnyStatus ==
    IF target = 0 THEN server.host # host_a ELSE server.host = target

Evacuated ==
    /\ IF target = 0 THEN server.host # host_a ELSE server.host = target
    /\ server.status = IF stays_off THEN "SHUTOFF" ELSE "ACTIVE"

Assert ==
    /\ pc = "assert"
    /\ Goto("end")
    /\ raised' = IF Evacuated THEN "no" ELSE "other"
    /\ UNCHANGED <<serviceVars, testCase, novaVars>>

-----------------------------------------------------------------------------
(* The deployment.                                                         *)

\* The guest obeys the shutdown, sooner or later or never.
GuestShutsDown ==
    /\ shutdown /\ domain[host_a] = "running"
    /\ domain' = [domain EXCEPT ![host_a] = "shutoff"]
    /\ UNCHANGED <<shutdown, server, evacuation, older>>

\* A compute host other than the source rebuilds the server and runs it ...
Rebuild ==
    /\ evacuation = "accepted"
    /\ \E h \in Hosts \ {host_a} :
          /\ running[h] /\ target \in {0, h}
          /\ domain' = [domain EXCEPT ![h] = "running"]
          /\ server' = [server EXCEPT !.host = h]
    /\ evacuation' = "pre-migrating"
    /\ UNCHANGED <<shutdown, older>>

\* ... stops it again if it is to stay stopped, and then says so.
RebuildDone ==
    /\ evacuation = "pre-migrating"
    /\ domain' = [domain EXCEPT ![server.host] = IF stays_off THEN "shutoff" ELSE @]
    /\ server' = [server EXCEPT !.status = IF stays_off THEN "SHUTOFF" ELSE @]
    /\ evacuation' = "done"
    /\ UNCHANGED <<shutdown, older>>

RebuildFails ==
    /\ evacuation = "accepted"
    /\ evacuation' \in Failed
    /\ UNCHANGED <<domain, shutdown, server, older>>

\* Before its first heartbeat, a process removes what was evacuated from its host.
DestroyEvacuated(h) ==
    IF ~beat[h] /\ h = host_a /\ evacuation = "done"
    THEN /\ domain' = [domain EXCEPT ![h] = "absent"]
         /\ evacuation' = "completed"
         /\ UNCHANGED <<shutdown, server, older>>
    ELSE UNCHANGED novaVars

Environment ==
    /\ \/ UNCHANGED serviceVars /\ (GuestShutsDown \/ Rebuild \/ RebuildDone \/ RebuildFails)
       \/ \E h \in Hosts : Heartbeat(h) /\ DestroyEvacuated(h)
       \/ \E h \in Hosts : Expire(h) /\ UNCHANGED novaVars
    /\ UNCHANGED <<managerVars, testVars>>

Plugin ==
    \/ Construct
    \/ StopService
    \/ VirshShutdown
    \/ WaitForDomainShutdown
    \/ EvacuateServer
    \/ PollMigration
    \/ SleepMigration
    \/ StartService
    \/ Assert

Next == Plugin \/ Environment

\* The test runner keeps running: a step the plugin can take is taken.
Fairness == WF_vars(Plugin)

Spec == Init /\ [][Next]_vars /\ Fairness

-----------------------------------------------------------------------------
(* Properties.                                                             *)

(* The server never runs on two hosts: the test evacuates it only once its *)
(* domain is shut down, and only that domain could run beside the new one. *)
NoSplitBrain ==
    \A g, h \in Hosts : domain[g] = "running" /\ domain[h] = "running" => g = h

(* "Evacuate server and wait for server migration to complete." (base.py   *)
(* 492): a test that reaches its assertions finds a finished evacuation,   *)
(* and the source host already rid of the old domain, since the migration  *)
(* was waited for before start() let the source look for leftovers.        *)
EvacuatedWhenAsserted ==
    pc = "assert" => Evacuated /\ evacuation = "completed" /\ domain[host_a] = "absent"

(* That much is true of the first migration of a deployment: its record is *)
(* the only one, so that it is the one the wait reads.                     *)
FirstEvacuatedWhenAsserted == older = "none" => EvacuatedWhenAsserted

(* Where the wait returned on an older record, the source is started while *)
(* the target still rebuilds the server.  All the same a test passes only  *)
(* after the target has it, with nothing running on the source, and, at    *)
(* microversion 2.95, only after its evacuation was done: the target sets  *)
(* SHUTOFF, for which the test looks, at the end.                          *)
PassedAfterEvacuation ==
    pc = "end" /\ raised = "no" =>
        /\ evacuation \in Finished \/ (~stays_off /\ evacuation = "pre-migrating")
        /\ domain[host_a] # "running" /\ server.host # host_a

(* "The service is started up again after the test code has run"           *)
(* (services/clients.py:174), also when the test code raised: the service  *)
(* is stopped at the end only if stop() or start() itself raised.          *)
ServiceStartedAgain ==
    pc = "end" /\ raised \notin {"stop", "start"} => running[host_a] /\ beat[host_a]

(* Every wait is bounded, so the test ends.                                *)
Termination == <>(pc = "end")

-----------------------------------------------------------------------------
(* The inductive invariants behind the safety properties.                  *)

\* The process of the source host, and what Nova reports of it.
SourceInv ==
    /\ pc \in {"construct", "stop"} => running[host_a] /\ beat[host_a]
    /\ pc \in {"poll_down", "sleep_down"} => ~running[host_a]
    /\ pc \in BodyLabels \cup {"start"} => ~running[host_a] /\ reported[host_a] = "down"
    /\ pc \in {"poll_up", "sleep_up"} =>
           running[host_a] /\ (reported[host_a] = "up" => beat[host_a])
    /\ pc = "assert" => running[host_a] /\ beat[host_a]
    /\ ServiceStartedAgain

\* Where the server is, by how far its evacuation has come.
ServerInv ==
    /\ pc \in {"construct", "stop", "poll_down", "sleep_down",
               "virsh", "poll_domain", "evacuate"} => evacuation = "none"
    /\ pc = "evacuate" \/ evacuation # "none" => domain[host_a] # "running"
    /\ evacuation \in {"none", "accepted"} \cup Failed =>
           server.host = host_a /\ \A h \in Hosts \ {host_a} : domain[h] = "absent"
    /\ evacuation \in {"pre-migrating"} \cup Finished =>
           /\ server.host # host_a /\ target \in {0, server.host}
           /\ \A h \in Hosts \ {host_a, server.host} : domain[h] = "absent"
    /\ IF evacuation \in Finished /\ stays_off THEN server.status = "SHUTOFF"
                                               ELSE server.status = "ACTIVE"
    /\ evacuation = "completed" => domain[host_a] = "absent"

\* What the test knows once the wait has read its own migration, if nothing raised.
WaitedInv ==
    /\ older = "none" /\ raised = "no" /\ pc \in {"start", "poll_up", "sleep_up", "assert"} =>
           evacuation \in Finished
    /\ older = "none" /\ raised = "no" /\ pc \in {"poll_up", "sleep_up", "assert"}
       /\ beat[host_a] => evacuation = "completed"
    /\ pc = "assert" => raised = "no"

\* What the assertions have seen.
AssertedInv ==
    pc = "end" /\ raised = "no" =>
        server.host # host_a /\ (stays_off => server.status = "SHUTOFF")
=============================================================================
