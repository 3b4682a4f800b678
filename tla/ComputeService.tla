--------------------------- MODULE ComputeService ---------------------------
(***************************************************************************)
(* The nova-compute services of a deployment, as the plugin sees them.     *)
(*                                                                         *)
(* None of this is code of the repository: it is the world that            *)
(* services/clients.py drives over SSH and watches through the os-services *)
(* API.  Each host has a configuration file that `crudini` edits, a        *)
(* process that `start_command` and `stop_command` control and that reads  *)
(* the file when it starts, and a record in Nova's database from which     *)
(* the API computes the service's "state".  The record is kept up by the   *)
(* heartbeats of the process, so it lags behind the process both ways.     *)
(***************************************************************************)
EXTENDS Naturals

CONSTANTS
    N,          \* number of compute hosts, in the order list_services gives
    Options,    \* the (section, option) pairs of the configuration file
    Values,     \* the values an option can be given
    NoValue     \* the option is not in the file (Python's None)

ASSUME NAssumption == N \in Nat \ {0}

ASSUME NoValueAssumption == NoValue \notin Values

VARIABLES
    conf,       \* conf[h][o]: what host h's file holds for option o
    running,    \* running[h]: the service process of h is alive
    loaded,     \* loaded[h]: the configuration its process read at start
    reported,   \* reported[h]: "state" of the service in the os-services API
    beat        \* beat[h]: the present process has sent a heartbeat

serviceVars == <<conf, running, loaded, reported, beat>>

Hosts == 1..N

Conf == [Options -> Values \cup {NoValue}]

ServiceTypeOK ==
    /\ conf \in [Hosts -> Conf]
    /\ running \in [Hosts -> BOOLEAN]
    /\ loaded \in [Hosts -> Conf]
    /\ reported \in [Hosts -> {"up", "down"}]
    /\ beat \in [Hosts -> BOOLEAN]

\* A deployment at rest: every service runs with what its file says
\* ("Assumes all are up and running", api/compute/base.py:121).
ServiceInit ==
    /\ conf \in [Hosts -> Conf]
    /\ running = [h \in Hosts |-> TRUE]
    /\ loaded = conf
    /\ reported = [h \in Hosts |-> "up"]
    /\ beat = [h \in Hosts |-> TRUE]

-----------------------------------------------------------------------------
(* The effects of the commands the plugin executes on a host.              *)

\* crudini --set, or crudini --del when v is NoValue.
Crudini(h, o, v) ==
    /\ conf' = [conf EXCEPT ![h][o] = v]
    /\ UNCHANGED <<running, loaded, reported, beat>>

\* systemctl stop: the process is gone, its record is not touched.
SystemctlStop(h) ==
    /\ running' = [running EXCEPT ![h] = FALSE]
    /\ UNCHANGED <<conf, loaded, reported, beat>>

\* systemctl start: a new process reads the file; an active unit is left alone.
SystemctlStart(h) ==
    /\ running' = [running EXCEPT ![h] = TRUE]
    /\ loaded' = [loaded EXCEPT ![h] = IF running[h] THEN @ ELSE conf[h]]
    /\ beat' = [beat EXCEPT ![h] = running[h] /\ @]
    /\ UNCHANGED <<conf, reported>>

-----------------------------------------------------------------------------
(* What the services do by themselves.                                     *)

\* A live process reports itself (report_interval).
Heartbeat(h) ==
    /\ running[h]
    /\ reported' = [reported EXCEPT ![h] = "up"]
    /\ beat' = [beat EXCEPT ![h] = TRUE]
    /\ UNCHANGED <<conf, running, loaded>>

\* No heartbeat for service_down_time: the process is gone, or just slow.
Expire(h) ==
    /\ reported[h] = "up"
    /\ reported' = [reported EXCEPT ![h] = "down"]
    /\ UNCHANGED <<conf, running, loaded, beat>>

ServiceStep == \E h \in Hosts : Heartbeat(h) \/ Expire(h)
=============================================================================
