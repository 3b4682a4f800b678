------------------------- MODULE NovaServiceManager -------------------------
(***************************************************************************)
(* NovaServiceManager of services/clients.py: start(), stop() and the      *)
(* get/set of one configuration option, down to the remote commands and    *)
(* API calls they are made of.                                             *)
(*                                                                         *)
(* Every remote command is one step.  It may succeed, or raise: SSH may    *)
(* fail before the command runs, or after it has run and before its answer *)
(* arrives, so a command that raises may or may not have had its effect.   *)
(* A wait is a loop of steps, because Nova's view of the service moves     *)
(* while the plugin polls and sleeps.                                      *)
(*                                                                         *)
(* The operators take what the caller does next as arguments: Keep leaves  *)
(* the caller's own state alone, Return is what follows a normal return,   *)
(* Raise is what follows an exception.                                     *)
(***************************************************************************)
EXTENDS ComputeService

CONSTANT
    MaxPolls    \* polls that fit in build_timeout, at most

ASSUME MaxPollsAssumption == MaxPolls \in Nat

VARIABLES
    pc,         \* where the plugin is
    polls       \* polls made so far by the wait in progress

managerVars == <<pc, polls>>

WaitLabels == {"poll_down", "sleep_down", "poll_up", "sleep_up"}

ManagerLabels == {"stop", "start"} \cup WaitLabels

Goto(label) == pc' = label /\ polls' = 0

-----------------------------------------------------------------------------
(* A command: it has its effect and the program goes on, or it raises.     *)

Executed(Effect, Then, Raise) ==
    \/ Effect /\ Then
    \/ Effect /\ Raise
    \/ UNCHANGED serviceVars /\ Raise

-----------------------------------------------------------------------------
(* wait_for_nova_service_state.  Note the order in the loop: the clock is  *)
(* looked at after the sleep and before the next poll, so a state reached  *)
(* during the last sleep is not seen.                                      *)

Poll(h, state, sleep, Keep, Return, Raise) ==
    /\ UNCHANGED serviceVars
    /\ \/ reported[h] = state /\ Return
       \/ reported[h] # state /\ pc' = sleep /\ UNCHANGED polls /\ Keep
       \/ Raise

\* Mutant: the loop never looks at the clock.
SleepForever(poll, Keep, Raise) ==
    UNCHANGED serviceVars /\ pc' = poll /\ UNCHANGED polls /\ Keep

Sleep(poll, Keep, Raise) ==
    /\ UNCHANGED serviceVars
    /\ \/ polls < MaxPolls /\ pc' = poll /\ polls' = polls + 1 /\ Keep
       \/ Raise

-----------------------------------------------------------------------------
(* stop(): the stop command, then wait for 'down'.                         *)

\* Mutant: stop() returns as soon as the command has, as in ServiceManager.
StopNoWait(h, Keep, Return, Raise) ==
    pc = "stop" /\ Executed(SystemctlStop(h), Return, Raise)

Stop(h, Keep, Return, Raise) ==
    \/ /\ pc = "stop"
       /\ Executed(SystemctlStop(h), Goto("poll_down") /\ Keep, Raise)
    \/ /\ pc = "poll_down"
       /\ Poll(h, "down", "sleep_down", Keep, Return, Raise)
    \/ /\ pc = "sleep_down"
       /\ Sleep("poll_down", Keep, Raise)

(* start(): the start command, then wait for 'up'.                         *)

\* Mutant: start() returns as soon as the command has, as in ServiceManager.
StartNoWait(h, Keep, Return, Raise) ==
    pc = "start" /\ Executed(SystemctlStart(h), Return, Raise)

Start(h, Keep, Return, Raise) ==
    \/ /\ pc = "start"
       /\ Executed(SystemctlStart(h), Goto("poll_up") /\ Keep, Raise)
    \/ /\ pc = "poll_up"
       /\ Poll(h, "up", "sleep_up", Keep, Return, Raise)
    \/ /\ pc = "sleep_up"
       /\ Sleep("poll_up", Keep, Raise)

(* restart(): stop(), then start().                                        *)

Restart(h, Keep, Return, Raise) ==
    \/ Stop(h, Keep, Goto("start") /\ Keep, Raise)
    \/ Start(h, Keep, Return, Raise)
=============================================================================
