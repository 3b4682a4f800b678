------------------------------ MODULE Waiters ------------------------------
(***************************************************************************)
(* The polling loops of the plugin, with a clock:                          *)
(*                                                                         *)
(*   service    wait_for_nova_service_state          common/waiters.py     *)
(*   migration  wait_for_server_migration_complete   common/waiters.py     *)
(*   trait      wait_for_trait_add_in_rp             common/waiters.py     *)
(*   domain     _wait_for_domain_shutdown            api/compute/base.py   *)
(*   pci        _validate_pci_allocation             .../test_sriov.py     *)
(*   port       wait_for_port_detach                 .../test_sriov.py     *)
(*                                                                         *)
(* They all poll until what they wait for is so or build_timeout is over,  *)
(* but they look at the clock, poll and sleep in different orders, with    *)
(* different comparisons.  Time is counted in ticks, of which a second has *)
(* several, because the code truncates time.time() to whole seconds.       *)
(***************************************************************************)
EXTENDS Naturals

CONSTANTS
    Second,     \* ticks in a second
    Timeout,    \* build_timeout, in seconds
    Interval,   \* build_interval, in seconds
    MaxCall,    \* the longest an API call or a remote command takes, in ticks
    MaxLate,    \* by how much a sleep may overrun, in ticks
    Horizon     \* later than the latest time a wait can reach, in ticks

ASSUME WaitersAssumption ==
    /\ {Second, Interval, MaxCall} \subseteq Nat \ {0}
    /\ {Timeout, MaxLate, Horizon} \subseteq Nat

VARIABLES
    waiter,     \* which of the loops runs
    pc,
    now,        \* the clock
    began,      \* when the function was called
    start_time, \* int(time.time()) as the function saved it, in seconds
    polls,      \* polls so far
    reached_at  \* when what is waited for comes about, and stays

vars == <<waiter, pc, now, began, start_time, polls, reached_at>>

Kinds == {"service", "migration", "trait", "domain", "pci", "port"}

TypeOK ==
    /\ waiter \in Kinds
    /\ pc \in {"enter", "first_poll", "poll", "sleep", "check", "returned", "timeout", "failed"}
    /\ {now, began, start_time, polls, reached_at} \subseteq Nat
    /\ began <= now /\ start_time <= now \div Second

\* A wait may begin anywhere within a second.
Init ==
    /\ waiter \in Kinds
    /\ pc = "enter"
    /\ began \in 0..(Second - 1)
    /\ now = began
    /\ start_time = 0
    /\ polls = 0
    /\ reached_at \in 0..Horizon

-----------------------------------------------------------------------------
(* What the loops differ in.                                               *)

\* The loops of the form `while int(time.time()) - start_time <= timeout`.
HeadChecked == {"migration", "trait", "domain", "pci"}

SleepTime == (IF waiter \in {"migration", "pci"} THEN Interval + 1 ELSE Interval) * Second

Elapsed == now \div Second - start_time

\* Mutant: the next sleep is counted as if it had already been slept.
ExpiredEarly == Elapsed + Interval >= Timeout

\* Mutant: the elapsed time is never looked at.
ExpiredNever == FALSE

Expired == IF waiter \in HeadChecked THEN Elapsed > Timeout ELSE Elapsed >= Timeout

\* Mutant: `continue` in all the loops.
AfterPollNoSleep == "check"

\* `continue` in _wait_for_domain_shutdown: its sleep is never reached.
AfterPoll ==
    CASE waiter = "domain" -> "check"
      [] waiter = "port" /\ pc = "poll" -> "check"
      [] OTHER -> "sleep"

\* Mutant: the port is not looked at again after the sleep.
AfterSleepNoPoll == "check"

AfterSleep == IF waiter = "port" THEN "poll" ELSE "check"

AfterCheck == IF waiter = "port" THEN "sleep" ELSE "poll"

-----------------------------------------------------------------------------
(* The steps.                                                              *)

Enter ==
    /\ pc = "enter"
    /\ start_time' = now \div Second
    /\ pc' = CASE waiter \in HeadChecked -> "check"
               [] waiter = "service" -> "poll"
               [] waiter = "port" -> "first_poll"
    /\ UNCHANGED <<waiter, now, began, polls, reached_at>>

\* A call takes time, and answers what was so at some moment of the call.  It
\* may also raise, as the wait on a migration does when the migration failed.
\* wait_for_port_detach reads the clock only after its first call.
Poll ==
    /\ pc \in {"first_poll", "poll"}
    /\ \E end \in (now + 1)..(now + MaxCall) :
          \E seen \in now..end :
             /\ now' = end
             /\ pc' \in {IF seen >= reached_at THEN "returned" ELSE AfterPoll, "failed"}
             /\ start_time' = IF pc = "first_poll" THEN end \div Second ELSE start_time
    /\ polls' = polls + 1
    /\ UNCHANGED <<waiter, began, reached_at>>

Sleep ==
    /\ pc = "sleep"
    /\ \E late \in 0..MaxLate : now' = now + SleepTime + late
    /\ pc' = AfterSleep
    /\ UNCHANGED <<waiter, began, start_time, polls, reached_at>>

Check ==
    /\ pc = "check"
    /\ pc' = IF Expired THEN "timeout" ELSE AfterCheck
    /\ UNCHANGED <<waiter, now, began, start_time, polls, reached_at>>

Next == Enter \/ Poll \/ Sleep \/ Check

Spec == Init /\ [][Next]_vars

-----------------------------------------------------------------------------
(* Properties.                                                             *)

\* One round of the loop, at its longest.
Round == MaxCall + SleepTime + MaxLate

(* No wait gives up more than the truncated second before build_timeout,   *)
(* and the loops that compare with <= not before it.                       *)
NotTooEarly ==
    pc = "timeout" =>
        now - began > (IF waiter \in HeadChecked THEN Timeout ELSE Timeout - 1) * Second

(* What came about a round and the truncated second before build_timeout   *)
(* was over is seen: no wait times out on it.                              *)
SeenInTime ==
    pc = "timeout" => reached_at + Round + Second > began + Timeout * Second

(* A wait is over at most a round, the truncated second and a call after   *)
(* build_timeout, whatever the deployment does.                            *)
NotTooLate ==
    now <= began + (Timeout + 1) * Second + Round + MaxCall

(* The loops do not flood the API: but for the one on the domain, which    *)
(* never sleeps, they poll once per interval.                              *)
PollsAreSpaced ==
    waiter # "domain" => polls * SleepTime <= (now - began) + SleepTime

-----------------------------------------------------------------------------
(* The inductive invariant behind them: at each label, how late it can be, *)
(* how old the last answer is, and how many polls there were.              *)

Ended == {"returned", "timeout", "failed"}

\* The saved second is that of the call, or of the first answer for the port.
StartInv ==
    pc # "enter" =>
        /\ began < Second * start_time + Second
        /\ Second * start_time <= began + MaxCall
        /\ waiter # "port" => Second * start_time <= began

\* No loop goes on from a look at the clock at or after this.
Limit == Second * start_time + Second * Timeout + Second

TimeInv ==
    /\ pc \in {"enter", "first_poll"} => now = began
    /\ pc = "first_poll" => waiter = "port"
    /\ waiter # "port" =>
          /\ pc = "poll" => now < Limit
          /\ pc = "sleep" => now < Limit + MaxCall
    /\ waiter = "port" =>
          /\ pc = "sleep" => now < Limit
          /\ pc = "poll" => now < Limit + SleepTime + MaxLate
    /\ pc \in {"check"} \cup Ended => now < Limit + Round

SeenInv ==
    /\ pc \in {"enter", "first_poll"} => polls = 0
    /\ pc = "sleep" => polls # 0 /\ now < reached_at + MaxCall
    /\ pc = "check" /\ polls = 0 => waiter \in HeadChecked /\ Elapsed = 0
    /\ pc = "check" /\ polls # 0 =>
          now < reached_at + (IF waiter = "port" THEN MaxCall ELSE Round)
    /\ pc = "timeout" => now < reached_at + Round /\ Expired

SpacedInv ==
    waiter # "domain" =>
        /\ pc \in {"enter", "first_poll", "poll"} => polls * SleepTime <= now - began
        /\ pc = "check" /\ waiter # "port" => polls * SleepTime <= now - began
        /\ polls * SleepTime <= now - began + SleepTime

LoopInv == TypeOK /\ StartInv /\ TimeInv /\ SeenInv /\ SpacedInv
=============================================================================
