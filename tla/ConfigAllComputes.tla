-------------------------- MODULE ConfigAllComputes --------------------------
(***************************************************************************)
(* `with self.config_all_computes(options):` of api/compute/base.py, the  *)
(* context manager that runs a test body with other nova-compute options   *)
(* on every host.  It enters ServiceManager.config_options for one host    *)
(* after the other on an ExitStack, runs the body, and unwinds the stack.  *)
(*                                                                         *)
(* config_options saves and sets the options one by one and restarts the   *)
(* service, all of it before its `try`; after the `yield` it puts the      *)
(* saved values back in the same order and restarts the service again.     *)
(***************************************************************************)
EXTENDS NovaServiceManager

CONSTANTS
    M,                  \* number of (section, option, value) tuples passed
    OptionOf,           \* OptionOf[i]: the option of the i-th tuple
    ValueOf,            \* ValueOf[i]: its value, NoValue to delete the option
    SpuriousNotFound    \* a failing `crudini --get` may say "not found"

Opts == 1..M

ASSUME OptsAssumption ==
    /\ M \in Nat \ {0}
    /\ OptionOf \in [Opts -> Options]
    /\ ValueOf \in [Opts -> Values \cup {NoValue}]
    /\ SpuriousNotFound \in BOOLEAN

\* No option is passed twice; every caller in the repository obeys this.
DistinctOptions == \A i, j \in Opts : OptionOf[i] = OptionOf[j] => i = j

VARIABLES
    phase,              \* which half of config_options runs: "enter", "exit"
    host,               \* the host whose config_options runs
    opt,                \* the index of the tuple its loop is at
    initial_values,     \* initial_values[h][i]: saved for the i-th tuple
    stack,              \* how many hosts are on the ExitStack: 1..stack
    raised,             \* an exception is propagating
    failed,             \* history: in which half host h's manager raised
    conf0               \* history: the files when the test began

stackVars == <<phase, host, opt, stack>>

vars == <<serviceVars, managerVars, stackVars, initial_values, raised,
          failed, conf0>>

TypeOK ==
    /\ ServiceTypeOK
    /\ pc \in ManagerLabels \cup {"construct", "get", "set", "body", "restore", "done"}
    /\ polls \in 0..MaxPolls
    /\ phase \in {"enter", "exit"}
    /\ host \in Hosts
    /\ opt \in Opts
    /\ initial_values \in [Hosts -> [Opts -> Values \cup {NoValue}]]
    /\ stack \in 0..N
    /\ raised \in BOOLEAN
    /\ failed \in [Hosts -> {"no", "enter", "exit"}]
    /\ conf0 \in [Hosts -> Conf]

Init ==
    /\ ServiceInit
    /\ pc = "construct"
    /\ polls = 0
    /\ phase = "enter"
    /\ host = 1
    /\ opt = 1
    /\ initial_values = [h \in Hosts |-> [i \in Opts |-> NoValue]]
    /\ stack = 0
    /\ raised = FALSE
    /\ failed = [h \in Hosts |-> "no"]
    /\ conf0 = conf

-----------------------------------------------------------------------------
(* The ExitStack.                                                          *)

\* ExitStack.__exit__ pops the topmost of the n entered hosts and calls the
\* second half of its config_options; with nothing left the with is over.
Unwind(n) ==
    /\ IF n > 0
       THEN Goto("restore") /\ host' = n /\ stack' = n - 1
       ELSE Goto("done") /\ UNCHANGED host /\ stack' = 0
    /\ phase' = "exit"
    /\ opt' = 1

\* Mutant: without an ExitStack the exception ends the with statement.
RaiseNoStack ==
    /\ Goto("done")
    /\ raised' = TRUE
    /\ failed' = [failed EXCEPT ![host] = phase]
    /\ UNCHANGED <<stackVars, initial_values, conf0>>

\* An exception leaves the config_options of the current host.  In the enter
\* half the host is not on the stack yet, in the exit half not any more.
Raise ==
    /\ Unwind(stack)
    /\ raised' = TRUE
    /\ failed' = [failed EXCEPT ![host] = phase]
    /\ UNCHANGED <<initial_values, conf0>>

\* restart() returned: the enter half yields, the exit half is finished.
Restarted ==
    /\ IF phase = "exit"
       THEN Unwind(stack)
       ELSE /\ stack' = stack + 1
            /\ opt' = 1
            /\ IF host < N
               THEN Goto("get") /\ host' = host + 1
               ELSE Goto("body") /\ UNCHANGED host
            /\ UNCHANGED phase
    /\ UNCHANGED <<initial_values, raised, failed, conf0>>

Keep == UNCHANGED <<stackVars, initial_values, raised, failed, conf0>>

-----------------------------------------------------------------------------
(* list_compute_hosts and the constructors of the managers.  They run for  *)
(* all the hosts before the first is touched, and raise if a call fails or *)
(* a host has no service section.                                          *)
Construct ==
    /\ pc = "construct"
    /\ \/ Goto("get") /\ UNCHANGED raised
       \/ Goto("done") /\ raised' = TRUE
    /\ UNCHANGED <<serviceVars, stackVars, initial_values, failed, conf0>>

\* Mutant: the managers share one dictionary of initial values.
GetConfOptShared ==
    /\ pc = "get"
    /\ UNCHANGED serviceVars
    /\ \/ /\ initial_values' = [h \in Hosts |->
                 [initial_values[h] EXCEPT ![opt] = conf[host][OptionOf[opt]]]]
          /\ Goto("set")
          /\ UNCHANGED <<stackVars, raised, failed, conf0>>
       \/ Raise

(* config_options, first half: save option i ...                           *)
GetConfOpt ==
    /\ pc = "get"
    /\ UNCHANGED serviceVars
    /\ \/ /\ \E v \in {conf[host][OptionOf[opt]]}
                        \cup (IF SpuriousNotFound THEN {NoValue} ELSE {}) :
                initial_values' = [initial_values EXCEPT ![host][opt] = v]
          /\ Goto("set")
          /\ UNCHANGED <<stackVars, raised, failed, conf0>>
       \/ Raise

(* ... and set it, until the options are through; then restart().          *)
SetConfOpt ==
    /\ pc = "set"
    /\ Executed(Crudini(host, OptionOf[opt], ValueOf[opt]),
                /\ IF opt < M THEN Goto("get") /\ opt' = opt + 1
                              ELSE Goto("stop") /\ UNCHANGED opt
                /\ UNCHANGED <<phase, host, stack, initial_values, raised,
                               failed, conf0>>,
                Raise)

(* restart(), in either half.                                              *)
RestartService == Restart(host, Keep, Restarted, Raise)

(* The body of the with statement, which may raise too.                    *)
Body ==
    /\ pc = "body"
    /\ raised' \in BOOLEAN
    /\ Unwind(stack)
    /\ UNCHANGED <<serviceVars, initial_values, failed, conf0>>

(* config_options, second half: put the saved values back, then restart(). *)
RestoreConfOpt ==
    /\ pc = "restore"
    /\ Executed(Crudini(host, OptionOf[opt], initial_values[host][opt]),
                /\ IF opt < M THEN Goto("restore") /\ opt' = opt + 1
                              ELSE Goto("stop") /\ UNCHANGED opt
                /\ UNCHANGED <<phase, host, stack, initial_values, raised,
                               failed, conf0>>,
                Raise)

Environment ==
    /\ ServiceStep
    /\ UNCHANGED <<managerVars, stackVars, initial_values, raised, failed, conf0>>

Plugin ==
    \/ Construct
    \/ GetConfOpt
    \/ SetConfOpt
    \/ RestartService
    \/ Body
    \/ RestoreConfOpt

Next == Plugin \/ Environment

\* The test runner keeps running: a step the plugin can take is taken.
Fairness == WF_vars(Plugin)

Spec == Init /\ [][Next]_vars /\ Fairness

-----------------------------------------------------------------------------
(* Properties.                                                             *)

\* What the file of h holds once the options in the index set I are set.
OptionsSet(h, I) ==
    /\ \A i \in Opts : conf[h][OptionOf[i]] = IF i \in I THEN ValueOf[i]
                                              ELSE conf0[h][OptionOf[i]]
    /\ \A o \in Options : (\A i \in Opts : OptionOf[i] # o) => conf[h][o] = conf0[h][o]

\* What a value w of a file is once it was saved or put back as v: the same,
\* or absent if it was taken for absent.
Kept(v, w) == v = w \/ (SpuriousNotFound /\ v = NoValue)

\* What the file of h holds when all options but those in I are put back.
PutBack(h, I) ==
    /\ \A i \in Opts : IF i \in I THEN conf[h][OptionOf[i]] = ValueOf[i]
                       ELSE Kept(conf[h][OptionOf[i]], conf0[h][OptionOf[i]])
    /\ \A o \in Options : (\A i \in Opts : OptionOf[i] # o) => conf[h][o] = conf0[h][o]

\* A process is alive on h, has read the present file and has reported itself.
Serving(h) == running[h] /\ loaded[h] = conf[h] /\ beat[h]

(* While the body runs, every host serves with exactly the options asked   *)
(* for: config_options yields only after restart(), and start() cannot be  *)
(* satisfied by what the process before it last reported.                  *)
BodySeesOptions ==
    pc = "body" => \A h \in Hosts : OptionsSet(h, Opts) /\ Serving(h)

(* When the with statement is over, a host whose own manager raised        *)
(* nothing is as it was found: the file, the process and what the process  *)
(* has loaded.  It does not matter whether the body raised, or what went   *)
(* wrong on other hosts before or after it.  Where get_conf_opt took a     *)
(* failure for an absent option, at worst an option that was passed is     *)
(* missing; it never keeps the value of the test.                          *)
HostsRestored ==
    pc = "done" =>
        \A h \in Hosts : failed[h] = "no" => PutBack(h, {}) /\ Serving(h)

(* A new process is only started where Nova already reports the old one as *)
(* down: restart() waits for 'down' in between, so an 'up' seen later is   *)
(* the new process's own.                                                  *)
StartsOnlyWhenReportedDown ==
    [][\A h \in Hosts : ~running[h] /\ running'[h] => reported[h] = "down"]_vars

(* No failure and no service that never comes up keeps the with statement  *)
(* from ending: every wait is bounded by build_timeout.                    *)
Termination == <>(pc = "done")

(* "Previous values for the options are saved before setting the new ones, *)
(* and restored when the context manager exists" (services/clients.py:152): *)
(* whatever raised, unless it was the restoring itself, the file is back.  *)
OptionsRestored ==
    pc = "done" =>
        \A h \in Hosts : failed[h] # "exit" => conf[h] = conf0[h]

-----------------------------------------------------------------------------
(* The inductive invariant behind HostsRestored and BodySeesOptions.       *)

Saved(h, I) == \A i \in I : Kept(initial_values[h][i], conf0[h][OptionOf[i]])

\* h is on the ExitStack: its config_options has yielded.
Entered(h) ==
    failed[h] = "no" /\ OptionsSet(h, Opts) /\ Saved(h, Opts) /\ Serving(h)

\* h has not been touched yet, or is restored, or its manager raised.
AsFound(h) == failed[h] = "no" => PutBack(h, {}) /\ Serving(h)

InProgress == pc \in ManagerLabels \cup {"get", "set", "restore"}

StackInv ==
    /\ InProgress => stack = host - 1
    /\ pc \in {"construct", "done"} => stack = 0
    /\ pc = "body" => stack = N
    /\ pc = "construct" => host = 1 /\ opt = 1
    /\ pc \in {"construct", "get", "set", "body"} => phase = "enter"
    /\ pc = "restore" => phase = "exit"
    /\ phase = "enter" => \A h \in Hosts : failed[h] = "no"
    /\ InProgress => failed[host] = "no"
    /\ \A h \in 1..stack : failed[h] = "no"

\* How far the file of the current host is.
FileInv ==
    /\ pc \in {"get", "set"} =>
           OptionsSet(host, 1..(opt - 1)) /\ Saved(host, 1..(opt - 1))
    /\ pc = "set" => Saved(host, {opt})
    /\ pc = "restore" => PutBack(host, opt..M) /\ Saved(host, Opts)
    /\ pc \in ManagerLabels =>
           IF phase = "enter" THEN OptionsSet(host, Opts) /\ Saved(host, Opts)
                              ELSE PutBack(host, {})

\* How far the process of the current host is.
ProcessInv ==
    /\ pc \in {"poll_down", "sleep_down", "start"} => ~running[host]
    /\ pc = "start" => reported[host] = "down"
    /\ pc \in {"poll_up", "sleep_up"} =>
           /\ running[host]
           /\ loaded[host] = conf[host]
           /\ reported[host] = "up" => beat[host]

OthersInv ==
    /\ \A h \in 1..stack : Entered(h)
    /\ \A h \in Hosts : h > stack /\ (InProgress => h # host) => AsFound(h)

\* The files of the hosts whose turn is still to come.
UntouchedInv ==
    phase = "enter" =>
        \A h \in Hosts : h > stack /\ (InProgress => h # host) => conf[h] = conf0[h]

IndInv == TypeOK /\ StackInv /\ FileInv /\ ProcessInv /\ OthersInv /\ UntouchedInv

-----------------------------------------------------------------------------
(* The abstract specification that this one implements.  A host counts as  *)
(* entered when config_options yields and as left when its second half     *)
(* returns; in between, its file is still the one before the half began.   *)

ContextOf(h) ==
    IF failed[h] # "no" THEN "failed"
    ELSE IF h <= stack \/ (h = host /\ InProgress /\ phase = "exit") THEN "inside"
    ELSE IF phase = "enter" \/ \E k \in 1..(h - 1) : failed[k] = "enter" THEN "before"
    ELSE "left"

WantedOptions ==
    [o \in {OptionOf[i] : i \in Opts} |-> ValueOf[CHOOSE i \in Opts : OptionOf[i] = o]]

FileOf(h) ==
    IF ~(h = host /\ InProgress) THEN conf[h]
    ELSE IF phase = "enter" THEN conf0[h]
    ELSE [o \in Options |-> IF o \in DOMAIN WantedOptions THEN WantedOptions[o]
                           ELSE conf0[h][o]]

Contexts == INSTANCE ConfigContexts WITH
    Wanted <- WantedOptions,
    Lossy <- SpuriousNotFound,
    ctx <- [h \in Hosts |-> ContextOf(h)],
    file <- [h \in Hosts |-> FileOf(h)],
    found <- conf0

(* The context manager implements its promise: hosts are configured in     *)
(* order and put back in the reverse order, what fails on one host is not  *)
(* seen in the file of another, and a failed half leaves every option with *)
(* its old or its new value, and those that were not passed alone.         *)
ContextsNest == Contexts!Spec
=============================================================================
