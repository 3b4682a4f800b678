----------------------- MODULE ConfigAllComputesProofs -----------------------
(***************************************************************************)
(* Proofs about ConfigAllComputes, for any number of hosts and options.    *)
(***************************************************************************)
EXTENDS ConfigAllComputes, TLAPS

-----------------------------------------------------------------------------
(* Type correctness.                                                       *)

(* What a step of the services leaves well typed.                          *)
LEMMA ServiceStepType ==
    ASSUME TypeOK, Environment
    PROVE  TypeOK'
<1>1. ServiceTypeOK'
    BY DEF Environment, TypeOK, ServiceTypeOK, ServiceStep, Heartbeat, Expire, Hosts
<1>2. UNCHANGED <<managerVars, stackVars, initial_values, raised, failed, conf0>>
    BY DEF Environment
<1> QED
    BY <1>1, <1>2 DEF TypeOK, managerVars, stackVars

(* Popping the ExitStack keeps its counters in range.                      *)
LEMMA UnwindType ==
    ASSUME TypeOK, Unwind(stack)
    PROVE  /\ pc' \in {"restore", "done"}
           /\ polls' = 0
           /\ phase' = "exit"
           /\ host' \in Hosts
           /\ opt' \in Opts
           /\ stack' \in 0..N
BY NAssumption, OptsAssumption DEF TypeOK, Unwind, Goto, Hosts, Opts

(* The same of an exception, whatever the command that raised did.         *)
LEMMA RaiseType ==
    ASSUME TypeOK, Raise, ServiceTypeOK'
    PROVE  TypeOK'
<1>1. Unwind(stack) BY DEF Raise
<1>2. /\ pc' \in {"restore", "done"}
      /\ polls' = 0
      /\ phase' = "exit"
      /\ host' \in Hosts
      /\ opt' \in Opts
      /\ stack' \in 0..N
    BY <1>1, UnwindType
<1>3. /\ raised' \in BOOLEAN
      /\ failed' \in [Hosts -> {"no", "enter", "exit"}]
      /\ initial_values' \in [Hosts -> [Opts -> Values \cup {NoValue}]]
      /\ conf0' \in [Hosts -> Conf]
    BY DEF TypeOK, Raise
<1> QED
    BY <1>2, <1>3, MaxPollsAssumption DEF TypeOK

(* And of a restart() that returned: the stack has room for the host.      *)
LEMMA RestartedType ==
    ASSUME TypeOK, Restarted, stack < N, UNCHANGED serviceVars
    PROVE  TypeOK'
<1>1. ServiceTypeOK' BY DEF TypeOK, ServiceTypeOK, serviceVars
<1>2. CASE phase = "exit"
    <2>1. Unwind(stack) BY <1>2 DEF Restarted
    <2> QED
        BY <1>1, <2>1, UnwindType, MaxPollsAssumption DEF TypeOK, Restarted
<1>3. CASE phase # "exit"
    BY <1>1, <1>3, NAssumption, OptsAssumption, MaxPollsAssumption
    DEF TypeOK, Restarted, Goto, Hosts, Opts
<1> QED
    BY <1>2, <1>3

-----------------------------------------------------------------------------
(* Commands.  Each changes one host only, and keeps the services typed.    *)

Touches(k) ==
    \A h \in Hosts : h # k => /\ conf'[h] = conf[h]
                              /\ running'[h] = running[h]
                              /\ loaded'[h] = loaded[h]
                              /\ beat'[h] = beat[h]

LEMMA CrudiniTouches ==
    ASSUME ServiceTypeOK, NEW k \in Hosts, NEW o \in Options,
           NEW v \in Values \cup {NoValue}, Crudini(k, o, v)
    PROVE  /\ ServiceTypeOK'
           /\ Touches(k)
           /\ conf'[k] = [conf[k] EXCEPT ![o] = v]
BY DEF ServiceTypeOK, Conf, Crudini, Touches

LEMMA StopTouches ==
    ASSUME ServiceTypeOK, NEW k \in Hosts, SystemctlStop(k)
    PROVE  ServiceTypeOK' /\ Touches(k)
BY DEF ServiceTypeOK, SystemctlStop, Touches

LEMMA StartTouches ==
    ASSUME ServiceTypeOK, NEW k \in Hosts, SystemctlStart(k)
    PROVE  ServiceTypeOK' /\ Touches(k)
BY DEF ServiceTypeOK, SystemctlStart, Touches

LEMMA NothingTouches ==
    ASSUME ServiceTypeOK, NEW k \in Hosts, UNCHANGED serviceVars
    PROVE  ServiceTypeOK' /\ Touches(k)
BY DEF ServiceTypeOK, serviceVars, Touches

-----------------------------------------------------------------------------
(* The control state: TypeOK and StackInv are preserved together.          *)

ControlInv == TypeOK /\ StackInv

LEMMA ControlInit == Init => ControlInv
<1> SUFFICES ASSUME Init PROVE ControlInv OBVIOUS
<1>1. ServiceTypeOK BY DEF Init, ServiceInit, ServiceTypeOK
<1>2. /\ host \in Hosts /\ opt \in Opts /\ stack \in 0..N
      /\ polls \in 0..MaxPolls
    BY NAssumption, OptsAssumption, MaxPollsAssumption DEF Init, Hosts, Opts
<1>3. /\ initial_values \in [Hosts -> [Opts -> Values \cup {NoValue}]]
      /\ failed \in [Hosts -> {"no", "enter", "exit"}]
      /\ conf0 \in [Hosts -> Conf]
    BY <1>1 DEF Init, ServiceTypeOK
<1>4. TypeOK BY <1>1, <1>2, <1>3 DEF Init, TypeOK
<1>5. StackInv
    BY NAssumption
    DEF Init, StackInv, InProgress, ManagerLabels, WaitLabels, Hosts
<1> QED BY <1>4, <1>5 DEF ControlInv

(* Popping the stack: the next host is one that has been entered.          *)
LEMMA UnwindStack ==
    ASSUME TypeOK, Unwind(stack),
           \A h \in 1..stack : failed'[h] = "no"
    PROVE  StackInv'
BY NAssumption
DEF TypeOK, Unwind, Goto, StackInv, InProgress, ManagerLabels, WaitLabels, Hosts

LEMMA RaiseControl ==
    ASSUME ControlInv, InProgress, Raise, ServiceTypeOK'
    PROVE  ControlInv'
<1>1. TypeOK' BY RaiseType DEF ControlInv
<1>2. \A h \in 1..stack : failed'[h] = "no"
    BY NAssumption DEF ControlInv, TypeOK, StackInv, Raise, Hosts
<1>3. StackInv' BY <1>2, UnwindStack DEF ControlInv, Raise
<1> QED BY <1>1, <1>3 DEF ControlInv

LEMMA RestartedControl ==
    ASSUME ControlInv, pc \in ManagerLabels, Restarted, UNCHANGED serviceVars
    PROVE  ControlInv'
<1>1. stack = host - 1 /\ stack < N /\ failed[host] = "no"
    BY NAssumption DEF ControlInv, TypeOK, StackInv, InProgress, Hosts
<1>2. TypeOK' BY <1>1, RestartedType DEF ControlInv
<1>3. StackInv'
    <2>1. CASE phase = "exit"
        BY <2>1, UnwindStack DEF ControlInv, StackInv, Restarted
    <2>2. CASE phase # "exit"
        BY <1>1, <2>2, NAssumption
        DEF ControlInv, TypeOK, StackInv, InProgress, ManagerLabels, WaitLabels,
            Restarted, Goto, Hosts
    <2> QED BY <2>1, <2>2
<1> QED BY <1>2, <1>3 DEF ControlInv

(* A step inside a manager's call, which leaves the caller's state alone.  *)
LEMMA KeepControl ==
    ASSUME ControlInv, pc \in ManagerLabels, Keep, ServiceTypeOK',
           pc' \in ManagerLabels, polls' \in 0..MaxPolls
    PROVE  ControlInv'
BY DEF ControlInv, TypeOK, StackInv, InProgress, ManagerLabels, WaitLabels, Keep,
       stackVars

(* restart(), step by step.                                                *)
LEMMA RestartControl ==
    ASSUME ControlInv, RestartService
    PROVE  ControlInv'
<1> USE DEF ControlInv
<1>1. host \in Hosts /\ ServiceTypeOK /\ polls \in 0..MaxPolls BY DEF TypeOK
<1>2. CASE pc = "stop" /\ Executed(SystemctlStop(host), Goto("poll_down") /\ Keep, Raise)
    <2>1. ServiceTypeOK'
        BY <1>1, <1>2, StopTouches, NothingTouches DEF Executed
    <2> QED
        BY <1>2, <2>1, KeepControl, RaiseControl, MaxPollsAssumption
        DEF Executed, Goto, InProgress, ManagerLabels, WaitLabels
<1>3. CASE pc = "start" /\ Executed(SystemctlStart(host), Goto("poll_up") /\ Keep, Raise)
    <2>1. ServiceTypeOK'
        BY <1>1, <1>3, StartTouches, NothingTouches DEF Executed
    <2> QED
        BY <1>3, <2>1, KeepControl, RaiseControl, MaxPollsAssumption
        DEF Executed, Goto, InProgress, ManagerLabels, WaitLabels
<1>4. CASE pc = "poll_down"
           /\ Poll(host, "down", "sleep_down", Keep, Goto("start") /\ Keep, Raise)
    <2>1. ServiceTypeOK' BY <1>1, <1>4, NothingTouches DEF Poll
    <2> QED
        BY <1>1, <1>4, <2>1, KeepControl, RaiseControl, MaxPollsAssumption
        DEF Poll, Goto, InProgress, ManagerLabels, WaitLabels
<1>5. CASE pc = "poll_up" /\ Poll(host, "up", "sleep_up", Keep, Restarted, Raise)
    <2>1. ServiceTypeOK' BY <1>1, <1>5, NothingTouches DEF Poll
    <2> QED
        BY <1>1, <1>5, <2>1, KeepControl, RaiseControl, RestartedControl
        DEF Poll, InProgress, ManagerLabels, WaitLabels
<1>6. CASE pc = "sleep_down" /\ Sleep("poll_down", Keep, Raise)
    <2>1. ServiceTypeOK' BY <1>1, <1>6, NothingTouches DEF Sleep
    <2> QED
        BY <1>1, <1>6, <2>1, KeepControl, RaiseControl, MaxPollsAssumption
        DEF Sleep, InProgress, ManagerLabels, WaitLabels
<1>7. CASE pc = "sleep_up" /\ Sleep("poll_up", Keep, Raise)
    <2>1. ServiceTypeOK' BY <1>1, <1>7, NothingTouches DEF Sleep
    <2> QED
        BY <1>1, <1>7, <2>1, KeepControl, RaiseControl, MaxPollsAssumption
        DEF Sleep, InProgress, ManagerLabels, WaitLabels
<1> QED
    BY <1>2, <1>3, <1>4, <1>5, <1>6, <1>7 DEF RestartService, Restart, Stop, Start

LEMMA GetControl ==
    ASSUME ControlInv, GetConfOpt
    PROVE  ControlInv'
<1> USE DEF ControlInv
<1>1. ServiceTypeOK' BY NothingTouches DEF TypeOK, GetConfOpt
<1>2. CASE Raise BY <1>1, <1>2, RaiseControl DEF GetConfOpt, InProgress
<1>3. CASE ~Raise
    <2>1. conf[host][OptionOf[opt]] \in Values \cup {NoValue}
        BY OptsAssumption DEF TypeOK, ServiceTypeOK, Conf
    <2>2. initial_values' \in [Hosts -> [Opts -> Values \cup {NoValue}]]
        BY <1>3, <2>1 DEF TypeOK, GetConfOpt
    <2>3. TypeOK'
        BY <1>1, <1>3, <2>2, MaxPollsAssumption DEF TypeOK, GetConfOpt, Goto, stackVars
    <2>4. StackInv'
        BY <1>3 DEF StackInv, GetConfOpt, Goto, stackVars, InProgress, ManagerLabels, WaitLabels
    <2> QED BY <2>3, <2>4
<1> QED BY <1>2, <1>3

(* The loops over the options, and what they do when they are through.     *)
LEMMA SetControl ==
    ASSUME ControlInv, SetConfOpt
    PROVE  ControlInv'
<1> USE DEF ControlInv
<1>1. ServiceTypeOK'
    BY OptsAssumption, CrudiniTouches, NothingTouches DEF TypeOK, SetConfOpt, Executed
<1>2. CASE Raise BY <1>1, <1>2, RaiseControl DEF SetConfOpt, InProgress
<1>3. CASE ~Raise
    BY <1>1, <1>3, OptsAssumption, MaxPollsAssumption
    DEF SetConfOpt, Executed, TypeOK, StackInv, Goto, InProgress, ManagerLabels,
        WaitLabels, Opts
<1> QED BY <1>2, <1>3

LEMMA RestoreControl ==
    ASSUME ControlInv, RestoreConfOpt
    PROVE  ControlInv'
<1> USE DEF ControlInv
<1>1. initial_values[host][opt] \in Values \cup {NoValue} BY DEF TypeOK
<1>2. ServiceTypeOK'
    BY <1>1, OptsAssumption, CrudiniTouches, NothingTouches
    DEF TypeOK, RestoreConfOpt, Executed
<1>3. CASE Raise BY <1>2, <1>3, RaiseControl DEF RestoreConfOpt, InProgress
<1>4. CASE ~Raise
    BY <1>2, <1>4, OptsAssumption, MaxPollsAssumption
    DEF RestoreConfOpt, Executed, TypeOK, StackInv, Goto, InProgress, ManagerLabels,
        WaitLabels, Opts
<1> QED BY <1>3, <1>4

LEMMA ControlNext == ControlInv /\ [Next]_vars => ControlInv'
<1> SUFFICES ASSUME ControlInv, [Next]_vars PROVE ControlInv' OBVIOUS
<1>1. CASE Construct
    <2>1. ServiceTypeOK' BY <1>1, NothingTouches DEF Construct, ControlInv, TypeOK
    <2>2. raised' \in BOOLEAN BY <1>1, Zenon DEF Construct, ControlInv, TypeOK
    <2>3. TypeOK'
        BY <1>1, <2>1, <2>2, MaxPollsAssumption
        DEF Construct, Goto, ControlInv, TypeOK, stackVars
    <2>4. StackInv'
        BY <1>1 DEF Construct, Goto, ControlInv, TypeOK, StackInv, InProgress,
                    ManagerLabels, WaitLabels, stackVars
    <2> QED BY <2>3, <2>4 DEF ControlInv
<1>2. CASE GetConfOpt BY <1>2, GetControl
<1>3. CASE SetConfOpt BY <1>3, SetControl
<1>4. CASE RestartService BY <1>4, RestartControl
<1>5. CASE Body
    <2>1. ServiceTypeOK' BY <1>5, NothingTouches DEF Body, ControlInv, TypeOK
    <2>2. TypeOK'
        BY <1>5, <2>1, UnwindType, MaxPollsAssumption DEF Body, ControlInv, TypeOK
    <2>3. StackInv' BY <1>5, UnwindStack DEF Body, ControlInv, StackInv
    <2> QED BY <2>2, <2>3 DEF ControlInv
<1>6. CASE RestoreConfOpt BY <1>6, RestoreControl
<1>7. CASE Environment
    <2>1. TypeOK' BY <1>7, ServiceStepType DEF ControlInv
    <2>2. StackInv'
        BY <1>7 DEF Environment, ControlInv, StackInv, InProgress, managerVars, stackVars
    <2> QED BY <2>1, <2>2 DEF ControlInv
<1>8. CASE UNCHANGED vars
    BY <1>8 DEF vars, serviceVars, managerVars, stackVars, ControlInv, TypeOK,
                ServiceTypeOK, StackInv, InProgress
<1> QED
    BY <1>1, <1>2, <1>3, <1>4, <1>5, <1>6, <1>7, <1>8 DEF Next, Plugin

(* The states of the context manager are well typed: the ExitStack never   *)
(* grows past the list of hosts, no index leaves its list, and no wait     *)
(* polls more often than build_timeout allows.                             *)
THEOREM TypeCorrect == Spec => []TypeOK
<1>1. Spec => []ControlInv BY ControlInit, ControlNext, PTL DEF Spec
<1>2. ControlInv => TypeOK BY DEF ControlInv
<1> QED BY <1>1, <1>2, PTL

-----------------------------------------------------------------------------
(* The process of the current host follows the steps of restart().         *)

(* Outside restart() ProcessInv has nothing to say.                        *)
LEMMA ProcessElsewhere ==
    ASSUME pc' \notin WaitLabels \cup {"start"}
    PROVE  ProcessInv'
BY DEF ProcessInv, WaitLabels

LEMMA RaiseElsewhere ==
    ASSUME Raise
    PROVE  ProcessInv'
BY ProcessElsewhere DEF Raise, Unwind, Goto, WaitLabels

LEMMA RestartProcess ==
    ASSUME ControlInv, ProcessInv, RestartService
    PROVE  ProcessInv'
<1>1. host \in Hosts /\ ServiceTypeOK BY DEF ControlInv, TypeOK
<1>2. CASE Raise BY <1>2, RaiseElsewhere
<1>3. CASE pc = "stop" /\ SystemctlStop(host) /\ Goto("poll_down") /\ Keep
    BY <1>1, <1>3 DEF ProcessInv, ServiceTypeOK, SystemctlStop, Goto, Keep, stackVars
<1>4. CASE pc = "start" /\ SystemctlStart(host) /\ Goto("poll_up") /\ Keep
    BY <1>1, <1>4 DEF ProcessInv, ServiceTypeOK, SystemctlStart, Goto, Keep, stackVars
<1>5. CASE pc \in {"poll_down", "sleep_down"} /\ pc' \in {"poll_down", "sleep_down"}
           /\ UNCHANGED serviceVars /\ Keep
    BY <1>5 DEF ProcessInv, serviceVars, Keep, stackVars
<1>6. CASE pc = "poll_down" /\ reported[host] = "down" /\ Goto("start") /\ Keep
           /\ UNCHANGED serviceVars
    BY <1>6 DEF ProcessInv, serviceVars, Goto, Keep, stackVars
<1>7. CASE pc \in {"poll_up", "sleep_up"} /\ pc' \in {"poll_up", "sleep_up"}
           /\ UNCHANGED serviceVars /\ Keep
    BY <1>7 DEF ProcessInv, serviceVars, Keep, stackVars
<1>8. CASE Restarted
    BY <1>8, ProcessElsewhere DEF Restarted, Unwind, Goto, WaitLabels
<1> QED
    BY <1>2, <1>3, <1>4, <1>5, <1>6, <1>7, <1>8
    DEF RestartService, Restart, Stop, Start, Executed, Poll, Sleep

LEMMA ProcessNext == ControlInv /\ ProcessInv /\ [Next]_vars => ProcessInv'
<1> SUFFICES ASSUME ControlInv, ProcessInv, [Next]_vars PROVE ProcessInv' OBVIOUS
<1>1. CASE Construct \/ Body
    BY <1>1, ProcessElsewhere DEF Construct, Body, Unwind, Goto, WaitLabels
<1>2. CASE GetConfOpt
    BY <1>2, ProcessElsewhere, RaiseElsewhere DEF GetConfOpt, Goto, WaitLabels
<1>3. CASE SetConfOpt
    BY <1>3, ProcessElsewhere, RaiseElsewhere DEF SetConfOpt, Executed, Goto, WaitLabels
<1>4. CASE RestartService BY <1>4, RestartProcess
<1>5. CASE RestoreConfOpt
    BY <1>5, ProcessElsewhere, RaiseElsewhere DEF RestoreConfOpt, Executed, Goto, WaitLabels
<1>6. CASE Environment
    BY <1>6 DEF Environment, ServiceStep, Heartbeat, Expire, ControlInv, TypeOK,
                ServiceTypeOK, ProcessInv, managerVars, stackVars
<1>7. CASE UNCHANGED vars
    BY <1>7 DEF vars, serviceVars, managerVars, stackVars, ProcessInv
<1> QED
    BY <1>1, <1>2, <1>3, <1>4, <1>5, <1>6, <1>7 DEF Next, Plugin

LEMMA ProcessInit == Init => ProcessInv
BY DEF Init, ProcessInv

LEMMA SpecProcess == Spec => [](ControlInv /\ ProcessInv)
BY ControlInit, ControlNext, ProcessInit, ProcessNext, PTL DEF Spec

(* On any number of hosts, restart() starts a new service process only     *)
(* where Nova reports the old one as down.                                 *)
THEOREM StartsWhenDown == Spec => StartsOnlyWhenReportedDown
<1>1. ControlInv /\ ProcessInv /\ [Next]_vars
        => [\A h \in Hosts : ~running[h] /\ running'[h] => reported[h] = "down"]_vars
    <2> SUFFICES ASSUME ControlInv, ProcessInv, Next, NEW h \in Hosts,
                        ~running[h], running'[h]
                 PROVE  reported[h] = "down"
        BY DEF vars
    <2>1. host \in Hosts /\ ServiceTypeOK BY DEF ControlInv, TypeOK
    <2>2. PICK k \in Hosts : k = host /\ pc = "start" /\ SystemctlStart(k)
        BY <2>1 DEF Next, Plugin, Construct, GetConfOpt, SetConfOpt, RestartService,
           Restart, Stop, Start, Executed, Poll, Sleep, Body, RestoreConfOpt, Environment,
           ServiceStep, Heartbeat, Expire, Crudini, SystemctlStop, serviceVars, ServiceTypeOK
    <2> QED BY <2>1, <2>2 DEF SystemctlStart, ProcessInv, ServiceTypeOK
<1> QED BY <1>1, SpecProcess, PTL DEF Spec, StartsOnlyWhenReportedDown

-----------------------------------------------------------------------------
(* The files.  Options are set and restored one index at a time; what is   *)
(* true of one host is not disturbed by a command on another.              *)

LEMMA SetOne ==
    ASSUME TypeOK, DistinctOptions, NEW k \in Hosts, NEW i \in Opts,
           OptionsSet(k, 1..(i - 1)), UNCHANGED conf0,
           conf'[k] = [conf[k] EXCEPT ![OptionOf[i]] = ValueOf[i]]
    PROVE  OptionsSet(k, 1..i)'
<1>1. conf[k] \in Conf BY DEF TypeOK, ServiceTypeOK
<1>2. OptionOf[i] \in Options /\ \A j \in Opts : OptionOf[j] \in Options
    BY OptsAssumption
<1>3. ASSUME NEW j \in Opts
      PROVE  conf'[k][OptionOf[j]] = IF j \in 1..i THEN ValueOf[j]
                                     ELSE conf0[k][OptionOf[j]]
    <2>1. CASE j = i BY <1>1, <1>2, <2>1, OptsAssumption DEF Conf, Opts
    <2>2. CASE j # i
        <3>1. OptionOf[j] # OptionOf[i] BY <2>2 DEF DistinctOptions
        <3>2. conf'[k][OptionOf[j]] = conf[k][OptionOf[j]] BY <1>1, <1>2, <3>1 DEF Conf
        <3>3. j \in 1..(i - 1) <=> j \in 1..i BY <2>2, OptsAssumption DEF Opts
        <3> QED BY <3>2, <3>3 DEF OptionsSet
    <2> QED BY <2>1, <2>2
<1>4. ASSUME NEW o \in Options, \A j \in Opts : OptionOf[j] # o
      PROVE  conf'[k][o] = conf0[k][o]
    BY <1>1, <1>4 DEF Conf, OptionsSet
<1> QED BY <1>3, <1>4 DEF OptionsSet

LEMMA RestoreOne ==
    ASSUME TypeOK, DistinctOptions, NEW k \in Hosts, NEW i \in Opts,
           PutBack(k, i..M), Saved(k, Opts), UNCHANGED conf0,
           conf'[k] = [conf[k] EXCEPT ![OptionOf[i]] = initial_values[k][i]]
    PROVE  PutBack(k, (i + 1)..M)'
<1>1. conf[k] \in Conf BY DEF TypeOK, ServiceTypeOK
<1>2. OptionOf[i] \in Options /\ \A j \in Opts : OptionOf[j] \in Options
    BY OptsAssumption
<1>3. ASSUME NEW j \in Opts
      PROVE  IF j \in (i + 1)..M THEN conf'[k][OptionOf[j]] = ValueOf[j]
             ELSE Kept(conf'[k][OptionOf[j]], conf0[k][OptionOf[j]])
    <2>1. CASE j = i
        <3>1. conf'[k][OptionOf[i]] = initial_values[k][i] BY <1>1, <1>2 DEF Conf
        <3>2. i \notin (i + 1)..M BY OptsAssumption DEF Opts
        <3> QED BY <2>1, <3>1, <3>2 DEF Saved
    <2>2. CASE j # i
        <3>1. OptionOf[j] # OptionOf[i] BY <2>2 DEF DistinctOptions
        <3>2. conf'[k][OptionOf[j]] = conf[k][OptionOf[j]] BY <1>1, <1>2, <3>1 DEF Conf
        <3>3. j \in i..M <=> j \in (i + 1)..M BY <2>2, OptsAssumption DEF Opts
        <3> QED BY <3>2, <3>3 DEF PutBack
    <2> QED BY <2>1, <2>2
<1>4. ASSUME NEW o \in Options, \A j \in Opts : OptionOf[j] # o
      PROVE  conf'[k][o] = conf0[k][o]
    BY <1>1, <1>4 DEF Conf, PutBack
<1> QED BY <1>3, <1>4 DEF PutBack

HostKept(h) ==
    /\ conf'[h] = conf[h] /\ running'[h] = running[h]
    /\ loaded'[h] = loaded[h] /\ beat'[h] = beat[h]
    /\ initial_values'[h] = initial_values[h]
    /\ failed'[h] = failed[h]
    /\ conf0' = conf0

LEMMA KeptHost ==
    ASSUME NEW h \in Hosts, HostKept(h)
    PROVE  /\ Entered(h) => Entered(h)'
           /\ AsFound(h) => AsFound(h)'
BY DEF HostKept, Entered, AsFound, OptionsSet, PutBack, Saved, Serving

-----------------------------------------------------------------------------
(* Unwinding: the host popped is one that was entered, everything below it *)
(* is still entered, everything above it is as found or has failed.        *)
LEMMA UnwindFiles ==
    ASSUME TypeOK, TypeOK', Unwind(stack),
           \A h \in 1..stack : Entered(h)',
           \A h \in Hosts : h > stack => AsFound(h)'
    PROVE  FileInv' /\ OthersInv'
<1>1. CASE stack > 0
    <2>1. PICK k \in Hosts : k = stack BY <1>1, NAssumption DEF TypeOK, Hosts
    <2>2. pc' = "restore" /\ host' = k /\ opt' = 1 /\ stack' = k - 1
        BY <1>1, <2>1 DEF Unwind, Goto
    <2>3. Entered(k)' BY <1>1, <2>1, NAssumption DEF Hosts
    <2>4. PutBack(host, opt..M)' /\ Saved(host, Opts)'
        BY <2>2, <2>3 DEF Entered, OptionsSet, PutBack, Saved, Opts
    <2>5. FileInv' BY <2>2, <2>4 DEF FileInv, ManagerLabels, WaitLabels
    <2>6. OthersInv'
        BY <2>1, <2>2, NAssumption DEF OthersInv, InProgress, Hosts
    <2> QED BY <2>5, <2>6
<1>2. CASE ~(stack > 0)
    <2>1. pc' = "done" /\ stack' = 0 /\ stack = 0
        BY <1>2, NAssumption DEF TypeOK, Unwind, Goto
    <2> QED BY <2>1, NAssumption DEF FileInv, OthersInv, ManagerLabels, WaitLabels, Hosts
<1> QED BY <1>1, <1>2

LEMMA RaiseFiles ==
    ASSUME ControlInv, ControlInv', OthersInv, InProgress, Raise, Touches(host)
    PROVE  FileInv' /\ OthersInv'
<1>1. /\ host \in Hosts /\ stack = host - 1 /\ stack \in 0..N
      /\ phase \in {"enter", "exit"}
    BY DEF ControlInv, TypeOK, StackInv
<1>2. ASSUME NEW h \in Hosts, h # host PROVE HostKept(h)
    BY <1>2 DEF HostKept, Touches, Raise, ControlInv, TypeOK
<1>3. ASSUME NEW h \in 1..stack PROVE Entered(h)'
    BY <1>1, <1>2, KeptHost, NAssumption DEF OthersInv, Hosts
<1>4. failed'[host] # "no" BY <1>1 DEF Raise, ControlInv, TypeOK
<1>5. ASSUME NEW h \in Hosts, h > stack PROVE AsFound(h)'
    <2>1. CASE h = host BY <1>4, <2>1 DEF AsFound
    <2>2. CASE h # host BY <1>2, <1>5, <2>2, KeptHost DEF OthersInv
    <2> QED BY <2>1, <2>2
<1> QED BY <1>3, <1>5, UnwindFiles DEF ControlInv, Raise

(* restart() returned in either half: the host is entered, or restored.    *)
LEMMA RestartedFiles ==
    ASSUME ControlInv, ControlInv', FileInv, OthersInv, UntouchedInv,
           pc \in ManagerLabels, Serving(host), Restarted, UNCHANGED serviceVars
    PROVE  FileInv' /\ OthersInv'
<1>1. /\ host \in Hosts /\ stack = host - 1 /\ stack \in 0..N
      /\ failed[host] = "no" /\ phase \in {"enter", "exit"} /\ InProgress
    BY DEF ControlInv, TypeOK, StackInv, InProgress
<1>2. ASSUME NEW h \in Hosts PROVE HostKept(h)
    BY DEF HostKept, Restarted, serviceVars
<1>3. ASSUME NEW h \in 1..stack PROVE Entered(h)'
    BY <1>1, <1>2, KeptHost, NAssumption DEF OthersInv, Hosts
<1>4. ASSUME NEW h \in Hosts, h > stack, h # host PROVE AsFound(h)'
    BY <1>2, <1>4, KeptHost DEF OthersInv
<1>5. PICK k \in Hosts : k = host BY <1>1
<1>6. CASE phase = "exit"
    <2>1. AsFound(k)
        BY <1>5, <1>6 DEF FileInv, AsFound, Serving
    <2>2. AsFound(k)' BY <1>2, <2>1, KeptHost
    <2>3. ASSUME NEW h \in Hosts, h > stack PROVE AsFound(h)'
        BY <1>4, <1>5, <2>2, <2>3
    <2> QED BY <1>3, <1>6, <2>3, UnwindFiles DEF ControlInv, Restarted
<1>7. CASE phase = "enter"
    <2>1. Entered(k) BY <1>1, <1>5, <1>7 DEF FileInv, Entered, Serving
    <2>2. Entered(k)' BY <1>2, <2>1, KeptHost
    <2>3. stack' = k /\ opt' = 1 /\ phase' = "enter"
        BY <1>1, <1>5, <1>7, NAssumption DEF Restarted, Hosts
    <2>4. \A h \in 1..stack' : Entered(h)'
        BY <1>1, <1>3, <1>5, <2>2, <2>3, NAssumption DEF Hosts
    <2>5. \A h \in Hosts : h > stack' => AsFound(h)'
        BY <1>1, <1>4, <1>5, <2>3, NAssumption DEF Hosts
    <2>6. OthersInv' BY <2>4, <2>5 DEF OthersInv
    <2>7. CASE k < N
        <3>1. pc' = "get" /\ host' = k + 1 /\ k + 1 \in Hosts
            BY <1>5, <1>7, <2>7, NAssumption DEF Restarted, Goto, Hosts
        <3>2. conf[k + 1] = conf0[k + 1]
            BY <1>1, <1>5, <1>7, <3>1, NAssumption DEF UntouchedInv, Hosts
        <3>3. OptionsSet(k + 1, {})' BY <3>1, <3>2 DEF OptionsSet, Restarted, serviceVars
        <3>4. 1..(opt' - 1) = {} BY <2>3
        <3>5. OptionsSet(host, 1..(opt - 1))' /\ Saved(host, 1..(opt - 1))'
            BY <3>1, <3>3, <3>4 DEF OptionsSet, Saved
        <3> QED BY <2>6, <3>1, <3>5 DEF FileInv, ManagerLabels, WaitLabels
    <2>8. CASE ~(k < N)
        <3>1. pc' = "body" BY <1>5, <1>7, <2>8 DEF Restarted, Goto
        <3> QED BY <2>6, <3>1 DEF FileInv, ManagerLabels, WaitLabels
    <2> QED BY <2>7, <2>8
<1> QED BY <1>1, <1>6, <1>7

(* A step of restart() before it returns leaves every file alone.          *)
LEMMA KeepFiles ==
    ASSUME ControlInv, FileInv, OthersInv, pc \in ManagerLabels, pc' \in ManagerLabels,
           Keep, Touches(host), UNCHANGED conf
    PROVE  FileInv' /\ OthersInv'
<1>1. host \in Hosts /\ stack = host - 1 /\ stack \in 0..N /\ InProgress /\ InProgress'
    BY DEF ControlInv, TypeOK, StackInv, InProgress
<1>2. ASSUME NEW h \in Hosts, h # host PROVE HostKept(h)
    BY <1>2 DEF HostKept, Touches, Keep
<1>3. FileInv'
    BY DEF FileInv, Keep, stackVars, OptionsSet, PutBack, Saved, ManagerLabels, WaitLabels
<1>4. ASSUME NEW h \in 1..stack PROVE Entered(h)'
    BY <1>1, <1>2, KeptHost, NAssumption DEF OthersInv, Hosts
<1>5. ASSUME NEW h \in Hosts, h > stack, h # host PROVE AsFound(h)'
    BY <1>2, <1>5, KeptHost DEF OthersInv
<1>6. host' = host /\ stack' = stack BY DEF Keep, stackVars
<1>7. OthersInv' BY <1>1, <1>4, <1>5, <1>6 DEF OthersInv
<1> QED BY <1>3, <1>7

LEMMA RestartFiles ==
    ASSUME ControlInv, ControlInv', FileInv, ProcessInv, OthersInv, UntouchedInv,
           RestartService
    PROVE  FileInv' /\ OthersInv'
<1>1. host \in Hosts /\ ServiceTypeOK BY DEF ControlInv, TypeOK
<1>2. pc \in ManagerLabels /\ InProgress
    BY DEF RestartService, Restart, Stop, Start, InProgress, ManagerLabels, WaitLabels
<1>3. Touches(host)
    BY <1>1, StopTouches, StartTouches, NothingTouches
    DEF RestartService, Restart, Stop, Start, Executed, Poll, Sleep
<1>4. CASE Raise BY <1>2, <1>3, <1>4, RaiseFiles
<1>5. CASE pc' \in ManagerLabels /\ Keep /\ UNCHANGED conf
    BY <1>2, <1>3, <1>5, KeepFiles
<1>6. CASE pc = "poll_up" /\ reported[host] = "up" /\ Restarted /\ UNCHANGED serviceVars
    <2>1. Serving(host) BY <1>6 DEF ProcessInv, Serving
    <2> QED BY <1>2, <1>6, <2>1, RestartedFiles
<1> QED
    BY <1>4, <1>5, <1>6
    DEF RestartService, Restart, Stop, Start, Executed, Poll, Sleep, SystemctlStop,
        SystemctlStart, serviceVars, Goto, ManagerLabels, WaitLabels

(* The loop of the first half: save, then set.                             *)
LEMMA GetFiles ==
    ASSUME ControlInv, ControlInv', FileInv, OthersInv, GetConfOpt
    PROVE  FileInv' /\ OthersInv'
<1>1. /\ host \in Hosts /\ opt \in Opts /\ stack = host - 1 /\ stack \in 0..N
      /\ pc = "get" /\ InProgress
    BY DEF ControlInv, TypeOK, StackInv, InProgress, GetConfOpt
<1>2. CASE Raise
    BY <1>1, <1>2, RaiseFiles, NothingTouches DEF GetConfOpt, ControlInv, TypeOK
<1>3. CASE ~Raise
    <2>1. PICK k \in Hosts, i \in Opts : k = host /\ i = opt BY <1>1
    <2>2. /\ pc' = "set" /\ host' = k /\ opt' = i /\ stack' = stack
          /\ UNCHANGED <<serviceVars, conf0, failed>>
          /\ \E v : /\ Kept(v, conf[k][OptionOf[i]])
                   /\ initial_values' = [initial_values EXCEPT ![k][i] = v]
        BY <1>3, <2>1 DEF GetConfOpt, Goto, stackVars, Kept
    <2>3. OptionsSet(k, 1..(i - 1)) /\ Saved(k, 1..(i - 1))
        BY <1>1, <2>1 DEF FileInv
    <2>4. conf[k][OptionOf[i]] = conf0[k][OptionOf[i]]
        BY <2>3, OptsAssumption DEF OptionsSet, Opts
    <2>5. Saved(k, 1..(i - 1))' /\ Saved(k, {i})'
        BY <2>2, <2>3, <2>4, OptsAssumption DEF Saved, ControlInv, TypeOK, Opts
    <2>6. OptionsSet(k, 1..(i - 1))' BY <2>2, <2>3 DEF OptionsSet, serviceVars
    <2>7. FileInv'
        BY <2>2, <2>5, <2>6 DEF FileInv, OptionsSet, Saved, ManagerLabels, WaitLabels
    <2>8. ASSUME NEW h \in Hosts, h # k PROVE HostKept(h)
        BY <2>2, <2>8 DEF HostKept, serviceVars, ControlInv, TypeOK
    <2>9. OthersInv'
        <3>1. ASSUME NEW h \in 1..stack PROVE Entered(h)'
            BY <1>1, <2>1, <2>8, KeptHost, NAssumption DEF OthersInv, Hosts
        <3>2. ASSUME NEW h \in Hosts, h > stack, h # k PROVE AsFound(h)'
            BY <2>1, <2>8, <3>2, KeptHost DEF OthersInv
        <3> QED BY <2>2, <3>1, <3>2 DEF OthersInv, InProgress
    <2> QED BY <2>7, <2>9
<1> QED BY <1>2, <1>3

(* What a command on the current host's file means for the other hosts.    *)
LEMMA CrudiniOthers ==
    ASSUME ControlInv, OthersInv, InProgress, InProgress', Touches(host),
           UNCHANGED <<host, stack, initial_values, failed, conf0>>
    PROVE  OthersInv'
<1>1. host \in Hosts /\ stack = host - 1 /\ stack \in 0..N
    BY DEF ControlInv, TypeOK, StackInv
<1>2. ASSUME NEW h \in Hosts, h # host PROVE HostKept(h)
    BY <1>2 DEF HostKept, Touches
<1>3. ASSUME NEW h \in 1..stack PROVE Entered(h)'
    BY <1>1, <1>2, KeptHost, NAssumption DEF OthersInv, Hosts
<1>4. ASSUME NEW h \in Hosts, h > stack, h # host PROVE AsFound(h)'
    BY <1>2, <1>4, KeptHost DEF OthersInv
<1> QED BY <1>3, <1>4 DEF OthersInv

LEMMA SetFiles ==
    ASSUME ControlInv, ControlInv', FileInv, OthersInv, DistinctOptions, SetConfOpt
    PROVE  FileInv' /\ OthersInv'
<1>1. /\ host \in Hosts /\ opt \in Opts /\ pc = "set" /\ InProgress /\ phase = "enter"
      /\ ServiceTypeOK
    BY DEF ControlInv, TypeOK, StackInv, InProgress, SetConfOpt
<1>2. Touches(host)
    BY <1>1, CrudiniTouches, NothingTouches, OptsAssumption DEF SetConfOpt, Executed
<1>3. CASE Raise BY <1>1, <1>2, <1>3, RaiseFiles
<1>4. CASE ~Raise
    <2>1. PICK k \in Hosts, i \in Opts : k = host /\ i = opt BY <1>1
    <2>2. /\ Crudini(k, OptionOf[i], ValueOf[i])
          /\ UNCHANGED <<phase, host, stack, initial_values, failed, conf0>>
          /\ \/ i < M /\ pc' = "get" /\ opt' = i + 1
             \/ ~(i < M) /\ pc' = "stop" /\ opt' = i
        BY <1>4, <2>1 DEF SetConfOpt, Executed, Goto
    <2>3. conf'[k] = [conf[k] EXCEPT ![OptionOf[i]] = ValueOf[i]]
        BY <1>1, <2>2, CrudiniTouches, OptsAssumption
    <2>4. OptionsSet(k, 1..(i - 1)) /\ Saved(k, 1..(i - 1)) /\ Saved(k, {i})
        BY <1>1, <2>1 DEF FileInv, Saved
    <2>5. OptionsSet(k, 1..i)' BY <2>2, <2>3, <2>4, SetOne DEF ControlInv
    <2>6. Saved(k, 1..i)'
        BY <2>2, <2>4, OptsAssumption DEF Saved, Opts
    <2>7. CASE i < M
        <3>1. opt' - 1 = i /\ host' = k BY <2>1, <2>2, <2>7, OptsAssumption DEF Opts
        <3>2. OptionsSet(host, 1..(opt - 1))' /\ Saved(host, 1..(opt - 1))'
            BY <2>5, <2>6, <3>1 DEF OptionsSet, Saved
        <3>3. FileInv'
            BY <2>2, <2>7, <3>2 DEF FileInv, ManagerLabels, WaitLabels
        <3>4. OthersInv'
            BY <1>1, <1>2, <2>2, <2>7, CrudiniOthers DEF InProgress
        <3> QED BY <3>3, <3>4
    <2>8. CASE ~(i < M)
        <3>1. 1..i = Opts /\ host' = k BY <2>1, <2>2, <2>8, OptsAssumption DEF Opts
        <3>2. OptionsSet(host, Opts)' /\ Saved(host, Opts)'
            BY <2>5, <2>6, <3>1 DEF OptionsSet, Saved
        <3>3. FileInv'
            BY <1>1, <2>2, <2>8, <3>2 DEF FileInv, ManagerLabels, WaitLabels
        <3>4. OthersInv'
            BY <1>1, <1>2, <2>2, <2>8, CrudiniOthers
            DEF InProgress, ManagerLabels, WaitLabels
        <3> QED BY <3>3, <3>4
    <2> QED BY <2>7, <2>8
<1> QED BY <1>3, <1>4

(* The loop of the second half: put the saved values back.                 *)
LEMMA RestoreFiles ==
    ASSUME ControlInv, ControlInv', FileInv, OthersInv, DistinctOptions, RestoreConfOpt
    PROVE  FileInv' /\ OthersInv'
<1>1. /\ host \in Hosts /\ opt \in Opts /\ pc = "restore" /\ InProgress
      /\ phase = "exit" /\ ServiceTypeOK
      /\ initial_values[host][opt] \in Values \cup {NoValue}
    BY DEF ControlInv, TypeOK, StackInv, InProgress, RestoreConfOpt
<1>2. Touches(host)
    BY <1>1, CrudiniTouches, NothingTouches, OptsAssumption DEF RestoreConfOpt, Executed
<1>3. CASE Raise BY <1>1, <1>2, <1>3, RaiseFiles
<1>4. CASE ~Raise
    <2>1. PICK k \in Hosts, i \in Opts : k = host /\ i = opt BY <1>1
    <2>2. /\ Crudini(k, OptionOf[i], initial_values[k][i])
          /\ UNCHANGED <<phase, host, stack, initial_values, failed, conf0>>
          /\ \/ i < M /\ pc' = "restore" /\ opt' = i + 1
             \/ ~(i < M) /\ pc' = "stop" /\ opt' = i
        BY <1>4, <2>1 DEF RestoreConfOpt, Executed, Goto
    <2>3. conf'[k] = [conf[k] EXCEPT ![OptionOf[i]] = initial_values[k][i]]
        BY <1>1, <2>1, <2>2, CrudiniTouches, OptsAssumption
    <2>4. PutBack(k, i..M) /\ Saved(k, Opts)
        BY <1>1, <2>1 DEF FileInv
    <2>5. PutBack(k, (i + 1)..M)' BY <2>2, <2>3, <2>4, RestoreOne DEF ControlInv
    <2>6. Saved(k, Opts)' BY <2>2, <2>4 DEF Saved
    <2>7. CASE i < M
        <3>1. opt' = i + 1 /\ host' = k BY <2>1, <2>2, <2>7
        <3> QED
            BY <1>1, <1>2, <2>2, <2>5, <2>6, <2>7, <3>1, CrudiniOthers
            DEF FileInv, PutBack, Saved, InProgress, ManagerLabels, WaitLabels
    <2>8. CASE ~(i < M)
        <3>1. (i + 1)..M = {} /\ host' = k BY <2>1, <2>2, <2>8, OptsAssumption DEF Opts
        <3>2. PutBack(host, {})' BY <2>5, <3>1 DEF PutBack
        <3>3. FileInv'
            BY <1>1, <2>2, <2>8, <3>1, <3>2 DEF FileInv, ManagerLabels, WaitLabels
        <3>4. OthersInv'
            BY <1>1, <1>2, <2>2, <2>8, CrudiniOthers
            DEF InProgress, ManagerLabels, WaitLabels
        <3> QED BY <3>3, <3>4
    <2> QED BY <2>7, <2>8
<1> QED BY <1>3, <1>4

(* Construct, Body and the services themselves.                            *)
LEMMA ConstructFiles ==
    ASSUME ControlInv, OthersInv, UntouchedInv, Construct
    PROVE  FileInv' /\ OthersInv'
<1>1. /\ pc = "construct" /\ stack = 0 /\ host = 1 /\ opt = 1 /\ 1 \in Hosts
      /\ UNCHANGED <<serviceVars, stackVars, initial_values, failed, conf0>>
      /\ pc' \in {"get", "done"}
      /\ phase = "enter"
    BY NAssumption DEF ControlInv, StackInv, Construct, Goto, Hosts
<1>2. \A h \in Hosts : AsFound(h)
    BY <1>1, NAssumption DEF OthersInv, InProgress, ManagerLabels, WaitLabels, Hosts
<1>3. \A h \in Hosts : AsFound(h)'
    BY <1>1, <1>2, KeptHost DEF HostKept, serviceVars
<1>4. OptionsSet(1, {})'
    BY <1>1 DEF UntouchedInv, InProgress, ManagerLabels, WaitLabels, OptionsSet, serviceVars
<1>5. 1..(opt' - 1) = {} /\ host' = 1 /\ stack' = 0 BY <1>1 DEF stackVars
<1>6. OptionsSet(host, 1..(opt - 1))' /\ Saved(host, 1..(opt - 1))'
    BY <1>4, <1>5 DEF OptionsSet, Saved
<1>7. FileInv' BY <1>1, <1>6 DEF FileInv, ManagerLabels, WaitLabels
<1>8. OthersInv' BY <1>3, <1>5 DEF OthersInv
<1> QED BY <1>7, <1>8

LEMMA BodyFiles ==
    ASSUME ControlInv, ControlInv', OthersInv, Body
    PROVE  FileInv' /\ OthersInv'
<1>1. stack = N /\ UNCHANGED <<serviceVars, initial_values, failed, conf0>>
    BY DEF ControlInv, StackInv, Body
<1>2. \A h \in Hosts : HostKept(h) BY <1>1 DEF HostKept, serviceVars
<1>3. \A h \in 1..stack : Entered(h)' BY <1>1, <1>2, KeptHost DEF OthersInv, Hosts
<1>4. \A h \in Hosts : h > stack => AsFound(h)' BY <1>1, NAssumption DEF Hosts
<1> QED BY <1>3, <1>4, UnwindFiles DEF ControlInv, Body

LEMMA EnvironmentFiles ==
    ASSUME ControlInv, FileInv, OthersInv, Environment
    PROVE  FileInv' /\ OthersInv'
<1>1. /\ UNCHANGED <<conf, running, loaded>>
      /\ \A h \in Hosts : beat[h] => beat'[h]
      /\ UNCHANGED <<managerVars, stackVars, initial_values, failed, conf0>>
    BY DEF Environment, ServiceStep, Heartbeat, Expire, ControlInv, TypeOK, ServiceTypeOK
<1>2. FileInv'
    BY <1>1 DEF FileInv, OptionsSet, PutBack, Saved, managerVars, stackVars
<1>3. ASSUME NEW h \in Hosts
      PROVE  (Entered(h) => Entered(h)') /\ (AsFound(h) => AsFound(h)')
    BY <1>1 DEF Entered, AsFound, OptionsSet, PutBack, Saved, Serving
<1>4. stack \in 0..N BY DEF ControlInv, TypeOK
<1>5. OthersInv'
    BY <1>1, <1>3, <1>4, NAssumption DEF OthersInv, InProgress, managerVars, stackVars, Hosts
<1> QED BY <1>2, <1>5

-----------------------------------------------------------------------------
(* Hosts whose turn is still to come are not touched.                      *)
LEMMA UntouchedNext == ControlInv /\ UntouchedInv /\ [Next]_vars => UntouchedInv'
<1> SUFFICES ASSUME ControlInv, UntouchedInv, [Next]_vars, phase' = "enter",
                    NEW h \in Hosts, h > stack', InProgress' => h # host'
             PROVE  conf'[h] = conf0'[h]
    BY DEF UntouchedInv
<1>1. host \in Hosts /\ ServiceTypeOK /\ opt \in Opts /\ phase \in {"enter", "exit"}
      /\ stack \in 0..N
    BY DEF ControlInv, TypeOK
<1>2. ~Raise /\ ~Body /\ phase = "enter"
    BY DEF Raise, Body, Unwind, Next, Plugin, Construct, GetConfOpt, SetConfOpt,
           RestartService, Restart, Stop, Start, Executed, Poll, Sleep, Keep, Restarted,
           RestoreConfOpt, Environment, stackVars, vars
<1>3. ASSUME stack' = stack, host' = host, InProgress', conf0' = conf0, InProgress,
             Touches(host)
      PROVE  conf'[h] = conf0'[h]
    BY <1>2, <1>3 DEF UntouchedInv, Touches
<1>4. ASSUME UNCHANGED <<conf, conf0, stack, host>>, InProgress => InProgress'
      PROVE  conf'[h] = conf0'[h]
    BY <1>2, <1>4 DEF UntouchedInv
<1>5. CASE Construct
    BY <1>5, <1>2 DEF Construct, UntouchedInv, InProgress, ManagerLabels, WaitLabels,
                      serviceVars, stackVars
<1>6. CASE GetConfOpt
    BY <1>2, <1>4, <1>6 DEF GetConfOpt, Goto, InProgress, serviceVars, stackVars
<1>7. CASE SetConfOpt
    <2>1. Touches(host)
        BY <1>1, <1>2, <1>7, CrudiniTouches, OptsAssumption DEF SetConfOpt, Executed
    <2> QED
        BY <1>2, <1>3, <1>7, <2>1
        DEF SetConfOpt, Executed, Goto, InProgress, ManagerLabels, WaitLabels
<1>8. CASE RestartService
    <2>1. CASE Restarted
        <3>1. InProgress /\ stack = host - 1
            BY <1>8 DEF ControlInv, StackInv, RestartService, Restart, Stop, Start,
                        InProgress, ManagerLabels, WaitLabels
        <3>2. UNCHANGED <<conf, conf0>> /\ stack' = stack + 1
            BY <1>2, <1>8, <2>1
            DEF RestartService, Restart, Stop, Start, Executed, Keep, Restarted, Poll,
                Sleep, SystemctlStop, SystemctlStart, stackVars, serviceVars
        <3> QED
            BY <1>1, <1>2, <3>1, <3>2, NAssumption DEF UntouchedInv, Hosts
    <2>2. CASE ~Restarted
        BY <1>2, <1>4, <1>8, <2>2
        DEF RestartService, Restart, Stop, Start, Executed, Poll, Sleep, Keep, Goto,
            SystemctlStop, SystemctlStart, InProgress, ManagerLabels, WaitLabels,
            serviceVars, stackVars
    <2> QED BY <2>1, <2>2
<1>9. CASE RestoreConfOpt
    BY <1>2, <1>9 DEF RestoreConfOpt, ControlInv, StackInv
<1>10. CASE Environment \/ UNCHANGED vars
    BY <1>4, <1>10 DEF Environment, ServiceStep, Heartbeat, Expire, vars, serviceVars,
                       managerVars, stackVars, InProgress
<1> QED
    BY <1>2, <1>5, <1>6, <1>7, <1>8, <1>9, <1>10 DEF Next, Plugin

-----------------------------------------------------------------------------
(* The inductive invariant, and what follows from it.                      *)

LEMMA IndInvInit == Init => IndInv
<1> SUFFICES ASSUME Init PROVE IndInv OBVIOUS
<1>1. TypeOK /\ StackInv /\ ProcessInv BY ControlInit, ProcessInit DEF ControlInv
<1>2. FileInv BY DEF Init, FileInv, ManagerLabels, WaitLabels
<1>3. OthersInv
    BY NAssumption
    DEF Init, ServiceInit, OthersInv, AsFound, PutBack, Kept, Serving, Hosts
<1>4. UntouchedInv BY DEF Init, UntouchedInv
<1> QED BY <1>1, <1>2, <1>3, <1>4 DEF IndInv

LEMMA IndInvNext ==
    ASSUME DistinctOptions
    PROVE  IndInv /\ [Next]_vars => IndInv'
<1> SUFFICES ASSUME IndInv, [Next]_vars PROVE IndInv' OBVIOUS
<1>1. ControlInv /\ FileInv /\ ProcessInv /\ OthersInv /\ UntouchedInv
    BY DEF IndInv, ControlInv
<1>2. ControlInv' /\ ProcessInv' /\ UntouchedInv'
    BY <1>1, ControlNext, ProcessNext, UntouchedNext
<1>3. FileInv' /\ OthersInv'
    <2>1. CASE Construct BY <1>1, <2>1, ConstructFiles
    <2>2. CASE GetConfOpt BY <1>1, <1>2, <2>2, GetFiles
    <2>3. CASE SetConfOpt BY <1>1, <1>2, <2>3, SetFiles
    <2>4. CASE RestartService BY <1>1, <1>2, <2>4, RestartFiles
    <2>5. CASE Body BY <1>1, <1>2, <2>5, BodyFiles
    <2>6. CASE RestoreConfOpt BY <1>1, <1>2, <2>6, RestoreFiles
    <2>7. CASE Environment BY <1>1, <2>7, EnvironmentFiles
    <2>8. CASE UNCHANGED vars
        <3>1. FileInv'
            BY <1>1, <2>8 DEF vars, serviceVars, managerVars, stackVars, FileInv, OptionsSet,
               PutBack, Saved
        <3>2. OthersInv'
            BY <1>1, <2>8 DEF vars, serviceVars, managerVars, stackVars, OthersInv,
               OptionsSet, PutBack, Saved, Entered, AsFound, Serving, InProgress
        <3> QED BY <3>1, <3>2
    <2> QED
        BY <2>1, <2>2, <2>3, <2>4, <2>5, <2>6, <2>7, <2>8 DEF Next, Plugin
<1> QED BY <1>2, <1>3 DEF IndInv, ControlInv

LEMMA IndInvAlways ==
    ASSUME DistinctOptions
    PROVE  Spec => []IndInv
BY IndInvInit, IndInvNext, PTL DEF Spec

(* config_all_computes leaves every host whose own manager did not raise   *)
(* as it found it, whatever happened in the body and on the other hosts:   *)
(* for every number of hosts and options.  At worst an option that         *)
(* get_conf_opt took for absent is missing afterwards.                     *)
THEOREM Restored ==
    ASSUME DistinctOptions
    PROVE  Spec => []HostsRestored
<1>1. ASSUME IndInv, pc = "done" PROVE \A h \in Hosts : AsFound(h)
    <2>1. stack = 0 BY <1>1 DEF IndInv, StackInv
    <2>2. ~InProgress BY <1>1 DEF InProgress, ManagerLabels, WaitLabels
    <2> QED BY <1>1, <2>1, <2>2, NAssumption DEF IndInv, OthersInv, Hosts
<1>2. IndInv => HostsRestored BY <1>1 DEF HostsRestored, AsFound
<1> QED BY <1>2, IndInvAlways, PTL

(* And its body runs with every host serving exactly the options asked     *)
(* for.                                                                    *)
THEOREM BodyConfigured ==
    ASSUME DistinctOptions
    PROVE  Spec => []BodySeesOptions
<1>1. IndInv => BodySeesOptions
    BY DEF IndInv, StackInv, OthersInv, BodySeesOptions, Entered, Hosts
<1> QED BY <1>1, IndInvAlways, PTL
=============================================================================
