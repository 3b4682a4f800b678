------------------------ MODULE ConfigContextsProofs ------------------------
(***************************************************************************)
(* ConfigAllComputes implements ConfigContexts, for any number of hosts    *)
(* and options: a command on the way of a half is a stuttering step, the   *)
(* last wait of a half is Enter or Leave, and an exception is Fail.        *)
(***************************************************************************)
EXTENDS ConfigAllComputesProofs

(* No option being passed twice, each has the value of its own tuple.      *)
LEMMA WantedValue ==
    ASSUME DistinctOptions, NEW i \in Opts
    PROVE  /\ OptionOf[i] \in DOMAIN WantedOptions
           /\ WantedOptions[OptionOf[i]] = ValueOf[i]
<1>1. (CHOOSE j \in Opts : OptionOf[j] = OptionOf[i]) = i
    BY DEF DistinctOptions
<1> QED BY <1>1 DEF WantedOptions

LEMMA NotWanted ==
    ASSUME NEW o, o \notin DOMAIN WantedOptions, NEW i \in Opts
    PROVE  OptionOf[i] # o
BY DEF WantedOptions

LEMMA WantedIndex ==
    ASSUME NEW o \in DOMAIN WantedOptions
    PROVE  \E i \in Opts : OptionOf[i] = o
BY DEF WantedOptions

(* A file in which all the options are set is the configured one.          *)
LEMMA SetIsConfigured ==
    ASSUME TypeOK, DistinctOptions, NEW h \in Hosts, OptionsSet(h, Opts)
    PROVE  conf[h] = Contexts!Configured(conf0[h])
<1>1. conf[h] \in Conf BY DEF TypeOK, ServiceTypeOK
<1>2. ASSUME NEW o \in Options
      PROVE  conf[h][o] = IF o \in DOMAIN WantedOptions THEN WantedOptions[o] ELSE conf0[h][o]
    <2>1. CASE o \in DOMAIN WantedOptions
        <3>1. PICK i \in Opts : OptionOf[i] = o BY <2>1, WantedIndex
        <3> QED BY <2>1, <3>1, WantedValue DEF OptionsSet
    <2>2. CASE o \notin DOMAIN WantedOptions BY <2>2, NotWanted DEF OptionsSet
    <2> QED BY <2>1, <2>2
<1> QED BY <1>1, <1>2 DEF Conf, Contexts!Configured

(* A file whose options are put back is the one that was found.            *)
LEMMA PutBackIsFound ==
    ASSUME NEW h \in Hosts, PutBack(h, {})
    PROVE  Contexts!BackTo(conf0[h], conf[h])
<1>1. ASSUME NEW o \in Options
      PROVE  conf[h][o] = conf0[h][o]
             \/ (SpuriousNotFound /\ o \in DOMAIN WantedOptions /\ conf[h][o] = NoValue)
    <2>1. CASE o \in DOMAIN WantedOptions
        <3>1. PICK i \in Opts : OptionOf[i] = o BY <2>1, WantedIndex
        <3> QED BY <2>1, <3>1 DEF PutBack, Kept
    <2>2. CASE o \notin DOMAIN WantedOptions BY <2>2, NotWanted DEF PutBack
    <2> QED BY <2>1, <2>2
<1> QED BY <1>1 DEF Contexts!BackTo

(* On the way through a half the file is between the two ...               *)
LEMMA InProgressHalfWay ==
    ASSUME TypeOK, StackInv, FileInv, DistinctOptions, InProgress
    PROVE  Contexts!HalfWay(conf0[host], conf[host])
<1>1. ASSUME NEW o \in Options
      PROVE  \/ conf[host][o] = conf0[host][o]
             \/ /\ o \in DOMAIN WantedOptions
                /\ \/ conf[host][o] = WantedOptions[o]
                   \/ SpuriousNotFound /\ conf[host][o] = NoValue
    <2>1. \E I : OptionsSet(host, I) \/ PutBack(host, I)
        BY DEF InProgress, FileInv, TypeOK
    <2>2. CASE o \in DOMAIN WantedOptions
        <3>1. PICK i \in Opts : OptionOf[i] = o BY <2>2, WantedIndex
        <3> QED BY <2>1, <2>2, <3>1, WantedValue DEF OptionsSet, PutBack, Kept
    <2>3. CASE o \notin DOMAIN WantedOptions
        BY <2>1, <2>3, NotWanted DEF OptionsSet, PutBack
    <2> QED BY <2>2, <2>3
<1> QED BY <1>1 DEF Contexts!HalfWay

(* ... and a command that sets one option more, or puts one back, whether  *)
(* it is reported to have failed or not, leaves it there.                  *)
LEMMA OneMoreHalfWay ==
    ASSUME TypeOK, DistinctOptions, Contexts!HalfWay(conf0[host], conf[host]),
           NEW i \in Opts, NEW v,
           conf'[host] = [conf[host] EXCEPT ![OptionOf[i]] = v],
           v = ValueOf[i] \/ Kept(v, conf0[host][OptionOf[i]])
    PROVE  Contexts!HalfWay(conf0[host], conf'[host])
<1>1. conf[host] \in Conf BY DEF TypeOK, ServiceTypeOK
<1>2. ASSUME NEW o \in Options
      PROVE  \/ conf'[host][o] = conf0[host][o]
             \/ /\ o \in DOMAIN WantedOptions
                /\ \/ conf'[host][o] = WantedOptions[o]
                   \/ SpuriousNotFound /\ conf'[host][o] = NoValue
    <2>1. CASE o = OptionOf[i] BY <1>1, <2>1, WantedValue DEF Conf, Kept
    <2>2. CASE o # OptionOf[i]
        <3>1. conf'[host][o] = conf[host][o] BY <1>1, <2>2 DEF Conf
        <3> QED BY <3>1 DEF Contexts!HalfWay
    <2> QED BY <2>1, <2>2
<1> QED BY <1>2 DEF Contexts!HalfWay

-----------------------------------------------------------------------------
(* How the mapped state moves.                                             *)

Same(h) == ContextOf(h)' = ContextOf(h) /\ FileOf(h)' = FileOf(h)

LEMMA NothingMoves ==
    ASSUME \A h \in Hosts : Same(h), UNCHANGED conf0
    PROVE  UNCHANGED Contexts!vars
BY DEF Same, Contexts!vars

LEMMA OneMoves ==
    ASSUME NEW k \in Hosts, \A h \in Hosts : h # k => Same(h), UNCHANGED conf0,
           NEW s, NEW f, ContextOf(k)' = s, FileOf(k)' = f
    PROVE  Contexts!Move(k, s, f)
BY DEF Same, Contexts!Move

(* A host on the stack, and the one that is popped, stay inside.           *)
LEMMA UnwindInside ==
    ASSUME IndInv, TypeOK', DistinctOptions, Unwind(stack), UNCHANGED conf0,
           NEW h \in Hosts, h <= stack, conf'[h] = conf[h], failed'[h] = failed[h]
    PROVE  Same(h) /\ ContextOf(h) = "inside"
<1>1. stack \in 0..N /\ h \in 1..stack /\ host \in Hosts /\ (InProgress => host # h)
    BY NAssumption DEF IndInv, TypeOK, StackInv, Hosts
<1>2. failed[h] = "no" /\ OptionsSet(h, Opts)
    BY <1>1 DEF IndInv, OthersInv, Entered
<1>3. host' = stack /\ stack' = stack - 1 /\ phase' = "exit" /\ pc' = "restore"
    BY <1>1, NAssumption DEF Unwind, Goto, Hosts
<1>4. ContextOf(h) = "inside" /\ ContextOf(h)' = "inside"
    BY <1>1, <1>2, <1>3, NAssumption DEF ContextOf, InProgress, Hosts
<1>5. FileOf(h) = conf[h] BY <1>1 DEF FileOf
<1>6. FileOf(h)' = conf[h]
    <2>1. CASE h = stack
        BY <1>2, <1>3, <2>1, SetIsConfigured
        DEF IndInv, FileOf, InProgress, Contexts!Configured
    <2>2. CASE h # stack BY <1>3, <2>2 DEF FileOf
    <2> QED BY <2>1, <2>2
<1> QED BY <1>4, <1>5, <1>6 DEF Same

(* Unwinding leaves the hosts above the current one where they are.        *)
LEMMA UnwindOutside ==
    ASSUME IndInv, Unwind(stack), InProgress, UNCHANGED conf0,
           NEW h \in Hosts, h > stack, h # host, conf'[h] = conf[h],
           \A k \in Hosts : k # host => failed'[k] = failed[k],
           phase = "enter" => failed'[host] = "enter",
           phase = "exit" => failed'[host] # "enter"
    PROVE  Same(h)
<1>1. stack \in 0..N /\ host \in Hosts /\ host = stack + 1 /\ phase \in {"enter", "exit"}
      /\ failed[host] = "no"
    BY NAssumption DEF IndInv, TypeOK, StackInv, Hosts
<1>2. /\ phase' = "exit" /\ stack' <= stack
      /\ InProgress' => host' <= stack
    BY <1>1, NAssumption
    DEF Unwind, Goto, InProgress, ManagerLabels, WaitLabels, Hosts
<1>3. FileOf(h)' = FileOf(h) BY <1>1, <1>2, NAssumption DEF FileOf, Hosts
<1>4. failed'[h] = failed[h] OBVIOUS
<1>5. (\E k \in 1..(h - 1) : failed'[k] = "enter")
      <=> (phase = "enter" \/ \E k \in 1..(h - 1) : failed[k] = "enter")
    BY <1>1, NAssumption DEF IndInv, StackInv, Hosts
<1>6. stack' \in 0..N BY <1>1, NAssumption DEF Unwind
<1>7. ContextOf(h)' = ContextOf(h)
    BY <1>1, <1>2, <1>4, <1>5, <1>6, NAssumption DEF ContextOf, Hosts
<1> QED BY <1>3, <1>7 DEF Same

(* Whose turn it is: the host in progress is the next to enter, or the     *)
(* last that is inside.                                                    *)
LEMMA Turn ==
    ASSUME IndInv, InProgress
    PROVE  /\ phase = "enter" => Contexts!MayEnter(host)
           /\ phase = "exit" => Contexts!MayLeave(host)
<1>1. /\ stack \in 0..N /\ host \in Hosts /\ host = stack + 1 /\ failed[host] = "no"
      /\ \A h \in 1..stack : failed[h] = "no"
    BY NAssumption DEF IndInv, TypeOK, StackInv, Hosts
<1>2. \A h \in 1..stack : h \in Hosts /\ ContextOf(h) = "inside"
    BY <1>1, NAssumption DEF ContextOf, Hosts
<1>3. ASSUME phase = "enter" PROVE Contexts!MayEnter(host)
    <2>1. ContextOf(host) = "before" BY <1>1, <1>3, NAssumption DEF ContextOf, Hosts
    <2>2. 1..(host - 1) = 1..stack BY <1>1, NAssumption DEF Hosts
    <2> QED BY <1>1, <1>2, <2>1, <2>2 DEF Contexts!MayEnter
<1>4. ASSUME phase = "exit" PROVE Contexts!MayLeave(host)
    <2>1. ContextOf(host) = "inside" BY <1>1, <1>4 DEF ContextOf
    <2>2. \A h \in (host + 1)..N : h \in Hosts /\ ContextOf(h) # "inside"
        BY <1>1, NAssumption DEF ContextOf, Hosts
    <2> QED BY <1>1, <2>1, <2>2 DEF Contexts!MayLeave
<1> QED BY <1>3, <1>4

(* An exception in a half is Fail of its host.                             *)
LEMMA RaiseFails ==
    ASSUME IndInv, TypeOK', DistinctOptions, InProgress, Raise, Touches(host),
           Contexts!HalfWay(conf0[host], conf'[host])
    PROVE  Contexts!Fail(host)
<1>1. /\ stack \in 0..N /\ host \in Hosts /\ host = stack + 1
      /\ phase \in {"enter", "exit"}
    BY NAssumption DEF IndInv, TypeOK, StackInv, Hosts
<1>2. /\ UNCHANGED conf0 /\ Unwind(stack)
      /\ failed'[host] = phase
      /\ \A h \in Hosts : h # host => failed'[h] = failed[h] /\ conf'[h] = conf[h]
    BY <1>1 DEF Raise, Touches, IndInv, TypeOK
<1>3. ASSUME NEW h \in Hosts, h # host PROVE Same(h)
    <2>1. CASE h <= stack BY <1>2, <1>3, <2>1, UnwindInside
    <2>2. CASE h > stack BY <1>1, <1>2, <1>3, <2>2, UnwindOutside
    <2> QED BY <1>1, <2>1, <2>2, NAssumption DEF Hosts
<1>4. PICK k \in Hosts : k = host BY <1>1
<1>5. ContextOf(k)' = "failed" BY <1>1, <1>2, <1>4 DEF ContextOf
<1>6. FileOf(k)' = conf'[k]
    BY <1>1, <1>2, <1>4, NAssumption
    DEF FileOf, Unwind, Goto, InProgress, ManagerLabels, WaitLabels, Hosts
<1>7. Contexts!Move(k, "failed", conf'[k])
    BY <1>2, <1>3, <1>4, <1>5, <1>6, OneMoves
<1>8. conf'[k] \in Contexts!Files
    BY DEF TypeOK, ServiceTypeOK, Conf, Contexts!Files
<1> QED
    BY <1>1, <1>2, <1>4, <1>7, <1>8, Turn DEF Contexts!Fail

(* The end of the wait of restart() is Enter or Leave.                     *)
LEMMA RestartedMoves ==
    ASSUME IndInv, IndInv', DistinctOptions, pc \in ManagerLabels, Restarted,
           UNCHANGED serviceVars
    PROVE  Contexts!Enter(host) \/ Contexts!Leave(host)
<1>1. /\ stack \in 0..N /\ host \in Hosts /\ host = stack + 1 /\ InProgress
      /\ phase \in {"enter", "exit"} /\ failed[host] = "no"
    BY NAssumption DEF IndInv, TypeOK, StackInv, InProgress, Hosts
<1>2. UNCHANGED <<conf, conf0, failed>> BY DEF Restarted, serviceVars
<1>3. PICK k \in Hosts : k = host BY <1>1
<1>4. CASE phase = "exit"
    <2>1. Unwind(stack) BY <1>4 DEF Restarted
    <2>2. ASSUME NEW h \in Hosts, h # k PROVE Same(h)
        <3>1. CASE h <= stack BY <1>2, <2>1, <3>1, UnwindInside DEF IndInv
        <3>2. CASE h > stack BY <1>1, <1>2, <1>3, <1>4, <2>1, <2>2, <3>2, UnwindOutside
        <3> QED BY <1>1, <3>1, <3>2, NAssumption DEF Hosts
    <2>3. FileOf(k)' = conf[k] /\ ~(k <= stack') /\ ~(k = host' /\ InProgress') /\ phase' = "exit"
        BY <1>1, <1>2, <1>3, <2>1, NAssumption
        DEF FileOf, Unwind, Goto, InProgress, ManagerLabels, WaitLabels, Hosts
    <2>4. \A j \in 1..(k - 1) : failed[j] = "no"
        BY <1>1, <1>3, NAssumption DEF IndInv, StackInv, Hosts
    <2>5. ContextOf(k)' = "left" BY <1>1, <1>2, <1>3, <2>3, <2>4 DEF ContextOf
    <2>6. Contexts!Move(k, "left", conf[k]) BY <1>2, <2>2, <2>3, <2>5, OneMoves
    <2>7. PutBack(k, {}) BY <1>3, <1>4 DEF IndInv, FileInv
    <2>8. Contexts!BackTo(conf0[k], conf[k]) BY <2>7, PutBackIsFound
    <2>9. conf[k] \in Contexts!Files
        BY DEF IndInv, TypeOK, ServiceTypeOK, Conf, Contexts!Files
    <2> QED BY <1>1, <1>3, <1>4, <2>6, <2>8, <2>9, Turn DEF Contexts!Leave
<1>5. CASE phase = "enter"
    <2>1. stack' = k /\ phase' = "enter" /\ (InProgress' => host' > k)
        BY <1>1, <1>3, <1>5, NAssumption
        DEF Restarted, Goto, InProgress, ManagerLabels, WaitLabels, Hosts
    <2>2. OptionsSet(k, Opts) BY <1>3, <1>5 DEF IndInv, FileInv
    <2>3. FileOf(k)' = Contexts!Configured(conf0[k])
        <3>1. conf[k] = Contexts!Configured(conf0[k])
            BY <2>2, SetIsConfigured DEF IndInv
        <3> QED BY <1>2, <2>1, <3>1, NAssumption DEF FileOf, Hosts
    <2>4. ContextOf(k)' = "inside" BY <1>1, <1>2, <1>3, <2>1, NAssumption DEF ContextOf, Hosts
    <2>5. ASSUME NEW h \in Hosts, h # k PROVE Same(h)
        <3>1. ContextOf(h)' = ContextOf(h)
            BY <1>1, <1>2, <1>3, <1>5, <2>1, <2>5, NAssumption DEF ContextOf, Hosts
        <3>2. FileOf(h) = conf[h] BY <1>3, <2>5 DEF FileOf
        <3>3. FileOf(h)' = conf[h]
            <4>1. CASE h = host' /\ InProgress'
                BY <1>1, <1>2, <1>3, <1>5, <2>1, <4>1, NAssumption
                DEF FileOf, IndInv, UntouchedInv, Hosts
            <4>2. CASE ~(h = host' /\ InProgress') BY <1>2, <4>2 DEF FileOf
            <4> QED BY <4>1, <4>2
        <3> QED BY <3>1, <3>2, <3>3 DEF Same
    <2>6. Contexts!Move(k, "inside", Contexts!Configured(conf0[k]))
        BY <1>2, <2>3, <2>4, <2>5, OneMoves
    <2> QED BY <1>1, <1>3, <1>5, <2>6, Turn DEF Contexts!Enter
<1> QED BY <1>1, <1>4, <1>5

(* A step within a half is not seen.                                       *)
LEMMA WithinHalf ==
    ASSUME IndInv, InProgress, InProgress', Touches(host),
           UNCHANGED <<host, stack, phase, failed, conf0>>
    PROVE  UNCHANGED Contexts!vars
<1>1. ASSUME NEW h \in Hosts PROVE Same(h)
    BY DEF Same, ContextOf, FileOf, Touches
<1> QED BY <1>1, NothingMoves

LEMMA GetMaps ==
    ASSUME IndInv, IndInv', DistinctOptions, GetConfOpt
    PROVE  Contexts!Next \/ UNCHANGED Contexts!vars
<1>1. host \in Hosts /\ InProgress /\ Touches(host)
    BY NothingTouches DEF IndInv, TypeOK, GetConfOpt, InProgress
<1>2. CASE Raise
    <2>1. Contexts!HalfWay(conf0[host], conf'[host])
        BY <1>1, InProgressHalfWay DEF IndInv, GetConfOpt, serviceVars
    <2>2. Contexts!Fail(host) BY <1>1, <1>2, <2>1, RaiseFails DEF IndInv
    <2> QED BY <1>1, <2>2 DEF Contexts!Next, Contexts!Hosts, Hosts
<1>3. CASE ~Raise
    BY <1>1, <1>3, WithinHalf DEF GetConfOpt, Goto, InProgress, stackVars
<1> QED BY <1>2, <1>3

LEMMA SetMaps ==
    ASSUME IndInv, IndInv', DistinctOptions, SetConfOpt
    PROVE  Contexts!Next \/ UNCHANGED Contexts!vars
<1>1. /\ host \in Hosts /\ opt \in Opts /\ InProgress /\ ServiceTypeOK
      /\ OptionOf[opt] \in Options /\ ValueOf[opt] \in Values \cup {NoValue}
    BY OptsAssumption DEF IndInv, TypeOK, SetConfOpt, InProgress
<1>2. Touches(host)
    BY <1>1, CrudiniTouches, NothingTouches DEF SetConfOpt, Executed
<1>3. CASE Raise
    <2>1. Contexts!HalfWay(conf0[host], conf[host])
        BY <1>1, InProgressHalfWay DEF IndInv
    <2>2. \/ conf'[host] = conf[host]
          \/ conf'[host] = [conf[host] EXCEPT ![OptionOf[opt]] = ValueOf[opt]]
        BY <1>1, CrudiniTouches DEF SetConfOpt, Executed, serviceVars
    <2>3. Contexts!HalfWay(conf0[host], conf'[host])
        BY <1>1, <2>1, <2>2, OneMoreHalfWay DEF IndInv
    <2>4. Contexts!Fail(host) BY <1>1, <1>2, <1>3, <2>3, RaiseFails DEF IndInv
    <2> QED BY <1>1, <2>4 DEF Contexts!Next, Contexts!Hosts, Hosts
<1>4. CASE ~Raise
    BY <1>1, <1>2, <1>4, WithinHalf
    DEF SetConfOpt, Executed, Goto, InProgress, ManagerLabels, WaitLabels
<1> QED BY <1>3, <1>4

LEMMA RestoreMaps ==
    ASSUME IndInv, IndInv', DistinctOptions, RestoreConfOpt
    PROVE  Contexts!Next \/ UNCHANGED Contexts!vars
<1>1. /\ host \in Hosts /\ opt \in Opts /\ InProgress /\ ServiceTypeOK
      /\ OptionOf[opt] \in Options
      /\ initial_values[host][opt] \in Values \cup {NoValue}
    BY OptsAssumption DEF IndInv, TypeOK, RestoreConfOpt, InProgress
<1>2. Touches(host)
    BY <1>1, CrudiniTouches, NothingTouches DEF RestoreConfOpt, Executed
<1>3. CASE Raise
    <2>1. Contexts!HalfWay(conf0[host], conf[host])
        BY <1>1, InProgressHalfWay DEF IndInv
    <2>2. \/ conf'[host] = conf[host]
          \/ conf'[host] = [conf[host] EXCEPT ![OptionOf[opt]] = initial_values[host][opt]]
        BY <1>1, CrudiniTouches DEF RestoreConfOpt, Executed, serviceVars
    <2>3. Kept(initial_values[host][opt], conf0[host][OptionOf[opt]])
        BY <1>1 DEF IndInv, FileInv, Saved, RestoreConfOpt
    <2>4. Contexts!HalfWay(conf0[host], conf'[host])
        BY <1>1, <2>1, <2>2, <2>3, OneMoreHalfWay DEF IndInv
    <2>5. Contexts!Fail(host) BY <1>1, <1>2, <1>3, <2>4, RaiseFails DEF IndInv
    <2> QED BY <1>1, <2>5 DEF Contexts!Next, Contexts!Hosts, Hosts
<1>4. CASE ~Raise
    BY <1>1, <1>2, <1>4, WithinHalf
    DEF RestoreConfOpt, Executed, Goto, InProgress, ManagerLabels, WaitLabels
<1> QED BY <1>3, <1>4

LEMMA RestartMaps ==
    ASSUME IndInv, IndInv', DistinctOptions, RestartService
    PROVE  Contexts!Next \/ UNCHANGED Contexts!vars
<1>1. host \in Hosts /\ ServiceTypeOK BY DEF IndInv, TypeOK
<1>2. pc \in ManagerLabels /\ InProgress
    BY DEF RestartService, Restart, Stop, Start, InProgress, ManagerLabels, WaitLabels
<1>3. Touches(host) /\ (Raise => conf' = conf)
    BY <1>1, StopTouches, StartTouches, NothingTouches
    DEF RestartService, Restart, Stop, Start, Executed, Poll, Sleep, SystemctlStop,
        SystemctlStart, serviceVars
<1>4. CASE Raise
    <2>1. Contexts!HalfWay(conf0[host], conf'[host])
        BY <1>2, <1>3, <1>4, InProgressHalfWay DEF IndInv
    <2>2. Contexts!Fail(host) BY <1>2, <1>3, <1>4, <2>1, RaiseFails DEF IndInv
    <2> QED BY <1>1, <2>2 DEF Contexts!Next, Contexts!Hosts, Hosts
<1>5. CASE pc' \in ManagerLabels /\ Keep
    BY <1>2, <1>3, <1>5, WithinHalf DEF Keep, stackVars, InProgress
<1>6. CASE Restarted /\ UNCHANGED serviceVars
    <2>1. Contexts!Enter(host) \/ Contexts!Leave(host) BY <1>2, <1>6, RestartedMoves
    <2> QED BY <1>1, <2>1 DEF Contexts!Next, Contexts!Hosts, Hosts
<1> QED
    BY <1>4, <1>5, <1>6
    DEF RestartService, Restart, Stop, Start, Executed, Poll, Sleep, Goto,
        ManagerLabels, WaitLabels

LEMMA StepMaps ==
    ASSUME DistinctOptions, IndInv, IndInv', [Next]_vars
    PROVE  Contexts!Next \/ UNCHANGED Contexts!vars
<1>1. CASE Construct
    <2>1. /\ UNCHANGED <<conf, conf0, failed, stack, phase, host>>
          /\ ~InProgress /\ phase = "enter" /\ stack = 0
          /\ InProgress' => host = 1
        BY <1>1 DEF Construct, Goto, serviceVars, stackVars, IndInv, StackInv,
                    InProgress, ManagerLabels, WaitLabels
    <2>2. ASSUME NEW h \in Hosts PROVE Same(h)
        BY <2>1 DEF Same, ContextOf, FileOf, IndInv, UntouchedInv, Hosts
    <2> QED BY <2>1, <2>2, NothingMoves
<1>2. CASE GetConfOpt BY <1>2, GetMaps
<1>3. CASE SetConfOpt BY <1>3, SetMaps
<1>4. CASE RestartService BY <1>4, RestartMaps
<1>5. CASE Body
    <2>1. stack = N /\ Unwind(stack) /\ UNCHANGED <<conf, conf0, failed>>
        BY <1>5 DEF Body, IndInv, StackInv, serviceVars
    <2>2. ASSUME NEW h \in Hosts PROVE Same(h)
        BY <2>1, UnwindInside, NAssumption DEF IndInv, Hosts
    <2> QED BY <2>1, <2>2, NothingMoves
<1>6. CASE RestoreConfOpt BY <1>6, RestoreMaps
<1>7. CASE Environment \/ UNCHANGED vars
    <2>1. UNCHANGED <<conf, conf0, failed, stack, phase, host, pc>>
        BY <1>7 DEF Environment, ServiceStep, Heartbeat, Expire, vars, serviceVars,
                    managerVars, stackVars
    <2>2. ASSUME NEW h \in Hosts PROVE Same(h)
        BY <2>1 DEF Same, ContextOf, FileOf, InProgress
    <2> QED BY <2>1, <2>2, NothingMoves
<1> QED
    BY <1>1, <1>2, <1>3, <1>4, <1>5, <1>6, <1>7 DEF Next, Plugin

LEMMA InitMaps == Init => Contexts!Init
<1> SUFFICES ASSUME Init PROVE Contexts!Init OBVIOUS
<1>1. conf \in [Hosts -> Conf] /\ conf0 = conf /\ ~InProgress /\ stack = 0
    BY DEF Init, ServiceInit, InProgress, ManagerLabels, WaitLabels
<1>2. \A h \in Hosts : FileOf(h) = conf[h] BY <1>1 DEF FileOf
<1>3. \A h \in Hosts : ContextOf(h) = "before"
    BY <1>1 DEF Init, ContextOf, Hosts
<1> QED BY <1>1, <1>2, <1>3 DEF Contexts!Init, Contexts!Hosts, Contexts!Files, Hosts, Conf

(* config_all_computes implements nested contexts, for every number of     *)
(* hosts and options and with every command that may fail: what goes wrong *)
(* on one host stays there, and every file is the old, the new or, where   *)
(* its own half raised, a mixture of the two.                              *)
THEOREM ContextsImplemented ==
    ASSUME DistinctOptions
    PROVE  Spec => ContextsNest
<1>1. Spec => []IndInv BY IndInvAlways
<1>2. IndInv /\ IndInv' /\ [Next]_vars => [Contexts!Next]_(Contexts!vars)
    BY StepMaps
<1> QED BY <1>1, <1>2, InitMaps, PTL DEF Spec, ContextsNest, Contexts!Spec
=============================================================================
