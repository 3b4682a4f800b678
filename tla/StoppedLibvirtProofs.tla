------------------------ MODULE StoppedLibvirtProofs ------------------------
(***************************************************************************)
(* What ServiceManager.stopped() gives test_detach_failure, whichever mask *)
(* commands the host has and whatever fails.                               *)
(***************************************************************************)
EXTENDS StoppedLibvirt, TLAPS

Labels == StopLabels \cup BodyLabels \cup StartLabels \cup AfterLabels \cup {"end"}

(* An exception of the body leads to start(), any other one to the end.    *)
LEMMA RaiseLeads ==
    ASSUME pc \in Labels \ {"end"}, Raise
    PROVE  /\ pc \in StopLabels => pc' = "end" /\ raised' = "stop"
           /\ pc \in BodyLabels => pc' = StartLabel /\ raised' = "body"
           /\ pc \in StartLabels => pc' = "end" /\ raised' = "start"
           /\ pc \in AfterLabels => pc' = "end" /\ raised' = "after"
<1>1. /\ pc \in StopLabels => Part = "stop"
      /\ pc \in BodyLabels => Part = "body"
      /\ pc \in StartLabels => Part = "start"
      /\ pc \in AfterLabels => Part = "after"
    BY Zenon DEF Part, StopLabels, BodyLabels, StartLabels, AfterLabels
<1> QED BY <1>1 DEF Raise

LEMMA StoppedInvInit == Init => StoppedInv
<1> SUFFICES ASSUME Init PROVE StoppedInv
    OBVIOUS
<1>1. TypeOK
    BY DEF Init, TypeOK, StopLabels
<1>2. RaisedInv /\ UnitInv
    BY DEF Init, RaisedInv, UnitInv, LibvirtRestored, StopLabels, BodyLabels, StartLabels, AfterLabels
<1>3. DiskInv /\ FirstDetachIsOver /\ DownInv
    BY DEF Init, DiskInv, FirstDetachIsOver, DownInv, StartLabels, BodyLabels
<1> QED BY <1>1, <1>2, <1>3 DEF StoppedInv

LEMMA StoppedInvStop ==
    ASSUME StoppedInv, StopCommand
    PROVE  StoppedInv'
<1> USE DEF StopLabels, BodyLabels, StartLabels, AfterLabels
<1>1. /\ pc = "stop" /\ activated' = activated /\ commands' = commands
      /\ volume' = volume /\ attached' = attached /\ request' = request /\ masked' = masked
    BY DEF StopCommand, Executed, host, volumeVars
<1>2. \/ /\ active' = FALSE
         /\ pc' = (IF "unmask_command" \in commands THEN "mask" ELSE "detach")
         /\ raised' = raised
      \/ pc' = "end" /\ raised' = "stop" /\ active' \in {active, FALSE}
    BY <1>1, RaiseLeads DEF StopCommand, Executed, Goto, Labels
<1>3. TypeOK'
    BY <1>1, <1>2 DEF StoppedInv, TypeOK
<1>4. RaisedInv' /\ UnitInv'
    BY <1>1, <1>2 DEF StoppedInv, RaisedInv, UnitInv, LibvirtRestored
<1>5. DiskInv' /\ FirstDetachIsOver' /\ DownInv'
    BY <1>1, <1>2 DEF StoppedInv, DiskInv, FirstDetachIsOver, DownInv
<1> QED BY <1>3, <1>4, <1>5 DEF StoppedInv

LEMMA StoppedInvMask ==
    ASSUME StoppedInv, MaskCommand
    PROVE  StoppedInv'
<1> USE DEF StopLabels, BodyLabels, StartLabels, AfterLabels
<1>1. /\ pc = "mask" /\ activated' = activated /\ commands' = commands
      /\ volume' = volume /\ attached' = attached /\ request' = request
      /\ active' = active
    BY DEF MaskCommand, Executed, host, volumeVars
<1>2. \/ pc' = "detach" /\ raised' = raised /\ masked' = TRUE
      \/ pc' = "end" /\ raised' = "stop" /\ masked' \in {masked, TRUE}
    BY <1>1, RaiseLeads DEF MaskCommand, Executed, Goto, Labels
<1>3. TypeOK'
    BY <1>1, <1>2 DEF StoppedInv, TypeOK
<1>4. RaisedInv' /\ UnitInv'
    BY <1>1, <1>2 DEF StoppedInv, TypeOK, RaisedInv, UnitInv, LibvirtRestored
<1>5. DiskInv' /\ FirstDetachIsOver' /\ DownInv'
    BY <1>1, <1>2 DEF StoppedInv, TypeOK, RaisedInv, DiskInv, FirstDetachIsOver, DownInv
<1> QED BY <1>3, <1>4, <1>5 DEF StoppedInv

LEMMA StoppedInvUnmask ==
    ASSUME StoppedInv, UnmaskCommand
    PROVE  StoppedInv'
<1> USE DEF StopLabels, BodyLabels, StartLabels, AfterLabels
<1>1. /\ pc = "unmask" /\ activated' = activated /\ commands' = commands
      /\ volume' = volume /\ attached' = attached /\ request' = request
      /\ active' = active
    BY DEF UnmaskCommand, Executed, host, volumeVars
<1>2. \/ pc' = "start" /\ raised' = raised /\ masked' = FALSE
      \/ pc' = "end" /\ raised' = "start" /\ (masked' = masked \/ masked' = FALSE)
    BY <1>1, RaiseLeads DEF UnmaskCommand, Executed, Goto, Labels
<1>3. TypeOK'
    BY <1>1, <1>2 DEF StoppedInv, TypeOK
<1>4. RaisedInv' /\ UnitInv'
    BY <1>1, <1>2 DEF StoppedInv, TypeOK, RaisedInv, UnitInv, LibvirtRestored
<1>5. DiskInv' /\ FirstDetachIsOver' /\ DownInv'
    BY <1>1, <1>2 DEF StoppedInv, TypeOK, RaisedInv, DiskInv, FirstDetachIsOver, DownInv
<1> QED BY <1>3, <1>4, <1>5 DEF StoppedInv

LEMMA StoppedInvStart ==
    ASSUME StoppedInv, StartCommand
    PROVE  StoppedInv'
<1> USE DEF StopLabels, BodyLabels, StartLabels, AfterLabels
<1>1. /\ pc = "start" /\ activated' = activated /\ commands' = commands
      /\ volume' = volume /\ attached' = attached /\ request' = request
      /\ masked' = masked
    BY DEF StartCommand, Executed, host, volumeVars
<1>2. \/ /\ pc' = (IF raised = "no" THEN "detach_again" ELSE "end")
         /\ raised' = raised /\ active' = TRUE
      \/ pc' = "end" /\ raised' = "start" /\ active' \in {active, TRUE}
    BY <1>1, RaiseLeads DEF StartCommand, Executed, Goto, Labels
<1>3. TypeOK'
    BY <1>1, <1>2 DEF StoppedInv, TypeOK
<1>4. RaisedInv' /\ UnitInv'
    BY <1>1, <1>2 DEF StoppedInv, TypeOK, RaisedInv, UnitInv, LibvirtRestored
<1>5. DiskInv' /\ FirstDetachIsOver' /\ DownInv'
    BY <1>1, <1>2 DEF StoppedInv, TypeOK, RaisedInv, DiskInv, FirstDetachIsOver, DownInv
<1> QED BY <1>3, <1>4, <1>5 DEF StoppedInv

LEMMA StoppedInvDetach ==
    ASSUME StoppedInv, DetachVolume
    PROVE  StoppedInv'
<1> USE DEF StopLabels, BodyLabels, StartLabels, AfterLabels
<1>1. /\ pc \in {"detach", "detach_again"} /\ attached' = attached
      /\ activated' = activated /\ commands' = commands /\ active' = active /\ masked' = masked
    BY DEF DetachVolume, host
<1>2. /\ \/ volume = "in-use" /\ volume' = "detaching" /\ request' = TRUE
         \/ volume' = volume /\ request' = request
      /\ \/ /\ pc' = (IF pc = "detach" THEN "wait_in_use" ELSE "wait_available")
            /\ raised' = raised
         \/ pc = "detach" /\ pc' = StartLabel /\ raised' = "body"
         \/ pc = "detach_again" /\ pc' = "end" /\ raised' = "after"
    BY <1>1, RaiseLeads DEF DetachVolume, Goto, Labels
<1>3. TypeOK'
  <2>1. (volume \in {"in-use", "detaching", "available"})' /\ (request <=> volume = "detaching")'
    BY <1>1, <1>2 DEF StoppedInv, TypeOK
  <2>2. /\ (request \in BOOLEAN)' /\ (attached \in BOOLEAN)' /\ (active \in BOOLEAN)'
    BY <1>1, <1>2, Zenon DEF StoppedInv, TypeOK
  <2>3. (pc \in Labels)' /\ (raised \in {"no", "stop", "body", "start", "after"})'
    BY <1>1, <1>2 DEF StoppedInv, TypeOK, Labels, StartLabel
  <2> QED BY <1>1, <2>1, <2>2, <2>3 DEF StoppedInv, TypeOK, Labels
<1>4. RaisedInv' /\ UnitInv'
    BY <1>1, <1>2 DEF StartLabel, StoppedInv, TypeOK, RaisedInv, UnitInv, LibvirtRestored
<1>5. DiskInv' /\ FirstDetachIsOver' /\ DownInv'
    BY <1>1, <1>2 DEF StartLabel, StoppedInv, TypeOK, RaisedInv, DiskInv, FirstDetachIsOver, DownInv
<1> QED BY <1>3, <1>4, <1>5 DEF StoppedInv

LEMMA StoppedInvWait ==
    ASSUME StoppedInv, WaitForVolume
    PROVE  StoppedInv'
<1> USE DEF StopLabels, BodyLabels, StartLabels, AfterLabels
<1>1. /\ pc \in {"wait_in_use", "wait_available"}
      /\ volume' = volume /\ attached' = attached /\ request' = request
      /\ activated' = activated /\ commands' = commands /\ active' = active /\ masked' = masked
    BY DEF WaitForVolume, host, volumeVars
<1>2. \/ pc = "wait_in_use" /\ volume = "in-use" /\ pc' = "list_disks" /\ raised' = raised
      \/ pc = "wait_available" /\ pc' = "list_disks_again" /\ raised' = raised
      \/ pc = "wait_in_use" /\ pc' = StartLabel /\ raised' = "body"
      \/ pc = "wait_available" /\ pc' = "end" /\ raised' = "after"
    BY <1>1, RaiseLeads DEF WaitForVolume, Goto, Labels
<1>3. TypeOK'
    BY <1>1, <1>2 DEF StartLabel, StoppedInv, TypeOK
<1>4. RaisedInv' /\ UnitInv'
    BY <1>1, <1>2 DEF StartLabel, StoppedInv, TypeOK, RaisedInv, UnitInv, LibvirtRestored
<1>5. DiskInv' /\ FirstDetachIsOver' /\ DownInv'
    BY <1>1, <1>2 DEF StartLabel, StoppedInv, TypeOK, RaisedInv, DiskInv, FirstDetachIsOver, DownInv
<1> QED BY <1>3, <1>4, <1>5 DEF StoppedInv

LEMMA StoppedInvList ==
    ASSUME StoppedInv, ListDisks
    PROVE  StoppedInv'
<1> USE DEF StopLabels, BodyLabels, StartLabels, AfterLabels
<1>1. /\ pc \in {"list_disks", "list_disks_again"}
      /\ volume' = volume /\ attached' = attached /\ request' = request
      /\ activated' = activated /\ commands' = commands /\ active' = active /\ masked' = masked
    BY DEF ListDisks, host, volumeVars
<1>2. \/ pc = "list_disks" /\ pc' = StartLabel /\ raised' \in {raised, "body"}
      \/ pc = "list_disks_again" /\ pc' = "end" /\ raised' \in {raised, "after"}
    BY <1>1, RaiseLeads DEF ListDisks, Goto, Labels
<1>3. TypeOK'
    BY <1>1, <1>2 DEF StartLabel, StoppedInv, TypeOK
<1>4. RaisedInv' /\ UnitInv'
    BY <1>1, <1>2 DEF StartLabel, StoppedInv, TypeOK, RaisedInv, UnitInv, LibvirtRestored
<1>5. DiskInv' /\ FirstDetachIsOver' /\ DownInv'
    BY <1>1, <1>2 DEF StartLabel, StoppedInv, TypeOK, RaisedInv, DiskInv, FirstDetachIsOver, DownInv
<1> QED BY <1>3, <1>4, <1>5 DEF StoppedInv

LEMMA StoppedInvEnvironment ==
    ASSUME StoppedInv, Environment
    PROVE  StoppedInv'
<1> USE DEF StopLabels, BodyLabels, StartLabels, AfterLabels
<1>1. /\ activated' = activated /\ commands' = commands /\ masked' = masked
      /\ pc' = pc /\ raised' = raised
    BY DEF Environment, Connect, DetachDone, DetachFails, host
<1>2. \/ /\ active \/ activated
         /\ active' = TRUE
         /\ volume' = volume /\ attached' = attached /\ request' = request
      \/ /\ request /\ (active \/ activated)
         /\ active' = TRUE /\ volume' = "available" /\ attached' = FALSE /\ request' = FALSE
      \/ /\ request /\ attached' = attached /\ volume' = "in-use" /\ request' = FALSE
         /\ active' \in BOOLEAN /\ (active => active') /\ (active' => active \/ activated)
    BY DEF Environment, Connect, DetachDone, DetachFails, Reachable, host, volumeVars, StoppedInv, TypeOK
<1>3. TypeOK'
  <2>1. (volume \in {"in-use", "detaching", "available"})' /\ (request <=> volume = "detaching")'
    BY <1>1, <1>2 DEF StoppedInv, TypeOK
  <2>2. /\ (request \in BOOLEAN)' /\ (attached \in BOOLEAN)' /\ (active \in BOOLEAN)'
    BY <1>1, <1>2, Zenon DEF StoppedInv, TypeOK
  <2>3. (pc \in Labels)' /\ (raised \in {"no", "stop", "body", "start", "after"})'
    BY <1>1, <1>2 DEF StoppedInv, TypeOK, Labels, StartLabel
  <2> QED BY <1>1, <2>1, <2>2, <2>3 DEF StoppedInv, TypeOK, Labels
<1>4. RaisedInv' /\ UnitInv'
    BY <1>1, <1>2 DEF StoppedInv, TypeOK, RaisedInv, UnitInv, LibvirtRestored
<1>5. DiskInv' /\ FirstDetachIsOver' /\ DownInv'
    BY <1>1, <1>2 DEF StoppedInv, TypeOK, RaisedInv, DiskInv, FirstDetachIsOver, DownInv
<1> QED BY <1>3, <1>4, <1>5 DEF StoppedInv

LEMMA StoppedInvAlways == Spec => []StoppedInv
<1>1. StoppedInv /\ [Next]_vars => StoppedInv'
  <2> SUFFICES ASSUME StoppedInv, [Next]_vars PROVE StoppedInv'
    OBVIOUS
  <2>1. CASE Plugin
    BY <2>1, StoppedInvStop, StoppedInvMask, StoppedInvUnmask, StoppedInvStart,
       StoppedInvDetach, StoppedInvWait, StoppedInvList DEF Plugin
  <2>2. CASE Environment
    BY <2>2, StoppedInvEnvironment
  <2>3. CASE UNCHANGED vars
    BY <2>3 DEF vars, host, volumeVars, StoppedInv, TypeOK, RaisedInv, UnitInv, LibvirtRestored,
                DiskInv, FirstDetachIsOver, DownInv
  <2> QED BY <2>1, <2>2, <2>3 DEF Next
<1> QED BY <1>1, StoppedInvInit, PTL DEF Spec

-----------------------------------------------------------------------------
(* The theorems.                                                           *)

(* The status of the volume and the request that nova-compute has stay in  *)
(* step, whoever moves.                                                    *)
THEOREM TypeCorrect == Spec => []TypeOK
<1>1. StoppedInv => TypeOK
    BY DEF StoppedInv
<1> QED BY <1>1, StoppedInvAlways, PTL

(* test_detach_failure starts its second detach only after the first one   *)
(* is over.                                                                *)
THEOREM DetachesOneByOne == Spec => []FirstDetachIsOver
<1>1. StoppedInv => FirstDetachIsOver
    BY DEF StoppedInv
<1> QED BY <1>1, StoppedInvAlways, PTL

(* stopped() leaves libvirt up and unmasked, unless its own stop() or      *)
(* start() raises.                                                         *)
THEOREM ComesBack == Spec => []LibvirtRestored
<1>1. StoppedInv => LibvirtRestored
    BY DEF StoppedInv, UnitInv
<1> QED BY <1>1, StoppedInvAlways, PTL

(* Without socket activation the body of stopped() has libvirt down.       *)
THEOREM DownInBody == Spec => []StoppedInBody
<1>1. StoppedInv => StoppedInBody
    BY DEF StoppedInv, DownInv, StoppedInBody
<1> QED BY <1>1, StoppedInvAlways, PTL
=============================================================================
