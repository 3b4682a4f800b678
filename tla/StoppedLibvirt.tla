--------------------------- MODULE StoppedLibvirt ---------------------------
(***************************************************************************)
(* test_detach_failure (api/compute/test_volume_negative.py): a volume is  *)
(* detached while ServiceManager(host, 'libvirt').stopped() holds, which   *)
(* must fail, and once more afterwards.                                    *)
(*                                                                         *)
(* ServiceManager waits for nothing.  It masks the unit after stopping it, *)
(* because a libvirt that is socket activated comes back as soon as        *)
(* nova-compute connects to it; nova-compute does so at any time.  Which   *)
(* commands the host's section of nodes_yaml has is part of the state.     *)
(***************************************************************************)

VARIABLES
    activated,  \* the host's libvirt is socket activated
    commands,   \* which of {"mask_command", "unmask_command"} are configured
    active,     \* the service runs
    masked,     \* its unit is masked
    volume,     \* the status of the volume
    attached,   \* the guest has the disk
    request,    \* nova-compute has a detach to do
    pc,
    raised      \* which part raised an exception, "no" if none has

host == <<activated, commands>>

volumeVars == <<volume, attached, request>>

vars == <<host, active, masked, volumeVars, pc, raised>>

StopLabels == {"stop", "mask"}
BodyLabels == {"detach", "wait_in_use", "list_disks"}
StartLabels == {"unmask", "start"}
AfterLabels == {"detach_again", "wait_available", "list_disks_again"}

TypeOK ==
    /\ activated \in BOOLEAN
    /\ commands \subseteq {"mask_command", "unmask_command"}
    /\ active \in BOOLEAN
    /\ masked \in BOOLEAN
    /\ volume \in {"in-use", "detaching", "available"}
    /\ attached \in BOOLEAN
    /\ request \in BOOLEAN
    /\ request <=> volume = "detaching"
    /\ pc \in StopLabels \cup BodyLabels \cup StartLabels \cup AfterLabels \cup {"end"}
    /\ raised \in {"no", "stop", "body", "start", "after"}

\* The volume is attached and the server's host known.
Init ==
    /\ activated \in BOOLEAN
    /\ commands \in SUBSET {"mask_command", "unmask_command"}
    /\ active = TRUE
    /\ masked = FALSE
    /\ volume = "in-use"
    /\ attached = TRUE
    /\ request = FALSE
    /\ pc = "stop"
    /\ raised = "no"

-----------------------------------------------------------------------------
(* stopped(): stop(), the body, and start() whatever the body does.        *)

Part ==
    CASE pc \in StopLabels -> "stop"
      [] pc \in BodyLabels -> "body"
      [] pc \in StartLabels -> "start"
      [] pc \in AfterLabels -> "after"

\* `if self.unmask_command` guards mask and unmask alike.
StartLabel == IF "unmask_command" \in commands THEN "unmask" ELSE "start"

Goto(label) == pc' = label /\ UNCHANGED raised

\* Mutant: an exception of the body leaves the with at once.
RaiseNoFinally == pc' = "end" /\ raised' = Part

Raise ==
    /\ pc' = IF Part = "body" THEN StartLabel ELSE "end"
    /\ raised' = Part

\* A command has its effect and the program goes on or raises; or it raises only.
Executed(Effect, label) ==
    \/ Effect /\ (Goto(label) \/ Raise)
    \/ UNCHANGED <<active, masked>> /\ Raise

StopCommand ==
    /\ pc = "stop"
    /\ Executed(active' = FALSE /\ UNCHANGED masked,
                IF "unmask_command" \in commands THEN "mask" ELSE "detach")
    /\ UNCHANGED <<host, volumeVars>>

\* A mask_command that is not configured is executed as "None", and fails.
MaskCommand ==
    /\ pc = "mask"
    /\ Executed("mask_command" \in commands /\ masked' = TRUE /\ UNCHANGED active, "detach")
    /\ UNCHANGED <<host, volumeVars>>

UnmaskCommand ==
    /\ pc = "unmask"
    /\ Executed(masked' = FALSE /\ UNCHANGED active, "start")
    /\ UNCHANGED <<host, volumeVars>>

\* systemctl refuses to start a masked unit.  An exception of the body
\* propagates once start() has returned.
StartCommand ==
    /\ pc = "start"
    /\ Executed(~masked /\ active' = TRUE /\ UNCHANGED masked,
                IF raised = "no" THEN "detach_again" ELSE "end")
    /\ UNCHANGED <<host, volumeVars>>

-----------------------------------------------------------------------------
(* The body and what follows the with.                                     *)

\* The API marks the volume before it returns, and leaves the rest to nova-compute.
DetachVolume ==
    /\ pc \in {"detach", "detach_again"}
    /\ \/ /\ volume = "in-use"
          /\ volume' = "detaching" /\ request' = TRUE
          /\ Goto(IF pc = "detach" THEN "wait_in_use" ELSE "wait_available") \/ Raise
       \/ UNCHANGED <<volume, request>> /\ Raise
    /\ UNCHANGED <<host, active, masked, attached>>

\* Mutant: what the status is does not matter.
WaitForVolumeUnchecked ==
    /\ pc \in {"wait_in_use", "wait_available"}
    /\ \/ Goto(IF pc = "wait_in_use" THEN "list_disks" ELSE "list_disks_again")
       \/ Raise
    /\ UNCHANGED <<host, active, masked, volumeVars>>

\* wait_for_volume_resource_status: until it is so, or the time is over.
WaitForVolume ==
    /\ pc \in {"wait_in_use", "wait_available"}
    /\ \/ pc = "wait_in_use" /\ volume = "in-use" /\ Goto("list_disks")
       \/ pc = "wait_available" /\ volume = "available" /\ Goto("list_disks_again")
       \/ Raise
    /\ UNCHANGED <<host, active, masked, volumeVars>>

\* The disks in the guest are counted, and the number compared.
ListDisks ==
    /\ pc \in {"list_disks", "list_disks_again"}
    /\ \/ pc = "list_disks" /\ attached /\ Goto(StartLabel)
       \/ pc = "list_disks_again" /\ ~attached /\ Goto("end")
       \/ Raise
    /\ UNCHANGED <<host, active, masked, volumeVars>>

-----------------------------------------------------------------------------
(* nova-compute, which connects to libvirt as it likes.                    *)

Reachable == active \/ (activated /\ ~masked)

Connect ==
    /\ Reachable
    /\ active' = TRUE
    /\ UNCHANGED <<host, masked, volumeVars, pc, raised>>

DetachDone ==
    /\ request /\ Reachable
    /\ active' = TRUE
    /\ volume' = "available" /\ attached' = FALSE /\ request' = FALSE
    /\ UNCHANGED <<host, masked, pc, raised>>

\* libvirt does not answer, or it answers with an error.
DetachFails ==
    /\ request
    /\ active' = Reachable
    /\ volume' = "in-use" /\ request' = FALSE
    /\ UNCHANGED <<host, masked, attached, pc, raised>>

Environment == Connect \/ DetachDone \/ DetachFails

Plugin ==
    \/ StopCommand
    \/ MaskCommand
    \/ DetachVolume
    \/ WaitForVolume
    \/ ListDisks
    \/ UnmaskCommand
    \/ StartCommand

Next == Plugin \/ Environment

Spec == Init /\ [][Next]_vars

-----------------------------------------------------------------------------
(* Properties.                                                             *)

(* When the body is through, its detach has failed and is over, so that it *)
(* cannot come back to life with libvirt and collide with the second one:  *)
(* the wait for 'in-use' cannot be satisfied by the status before it.      *)
FirstDetachIsOver ==
    raised = "no" /\ pc \in {"list_disks", "detach_again"} \cup StartLabels =>
        volume = "in-use" /\ attached /\ ~request

(* Outside stop() and start(), and when neither has raised, libvirt is up  *)
(* and its unit unmasked, whatever happened to the body.                   *)
LibvirtRestored ==
    pc \in AfterLabels \cup {"end"} /\ raised \notin {"stop", "start"} =>
        active /\ ~masked

(* Where libvirt is not socket activated, the body has it stopped.         *)
StoppedInBody ==
    pc \in BodyLabels /\ ~activated => ~active /\ attached

(* "the underlying call to the virt driver will fail as the libvirt        *)
(* service is stopped" (test_volume_negative.py:77), given the commands    *)
(* that keep it stopped.                                                   *)
DetachFailsInBody ==
    pc \in BodyLabels /\ commands = {"mask_command", "unmask_command"} => attached

-----------------------------------------------------------------------------
(* The inductive invariant behind the first three: what is known at each   *)
(* label of the part that raised, of the unit and of the volume.           *)

RaisedInv ==
    /\ pc \in StopLabels \cup BodyLabels \cup AfterLabels => raised = "no"
    /\ pc \in StartLabels => raised \in {"no", "body"}

UnitInv ==
    /\ pc \in StopLabels => ~masked
    /\ pc = "start" => ~masked
    /\ pc = "mask" => "unmask_command" \in commands
    /\ masked => "unmask_command" \in commands
    /\ LibvirtRestored

DiskInv ==
    /\ request <=> volume = "detaching"
    /\ attached <=> volume # "available"
    /\ pc \in StopLabels => volume = "in-use"

DownInv == pc \in {"mask"} \cup BodyLabels /\ ~activated => ~active /\ attached

StoppedInv == TypeOK /\ RaisedInv /\ UnitInv /\ DiskInv /\ FirstDetachIsOver /\ DownInv
=============================================================================
