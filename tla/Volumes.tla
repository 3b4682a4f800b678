------------------------------ MODULE Volumes ------------------------------
(***************************************************************************)
(* What the helpers of api/compute/base.py create, and who deletes it:     *)
(* volumes, a volume type with its encryption type, images, key pairs,     *)
(* flavors and servers, as test_volume_encryption, test_virtio_scsi_attach *)
(* and test_iso_image use them.                                            *)
(*                                                                         *)
(* A test is a sequence of calls.  A call that creates something registers *)
(* its deletion afterwards, with the test or with the class; deletions run *)
(* the last one first, those of the test before those of the class, and an *)
(* exception ends one of them but not the others.  Cinder detaches and     *)
(* deletes volumes, and Nova deletes servers, some time after the request. *)
(* Every call may raise, with or without its effect.                       *)
(***************************************************************************)
EXTENDS Integers, FiniteSets, SequencesExt

CONSTANTS
    Disks,      \* VirtioSCSIDiskMultiAttachment.disks_to_create
    Storage,    \* possible values of CONF.whitebox.available_cinder_storage
    MaxFailed   \* bound on the calls that fail by themselves

VARIABLES
    test,       \* the test that runs
    conf,       \* [limit, storage]; limit: CONF.whitebox.max_disk_devices_to_attach
    calls,      \* the remaining calls of what runs, be it the test or a deletion
    cleanups,   \* deletions registered with addCleanup, the first one first
    class,      \* and with addClassResourceCleanup
    status,     \* status[x]: of a thing that was created, or "none"
    verdict,    \* of the test method: "running", "passed", "failed" or "skipped"
    blamed,     \* history: <<op, x>>, the calls that failed by themselves
    refused     \* history: what a deletion was refused for, being in use

vars == <<test, conf, calls, cleanups, class, status, verdict, blamed, refused>>

\* Nova's own default, -1, and an option that is not set both mean no limit.
Unset == 0
NoLimit == -1

Limits == {Unset, NoLimit} \cup 1..(Disks + 1)

Thing(kind) == <<kind, 0>>
Volume(n) == <<"volume", n>>
Server == Thing("server")
Type == Thing("type")
Encryption == Thing("encryption")

Volumes == {Volume(n) : n \in 1..(Disks + 1)}

Things == Volumes \cup {Thing(k) : k \in {"server", "type", "encryption", "image",
                                          "keypair", "flavor"}}

Existing == {x \in Things : status[x] # "none"}

Attached == {v \in Volumes : status[v] \in {"attaching", "in-use", "detaching"}}

\* The volume that create_encrypted_volume makes of its new type.
OfType == IF test = "test_qemu_volume_encryption" THEN {Volume(2)} ELSE {}

Call(op, x) == [op |-> op, of |-> x]

-----------------------------------------------------------------------------
(* The tests.                                                              *)

create_volume(n) == <<Call("create", Volume(n)), Call("available", Volume(n))>>

attach_volume(n) == <<Call("attach", Volume(n)), Call("in-use", Volume(n))>>

\* show_image and show_image_file, create_image, store_image_file.
copy_default_image ==
    <<Call("read", Thing("image")), Call("create", Thing("image")), Call("store", Thing("image"))>>

create_encrypted_volume(n) ==
    <<Call("create", Type), Call("create", Encryption)>> \o create_volume(n)

test_qemu_volume_encryption ==
    <<Call("create", Server)>> \o create_volume(1) \o create_encrypted_volume(2)
    \o attach_volume(1) \o attach_volume(2) \o <<Call("check", Server)>>

\* VirtioSCSIBase.setUp.
SetUp == <<Call("create", Thing("flavor"))>> \o copy_default_image

\* The loop that creates, registers and attaches n volumes.
AttachMany(n) ==
    FlattenSeq([i \in 1..n |-> create_volume(i) \o <<Call("register", Volume(i))>>
                               \o attach_volume(i)])

Extra(n) ==
    create_volume(n) \o <<Call("register", Volume(n)), Call("forbidden", Volume(n))>>

test_attach_multiple_scsi_disks ==
    SetUp \o <<Call("create", Server)>> \o AttachMany(Disks - 1) \o <<Call("count", Server)>>

\* range(limit - 1) is empty for a limit below 2.
Rounds == IF conf.limit > 1 THEN conf.limit - 1 ELSE 0

test_max_iscsi_disks_attachment_enforced ==
    SetUp \o <<Call("create", Server)>> \o AttachMany(Rounds)
    \o <<Call("count", Server)>> \o Extra(Rounds + 1)

test_boot_with_multiple_disks ==
    SetUp \o <<Call("boot", Server), Call("count", Server)>>

test_boot_server_from_iso_image ==
    <<Call("create", Thing("image")), Call("store", Thing("image")),
      Call("create", Thing("keypair")), Call("create", Server), Call("check", Server),
      Call("reboot", Server), Call("check", Server)>>

Script ==
    [test_qemu_volume_encryption |-> test_qemu_volume_encryption,
     test_attach_multiple_scsi_disks |-> test_attach_multiple_scsi_disks,
     test_max_iscsi_disks_attachment_enforced |-> test_max_iscsi_disks_attachment_enforced,
     test_boot_with_multiple_disks |-> test_boot_with_multiple_disks,
     test_boot_server_from_iso_image |-> test_boot_server_from_iso_image]

Tests == DOMAIN Script

\* flavor_volume_size is 1 GB, and so is every volume.
TooSmall(disks) == conf.storage < 1 + disks

\* Mutant: nothing asks for the limit of the deployment.
MultiAttachmentSkipIgnoresLimit == TooSmall(Disks)

\* VirtioSCSIDiskMultiAttachment.skip_checks
MultiAttachmentSkip == (conf.limit # Unset /\ conf.limit < Disks) \/ TooSmall(Disks)

\* VirtioSCSIDiskRestrictAttachments.skip_checks
RestrictAttachmentsSkip == conf.limit = Unset \/ TooSmall(conf.limit)

Skipped ==
    CASE test \in {"test_attach_multiple_scsi_disks", "test_boot_with_multiple_disks"} ->
            MultiAttachmentSkip
      [] test = "test_max_iscsi_disks_attachment_enforced" -> RestrictAttachmentsSkip
      [] OTHER -> FALSE

Init ==
    /\ conf \in [limit : Limits, storage : Storage]
    /\ test \in Tests
    /\ status = [x \in Things |-> "none"]
    /\ verdict = IF Skipped THEN "skipped" ELSE "running"
    /\ calls = IF Skipped THEN <<>> ELSE Script[test]
    /\ cleanups = <<>> /\ class = <<>>
    /\ blamed = {} /\ refused = {}

Statuses == {"none", "creating", "available", "attaching", "in-use", "detaching", "deleting"}

TypeOK ==
    /\ test \in Tests
    /\ \A k \in DOMAIN calls : calls[k].of \in Things
    /\ \A k \in DOMAIN cleanups : \A j \in DOMAIN cleanups[k] : cleanups[k][j].of \in Existing
    /\ status \in [Things -> Statuses]
    /\ verdict \in {"running", "passed", "failed", "skipped"}
    /\ refused \subseteq Things

-----------------------------------------------------------------------------
(* How a call ends.                                                        *)

Doing(op, x) == calls # <<>> /\ Head(calls) = Call(op, x)

Becomes(x, s) == status' = [status EXCEPT ![x] = s]

Returned ==
    /\ calls' = Tail(calls)
    /\ verdict' = IF verdict = "running" /\ Len(calls) = 1 THEN "passed" ELSE verdict

Raised ==
    /\ calls' = <<>>
    /\ verdict' = IF verdict = "running" THEN "failed" ELSE verdict

\* The call fails by itself; a deletion that was to be registered is not.
Fails(op, x) ==
    /\ Cardinality(blamed) < MaxFailed
    /\ blamed' = blamed \cup {<<op, x>>}
    /\ Raised
    /\ UNCHANGED <<cleanups, class, refused>>

\* A wait gives up: on a change that is late, which is to blame, or on a state
\* that will not change any more.
TimesOut(op, x) ==
    /\ blamed' = IF status[x] \in {"available", "in-use"} THEN blamed
                 ELSE blamed \cup {<<op, x>>}
    /\ Raised
    /\ UNCHANGED <<status, cleanups, class, refused>>

Quietly == UNCHANGED <<cleanups, class, blamed, refused>>

-----------------------------------------------------------------------------
(* Creation.                                                               *)

\* Mutant: the type is deleted like everything else.
RegisteredPlain(x) ==
    LET delete == <<Call("delete", x), Call("gone", x)>>
        forClass == <<<<Call("gone", x)>>, <<Call("delete", x)>>>>
    IN  CASE x = Server -> cleanups' = Append(cleanups, delete) /\ class' = class \o forClass
          [] x \in Volumes \cup {Thing("flavor")} ->
                class' = class \o forClass /\ UNCHANGED cleanups
          [] x \in {Type, Thing("image"), Thing("keypair")} ->
                cleanups' = Append(cleanups, <<Call("delete", x)>>) /\ UNCHANGED class
          [] x = Encryption -> UNCHANGED <<cleanups, class>>

\* What a call registers once it has created x.
Registered(x) ==
    LET delete == <<Call("delete", x), Call("gone", x)>>
        forClass == <<<<Call("gone", x)>>, <<Call("delete", x)>>>>
    IN  CASE x = Server -> cleanups' = Append(cleanups, delete) /\ class' = class \o forClass
          [] x \in Volumes \cup {Thing("flavor")} ->
                class' = class \o forClass /\ UNCHANGED cleanups
          [] x = Type -> cleanups' = Append(cleanups, <<Call("list", x)>>) /\ UNCHANGED class
          [] x \in {Thing("image"), Thing("keypair")} ->
                cleanups' = Append(cleanups, <<Call("delete", x)>>) /\ UNCHANGED class
          [] x = Encryption -> UNCHANGED <<cleanups, class>>

Full == Cardinality(Existing \cap Volumes) >= conf.storage

\* Mutant: the deletion is registered before the call.
CreateRegisterFirst(x) ==
    /\ Doing("create", x)
    /\ Registered(x)
    /\ \/ Becomes(x, IF x \in Volumes THEN "creating" ELSE "available") /\ Returned
       \/ Raised /\ UNCHANGED status
    /\ UNCHANGED <<test, conf, blamed, refused>>

Create(x) ==
    /\ Doing("create", x)
    /\ \/ /\ ~(x \in Volumes /\ Full)
          /\ Becomes(x, IF x \in Volumes THEN "creating" ELSE "available")
          /\ \/ Registered(x) /\ Returned /\ UNCHANGED <<blamed, refused>>
             \/ Fails("create", x)
       \/ Fails("create", x) /\ UNCHANGED status
       \/ x \in Volumes /\ Full /\ Raised /\ Quietly /\ UNCHANGED status
    /\ UNCHANGED <<test, conf>>

\* A server with block devices that Nova makes, and deletes with the server.
Boot ==
    /\ Doing("boot", Server)
    /\ \/ /\ Disks <= conf.storage
          /\ status' = [x \in Things |-> IF x = Server THEN "available"
                                         ELSE IF x \in {Volume(n) : n \in 1..Disks} THEN "in-use"
                                         ELSE status[x]]
          /\ \/ Registered(Server) /\ Returned /\ UNCHANGED <<blamed, refused>>
             \/ Fails("boot", Server)
       \/ Fails("boot", Server) /\ UNCHANGED status
       \/ Disks > conf.storage /\ Raised /\ Quietly /\ UNCHANGED status
    /\ UNCHANGED <<test, conf>>

\* self.addCleanup(self.delete_volume, volume['id']) in a test.
Register(v) ==
    /\ Doing("register", v)
    /\ cleanups' = Append(cleanups, <<Call("delete", v), Call("gone", v)>>)
    /\ Returned
    /\ UNCHANGED <<test, conf, class, status, blamed, refused>>

\* Nova counts the root disk.
Allowed == conf.limit \in {Unset, NoLimit} \/ Cardinality(Attached) + 2 <= conf.limit

\* attach_volume registers the detaching, and the wait for it to be over.
Detaching(v) == cleanups' = cleanups \o <<<<Call("detached", v)>>, <<Call("detach", v)>>>>

Attach(v) ==
    /\ Doing("attach", v)
    /\ \/ /\ Allowed
          /\ Becomes(v, "attaching")
          /\ \/ Detaching(v) /\ Returned /\ UNCHANGED <<class, blamed, refused>>
             \/ Fails("attach", v)
       \/ Fails("attach", v) /\ UNCHANGED status
       \/ ~Allowed /\ Raised /\ Quietly /\ UNCHANGED status
    /\ UNCHANGED <<test, conf>>

\* assertRaises(Forbidden, self.attach_volume, server, volume)
Forbidden(v) ==
    /\ Doing("forbidden", v)
    /\ \/ ~Allowed /\ Returned /\ Quietly /\ UNCHANGED status
       \/ /\ Allowed /\ Becomes(v, "attaching") /\ Detaching(v)
          /\ Raised /\ UNCHANGED <<class, blamed, refused>>
       \/ Fails("forbidden", v) /\ UNCHANGED status
    /\ UNCHANGED <<test, conf>>

\* Calls that only look, or whose effect nothing depends on.
Look(op, x) ==
    /\ op \in {"read", "store", "check", "reboot"}
    /\ Doing(op, x)
    /\ (Returned /\ Quietly) \/ Fails(op, x)
    /\ UNCHANGED <<test, conf, status>>

\* The disks of the domain, by number and by serial.
Count ==
    LET attached == Cardinality({v \in Volumes : status[v] = "in-use"})
        expected == IF test = "test_max_iscsi_disks_attachment_enforced" THEN conf.limit
                    ELSE Disks
        root == IF test = "test_boot_with_multiple_disks" THEN 0 ELSE 1
    IN  /\ Doing("count", Server)
        /\ \/ attached + root = expected /\ Returned /\ Quietly
           \/ attached + root # expected /\ Raised /\ Quietly
           \/ Fails("count", Server)
        /\ UNCHANGED <<test, conf, status>>

-----------------------------------------------------------------------------
(* Waits.                                                                  *)

Awaited(op) ==
    CASE op \in {"available", "detached"} -> "available"
      [] op = "in-use" -> "in-use"
      [] op = "gone" -> "none"

\* Mutant: a wait without a timeout.
WaitForever(op, x) ==
    /\ Doing(op, x)
    /\ op \in {"available", "detached", "in-use", "gone"}
    /\ status[x] = Awaited(op) /\ Returned /\ Quietly
    /\ UNCHANGED <<test, conf, status>>

Wait(op, x) ==
    /\ op \in {"available", "detached", "in-use", "gone"}
    /\ Doing(op, x)
    /\ \/ status[x] = Awaited(op) /\ Returned /\ Quietly /\ UNCHANGED status
       \/ status[x] # Awaited(op) /\ TimesOut(op, x)
    /\ UNCHANGED <<test, conf>>

-----------------------------------------------------------------------------
(* Deletion.                                                               *)

InUse(x) ==
    \/ x \in Volumes /\ status[x] \notin {"none", "available"}
    \/ x = Type /\ \E v \in OfType : status[v] # "none"

Deleted(x) ==
    CASE status[x] = "none" -> UNCHANGED status
      [] x \in Volumes \cup {Server} /\ status[x] # "none" -> Becomes(x, "deleting")
      [] x = Type /\ status[x] # "none" ->
            status' = [status EXCEPT ![Type] = "none", ![Encryption] = "none"]
      [] OTHER -> Becomes(x, "none")

Delete(x) ==
    /\ Doing("delete", x)
    /\ \/ ~InUse(x) /\ Deleted(x) /\ ((Returned /\ Quietly) \/ Fails("delete", x))
       \/ Fails("delete", x) /\ UNCHANGED status
       \/ /\ InUse(x) /\ refused' = refused \cup {x} /\ Raised
          /\ UNCHANGED <<status, cleanups, class, blamed>>
    /\ UNCHANGED <<test, conf>>

\* _detach_volume asks for nothing unless the volume is in use.
Detach(v) ==
    /\ Doing("detach", v)
    /\ \/ /\ IF status[v] = "in-use" THEN Becomes(v, "detaching") ELSE UNCHANGED status
          /\ (Returned /\ Quietly) \/ Fails("detach", v)
       \/ Fails("detach", v) /\ UNCHANGED status
    /\ UNCHANGED <<test, conf>>

\* Mutant: the type is deleted as soon as the deletion of its volumes is asked for.
cleanup_volume_type_no_wait ==
    /\ Doing("list", Type)
    /\ calls' = [k \in 1..Cardinality(OfType \cap Existing) |->
                   Call("delete", SetToSeq(OfType \cap Existing)[k])] \o <<Call("delete", Type)>>
    /\ UNCHANGED <<verdict, test, conf, status>> /\ Quietly

\* cleanup_volume_type lists the volumes of the type, deletes each and waits for
\* it, and then deletes the type.
cleanup_volume_type ==
    /\ Doing("list", Type)
    /\ \/ /\ calls' = FlattenSeq([k \in 1..Cardinality(OfType \cap Existing) |->
                LET v == SetToSeq(OfType \cap Existing)[k]
                IN  <<Call("delete", v), Call("gone", v)>>]) \o <<Call("delete", Type)>>
          /\ Quietly /\ UNCHANGED verdict
       \/ Fails("list", Type)
    /\ UNCHANGED <<test, conf, status>>

\* The next deletion, when the test or the deletion before it is over.
NextCleanup ==
    /\ calls = <<>>
    /\ IF cleanups # <<>>
       THEN calls' = Last(cleanups) /\ cleanups' = Front(cleanups) /\ UNCHANGED class
       ELSE /\ class # <<>>
            /\ calls' = Last(class) /\ class' = Front(class) /\ UNCHANGED cleanups
    /\ UNCHANGED <<test, conf, status, verdict, blamed, refused>>

-----------------------------------------------------------------------------
(* Cinder and Nova.                                                        *)

Settled(v) ==
    /\ \/ status[v] = "creating" /\ Becomes(v, "available")
       \/ status[v] = "attaching" /\ Becomes(v, "in-use")
       \/ status[v] = "detaching" /\ Becomes(v, "available")
       \/ status[v] = "deleting" /\ Becomes(v, "none")
    /\ UNCHANGED blamed

\* nova-compute could not detach the volume.
RolledBack(v) ==
    /\ status[v] = "detaching"
    /\ Cardinality(blamed) < MaxFailed
    /\ Becomes(v, "in-use")
    /\ blamed' = blamed \cup {<<"detach", v>>}

\* With the server go its attachments, and the block devices made for it.
ServerGone ==
    /\ status[Server] = "deleting"
    /\ status' = [x \in Things |->
          IF x = Server THEN "none"
          ELSE IF x \notin Attached THEN status[x]
          ELSE IF test = "test_boot_with_multiple_disks" THEN "none" ELSE "available"]
    /\ UNCHANGED blamed

Environment ==
    /\ (\E v \in Volumes : Settled(v) \/ RolledBack(v)) \/ ServerGone
    /\ UNCHANGED <<test, conf, calls, cleanups, class, verdict, refused>>

Plugin ==
    \/ \E x \in Things : \/ Create(x) \/ Delete(x)
                         \/ \E op \in {"read", "store", "check", "reboot"} : Look(op, x)
                         \/ \E op \in {"available", "detached", "in-use", "gone"} : Wait(op, x)
    \/ \E v \in Volumes : Register(v) \/ Attach(v) \/ Forbidden(v) \/ Detach(v)
    \/ Boot
    \/ Count
    \/ cleanup_volume_type
    \/ NextCleanup

Next == Plugin \/ Environment

Spec == Init /\ [][Next]_vars /\ WF_vars(Plugin)

-----------------------------------------------------------------------------
(* Properties.                                                             *)

Done == calls = <<>> /\ cleanups = <<>> /\ class = <<>>

Failed(ops, x) == \E op \in ops : <<op, x>> \in blamed

ServerKept == Failed({"create", "boot", "delete", "gone"}, Server)

\* Why x may be left.
Excused(x) ==
    CASE x = Server -> ServerKept
      [] x \in Volumes ->
            \/ Failed({"create", "available", "delete", "gone"}, x)
            \/ Failed({"attach", "in-use", "forbidden", "detach", "detached"}, x) /\ ServerKept
            \/ test = "test_boot_with_multiple_disks" /\ ServerKept
      [] x \in {Type, Encryption} ->
            \/ Failed({"create", "list", "delete"}, Type)
            \/ \E v \in OfType : Failed({"create", "available", "attach", "in-use", "detach",
                                        "detached", "delete", "gone"}, v)
      [] OTHER -> Failed({"create", "delete"}, x)

(* Whatever raised, in the test or in a deletion, and whatever Cinder was  *)
(* late with, the only things left are those whose own creation or         *)
(* deletion failed, volumes whose attachment went wrong if moreover their  *)
(* server could not be deleted, and the type of a volume that could not be *)
(* deleted in time: create_volume_type and attach_volume register in an    *)
(* order such that a failure elsewhere does no harm.                       *)
CleanedUp == Done => \A x \in Existing : Excused(x)

(* No deletion is asked for that Cinder has to refuse, unless something    *)
(* went wrong with that very volume: it is detached, and the wait for it   *)
(* is over, before delete_volume or cleanup_volume_type comes to it; and a *)
(* volume type is never deleted before its volumes are.                    *)
RefusedOnlyAfterFailure ==
    \A x \in refused : x # Type /\ \E b \in blamed : b[2] = x

\* What the tests need of a deployment beyond their skip checks.
Needs ==
    CASE test = "test_max_iscsi_disks_attachment_enforced" -> conf.limit # NoLimit
      [] test = "test_qemu_volume_encryption" ->
            conf.storage >= 2 /\ (conf.limit \in {Unset, NoLimit} \/ conf.limit >= 3)
      [] OTHER -> TRUE

(* A test fails only if a call failed by itself: the skip checks ask for   *)
(* the storage and the number of disks that the tests then use, for every  *)
(* limit that is a number of disks.  (-1, Nova's own way to say that there *)
(* is none, makes the loops empty, and test_volume_encryption has no such  *)
(* skip checks.)                                                           *)
NoFalseAlarm == verdict = "failed" => blamed # {} \/ ~Needs

(* Every deletion is tried in the end, whatever raises and however long    *)
(* Cinder takes.                                                           *)
Termination == <>Done
=============================================================================
