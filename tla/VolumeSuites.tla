---------------------------- MODULE VolumeSuites ----------------------------
(* The test suites about volumes, of which one runs in a behaviour (tests   *)
(* run one after another): test_detach_failure, modelled by StoppedLibvirt, *)
(* or one of the tests of Volumes.                                          *)
EXTENDS StoppedLibvirt, Naturals

CONSTANTS Disks, Storage, MaxFailed

VARIABLES
    suite,      \* the suite that runs
    test, conf, calls, cleanups, class, status, verdict, blamed, refused

V == INSTANCE Volumes

testVars == <<test, conf, calls, cleanups, class, status, verdict, blamed,
              refused>>

suiteVars == <<suite, vars, testVars>>

SuiteInit ==
    \/ /\ suite = "detach_failure"
       /\ Init
       /\ conf = [limit |-> V!NoLimit, storage |-> CHOOSE s \in Storage : TRUE]
       /\ test = "test_boot_server_from_iso_image"
       /\ V!Init
    \/ /\ suite = "volumes"
       /\ activated = FALSE /\ commands = {}
       /\ Init
       /\ V!Init

SuiteNext ==
    \/ suite = "detach_failure" /\ UNCHANGED <<suite, testVars>> /\ Next
    \/ suite = "volumes" /\ UNCHANGED <<suite, vars>> /\ V!Next

SuiteSpec ==
    SuiteInit /\ [][SuiteNext]_suiteVars
        /\ WF_suiteVars(suite = "volumes" /\ V!Plugin /\ UNCHANGED <<suite, vars>>)

-----------------------------------------------------------------------------
(* The properties of Volumes, by their names here.                          *)

\* The variables have their types, and a deletion is registered only for what
\* exists (create_volume and its siblings in api/compute/base.py).
SuiteTypeOK == TypeOK /\ V!TypeOK

\* Whatever raised, nothing is left but what could itself not be created or
\* deleted, or hangs on such a thing (addCleanup and
\* addClassResourceCleanup in api/compute/base.py).
CleanedUp == V!CleanedUp

\* No deletion is refused for an order of cleanups that is wrong
\* (cleanup_volume_type and the wait for a detached volume in
\* api/compute/base.py).
RefusedOnlyAfterFailure == V!RefusedOnlyAfterFailure

\* No test fails by itself on a deployment that has what it needs
\* (test_virtio_scsi_attach.py, test_volume_encryption.py, test_iso_image.py).
VolumesNoFalseAlarm == V!NoFalseAlarm

\* Every registered deletion is tried in the end, however long Cinder takes
\* (the waits of api/compute/base.py end).
DeletionsTried == suite = "volumes" => V!Termination
=============================================================================
