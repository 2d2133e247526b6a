---------------------------- MODULE PortableReplace ----------------------------
(***************************************************************************)
(* The managed directory of one portable application and its installation  *)
(* record: replacePortableDirectory as OperationService and                *)
(* ManagedUpdateService call it, the removal of the directory by uninstall, *)
(* and the discovery that decides what is still installed.                 *)
(*                                                                         *)
(* main.ts queues all of them, so one runs at a time.  A replacement moves *)
(* the old directory to a backup, the extracted one into its place, and    *)
(* then writes the record; what fails is undone.  An action is one effect  *)
(* on the disk.                                                            *)
(*                                                                         *)
(* A directory stands for the version that it holds whole.  A rename that  *)
(* is tried again until it is given up is one effect; the extraction       *)
(* before and the wording of the answers are left out, and the record of   *)
(* an application that is not portable is another matter.                  *)
(***************************************************************************)
EXTENDS Naturals

CONSTANTS MaxVersion,      \* the last version there is
          PortableFaults   \* bound on failing effects, crashes and deletions

ASSUME PortableReplaceAssumption ==
    MaxVersion \in Nat /\ PortableFaults \in Nat

VARIABLES
    directory,  \* what portable/<id> holds
    backups,    \* what the backup directories that were left hold
    record,     \* the version in installed-apps.v1.json
    snapshots,  \* the records that the local history has seen
    work,       \* the operation that runs
    was,        \* the directory and the record when it began
    reply,      \* what the last one answered
    unfounded,  \* may the record name what the user, an uninstallation
                \* or a restored history has taken from the disk
    portableFaults

portableVars == <<directory, backups, record, snapshots, work, was, reply,
                  unfounded, portableFaults>>
-----------------------------------------------------------------------------
Versions == 1..MaxVersion
Gone == 0                  \* no directory, no record
Damaged == MaxVersion + 1  \* a directory with some of its files

(* backup is what movedExisting has moved away; placed is                  *)
(* placedReplacement; errors tells whether rollbackErrors has any.         *)
Work(step, version, backup, placed, errors) ==
    [step |-> step, version |-> version, backup |-> backup,
     placed |-> placed, errors |-> errors]
NoWork == Work("none", Gone, Gone, FALSE, FALSE)

WorkGoesOn(step) == work' = [work EXCEPT !.step = step]

PortableFault == /\ portableFaults < PortableFaults
                 /\ portableFaults' = portableFaults + 1

(* A removal that stops half-way. *)
Remains(content) == {content, IF content = Gone THEN Gone ELSE Damaged}

Ended(answer) == work' = NoWork /\ reply' = answer

PortableInit ==
    /\ \E v \in Versions \cup {Gone} :
          directory = v /\ record = v /\ snapshots = {v} /\ was = <<v, v>>
    /\ backups = {}
    /\ work = NoWork
    /\ reply = "none"
    /\ unfounded = FALSE
    /\ portableFaults = 0
-----------------------------------------------------------------------------
(* installPortable, when the archive is extracted. *)
BeginReplace(v) ==
    /\ work = NoWork
    /\ work' = Work("looking", v, Gone, FALSE, FALSE)
    /\ was' = <<directory, record>>
    /\ reply' = "none"
    /\ UNCHANGED <<directory, backups, record, snapshots, unfounded,
                   portableFaults>>

(* A directory that cannot be looked at is taken for none. *)
Look ==
    /\ work.step = "looking"
    /\ \/ directory # Gone /\ WorkGoesOn("moving") /\ UNCHANGED portableFaults
       \/ directory = Gone /\ WorkGoesOn("placing") /\ UNCHANGED portableFaults
       \/ directory # Gone /\ WorkGoesOn("placing") /\ PortableFault
    /\ UNCHANGED <<directory, backups, record, snapshots, was, reply, unfounded>>

MoveAway ==
    /\ work.step = "moving"
    /\ work' = [work EXCEPT !.step = "placing", !.backup = directory]
    /\ directory' = Gone
    /\ UNCHANGED <<backups, record, snapshots, was, reply, unfounded,
                   portableFaults>>

MoveAwayFails ==
    /\ work.step = "moving" /\ PortableFault
    /\ WorkGoesOn("reinstating")
    /\ UNCHANGED <<directory, backups, record, snapshots, was, reply, unfounded>>

(* A directory is never renamed over another. *)
Place ==
    /\ work.step = "placing" /\ directory = Gone
    /\ work' = [work EXCEPT !.step = "recording", !.placed = TRUE]
    /\ directory' = work.version
    /\ UNCHANGED <<backups, record, snapshots, was, reply, unfounded,
                   portableFaults>>

PlaceFails ==
    /\ work.step = "placing"
    /\ IF directory = Gone THEN PortableFault ELSE UNCHANGED portableFaults
    /\ WorkGoesOn("reinstating")
    /\ UNCHANGED <<directory, backups, record, snapshots, was, reply, unfounded>>

(* commit: InstalledService.record. *)
Record ==
    /\ work.step = "recording"
    /\ record' = work.version
    /\ unfounded' = FALSE
    /\ IF work.backup = Gone THEN Ended("installed")
                             ELSE WorkGoesOn("clearing") /\ UNCHANGED reply
    /\ UNCHANGED <<directory, backups, snapshots, was, portableFaults>>

RecordFails ==
    /\ work.step = "recording" /\ PortableFault
    /\ WorkGoesOn("undoing")
    /\ UNCHANGED <<directory, backups, record, snapshots, was, reply, unfounded>>

Undo ==
    /\ work.step = "undoing"
    /\ directory' = Gone
    /\ WorkGoesOn("reinstating")
    /\ UNCHANGED <<backups, record, snapshots, was, reply, unfounded,
                   portableFaults>>

(* The removal fails; or the directory cannot be looked at, which leaves   *)
(* it where it is without an error.                                        *)
UndoFails ==
    /\ work.step = "undoing" /\ PortableFault
    /\ \/ /\ directory' \in Remains(directory)
          /\ work' = [work EXCEPT !.step = "reinstating", !.errors = TRUE]
       \/ UNCHANGED directory /\ WorkGoesOn("reinstating")
    /\ UNCHANGED <<backups, record, snapshots, was, reply, unfounded>>

Undone == IF work.errors THEN "incomplete" ELSE "undone"

Reinstate ==
    /\ work.step = "reinstating"
    /\ \/ work.backup = Gone /\ UNCHANGED directory
       \/ work.backup # Gone /\ directory = Gone /\ directory' = work.backup
    /\ Ended(Undone)
    /\ UNCHANGED <<backups, record, snapshots, was, unfounded, portableFaults>>

(* Mutant: the failure of the last step is not counted. *)
ReinstateFailsQuietly ==
    /\ work.step = "reinstating" /\ work.backup # Gone
    /\ IF directory = Gone THEN PortableFault ELSE UNCHANGED portableFaults
    /\ backups' = backups \cup {work.backup}
    /\ Ended(Undone)
    /\ UNCHANGED <<directory, record, snapshots, was, unfounded>>

ReinstateFails ==
    /\ work.step = "reinstating" /\ work.backup # Gone
    /\ IF directory = Gone THEN PortableFault ELSE UNCHANGED portableFaults
    /\ backups' = backups \cup {work.backup}
    /\ Ended("incomplete")
    /\ UNCHANGED <<directory, record, snapshots, was, unfounded>>

(* That a backup stays is a warning beside the success. *)
ClearBackup ==
    /\ work.step = "clearing"
    /\ \/ UNCHANGED <<backups, portableFaults>>
       \/ /\ PortableFault
          /\ \E rest \in Remains(work.backup) : backups' = backups \cup {rest}
    /\ Ended("installed")
    /\ UNCHANGED <<directory, record, snapshots, was, unfounded>>
-----------------------------------------------------------------------------
(* uninstall, of what get still finds: a damaged directory may have lost   *)
(* its executable.                                                         *)
BeginUninstall ==
    /\ work = NoWork
    /\ record # Gone /\ directory # Gone
    /\ work' = Work("deleting", Gone, Gone, FALSE, FALSE)
    /\ was' = <<directory, record>>
    /\ reply' = "none"
    /\ UNCHANGED <<directory, backups, record, snapshots, unfounded,
                   portableFaults>>

Delete ==
    /\ work.step = "deleting"
    /\ directory' = Gone
    /\ unfounded' = TRUE
    /\ WorkGoesOn("forgetting")
    /\ UNCHANGED <<backups, record, snapshots, was, reply, portableFaults>>

DeleteFails ==
    /\ work.step = "deleting" /\ PortableFault
    /\ directory' \in Remains(directory)
    /\ unfounded' = TRUE
    /\ Ended("failed")
    /\ UNCHANGED <<backups, record, snapshots, was>>

Forget ==
    /\ work.step = "forgetting"
    /\ record' = Gone
    /\ unfounded' = FALSE
    /\ Ended("uninstalled")
    /\ UNCHANGED <<directory, backups, snapshots, was, portableFaults>>

ForgetFails ==
    /\ work.step = "forgetting" /\ PortableFault
    /\ Ended("failed")
    /\ UNCHANGED <<directory, backups, record, snapshots, was, unfounded>>
-----------------------------------------------------------------------------
(* InstalledService.discover drops the record of a directory without its   *)
(* executable, and of one that cannot be looked at.                        *)
Discover ==
    /\ work = NoWork /\ record # Gone
    /\ IF directory \in Versions THEN PortableFault ELSE UNCHANGED portableFaults
    /\ record' = Gone
    /\ unfounded' = FALSE
    /\ reply' = "none"
    /\ UNCHANGED <<directory, backups, snapshots, work, was>>

(* Activity is followed by a snapshot; a restored one brings back its      *)
(* record, and leaves the directory alone.                                 *)
Snapshot ==
    /\ work = NoWork
    /\ snapshots' = snapshots \cup {record}
    /\ UNCHANGED <<directory, backups, record, work, was, reply, unfounded,
                   portableFaults>>

RestoreRecord ==
    /\ work = NoWork
    /\ \E old \in snapshots \ {record} : record' = old
    /\ unfounded' = TRUE
    /\ reply' = "none"
    /\ UNCHANGED <<directory, backups, snapshots, work, was, portableFaults>>

UserDeletes ==
    /\ work = NoWork /\ PortableFault
    /\ directory' = Gone
    /\ unfounded' = TRUE
    /\ reply' = "none"
    /\ UNCHANGED <<backups, record, snapshots, work, was>>

(* A removal may be cut short; the next process knows of no backup.        *)
PortableCrash ==
    /\ PortableFault
    /\ directory' \in IF work.step \in {"undoing", "deleting"}
                         THEN Remains(directory) ELSE {directory}
    /\ \E rest \in IF work.step = "clearing" THEN Remains(work.backup)
                                             ELSE {work.backup} :
          backups' = backups \cup ({rest} \ {Gone})
    /\ unfounded' = (unfounded \/ work.step = "deleting")
    /\ Ended("none")
    /\ UNCHANGED <<record, snapshots, was>>

PortableNext ==
    \/ \E v \in Versions : BeginReplace(v)
    \/ Look \/ MoveAway \/ MoveAwayFails \/ Place \/ PlaceFails
    \/ Record \/ RecordFails \/ Undo \/ UndoFails
    \/ Reinstate \/ ReinstateFails \/ ClearBackup
    \/ BeginUninstall \/ Delete \/ DeleteFails \/ Forget \/ ForgetFails
    \/ Discover \/ Snapshot \/ RestoreRecord \/ UserDeletes \/ PortableCrash

PortableSpec == PortableInit /\ [][PortableNext]_portableVars
-----------------------------------------------------------------------------
Contents == Versions \cup {Gone, Damaged}

PortableTypeOK ==
    /\ directory \in Contents
    /\ backups \subseteq Contents
    /\ record \in Versions \cup {Gone}
    /\ snapshots \subseteq Versions \cup {Gone}
    /\ work \in [step: {"none", "looking", "moving", "placing", "recording",
                        "undoing", "reinstating", "clearing", "deleting",
                        "forgetting"},
                 version: Versions \cup {Gone}, backup: Contents,
                 placed: BOOLEAN, errors: BOOLEAN]
    /\ was \in Contents \X (Versions \cup {Gone})
    /\ reply \in {"none", "installed", "uninstalled", "undone", "incomplete",
                  "failed"}
    /\ unfounded \in BOOLEAN
    /\ portableFaults \in 0..PortableFaults

(* The version on record is whole somewhere on the disk, whatever fails    *)
(* and whenever the process ends: in its place, or as a backup.            *)
RecordedIsOnDisk ==
    record # Gone /\ ~unfounded
        => record \in {directory, work.backup} \cup backups

(* What was answered is so, until something else happens: a success has    *)
(* brought directory and record together, and a failure that does not say  *)
(* that its rollback is incomplete has left the previous version and its   *)
(* record as they were ("The previous version remains in place", "The      *)
(* previous version was restored").                                        *)
RepliesAreTrue ==
    work = NoWork =>
        /\ reply = "installed" => directory \in Versions /\ record = directory
        /\ reply = "uninstalled" => directory = Gone /\ record = Gone
        /\ reply = "undone" /\ was[1] # Gone
           => directory = was[1] /\ record = was[2]

(* Both, of operation-service.ts:222-257.                                  *)
ReplacementIsWhole == PortableTypeOK /\ RecordedIsOnDisk /\ RepliesAreTrue

(* "Portable updates replace their managed directory transactionally"      *)
(* (per-app-update-checker.md:15).  Not true (see the README): a process   *)
(* that ends between the two renames leaves no application in its place,   *)
(* and nothing brings the backup back.                                     *)
ReplacementIsTransactional ==
    work = NoWork /\ record # Gone /\ ~unfounded => directory = record
=============================================================================
