----------------------------- MODULE SchoolMode -----------------------------
(***************************************************************************)
(* The School mode record that every running application shares:           *)
(* SchoolModeService of school-mode-service.ts in several processes, each  *)
(* of which serialises its own operations (runSerial) and takes the        *)
(* cross-process lock, here the abstract one that CrossProcessLock         *)
(* implements, for every mutation.                                         *)
(*                                                                         *)
(* A secret stands for a credential and its verifier; names, kinds of      *)
(* credentials and failure codes are left out.  A read or a write may fail *)
(* at any time.  A read and what is made of it are one step: under the     *)
(* lock nobody else writes, and a refresh compares only with what its own  *)
(* process knows.                                                          *)
(***************************************************************************)
EXTENDS ExclusiveLock, Naturals

CONSTANTS Secrets, NoSecret,
          MaxRevision,  \* Number.MAX_SAFE_INTEGER
          MaxEpochs     \* bound on records created, so on deletions too

ASSUME SecretAssumption == NoSecret \notin Secrets
ASSUME MaxAssumption == MaxRevision \in Nat \ {0} /\ MaxEpochs \in Nat \ {0}

VARIABLES
    record,  \* the file: [epoch, rev, enabled, secret]
    epochs,  \* how many record identities (recordId) were drawn
    pc,      \* how far each process is in a mutation
    req,     \* the mutation: what was asked and what it expects to replace
    target,  \* the record that it is about to write
    known,   \* the last record each process has verified
    closed   \* the services that were disposed

vars == <<lockVars, record, epochs, pc, req, target, known, closed>>
-----------------------------------------------------------------------------
(* Epoch 0 is no identity at all: a missing record, or a schema-1 record.   *)
Missing == [epoch |-> 0, rev |-> 0, enabled |-> FALSE, secret |-> NoSecret]
Legacy(enabled, secret) ==
    [epoch |-> 0, rev |-> 1, enabled |-> enabled, secret |-> secret]
IsLegacy(r) == r.epoch = 0 /\ r.rev = 1

Requests ==
    [op : {"configure"}, old : {NoSecret}, new : Secrets]
    \cup [op : {"rename", "enable"}, old : {NoSecret}, new : {NoSecret}]
    \cup [op : {"rename", "disable"}, old : Secrets, new : {NoSecret}]
    \cup [op : {"change"}, old : Secrets, new : Secrets]
NoRequest == [op |-> "none", old |-> NoSecret, new |-> NoSecret]
Request(r, seen) == [ask |-> r, epoch |-> seen.epoch, rev |-> seen.rev]

Open(p) == p \in alive /\ ~closed[p]
Goto(p, label) == pc' = [pc EXCEPT ![p] = label]

Done(p) == /\ req' = [req EXCEPT ![p] = Request(NoRequest, Missing)]
           /\ target' = [target EXCEPT ![p] = Missing]

(* acceptKnownRecord: what the service shows from now on. *)
Accept(p) == known' = [known EXCEPT ![p] = record]

Init == /\ LockInit
        /\ record \in {Missing} \cup {Legacy(TRUE, s) : s \in Secrets}
        /\ epochs = 0
        /\ pc = [p \in Procs |-> "idle"]
        /\ req = [p \in Procs |-> Request(NoRequest, Missing)]
        /\ target = [p \in Procs |-> Missing]
        /\ known = [p \in Procs |-> Missing]
        /\ closed = [p \in Procs |-> FALSE]
-----------------------------------------------------------------------------
(* What a mutation decides on the latest record. *)

(* Mutant: a new credential does not need the old one. *)
LenientlyUnverified(ask, latest) ==
    \/ ask.op = "rename" /\ latest.enabled /\ ask.old # latest.secret
    \/ ask.op = "disable" /\ ask.old # latest.secret

Unverified(ask, latest) ==
    \/ ask.op = "rename" /\ latest.enabled /\ ask.old # latest.secret
    \/ ask.op \in {"disable", "change"} /\ ask.old # latest.secret

Exhausted(latest) == latest.rev >= MaxRevision

Rejects(ask, latest) ==
    \/ Unverified(ask, latest)
    \/ ask.op = "configure" /\ latest.secret # NoSecret
    \/ ask.op \in {"enable", "disable", "change"} /\ latest.secret = NoSecret
    \/ ask.op = "enable" /\ latest.enabled
    \/ ask.op = "disable" /\ ~latest.enabled
    \/ Exhausted(latest)

(* Mutant: changing nothing that is shown keeps the revision. *)
NextIfShown(latest) == IF latest.rev = 0 \/ IsLegacy(latest) THEN 1 ELSE latest.rev

(* Mutant: revisions start again when the mode is off. *)
NextOrFirst(latest) == IF IsLegacy(latest) \/ ~latest.enabled THEN 1 ELSE latest.rev + 1

NextRevision(latest) == IF IsLegacy(latest) THEN 1 ELSE latest.rev + 1

Revised(ask, latest) ==
    [epoch   |-> IF latest.epoch = 0 THEN epochs + 1 ELSE latest.epoch,
     rev     |-> NextRevision(latest),
     enabled |-> CASE ask.op \in {"configure", "enable"} -> TRUE
                   [] ask.op = "disable" -> FALSE
                   [] OTHER -> latest.enabled,
     secret  |-> IF ask.op \in {"configure", "change"} THEN ask.new
                 ELSE latest.secret]
-----------------------------------------------------------------------------
(* A renderer asks, naming the record that its service knows; others may    *)
(* write while the request waits for the lock.                              *)
Ask(p, r) ==
    /\ Open(p) /\ pc[p] = "idle"
    /\ req' = [req EXCEPT ![p] = Request(r, known[p])]
    /\ Goto(p, "acquire")
    /\ UNCHANGED <<lockVars, record, epochs, target, known, closed>>

(* The file is older than what is known of the same record, or differs.     *)
Contradicts(r) ==
    /\ record.epoch # 0 /\ record.epoch = r.epoch
    /\ record.rev < r.rev \/ (record.rev = r.rev /\ record # r)

(* start, load, verify, the watcher or the poll: refreshFromDisk.  A record *)
(* of schema 1 is migrated under the lock.                                  *)
Refresh(p) ==
    /\ Open(p) /\ pc[p] = "idle"
    /\ \/ /\ IsLegacy(record)
          /\ Goto(p, "acquire")
          /\ UNCHANGED known
       \/ /\ ~IsLegacy(record) /\ ~Contradicts(known[p])
          /\ Accept(p)
          /\ UNCHANGED pc
    /\ UNCHANGED <<lockVars, record, epochs, req, target, closed>>

Acquire(p) ==
    /\ pc[p] = "acquire"
    /\ Enter(p)
    /\ Goto(p, "read")
    /\ UNCHANGED <<record, epochs, req, target, known, closed>>

AcquireFails(p) ==
    /\ p \in alive /\ pc[p] = "acquire"
    /\ Goto(p, "idle")
    /\ Done(p)
    /\ UNCHANGED <<lockVars, record, epochs, known, closed>>

(* Mutant: the revision is compared, the identity is not. *)
RevisionOnly(p) == req[p].rev = record.rev

(* A schema-1 record gets a fresh identity each time it is read, so that no *)
(* request can name it.                                                     *)
Expected(p) == /\ req[p].epoch = record.epoch /\ req[p].rev = record.rev
               /\ ~IsLegacy(record)

(* A mutation of a renderer, or the migration of a schema-1 record. *)
Wanted(p) == IF req[p].ask = NoRequest THEN IsLegacy(record)
             ELSE Expected(p) /\ ~Rejects(req[p].ask, record)

(* A rename may also ask for the name that the record has.                  *)
MayRefuse(p) == ~Wanted(p) \/ req[p].ask.op = "rename"

ReadLatest(p) ==
    /\ p \in inside /\ pc[p] = "read"
    /\ \/ /\ ~closed[p] /\ Wanted(p)
          /\ target' = [target EXCEPT ![p] = Revised(req[p].ask, record)]
          /\ Goto(p, "write")
          /\ UNCHANGED <<req, known>>
       \/ /\ \/ ~closed[p] /\ MayRefuse(p) /\ Accept(p)
             \/ UNCHANGED known    \* the service is closed, or the read fails
          /\ Goto(p, "leave")
          /\ Done(p)
    /\ UNCHANGED <<lockVars, record, epochs, closed>>

(* Mutant: the record is published by a service that was disposed. *)
PublishAnyway(p) == p \in alive

(* shouldPublish, in the same stretch as the synchronous rename. *)
MayPublish(p) == ~closed[p]

Write(p) ==
    /\ p \in inside /\ pc[p] = "write"
    /\ \/ /\ MayPublish(p)
          /\ record' = target[p]
          /\ epochs' = IF target[p].epoch > epochs THEN target[p].epoch ELSE epochs
          /\ Goto(p, "readback")
          /\ UNCHANGED <<req, target>>
       \/ /\ Goto(p, "leave")    \* the service is closed, or the write fails
          /\ Done(p)
          /\ UNCHANGED <<record, epochs>>
    /\ UNCHANGED <<lockVars, known, closed>>

ReadBack(p) ==
    /\ p \in inside /\ pc[p] = "readback"
    /\ \/ ~closed[p] /\ record = target[p] /\ Accept(p)
       \/ UNCHANGED known
    /\ Goto(p, "leave")
    /\ Done(p)
    /\ UNCHANGED <<lockVars, record, epochs, closed>>

(* The release; a lock that could not be given back is freed by a later one. *)
Release(p) ==
    /\ pc[p] = "leave"
    /\ Leave(p)
    /\ Goto(p, "idle")
    /\ UNCHANGED <<record, epochs, req, target, known, closed>>
-----------------------------------------------------------------------------
FreeLock == Free /\ UNCHANGED <<record, epochs, pc, req, target, known, closed>>

(* dispose. *)
Dispose(p) ==
    /\ Open(p)
    /\ closed' = [closed EXCEPT ![p] = TRUE]
    /\ UNCHANGED <<lockVars, record, epochs, pc, req, target, known>>

CrashProcess(p) ==
    /\ Crash(p)
    /\ Goto(p, "idle")
    /\ Done(p)
    /\ known' = [known EXCEPT ![p] = Missing]
    /\ UNCHANGED <<record, epochs, closed>>

(* The documented reset: the user deletes the file. *)
UserDeletes ==
    /\ record # Missing
    /\ epochs < MaxEpochs
    /\ record' = Missing
    /\ UNCHANGED <<lockVars, epochs, pc, req, target, known, closed>>
-----------------------------------------------------------------------------
Mutation(p) == \/ Acquire(p) \/ AcquireFails(p) \/ ReadLatest(p) \/ Write(p)
               \/ ReadBack(p) \/ Release(p)
Environment(p) == \/ \E r \in Requests : Ask(p, r)
                  \/ Dispose(p) \/ CrashProcess(p)

Next == FreeLock \/ UserDeletes
        \/ \E p \in Procs : Mutation(p) \/ Refresh(p) \/ Environment(p)

Spec == Init /\ [][Next]_vars
-----------------------------------------------------------------------------
Records == [epoch : Nat, rev : 0..MaxRevision, enabled : BOOLEAN, secret : Secrets \cup {NoSecret}]

TypeOK ==
    /\ alive \subseteq Procs /\ inside \subseteq alive
    /\ holder \in Procs \cup {NoProc}
    /\ record \in Records /\ epochs \in Nat
    /\ pc \in [Procs -> {"idle", "acquire", "read", "write", "readback", "leave"}]
    /\ req \in [Procs -> [ask : Requests \cup {NoRequest}, epoch : Nat, rev : Nat]]
    /\ target \in [Procs -> Records] /\ known \in [Procs -> Records]
    /\ closed \in [Procs -> BOOLEAN]

(***************************************************************************)
(* Properties                                                              *)
(***************************************************************************)
Replaced == record' # record /\ record' # Missing

(* r comes before s, if both have the same identity. *)
Precedes(r, s) == r.epoch # 0 /\ r.epoch = s.epoch => r.rev < s.rev
SameRecord(r, s) == r.epoch # 0 /\ r.epoch = s.epoch /\ r.rev = s.rev => r = s

InLock == {"read", "write", "readback", "leave"}
OneInside == MutualExclusion /\ \A p \in Procs : pc[p] \in InLock <=> p \in inside

(* Identities are drawn in order, and only the latest is ever on disk. *)
LatestEpoch ==
    /\ record.epoch \in {0, epochs}
    /\ \A p \in Procs : known[p].epoch <= epochs

(* What a process is about to write follows everything that is known, and   *)
(* revises the record on disk, if that is still there, as it was asked to.  *)
Revises(p) ==
    /\ req[p].epoch = record.epoch /\ req[p].rev = record.rev
    /\ ~Rejects(req[p].ask, record)
    /\ target[p] = Revised(req[p].ask, record)
TargetFollows(p) ==
    /\ target[p].epoch # 0 /\ target[p].epoch \in {epochs, epochs + 1}
    /\ Precedes(record, target[p])
    /\ \A q \in Procs : Precedes(known[q], target[p])
    /\ record.epoch # 0 => Revises(p)
WritesFollow == \A p \in Procs : pc[p] = "write" => TargetFollows(p)

(* What is known of the record on disk is that record or an earlier one. *)
KnownIsPast ==
    \A p \in Procs : Precedes(known[p], record) \/ known[p] = record

KnownAgree == \A p, q \in Procs : SameRecord(known[p], known[q])

(* The type invariant, and why compare-and-swap works although the file may *)
(* be deleted at any time: the writer is alone, and what it is about to     *)
(* write is later than anything that any process has seen of that identity. *)
RecordInv == /\ TypeOK /\ OneInside /\ LatestEpoch /\ WritesFollow
             /\ KnownIsPast /\ KnownAgree

(* A mutation replaces exactly the record, identity and revision, that its  *)
(* renderer was shown when it asked: nothing that another process wrote, or *)
(* recreated after a deletion, in between is lost.                          *)
NoLostUpdate ==
    [][Replaced /\ record.epoch # 0
       => \E p \in inside : /\ pc[p] = "write"
                            /\ req[p].epoch = record.epoch
                            /\ req[p].rev = record.rev]_vars

(* "Disabling and renaming an enabled mode verify against the latest record *)
(* under the cross-process lock" (school-mode.md): whoever turns the mode   *)
(* off, or changes its credential, holds the credential of the very record  *)
(* that is replaced, not of one that another process has changed since.     *)
VerifiedAgainstLatest ==
    [][Replaced /\ record.epoch # 0
         /\ (record'.secret # record.secret \/ (record.enabled /\ ~record'.enabled))
       => \/ record.secret = NoSecret
          \/ \E p \in inside : pc[p] = "write" /\ req[p].ask.old = record.secret]_vars

(* A closed service writes nothing any more, even when it was closed in the *)
(* middle of a mutation.                                                    *)
ClosedIsQuiet ==
    [][Replaced => \E p \in inside : pc[p] = "write" /\ ~closed[p]]_vars

(* The pair of recordId and revision names one content: no process knows    *)
(* another record under it than the one on disk, or than another process.   *)
RevisionsAgree ==
    \A p, q \in alive : SameRecord(known[p], record) /\ SameRecord(known[p], known[q])

(* The revision is monotonic: what a process shows of one record changes    *)
(* only with a higher revision, whichever process made the change.          *)
KnownAdvances ==
    [][\A p \in Procs : /\ known[p].epoch # 0 /\ known'[p].epoch = known[p].epoch
                        /\ known'[p] # known[p]
                        => known'[p].rev > known[p].rev]_vars
=============================================================================
