-------------------------- MODULE CrossProcessLock --------------------------
(***************************************************************************)
(* The lock file that serialises school-mode mutations of several          *)
(* processes: acquireLock, releaseInProgress, performReleaseOwnedLock and  *)
(* recoverDeadLock of school-mode-service.ts, one step per file-system     *)
(* effect.                                                                 *)
(*                                                                         *)
(* A process never comes back: an application that is started again is     *)
(* another element of Procs, and a reused process identity is one that is  *)
(* alive.  A process has at most one token on disk at a time, so the       *)
(* process stands for the token.  Candidates are private to their writer   *)
(* and published by an atomic hard link, so they are not state.            *)
(* A read that fails is allowed wherever the code takes it for something.  *)
(***************************************************************************)
EXTENDS Naturals, Sequences

CONSTANTS Procs, NoProc,
          MaxDepth    \* MAX_RECOVERY_DEPTH

ASSUME ProcsAssumption == NoProc \notin Procs
ASSUME DepthAssumption == MaxDepth \in Nat \ {0}

VARIABLES
    alive,       \* what isProcessAlive answers
    lock,        \* the owner in the lock file, or NoProc: there is no file
    markers,     \* the owners of the release markers
    claims,      \* the chain of recovery claims on the lock of each process
    pc,          \* how far each process is in acquireLock or its release
    listed,      \* the markers that a process found and has still to read
    then,        \* where a release returns to
    remembered,  \* processes with a token in orphanedLockTokens
    victim,      \* the dead owner that a process recovers from
    depth        \* its place in the chain of claims

vars == <<alive, lock, markers, claims, pc, listed, then, remembered, victim, depth>>
disk == <<lock, markers, claims>>
local == <<listed, then, remembered>>
recovery == <<victim, depth>>
-----------------------------------------------------------------------------
Releasing == {"mark", "verify", "unlink", "clear", "abandon"}
Recovering == {"walk", "fence", "break"}
Labels == {"idle", "check", "scan", "link", "seek", "retry", "critical"}
          \cup Releasing \cup Recovering

At(p, label) == p \in alive /\ pc[p] = label
Goto(p, label) == pc' = [pc EXCEPT ![p] = label]
Forget(p) == /\ victim' = [victim EXCEPT ![p] = NoProc]
             /\ depth' = [depth EXCEPT ![p] = 1]

(* recoverDeadLock returns. *)
GiveUp(p) == Goto(p, "retry") /\ Forget(p)

Claimed(p) == depth[p] <= Len(claims[victim[p]])
Claimant(p) == claims[victim[p]][depth[p]]

Init == /\ alive = Procs
        /\ lock = NoProc
        /\ markers = {}
        /\ claims = [p \in Procs |-> <<>>]
        /\ pc = [p \in Procs |-> "idle"]
        /\ listed = [p \in Procs |-> {}]
        /\ then = [p \in Procs |-> "idle"]
        /\ remembered = {}
        /\ victim = [p \in Procs |-> NoProc]
        /\ depth = [p \in Procs |-> 1]
-----------------------------------------------------------------------------
(* acquireLock: a token that an earlier release left behind goes first.     *)
Attempt(p) ==
    /\ At(p, "idle")
    /\ IF p \in remembered
       THEN Goto(p, "mark") /\ then' = [then EXCEPT ![p] = "check"]
       ELSE Goto(p, "check") /\ UNCHANGED then
    /\ UNCHANGED <<alive, disk, listed, remembered, recovery>>

(* releaseInProgress: the directory is listed once, or cannot be read.      *)
ListMarkers(p) ==
    /\ At(p, "check")
    /\ \/ /\ listed' = [listed EXCEPT ![p] = markers]
          /\ Goto(p, IF markers = {} THEN "link" ELSE "scan")
       \/ Goto(p, "retry") /\ UNCHANGED listed
    /\ UNCHANGED <<alive, disk, then, remembered, recovery>>

(* A marker that has gone, or of a process that has ended, is passed over,  *)
(* and the latter is removed.                                               *)
PassMarker(p, q) ==
    /\ At(p, "scan")
    /\ q \in listed[p] /\ q \notin markers \cap alive
    /\ markers' = markers \ {q}
    /\ listed' = [listed EXCEPT ![p] = @ \ {q}]
    /\ UNCHANGED <<alive, lock, claims, pc, then, remembered, recovery>>

(* Any other marker, or one that cannot be read or removed, keeps p out.    *)
FinishScan(p) ==
    /\ At(p, "scan")
    /\ \/ listed[p] = {} /\ Goto(p, "link")
       \/ listed[p] \cap markers # {} /\ Goto(p, "retry")
    /\ listed' = [listed EXCEPT ![p] = {}]
    /\ UNCHANGED <<alive, disk, then, remembered, recovery>>

(* The candidate is linked to the lock path, unless that exists already. *)
Link(p) ==
    /\ At(p, "link")
    /\ IF lock = NoProc
       THEN /\ lock' = p
            /\ remembered' = remembered \cup {p}
            /\ Goto(p, "critical")
       ELSE Goto(p, "seek") /\ UNCHANGED <<lock, remembered>>
    /\ UNCHANGED <<alive, markers, claims, listed, then, recovery>>

(* Before the deadline p tries again; after it, the lock is in conflict. *)
Retry(p) ==
    /\ At(p, "retry")
    /\ Goto(p, "check") \/ Goto(p, "idle")
    /\ UNCHANGED <<alive, disk, local, recovery>>

(* A file-system error ends the attempt. *)
AttemptFails(p) ==
    /\ \E label \in {"link", "walk", "break"} : At(p, label)
    /\ Goto(p, "idle")
    /\ Forget(p)
    /\ UNCHANGED <<alive, disk, local>>
-----------------------------------------------------------------------------
(* recoverDeadLock. *)

Seek(p) ==
    /\ At(p, "seek")
    /\ \/ /\ lock # NoProc /\ lock \notin alive
          /\ victim' = [victim EXCEPT ![p] = lock]
          /\ depth' = [depth EXCEPT ![p] = 1]
          /\ Goto(p, "walk")
       \/ GiveUp(p)
    /\ UNCHANGED <<alive, disk, local>>

(* Nobody holds the node at this depth: p links its own claim there. *)
Claim(p) ==
    /\ At(p, "walk")
    /\ depth[p] = Len(claims[victim[p]]) + 1
    /\ claims' = [claims EXCEPT ![victim[p]] = Append(@, p)]
    /\ Goto(p, "fence")
    /\ UNCHANGED <<alive, lock, markers, local, recovery>>

(* Mutant: the claimant before is not probed. *)
OvertakesAnyone(p) == Claimant(p) # p /\ depth[p] < MaxDepth

(* A claimant that has ended is succeeded, up to the last node. *)
Overtakes(p) == Claimant(p) \notin alive /\ depth[p] < MaxDepth

Walk(p) ==
    /\ At(p, "walk")
    /\ Claimed(p)
    /\ \/ /\ Claimant(p) = p
          /\ Goto(p, "fence") /\ UNCHANGED recovery
       \/ /\ Overtakes(p)
          /\ depth' = [depth EXCEPT ![p] = @ + 1] /\ UNCHANGED <<pc, victim>>
       \/ GiveUp(p)
    /\ UNCHANGED <<alive, disk, local>>

(* The lock is still the dead owner's.  That there is no successor is read  *)
(* too, but an unreadable successor counts as none.                         *)
Fenced(p) == lock = victim[p] /\ victim[p] \notin alive

Fence(p) ==
    /\ At(p, "fence")
    /\ \/ Fenced(p) /\ Goto(p, "break") /\ UNCHANGED recovery
       \/ GiveUp(p)
    /\ UNCHANGED <<alive, disk, local>>

(* unlink removes whatever is at the lock path; no file is an error.        *)
BreakLock(p) ==
    /\ At(p, "break")
    /\ lock # NoProc
    /\ lock' = NoProc
    /\ GiveUp(p)
    /\ UNCHANGED <<alive, markers, claims, local>>
-----------------------------------------------------------------------------
(* The critical section, and performReleaseOwnedLock. *)

Release(p) ==
    /\ At(p, "critical")
    /\ Goto(p, "mark")
    /\ UNCHANGED <<alive, disk, local, recovery>>

PublishMarker(p) ==
    /\ At(p, "mark")
    /\ markers' = markers \cup {p}
    /\ Goto(p, "verify")
    /\ UNCHANGED <<alive, lock, claims, local, recovery>>

(* An owner that cannot be read is taken for somebody else.                 *)
VerifyOwner(p) ==
    /\ At(p, "verify")
    /\ \/ lock = p /\ Goto(p, "unlink")
       \/ Goto(p, "clear")
    /\ UNCHANGED <<alive, disk, local, recovery>>

UnlinkLock(p) ==
    /\ At(p, "unlink")
    /\ lock' = NoProc
    /\ Goto(p, "clear")
    /\ UNCHANGED <<alive, markers, claims, local, recovery>>

(* Five attempts failed. *)
ReleaseFails(p) ==
    /\ \E label \in {"mark", "verify", "unlink"} : At(p, label)
    /\ Goto(p, "abandon")
    /\ UNCHANGED <<alive, disk, local, recovery>>

(* The marker goes, or cannot be removed; only a release that worked        *)
(* forgets the token.                                                       *)
ClearMarker(p) ==
    /\ At(p, "clear") \/ At(p, "abandon")
    /\ \/ /\ markers' = markers \ {p}
          /\ remembered' = IF pc[p] = "clear" THEN remembered \ {p} ELSE remembered
       \/ UNCHANGED <<markers, remembered>>
    /\ Goto(p, then[p])
    /\ then' = [then EXCEPT ![p] = "idle"]
    /\ UNCHANGED <<alive, lock, claims, listed, recovery>>

Crash(p) ==
    /\ p \in alive
    /\ alive' = alive \ {p}
    /\ Goto(p, "idle")
    /\ listed' = [listed EXCEPT ![p] = {}]
    /\ then' = [then EXCEPT ![p] = "idle"]
    /\ remembered' = remembered \ {p}
    /\ Forget(p)
    /\ UNCHANGED disk
-----------------------------------------------------------------------------
Acquiring(p) == \/ Attempt(p) \/ ListMarkers(p) \/ FinishScan(p) \/ Link(p) \/ Retry(p)
                \/ AttemptFails(p)
                \/ \E q \in Procs : PassMarker(p, q)
Recover(p) == Seek(p) \/ Claim(p) \/ Walk(p) \/ Fence(p) \/ BreakLock(p)
Releases(p) == \/ Release(p) \/ PublishMarker(p) \/ VerifyOwner(p)
               \/ UnlinkLock(p) \/ ReleaseFails(p) \/ ClearMarker(p)

Next == \E p \in Procs : Acquiring(p) \/ Recover(p) \/ Releases(p) \/ Crash(p)

Spec == Init /\ [][Next]_vars
-----------------------------------------------------------------------------
TypeOK ==
    /\ alive \subseteq Procs
    /\ lock \in Procs \cup {NoProc}
    /\ markers \subseteq Procs
    /\ claims \in [Procs -> Seq(Procs)]
    /\ pc \in [Procs -> Labels]
    /\ listed \in [Procs -> SUBSET Procs]
    /\ then \in [Procs -> {"idle", "check"}]
    /\ remembered \subseteq Procs
    /\ victim \in [Procs -> Procs \cup {NoProc}]
    /\ depth \in [Procs -> Nat \ {0}]

(***************************************************************************)
(* Properties                                                              *)
(***************************************************************************)

(* Whoever is inside, or about to unlink its own lock, still holds it:      *)
(* between reading the owner and unlinking nobody else can have broken it.  *)
HolderIsSafe ==
    \A p \in alive : pc[p] \in {"critical", "unlink"} => lock = p

(* A recovery is always from a process that has ended, and has passed only  *)
(* claimants that have ended.                                               *)
PassedAreDead(p) ==
    /\ victim[p] \in Procs \ alive
    /\ depth[p] <= Len(claims[victim[p]]) + 1
    /\ \A i \in 1 .. depth[p] - 1 : claims[victim[p]][i] \notin alive
RecoveryIsFromTheDead == \A p \in alive : pc[p] \in Recovering => PassedAreDead(p)

(* Only the last claim of a chain can be that of a live process, and only   *)
(* that process may break the lock.                                         *)
OnlyLastMayLive ==
    \A q \in Procs : \A i \in 1 .. Len(claims[q]) - 1 : claims[q][i] \notin alive
LastClaimant(p) == depth[p] = Len(claims[victim[p]]) /\ Claimant(p) = p
BreakerIsLastClaimant ==
    \A p \in alive : pc[p] \in {"fence", "break"} => LastClaimant(p)

(* Between the fence and the unlink the lock stays that of the dead owner.  *)
BreakHitsTheDead == \A p \in alive : pc[p] = "break" => lock = victim[p]

(* The type invariant, and why no unlink ever removes the lock of another:  *)
(* the owner of the lock is the one inside, and of all recoveries from a    *)
(* dead owner at most one may still break its lock.                         *)
LockInv == /\ TypeOK /\ HolderIsSafe /\ RecoveryIsFromTheDead
           /\ OnlyLastMayLive /\ BreakerIsLastClaimant /\ BreakHitsTheDead

Inside == {p \in alive : pc[p] = "critical"}

Exclusive == INSTANCE ExclusiveLock WITH holder <- lock, inside <- Inside

(* The lock file implements ExclusiveLock: whatever processes crash, and    *)
(* however late a release or a recovery goes on, no unlink takes the lock   *)
(* of a process in its critical section ("a delayed release cannot remove   *)
(* a lock that a successor has already acquired", school-mode-service.ts).  *)
LockIsExclusive == Exclusive!LockSpec
=============================================================================
