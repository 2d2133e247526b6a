----------------------- MODULE CrossProcessLockProofs -----------------------
(***************************************************************************)
(* For any set of processes and any depth of recovery chains, the lock     *)
(* file of school-mode-service.ts implements ExclusiveLock.                *)
(***************************************************************************)
EXTENDS CrossProcessLock, TLAPS, SequenceTheorems

LEMMA TypeCorrect == Spec => []TypeOK
<1>1. Init => TypeOK
  BY ProcsAssumption DEF Init, TypeOK, Labels
<1>2. TypeOK /\ [Next]_vars => TypeOK'
  <2> SUFFICES ASSUME TypeOK, [Next]_vars PROVE TypeOK'
    OBVIOUS
  <2> USE DEF TypeOK, At, Goto, Forget, GiveUp, Labels, Releasing, Recovering,
              disk, local, recovery
  <2>1. ASSUME NEW p \in Procs, Acquiring(p) PROVE TypeOK'
    <3>1. CASE Attempt(p)
      BY <3>1 DEF Attempt
    <3>2. CASE ListMarkers(p)
      BY <3>2 DEF ListMarkers
    <3>3. ASSUME NEW q \in Procs, PassMarker(p, q) PROVE TypeOK'
      BY <3>3 DEF PassMarker
    <3>4. CASE FinishScan(p)
      BY <3>4 DEF FinishScan
    <3>5. CASE Link(p)
      BY <3>5 DEF Link
    <3>6. CASE Retry(p)
      BY <3>6 DEF Retry
    <3>7. CASE AttemptFails(p)
      BY <3>7 DEF AttemptFails
    <3> QED
      BY <2>1, <3>1, <3>2, <3>3, <3>4, <3>5, <3>6, <3>7 DEF Acquiring
  <2>2. ASSUME NEW p \in Procs, Recover(p) PROVE TypeOK'
    <3>1. CASE Seek(p)
      <4>1. pc' \in [Procs -> Labels]
        BY <3>1 DEF Seek
      <4>2. victim' \in [Procs -> Procs \cup {NoProc}]
        BY <3>1 DEF Seek
      <4>3. depth' \in [Procs -> Nat \ {0}]
        BY <3>1 DEF Seek
      <4> QED
        BY <3>1, <4>1, <4>2, <4>3 DEF Seek
    <3>2. CASE Claim(p)
      <4>1. claims' \in [Procs -> Seq(Procs)]
        <5>1. CASE victim[p] \in Procs
          <6>1. Append(claims[victim[p]], p) \in Seq(Procs)
            BY <5>1, AppendProperties
          <6> QED
            BY <3>2, <6>1 DEF Claim
        <5>2. CASE victim[p] \notin Procs
          BY <3>2, <5>2 DEF Claim
        <5> QED
          BY <5>1, <5>2
      <4>2. pc' \in [Procs -> Labels]
        BY <3>2 DEF Claim
      <4> QED
        BY <3>2, <4>1, <4>2 DEF Claim
    <3>3. CASE Walk(p)
      <4>1. pc' \in [Procs -> Labels]
        BY <3>3 DEF Walk
      <4>2. victim' \in [Procs -> Procs \cup {NoProc}]
        BY <3>3 DEF Walk
      <4>3. depth' \in [Procs -> Nat \ {0}]
        <5>1. \/ depth' = depth
              \/ depth' = [depth EXCEPT ![p] = depth[p] + 1]
              \/ depth' = [depth EXCEPT ![p] = 1]
          BY <3>3 DEF Walk
        <5> QED
          BY <5>1
      <4> QED
        BY <3>3, <4>1, <4>2, <4>3 DEF Walk
    <3>4. CASE Fence(p)
      <4>1. pc' \in [Procs -> Labels]
        BY <3>4 DEF Fence
      <4>2. victim' \in [Procs -> Procs \cup {NoProc}]
        BY <3>4 DEF Fence
      <4>3. depth' \in [Procs -> Nat \ {0}]
        <5>1. UNCHANGED recovery \/ GiveUp(p)
          BY <3>4 DEF Fence
        <5>2. CASE UNCHANGED recovery
          BY <5>2
        <5>3. CASE GiveUp(p)
          BY <5>3
        <5> QED
          BY <5>1, <5>2, <5>3
      <4> QED
        BY <3>4, <4>1, <4>2, <4>3 DEF Fence
    <3>5. CASE BreakLock(p)
      BY <3>5 DEF BreakLock
    <3> QED
      BY <2>2, <3>1, <3>2, <3>3, <3>4, <3>5 DEF Recover
  <2>3. ASSUME NEW p \in Procs, Releases(p) PROVE TypeOK'
    <3>1. CASE Release(p)
      BY <3>1 DEF Release
    <3>2. CASE PublishMarker(p)
      BY <3>2 DEF PublishMarker
    <3>3. CASE VerifyOwner(p)
      BY <3>3 DEF VerifyOwner
    <3>4. CASE UnlinkLock(p)
      BY <3>4 DEF UnlinkLock
    <3>5. CASE ReleaseFails(p)
      BY <3>5 DEF ReleaseFails
    <3>6. CASE ClearMarker(p)
      BY <3>6 DEF ClearMarker
    <3> QED
      BY <2>3, <3>1, <3>2, <3>3, <3>4, <3>5, <3>6 DEF Releases
  <2>4. ASSUME NEW p \in Procs, Crash(p) PROVE TypeOK'
    BY <2>4 DEF Crash
  <2>5. CASE UNCHANGED vars
    BY <2>5 DEF vars
  <2> QED
    BY <2>1, <2>2, <2>3, <2>4, <2>5 DEF Next
<1> QED
  BY <1>1, <1>2, PTL DEF Spec

(* What LockInv says of one process. *)
SafeAt(p) ==
    /\ pc[p] \in {"critical", "unlink"} => lock = p
    /\ pc[p] \in Recovering => PassedAreDead(p)
    /\ pc[p] \in {"fence", "break"} => LastClaimant(p)
    /\ pc[p] = "break" => lock = victim[p]

LEMMA SafePoints == LockInv => TypeOK /\ OnlyLastMayLive /\ \A p \in alive : SafeAt(p)
BY DEF LockInv, SafeAt, HolderIsSafe, RecoveryIsFromTheDead,
   BreakerIsLastClaimant, BreakHitsTheDead

LEMMA SafeNext ==
  TypeOK' /\ OnlyLastMayLive' /\ (\A p \in alive' : SafeAt(p)') => LockInv'
BY DEF LockInv, SafeAt, HolderIsSafe, RecoveryIsFromTheDead,
   BreakerIsLastClaimant, BreakHitsTheDead

Others(p) == \A q \in Procs \ {p} :
    pc'[q] = pc[q] /\ victim'[q] = victim[q] /\ depth'[q] = depth[q]
Keeps(p) == Others(p) /\ UNCHANGED <<alive, lock, claims>>

(* A step that changes neither the lock nor a claim need only be safe for   *)
(* the process that takes it.                                               *)
LEMMA LocalStep ==
  ASSUME LockInv, TypeOK', NEW p \in Procs, Keeps(p), p \in alive => SafeAt(p)'
  PROVE  LockInv'
<1>1. ASSUME NEW q \in alive', q # p PROVE SafeAt(q)'
  BY <1>1, SafePoints DEF Keeps, Others, SafeAt, PassedAreDead, LastClaimant,
     Claimant, TypeOK
<1>2. OnlyLastMayLive'
  BY DEF Keeps, LockInv, OnlyLastMayLive
<1> QED
  BY <1>1, <1>2, SafeNext DEF Keeps

(* The inductive step. *)
LEMMA LockStep == LockInv /\ TypeOK' /\ [Next]_vars => LockInv'
<1> SUFFICES ASSUME LockInv, TypeOK', [Next]_vars PROVE LockInv'
  OBVIOUS
<1> USE DEF At, Goto, Forget, GiveUp, disk, local, recovery, Others, Recovering
<1>a. TypeOK /\ OnlyLastMayLive /\ \A p \in alive : SafeAt(p)
  BY SafePoints
<1>1. ASSUME NEW p \in Procs, Acquiring(p) PROVE LockInv'
  <2>1. CASE Attempt(p)
    <3>1. Keeps(p)
      BY <2>1, <1>a DEF Attempt, Keeps, TypeOK
    <3>2. SafeAt(p)'
      BY <2>1, <1>a DEF Attempt, SafeAt, TypeOK
    <3> QED
      BY <3>1, <3>2, LocalStep
  <2>2. CASE ListMarkers(p)
    <3>1. Keeps(p)
      BY <2>2, <1>a DEF ListMarkers, Keeps, TypeOK
    <3>2. SafeAt(p)'
      BY <2>2, <1>a DEF ListMarkers, SafeAt, TypeOK
    <3> QED
      BY <3>1, <3>2, LocalStep
  <2>3. CASE FinishScan(p)
    <3>1. Keeps(p)
      BY <2>3, <1>a DEF FinishScan, Keeps, TypeOK
    <3>2. SafeAt(p)'
      BY <2>3, <1>a DEF FinishScan, SafeAt, TypeOK
    <3> QED
      BY <3>1, <3>2, LocalStep
  <2>4. CASE Retry(p)
    <3>1. Keeps(p)
      BY <2>4, <1>a DEF Retry, Keeps, TypeOK
    <3>2. SafeAt(p)'
      BY <2>4, <1>a DEF Retry, SafeAt, TypeOK
    <3> QED
      BY <3>1, <3>2, LocalStep
  <2>5. CASE AttemptFails(p)
    <3>1. Keeps(p)
      BY <2>5, <1>a DEF AttemptFails, Keeps, TypeOK
    <3>2. SafeAt(p)'
      BY <2>5, <1>a DEF AttemptFails, SafeAt, TypeOK
    <3> QED
      BY <3>1, <3>2, LocalStep
  <2>6. ASSUME NEW q \in Procs, PassMarker(p, q) PROVE LockInv'
    <3>1. Keeps(p)
      BY <2>6 DEF PassMarker, Keeps
    <3>2. SafeAt(p)'
      BY <2>6 DEF PassMarker, SafeAt
    <3> QED
      BY <3>1, <3>2, LocalStep
  <2>7. CASE Link(p)
    <3>1. CASE lock = NoProc
      <4>1. \A q \in alive : pc[q] \notin {"critical", "unlink", "break"}
        BY <3>1, <1>a, ProcsAssumption DEF SafeAt, PassedAreDead, TypeOK
      <4>2. \A q \in alive : SafeAt(q)'
        BY <2>7, <3>1, <4>1, <1>a DEF Link, SafeAt, PassedAreDead, LastClaimant,
           Claimant, TypeOK
      <4>3. OnlyLastMayLive'
        BY <2>7, <1>a DEF Link, OnlyLastMayLive
      <4> QED
        BY <2>7, <4>2, <4>3, SafeNext DEF Link
    <3>2. CASE lock # NoProc
      <4>1. Keeps(p)
        BY <2>7, <3>2, <1>a DEF Link, Keeps, TypeOK
      <4>2. SafeAt(p)'
        BY <2>7, <3>2, <1>a DEF Link, SafeAt, TypeOK
      <4> QED
        BY <4>1, <4>2, LocalStep
    <3> QED
      BY <3>1, <3>2
  <2> QED
    BY <1>1, <2>1, <2>2, <2>3, <2>4, <2>5, <2>6, <2>7 DEF Acquiring
<1>2. ASSUME NEW p \in Procs, Recover(p) PROVE LockInv'
  <2>1. CASE Seek(p)
    <3>1. Keeps(p)
      BY <2>1, <1>a DEF Seek, Keeps, TypeOK
    <3>2. SafeAt(p)'
      BY <2>1, <1>a DEF Seek, SafeAt, TypeOK, PassedAreDead
    <3> QED
      BY <3>1, <3>2, LocalStep
  <2>2. CASE Claim(p)
    <3> DEFINE v == victim[p]
    <3>1. v \in Procs \ alive /\ \A i \in 1 .. Len(claims[v]) : claims[v][i] \notin alive
      BY <2>2, <1>a DEF Claim, SafeAt, PassedAreDead, TypeOK
    <3>2. /\ claims'[v] = Append(claims[v], p)
          /\ \A q \in Procs \ {v} : claims'[q] = claims[q]
      BY <2>2, <3>1, <1>a DEF Claim, TypeOK
    <3>3. /\ Len(claims'[v]) = Len(claims[v]) + 1 /\ claims'[v][Len(claims[v]) + 1] = p
          /\ \A i \in 1 .. Len(claims[v]) : claims'[v][i] = claims[v][i]
          /\ Len(claims[v]) \in Nat
      <4>1. claims[v] \in Seq(Procs)
        BY <3>1, <1>a DEF TypeOK
      <4> QED
        BY <3>2, <4>1, AppendProperties, LenProperties
    <3>4. OnlyLastMayLive'
      BY <2>2, <3>1, <3>2, <3>3, <1>a DEF Claim, OnlyLastMayLive
    <3>5. Others(p) /\ UNCHANGED <<alive, lock, victim, depth>>
      BY <2>2, <1>a DEF Claim, TypeOK
    <3>6. SafeAt(p)'
      <4>1. pc'[p] = "fence"
        BY <2>2, <1>a DEF Claim, TypeOK
      <4>2. PassedAreDead(p)' /\ LastClaimant(p)'
        BY <2>2, <3>1, <3>3, <3>5, <1>a DEF Claim, PassedAreDead, LastClaimant,
           Claimant, TypeOK
      <4> QED
        BY <4>1, <4>2 DEF SafeAt
    <3>7. ASSUME NEW q \in alive, q # p PROVE SafeAt(q)'
      <4>1. pc'[q] = pc[q] /\ SafeAt(q)
        BY <3>5, <3>7, <1>a DEF TypeOK
      <4>2. CASE victim[q] # v
        BY <3>2, <3>5, <4>1, <4>2 DEF SafeAt, PassedAreDead, LastClaimant, Claimant
      <4>3. CASE victim[q] = v
        <5>1. pc[q] \notin {"fence", "break"}
          <6>1. LastClaimant(q) /\ PassedAreDead(p)
                => q = claims[v][Len(claims[v])] /\ Len(claims[v]) \in Nat \ {0}
            BY <3>3, <3>7, <4>3, <1>a DEF LastClaimant, Claimant, TypeOK
          <6> QED
            BY <3>1, <3>7, <4>1, <6>1, <2>2, <1>a DEF SafeAt, Claim, PassedAreDead
        <5>2. PassedAreDead(q) => PassedAreDead(q)'
          <6> SUFFICES ASSUME PassedAreDead(q) PROVE PassedAreDead(q)'
            OBVIOUS
          <6>1. depth[q] \in Nat /\ depth[q] <= Len(claims[v]) + 1
            BY <4>3, <1>a DEF PassedAreDead, TypeOK
          <6>2. victim'[q] = v /\ depth'[q] = depth[q] /\ alive' = alive
            BY <3>5, <4>3
          <6>3. \A i \in 1 .. depth[q] - 1 : claims'[v][i] \notin alive
            BY <3>1, <3>3, <6>1
          <6> QED
            BY <3>1, <3>3, <6>1, <6>2, <6>3 DEF PassedAreDead
        <5> QED
          BY <3>5, <4>1, <5>1, <5>2 DEF SafeAt
      <4> QED
        BY <4>2, <4>3
    <3> QED
      BY <3>4, <3>5, <3>6, <3>7, SafeNext
  <2>3. CASE Walk(p)
    <3>1. Keeps(p)
      BY <2>3, <1>a DEF Walk, Keeps, TypeOK
    <3>2. PassedAreDead(p) /\ depth[p] <= Len(claims[victim[p]])
      BY <2>3, <1>a DEF Walk, Claimed, SafeAt
    <3>3. CASE Claimant(p) = p /\ pc' = [pc EXCEPT ![p] = "fence"] /\ UNCHANGED recovery
      <4>1. LastClaimant(p)
        BY <2>3, <3>2, <3>3, <1>a DEF Walk, Claimant, LastClaimant, PassedAreDead,
           OnlyLastMayLive, TypeOK
      <4>2. SafeAt(p)'
        <5>1. pc'[p] = "fence"
          BY <3>3, <1>a DEF TypeOK
        <5>2. UNCHANGED <<alive, claims, victim, depth>>
          BY <3>1, <3>3 DEF Keeps
        <5>3. PassedAreDead(p)' /\ LastClaimant(p)'
          BY <3>2, <4>1, <5>2 DEF PassedAreDead, LastClaimant, Claimant
        <5> QED
          BY <5>1, <5>3 DEF SafeAt
      <4> QED
        BY <3>1, <4>2, LocalStep
    <3>4. CASE Overtakes(p) /\ depth' = [depth EXCEPT ![p] = @ + 1] /\ UNCHANGED <<pc, victim>>
      <4>1. PassedAreDead(p)'
        BY <3>1, <3>2, <3>4, <1>a DEF Overtakes, Keeps, PassedAreDead, Claimant, TypeOK
      <4>2. SafeAt(p)'
        BY <2>3, <3>4, <4>1, <1>a DEF Walk, SafeAt, TypeOK
      <4> QED
        BY <3>1, <4>2, LocalStep
    <3>5. CASE GiveUp(p)
      <4>1. SafeAt(p)'
        BY <3>5, <1>a DEF SafeAt, TypeOK
      <4> QED
        BY <3>1, <4>1, LocalStep
    <3> QED
      BY <2>3, <3>3, <3>4, <3>5 DEF Walk
  <2>4. CASE Fence(p)
    <3>1. Keeps(p)
      BY <2>4, <1>a DEF Fence, Keeps, TypeOK
    <3>2. SafeAt(p)'
      BY <2>4, <1>a DEF Fence, SafeAt, TypeOK, PassedAreDead, LastClaimant, Claimant, Fenced
    <3> QED
      BY <3>1, <3>2, LocalStep
  <2>5. CASE BreakLock(p)
    <3>1. lock \notin alive /\ LastClaimant(p) /\ victim[p] \in Procs
      BY <2>5, <1>a DEF BreakLock, SafeAt, PassedAreDead
    <3>2. ASSUME NEW q \in alive, q # p PROVE pc[q] \notin {"critical", "unlink", "break"}
      BY <2>5, <3>1, <3>2, <1>a DEF BreakLock, SafeAt, LastClaimant, Claimant
    <3>3. ASSUME NEW q \in alive PROVE SafeAt(q)'
      BY <2>5, <3>2, <1>a DEF BreakLock, SafeAt, PassedAreDead, LastClaimant,
         Claimant, TypeOK
    <3>4. OnlyLastMayLive'
      BY <2>5, <1>a DEF BreakLock, OnlyLastMayLive
    <3> QED
      BY <2>5, <3>3, <3>4, SafeNext DEF BreakLock
  <2> QED
    BY <1>2, <2>1, <2>2, <2>3, <2>4, <2>5 DEF Recover
<1>3. ASSUME NEW p \in Procs, Releases(p) PROVE LockInv'
  <2>1. CASE Release(p)
    <3>1. Keeps(p)
      BY <2>1, <1>a DEF Release, Keeps, TypeOK
    <3>2. SafeAt(p)'
      BY <2>1, <1>a DEF Release, SafeAt, TypeOK
    <3> QED
      BY <3>1, <3>2, LocalStep
  <2>2. CASE PublishMarker(p)
    <3>1. Keeps(p)
      BY <2>2, <1>a DEF PublishMarker, Keeps, TypeOK
    <3>2. SafeAt(p)'
      BY <2>2, <1>a DEF PublishMarker, SafeAt, TypeOK
    <3> QED
      BY <3>1, <3>2, LocalStep
  <2>3. CASE VerifyOwner(p)
    <3>1. Keeps(p)
      BY <2>3, <1>a DEF VerifyOwner, Keeps, TypeOK
    <3>2. SafeAt(p)'
      BY <2>3, <1>a DEF VerifyOwner, SafeAt, TypeOK
    <3> QED
      BY <3>1, <3>2, LocalStep
  <2>4. CASE ReleaseFails(p)
    <3>1. Keeps(p)
      BY <2>4, <1>a DEF ReleaseFails, Keeps, TypeOK
    <3>2. SafeAt(p)'
      BY <2>4, <1>a DEF ReleaseFails, SafeAt, TypeOK
    <3> QED
      BY <3>1, <3>2, LocalStep
  <2>5. CASE ClearMarker(p)
    <3>1. Keeps(p)
      BY <2>5, <1>a DEF ClearMarker, Keeps, TypeOK
    <3>2. SafeAt(p)'
      BY <2>5, <1>a DEF ClearMarker, SafeAt, TypeOK
    <3> QED
      BY <3>1, <3>2, LocalStep
  <2>6. CASE UnlinkLock(p)
    <3>1. lock = p
      BY <2>6, <1>a DEF UnlinkLock, SafeAt
    <3>2. ASSUME NEW q \in alive, q # p PROVE pc[q] \notin {"critical", "unlink", "break"}
      BY <2>6, <3>1, <3>2, <1>a DEF UnlinkLock, SafeAt, PassedAreDead
    <3>3. ASSUME NEW q \in alive PROVE SafeAt(q)'
      BY <2>6, <3>2, <1>a DEF UnlinkLock, SafeAt, PassedAreDead, LastClaimant,
         Claimant, TypeOK
    <3>4. OnlyLastMayLive'
      BY <2>6, <1>a DEF UnlinkLock, OnlyLastMayLive
    <3> QED
      BY <2>6, <3>3, <3>4, SafeNext DEF UnlinkLock
  <2> QED
    BY <1>3, <2>1, <2>2, <2>3, <2>4, <2>5, <2>6 DEF Releases
<1>4. ASSUME NEW p \in Procs, Crash(p) PROVE LockInv'
  <2>1. ASSUME NEW q \in alive' PROVE SafeAt(q)'
    BY <1>4, <2>1, <1>a DEF Crash, SafeAt, PassedAreDead, LastClaimant, Claimant, TypeOK
  <2>2. OnlyLastMayLive'
    BY <1>4, <1>a DEF Crash, OnlyLastMayLive
  <2> QED
    BY <1>4, <2>1, <2>2, SafeNext DEF Crash
<1>5. CASE UNCHANGED vars
  BY <1>5 DEF vars, LockInv, HolderIsSafe, RecoveryIsFromTheDead, PassedAreDead,
     OnlyLastMayLive, BreakerIsLastClaimant, LastClaimant, Claimant, BreakHitsTheDead
<1> QED
  BY <1>1, <1>2, <1>3, <1>4, <1>5 DEF Next

(* The lock invariant holds for any processes and any depth of recoveries.  *)
THEOREM LockCorrect == Spec => []LockInv
<1>1. Init => LockInv
  BY ProcsAssumption DEF Init, LockInv, TypeOK, Labels, HolderIsSafe,
     RecoveryIsFromTheDead, Recovering, OnlyLastMayLive,
     BreakerIsLastClaimant, BreakHitsTheDead
<1> QED
  BY <1>1, TypeCorrect, LockStep, PTL DEF Spec

(* Each step of the lock file is one of ExclusiveLock, or leaves it alone.  *)
LEMMA LockStepRefines == LockInv /\ [Next]_vars => [Exclusive!LockNext]_(Exclusive!lockVars)
<1> SUFFICES ASSUME LockInv, [Next]_vars
             PROVE [Exclusive!LockNext]_(Exclusive!lockVars)
  OBVIOUS
<1> USE DEF LockInv, TypeOK, At, Goto, Forget, GiveUp, Inside, disk, local, recovery,
            Exclusive!LockNext, Exclusive!lockVars
<1>1. ASSUME NEW p \in Procs, Link(p) PROVE Exclusive!Enter(p) \/ UNCHANGED Exclusive!lockVars
  BY <1>1 DEF Link, Exclusive!Enter
<1>2. ASSUME NEW p \in Procs, Release(p) PROVE Exclusive!Leave(p)
  BY <1>2 DEF Release, Exclusive!Leave
<1>3. ASSUME NEW p \in Procs, BreakLock(p) PROVE Exclusive!Free
  BY <1>3 DEF BreakLock, Exclusive!Free, BreakHitsTheDead, RecoveryIsFromTheDead,
     PassedAreDead, Recovering
<1>4. ASSUME NEW p \in Procs, UnlinkLock(p) PROVE Exclusive!Free
  BY <1>4, ProcsAssumption DEF UnlinkLock, Exclusive!Free, HolderIsSafe
<1>5. ASSUME NEW p \in Procs, Crash(p) PROVE Exclusive!Crash(p)
  BY <1>5 DEF Crash, Exclusive!Crash
<1>6. ASSUME NEW p \in Procs, Attempt(p) \/ ListMarkers(p) \/ FinishScan(p) \/ Retry(p)
                               \/ AttemptFails(p) \/ \E q \in Procs : PassMarker(p, q)
      PROVE  UNCHANGED Exclusive!lockVars
  BY <1>6 DEF Attempt, ListMarkers, FinishScan, Retry, AttemptFails, PassMarker
<1>7. ASSUME NEW p \in Procs, Seek(p) \/ Claim(p) \/ Walk(p) \/ Fence(p)
      PROVE  UNCHANGED Exclusive!lockVars
  BY <1>7 DEF Seek, Claim, Walk, Fence
<1>8. ASSUME NEW p \in Procs, PublishMarker(p) \/ VerifyOwner(p) \/ ReleaseFails(p)
                               \/ ClearMarker(p)
      PROVE  UNCHANGED Exclusive!lockVars
  BY <1>8 DEF PublishMarker, VerifyOwner, ReleaseFails, ClearMarker
<1>9. CASE UNCHANGED vars
  BY <1>9 DEF vars
<1> QED
  BY <1>1, <1>2, <1>3, <1>4, <1>5, <1>6, <1>7, <1>8, <1>9
  DEF Next, Acquiring, Recover, Releases

(* No unlink, however late, takes the lock of a process inside: the lock    *)
(* file implements the exclusive lock that SchoolMode relies on.            *)
THEOREM LockImplementsExclusive == Spec => LockIsExclusive
<1>1. Init => Exclusive!LockInit
  BY DEF Init, Exclusive!LockInit, Inside
<1> QED
  BY <1>1, LockCorrect, LockStepRefines, PTL DEF Spec, LockIsExclusive, Exclusive!LockSpec
=============================================================================
