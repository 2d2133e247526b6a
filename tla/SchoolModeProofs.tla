-------------------------- MODULE SchoolModeProofs --------------------------
(***************************************************************************)
(* The shared School mode record, for any number of applications, any set  *)
(* of credentials and any bound on revisions.                              *)
(***************************************************************************)
EXTENDS SchoolMode, TLAPS

LEMMA RequestTypes ==
  /\ NoRequest.op = "none"
  /\ \A r \in Requests : r # NoRequest
  /\ \A r \in Requests : r.new \in Secrets \cup {NoSecret}
  /\ \A r \in Requests : r.op \in {"configure", "change"} => r.new \in Secrets
BY DEF Requests, NoRequest

LEMMA TypeCorrect == Spec => []TypeOK
<1>a. Missing \in Records /\ \A s \in Secrets : Legacy(TRUE, s) \in Records
  BY MaxAssumption DEF Missing, Legacy, Records
<1>b. Request(NoRequest, Missing)
        \in [ask : Requests \cup {NoRequest}, epoch : Nat, rev : Nat]
  BY DEF Request, Missing
<1>1. Init => TypeOK
  <2> SUFFICES ASSUME Init PROVE TypeOK
    OBVIOUS
  <2>1. record \in Records /\ epochs \in Nat
    BY <1>a DEF Init
  <2>2. req \in [Procs -> [ask : Requests \cup {NoRequest}, epoch : Nat, rev : Nat]]
    BY <1>b DEF Init
  <2>3. target \in [Procs -> Records] /\ known \in [Procs -> Records]
    BY <1>a DEF Init
  <2> QED
    BY <2>1, <2>2, <2>3 DEF Init, LockInit, TypeOK
<1>2. TypeOK /\ [Next]_vars => TypeOK'
  <2> SUFFICES ASSUME TypeOK, [Next]_vars PROVE TypeOK'
    OBVIOUS
  <2> USE DEF TypeOK, Goto, lockVars
  <2>a. ASSUME NEW p \in Procs
        PROVE  Done(p) => /\ req' \in [Procs -> [ask : Requests \cup {NoRequest}, epoch : Nat, rev : Nat]]
                          /\ target' \in [Procs -> Records]
    BY <1>a, <1>b DEF Done
  <2>b. ASSUME NEW p \in Procs PROVE Accept(p) => known' \in [Procs -> Records]
    BY DEF Accept
  <2>1. ASSUME NEW p \in Procs, Mutation(p) PROVE TypeOK'
    <3>1. CASE Acquire(p)
      BY <3>1 DEF Acquire, Enter
    <3>2. CASE AcquireFails(p)
      BY <3>2, <2>a DEF AcquireFails
    <3>3. CASE ReadLatest(p)
      <4>1. CASE Wanted(p) /\ target' = [target EXCEPT ![p] = Revised(req[p].ask, record)]
        <5>1. Revised(req[p].ask, record) \in Records
          <6> DEFINE ask == req[p].ask
          <6>1. ask \in Requests \cup {NoRequest}
            OBVIOUS
          <6>2. NextRevision(record) \in 0 .. MaxRevision
            <7>1. CASE IsLegacy(record)
              BY <7>1, MaxAssumption DEF NextRevision
            <7>2. CASE ~IsLegacy(record)
              BY <7>2, <4>1, MaxAssumption
              DEF NextRevision, Wanted, Rejects, Exhausted, Records
            <7> QED
              BY <7>1, <7>2
          <6>3. (IF ask.op \in {"configure", "change"} THEN ask.new ELSE record.secret)
                  \in Secrets \cup {NoSecret}
            BY <6>1, RequestTypes DEF Records
          <6>4. (CASE ask.op \in {"configure", "enable"} -> TRUE
                   [] ask.op = "disable" -> FALSE
                   [] OTHER -> record.enabled) \in BOOLEAN
            BY DEF Records
          <6>5. (IF record.epoch = 0 THEN epochs + 1 ELSE record.epoch) \in Nat
            BY DEF Records
          <6> QED
            BY <6>2, <6>3, <6>4, <6>5 DEF Revised, Records
        <5> QED
          BY <3>3, <4>1, <5>1, <2>a, <2>b DEF ReadLatest
      <4>2. CASE Done(p)
        BY <3>3, <4>2, <2>a, <2>b DEF ReadLatest
      <4> QED
        BY <3>3, <4>1, <4>2 DEF ReadLatest
    <3>4. CASE Write(p)
      <4>1. target[p] \in Records /\ target[p].epoch \in Nat
        BY DEF Records
      <4>2. record' \in Records /\ epochs' \in Nat
        BY <3>4, <4>1 DEF Write
      <4> QED
        BY <3>4, <4>2, <2>a DEF Write
    <3>5. CASE ReadBack(p)
      BY <3>5, <2>a, <2>b DEF ReadBack
    <3>6. CASE Release(p)
      BY <3>6 DEF Release, Leave
    <3> QED
      BY <2>1, <3>1, <3>2, <3>3, <3>4, <3>5, <3>6 DEF Mutation
  <2>2. ASSUME NEW p \in Procs, Refresh(p) PROVE TypeOK'
    BY <2>2, <2>b DEF Refresh
  <2>3. ASSUME NEW p \in Procs, Environment(p) PROVE TypeOK'
    <3>1. ASSUME NEW r \in Requests, Ask(p, r) PROVE TypeOK'
      <4>1. Request(r, known[p]) \in [ask : Requests \cup {NoRequest}, epoch : Nat, rev : Nat]
        BY DEF Request, Records
      <4> QED
        BY <3>1, <4>1 DEF Ask
    <3>2. CASE Dispose(p)
      BY <3>2 DEF Dispose
    <3>3. CASE CrashProcess(p)
      BY <3>3, <2>a, <1>a DEF CrashProcess, Crash
    <3> QED
      BY <2>3, <3>1, <3>2, <3>3 DEF Environment
  <2>4. CASE FreeLock
    BY <2>4 DEF FreeLock, Free
  <2>5. CASE UserDeletes
    BY <2>5, <1>a DEF UserDeletes
  <2>6. CASE UNCHANGED vars
    BY <2>6 DEF vars
  <2> QED
    BY <2>1, <2>2, <2>3, <2>4, <2>5, <2>6 DEF Next
<1> QED
  BY <1>1, <1>2, PTL DEF Spec

(* The reading of a mutation prepares a record that follows all others. *)
LEMMA PreparedFollows ==
  ASSUME RecordInv, NEW p \in Procs, Wanted(p), UNCHANGED <<record, epochs, req, known>>,
         target'[p] = Revised(req[p].ask, record)
  PROVE  TargetFollows(p)'
<1> DEFINE t == target'[p]
<1>1. TypeOK /\ LatestEpoch /\ KnownIsPast
  BY DEF RecordInv
<1>2. record.epoch \in Nat /\ record.rev \in Nat /\ epochs \in Nat
  BY <1>1 DEF TypeOK, Records
<1>3. \A q \in Procs : known[q].epoch \in Nat /\ known[q].rev \in Nat
  BY <1>1 DEF TypeOK, Records
<1>4. /\ t.epoch = IF record.epoch = 0 THEN epochs + 1 ELSE record.epoch
      /\ t.rev = NextRevision(record)
  BY DEF Revised
<1>5. t.epoch # 0 /\ t.epoch \in {epochs, epochs + 1}
  BY <1>1, <1>2, <1>4 DEF LatestEpoch
<1>6. CASE record.epoch = 0
  <2>1. \A q \in Procs : known[q].epoch # t.epoch
    BY <1>1, <1>2, <1>3, <1>4, <1>6 DEF LatestEpoch
  <2> QED
    BY <1>5, <1>6, <2>1 DEF TargetFollows, Precedes
<1>7. CASE record.epoch # 0
  <2>1. t.epoch = record.epoch /\ t.rev = record.rev + 1
    BY <1>4, <1>7 DEF NextRevision, IsLegacy
  <2>2. \A q \in Procs : Precedes(known[q], t)
    BY <1>1, <1>2, <1>3, <2>1 DEF KnownIsPast, Precedes
  <2>3. Precedes(record, t)
    BY <1>2, <2>1 DEF Precedes
  <2>4. req[p].ask # NoRequest /\ Expected(p) /\ ~Rejects(req[p].ask, record)
    BY <1>7 DEF Wanted, IsLegacy
  <2>5. Revises(p)'
    BY <2>4 DEF Revises, Expected, Rejects, Unverified, Exhausted, Revised, NextRevision, IsLegacy
  <2> QED
    BY <1>5, <2>2, <2>3, <2>5 DEF TargetFollows
<1> QED
  BY <1>6, <1>7

(* What a target follows, it still follows when more is known of the record *)
(* on disk, or when that is deleted.                                        *)
LEMMA StillFollows ==
  ASSUME NEW q \in Procs, TargetFollows(q), epochs' = epochs,
         record' = record \/ record' = Missing,
         req'[q] = req[q], target'[q] = target[q],
         \A r \in Procs : known'[r] \in {known[r], record, Missing}
  PROVE  TargetFollows(q)'
<1>1. Missing.epoch = 0
  BY DEF Missing
<1>2. \A r \in Procs : Precedes(known'[r], target[q])
  BY <1>1 DEF TargetFollows, Precedes
<1>3. Precedes(record', target[q])
  BY <1>1 DEF TargetFollows, Precedes
<1>4. record'.epoch # 0 => Revises(q)'
  <2>1. CASE record' = record
    BY <2>1 DEF TargetFollows, Revises, Rejects, Unverified, Exhausted, Revised,
       NextRevision, IsLegacy
  <2>2. CASE record' = Missing
    BY <2>2, <1>1
  <2> QED
    BY <2>1, <2>2
<1> QED
  BY <1>2, <1>3, <1>4 DEF TargetFollows

(* Nothing else than Write changes the record, save a deletion: a step that *)
(* starts no write keeps the invariant if processes only learn the record.  *)
LEMMA QuietStep ==
  ASSUME RecordInv, TypeOK', OneInside', epochs' = epochs,
         record' = record \/ (record' = Missing /\ known' = known),
         \A r \in Procs : known'[r] \in {known[r], record, Missing},
         \A q \in Procs : pc'[q] = "write"
             => \/ pc[q] = "write" /\ req'[q] = req[q] /\ target'[q] = target[q]
                \/ TargetFollows(q)'
  PROVE  RecordInv'
<1>a. Missing.epoch = 0 /\ Missing.rev = 0
  BY DEF Missing
<1>b. TypeOK /\ LatestEpoch /\ WritesFollow /\ KnownIsPast /\ KnownAgree
  BY DEF RecordInv
<1>1. LatestEpoch'
  <2>1. epochs \in Nat /\ record.epoch \in {0, epochs} /\ record'.epoch \in {0, epochs}
    BY <1>a, <1>b DEF LatestEpoch, TypeOK
  <2>2. \A r \in Procs : known'[r].epoch <= epochs
    BY <1>a, <1>b, <2>1 DEF LatestEpoch
  <2> QED
    BY <2>1, <2>2 DEF LatestEpoch
<1>2. WritesFollow'
  BY <1>b, StillFollows DEF WritesFollow
<1>3. KnownIsPast'
  BY <1>a, <1>b DEF KnownIsPast, Precedes
<1>4. KnownAgree'
  <2> SUFFICES ASSUME NEW p \in Procs, NEW q \in Procs PROVE SameRecord(known'[p], known'[q])
    BY DEF KnownAgree
  <2>1. /\ known[p].rev \in Nat /\ known[q].rev \in Nat /\ record.rev \in Nat
    BY <1>b DEF TypeOK, Records
  <2>2. SameRecord(known[p], record) /\ SameRecord(record, known[q])
    BY <1>b, <2>1 DEF KnownIsPast, Precedes, SameRecord
  <2>3. SameRecord(known[p], known[q])
    BY <1>b DEF KnownAgree
  <2> QED
    BY <1>a, <2>2, <2>3 DEF SameRecord
<1> QED
  BY <1>1, <1>2, <1>3, <1>4 DEF RecordInv

(* Only the process inside has a label of the critical section. *)
LEMMA OneInsideStep == TypeOK /\ OneInside /\ [Next]_vars => OneInside'
<1> SUFFICES ASSUME TypeOK, OneInside, [Next]_vars PROVE OneInside'
  OBVIOUS
<1> USE DEF OneInside, MutualExclusion, InLock, TypeOK, Goto, lockVars
<1>1. ASSUME NEW p \in Procs, Mutation(p) PROVE OneInside'
  <2>1. CASE Acquire(p)
    BY <2>1, ProcsAssumption DEF Acquire, Enter
  <2>2. CASE AcquireFails(p)
    BY <2>2 DEF AcquireFails
  <2>3. CASE ReadLatest(p)
    BY <2>3 DEF ReadLatest
  <2>4. CASE Write(p)
    BY <2>4 DEF Write
  <2>5. CASE ReadBack(p)
    BY <2>5 DEF ReadBack
  <2>6. CASE Release(p)
    BY <2>6 DEF Release, Leave
  <2> QED
    BY <1>1, <2>1, <2>2, <2>3, <2>4, <2>5, <2>6 DEF Mutation
<1>2. ASSUME NEW p \in Procs, Refresh(p) PROVE OneInside'
  BY <1>2 DEF Refresh
<1>3. ASSUME NEW p \in Procs, Environment(p) PROVE OneInside'
  <2>1. ASSUME NEW r \in Requests, Ask(p, r) PROVE OneInside'
    BY <2>1 DEF Ask
  <2>2. CASE Dispose(p)
    BY <2>2 DEF Dispose
  <2>3. CASE CrashProcess(p)
    BY <2>3 DEF CrashProcess, Crash
  <2> QED
    BY <1>3, <2>1, <2>2, <2>3 DEF Environment
<1>4. CASE FreeLock
  BY <1>4 DEF FreeLock, Free
<1>5. CASE UserDeletes
  BY <1>5 DEF UserDeletes
<1>6. CASE UNCHANGED vars
  BY <1>6 DEF vars
<1> QED
  BY <1>1, <1>2, <1>3, <1>4, <1>5, <1>6 DEF Next

(* The write itself: what it replaces and what everybody knows come before. *)
LEMMA WriteStep ==
  ASSUME RecordInv, TypeOK', OneInside', NEW p \in Procs, Write(p), record' = target[p]
  PROVE  RecordInv'
<1>1. TypeOK /\ OneInside /\ TargetFollows(p)
  BY DEF RecordInv, WritesFollow, Write
<1>2. epochs' = target[p].epoch
  <2>1. target[p].epoch \in {epochs, epochs + 1} /\ epochs \in Nat
    BY <1>1 DEF TargetFollows, TypeOK
  <2>2. CASE epochs' = IF target[p].epoch > epochs THEN target[p].epoch ELSE epochs
    BY <2>1, <2>2
  <2>3. CASE UNCHANGED <<record, epochs>>
    <3>1. record.epoch = target[p].epoch /\ record.epoch # 0 /\ record.rev = target[p].rev
      BY <1>1, <2>3 DEF TargetFollows
    <3>2. record.rev \in Nat
      BY <1>1 DEF TypeOK, Records
    <3> QED
      BY <1>1, <3>1, <3>2 DEF TargetFollows, Precedes
  <2> QED
    BY <2>2, <2>3 DEF Write
<1>3. known' = known
  BY DEF Write
<1>4. LatestEpoch'
  <2>1. \A q \in Procs : known[q].epoch <= epochs'
    BY <1>1, <1>2 DEF RecordInv, LatestEpoch, TargetFollows, TypeOK, Records
  <2> QED
    BY <1>2, <1>3, <2>1 DEF LatestEpoch
<1>5. WritesFollow'
  <2>1. \A q \in Procs : pc'[q] # "write"
    BY <1>1 DEF Write, Goto, OneInside, MutualExclusion, InLock, TypeOK
  <2> QED
    BY <2>1 DEF WritesFollow
<1>6. KnownIsPast'
  BY <1>1, <1>3 DEF KnownIsPast, TargetFollows
<1>7. KnownAgree'
  BY <1>3 DEF RecordInv, KnownAgree
<1> QED
  BY <1>4, <1>5, <1>6, <1>7 DEF RecordInv

(* The inductive step. *)
LEMMA RecordStep == RecordInv /\ TypeOK' /\ OneInside' /\ [Next]_vars => RecordInv'
<1> SUFFICES ASSUME RecordInv, TypeOK', OneInside', [Next]_vars PROVE RecordInv'
  OBVIOUS
<1>a. TypeOK
  BY DEF RecordInv
<1> USE DEF Goto, Done, Accept
<1>1. ASSUME NEW p \in Procs, Mutation(p) PROVE RecordInv'
  <2>1. CASE Acquire(p)
    BY <2>1, <1>a, QuietStep DEF Acquire, TypeOK
  <2>2. CASE AcquireFails(p)
    BY <2>2, <1>a, QuietStep DEF AcquireFails, TypeOK
  <2>3. CASE ReadLatest(p)
    <3>1. /\ UNCHANGED <<record, epochs>>
          /\ \A q \in Procs : known'[q] \in {known[q], record, Missing}
          /\ \A q \in Procs \ {p} : UNCHANGED <<pc[q], req[q], target[q]>>
      BY <2>3, <1>a DEF ReadLatest, TypeOK
    <3>2. pc'[p] = "write" => TargetFollows(p)'
      <4>1. SUFFICES ASSUME pc'[p] = "write" PROVE TargetFollows(p)'
        OBVIOUS
      <4>2. Wanted(p) /\ UNCHANGED <<req, known>> /\ target'[p] = Revised(req[p].ask, record)
        BY <2>3, <4>1, <1>a DEF ReadLatest, TypeOK
      <4> QED
        BY <3>1, <4>2, PreparedFollows
    <3> QED
      BY <3>1, <3>2, QuietStep
  <2>4. CASE Write(p)
    <3>1. CASE record' = target[p]
      BY <2>4, <3>1, WriteStep
    <3>2. CASE record' # target[p]
      BY <2>4, <3>2, <1>a, QuietStep DEF Write, TypeOK
    <3> QED
      BY <3>1, <3>2
  <2>5. CASE ReadBack(p)
    BY <2>5, <1>a, QuietStep DEF ReadBack, TypeOK
  <2>6. CASE Release(p)
    BY <2>6, <1>a, QuietStep DEF Release, TypeOK
  <2> QED
    BY <1>1, <2>1, <2>2, <2>3, <2>4, <2>5, <2>6 DEF Mutation
<1>2. ASSUME NEW p \in Procs, Refresh(p) PROVE RecordInv'
  BY <1>2, <1>a, QuietStep DEF Refresh, TypeOK
<1>3. ASSUME NEW p \in Procs, Environment(p) PROVE RecordInv'
  <2>1. ASSUME NEW r \in Requests, Ask(p, r) PROVE RecordInv'
    BY <2>1, <1>a, QuietStep DEF Ask, TypeOK
  <2>2. CASE Dispose(p)
    BY <2>2, <1>a, QuietStep DEF Dispose
  <2>3. CASE CrashProcess(p)
    BY <2>3, <1>a, QuietStep DEF CrashProcess, TypeOK
  <2> QED
    BY <1>3, <2>1, <2>2, <2>3 DEF Environment
<1>4. CASE FreeLock
  BY <1>4, <1>a, QuietStep DEF FreeLock
<1>5. CASE UserDeletes
  BY <1>5, <1>a, QuietStep DEF UserDeletes
<1>6. CASE UNCHANGED vars
  BY <1>6, <1>a, QuietStep DEF vars
<1> QED
  BY <1>1, <1>2, <1>3, <1>4, <1>5, <1>6 DEF Next

(* The invariant of the shared record, for any processes and revisions. *)
THEOREM RecordCorrect == Spec => []RecordInv
<1>a. Missing.epoch = 0 /\ \A s \in Secrets : Legacy(TRUE, s).epoch = 0
  BY DEF Missing, Legacy
<1>1. Init => OneInside
  BY DEF Init, LockInit, OneInside, MutualExclusion, InLock
<1>2. Init /\ TypeOK => RecordInv
  <2> SUFFICES ASSUME Init, TypeOK PROVE RecordInv
    OBVIOUS
  <2>1. epochs = 0 /\ record.epoch = 0 /\ \A p \in Procs : known[p] = Missing
    <3>1. record = Missing \/ \E s \in Secrets : record = Legacy(TRUE, s)
      BY DEF Init
    <3>2. record.epoch = 0
      BY <3>1 DEF Missing, Legacy
    <3> QED
      BY <3>2 DEF Init
  <2>2. LatestEpoch
    BY <1>a, <2>1 DEF LatestEpoch
  <2>3. WritesFollow
    BY DEF Init, WritesFollow
  <2>4. KnownIsPast /\ KnownAgree
    BY <1>a, <2>1 DEF KnownIsPast, KnownAgree, Precedes, SameRecord
  <2> QED
    BY <1>1, <2>2, <2>3, <2>4 DEF RecordInv
<1>3. RecordInv => OneInside
  BY DEF RecordInv
<1>4. Spec => []OneInside
  BY <1>1, TypeCorrect, OneInsideStep, PTL DEF Spec
<1> QED
  BY <1>2, <1>4, TypeCorrect, RecordStep, PTL DEF Spec

(* No two processes ever know different contents under one identity and     *)
(* revision, nor one that differs from the file.                            *)
THEOREM RevisionsNameContents == Spec => []RevisionsAgree
<1>1. RecordInv => RevisionsAgree
  <2> SUFFICES ASSUME RecordInv, NEW p \in alive, NEW q \in alive
               PROVE SameRecord(known[p], record) /\ SameRecord(known[p], known[q])
    BY DEF RevisionsAgree
  <2>1. p \in Procs /\ q \in Procs /\ known[p].rev \in Nat
    BY DEF RecordInv, TypeOK, Records
  <2>2. Precedes(known[p], record) \/ known[p] = record
    BY <2>1 DEF RecordInv, KnownIsPast
  <2>3. SameRecord(known[p], record)
    BY <2>1, <2>2 DEF Precedes, SameRecord
  <2> QED
    BY <2>1, <2>3 DEF RecordInv, KnownAgree
<1> QED
  BY <1>1, RecordCorrect, PTL

(* Every step that replaces the record is the write of the process inside.  *)
LEMMA OnlyWriteReplaces ==
  ASSUME RecordInv, [Next]_vars, Replaced
  PROVE  \E p \in inside : /\ pc[p] = "write" /\ ~closed[p] /\ record' = target[p]
                           /\ (record.epoch # 0 => Revises(p))
<1>1. PICK p \in Procs : Write(p) /\ record' # record
  <2>1. ASSUME NEW p \in Procs, Refresh(p) \/ Environment(p) PROVE record' = record
    BY <2>1 DEF Refresh, Environment, Ask, Dispose, CrashProcess
  <2>2. ASSUME NEW p \in Procs, Mutation(p) PROVE Write(p) \/ record' = record
    BY <2>2 DEF Mutation, Acquire, AcquireFails, ReadLatest, ReadBack, Release
  <2>3. FreeLock \/ UNCHANGED vars => record' = record
    BY DEF FreeLock, vars
  <2> QED
    BY <2>1, <2>2, <2>3 DEF Next, Replaced, UserDeletes
<1> QED
  BY <1>1 DEF Write, MayPublish, RecordInv, WritesFollow, TargetFollows

(* Compare-and-swap: a mutation replaces the very record that its renderer  *)
(* was shown, whatever the other applications did in between.               *)
THEOREM NoUpdateIsLost == Spec => NoLostUpdate
<1>1. ASSUME RecordInv, [Next]_vars
      PROVE  Replaced /\ record.epoch # 0
             => \E p \in inside : /\ pc[p] = "write"
                                  /\ req[p].epoch = record.epoch
                                  /\ req[p].rev = record.rev
  BY <1>1, OnlyWriteReplaces DEF Revises
<1> QED
  BY <1>1, RecordCorrect, PTL DEF Spec, NoLostUpdate

(* The mode is turned off, and its credential changed, only by who proves   *)
(* the credential of the record that is replaced.                           *)
THEOREM LatestCredentialIsProved == Spec => VerifiedAgainstLatest
<1>1. ASSUME RecordInv, [Next]_vars
      PROVE  Replaced /\ record.epoch # 0
               /\ (record'.secret # record.secret \/ (record.enabled /\ ~record'.enabled))
             => \/ record.secret = NoSecret
                \/ \E p \in inside : pc[p] = "write" /\ req[p].ask.old = record.secret
  <2> SUFFICES ASSUME Replaced, record.epoch # 0, record.secret # NoSecret,
                      record'.secret # record.secret \/ (record.enabled /\ ~record'.enabled)
               PROVE  \E p \in inside : pc[p] = "write" /\ req[p].ask.old = record.secret
    OBVIOUS
  <2>1. PICK p \in inside : pc[p] = "write" /\ record' = target[p] /\ Revises(p)
    BY <1>1, OnlyWriteReplaces
  <2>2. req[p].ask.op \in {"configure", "change", "disable"}
    BY <2>1 DEF Revises, Revised
  <2>3. req[p].ask.op # "configure"
    BY <2>1 DEF Revises, Rejects
  <2> QED
    BY <2>1, <2>2, <2>3 DEF Revises, Rejects, Unverified
<1> QED
  BY <1>1, RecordCorrect, PTL DEF Spec, VerifiedAgainstLatest

(* A disposed service publishes nothing more. *)
THEOREM ClosedServicesAreQuiet == Spec => ClosedIsQuiet
<1>1. ASSUME RecordInv, [Next]_vars
      PROVE  Replaced => \E p \in inside : pc[p] = "write" /\ ~closed[p]
  BY <1>1, OnlyWriteReplaces
<1> QED
  BY <1>1, RecordCorrect, PTL DEF Spec, ClosedIsQuiet

(* What a process knows of one record changes only with a higher revision.  *)
THEOREM RevisionsGrow == Spec => KnownAdvances
<1>1. ASSUME RecordInv, [Next]_vars, NEW p \in Procs
      PROVE  /\ known[p].epoch # 0 /\ known'[p].epoch = known[p].epoch
             /\ known'[p] # known[p]
             => known'[p].rev > known[p].rev
  <2>1. TypeOK /\ known[p].rev \in Nat /\ record.rev \in Nat
    BY <1>1 DEF RecordInv, TypeOK, Records
  <2>2. known'[p] \in {known[p], record, Missing}
    <3>1. ASSUME NEW q \in Procs, Mutation(q) PROVE known'[p] \in {known[p], record, Missing}
      BY <2>1, <3>1 DEF Mutation, Acquire, AcquireFails, ReadLatest, Write, ReadBack, Release,
         Accept, TypeOK
    <3>2. ASSUME NEW q \in Procs, Refresh(q) \/ Environment(q)
          PROVE  known'[p] \in {known[p], record, Missing}
      BY <2>1, <3>2 DEF Refresh, Environment, Ask, Dispose, CrashProcess, Accept, TypeOK
    <3>3. FreeLock \/ UserDeletes \/ UNCHANGED vars => known' = known
      BY DEF FreeLock, UserDeletes, vars
    <3> QED
      BY <1>1, <3>1, <3>2, <3>3 DEF Next
  <2>3. Precedes(known[p], record) \/ known[p] = record
    BY <1>1 DEF RecordInv, KnownIsPast
  <2> QED
    BY <2>1, <2>2, <2>3 DEF Precedes, Missing
<1>2. ASSUME RecordInv, [Next]_vars
      PROVE  \A p \in Procs : /\ known[p].epoch # 0 /\ known'[p].epoch = known[p].epoch
                              /\ known'[p] # known[p]
                              => known'[p].rev > known[p].rev
  BY <1>1, <1>2
<1> QED
  BY <1>2, RecordCorrect, PTL DEF Spec, KnownAdvances
=============================================================================
