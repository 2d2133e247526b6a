---------------------------- MODULE ServicesProofs ----------------------------
(***************************************************************************)
(* The gate before the local history, the locks, the replacement of a      *)
(* portable directory, the protocol with a guest and the appearance        *)
(* editor, for any number of calls, credentials, targets, outputs, looks   *)
(* and faults.                                                             *)
(***************************************************************************)
EXTENDS HistoryAccess, LockSupport, PortableReplace, GuestProtocol, AppearanceDraft,
        SequenceTheorems, TLAPS

(***************************************************************************)
(* HistoryAccess                                                           *)
(***************************************************************************)

(* A creation has a credential; and only a fresh token counts, which is of *)
(* a session that has been open ever since.                                *)
CallsInv ==
    /\ \A u \in Users : calls[u].step \in {"writing", "written"}
                        => calls[u].given \in Secrets
    /\ \A u \in fresh : u \in held /\ open /\ ~restricted

AccessInv == OneCredential /\ CallsInv

LEMMA NoCallIsIdle ==
    /\ NoCall \in [step: Steps, given: Secrets \cup {None}]
    /\ NoCall.step = "none"
<1>1. NoCall = [step |-> "none", given |-> None]
  BY DEF NoCall, Call
<1>2. "none" \in Steps /\ None \in Secrets \cup {None}
  BY DEF Steps
<1> QED
  BY <1>1, <1>2

LEMMA AccessInitially == AccessInit => AccessInv
<1> SUFFICES ASSUME AccessInit PROVE AccessInv
  OBVIOUS
<1> USE SecretsAssumption, AccessBoundsAssumption DEF AccessInit
<1>1. \A u \in Users : calls[u] = NoCall /\ calls[u].step = "none"
  BY NoCallIsIdle
<1>2. calls \in [Users -> [step: Steps, given: Secrets \cup {None}]]
  BY NoCallIsIdle
<1>3. failures \in 0..MaxFailures /\ accessFaults \in 0..AccessFaults
  OBVIOUS
<1>4. AccessTypeOK
  BY <1>2, <1>3 DEF AccessTypeOK
<1> QED
  BY <1>1, <1>4 DEF AccessInv, CallsInv, OneCredential

LEMMA AccessStep == AccessInv /\ [AccessNext]_accessVars => AccessInv'
<1> SUFFICES ASSUME AccessInv, [AccessNext]_accessVars PROVE AccessInv'
  OBVIOUS
<1> USE SecretsAssumption, AccessBoundsAssumption, NoCallIsIdle
    DEF AccessInv, CallsInv, OneCredential, AccessTypeOK,
        service, session, FaultHappens
<1>1. CASE LoadAccess
  BY <1>1 DEF LoadAccess
<1>2. CASE Lock
  BY <1>2 DEF Lock, Close
<1>3. CASE SchoolTells
  BY <1>3 DEF SchoolTells, Close
<1>4. CASE PropertyLockChanges
  BY <1>4 DEF PropertyLockChanges
<1>5. CASE AccessCrash
  <2> USE <1>5 DEF AccessCrash, Close
  <2>1. \A u \in Users : calls'[u] = NoCall /\ calls'[u].step = "none"
    OBVIOUS
  <2>2. calls' \in [Users -> [step: Steps, given: Secrets \cup {None}]]
    OBVIOUS
  <2>3. accessFile' \in Secrets \cup {None, Spoilt}
    BY DEF Half
  <2>4. failures' \in 0..MaxFailures /\ accessFaults' \in 0..AccessFaults
    OBVIOUS
  <2>5. AccessTypeOK'
    BY <2>2, <2>3, <2>4
  <2> QED
    BY <2>1, <2>5
<1>6. ASSUME NEW secret \in Secrets, Unlock(secret) PROVE AccessInv'
  BY <1>6 DEF Unlock, Asked, MayTry, Reopen
<1>7. ASSUME NEW secret \in Secrets, UnlockFails(secret) PROVE AccessInv'
  <2>1. failures' \in 0..MaxFailures
    BY <1>7 DEF UnlockFails, MayTry
  <2> QED
    BY <1>7, <2>1 DEF UnlockFails, Asked, Close
<1>8. ASSUME NEW secret \in Secrets, NEW u \in Users, Create(u, secret)
      PROVE  AccessInv'
  BY <1>8 DEF Create, Call, Steps
<1>9. ASSUME NEW u \in Users, WriteVerifier(u) PROVE AccessInv'
  <2>1. failures' \in 0..MaxFailures /\ accessFaults' \in 0..AccessFaults
    BY <1>9 DEF WriteVerifier
  <2>2. CASE accessFile = None
    BY <1>9, <2>1, <2>2 DEF WriteVerifier, To, Call, Steps
  <2>3. CASE accessFile # None
    <3>1. /\ calls' = [calls EXCEPT ![u] = NoCall]
          /\ open' = FALSE /\ fresh' = {} /\ held' = {}
          /\ UNCHANGED <<accessFile, accessLoaded, available, verifier,
                         restricted, propertyLock>>
      BY <1>9, <2>3 DEF WriteVerifier, Close
    <3>2. \A v \in Users : \/ calls'[v] = calls[v]
                           \/ calls'[v].step = "none"
      BY <3>1
    <3>3. AccessTypeOK'
      BY <2>1, <3>1
    <3> QED
      BY <3>1, <3>2, <3>3
  <2> QED
    BY <2>2, <2>3
<1>10. ASSUME NEW u \in Users, WriteVerifierFails(u) PROVE AccessInv'
  <2>1. failures' \in 0..MaxFailures /\ accessFaults' \in 0..AccessFaults
    BY <1>10 DEF WriteVerifierFails
  <2>2. accessFile' \in Secrets \cup {None, Spoilt}
    BY <1>10 DEF WriteVerifierFails, Half
  <2> QED
    BY <1>10, <2>1, <2>2 DEF WriteVerifierFails, Half, Close
<1>11. ASSUME NEW u \in Users, Created(u) PROVE AccessInv'
  BY <1>11 DEF Created, Reopen
<1>12. ASSUME NEW u \in Users, BeginRead(u) PROVE AccessInv'
  <2>1. failures' \in 0..MaxFailures /\ accessFaults' \in 0..AccessFaults
    BY <1>12 DEF BeginRead
  <2>2. CASE restricted
    BY <1>12, <2>1, <2>2 DEF BeginRead, Close
  <2>3. CASE ~restricted
    BY <1>12, <2>1, <2>3 DEF BeginRead, Take, To, Call, Steps
  <2> QED
    BY <2>2, <2>3
<1>13. ASSUME NEW u \in Users, EndRead(u) PROVE AccessInv'
  BY <1>13 DEF EndRead, Current, To, Call, Steps
<1>14. ASSUME NEW u \in Users, BeginRestore(u) PROVE AccessInv'
  BY <1>14 DEF BeginRestore, Take, To, Call, Steps
<1>15. ASSUME NEW u \in Users, RunRestore(u) PROVE AccessInv'
  BY <1>15 DEF RunRestore, Current, To, Call, Steps
<1>16. ASSUME NEW u \in Users, EndRestore(u) PROVE AccessInv'
  BY <1>16 DEF EndRestore, Current, To, Call, Steps
<1>17. ASSUME NEW u \in Users, Received(u) PROVE AccessInv'
  BY <1>17 DEF Received
<1>18. CASE UNCHANGED accessVars
  BY <1>18 DEF accessVars
<1> QED
  BY <1>1, <1>2, <1>3, <1>4, <1>5, <1>6, <1>7, <1>8, <1>9, <1>10, <1>11,
     <1>12, <1>13, <1>14, <1>15, <1>16, <1>17, <1>18 DEF AccessNext

LEMMA AccessCorrect == AccessSpec => []AccessInv
BY AccessInitially, AccessStep, PTL DEF AccessSpec

(* Whichever of two overlapping creations comes first, the credential that *)
(* opens the gate is the one on disk (history-access-service.ts:88-103).   *)
THEOREM OneCredentialOpens == AccessSpec => []OneCredential
<1>1. AccessInv => OneCredential
  BY DEF AccessInv
<1> QED
  BY <1>1, AccessCorrect, PTL

(* A restoration begins, and an answer is given, only in the session that  *)
(* asked (main.ts:578-655).                                                *)
THEOREM SessionsAnswer == AccessSpec => AnswersAreOfTheSession
<1> DEFINE Told ==
      \A u \in Users :
          /\ calls'[u].step \in {"applying", "told"}
          /\ calls'[u].step # calls[u].step
          => u \in held /\ open /\ ~restricted
<1>1. AccessInv /\ [AccessNext]_accessVars => [Told]_accessVars
  <2> SUFFICES ASSUME AccessInv, AccessNext PROVE Told
    OBVIOUS
  <2> USE NoCallIsIdle DEF AccessInv, CallsInv, OneCredential, AccessTypeOK
  <2>1. CASE LoadAccess \/ Lock \/ SchoolTells \/ PropertyLockChanges \/ AccessCrash
    BY <2>1 DEF LoadAccess, Lock, SchoolTells, PropertyLockChanges, AccessCrash
  <2>2. ASSUME NEW secret \in Secrets, Unlock(secret) \/ UnlockFails(secret)
        PROVE  Told
    BY <2>2 DEF Unlock, UnlockFails, Asked
  <2>3. ASSUME NEW secret \in Secrets, NEW u \in Users, Create(u, secret) PROVE Told
    BY <2>3 DEF Create, Call
  <2>4. ASSUME NEW u \in Users,
               WriteVerifier(u) \/ WriteVerifierFails(u) \/ Created(u)
        PROVE  Told
    BY <2>4 DEF WriteVerifier, WriteVerifierFails, Created, To, Call
  <2>5. ASSUME NEW u \in Users, BeginRead(u) \/ BeginRestore(u) \/ Received(u)
        PROVE  Told
    BY <2>5 DEF BeginRead, BeginRestore, Received, To, Call
  <2>6. ASSUME NEW u \in Users, EndRead(u) \/ RunRestore(u) \/ EndRestore(u)
        PROVE  Told
    BY <2>6 DEF EndRead, RunRestore, EndRestore, Current, To, Call
  <2> QED
    BY <2>1, <2>2, <2>3, <2>4, <2>5, <2>6 DEF AccessNext
<1> QED
  BY <1>1, AccessCorrect, PTL DEF AccessSpec, AnswersAreOfTheSession

(***************************************************************************)
(* LockSupport                                                             *)
(***************************************************************************)

(* A job works on one key, ... *)
JobInv ==
    /\ job # NoJob => job.op # "none" /\ job.key \in Keys /\ locksLoaded
    /\ job.op = "set" => job.new # Nothing
    /\ job.op # "set" => job.new = Nothing
    /\ job.step = "idle" <=> job = NoJob

(* ... between whose record and entry it stands from its first write on;   *)
(* every other key, unless it is parted, is whole, also while the vault    *)
(* turns out to be unreadable under the job.                               *)
Amid == {k \in Keys : k = job.key /\ job.step \in {"entry", "rollback"}}
WholeInv ==
    /\ \A k \in Keys \ (parted \cup Amid) :
          /\ k \in Recorded <=> vaultFile[k] # Nothing
          /\ VaultAvailable \/ job # NoJob => (k \in locks <=> k \in Recorded)
    /\ job # NoJob /\ job.key \notin parted
          => (vaultFile[job.key] # Nothing <=> job.key \in locks)
    /\ job.step = "entry" => (job.key \in Recorded <=> job.op = "set")

(* An unlock knows what the vault has held since it began. *)
UnlockInv ==
    /\ \A c \in Callers :
          /\ unlocking[c].step # "idle" =>
                /\ unlocking[c].key \in Keys
                /\ vaultFile[unlocking[c].key] \in entries[c]
          /\ unlocking[c].step = "checking" => unlocking[c].seen \in entries[c]
          /\ unlocking[c].step = "idle" => unlocking[c] = NoUnlock /\ c \notin relocked
    /\ timely \cap relocked = {}

LocksInv == LocksTypeOK /\ JobInv /\ WholeInv /\ UnlockInv

LEMMA NoJobIs ==
    /\ NoJob \in JobTypes
    /\ NoJob.op = "none" /\ NoJob.step = "idle" /\ NoJob.key = Nothing
    /\ NoJob.given = Nothing /\ NoJob.new = Nothing
BY DEF NoJob, Job, JobTypes, Bound

LEMMA NoUnlockIs ==
    /\ NoUnlock \in UnlockTypes
    /\ NoUnlock.step = "idle" /\ NoUnlock.key = Nothing
BY DEF NoUnlock, Unlocking, UnlockTypes, Bound

LEMMA CountCounts ==
    ASSUME NEW k \in Keys, NEW given, NEW entry, Count(k, given, entry),
           attempts \in [Keys -> 0..MaxAttempts]
    PROVE  attempts' \in [Keys -> 0..MaxAttempts]
<1>1. CASE Limited(k)
  BY <1>1 DEF Count
<1>2. CASE ~Limited(k)
  <2>1. attempts[k] \in Nat /\ attempts[k] + 1 \in 0..MaxAttempts /\ 0 \in 0..MaxAttempts
    BY <1>2, LockBoundsAssumption DEF Limited
  <2> QED
    BY <1>2, <2>1 DEF Count
<1> QED
  BY <1>1, <1>2

LEMMA LocksTyped ==
    LocksTypeOK /\ JobInv /\ UnlockInv /\ [LocksNext]_lockVars => LocksTypeOK'
<1> SUFFICES ASSUME LocksTypeOK, JobInv, UnlockInv, [LocksNext]_lockVars
             PROVE  LocksTypeOK'
  OBVIOUS
<1> USE LockBoundsAssumption, KeysAssumption, NoJobIs, NoUnlockIs
    DEF LocksTypeOK, memory, files, calling, Fault
<1>1. CASE LoadLocks
  <2>1. lockFaults' \in 0..LockFaults
    BY <1>1 DEF LoadLocks
  <2>2. locks' \subseteq Keys
    BY <1>1 DEF LoadLocks, Readable, Bound
  <2>3. locksLoaded' \in BOOLEAN /\ readFailed' \in BOOLEAN
    BY <1>1 DEF LoadLocks
  <2> QED
    BY <1>1, <2>1, <2>2, <2>3 DEF LoadLocks
<1>2. ASSUME NEW k \in Keys, NEW given \in Credentials, BeginRemove(k, given)
      PROVE  LocksTypeOK'
  BY <1>2 DEF BeginRemove, Bump, For, Job, JobTypes, Bound
<1>3. ASSUME NEW k \in Keys, NEW given \in Credentials, NEW new \in Credentials,
             BeginSet(k, given, new)
      PROVE  LocksTypeOK'
  BY <1>3 DEF BeginSet, Bump, For, Job, JobTypes, Bound
<1>4. ASSUME NEW k \in Keys, NEW given \in Credentials, NEW c \in Callers,
             BeginUnlock(c, k, given)
      PROVE  LocksTypeOK'
  BY <1>4 DEF BeginUnlock, Unlocking, UnlockTypes, Bound
<1>5. ASSUME NEW k \in Keys, LockAgain(k) PROVE LocksTypeOK'
  BY <1>5 DEF LockAgain, Bump, For
<1>6. ASSUME NEW k \in Keys, Expire(k) PROVE LocksTypeOK'
  BY <1>6 DEF Expire
<1>7. ASSUME NEW k \in Keys, WindowEnds(k) PROVE LocksTypeOK'
  BY <1>7 DEF WindowEnds
<1>8. CASE JobReads
  <2>1. attempts' \in [Keys -> 0..MaxAttempts]
    BY <1>8, CountCounts DEF JobReads, JobInv
  <2>2. job' \in JobTypes
    BY <1>8 DEF JobReads, JobGoesOn, Job, JobTypes
  <2>3. lockFaults' \in 0..LockFaults
    BY <1>8 DEF JobReads
  <2>4. readFailed' \in BOOLEAN
    BY <1>8 DEF JobReads
  <2>5. UNCHANGED <<locksLoaded, locks, files, unlocked, calling>>
    BY <1>8 DEF JobReads
  <2> QED
    BY <2>1, <2>2, <2>3, <2>4, <2>5
<1>9. CASE WriteRecords
  BY <1>9 DEF WriteRecords, JobGoesOn, Job, JobTypes, NextLocks, Bound, JobInv
<1>10. CASE WriteFails
  BY <1>10 DEF WriteFails, JobGoesOn, Job, JobTypes
<1>11. CASE WriteEntry
  BY <1>11 DEF WriteEntry, NextLocks, JobInv, JobTypes, For
<1>12. CASE Restores
  BY <1>12 DEF Restores, Bound
<1>13. CASE RestoreFails
  BY <1>13 DEF RestoreFails, Part, JobInv
<1>14. ASSUME NEW c \in Callers, UnlockReads(c) PROVE LocksTypeOK'
  <2>1. lockFaults' \in 0..LockFaults
    BY <1>14 DEF UnlockReads
  <2>5. readFailed' \in BOOLEAN
    BY <1>14 DEF UnlockReads
  <2>2. unlocking' \in [Callers -> UnlockTypes]
    <3>1. /\ unlocking[c] \in UnlockTypes /\ unlocking[c].key \in Keys
          /\ vaultFile[unlocking[c].key] \in Bound(Credentials)
      BY <1>14 DEF UnlockReads, UnlockInv
    <3>2. Unlocking("checking", unlocking[c].key, unlocking[c].given,
                    vaultFile[unlocking[c].key]) \in UnlockTypes
      BY <3>1 DEF Unlocking, UnlockTypes, Bound
    <3> QED
      BY <1>14, <3>2 DEF UnlockReads, Ends
  <2>3. /\ timely' \subseteq Callers /\ relocked' \subseteq Callers
        /\ entries' \in [Callers -> SUBSET Bound(Credentials)]
    BY <1>14 DEF UnlockReads, Ends
  <2>4. UNCHANGED <<locksLoaded, locks, files, unlocked, attempts, job>>
    BY <1>14 DEF UnlockReads
  <2> QED
    BY <2>1, <2>2, <2>3, <2>4, <2>5
<1>15. ASSUME NEW c \in Callers, UnlockChecks(c) PROVE LocksTypeOK'
  <2>1. attempts' \in [Keys -> 0..MaxAttempts]
    BY <1>15, CountCounts DEF UnlockChecks, UnlockInv
  <2>2. unlocked' \in [Keys -> {"no", "session", "timed"}]
    BY <1>15 DEF UnlockChecks, UnlockInv
  <2> QED
    BY <1>15, <2>1, <2>2 DEF UnlockChecks, Ends
<1>16. CASE LocksCrash
  <2>1. lockFaults' \in 0..LockFaults
    BY <1>16 DEF LocksCrash
  <2>2. parted' \subseteq Keys
    BY <1>16 DEF LocksCrash, Part, JobInv
  <2>3. attempts' \in [Keys -> 0..MaxAttempts]
    BY <1>16 DEF LocksCrash
  <2>4. unlocking' \in [Callers -> UnlockTypes] /\ job' \in JobTypes
    BY <1>16 DEF LocksCrash
  <2>5. /\ timely' \subseteq Callers /\ relocked' \subseteq Callers
        /\ entries' \in [Callers -> SUBSET Bound(Credentials)]
    BY <1>16 DEF LocksCrash
  <2>6. /\ locksLoaded' \in BOOLEAN /\ readFailed' \in BOOLEAN
        /\ locks' \subseteq Keys
        /\ unlocked' \in [Keys -> {"no", "session", "timed"}]
        /\ UNCHANGED <<lockFile, vaultFile>>
    BY <1>16 DEF LocksCrash
  <2> QED
    BY <2>1, <2>2, <2>3, <2>4, <2>5, <2>6
<1>17. CASE UNCHANGED lockVars
  BY <1>17 DEF lockVars
<1> QED
  BY <1>1, <1>2, <1>3, <1>4, <1>5, <1>6, <1>7, <1>8, <1>9, <1>10, <1>11,
     <1>12, <1>13, <1>14, <1>15, <1>16, <1>17 DEF LocksNext

LEMMA LocksInitially == LocksInit => LocksInv
<1> SUFFICES ASSUME LocksInit PROVE LocksInv
  OBVIOUS
<1> USE LockBoundsAssumption, KeysAssumption, NoJobIs, NoUnlockIs DEF LocksInit
<1>1. attempts \in [Keys -> 0..MaxAttempts] /\ lockFaults \in 0..LockFaults
  OBVIOUS
<1>2. unlocking \in [Callers -> UnlockTypes] /\ job \in JobTypes
  OBVIOUS
<1>3. LocksTypeOK
  BY <1>1, <1>2 DEF LocksTypeOK
<1>4. JobInv
  BY DEF JobInv
<1>5. WholeInv
  BY DEF WholeInv, Recorded, VaultAvailable
<1>6. UnlockInv
  BY DEF UnlockInv
<1> QED
  BY <1>3, <1>4, <1>5, <1>6 DEF LocksInv

LEMMA JobStep == LocksTypeOK /\ JobInv /\ [LocksNext]_lockVars => JobInv'
<1> SUFFICES ASSUME LocksTypeOK, JobInv, [LocksNext]_lockVars PROVE JobInv'
  OBVIOUS
<1> USE KeysAssumption, NoJobIs
    DEF LocksTypeOK, JobTypes, JobInv, memory, Job, JobGoesOn
<1>1. CASE LoadLocks
  BY <1>1 DEF LoadLocks
<1>2. ASSUME NEW k \in Keys, NEW given \in Credentials, BeginRemove(k, given)
      PROVE  JobInv'
  BY <1>2 DEF BeginRemove, VaultAvailable
<1>3. ASSUME NEW k \in Keys, NEW given \in Credentials, NEW new \in Credentials,
             BeginSet(k, given, new)
      PROVE  JobInv'
  BY <1>3 DEF BeginSet, VaultAvailable
<1>4. ASSUME NEW k \in Keys, NEW given \in Credentials, NEW c \in Callers,
             BeginUnlock(c, k, given)
      PROVE  JobInv'
  BY <1>4 DEF BeginUnlock
<1>5. ASSUME NEW k \in Keys, LockAgain(k) \/ Expire(k) \/ WindowEnds(k)
      PROVE  JobInv'
  BY <1>5 DEF LockAgain, Expire, WindowEnds
<1>6. CASE JobReads
  BY <1>6 DEF JobReads
<1>7. CASE WriteRecords \/ WriteFails
  BY <1>7 DEF WriteRecords, WriteFails
<1>8. CASE WriteEntry \/ Restores \/ RestoreFails \/ LocksCrash
  BY <1>8 DEF WriteEntry, Restores, RestoreFails, LocksCrash
<1>9. ASSUME NEW c \in Callers, UnlockReads(c) \/ UnlockChecks(c) PROVE JobInv'
  BY <1>9 DEF UnlockReads, UnlockChecks
<1>10. CASE UNCHANGED lockVars
  BY <1>10 DEF lockVars
<1> QED
  BY <1>1, <1>2, <1>3, <1>4, <1>5, <1>6, <1>7, <1>8, <1>9, <1>10 DEF LocksNext

LEMMA WholeStep ==
    LocksTypeOK /\ JobInv /\ WholeInv /\ [LocksNext]_lockVars => WholeInv'
<1> SUFFICES ASSUME LocksTypeOK, JobInv, WholeInv, [LocksNext]_lockVars
             PROVE  WholeInv'
  OBVIOUS
<1> USE KeysAssumption, NoJobIs
    DEF LocksTypeOK, JobTypes, JobInv, WholeInv, Amid, Recorded, VaultAvailable,
        memory, files, Job, JobGoesOn
<1>1. CASE LoadLocks
  BY <1>1 DEF LoadLocks, Readable
<1>2. ASSUME NEW k \in Keys, NEW given \in Credentials, BeginRemove(k, given)
      PROVE  WholeInv'
  BY <1>2 DEF BeginRemove
<1>3. ASSUME NEW k \in Keys, NEW given \in Credentials, NEW new \in Credentials,
             BeginSet(k, given, new)
      PROVE  WholeInv'
  BY <1>3 DEF BeginSet
<1>4. ASSUME NEW k \in Keys, NEW given \in Credentials, NEW c \in Callers,
             BeginUnlock(c, k, given)
      PROVE  WholeInv'
  BY <1>4 DEF BeginUnlock
<1>5. ASSUME NEW k \in Keys, LockAgain(k) \/ Expire(k) \/ WindowEnds(k)
      PROVE  WholeInv'
  BY <1>5 DEF LockAgain, Expire, WindowEnds
<1>6. CASE JobReads
  BY <1>6 DEF JobReads
<1>7. CASE WriteRecords
  <2>1. NextLocks \subseteq Keys
    BY <1>7 DEF WriteRecords, NextLocks
  <2>2. lockFile' = NextLocks /\ Recorded' = NextLocks
    BY <1>7, <2>1 DEF WriteRecords
  <2>3. job'.step = "entry" /\ job'.key = job.key /\ job'.op = job.op
    BY <1>7 DEF WriteRecords
  <2> QED
    BY <1>7, <2>2, <2>3 DEF WriteRecords, NextLocks
<1>8. CASE WriteFails
  BY <1>8 DEF WriteFails
<1>9. CASE WriteEntry
  BY <1>9 DEF WriteEntry, NextLocks
<1>10. CASE Restores
  <2>1. lockFile' = locks /\ Recorded' = locks
    BY <1>10 DEF Restores
  <2> QED
    BY <1>10, <2>1 DEF Restores
<1>11. CASE RestoreFails
  BY <1>11 DEF RestoreFails, Part
<1>12. ASSUME NEW c \in Callers, UnlockReads(c) PROVE WholeInv'
  BY <1>12 DEF UnlockReads
<1>13. ASSUME NEW c \in Callers, UnlockChecks(c) PROVE WholeInv'
  BY <1>13 DEF UnlockChecks
<1>14. CASE LocksCrash
  BY <1>14 DEF LocksCrash, Part
<1>15. CASE UNCHANGED lockVars
  BY <1>15 DEF lockVars
<1> QED
  BY <1>1, <1>2, <1>3, <1>4, <1>5, <1>6, <1>7, <1>8, <1>9, <1>10, <1>11,
     <1>12, <1>13, <1>14, <1>15 DEF LocksNext

LEMMA UnlockStep ==
    LocksTypeOK /\ JobInv /\ UnlockInv /\ [LocksNext]_lockVars => UnlockInv'
<1> SUFFICES ASSUME LocksTypeOK, JobInv, UnlockInv, [LocksNext]_lockVars
             PROVE  UnlockInv'
  OBVIOUS
<1> USE KeysAssumption, NoUnlockIs
    DEF LocksTypeOK, UnlockTypes, UnlockInv, files, calling
<1>1. CASE LoadLocks
  BY <1>1 DEF LoadLocks
<1>2. ASSUME NEW k \in Keys, NEW given \in Credentials, BeginRemove(k, given)
      PROVE  UnlockInv'
  BY <1>2 DEF BeginRemove, Bump
<1>3. ASSUME NEW k \in Keys, NEW given \in Credentials, NEW new \in Credentials,
             BeginSet(k, given, new)
      PROVE  UnlockInv'
  BY <1>3 DEF BeginSet, Bump
<1>4. ASSUME NEW k \in Keys, NEW given \in Credentials, NEW c \in Callers,
             BeginUnlock(c, k, given)
      PROVE  UnlockInv'
  <2>1. /\ unlocking'[c].step = "reading" /\ unlocking'[c].key = k
        /\ entries'[c] = {vaultFile[k]}
    BY <1>4 DEF BeginUnlock, Unlocking
  <2>2. \A d \in Callers \ {c} : unlocking'[d] = unlocking[d] /\ entries'[d] = entries[d]
    BY <1>4 DEF BeginUnlock
  <2>3. c \notin relocked
    BY <1>4 DEF BeginUnlock
  <2> QED
    BY <1>4, <2>1, <2>2, <2>3 DEF BeginUnlock
<1>5. ASSUME NEW k \in Keys, LockAgain(k) PROVE UnlockInv'
  BY <1>5 DEF LockAgain, Bump, For
<1>6. ASSUME NEW k \in Keys, Expire(k) \/ WindowEnds(k) PROVE UnlockInv'
  BY <1>6 DEF Expire, WindowEnds
<1>7. CASE JobReads \/ WriteRecords \/ WriteFails \/ Restores \/ RestoreFails
  BY <1>7 DEF JobReads, WriteRecords, WriteFails, Restores, RestoreFails
<1>8. CASE WriteEntry
  BY <1>8 DEF WriteEntry, For, JobInv, JobTypes
<1>9. ASSUME NEW c \in Callers, UnlockReads(c) PROVE UnlockInv'
  BY <1>9 DEF UnlockReads, Ends, Unlocking
<1>10. ASSUME NEW c \in Callers, UnlockChecks(c) PROVE UnlockInv'
  BY <1>10 DEF UnlockChecks, Ends
<1>11. CASE LocksCrash
  BY <1>11 DEF LocksCrash
<1>12. CASE UNCHANGED lockVars
  BY <1>12 DEF lockVars
<1> QED
  BY <1>1, <1>2, <1>3, <1>4, <1>5, <1>6, <1>7, <1>8, <1>9, <1>10, <1>11,
     <1>12 DEF LocksNext

LEMMA LocksCorrect == LocksSpec => []LocksInv
<1>1. LocksInv /\ [LocksNext]_lockVars => LocksInv'
  BY LocksTyped, JobStep, WholeStep, UnlockStep DEF LocksInv
<1> QED
  BY <1>1, LocksInitially, PTL DEF LocksSpec

(* A lock has its entry in the vault exactly if it has its record, and the *)
(* application shows what is recorded, whatever fails on the way, but for  *)
(* a key under way or parted (lock-support-service.ts:164-175, 218-226).   *)
THEOREM LocksStayWhole == LocksSpec => []LocksAreWhole
<1>1. LocksInv => LocksAreWhole
  BY NoJobIs DEF LocksInv, LocksAreWhole, WholeInv, Amid
<1> QED
  BY <1>1, LocksCorrect, PTL

(* No slow unlock undoes Lock again, and none succeeds with a credential   *)
(* that the vault has not held since it began                              *)
(* (lock-support-service.ts:107).                                          *)
THEOREM UnlocksAreOfTheirTime == LocksSpec => UnlockIsOfItsTime
<1> DEFINE OfItsTime ==
      \A k \in Keys :
          unlocked[k] = "no" /\ unlocked'[k] # "no"
          => \E c \in Callers : /\ unlocking[c].key = k
                                /\ unlocking'[c] = NoUnlock
                                /\ unlocking[c].given \in entries[c]
                                /\ c \notin relocked
<1>1. LocksInv /\ [LocksNext]_lockVars => [OfItsTime]_lockVars
  <2> SUFFICES ASSUME LocksInv, LocksNext PROVE OfItsTime
    OBVIOUS
  <2> USE DEF LocksInv, LocksTypeOK
  <2>1. CASE UNCHANGED unlocked
    BY <2>1
  <2>2. CASE \E k \in Keys : unlocked' = [unlocked EXCEPT ![k] = "no"]
    BY <2>2
  <2>3. CASE LocksCrash
    BY <2>3 DEF LocksCrash
  <2>4. ASSUME NEW c \in Callers, UnlockChecks(c) PROVE OfItsTime
    <3> DEFINE u == unlocking[c]
    <3>1. unlocking'[c] = NoUnlock /\ u.step = "checking" /\ u.key \in Keys
      BY <2>4 DEF UnlockChecks, Ends, UnlockInv
    <3>2. CASE u.given = u.seen /\ c \in timely
      <4>1. u.given \in entries[c] /\ c \notin relocked
        BY <3>1, <3>2 DEF UnlockInv
      <4>2. \A k \in Keys \ {u.key} : unlocked'[k] = unlocked[k]
        BY <2>4 DEF UnlockChecks
      <4> QED
        BY <3>1, <4>1, <4>2
    <3>3. CASE ~(u.given = u.seen /\ c \in timely)
      BY <2>4, <3>3 DEF UnlockChecks, Verified
    <3> QED
      BY <3>2, <3>3
  <2>5. ASSUME NEW k \in Keys, LockAgain(k) \/ Expire(k)
        PROVE  unlocked' = [unlocked EXCEPT ![k] = "no"]
    BY <2>5 DEF LockAgain, Expire
  <2>6. WriteEntry => \E k \in Keys : unlocked' = [unlocked EXCEPT ![k] = "no"]
    BY NoJobIs DEF WriteEntry, JobInv
  <2>7. CASE LoadLocks \/ JobReads \/ WriteRecords \/ WriteFails \/ Restores
             \/ RestoreFails
    BY <2>1, <2>7 DEF LoadLocks, JobReads, WriteRecords, WriteFails, Restores,
                      RestoreFails
  <2>8. ASSUME NEW k \in Keys, NEW given \in Credentials,
               \/ BeginRemove(k, given)
               \/ \E new \in Credentials : BeginSet(k, given, new)
               \/ \E c \in Callers : BeginUnlock(c, k, given)
        PROVE  OfItsTime
    BY <2>1, <2>8 DEF BeginRemove, BeginSet, BeginUnlock
  <2>9. ASSUME NEW c \in Callers, UnlockReads(c) PROVE OfItsTime
    BY <2>1, <2>9 DEF UnlockReads
  <2>10. ASSUME NEW k \in Keys, WindowEnds(k) PROVE OfItsTime
    BY <2>1, <2>10 DEF WindowEnds
  <2> QED
    BY <2>2, <2>3, <2>4, <2>5, <2>6, <2>7, <2>8, <2>9, <2>10 DEF LocksNext
<1> QED
  BY <1>1, LocksCorrect, PTL DEF LocksSpec, UnlockIsOfItsTime

(* A job that is past its reading of the vault has given the credential of *)
(* its key, if the key has one.                                            *)
ProvenInv ==
    job.step \in {"record", "entry", "rollback"} /\ job.key \notin parted
    => vaultFile[job.key] = Nothing \/ job.given = vaultFile[job.key]

LEMMA ProvenStep == LocksInv /\ ProvenInv /\ [LocksNext]_lockVars => ProvenInv'
<1> SUFFICES ASSUME LocksInv, ProvenInv, [LocksNext]_lockVars PROVE ProvenInv'
  OBVIOUS
<1>1. /\ LocksTypeOK /\ JobInv
      /\ job # NoJob /\ job.key \notin parted
            => (vaultFile[job.key] # Nothing <=> job.key \in locks)
  BY DEF LocksInv, WholeInv
<1> USE NoJobIs DEF LocksTypeOK, JobTypes, ProvenInv, JobInv, memory, files, Job, JobGoesOn
<1>2. ASSUME NEW k \in Keys, NEW given \in Credentials, BeginRemove(k, given)
      PROVE  ProvenInv'
  BY <1>1, <1>2 DEF BeginRemove
<1>3. ASSUME NEW k \in Keys, NEW given \in Credentials, NEW new \in Credentials,
             BeginSet(k, given, new)
      PROVE  ProvenInv'
  BY <1>1, <1>3 DEF BeginSet
<1>4. CASE JobReads
  BY <1>1, <1>4 DEF JobReads, Verified
<1>5. CASE WriteRecords \/ WriteFails
  BY <1>1, <1>5 DEF WriteRecords, WriteFails
<1>6. CASE job' = NoJob
  BY <1>6
<1>7. CASE UNCHANGED <<job, vaultFile, parted>>
  BY <1>7
<1>8. WriteEntry \/ Restores \/ RestoreFails \/ LocksCrash => job' = NoJob
  BY DEF WriteEntry, Restores, RestoreFails, LocksCrash
<1>9. \/ LoadLocks \/ UNCHANGED lockVars
      \/ \E k \in Keys : LockAgain(k) \/ Expire(k) \/ WindowEnds(k)
      \/ \E k \in Keys, given \in Credentials, c \in Callers : BeginUnlock(c, k, given)
      \/ \E c \in Callers : UnlockReads(c) \/ UnlockChecks(c)
      => UNCHANGED <<job, vaultFile, parted>>
  BY DEF LoadLocks, LockAgain, Expire, WindowEnds, BeginUnlock, UnlockReads,
         UnlockChecks, lockVars
<1> QED
  BY <1>2, <1>3, <1>4, <1>5, <1>6, <1>7, <1>8, <1>9 DEF LocksNext

(* Neither the entry of a lock is changed nor its record taken away but by *)
(* the job of one who has given its credential, whatever fails on the way, *)
(* the repairs of a failed job included (lock-support-service.ts:149-175,  *)
(* 202-226); but for a key whose record and entry a fault has parted.      *)
ProvenChange ==
    \A k \in Keys \ parted :
       vaultFile[k] # Nothing /\ (\/ vaultFile'[k] # vaultFile[k]
                                  \/ k \in Recorded /\ k \notin Recorded')
       => job.key = k /\ job.given = vaultFile[k]

THEOREM LocksNeedTheirCredential == LocksSpec => [][ProvenChange]_lockVars
<1>1. LocksInit => ProvenInv
  BY NoJobIs DEF LocksInit, ProvenInv
<1>2. LocksInv /\ ProvenInv /\ [LocksNext]_lockVars => [ProvenChange]_lockVars
  <2> SUFFICES ASSUME LocksInv, ProvenInv, LocksNext,
                      NEW k \in Keys \ parted, vaultFile[k] # Nothing,
                      \/ vaultFile'[k] # vaultFile[k]
                      \/ k \in Recorded /\ k \notin Recorded'
               PROVE  job.key = k /\ job.given = vaultFile[k]
    BY DEF ProvenChange
  <2>1. LocksTypeOK /\ JobInv /\ WholeInv
    BY DEF LocksInv
  <2>2. CASE WriteEntry
    <3>1. lockFile' = lockFile
      BY <2>2 DEF WriteEntry
    <3>2. Recorded' = Recorded
      BY <3>1 DEF Recorded
    <3>3. job.step = "entry" /\ vaultFile' = [vaultFile EXCEPT ![job.key] = job.new]
      BY <2>2 DEF WriteEntry
    <3>4. k = job.key
      BY <2>1, <3>2, <3>3 DEF LocksTypeOK
    <3> QED
      BY <3>3, <3>4 DEF ProvenInv
  <2>3. CASE WriteRecords \/ Restores
    <3>1. vaultFile' = vaultFile
      BY <2>3 DEF WriteRecords, Restores, files
    <3>2. k \in Recorded /\ k \notin Recorded'
      BY <3>1
    <3>3. job.step \in {"record", "rollback"} /\ job # NoJob
      BY <2>3, NoJobIs DEF WriteRecords, Restores
    <3>4. k \notin locks \/ k = job.key
      <4>1. CASE WriteRecords
        <5>1. NextLocks \subseteq Keys
          BY <2>1, <4>1 DEF NextLocks, LocksTypeOK, JobInv, WriteRecords
        <5>2. Recorded' = NextLocks
          BY <5>1, <4>1, KeysAssumption DEF WriteRecords, Recorded
        <5> QED
          BY <3>2, <5>2 DEF NextLocks
      <4>2. CASE Restores
        <5>1. locks \subseteq Keys /\ lockFile' = locks
          BY <2>1, <4>2 DEF Restores, LocksTypeOK
        <5>2. Recorded' = locks
          BY <5>1, KeysAssumption DEF Recorded
        <5> QED
          BY <3>2, <5>2
      <4> QED
        BY <2>3, <4>1, <4>2
    <3>5. k = job.key
      BY <2>1, <3>2, <3>3, <3>4 DEF WholeInv, Amid
    <3> QED
      BY <3>3, <3>5 DEF ProvenInv
  <2>4. CASE UNCHANGED <<vaultFile, lockFile>>
    BY <2>4 DEF Recorded
  <2>5. \/ WriteEntry \/ WriteRecords \/ Restores
        \/ UNCHANGED <<vaultFile, lockFile>>
    BY DEF LocksNext, LoadLocks, BeginRemove, BeginSet, BeginUnlock, LockAgain, Expire,
           WindowEnds, JobReads, WriteFails, RestoreFails, UnlockReads, UnlockChecks,
           LocksCrash, files
  <2> QED
    BY <2>2, <2>3, <2>4, <2>5
<1> QED
  BY <1>1, <1>2, ProvenStep, LocksCorrect, PTL DEF LocksSpec

(***************************************************************************)
(* PortableReplace                                                         *)
(***************************************************************************)

(* Where the previous directory and its record are at each step.  Until    *)
(* the record is written it is that of the beginning, and what it names is *)
(* in a backup as soon as the directory is another.                        *)
WorkInv ==
    /\ work.step \in {"looking", "moving", "placing", "recording", "undoing",
                      "reinstating"} => record = was[2]
    /\ work.step \in {"looking", "moving"} =>
           work.backup = Gone /\ directory = was[1] /\ ~work.errors
    /\ work.step \in {"placing", "recording", "undoing", "reinstating"} =>
           \/ work.backup = Gone
           \/ work.backup = was[1]
    /\ work.step = "placing" =>
           /\ ~work.errors
           /\ work.backup = Gone => directory = was[1]
    /\ work.step \in {"recording", "undoing"} =>
           /\ ~work.errors
           /\ work.backup = Gone => was[1] = Gone
           /\ record # Gone /\ ~unfounded => record \in {work.backup} \cup backups
    /\ work.step = "recording" => directory = work.version
    /\ work.step = "reinstating" /\ work.backup = Gone =>
           was[1] = Gone \/ directory = was[1]
    /\ work.step = "clearing" => record = work.version /\ directory = record
    /\ work.step \in {"looking", "moving", "placing", "recording", "clearing"} =>
           work.version \in Versions
    /\ work.step = "forgetting" => directory = Gone
    /\ work.step \in {"none", "deleting", "forgetting"} => work.backup = Gone

ReplaceInv == ReplacementIsWhole /\ WorkInv

WorkTypes == [step: {"none", "looking", "moving", "placing", "recording",
                     "undoing", "reinstating", "clearing", "deleting",
                     "forgetting"},
              version: Versions \cup {Gone}, backup: Contents,
              placed: BOOLEAN, errors: BOOLEAN]

LEMMA ContentsAre ==
    /\ Gone \in Contents /\ Damaged \in Contents /\ Versions \subseteq Contents
    /\ Gone \notin Versions /\ Damaged \notin Versions /\ Damaged # Gone
    /\ \A content \in Contents : \A rest \in Remains(content) :
          rest \in Contents /\ (content = Gone => rest = Gone)
BY PortableReplaceAssumption DEF Gone, Damaged, Versions, Contents, Remains

LEMMA ReplaceInitially == PortableInit => ReplaceInv
<1> SUFFICES ASSUME PortableInit PROVE ReplaceInv
  OBVIOUS
<1> USE ContentsAre, PortableReplaceAssumption DEF PortableInit, NoWork, Work
<1>1. portableFaults \in 0..PortableFaults
  OBVIOUS
<1>2. work \in WorkTypes
  BY DEF WorkTypes
<1>3. \E v \in Versions \cup {Gone} : was = <<v, v>> /\ v \in Contents
  OBVIOUS
<1>4. was \in Contents \X (Versions \cup {Gone})
  BY <1>3
<1>5. PortableTypeOK
  BY <1>1, <1>2, <1>4 DEF PortableTypeOK, WorkTypes
<1>6. RecordedIsOnDisk /\ RepliesAreTrue /\ WorkInv
  BY DEF RecordedIsOnDisk, RepliesAreTrue, WorkInv
<1> QED
  BY <1>5, <1>6 DEF ReplaceInv, ReplacementIsWhole

LEMMA ReplaceStep == ReplaceInv /\ [PortableNext]_portableVars => ReplaceInv'
<1> SUFFICES ASSUME ReplaceInv, [PortableNext]_portableVars PROVE ReplaceInv'
  OBVIOUS
<1> USE ContentsAre, PortableReplaceAssumption
    DEF ReplaceInv, ReplacementIsWhole, PortableTypeOK, WorkInv,
        RecordedIsOnDisk, RepliesAreTrue, NoWork, Work, WorkGoesOn, Ended,
        PortableFault
<1>1. ASSUME NEW v \in Versions, BeginReplace(v) PROVE ReplaceInv'
  BY <1>1 DEF BeginReplace
<1>2. CASE Look
  BY <1>2 DEF Look
<1>3. CASE MoveAway
  BY <1>3 DEF MoveAway
<1>4. CASE MoveAwayFails
  BY <1>4 DEF MoveAwayFails
<1>5. CASE Place
  BY <1>5 DEF Place
<1>6. CASE PlaceFails
  BY <1>6 DEF PlaceFails
<1>7. CASE Record
  <2>1. /\ record' = work.version /\ directory' = directory
        /\ directory = work.version /\ work.version \in Versions
    BY <1>7 DEF Record
  <2>2. CASE work.backup = Gone
    <3>1. work' = NoWork /\ reply' = "installed"
      BY <1>7, <2>2 DEF Record
    <3>2. PortableTypeOK'
      BY <1>7, <2>1, <3>1 DEF Record
    <3> QED
      BY <1>7, <2>1, <3>1, <3>2 DEF Record
  <2>3. CASE work.backup # Gone
    <3>1. work' = [work EXCEPT !.step = "clearing"] /\ reply' = reply
      BY <1>7, <2>3 DEF Record
    <3>2. PortableTypeOK'
      BY <1>7, <2>1, <3>1 DEF Record
    <3> QED
      BY <1>7, <2>1, <3>1, <3>2 DEF Record
  <2> QED
    BY <2>2, <2>3
<1>8. CASE RecordFails
  BY <1>8 DEF RecordFails
<1>9. CASE Undo
  BY <1>9 DEF Undo
<1>10. CASE UndoFails
  <2> USE <1>10 DEF UndoFails
  <2>1. portableFaults' \in 0..PortableFaults
    OBVIOUS
  <2>2. PortableTypeOK'
    BY <2>1
  <2>3. /\ work'.step = "reinstating" /\ work'.backup = work.backup
        /\ record' = record /\ was' = was
    OBVIOUS
  <2>4. WorkInv'
    BY <2>3
  <2>5. RecordedIsOnDisk' /\ RepliesAreTrue'
    BY <2>3
  <2> QED
    BY <2>2, <2>4, <2>5
<1>11. CASE Reinstate
  BY <1>11 DEF Reinstate, Undone
<1>12. CASE ReinstateFails
  BY <1>12 DEF ReinstateFails
<1>13. CASE ClearBackup
  <2> USE <1>13 DEF ClearBackup
  <2>1. portableFaults' \in 0..PortableFaults
    OBVIOUS
  <2>2. PortableTypeOK'
    BY <2>1
  <2>3. directory' = directory /\ record' = record /\ record = directory
    OBVIOUS
  <2>4. RecordedIsOnDisk'
    BY <2>3
  <2>5. RepliesAreTrue' /\ WorkInv'
    BY <2>3
  <2> QED
    BY <2>2, <2>4, <2>5
<1>14. CASE BeginUninstall
  BY <1>14 DEF BeginUninstall
<1>15. CASE Delete
  BY <1>15 DEF Delete
<1>16. CASE DeleteFails
  BY <1>16 DEF DeleteFails
<1>17. CASE Forget
  BY <1>17 DEF Forget
<1>18. CASE ForgetFails
  <2>1. portableFaults' \in 0..PortableFaults
    BY <1>18 DEF ForgetFails
  <2>2. PortableTypeOK'
    BY <1>18, <2>1 DEF ForgetFails
  <2> QED
    BY <1>18, <2>2 DEF ForgetFails
<1>19. CASE Discover
  <2>1. portableFaults' \in 0..PortableFaults
    BY <1>19 DEF Discover
  <2> QED
    BY <1>19, <2>1 DEF Discover
<1>20. CASE Snapshot
  BY <1>20 DEF Snapshot
<1>21. CASE RestoreRecord
  BY <1>21 DEF RestoreRecord
<1>22. CASE UserDeletes
  BY <1>22 DEF UserDeletes
<1>23. CASE PortableCrash
  <2>1. PICK rest \in IF work.step = "clearing" THEN Remains(work.backup)
                                              ELSE {work.backup} :
               backups' = backups \cup ({rest} \ {Gone})
    BY <1>23 DEF PortableCrash
  <2> USE <1>23, <2>1 DEF PortableCrash
  <2>2. portableFaults' \in 0..PortableFaults
    OBVIOUS
  <2>3. PortableTypeOK'
    BY <2>2
  <2>4. ASSUME record' # Gone, ~unfounded'
        PROVE  record' \in {directory'} \cup backups'
    <3>1. record' = record /\ record # Gone /\ ~unfounded
      BY <2>4
    <3>2. CASE work.step = "clearing"
      <4>1. record = directory /\ directory' = directory
        BY <3>2
      <4> QED
        BY <3>1, <4>1
    <3>3. CASE work.step = "undoing"
      <4>1. record \in {work.backup} \cup backups /\ rest = work.backup
        BY <3>1, <3>3
      <4> QED
        BY <3>1, <4>1
    <3>4. CASE work.step \notin {"clearing", "undoing", "deleting"}
      <4>1. directory' = directory /\ rest = work.backup
        BY <3>4
      <4>2. record \in {directory, work.backup} \cup backups
        BY <3>1
      <4> QED
        BY <3>1, <4>1, <4>2
    <3>5. work.step # "deleting"
      BY <2>4
    <3> QED
      BY <3>2, <3>3, <3>4, <3>5
  <2>5. RecordedIsOnDisk'
    BY <2>4
  <2>6. RepliesAreTrue' /\ WorkInv'
    OBVIOUS
  <2> QED
    BY <2>3, <2>5, <2>6
<1>24. CASE UNCHANGED portableVars
  BY <1>24 DEF portableVars
<1> QED
  BY <1>1, <1>2, <1>3, <1>4, <1>5, <1>6, <1>7, <1>8, <1>9, <1>10, <1>11,
     <1>12, <1>13, <1>14, <1>15, <1>16, <1>17, <1>18, <1>19, <1>20, <1>21,
     <1>22, <1>23, <1>24 DEF PortableNext

(* Whatever fails and whenever the process ends, the version on record is  *)
(* on the disk, and what a replacement answers is true                     *)
(* (operation-service.ts:222-257).                                         *)
THEOREM ReplacementStaysWhole == PortableSpec => []ReplacementIsWhole
<1>1. ReplaceInv => ReplacementIsWhole
  BY DEF ReplaceInv
<1> QED
  BY <1>1, ReplaceInitially, ReplaceStep, PTL DEF PortableSpec

(***************************************************************************)
(* GuestProtocol: one disposable guest.                                    *)
(***************************************************************************)

StageNames == {ReceiptStages[i] : i \in DOMAIN ReceiptStages}

(* What the peer's record has taken, in the order in which it takes it.    *)
PeerInv ==
    /\ Len(peer.receipts) <= Len(ReceiptStages)
    /\ \A i \in 1..Len(peer.receipts) : peer.receipts[i] = ReceiptStages[i]
    /\ peer.final = "resolved" => Len(peer.receipts) = Len(ReceiptStages)
    /\ peer.complete = "resolved" => FinalOutputs \subseteq told
    /\ good => IF mode = "source" THEN peer.complete = "resolved"
               ELSE peer.final = "resolved"

(* What the host has in its hands, by where its calls are.                 *)
HostInv ==
    /\ host = "idle" => guest = "off" /\ ~good /\ ~proof /\ peer = Unknown
    /\ host \in {"greeting", "starting", "awaiting", "stopping", "removing"}
        => handle /\ wsb /\ ~proof
    /\ host \in {"halting", "aborting", "clearing"} => ~proof
    /\ host = "halting" => wsb
    /\ host \in {"removing", "clearing"} => guest = "gone"
    /\ guest \in Inside => wsb /\ (handle \/ host = "halting")
    /\ proof => guest = "gone" /\ ~wsb /\ ~handle /\ ~peer.registered
    /\ host = "ok" => good /\ proof

PeerRecords ==
    [registered : BOOLEAN, aborted : BOOLEAN, token : BOOLEAN,
     hello : Promises, complete : Promises, final : Promises,
     plan : {"none", "bound", "published"}, lifecyclePlan : BOOLEAN,
     receipts : Seq(StageNames), manifest : BOOLEAN, outputs : SUBSET Files,
     treeStopped : BOOLEAN, guestDeleted : BOOLEAN]

GuestInv == GuestTypeOK /\ PeerInv /\ HostInv

LEMMA PeerTyped == GuestTypeOK => peer \in PeerRecords
BY DEF GuestTypeOK, PeerRecords, StageNames

LEMMA TypedBy ==
    ASSUME GuestTypeOK, peer' \in PeerRecords, mode' = mode,
           host' \in {"idle", "halting", "greeting", "starting", "awaiting",
                      "stopping", "removing", "aborting", "clearing", "ok", "failed"},
           guest' \in Inside \cup {"off", "gone"},
           wsb' \in BOOLEAN, handle' \in BOOLEAN, good' \in BOOLEAN, proof' \in BOOLEAN,
           told' \in SUBSET Files, UNCHANGED guestFaults \/ GuestFault
    PROVE  GuestTypeOK'
BY GuestFaultsAssumption DEF GuestTypeOK, PeerRecords, StageNames, GuestFault

LEMMA FreshTyped == Fresh \in PeerRecords /\ Unknown \in PeerRecords
<1>1. <<>> \in Seq(StageNames)
  BY EmptySeq
<1> QED
  BY <1>1 DEF Fresh, Unknown, PeerRecords, Promises

(* An abort resolves nothing, and takes nothing back. *)
LEMMA AbortKeeps ==
    ASSUME GuestTypeOK, AbortPeer
    PROVE  /\ peer' \in PeerRecords
           /\ peer'.receipts = peer.receipts /\ peer'.registered = peer.registered
           /\ peer'.final = "resolved" <=> peer.final = "resolved"
           /\ peer'.complete = "resolved" <=> peer.complete = "resolved"
BY PeerTyped DEF AbortPeer, PeerRecords, Promises, Settle

(* Who leaves the promises and the receipts alone keeps PeerInv. *)
LEMMA PeerKept ==
    ASSUME GuestTypeOK, PeerInv, peer' \in PeerRecords, UNCHANGED <<mode, told>>,
           peer'.receipts = peer.receipts,
           peer'.final = "resolved" <=> peer.final = "resolved",
           peer'.complete = "resolved" <=> peer.complete = "resolved",
           good' => good
    PROVE  PeerInv'
BY DEF PeerInv

LEMMA GuestInitially == GuestInit => GuestInv
<1> SUFFICES ASSUME GuestInit PROVE GuestInv
  OBVIOUS
<1>1. GuestTypeOK
  <2>1. peer \in PeerRecords
    BY FreshTyped DEF GuestInit
  <2>2. /\ mode \in {"source", "lifecycle"} /\ host = "idle" /\ guest = "off"
        /\ wsb = FALSE /\ handle = FALSE /\ good = FALSE /\ proof = FALSE
        /\ told \in SUBSET Files /\ guestFaults \in 0..GuestFaults
    BY GuestFaultsAssumption DEF GuestInit
  <2> QED
    BY <2>1, <2>2 DEF GuestTypeOK, PeerRecords, StageNames
<1>2. PeerInv /\ HostInv
  BY DEF GuestInit, PeerInv, HostInv, Unknown, Fresh, ReceiptStages, Inside
<1> QED
  BY <1>1, <1>2 DEF GuestInv

(* The calls of the host. *)
HostNext == \/ LaunchGuest \/ LaunchCancelled \/ Halt \/ LaunchGuestFails
            \/ Admit \/ PublishPlan \/ NotAdmitted
            \/ Answered \/ NotAnswered
            \/ Stop \/ StopUnproven \/ RemoveConfig \/ RemoveConfigFails
            \/ AbortStops \/ AbortClears \/ AbortFails \/ AbortAgain

LEMMA HostStep == GuestInv /\ HostNext => GuestInv'
<1> SUFFICES ASSUME GuestInv, HostNext PROVE GuestInv'
  OBVIOUS
<1>1. GuestTypeOK /\ PeerInv /\ HostInv /\ peer \in PeerRecords
  BY PeerTyped DEF GuestInv
<1> USE <1>1
<1>2. CASE LaunchGuest \/ LaunchCancelled \/ LaunchGuestFails
  <2>1. /\ peer' \in PeerRecords /\ peer'.receipts = <<>>
        /\ peer'.final # "resolved" /\ peer'.complete # "resolved"
    <3>1. CASE peer' = Fresh
      BY <3>1, FreshTyped DEF Fresh
    <3>2. CASE peer' = [Fresh EXCEPT !.aborted = TRUE, !.hello = "rejected",
                                     !.complete = "rejected", !.final = "rejected"]
      <4>1. peer' \in PeerRecords
        BY <3>2, FreshTyped DEF PeerRecords, Promises
      <4> QED
        BY <3>2, <4>1 DEF Fresh
    <3> QED
      BY <1>2, <3>1, <3>2 DEF LaunchGuest, LaunchCancelled, LaunchGuestFails
  <2>2. ~good /\ ~proof /\ good' = good /\ proof' = proof /\ told' = told
        /\ mode' = mode /\ guest = "off"
    BY <1>2 DEF LaunchGuest, LaunchCancelled, LaunchGuestFails, HostInv
  <2>3. GuestTypeOK'
    BY <1>2, <2>1, TypedBy DEF LaunchGuest, LaunchCancelled, LaunchGuestFails, GuestTypeOK, Inside
  <2>4. PeerInv'
    BY <2>1, <2>2 DEF PeerInv, ReceiptStages
  <2>5. HostInv'
    BY <1>2, <2>2 DEF LaunchGuest, LaunchCancelled, LaunchGuestFails, HostInv, Inside
  <2> QED
    BY <2>3, <2>4, <2>5 DEF GuestInv
<1>3. CASE Admit \/ PublishPlan
  <2>1. /\ peer' \in PeerRecords /\ peer'.receipts = peer.receipts
        /\ peer'.final = peer.final /\ peer'.complete = peer.complete
        /\ peer'.registered = peer.registered
    BY <1>3 DEF Admit, PublishPlan, PeerRecords
  <2>2. GuestTypeOK'
    BY <1>3, <2>1, TypedBy DEF Admit, PublishPlan, GuestTypeOK
  <2>3. PeerInv'
    BY <1>3, <2>1, PeerKept DEF Admit, PublishPlan
  <2>4. HostInv'
    BY <1>3, <2>1 DEF Admit, PublishPlan, HostInv, Inside
  <2> QED
    BY <2>2, <2>3, <2>4 DEF GuestInv
<1>4. CASE Answered
  <2>1. GuestTypeOK'
    BY <1>4, TypedBy DEF Answered, GuestTypeOK
  <2>2. PeerInv'
    BY <1>4 DEF Answered, Arrived, PeerInv
  <2>3. HostInv'
    BY <1>4 DEF Answered, HostInv
  <2> QED
    BY <2>1, <2>2, <2>3 DEF GuestInv
<1>5. CASE NotAdmitted \/ NotAnswered \/ StopUnproven \/ RemoveConfigFails \/ AbortAgain
  <2>1. /\ host \in {"greeting", "starting", "awaiting", "stopping", "removing", "failed"}
        /\ host' \in {"aborting", "stopping", "failed"}
        /\ host' = "stopping" => host \in {"starting", "awaiting"}
        /\ guest' = guest \/ guest' = "gone"
        /\ UNCHANGED <<mode, wsb, handle, told, good, proof>>
        /\ UNCHANGED guestFaults \/ GuestFault
        /\ UNCHANGED peer \/ AbortPeer
        /\ proof => host = "failed" /\ handle
    BY <1>5 DEF NotAdmitted, NotAnswered, StopUnproven, RemoveConfigFails, AbortAgain,
                DisposeFails, HostInv
  <2>2. ~proof
    BY <2>1 DEF HostInv
  <2>3. /\ peer' \in PeerRecords
        /\ peer'.receipts = peer.receipts
        /\ peer'.final = "resolved" <=> peer.final = "resolved"
        /\ peer'.complete = "resolved" <=> peer.complete = "resolved"
    BY <2>1, AbortKeeps
  <2>4. GuestTypeOK'
    BY <2>1, <2>3, TypedBy DEF GuestTypeOK
  <2>5. PeerInv'
    BY <2>1, <2>3, PeerKept
  <2>6. HostInv'
    BY <2>1, <2>2 DEF HostInv, Inside
  <2> QED
    BY <2>4, <2>5, <2>6 DEF GuestInv
<1>8. CASE Halt
  <2>1. /\ peer' \in PeerRecords
        /\ peer'.receipts = peer.receipts
        /\ peer'.final = "resolved" <=> peer.final = "resolved"
        /\ peer'.complete = "resolved" <=> peer.complete = "resolved"
    BY <1>8, AbortKeeps DEF Halt
  <2>2. GuestTypeOK'
    BY <1>8, <2>1, TypedBy DEF Halt, GuestTypeOK
  <2>3. PeerInv'
    BY <1>8, <2>1, PeerKept DEF Halt
  <2>4. HostInv'
    BY <1>8 DEF Halt, HostInv, Inside
  <2> QED
    BY <2>2, <2>3, <2>4 DEF GuestInv
<1>6. CASE Stop \/ RemoveConfig \/ AbortClears
  <2>1. /\ peer' \in PeerRecords /\ peer'.receipts = peer.receipts
        /\ peer'.final = peer.final /\ peer'.complete = peer.complete
        /\ UNCHANGED <<mode, told, good, guestFaults>>
    BY <1>6 DEF Stop, RemoveConfig, AbortClears, PeerRecords
  <2>2. GuestTypeOK'
    BY <1>6, <2>1, TypedBy DEF Stop, RemoveConfig, AbortClears, GuestTypeOK
  <2>3. PeerInv'
    BY <2>1, PeerKept
  <2>4. HostInv'
    <3>1. CASE Stop
      BY <3>1 DEF Stop, HostInv, Inside
    <3>2. CASE RemoveConfig
      <4>1. ~peer'.registered /\ guest = "gone" /\ host = "removing"
        BY <3>2 DEF RemoveConfig, PeerRecords, HostInv
      <4> QED
        BY <3>2, <4>1 DEF RemoveConfig, HostInv, Inside
    <3>3. CASE AbortClears
      BY <3>3 DEF AbortClears, HostInv, Inside
    <3> QED
      BY <1>6, <3>1, <3>2, <3>3
  <2> QED
    BY <2>2, <2>3, <2>4 DEF GuestInv
<1>7. CASE AbortStops \/ AbortFails
  <2>1. UNCHANGED <<mode, peer, told, good, wsb, handle, proof>>
    BY <1>7 DEF AbortStops, AbortFails
  <2>2. GuestTypeOK'
    BY <1>7, <2>1, TypedBy DEF AbortStops, AbortFails, GuestTypeOK
  <2>3. PeerInv' /\ HostInv'
    BY <1>7, <2>1 DEF AbortStops, AbortFails, PeerInv, HostInv, Inside
  <2> QED
    BY <2>2, <2>3 DEF GuestInv
<1> QED
  BY <1>2, <1>3, <1>4, <1>5, <1>6, <1>7, <1>8 DEF HostNext

(* The frames, in any order; the guest that reads its plan, or ends. *)
LEMMA FrameStep ==
    ASSUME GuestInv, Frame, peer' \in PeerRecords, peer'.registered = peer.registered,
           guest' = guest \/ (guest = "booting" /\ guest' = "greeted"),
           told' \in SUBSET Files
    PROVE  GuestTypeOK' /\ HostInv'
<1>1. GuestTypeOK /\ HostInv /\ peer.registered /\ host # "idle"
  BY DEF GuestInv, HostInv, Frame, Sent
<1>2. UNCHANGED <<mode, host, wsb, handle, good, proof, guestFaults>>
  BY DEF Frame
<1>3. GuestTypeOK'
  BY <1>1, <1>2, TypedBy DEF GuestTypeOK, Inside
<1>4. HostInv'
  BY <1>1, <1>2 DEF HostInv, Inside
<1> QED
  BY <1>3, <1>4

LEMMA GuestStep == GuestInv /\ [GuestNext]_guestVars => GuestInv'
<1> SUFFICES ASSUME GuestInv, [GuestNext]_guestVars PROVE GuestInv'
  OBVIOUS
<1>1. GuestTypeOK /\ PeerInv /\ HostInv /\ peer \in PeerRecords
  BY PeerTyped DEF GuestInv
<1>0. told \in SUBSET Files
  BY <1>1 DEF GuestTypeOK
<1>2. CASE Hello \/ Manifest \/ GuestFailed
  <2>1. /\ peer' \in PeerRecords /\ peer'.receipts = peer.receipts
        /\ peer'.final = peer.final /\ peer'.registered = peer.registered
        /\ peer'.complete = "resolved" <=> peer.complete = "resolved"
        /\ Frame /\ told' = told
        /\ guest' = guest \/ (guest = "booting" /\ guest' = "greeted")
    <3>1. CASE Hello
      BY <1>1, <3>1 DEF Hello, PeerRecords, Promises, Settle
    <3>2. CASE Manifest
      BY <1>1, <3>2 DEF Manifest, PeerRecords
    <3>3. CASE GuestFailed
      BY <1>1, <3>3 DEF GuestFailed, PeerRecords, Promises, Settle
    <3> QED
      BY <1>2, <3>1, <3>2, <3>3
  <2>2. UNCHANGED <<mode, told, good>>
    BY <2>1 DEF Frame
  <2>3. GuestTypeOK' /\ HostInv'
    BY <1>0, <2>1, FrameStep
  <2>4. PeerInv'
    BY <1>1, <2>1, <2>2, PeerKept
  <2> QED
    BY <2>3, <2>4 DEF GuestInv
<1>3. ASSUME NEW file \in Files, Output(file) PROVE GuestInv'
  <2>1. /\ peer' \in PeerRecords /\ peer'.receipts = peer.receipts
        /\ peer'.final = peer.final /\ peer'.registered = peer.registered
        /\ peer'.complete = peer.complete
        /\ Frame /\ UNCHANGED <<guest, told>>
    BY <1>1, <1>3 DEF Output, PeerRecords
  <2>2. UNCHANGED <<mode, told, good>>
    BY <2>1 DEF Frame
  <2>3. GuestTypeOK' /\ HostInv'
    BY <1>0, <2>1, FrameStep
  <2>4. PeerInv'
    BY <1>1, <2>1, <2>2, PeerKept
  <2> QED
    BY <2>3, <2>4 DEF GuestInv
<1>4. ASSUME NEW n \in DOMAIN ReceiptStages, StageReceipt(ReceiptStages[n])
      PROVE  GuestInv'
  <2> DEFINE stage == ReceiptStages[n]
  <2>1. /\ peer.receipts \in Seq(StageNames) /\ stage \in StageNames
        /\ Len(peer.receipts) \in Nat
        /\ Len(peer.receipts) < Len(ReceiptStages)
        /\ stage = ReceiptStages[Len(peer.receipts) + 1]
    BY <1>1, <1>4, LenProperties DEF PeerRecords, StageNames, StageReceipt
  <2>2. peer' = [peer EXCEPT !.receipts = Append(peer.receipts, stage)]
        /\ Frame /\ UNCHANGED <<guest, told>>
    BY <1>4 DEF StageReceipt
  <2> HIDE DEF stage
  <2>3. /\ Append(peer.receipts, stage) \in Seq(StageNames)
        /\ Len(Append(peer.receipts, stage)) = Len(peer.receipts) + 1
        /\ \A i \in 1..Len(peer.receipts) :
              Append(peer.receipts, stage)[i] = peer.receipts[i]
        /\ Append(peer.receipts, stage)[Len(peer.receipts) + 1] = stage
    BY <2>1, AppendProperties
  <2>4. /\ peer' \in PeerRecords /\ peer'.receipts = Append(peer.receipts, stage)
        /\ peer'.final = peer.final /\ peer'.registered = peer.registered
        /\ peer'.complete = peer.complete
    BY <1>1, <2>2, <2>3 DEF PeerRecords
  <2>5. UNCHANGED <<mode, told, good>>
    BY <2>2 DEF Frame
  <2>6. GuestTypeOK' /\ HostInv'
    BY <1>0, <2>2, <2>4, FrameStep
  <2>7. peer.final # "resolved" /\ (good => mode = "source")
    BY <1>1, <2>1 DEF PeerInv
  <2>8. /\ Len(peer'.receipts) <= Len(ReceiptStages)
        /\ \A i \in 1..Len(peer'.receipts) : peer'.receipts[i] = ReceiptStages[i]
    <3>1. Len(ReceiptStages) \in Nat
      BY DEF ReceiptStages
    <3>2. ASSUME NEW i \in 1..Len(peer'.receipts)
          PROVE  peer'.receipts[i] = ReceiptStages[i]
      <4>1. CASE i \in 1..Len(peer.receipts)
        BY <4>1, <1>1, <2>3, <2>4 DEF PeerInv
      <4>2. CASE i = Len(peer.receipts) + 1
        BY <4>2, <2>1, <2>3, <2>4
      <4> QED
        BY <4>1, <4>2, <2>1, <2>3, <2>4
    <3> QED
      BY <3>1, <3>2, <2>1, <2>3, <2>4
  <2>9. PeerInv'
    BY <1>1, <2>4, <2>5, <2>7, <2>8 DEF PeerInv
  <2> QED
    BY <2>6, <2>9 DEF GuestInv
<1>5. CASE FinalReceipt
  <2>1. /\ peer' \in PeerRecords /\ peer'.receipts = peer.receipts
        /\ peer'.final = Settle(peer.final, "resolved")
        /\ peer'.registered = peer.registered /\ peer'.complete = peer.complete
        /\ Frame /\ UNCHANGED <<guest, told>>
        /\ Len(peer.receipts) = Len(ReceiptStages)
    BY <1>1, <1>5 DEF FinalReceipt, PeerRecords, Promises, Settle
  <2>2. UNCHANGED <<mode, told, good>>
    BY <2>1 DEF Frame
  <2>3. GuestTypeOK' /\ HostInv'
    BY <1>0, <2>1, FrameStep
  <2>4. PeerInv'
    BY <1>1, <2>1, <2>2 DEF PeerInv, Settle
  <2> QED
    BY <2>3, <2>4 DEF GuestInv
<1>6. CASE Complete
  <2>1. /\ peer' \in PeerRecords /\ peer'.receipts = peer.receipts
        /\ peer'.final = peer.final /\ peer'.registered = peer.registered
        /\ Frame /\ guest' = guest /\ told' \in SUBSET Files
    BY <1>1, <1>6 DEF Complete, PeerRecords, Promises, Settle, GuestTypeOK
  <2>2. /\ peer.complete = "resolved" => peer'.complete = "resolved" /\ told' = told
        /\ peer'.complete = "resolved" => FinalOutputs \subseteq told'
    BY <1>1, <1>6 DEF Complete, PeerRecords, Promises, Settle, PeerInv
  <2>3. UNCHANGED <<mode, good>>
    BY <2>1 DEF Frame
  <2>4. GuestTypeOK' /\ HostInv'
    BY <2>1, FrameStep
  <2>5. PeerInv'
    BY <1>1, <2>1, <2>2, <2>3 DEF PeerInv
  <2> QED
    BY <2>4, <2>5 DEF GuestInv
<1>7. CASE GuestReads \/ GuestEnds
  <2>1. /\ guest \in Inside /\ guest' \in Inside \cup {"gone"}
        /\ UNCHANGED <<mode, host, peer, wsb, handle, told, good, proof, guestFaults>>
    BY <1>7 DEF GuestReads, GuestEnds, Inside
  <2>2. GuestTypeOK'
    BY <1>1, <2>1, TypedBy DEF GuestTypeOK
  <2>3. PeerInv' /\ HostInv'
    BY <1>1, <2>1 DEF PeerInv, HostInv, Inside
  <2> QED
    BY <2>2, <2>3 DEF GuestInv
<1>8. CASE UNCHANGED guestVars
  BY <1>1, <1>8 DEF guestVars, GuestInv, GuestTypeOK, PeerInv, HostInv
<1> QED
  BY <1>2, <1>3, <1>4, <1>5, <1>6, <1>7, <1>8, HostStep DEF GuestNext, HostNext

(* Whatever frames come out of the guest, in whatever order, and whatever   *)
(* the host fails to do: a build that succeeds has its reviewed outputs, a  *)
(* lifecycle its six stages in their order, a disposal receipt means that   *)
(* guest and file are gone, and a guest that may run has its file and a     *)
(* handle to end it by, but for one whose cancelled launch is still         *)
(* stopping it (source-runtime.ts:1123, 1155-1169).                         *)
THEOREM ProofsStayHonest == GuestSpec => []ProofsAreHonest
<1>1. GuestInv => ProofsAreHonest
  <2> SUFFICES ASSUME GuestInv PROVE ProofsAreHonest
    OBVIOUS
  <2>1. GuestTypeOK /\ PeerInv /\ HostInv /\ peer \in PeerRecords
    BY PeerTyped DEF GuestInv
  <2>2. ASSUME good, mode = "lifecycle" PROVE peer.receipts = ReceiptStages
    <3>1. peer.receipts \in Seq(StageNames) /\ ReceiptStages \in Seq(StageNames)
      BY <2>1 DEF PeerRecords, StageNames, ReceiptStages
    <3>2. Len(peer.receipts) = Len(ReceiptStages)
      BY <2>1, <2>2 DEF PeerInv
    <3> QED
      BY <2>1, <3>1, <3>2, SeqEqual DEF PeerInv
  <2> QED
    BY <2>1, <2>2 DEF ProofsAreHonest, PeerInv, HostInv
<1> QED
  BY <1>1, GuestInitially, GuestStep, PTL DEF GuestSpec
(***************************************************************************)
(* AppearanceDraft                                                         *)
(***************************************************************************)

(* Under way is what the renderer has asked for and not yet heard of.      *)
RunAsked == \E i \in DOMAIN requests : requests[i].kind = "run"
RunAnswered == \E i \in DOMAIN answers : answers[i].kind = "run"

(* The last save or load under way is the one whose answer is taken.       *)
LatestRuns ==
    /\ RunAsked => \E i \in DOMAIN requests :
                      /\ requests[i].kind = "run" /\ requests[i].id = latest
                      /\ \A j \in DOMAIN requests : j > i => requests[j].kind # "run"
    /\ RunAnswered /\ ~RunAsked =>
          \E i \in DOMAIN answers :
             /\ answers[i].kind = "run" /\ answers[i].id = latest
             /\ \A j \in DOMAIN answers : j > i => answers[j].kind # "run"

(* A document that comes from elsewhere drops the draft when it is taken.  *)
Replacing == \/ \E i \in DOMAIN requests : requests[i].kind # "run"
             \/ \E i \in DOMAIN answers : answers[i].kind # "run"

(* The calls that are under way leave the element with this look.          *)
WillBe(e, look) ==
    \/ stored[e] = look /\ \A i \in DOMAIN requests : e \notin requests[i].keys
    \/ \E i \in DOMAIN requests :
          /\ e \in requests[i].keys /\ requests[i].look = look
          /\ \A j \in DOMAIN requests : j > i => e \notin requests[j].keys

(* The draft is what a timer will save, or what will be stored.            *)
DraftInv ==
    draft # NoDraft =>
       /\ delayed # NoDraft => delayed = draft
       /\ delayed = NoDraft /\ ~loose /\ ~Replacing => WillBe(draft.key, draft.look)

(* The last answer has the document that is stored.                        *)
AnswersInv == answers # <<>> => answers[Len(answers)].doc = stored

FollowsInv ==
    ~drifted => /\ \A i \in DOMAIN answers : answers[i].ok
                /\ LatestRuns
                /\ requests = <<>> /\ answers = <<>> => document = stored
                /\ DraftInv

AppearanceInv == AppearanceTypeOK /\ latest > 0 /\ AnswersInv /\ FollowsInv
-----------------------------------------------------------------------------
CallSet == [kind : {"run", "import", "restore"}, id : Nat,
          keys : SUBSET Elements, look : Overrides]
AnswerSet == [kind : {"run", "import", "restore"}, id : Nat, ok : BOOLEAN,
             doc : Documents]

LEMMA DraftTyped ==
  ASSUME NEW d \in Drafts, d # NoDraft
  PROVE  /\ d.key \in Elements /\ d.look \in Overrides
         /\ d \in [key : Elements, look : Overrides]
  BY DEF Drafts

LEMMA NoDraftTyped == NoDraft \in Drafts /\ NoDraft.key \notin Elements
  BY AppearanceAssumption DEF Drafts, NoDraft

(* A call joins the end of the queue. *)
LEMMA CallJoins ==
  ASSUME AppearanceTypeOK, NEW call \in CallSet, Ask(call)
  PROVE  /\ requests' \in Seq(CallSet) /\ asked' \in 0..MaxAsked
         /\ Len(requests) \in Nat /\ Len(requests') = Len(requests) + 1
         /\ DOMAIN requests = 1..Len(requests)
         /\ DOMAIN requests' = 1..(Len(requests) + 1)
         /\ \A i \in DOMAIN requests : requests'[i] = requests[i]
         /\ requests'[Len(requests) + 1] = call
         /\ requests' # <<>>
<1>1. requests \in Seq(CallSet) /\ asked \in 0..MaxAsked
  BY DEF AppearanceTypeOK, CallSet
<1>2. requests' = Append(requests, call)
  BY DEF Ask
<1>3. asked' \in 0..MaxAsked
  BY <1>1, AppearanceAssumption DEF Ask
<1> HIDE DEF CallSet
<1> QED
  BY <1>1, <1>2, <1>3, AppendProperties

(* Asking for a save or a load: it is the last one now. *)
LEMMA RunAppended ==
  ASSUME AppearanceTypeOK, NEW keys \in SUBSET Elements, NEW look \in Overrides,
         Run(keys, look)
  PROVE  /\ requests' \in Seq(CallSet) /\ asked' \in 0..MaxAsked
         /\ latest' = latest + 1 /\ latest' \in Nat
         /\ requests' # <<>>
         /\ DOMAIN requests = 1..Len(requests) /\ Len(requests) \in Nat
         /\ DOMAIN requests' = 1..(Len(requests) + 1)
         /\ \A i \in DOMAIN requests : requests'[i] = requests[i]
         /\ requests'[Len(requests) + 1].kind = "run"
         /\ requests'[Len(requests) + 1].id = latest + 1
         /\ requests'[Len(requests) + 1].keys = keys
         /\ requests'[Len(requests) + 1].look = look
<1> DEFINE call == CallOf("run", latest + 1, keys, look)
<1>1. latest \in Nat /\ latest' = latest + 1
  BY DEF Run, AppearanceTypeOK
<1>2. /\ call \in CallSet /\ call.kind = "run" /\ call.id = latest + 1
      /\ call.keys = keys /\ call.look = look
  BY <1>1 DEF CallOf, CallSet
<1>3. Ask(call)
  BY DEF Run
<1> HIDE DEF call
<1> QED
  BY <1>1, <1>2, <1>3, CallJoins

LEMMA RunIsLatest ==
  ASSUME AppearanceTypeOK, NEW keys \in SUBSET Elements, NEW look \in Overrides,
         Run(keys, look)
  PROVE  LatestRuns'
<1>1. PICK n \in Nat : n = Len(requests) + 1
  BY RunAppended
<1>2. /\ n \in DOMAIN requests' /\ requests'[n].kind = "run"
      /\ requests'[n].id = latest'
      /\ \A j \in DOMAIN requests' : ~(j > n)
  BY <1>1, RunAppended
<1> QED
  BY <1>2 DEF LatestRuns, RunAsked

LEMMA RunWillBe ==
  ASSUME AppearanceTypeOK, NEW e \in Elements, NEW look \in Overrides,
         Run({e}, look)
  PROVE  WillBe(e, look)'
<1>1. PICK keys \in SUBSET Elements : keys = {e}
  OBVIOUS
<1>2. Run(keys, look)
  BY <1>1
<1>3. PICK n \in Nat : n = Len(requests) + 1
  BY <1>2, RunAppended
<1>4. /\ n \in DOMAIN requests' /\ requests'[n].keys = keys
      /\ requests'[n].look = look
      /\ \A j \in DOMAIN requests' : ~(j > n)
  BY <1>2, <1>3, RunAppended
<1> QED
  BY <1>1, <1>4 DEF WillBe

(* A call for other elements changes nothing about this one.               *)
LEMMA RunElsewhere ==
  ASSUME AppearanceTypeOK, NEW keys \in SUBSET Elements, NEW look \in Overrides,
         Run(keys, look), stored' = stored,
         NEW e \in Elements \ keys, NEW other, WillBe(e, other)
  PROVE  WillBe(e, other)'
<1>1. /\ DOMAIN requests = 1..Len(requests) /\ Len(requests) \in Nat
      /\ DOMAIN requests' = 1..(Len(requests) + 1)
      /\ \A i \in DOMAIN requests : requests'[i] = requests[i]
      /\ e \notin requests'[Len(requests) + 1].keys
  BY RunAppended
<1>2. CASE stored[e] = other /\ \A i \in DOMAIN requests : e \notin requests[i].keys
  BY <1>1, <1>2 DEF WillBe
<1>3. ASSUME NEW i \in DOMAIN requests,
             e \in requests[i].keys, requests[i].look = other,
             \A j \in DOMAIN requests : j > i => e \notin requests[j].keys
      PROVE  WillBe(e, other)'
  <2>1. \A j \in DOMAIN requests' : j > i => e \notin requests'[j].keys
    BY <1>1, <1>3
  <2> QED
    BY <1>1, <1>3, <2>1 DEF WillBe
<1> QED
  BY <1>2, <1>3 DEF WillBe

LEMMA RunReplacesNothing ==
  ASSUME AppearanceTypeOK, NEW keys \in SUBSET Elements, NEW look \in Overrides,
         Run(keys, look), answers' = answers
  PROVE  Replacing => Replacing'
<1>1. /\ DOMAIN requests = 1..Len(requests) /\ Len(requests) \in Nat
      /\ DOMAIN requests' = 1..(Len(requests) + 1)
      /\ \A i \in DOMAIN requests : requests'[i] = requests[i]
  BY RunAppended
<1> QED
  BY <1>1 DEF Replacing

(* A step of the editor, which takes no answer.                            *)
LEMMA EditorFrame ==
  ASSUME AppearanceInv, AppearanceTypeOK',
         answers' = answers, stored' = stored, document' = document,
         drifted => drifted',
         \/ DoNotAsk
         \/ \E keys \in SUBSET Elements : \E look \in Overrides : Run(keys, look),
         ~drifted' => DraftInv'
  PROVE  AppearanceInv'
<1>1. AppearanceTypeOK /\ latest \in Nat /\ latest > 0
  BY DEF AppearanceInv, AppearanceTypeOK
<1>2. AnswersInv'
  BY DEF AppearanceInv, AnswersInv
<1>3. CASE DoNotAsk
  <2>1. requests' = requests /\ latest' = latest
    BY <1>3 DEF DoNotAsk
  <2> QED
    BY <1>1, <1>2, <2>1
       DEF AppearanceInv, FollowsInv, LatestRuns, RunAsked, RunAnswered
<1>4. ASSUME NEW keys \in SUBSET Elements, NEW look \in Overrides, Run(keys, look)
      PROVE  AppearanceInv'
  <2>1. requests' # <<>> /\ latest' = latest + 1
    BY <1>1, <1>4, RunAppended
  <2>2. LatestRuns'
    BY <1>1, <1>4, RunIsLatest
  <2> QED
    BY <1>1, <1>2, <2>1, <2>2 DEF AppearanceInv, FollowsInv
<1> QED
  BY <1>3, <1>4

(* Saving a draft, or nothing. *)
LEMMA Flushed ==
  ASSUME AppearanceTypeOK, latest > 0, NEW d \in Drafts, Flush(d)
  PROVE  /\ requests' \in Seq(CallSet) /\ asked' \in 0..MaxAsked /\ latest' \in Nat
         /\ \/ DoNotAsk
            \/ \E keys \in SUBSET Elements : \E look \in Overrides : Run(keys, look)
         /\ d # NoDraft => WillBe(d.key, d.look)'
<1>1. CASE d = NoDraft
  BY <1>1 DEF Flush, DoNotAsk, AppearanceTypeOK, CallSet
<1>2. CASE d # NoDraft
  <2>1. Run({d.key}, d.look) /\ d.key \in Elements /\ d.look \in Overrides
    BY <1>2, DraftTyped DEF Flush
  <2>2. {d.key} \in SUBSET Elements
    BY <2>1
  <2>3. WillBe(d.key, d.look)'
    <3>1. ASSUME NEW e \in Elements, NEW look \in Overrides, Run({e}, look)
          PROVE  WillBe(e, look)'
      BY <3>1, RunWillBe
    <3>2. PICK e \in Elements : e = d.key
      BY <2>1
    <3>3. PICK l \in Overrides : l = d.look
      BY <2>1
    <3>4. WillBe(e, l)'
      BY <2>1, <3>1, <3>2, <3>3
    <3> QED
      BY <3>2, <3>3, <3>4 DEF WillBe
  <2> QED
    BY <2>1, <2>2, <2>3, RunAppended
<1> QED
  BY <1>1, <1>2

(* What is not asked stays to be, and what replaces the draft stays.       *)
LEMMA DraftKept ==
  ASSUME AppearanceInv, ~drifted, DoNotAsk,
         UNCHANGED <<stored, answers, draft>>,
         draft # NoDraft /\ delayed' = NoDraft => delayed = NoDraft,
         draft # NoDraft => delayed' = delayed \/ delayed' = NoDraft,
         loose' = loose
  PROVE  DraftInv'
  BY DEF AppearanceInv, FollowsInv, DraftInv, DoNotAsk, WillBe, Replacing

LEMMA EditorTyped ==
  ASSUME AppearanceTypeOK,
         requests' \in Seq(CallSet), asked' \in 0..MaxAsked, latest' \in Nat,
         UNCHANGED <<stored, document, answers, appearanceFaults>>,
         selected' \in Elements \cup {NoElement},
         draft' \in Drafts, delayed' \in Drafts, undoable' \in Drafts,
         loose' \in BOOLEAN, drifted' \in BOOLEAN
  PROVE  AppearanceTypeOK'
  BY DEF AppearanceTypeOK, CallSet

LEMMA SelectStep ==
  ASSUME AppearanceInv, NEW key \in Elements \cup {NoElement}, Select(key)
  PROVE  AppearanceInv'
<1>1. /\ AppearanceTypeOK /\ latest > 0 /\ draft \in Drafts /\ delayed \in Drafts
      /\ undoable \in Drafts /\ loose \in BOOLEAN /\ drifted \in BOOLEAN
  BY DEF AppearanceInv, AppearanceTypeOK
<1>2. /\ UNCHANGED <<stored, document, undoable, answers, drifted, appearanceFaults>>
      /\ selected' = key
  BY DEF Select
<1>3. CASE draft.key \in Elements \ {key}
  <2>1. Flush(draft) /\ delayed' = NoDraft /\ draft' = NoDraft /\ loose' = FALSE
    BY <1>3 DEF Select
  <2>2. AppearanceTypeOK'
    BY <1>1, <1>2, <2>1, Flushed, NoDraftTyped, EditorTyped
  <2>3. DraftInv'
    BY <2>1 DEF DraftInv
  <2> QED
    BY <1>1, <1>2, <2>1, <2>2, <2>3, Flushed, EditorFrame
<1>4. CASE ~(draft.key \in Elements \ {key})
  <2>1. DoNotAsk /\ UNCHANGED <<delayed, draft, loose>>
    BY <1>4 DEF Select
  <2>2. AppearanceTypeOK'
    BY <1>1, <1>2, <2>1 DEF DoNotAsk, AppearanceTypeOK
  <2>3. ~drifted => DraftInv'
    BY <1>2, <2>1, DraftKept
  <2> QED
    BY <1>1, <1>2, <2>1, <2>2, <2>3, EditorFrame
<1> QED
  BY <1>3, <1>4

LEMMA TokenStep ==
  ASSUME AppearanceInv, NEW look \in Overrides, SetToken(look) \/ Pick(look)
  PROVE  AppearanceInv'
<1>1. /\ AppearanceTypeOK /\ latest > 0 /\ draft \in Drafts /\ delayed \in Drafts
      /\ undoable \in Drafts /\ loose \in BOOLEAN /\ drifted \in BOOLEAN
      /\ selected \in Elements \cup {NoElement}
  BY DEF AppearanceInv, AppearanceTypeOK
<1>2. /\ UNCHANGED <<stored, document, selected, undoable, answers, drifted,
                     appearanceFaults>>
      /\ draft' = [key |-> selected, look |-> look]
      /\ draft' \in Drafts
  BY <1>1 DEF SetToken, Pick, Drafts
<1>3. CASE SetToken(look)
  <2>1. DoNotAsk /\ delayed' = draft' /\ loose' = FALSE
    BY <1>3 DEF SetToken
  <2>2. AppearanceTypeOK'
    BY <1>1, <1>2, <2>1 DEF DoNotAsk, AppearanceTypeOK
  <2>3. DraftInv'
    BY <2>1 DEF DraftInv
  <2> QED
    BY <1>2, <2>1, <2>2, <2>3, EditorFrame
<1>4. CASE Pick(look)
  <2>1. Flush(draft) /\ delayed' = NoDraft /\ loose' = TRUE
    BY <1>4 DEF Pick
  <2>2. AppearanceTypeOK'
    BY <1>1, <1>2, <2>1, Flushed, NoDraftTyped, EditorTyped
  <2>3. DraftInv'
    BY <2>1 DEF DraftInv
  <2> QED
    BY <1>1, <1>2, <2>1, <2>2, <2>3, Flushed, EditorFrame
<1> QED
  BY <1>3, <1>4

LEMMA CommitStep ==
  ASSUME AppearanceInv, Commit \/ TimerFires
  PROVE  AppearanceInv'
<1>1. /\ AppearanceTypeOK /\ latest > 0 /\ draft \in Drafts /\ delayed \in Drafts
      /\ undoable \in Drafts /\ loose \in BOOLEAN /\ drifted \in BOOLEAN
      /\ selected \in Elements \cup {NoElement}
  BY DEF AppearanceInv, AppearanceTypeOK
<1>2. /\ UNCHANGED <<stored, document, selected, draft, undoable, answers, drifted,
                     appearanceFaults>>
      /\ delayed' = NoDraft /\ loose' \in BOOLEAN
  BY <1>1 DEF Commit, TimerFires, ghosts
<1>3. PICK d \in {draft, delayed} : Flush(d)
  BY DEF Commit, TimerFires
<1>4. AppearanceTypeOK'
  BY <1>1, <1>2, <1>3, Flushed, NoDraftTyped, EditorTyped
<1>5. ~drifted => DraftInv'
  <2> SUFFICES ASSUME ~drifted, draft # NoDraft, ~loose', ~Replacing'
               PROVE  WillBe(draft.key, draft.look)'
    BY <1>2 DEF DraftInv
  <2>1. ~Replacing
    BY <1>1, <1>2, <1>3, Flushed, RunReplacesNothing DEF DoNotAsk, Replacing
  <2>2. Flush(draft)
    BY DEF Commit, TimerFires, AppearanceInv, FollowsInv, DraftInv
  <2>3. PICK d0 : d0 = draft
    OBVIOUS
  <2>4. WillBe(d0.key, d0.look)'
    BY <1>1, <2>2, <2>3, Flushed
  <2> QED
    BY <1>2, <2>3, <2>4 DEF WillBe
<1> QED
  BY <1>1, <1>2, <1>3, <1>4, <1>5, Flushed, EditorFrame

LEMMA ResetStep ==
  ASSUME AppearanceInv, ResetElement \/ ResetAll
  PROVE  AppearanceInv'
<1>1. /\ AppearanceTypeOK /\ latest > 0 /\ delayed \in Drafts /\ undoable \in Drafts
      /\ drifted \in BOOLEAN /\ selected \in Elements \cup {NoElement}
      /\ document \in Documents
  BY DEF AppearanceInv, AppearanceTypeOK
<1>2. /\ UNCHANGED <<stored, document, selected, delayed, answers, drifted,
                     appearanceFaults>>
      /\ draft' = NoDraft /\ loose' = FALSE
  BY DEF ResetElement, ResetAll
<1>3. Plain \in Overrides /\ NoDraft \in Drafts
  BY NoDraftTyped DEF Overrides
<1>4. PICK keys \in SUBSET Elements : Run(keys, Plain)
  <2>1. CASE ResetElement
    <3>1. {selected} \in SUBSET Elements
      BY <1>1, <2>1 DEF ResetElement
    <3> QED
      BY <2>1, <3>1 DEF ResetElement
  <2>2. CASE ResetAll
    BY <2>2 DEF ResetAll
  <2> QED
    BY <2>1, <2>2
<1>5. undoable' \in Drafts
  <2>1. CASE ResetElement
    <3>1. selected \in Elements /\ document[selected] \in Overrides
      BY <1>1, <2>1 DEF ResetElement, Documents
    <3> QED
      BY <1>1, <2>1, <3>1 DEF ResetElement, Drafts
  <2>2. CASE ResetAll
    BY <1>3, <2>2 DEF ResetAll
  <2> QED
    BY <2>1, <2>2
<1>6. AppearanceTypeOK'
  BY <1>1, <1>2, <1>3, <1>4, <1>5, RunAppended, EditorTyped
<1>7. DraftInv'
  BY <1>2 DEF DraftInv
<1> QED
  BY <1>2, <1>3, <1>4, <1>6, <1>7, EditorFrame

(* Undoing a reset of the element of the draft leaves a draft that a timer *)
(* will save, or the ghost remembers it.                                   *)
LEMMA UndoStep ==
  ASSUME AppearanceInv, UndoReset \/ UndoExpires
  PROVE  AppearanceInv'
<1>1. /\ AppearanceTypeOK /\ latest > 0 /\ draft \in Drafts /\ delayed \in Drafts
      /\ undoable \in Drafts /\ loose \in BOOLEAN /\ drifted \in BOOLEAN
      /\ selected \in Elements \cup {NoElement}
  BY DEF AppearanceInv, AppearanceTypeOK
<1>2. /\ UNCHANGED <<stored, document, selected, draft, delayed, answers, loose,
                     appearanceFaults>>
      /\ undoable' = NoDraft /\ undoable # NoDraft
  BY DEF UndoReset, UndoExpires, ghosts
<1>3. CASE UndoExpires
  <2>1. DoNotAsk /\ drifted' = drifted
    BY <1>3 DEF UndoExpires, ghosts
  <2>2. AppearanceTypeOK'
    BY <1>1, <1>2, <2>1, NoDraftTyped DEF DoNotAsk, AppearanceTypeOK
  <2>3. ~drifted => DraftInv'
    BY <1>2, <2>1, DraftKept
  <2> QED
    BY <1>2, <2>1, <2>2, <2>3, EditorFrame
<1>4. CASE UndoReset
  <2>1. /\ Flush(undoable)
        /\ drifted' = (drifted \/ (draft.key = undoable.key /\ delayed = NoDraft))
    BY <1>4 DEF UndoReset
  <2>2. drifted' \in BOOLEAN
    BY <1>1, <2>1
  <2>3. AppearanceTypeOK'
    BY <1>1, <1>2, <2>1, <2>2, Flushed, NoDraftTyped, EditorTyped
  <2>4. ~drifted' => DraftInv'
    <3> SUFFICES ASSUME ~drifted', draft # NoDraft
                 PROVE  /\ delayed # NoDraft => delayed = draft
                        /\ delayed = NoDraft /\ ~loose /\ ~Replacing'
                              => WillBe(draft.key, draft.look)'
      BY <1>2 DEF DraftInv, WillBe, Replacing
    <3>1. ~drifted /\ DraftInv
      BY <2>1 DEF AppearanceInv, FollowsInv
    <3>2. delayed # NoDraft => delayed = draft
      BY <3>1 DEF DraftInv
    <3>3. ASSUME delayed = NoDraft, ~loose, ~Replacing'
          PROVE  WillBe(draft.key, draft.look)'
      <4>1. PICK keys \in SUBSET Elements : keys = {undoable.key}
        BY <1>1, <1>2, DraftTyped
      <4>2. PICK look \in Overrides : look = undoable.look
        BY <1>1, <1>2, DraftTyped
      <4>3. Run(keys, look)
        BY <1>2, <2>1, <4>1, <4>2 DEF Flush
      <4>4. PICK e \in Elements : e = draft.key
        BY <1>1, DraftTyped
      <4>5. PICK other : other = draft.look
        OBVIOUS
      <4>6. e \notin keys
        BY <2>1, <3>3, <4>1, <4>4
      <4>7. ~Replacing
        BY <1>1, <1>2, <3>3, <4>3, RunReplacesNothing
      <4>8. WillBe(e, other)
        BY <3>1, <3>3, <4>4, <4>5, <4>7 DEF DraftInv
      <4>9. WillBe(e, other)'
        BY <1>1, <1>2, <4>3, <4>6, <4>8, RunElsewhere
      <4> QED
        BY <1>2, <4>4, <4>5, <4>9 DEF WillBe
    <3> QED
      BY <3>2, <3>3
  <2> QED
    BY <1>1, <1>2, <2>1, <2>3, <2>4, Flushed, EditorFrame
<1> QED
  BY <1>3, <1>4

LEMMA ReplaceCallStep ==
  ASSUME AppearanceInv, NEW kind \in {"import", "restore"}, NEW look \in Looks,
         Replace(kind, look)
  PROVE  AppearanceInv'
<1> DEFINE call == CallOf(kind, 0, Elements, look)
<1>1. AppearanceTypeOK
  BY DEF AppearanceInv
<1>2. call \in CallSet /\ call.kind # "run"
  BY DEF CallOf, CallSet, Overrides
<1>3. Ask(call) /\ UNCHANGED <<stored, shownVars, latest, answers, ghosts,
                              appearanceFaults>>
  BY DEF Replace
<1> HIDE DEF call
<1>4. /\ requests' \in Seq(CallSet) /\ asked' \in 0..MaxAsked /\ requests' # <<>>
      /\ Len(requests) \in Nat
      /\ DOMAIN requests = 1..Len(requests)
      /\ DOMAIN requests' = 1..(Len(requests) + 1)
      /\ \A i \in DOMAIN requests : requests'[i] = requests[i]
      /\ requests'[Len(requests) + 1].kind # "run"
  BY <1>1, <1>2, <1>3, CallJoins
<1>5. AppearanceTypeOK'
  BY <1>1, <1>3, <1>4 DEF AppearanceTypeOK, CallSet, shownVars, ghosts
<1>6. Replacing'
  BY <1>4 DEF Replacing
<1>7. LatestRuns => LatestRuns'
  <2> SUFFICES ASSUME LatestRuns PROVE LatestRuns'
    OBVIOUS
  <2>1. RunAsked' => RunAsked
    BY <1>4 DEF RunAsked
  <2>2. RunAsked => RunAsked'
    BY <1>4 DEF RunAsked
  <2>3. ASSUME RunAsked'
        PROVE  \E i \in DOMAIN requests' :
                  /\ requests'[i].kind = "run" /\ requests'[i].id = latest'
                  /\ \A j \in DOMAIN requests' : j > i => requests'[j].kind # "run"
    <3>1. PICK i \in DOMAIN requests :
                  /\ requests[i].kind = "run" /\ requests[i].id = latest
                  /\ \A j \in DOMAIN requests : j > i => requests[j].kind # "run"
      BY <2>1, <2>3 DEF LatestRuns
    <3> QED
      BY <1>3, <1>4, <3>1
  <2> QED
    BY <1>3, <2>2, <2>3 DEF LatestRuns, RunAnswered
<1>8. DraftInv => DraftInv'
  BY <1>3, <1>6 DEF DraftInv, shownVars
<1> QED
  BY <1>3, <1>4, <1>5, <1>7, <1>8
     DEF AppearanceInv, AnswersInv, FollowsInv, ghosts

(* The main process answers the call at the head of the queue.             *)
LEMMA ServedShape ==
  ASSUME AppearanceTypeOK, requests # <<>>, requests' = Tail(requests),
         NEW answer \in AnswerSet, answers' = Append(answers, answer)
  PROVE  /\ Head(requests) = requests[1] /\ requests[1] \in CallSet
         /\ requests' \in Seq(CallSet) /\ answers' \in Seq(AnswerSet)
         /\ Len(requests) \in Nat /\ Len(answers) \in Nat /\ Len(requests) > 0
         /\ DOMAIN requests = 1..Len(requests)
         /\ DOMAIN requests' = 1..(Len(requests) - 1)
         /\ \A i \in DOMAIN requests' : requests'[i] = requests[i + 1]
         /\ DOMAIN answers = 1..Len(answers)
         /\ DOMAIN answers' = 1..(Len(answers) + 1)
         /\ \A i \in DOMAIN answers : answers'[i] = answers[i]
         /\ Len(answers') = Len(answers) + 1 /\ answers'[Len(answers) + 1] = answer
         /\ answers' # <<>>
<1>1. requests \in Seq(CallSet) /\ answers \in Seq(AnswerSet)
  BY DEF AppearanceTypeOK, CallSet, AnswerSet
<1> HIDE DEF CallSet, AnswerSet
<1> QED
  BY <1>1, AppendProperties, HeadTailProperties

LEMMA ServeStep ==
  ASSUME AppearanceInv, Serve
  PROVE  AppearanceInv'
<1> DEFINE call == requests[1]
           answer == Answer(call, TRUE, stored')
<1>1. AppearanceTypeOK /\ requests # <<>> /\ requests' = Tail(requests)
  BY DEF AppearanceInv, Serve
<1>2. call = Head(requests) /\ call \in CallSet
  <2>1. requests \in Seq(CallSet)
    BY <1>1 DEF AppearanceTypeOK, CallSet
  <2> HIDE DEF CallSet
  <2> QED
    BY <1>1, <2>1, HeadTailProperties
<1>3. /\ stored' = [e \in Elements |-> IF e \in call.keys THEN call.look ELSE stored[e]]
      /\ answers' = Append(answers, answer)
      /\ UNCHANGED <<shownVars, latest, asked, ghosts, appearanceFaults>>
  BY <1>2 DEF Serve
<1>4. stored \in Documents /\ stored' \in Documents
  BY <1>1, <1>2, <1>3 DEF AppearanceTypeOK, Documents, CallSet
<1>5. /\ answer \in AnswerSet /\ answer.ok /\ answer.doc = stored'
      /\ answer.kind = call.kind /\ answer.id = call.id
  BY <1>2, <1>4 DEF Answer, AnswerSet, CallSet
<1> HIDE DEF answer, call
<1>6. /\ requests' \in Seq(CallSet) /\ answers' \in Seq(AnswerSet)
      /\ Len(requests) \in Nat /\ Len(answers) \in Nat /\ Len(requests) > 0
      /\ DOMAIN requests = 1..Len(requests)
      /\ DOMAIN requests' = 1..(Len(requests) - 1)
      /\ \A i \in DOMAIN requests' : requests'[i] = requests[i + 1]
      /\ DOMAIN answers = 1..Len(answers)
      /\ DOMAIN answers' = 1..(Len(answers) + 1)
      /\ \A i \in DOMAIN answers : answers'[i] = answers[i]
      /\ Len(answers') = Len(answers) + 1 /\ answers'[Len(answers) + 1] = answer
      /\ answers' # <<>>
  BY <1>1, <1>3, <1>5, ServedShape
<1>7. \A i \in DOMAIN requests : i > 1 => \E k \in DOMAIN requests' : k + 1 = i
  <2> SUFFICES ASSUME NEW i \in DOMAIN requests, i > 1
               PROVE  \E k \in DOMAIN requests' : k + 1 = i
    OBVIOUS
  <2>1. i - 1 \in DOMAIN requests' /\ (i - 1) + 1 = i
    BY <1>6
  <2> QED
    BY <2>1
<1>8. AppearanceTypeOK'
  BY <1>1, <1>3, <1>4, <1>6 DEF AppearanceTypeOK, CallSet, AnswerSet, shownVars, ghosts
<1>9. AnswersInv'
  BY <1>5, <1>6 DEF AnswersInv
<1>10. LatestRuns => LatestRuns'
  <2> SUFFICES ASSUME LatestRuns PROVE LatestRuns'
    OBVIOUS
  <2>1. CASE RunAsked'
    <3>1. PICK k \in DOMAIN requests' : requests'[k].kind = "run"
      BY <2>1 DEF RunAsked
    <3>2. k + 1 \in DOMAIN requests /\ requests[k + 1].kind = "run"
      BY <1>6, <3>1
    <3>3. PICK i \in DOMAIN requests :
                  /\ requests[i].kind = "run" /\ requests[i].id = latest
                  /\ \A j \in DOMAIN requests : j > i => requests[j].kind # "run"
      BY <3>2 DEF LatestRuns, RunAsked
    <3>4. i > 1
      BY <1>6, <3>1, <3>2, <3>3
    <3>5. PICK m \in DOMAIN requests' : m + 1 = i
      BY <1>6, <1>7, <3>4
    <3>6. ASSUME NEW j \in DOMAIN requests', j > m
          PROVE  requests'[j].kind # "run"
      <4>1. j + 1 \in DOMAIN requests /\ j + 1 > i
        BY <1>6, <3>5, <3>6
      <4>2. requests[j + 1].kind # "run"
        BY <3>3, <4>1
      <4> QED
        BY <1>6, <4>2
    <3> QED
      BY <1>3, <1>6, <2>1, <3>3, <3>5, <3>6 DEF LatestRuns
  <2>2. CASE ~RunAsked' /\ call.kind = "run"
    <3>1. \A j \in DOMAIN requests : j > 1 => requests[j].kind # "run"
      <4> SUFFICES ASSUME NEW j \in DOMAIN requests, j > 1
                   PROVE  requests[j].kind # "run"
        OBVIOUS
      <4>1. PICK k \in DOMAIN requests' : k + 1 = j
        BY <1>6, <1>7
      <4> QED
        BY <1>6, <2>2, <4>1 DEF RunAsked
    <3>2. call.id = latest
      BY <1>6, <2>2, <3>1 DEF LatestRuns, RunAsked, call
    <3>3. PICK n \in DOMAIN answers' : n = Len(answers) + 1
      BY <1>6
    <3>4. /\ answers'[n].kind = "run" /\ answers'[n].id = latest'
          /\ \A j \in DOMAIN answers' : j > n => answers'[j].kind # "run"
      BY <1>3, <1>5, <1>6, <2>2, <3>2, <3>3
    <3> QED
      BY <2>2, <3>4 DEF LatestRuns
  <2>3. CASE ~RunAsked' /\ call.kind # "run" /\ RunAnswered'
    <3>1. ~RunAsked
      <4> SUFFICES ASSUME NEW j \in DOMAIN requests, requests[j].kind = "run"
                   PROVE  FALSE
        BY DEF RunAsked
      <4>1. j > 1
        BY <1>6, <2>3 DEF call
      <4>2. PICK k \in DOMAIN requests' : k + 1 = j
        BY <1>6, <1>7, <4>1
      <4> QED
        BY <1>6, <2>3, <4>2 DEF RunAsked
    <3>2. RunAnswered
      BY <1>5, <1>6, <2>3 DEF RunAnswered
    <3>3. PICK i \in DOMAIN answers :
             /\ answers[i].kind = "run" /\ answers[i].id = latest
             /\ \A j \in DOMAIN answers : j > i => answers[j].kind # "run"
      BY <3>1, <3>2 DEF LatestRuns
    <3>4. \A j \in DOMAIN answers' : j > i => answers'[j].kind # "run"
      BY <1>5, <1>6, <2>3, <3>3
    <3> QED
      BY <1>3, <1>6, <2>3, <3>3, <3>4 DEF LatestRuns
  <2>4. CASE ~RunAsked' /\ ~RunAnswered'
    BY <2>4 DEF LatestRuns
  <2> QED
    BY <2>1, <2>2, <2>3, <2>4
<1>11. Replacing => Replacing'
  <2>1. ASSUME NEW i \in DOMAIN requests, requests[i].kind # "run"
        PROVE  Replacing'
    <3>1. CASE i = 1
      BY <1>5, <1>6, <2>1, <3>1 DEF Replacing, call
    <3>2. CASE i > 1
      <4>1. PICK k \in DOMAIN requests' : k + 1 = i
        BY <1>6, <1>7, <3>2
      <4> QED
        BY <1>6, <2>1, <4>1 DEF Replacing
    <3> QED
      BY <1>6, <3>1, <3>2
  <2>2. ASSUME NEW i \in DOMAIN answers, answers[i].kind # "run"
        PROVE  Replacing'
    BY <1>6, <2>2 DEF Replacing
  <2> QED
    BY <2>1, <2>2 DEF Replacing
<1>12. ASSUME NEW e \in Elements, NEW look, WillBe(e, look)
       PROVE  WillBe(e, look)'
  <2>1. CASE stored[e] = look /\ \A i \in DOMAIN requests : e \notin requests[i].keys
    <3>1. stored'[e] = look
      BY <1>3, <1>6, <2>1 DEF call
    <3>2. \A i \in DOMAIN requests' : e \notin requests'[i].keys
      BY <1>6, <2>1
    <3> QED
      BY <3>1, <3>2 DEF WillBe
  <2>2. ASSUME NEW i \in DOMAIN requests,
               e \in requests[i].keys, requests[i].look = look,
               \A j \in DOMAIN requests : j > i => e \notin requests[j].keys
        PROVE  WillBe(e, look)'
    <3>1. CASE i = 1
      <4>1. stored'[e] = look
        BY <1>3, <2>2, <3>1 DEF call
      <4>2. \A j \in DOMAIN requests' : e \notin requests'[j].keys
        BY <1>6, <2>2, <3>1
      <4> QED
        BY <4>1, <4>2 DEF WillBe
    <3>2. CASE i > 1
      <4>1. PICK k \in DOMAIN requests' : k + 1 = i
        BY <1>6, <1>7, <3>2
      <4>2. \A j \in DOMAIN requests' : j > k => e \notin requests'[j].keys
        BY <1>6, <2>2, <4>1
      <4> QED
        BY <1>6, <2>2, <4>1, <4>2 DEF WillBe
    <3> QED
      BY <1>6, <3>1, <3>2
  <2> QED
    BY <1>12, <2>1, <2>2 DEF WillBe
<1>13. ~drifted => DraftInv'
  <2> SUFFICES ASSUME ~drifted, draft # NoDraft,
                      delayed = NoDraft, ~loose, ~Replacing'
               PROVE  WillBe(draft.key, draft.look)'
    BY <1>3 DEF AppearanceInv, FollowsInv, DraftInv, shownVars, ghosts
  <2>1. WillBe(draft.key, draft.look)
    BY <1>11 DEF AppearanceInv, FollowsInv, DraftInv
  <2>2. PICK e \in Elements : e = draft.key
    BY <1>1, DraftTyped DEF AppearanceTypeOK
  <2>3. PICK look : look = draft.look
    OBVIOUS
  <2>4. WillBe(e, look)'
    BY <1>12, <2>1, <2>2, <2>3
  <2> QED
    BY <1>3, <2>2, <2>3, <2>4 DEF WillBe, shownVars
<1>14. ~drifted' => \A i \in DOMAIN answers' : answers'[i].ok
  <2>1. drifted' = drifted
    BY <1>3 DEF ghosts
  <2> QED
    BY <1>5, <1>6, <2>1 DEF AppearanceInv, FollowsInv
<1> QED
  BY <1>3, <1>6, <1>8, <1>9, <1>10, <1>13, <1>14 DEF AppearanceInv, FollowsInv, ghosts

LEMMA ServeFailsStep ==
  ASSUME AppearanceInv, ServeFails
  PROVE  AppearanceInv'
<1> DEFINE answer == Answer(Head(requests), FALSE, stored)
<1>1. /\ AppearanceTypeOK /\ requests # <<>> /\ requests' = Tail(requests)
      /\ answers' = Append(answers, answer)
      /\ UNCHANGED <<stored, shownVars, latest, asked, loose>> /\ drifted'
  BY DEF AppearanceInv, ServeFails
<1>2. Head(requests) \in CallSet
  <2>1. requests \in Seq(CallSet)
    BY <1>1 DEF AppearanceTypeOK, CallSet
  <2> HIDE DEF CallSet
  <2> QED
    BY <1>1, <2>1, HeadTailProperties
<1>3. answer \in AnswerSet /\ answer.doc = stored
  BY <1>1, <1>2 DEF Answer, AnswerSet, CallSet, AppearanceTypeOK
<1>4. appearanceFaults' \in 0..AppearanceFaults
  BY AppearanceAssumption DEF ServeFails, AppearanceInv, AppearanceTypeOK
<1>5. drifted' \in BOOLEAN
  BY DEF ServeFails
<1> HIDE DEF answer
<1>6. /\ requests' \in Seq(CallSet) /\ answers' \in Seq(AnswerSet)
      /\ Len(answers') = Len(answers) + 1 /\ answers'[Len(answers) + 1] = answer
  BY <1>1, <1>3, ServedShape
<1>7. AppearanceTypeOK'
  BY <1>1, <1>4, <1>5, <1>6 DEF AppearanceTypeOK, CallSet, AnswerSet, shownVars
<1>8. AnswersInv'
  BY <1>1, <1>3, <1>6 DEF AnswersInv
<1> QED
  BY <1>1, <1>7, <1>8 DEF AppearanceInv, FollowsInv

(* The renderer takes the first answer. *)
LEMMA HeardShape ==
  ASSUME AppearanceTypeOK, Heard
  PROVE  /\ answers # <<>> /\ Head(answers) = answers[1] /\ answers[1] \in AnswerSet
         /\ answers' \in Seq(AnswerSet)
         /\ Len(answers) \in Nat /\ Len(answers) > 0
         /\ DOMAIN answers = 1..Len(answers)
         /\ DOMAIN answers' = 1..(Len(answers) - 1)
         /\ Len(answers') = Len(answers) - 1
         /\ \A i \in DOMAIN answers' : answers'[i] = answers[i + 1]
         /\ answers' # <<>> => Len(answers) > 1
         /\ answers' = <<>> => Len(answers) = 1
<1>1. answers \in Seq(AnswerSet) /\ answers # <<>> /\ answers' = Tail(answers)
  BY DEF AppearanceTypeOK, AnswerSet, Heard
<1> HIDE DEF AnswerSet
<1>2. /\ answers # <<>> /\ Head(answers) = answers[1] /\ answers[1] \in AnswerSet
      /\ answers' \in Seq(AnswerSet)
      /\ Len(answers) \in Nat /\ Len(answers) > 0
      /\ DOMAIN answers = 1..Len(answers)
      /\ DOMAIN answers' = 1..(Len(answers) - 1)
      /\ Len(answers') = Len(answers) - 1
      /\ \A i \in DOMAIN answers' : answers'[i] = answers[i + 1]
  BY <1>1, HeadTailProperties
<1>3. answers' # <<>> => Len(answers') > 0
  BY <1>2
<1> QED
  BY <1>2, <1>3

LEMMA HeardKeeps ==
  ASSUME AppearanceInv, Heard, stored' = stored
  PROVE  /\ AnswersInv'
         /\ ~drifted => \A i \in DOMAIN answers' : answers'[i].ok
         /\ answers' = <<>> => answers[1].doc = stored
<1>1. /\ Len(answers) \in Nat /\ Len(answers) > 0 /\ answers # <<>>
      /\ DOMAIN answers = 1..Len(answers)
      /\ DOMAIN answers' = 1..(Len(answers) - 1)
      /\ Len(answers') = Len(answers) - 1
      /\ \A i \in DOMAIN answers' : answers'[i] = answers[i + 1]
      /\ answers' # <<>> => Len(answers) > 1
      /\ answers' = <<>> => Len(answers) = 1
  BY HeardShape DEF AppearanceInv
<1>2. answers[Len(answers)].doc = stored
  BY <1>1 DEF AppearanceInv, AnswersInv
<1>3. AnswersInv'
  <2> SUFFICES ASSUME answers' # <<>>
               PROVE  answers'[Len(answers')].doc = stored'
    BY DEF AnswersInv
  <2>1. /\ Len(answers') \in DOMAIN answers'
        /\ Len(answers') + 1 = Len(answers)
    BY <1>1
  <2>2. answers'[Len(answers')] = answers[Len(answers') + 1]
    BY <1>1, <2>1
  <2> QED
    BY <1>2, <2>1, <2>2
<1>4. ~drifted => \A i \in DOMAIN answers' : answers'[i].ok
  BY <1>1 DEF AppearanceInv, FollowsInv
<1> QED
  BY <1>1, <1>2, <1>3, <1>4

LEMMA AcceptStep ==
  ASSUME AppearanceInv, Accept
  PROVE  AppearanceInv'
<1>1. AppearanceTypeOK /\ Heard
  BY DEF AppearanceInv, Accept
<1>2. UNCHANGED <<stored, selected, draft, delayed, undoable, latest, asked,
                  requests, ghosts, appearanceFaults>>
  BY DEF Accept
<1>3. /\ Len(answers) \in Nat /\ Len(answers) > 0 /\ answers # <<>>
      /\ Head(answers) = answers[1] /\ answers[1] \in AnswerSet
      /\ answers' \in Seq(AnswerSet)
      /\ DOMAIN answers = 1..Len(answers)
      /\ DOMAIN answers' = 1..(Len(answers) - 1)
      /\ \A i \in DOMAIN answers' : answers'[i] = answers[i + 1]
      /\ answers' = <<>> => Len(answers) = 1
  BY <1>1, HeardShape
<1>4. /\ answers[1].kind = "run" \/ ~answers[1].ok
      /\ document' = IF answers[1].ok /\ answers[1].id = latest THEN answers[1].doc
                     ELSE document
  BY <1>3 DEF Accept
<1>5. document' \in Documents
  BY <1>1, <1>3, <1>4 DEF AppearanceTypeOK, AnswerSet
<1>6. AppearanceTypeOK'
  BY <1>1, <1>2, <1>3, <1>5 DEF AppearanceTypeOK, AnswerSet, ghosts
<1>7. /\ AnswersInv'
      /\ ~drifted => \A i \in DOMAIN answers' : answers'[i].ok
      /\ answers' = <<>> => answers[1].doc = stored
  BY <1>1, <1>2, HeardKeeps
<1>8. ASSUME ~drifted
      PROVE  /\ LatestRuns'
             /\ requests' = <<>> /\ answers' = <<>> => document' = stored'
             /\ DraftInv'
  <2>1. LatestRuns /\ DraftInv /\ answers[1].ok /\ answers[1].kind = "run"
    BY <1>3, <1>4, <1>8 DEF AppearanceInv, FollowsInv
  <2>2. RunAsked' = RunAsked /\ RunAnswered
    BY <1>2, <1>3, <2>1 DEF RunAsked, RunAnswered
  <2>3. Replacing => Replacing'
    <3>1. ASSUME NEW n \in DOMAIN answers, answers[n].kind # "run"
          PROVE  Replacing'
      <4>1. n > 1
        BY <1>3, <2>1, <3>1
      <4>2. n - 1 \in DOMAIN answers' /\ answers'[n - 1] = answers[(n - 1) + 1]
        BY <1>3, <4>1
      <4>3. (n - 1) + 1 = n
        BY <1>3
      <4> QED
        BY <3>1, <4>2, <4>3 DEF Replacing
    <3> QED
      BY <1>2, <3>1 DEF Replacing
  <2>4. DraftInv'
    BY <1>2, <2>1, <2>3 DEF DraftInv, WillBe, ghosts
  <2>5. CASE RunAsked
    <3>1. LatestRuns'
      BY <1>2, <2>1, <2>2, <2>5 DEF LatestRuns
    <3>2. requests' # <<>>
      BY <1>2, <2>5 DEF RunAsked
    <3> QED
      BY <2>4, <3>1, <3>2
  <2>6. CASE ~RunAsked
    <3>1. PICK i \in DOMAIN answers :
             /\ answers[i].kind = "run" /\ answers[i].id = latest
             /\ \A j \in DOMAIN answers : j > i => answers[j].kind # "run"
      BY <2>1, <2>2, <2>6 DEF LatestRuns
    <3>2. LatestRuns'
      <4> SUFFICES ASSUME RunAnswered'
                   PROVE  \E k \in DOMAIN answers' :
                             /\ answers'[k].kind = "run" /\ answers'[k].id = latest'
                             /\ \A j \in DOMAIN answers' :
                                   j > k => answers'[j].kind # "run"
        BY <2>2, <2>6 DEF LatestRuns
      <4>1. PICK m \in DOMAIN answers' : answers'[m].kind = "run"
        BY DEF RunAnswered
      <4>2. m + 1 \in DOMAIN answers /\ answers[m + 1].kind = "run" /\ m + 1 > 1
        BY <1>3, <4>1
      <4>3. i > 1
        BY <1>3, <3>1, <4>2
      <4>4. i - 1 \in DOMAIN answers' /\ (i - 1) + 1 = i
        BY <1>3, <4>3
      <4>5. PICK k \in DOMAIN answers' : k + 1 = i
        BY <4>4
      <4>6. ASSUME NEW j \in DOMAIN answers', j > k
            PROVE  answers'[j].kind # "run"
        <5>1. j + 1 \in DOMAIN answers /\ j + 1 > i
          BY <1>3, <4>5, <4>6
        <5>2. answers[j + 1].kind # "run"
          BY <3>1, <5>1
        <5> QED
          BY <1>3, <5>2
      <4> QED
        BY <1>2, <1>3, <3>1, <4>5, <4>6
    <3>3. ASSUME answers' = <<>>
          PROVE  document' = stored'
      <4>1. i = 1
        BY <1>3, <3>1, <3>3
      <4> QED
        BY <1>2, <1>4, <1>7, <2>1, <3>1, <3>3, <4>1
    <3> QED
      BY <2>4, <3>2, <3>3
  <2> QED
    BY <2>5, <2>6
<1> QED
  BY <1>2, <1>6, <1>7, <1>8 DEF AppearanceInv, FollowsInv, ghosts


(* A document that comes from elsewhere is shown as it was stored.         *)
LEMMA ImportedStep ==
  ASSUME AppearanceInv, Imported
  PROVE  AppearanceInv'
<1>1. AppearanceTypeOK /\ Heard /\ latest \in Nat
  BY DEF AppearanceInv, AppearanceTypeOK, Imported
<1>2. /\ UNCHANGED <<stored, selected, delayed, undoable, asked, requests,
                     appearanceFaults>>
      /\ draft' = NoDraft /\ loose' = FALSE /\ latest' = latest + 1
  BY DEF Imported
<1>3. /\ Len(answers) \in Nat /\ Len(answers) > 0
      /\ Head(answers) = answers[1] /\ answers[1] \in AnswerSet
      /\ answers' \in Seq(AnswerSet)
      /\ DOMAIN answers = 1..Len(answers)
      /\ \A i \in DOMAIN answers' : answers'[i] = answers[i + 1]
      /\ DOMAIN answers' = 1..(Len(answers) - 1)
  BY <1>1, HeardShape
<1>4. /\ answers[1].kind = "import" /\ document' = answers[1].doc
      /\ drifted' = (drifted \/ OnItsWay(latest))
  BY <1>3 DEF Imported
<1>5. document' \in Documents /\ drifted' \in BOOLEAN
  BY <1>1, <1>3, <1>4 DEF AppearanceTypeOK, AnswerSet
<1>6. AppearanceTypeOK'
  <2>1. latest' \in Nat /\ draft' \in Drafts /\ loose' \in BOOLEAN
    <3>1. latest' \in Nat
      BY <1>1, <1>2
    <3>2. draft' \in Drafts
      BY <1>2, NoDraftTyped
    <3>3. loose' \in BOOLEAN
      BY <1>2
    <3> QED
      BY <3>1, <3>2, <3>3
  <2>2. /\ stored' \in Documents /\ selected' \in Elements \cup {NoElement}
        /\ delayed' \in Drafts /\ undoable' \in Drafts /\ asked' \in 0..MaxAsked
        /\ appearanceFaults' \in 0..AppearanceFaults
    BY <1>1, <1>2 DEF AppearanceTypeOK
  <2>3. requests' \in Seq(CallSet)
    BY <1>1, <1>2 DEF AppearanceTypeOK, CallSet
  <2> QED
    BY <1>3, <1>5, <2>1, <2>2, <2>3 DEF AppearanceTypeOK, CallSet, AnswerSet
<1>7. /\ AnswersInv'
      /\ ~drifted => \A i \in DOMAIN answers' : answers'[i].ok
      /\ answers' = <<>> => answers[1].doc = stored
  BY <1>1, <1>2, HeardKeeps
<1>8. DraftInv'
  BY <1>2 DEF DraftInv
<1>9. ASSUME ~drifted'
      PROVE  LatestRuns'
  <2>1. /\ LatestRuns
        /\ \A i \in DOMAIN requests : requests[i].id # latest
        /\ \A i \in 2..Len(answers) : answers[i].id # latest
    BY <1>4, <1>9 DEF AppearanceInv, FollowsInv, OnItsWay
  <2>2. ~RunAsked
    BY <2>1 DEF LatestRuns
  <2>3. ~RunAnswered
    <3> SUFFICES ASSUME RunAnswered PROVE FALSE
      OBVIOUS
    <3>1. PICK i \in DOMAIN answers : answers[i].kind = "run" /\ answers[i].id = latest
      BY <2>1, <2>2 DEF LatestRuns
    <3>2. i # 1
      BY <1>4, <3>1
    <3>3. i \in 2..Len(answers)
      BY <1>3, <3>1, <3>2
    <3> QED
      BY <2>1, <3>1, <3>3
  <2>4. ~RunAsked'
    BY <1>2, <2>2 DEF RunAsked
  <2>5. ~RunAnswered'
    <3> SUFFICES ASSUME NEW i \in DOMAIN answers', answers'[i].kind = "run"
                 PROVE  FALSE
      BY DEF RunAnswered
    <3>1. i + 1 \in DOMAIN answers /\ answers[i + 1].kind = "run"
      BY <1>3
    <3> QED
      BY <2>3, <3>1 DEF RunAnswered
  <2> QED
    BY <2>4, <2>5 DEF LatestRuns
<1>10. ~drifted' => ~drifted
  BY <1>4
<1>11. latest' > 0
  BY <1>1, <1>2
<1> QED
  BY <1>2, <1>4, <1>6, <1>7, <1>8, <1>9, <1>10, <1>11 DEF AppearanceInv, FollowsInv

(* A reload is the last load under way.                                    *)
LEMMA RestoredStep ==
  ASSUME AppearanceInv, Restored
  PROVE  AppearanceInv'
<1>1. AppearanceTypeOK /\ Heard /\ latest \in Nat /\ latest > 0
  BY DEF AppearanceInv, AppearanceTypeOK, Restored
<1>2. /\ UNCHANGED <<stored, document, selected, drifted, appearanceFaults>>
      /\ delayed' = NoDraft /\ draft' = NoDraft /\ undoable' = NoDraft
      /\ loose' = FALSE /\ Run({}, Plain)
  BY DEF Restored
<1>3. {} \in SUBSET Elements /\ Plain \in Overrides
  BY DEF Overrides
<1>4. /\ requests' \in Seq(CallSet) /\ asked' \in 0..MaxAsked
      /\ latest' = latest + 1 /\ latest' \in Nat /\ requests' # <<>>
  BY <1>1, <1>2, <1>3, RunAppended
<1>5. answers' \in Seq(AnswerSet)
  BY <1>1, HeardShape
<1>6. AppearanceTypeOK'
  BY <1>1, <1>2, <1>4, <1>5, NoDraftTyped DEF AppearanceTypeOK, CallSet, AnswerSet
<1>7. /\ AnswersInv'
      /\ ~drifted => \A i \in DOMAIN answers' : answers'[i].ok
  BY <1>1, <1>2, HeardKeeps
<1>8. LatestRuns'
  BY <1>1, <1>2, <1>3, RunIsLatest
<1>9. DraftInv'
  BY <1>2 DEF DraftInv
<1> QED
  BY <1>1, <1>2, <1>4, <1>6, <1>7, <1>8, <1>9 DEF AppearanceInv, FollowsInv

LEMMA AppearanceStart == AppearanceInit => AppearanceInv
<1> SUFFICES ASSUME AppearanceInit PROVE AppearanceInv
  OBVIOUS
<1> DEFINE call == CallOf("run", 1, {}, Plain)
<1>1. /\ requests = <<call>> /\ answers = <<>> /\ latest = 1 /\ asked = 1
      /\ draft = NoDraft /\ delayed = NoDraft /\ undoable = NoDraft
      /\ loose = FALSE /\ drifted = FALSE /\ appearanceFaults = 0
      /\ stored \in Documents /\ selected = NoElement
      /\ document = [e \in Elements |-> Plain]
  BY DEF AppearanceInit
<1>2. /\ call \in CallSet /\ call.kind = "run" /\ call.id = 1
  BY DEF CallOf, CallSet, Overrides
<1> HIDE DEF call
<1>3. requests \in Seq(CallSet) /\ answers \in Seq(AnswerSet)
  BY <1>1, <1>2
<1>4. /\ DOMAIN requests = {1} /\ requests[1] = call /\ requests # <<>>
      /\ DOMAIN answers = {}
  BY <1>1
<1>5. document \in Documents
  BY <1>1 DEF Documents, Overrides
<1>6. AppearanceTypeOK
  <2>1. /\ latest \in Nat /\ asked \in 0..MaxAsked
        /\ appearanceFaults \in 0..AppearanceFaults
    BY <1>1, AppearanceAssumption
  <2>2. /\ draft \in Drafts /\ delayed \in Drafts /\ undoable \in Drafts
        /\ loose \in BOOLEAN /\ drifted \in BOOLEAN
        /\ selected \in Elements \cup {NoElement}
    BY <1>1, NoDraftTyped
  <2> QED
    BY <1>1, <1>3, <1>5, <2>1, <2>2 DEF AppearanceTypeOK, CallSet, AnswerSet
<1>7. LatestRuns
  BY <1>1, <1>2, <1>4 DEF LatestRuns, RunAsked, RunAnswered
<1> QED
  BY <1>1, <1>4, <1>6, <1>7 DEF AppearanceInv, AnswersInv, FollowsInv, DraftInv

LEMMA AppearanceStep ==
  ASSUME AppearanceInv, [AppearanceNext]_appearanceVars
  PROVE  AppearanceInv'
<1>1. CASE \E key \in Elements \cup {NoElement} : Select(key)
  BY <1>1, SelectStep
<1>2. CASE \E look \in Overrides : SetToken(look) \/ Pick(look)
  BY <1>2, TokenStep
<1>3. CASE Commit \/ TimerFires
  BY <1>3, CommitStep
<1>4. CASE ResetElement \/ ResetAll
  BY <1>4, ResetStep
<1>5. CASE UndoReset \/ UndoExpires
  BY <1>5, UndoStep
<1>6. CASE \E look \in Looks : Replace("import", look) \/ Replace("restore", look)
  BY <1>6, ReplaceCallStep
<1>7. CASE Serve
  BY <1>7, ServeStep
<1>8. CASE ServeFails
  BY <1>8, ServeFailsStep
<1>9. CASE Accept
  BY <1>9, AcceptStep
<1>10. CASE Imported
  BY <1>10, ImportedStep
<1>11. CASE Restored
  BY <1>11, RestoredStep
<1>12. CASE UNCHANGED appearanceVars
  BY <1>12 DEF appearanceVars, shownVars, ghosts, AppearanceInv, AppearanceTypeOK,
               AnswersInv, FollowsInv, LatestRuns, RunAsked, RunAnswered, DraftInv,
               Replacing, WillBe
<1> QED
  BY <1>1, <1>2, <1>3, <1>4, <1>5, <1>6, <1>7, <1>8, <1>9, <1>10, <1>11, <1>12
     DEF AppearanceNext

LEMMA QuietIsShown == AppearanceInv => ShownIsStored
<1> SUFFICES ASSUME AppearanceInv, Quiet, ~drifted, ~loose
             PROVE  Shown = stored
  BY DEF ShownIsStored, AppearanceInv
<1>1. /\ document = stored /\ stored \in Documents /\ draft \in Drafts
      /\ DraftInv /\ delayed = NoDraft /\ requests = <<>> /\ answers = <<>>
  BY DEF Quiet, AppearanceInv, FollowsInv, AppearanceTypeOK
<1>2. draft # NoDraft => draft.look = stored[draft.key]
  BY <1>1 DEF DraftInv, Replacing, WillBe
<1>3. draft = NoDraft => draft.key \notin Elements
  BY NoDraftTyped
<1>4. \A e \in Elements :
         (IF e = draft.key THEN draft.look ELSE document[e]) = stored[e]
  BY <1>1, <1>2, <1>3
<1> QED
  BY <1>1, <1>4 DEF Shown, Documents

(* However edits, resets, undos, imports and restores overlap with saves   *)
(* under way, whose answers come back in the order they were asked in: the *)
(* last save or load asked for is the one whose answer is taken, so once   *)
(* all is quiet the editor shows what is stored, unless one of the listed  *)
(* mishaps has happened (use-appearance.ts:40-44).                         *)
THEOREM EditorShowsStored == AppearanceSpec => []ShownIsStored
<1>1. AppearanceSpec => []AppearanceInv
  BY AppearanceStart, AppearanceStep, PTL DEF AppearanceSpec
<1> QED
  BY <1>1, QuietIsShown, PTL
=============================================================================
