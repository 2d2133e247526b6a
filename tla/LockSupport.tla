----------------------------- MODULE LockSupport -----------------------------
(***************************************************************************)
(* The locks of tabs, groups and appearance properties: LockSupportService *)
(* without its tickets, with the IPC handlers of main.ts that call it.     *)
(*                                                                         *)
(* A lock is a record in locks.v1.json and an entry in the credential      *)
(* vault.  main.ts queues what changes them (set, remove, lock again), so  *)
(* that one such job runs at a time; unlock is not queued, and reads the   *)
(* vault beside the job.  An action ends where the code awaits the disk.   *)
(*                                                                         *)
(* A bulk request is a run of single ones.  A credential stands for itself *)
(* and its verifier.  TOTP pairing, the lengths of an unlock and wording   *)
(* are left out, and the operating system is taken to offer its vault.     *)
(***************************************************************************)
EXTENDS FiniteSets, Naturals

CONSTANTS Keys,         \* the targets that may be locked
          Credentials,
          Callers,      \* the calls of unlock that may overlap
          Nothing,      \* no file, no entry, no call
          MaxLocks,     \* MAX_LOCKS, the most records that a file may have
          MaxAttempts,  \* the wrong credentials taken in thirty seconds
          LockFaults    \* bound on failing reads and writes, and crashes

ASSUME KeysAssumption ==
    /\ IsFiniteSet(Keys)
    /\ Nothing \notin Keys /\ Nothing \notin Credentials
    /\ \A S \in SUBSET Keys : S # Nothing
ASSUME LockBoundsAssumption ==
    MaxLocks \in Nat /\ MaxAttempts \in Nat /\ LockFaults \in Nat

VARIABLES
    lockFile,     \* the keys recorded in locks.v1.json, or Nothing
    vaultFile,    \* the credential that the vault holds for each key
    locksLoaded,
    locks,        \* the keys of LockSupportService.locks
    readFailed,   \* vaultReadFailed or locksReadFailed
    unlocked,     \* how long each key is unlocked
    attempts,     \* the wrong credentials of this half minute
    job,          \* the queued operation that runs
    unlocking,    \* what each call of unlock has got to
    timely,       \* the calls of which the generation is still that of the key
    relocked,     \* those since whose beginning Lock again was answered
    entries,      \* what the vault has held since the beginning of each
    parted,       \* the keys whose record and entry a fault has parted
    lockFaults    \* faults so far

memory == <<locksLoaded, locks, readFailed>>
files == <<lockFile, vaultFile, parted>>
calling == <<unlocking, timely, relocked, entries>>
lockVars == <<lockFile, vaultFile, locksLoaded, locks, readFailed, unlocked,
              attempts, job, unlocking, timely, relocked, entries, parted,
              lockFaults>>
-----------------------------------------------------------------------------
Job(op, step, key, given, new) ==
    [op |-> op, step |-> step, key |-> key, given |-> given, new |-> new]
NoJob == Job("none", "idle", Nothing, Nothing, Nothing)
JobGoesOn(step) == job' = Job(job.op, step, job.key, job.given, job.new)

Fault == lockFaults < LockFaults /\ lockFaults' = lockFaults + 1

Bound(S) == S \cup {Nothing}

(* A file that is not there is one that cannot be read, and so is one with *)
(* more records than its schema allows.                                    *)
Readable == lockFile # Nothing /\ Cardinality(lockFile) <= MaxLocks

(* vaultAvailable, once the locks are loaded. *)
VaultAvailable == locksLoaded /\ ~readFailed

(* verifyCredential: a limited key is not even compared.                   *)
Limited(k) == attempts[k] >= MaxAttempts

Verified(k, given, entry) == ~Limited(k) /\ given = entry
Count(k, given, entry) ==
    attempts' = IF Limited(k) THEN attempts
                ELSE [attempts EXCEPT ![k] = IF given = entry THEN 0 ELSE @ + 1]

(* A call of unlock, with the entry that it has seen.                      *)
Unlocking(step, key, given, seen) ==
    [step |-> step, key |-> key, given |-> given, seen |-> seen]
NoUnlock == Unlocking("idle", Nothing, Nothing, Nothing)
For(k) == {c \in Callers : unlocking[c].key = k}

(* unlockGenerations goes up: what an unlock has begun is out of date.     *)
Bump(k) == timely' = timely \ For(k) /\ UNCHANGED <<unlocking, entries>>

(* It ends. *)
Ends(c) ==
    /\ unlocking' = [unlocking EXCEPT ![c] = NoUnlock]
    /\ timely' = timely \ {c} /\ relocked' = relocked \ {c}
    /\ entries' = [entries EXCEPT ![c] = {}]

LocksInit ==
    /\ lockFile \in Bound(SUBSET Keys)
    /\ Cardinality(IF lockFile = Nothing THEN {} ELSE lockFile) <= MaxLocks
    /\ vaultFile \in [Keys -> Bound(Credentials)]
    /\ \A k \in Keys : vaultFile[k] # Nothing
                       <=> lockFile # Nothing /\ k \in lockFile
    /\ locksLoaded = FALSE
    /\ locks = {}
    /\ readFailed = FALSE
    /\ unlocked = [k \in Keys |-> "no"]
    /\ attempts = [k \in Keys |-> 0]
    /\ job = NoJob
    /\ unlocking = [c \in Callers |-> NoUnlock]
    /\ timely = {} /\ relocked = {} /\ entries = [c \in Callers |-> {}]
    /\ parted = {}
    /\ lockFaults = 0
-----------------------------------------------------------------------------
(* ensureLocksLoaded, which every operation awaits first. *)
LoadLocks ==
    /\ ~locksLoaded
    /\ locksLoaded' = TRUE
    /\ \/ /\ readFailed' = ~Readable
          /\ locks' = IF Readable THEN lockFile ELSE {}
          /\ UNCHANGED lockFaults
       \/ /\ Fault
          /\ readFailed' = TRUE
          /\ locks' = {}
    /\ UNCHANGED <<files, unlocked, attempts, job, calling>>

(* setLock, up to its reading of the vault. *)
BeginSet(k, given, new) ==
    /\ job = NoJob
    /\ VaultAvailable
    /\ Bump(k)
    /\ job' = Job("set", "read", k, given, new)
    /\ UNCHANGED <<memory, files, unlocked, attempts, relocked, lockFaults>>

(* remove, likewise: it ends the unlocks under way before it finds that    *)
(* the vault is not to be read.                                            *)
BeginRemove(k, given) ==
    /\ job = NoJob
    /\ k \in locks
    /\ Bump(k)
    /\ job' = IF VaultAvailable THEN Job("remove", "read", k, given, Nothing)
              ELSE NoJob
    /\ UNCHANGED <<memory, files, unlocked, attempts, relocked, lockFaults>>

(* Mutant: the generation stays. *)
LockAgainQuietly(k) ==
    /\ job = NoJob
    /\ k \in locks
    /\ relocked' = relocked \cup For(k)
    /\ unlocked' = [unlocked EXCEPT ![k] = "no"]
    /\ UNCHANGED <<memory, files, attempts, job, unlocking, timely, entries,
                   lockFaults>>

(* lockAgain. *)
LockAgain(k) ==
    /\ job = NoJob
    /\ k \in locks
    /\ Bump(k)
    /\ relocked' = relocked \cup For(k)
    /\ unlocked' = [unlocked EXCEPT ![k] = "no"]
    /\ UNCHANGED <<memory, files, attempts, job, lockFaults>>

(* The answer of readVault reaches the job, which proves the credential of *)
(* a lock that exists.                                                     *)
JobReads ==
    /\ job.step = "read"
    /\ \/ /\ IF job.key \in locks
             THEN /\ Count(job.key, job.given, vaultFile[job.key])
                  /\ job' = IF Verified(job.key, job.given, vaultFile[job.key])
                            THEN Job(job.op, "record", job.key, job.given, job.new)
                            ELSE NoJob
             ELSE /\ JobGoesOn("record")
                  /\ UNCHANGED attempts
          /\ UNCHANGED <<readFailed, lockFaults>>
       \/ /\ ~readFailed
          /\ Fault
          /\ readFailed' = TRUE
          /\ job' = NoJob
          /\ UNCHANGED attempts
       \/ /\ readFailed
          /\ job' = NoJob
          /\ UNCHANGED <<readFailed, attempts, lockFaults>>
    /\ UNCHANGED <<locksLoaded, locks, files, unlocked, calling>>

(* The records that the job leaves behind. *)
NextLocks == IF job.op = "set" THEN locks \cup {job.key} ELSE locks \ {job.key}

(* writeJsonAtomic of the records. *)
WriteRecords ==
    /\ job.step = "record"
    /\ lockFile' = NextLocks
    /\ JobGoesOn("entry")
    /\ UNCHANGED <<memory, vaultFile, parted, unlocked, attempts, calling,
                   lockFaults>>

(* Mutant: the records stay as they were written. *)
WriteFailsFinally ==
    /\ job.step \in {"record", "entry"}
    /\ \/ Fault
       \/ /\ job.step = "entry"
          /\ readFailed
          /\ UNCHANGED lockFaults
    /\ job' = NoJob
    /\ UNCHANGED <<memory, files, unlocked, attempts, calling>>

(* Either write rejects; writeVault does so, too, when an unlock has found *)
(* the vault unreadable in the meantime.                                   *)
WriteFails ==
    /\ job.step \in {"record", "entry"}
    /\ \/ Fault
       \/ /\ job.step = "entry"
          /\ readFailed
          /\ UNCHANGED lockFaults
    /\ JobGoesOn("rollback")
    /\ UNCHANGED <<memory, files, unlocked, attempts, calling>>

(* writeVault, and what the job does when it succeeds. *)
WriteEntry ==
    /\ job.step = "entry"
    /\ ~readFailed
    /\ vaultFile' = [vaultFile EXCEPT ![job.key] = job.new]
    /\ locks' = NextLocks
    /\ unlocked' = [unlocked EXCEPT ![job.key] = "no"]
    /\ entries' = [c \in Callers |-> IF c \in For(job.key)
                                      THEN entries[c] \cup {job.new}
                                      ELSE entries[c]]
    /\ parted' = parted \ {job.key}
    /\ job' = NoJob
    /\ UNCHANGED <<lockFile, locksLoaded, readFailed, attempts, unlocking, timely,
                   relocked, lockFaults>>

(* The catch of either: the previous records are written again. *)
Restores ==
    /\ job.step = "rollback"
    /\ lockFile' = locks
    /\ job' = NoJob
    /\ UNCHANGED <<memory, vaultFile, parted, unlocked, attempts, calling,
                   lockFaults>>

(* A key is parted when its record and its entry no longer agree. *)
Recorded == IF lockFile = Nothing THEN {} ELSE lockFile
Part(k) == parted' = IF k \in Recorded <=> vaultFile[k] # Nothing
                     THEN parted ELSE parted \cup {k}

(* The disk that has refused the one write refuses this one as well, and   *)
(* nobody is told.                                                         *)
RestoreFails ==
    /\ job.step = "rollback"
    /\ Part(job.key)
    /\ job' = NoJob
    /\ UNCHANGED <<memory, lockFile, vaultFile, unlocked, attempts, calling,
                   lockFaults>>
-----------------------------------------------------------------------------
(* unlock, up to its reading of the vault. *)
BeginUnlock(c, k, given) ==
    /\ unlocking[c] = NoUnlock
    /\ k \in locks
    /\ VaultAvailable
    /\ unlocking' = [unlocking EXCEPT ![c] = Unlocking("reading", k, given, Nothing)]
    /\ timely' = timely \cup {c}
    /\ entries' = [entries EXCEPT ![c] = {vaultFile[k]}]
    /\ UNCHANGED <<memory, files, unlocked, attempts, job, relocked, lockFaults>>

(* The file is read, even if another read has failed since; or cannot be.  *)
UnlockReads(c) ==
    LET u == unlocking[c] IN
    /\ u.step = "reading"
    /\ \/ /\ unlocking' = [unlocking EXCEPT ![c] =
                             Unlocking("checking", u.key, u.given, vaultFile[u.key])]
          /\ UNCHANGED <<timely, relocked, entries, readFailed, lockFaults>>
       \/ /\ readFailed
          /\ Ends(c)
          /\ UNCHANGED <<readFailed, lockFaults>>
       \/ /\ ~readFailed
          /\ Fault
          /\ readFailed' = TRUE
          /\ Ends(c)
    /\ UNCHANGED <<locksLoaded, locks, files, unlocked, attempts, job>>

(* The rest of unlock. *)
UnlockChecks(c) ==
    LET u == unlocking[c] IN
    /\ u.step = "checking"
    /\ Count(u.key, u.given, u.seen)
    /\ IF Verified(u.key, u.given, u.seen) /\ c \in timely
       THEN \E how \in {"session", "timed"} :
              unlocked' = [unlocked EXCEPT ![u.key] = how]
       ELSE UNCHANGED unlocked
    /\ Ends(c)
    /\ UNCHANGED <<memory, files, job, lockFaults>>

(* isLocked and lockState drop an unlock whose time is over. *)
Expire(k) ==
    /\ unlocked[k] = "timed"
    /\ unlocked' = [unlocked EXCEPT ![k] = "no"]
    /\ UNCHANGED <<memory, files, attempts, job, calling, lockFaults>>

(* isRateLimited after thirty seconds. *)
WindowEnds(k) ==
    /\ attempts[k] > 0
    /\ attempts' = [attempts EXCEPT ![k] = 0]
    /\ UNCHANGED <<memory, files, unlocked, job, calling, lockFaults>>

(* The process ends, and the application is started again. *)
LocksCrash ==
    /\ Fault
    /\ IF job.step \in {"entry", "rollback"} THEN Part(job.key)
       ELSE UNCHANGED parted
    /\ locksLoaded' = FALSE
    /\ locks' = {}
    /\ readFailed' = FALSE
    /\ unlocked' = [k \in Keys |-> "no"]
    /\ attempts' = [k \in Keys |-> 0]
    /\ job' = NoJob
    /\ unlocking' = [c \in Callers |-> NoUnlock]
    /\ timely' = {} /\ relocked' = {} /\ entries' = [c \in Callers |-> {}]
    /\ UNCHANGED <<lockFile, vaultFile>>

LocksNext ==
    \/ LoadLocks
    \/ \E k \in Keys, given \in Credentials :
          \/ BeginRemove(k, given)
          \/ \E new \in Credentials : BeginSet(k, given, new)
          \/ \E c \in Callers : BeginUnlock(c, k, given)
    \/ \E k \in Keys : LockAgain(k) \/ Expire(k) \/ WindowEnds(k)
    \/ JobReads \/ WriteRecords \/ WriteFails \/ WriteEntry
    \/ Restores \/ RestoreFails
    \/ \E c \in Callers : UnlockReads(c) \/ UnlockChecks(c)
    \/ LocksCrash

LocksSpec == LocksInit /\ [][LocksNext]_lockVars
-----------------------------------------------------------------------------
JobTypes ==
    [op: {"none", "set", "remove"},
     step: {"idle", "read", "record", "entry", "rollback"},
     key: Bound(Keys), given: Bound(Credentials), new: Bound(Credentials)]

UnlockTypes ==
    [step: {"idle", "reading", "checking"}, key: Bound(Keys),
     given: Bound(Credentials), seen: Bound(Credentials)]

LocksTypeOK ==
    /\ lockFile \in Bound(SUBSET Keys)
    /\ vaultFile \in [Keys -> Bound(Credentials)]
    /\ locksLoaded \in BOOLEAN
    /\ locks \subseteq Keys
    /\ readFailed \in BOOLEAN
    /\ unlocked \in [Keys -> {"no", "session", "timed"}]
    /\ attempts \in [Keys -> 0..MaxAttempts]
    /\ job \in JobTypes
    /\ unlocking \in [Callers -> UnlockTypes]
    /\ timely \subseteq Callers /\ relocked \subseteq Callers
    /\ entries \in [Callers -> SUBSET Bound(Credentials)]
    /\ parted \subseteq Keys
    /\ lockFaults \in 0..LockFaults

(* A lock has an entry in the vault exactly if it has a record, and the    *)
(* application shows what is recorded: setLock and remove change two files *)
(* one after the other and put the first back when the second fails        *)
(* (lock-support-service.ts:164-175, 218-226).  Only a key that they work  *)
(* on, or one that a crash or a failing repair has parted, is excepted.    *)
(* Types, and the limit on attempts, are part of it.                       *)
LocksAreWhole ==
    /\ LocksTypeOK
    /\ \A k \in Keys \ (parted \cup {job.key}) :
          /\ k \in Recorded <=> vaultFile[k] # Nothing
          /\ VaultAvailable => (k \in locks <=> k \in Recorded)

(* An unlock takes effect as if it happened at one moment of the call: the *)
(* vault held its credential at some time since, and Lock again was not    *)
(* answered after it began ("Per-target mutation fence prevents a slower   *)
(* credential read from undoing Lock again",                               *)
(* lock-support-service.ts:107).                                           *)
UnlockIsOfItsTime ==
    [][\A k \in Keys :
          unlocked[k] = "no" /\ unlocked'[k] # "no"
          => \E c \in Callers : /\ unlocking[c].key = k
                                /\ unlocking'[c] = NoUnlock
                                /\ unlocking[c].given \in entries[c]
                                /\ c \notin relocked]_lockVars

(* As long as no fault has happened, the vault of the operating system     *)
(* being there, locks can be set (the documentation lets "the user set,    *)
(* change, unlock, relock, or remove each password independently").        *)
LocksCanBeSet == locksLoaded /\ lockFaults = 0 => VaultAvailable
=============================================================================
