---------------------------- MODULE HistoryAccess ----------------------------
(***************************************************************************)
(* The gate before the local history: HistoryAccessService, with the IPC   *)
(* handlers of main.ts that ask it (unlock, lock again, what reads the     *)
(* history, and its restoration) and the School-mode observer that shuts   *)
(* it.                                                                     *)
(*                                                                         *)
(* The service numbers its sessions: a handler takes the number, awaits    *)
(* the history and answers only if the number is still that of an open     *)
(* session.  Only whether it is matters: fresh has the calls for which it  *)
(* is.  An action ends where a handler awaits something.                   *)
(*                                                                         *)
(* A credential stands for its verifier.  Whether an appearance lock is    *)
(* active is LockSupport's business and changes here at will.              *)
(***************************************************************************)
EXTENDS Naturals

CONSTANTS Users,         \* the calls that may overlap
          Secrets,       \* the credentials
          None,          \* no file, no verifier
          Spoilt,        \* a file that cannot be decrypted
          MaxFailures,   \* MAX_FAILURES
          AccessFaults   \* bound on failing writes and ends of the process

ASSUME SecretsAssumption == None \notin Secrets /\ Spoilt \notin Secrets
                            /\ None # Spoilt
ASSUME AccessBoundsAssumption == MaxFailures \in Nat /\ AccessFaults \in Nat

VARIABLES
    accessFile,    \* history-access.v1.dpapi
    accessLoaded,
    available,
    verifier,
    open,          \* HistoryAccessService.unlocked
    failures,
    restricted,    \* what School mode last told the observer
    calls,         \* what each handler has got to
    fresh,         \* the calls whose token is that of the present session
    held,          \* those since whose beginning a session was open all along
    propertyLock,  \* hasLockedAppearanceProperties
    accessFaults   \* faults so far

service == <<accessLoaded, available, verifier, failures>>
session == <<open, fresh, held>>
accessVars == <<accessFile, accessLoaded, available, verifier, open, failures,
                restricted, calls, fresh, held, propertyLock, accessFaults>>
-----------------------------------------------------------------------------
(* A creation writes; a reader reads; a restoration waits and applies.     *)
Steps == {"none", "writing", "written", "reading", "waiting", "applying",
          "told", "refused"}
Call(step, given) == [step |-> step, given |-> given]
NoCall == Call("none", None)

To(u, step) == calls' = [calls EXCEPT ![u] = Call(step, calls[u].given)]

FaultHappens == accessFaults < AccessFaults /\ accessFaults' = accessFaults + 1

(* A failure, lock and invalidate all close the session and count the      *)
(* generation up, which no token survives.                                 *)
Close == open' = FALSE /\ fresh' = {} /\ held' = {}

(* So does a session that opens; had one been open, it goes on.  held is   *)
(* only there for the properties.                                          *)
Reopen == open' = TRUE /\ fresh' = {} /\ UNCHANGED held

(* historyToken. *)
Take(u) == fresh' = fresh \cup {u} /\ held' = held \cup {u} /\ UNCHANGED open

(* Mutant: any open session will do. *)
CurrentIfOpen(u) == open

(* isSessionCurrent. *)
Current(u) == open /\ u \in fresh

AccessInit ==
    /\ accessFile \in Secrets \cup {None, Spoilt}
    /\ accessLoaded = FALSE
    /\ available = FALSE
    /\ verifier = None
    /\ open = FALSE
    /\ failures = 0
    /\ restricted \in BOOLEAN
    /\ calls = [u \in Users |-> NoCall]
    /\ fresh = {} /\ held = {}
    /\ propertyLock \in BOOLEAN
    /\ accessFaults = 0
-----------------------------------------------------------------------------
(* loadOnce, with a vault: no file is a gate without a credential, a file  *)
(* that cannot be understood one that does not open.                       *)
LoadAccess ==
    /\ ~accessLoaded
    /\ accessLoaded' = TRUE
    /\ available' = (accessFile # Spoilt)
    /\ verifier' = IF accessFile = Spoilt THEN None ELSE accessFile
    /\ UNCHANGED <<accessFile, session, failures, restricted, calls,
                   propertyLock, accessFaults>>

(* unlock, unless it creates: ... *)
Asked == /\ accessLoaded /\ ~restricted
         /\ UNCHANGED <<accessFile, accessLoaded, available, verifier,
                        restricted, calls, propertyLock, accessFaults>>
MayTry == available /\ failures < MaxFailures

(* ... with the right credential, ... *)
Unlock(secret) ==
    /\ Asked
    /\ MayTry
    /\ secret = verifier
    /\ failures' = 0
    /\ Reopen

(* ... a wrong one, none to compare it with, or no more attempts.          *)
UnlockFails(secret) ==
    /\ Asked
    /\ ~(MayTry /\ secret = verifier)
    /\ failures' = IF MayTry /\ verifier # None THEN failures + 1 ELSE failures
    /\ Close

(* unlock with create, up to its writing of the file. *)
Create(u, secret) ==
    /\ calls[u] = NoCall
    /\ accessLoaded
    /\ ~restricted
    /\ MayTry
    /\ verifier = None
    /\ calls' = [calls EXCEPT ![u] = Call("writing", secret)]
    /\ UNCHANGED <<accessFile, service, session, restricted, propertyLock,
                   accessFaults>>

(* Mutant: whichever is last. *)
WriteVerifierOver(u) ==
    /\ calls[u].step = "writing"
    /\ accessFile' = calls[u].given
    /\ To(u, "written")
    /\ UNCHANGED <<service, session, restricted, propertyLock, accessFaults>>

(* writeFile with the flag wx: it makes the file or rejects. *)
WriteVerifier(u) ==
    /\ calls[u].step = "writing"
    /\ \/ /\ accessFile = None
          /\ accessFile' = calls[u].given
          /\ To(u, "written")
          /\ UNCHANGED session
       \/ /\ accessFile # None
          /\ UNCHANGED accessFile
          /\ calls' = [calls EXCEPT ![u] = NoCall]
          /\ Close
    /\ UNCHANGED <<service, restricted, propertyLock, accessFaults>>

(* The write fails, or not all of it is done. *)
Half == {accessFile} \cup (IF accessFile = None THEN {Spoilt} ELSE {})
WriteVerifierFails(u) ==
    /\ calls[u].step = "writing"
    /\ FaultHappens
    /\ accessFile' \in Half
    /\ calls' = [calls EXCEPT ![u] = NoCall]
    /\ Close
    /\ UNCHANGED <<service, restricted, propertyLock>>

(* The rest of unlock with create. *)
Created(u) ==
    /\ calls[u].step = "written"
    /\ verifier' = calls[u].given
    /\ calls' = [calls EXCEPT ![u] = NoCall]
    /\ Reopen
    /\ UNCHANGED <<accessFile, accessLoaded, available, failures, restricted,
                   propertyLock, accessFaults>>

(* lock: "Lock again". *)
Lock ==
    /\ Close
    /\ UNCHANGED <<accessFile, service, restricted, calls, propertyLock,
                   accessFaults>>

(* The observer of School mode. *)
SchoolTells ==
    /\ restricted' \in BOOLEAN
    /\ IF restricted' THEN Close ELSE UNCHANGED session
    /\ UNCHANGED <<accessFile, service, calls, propertyLock, accessFaults>>
-----------------------------------------------------------------------------
(* list, export, archive, revisions, diff and label, up to their use of    *)
(* the history; a restricted application shuts the gate here, too.         *)
BeginRead(u) ==
    /\ calls[u] = NoCall
    /\ \/ /\ restricted
          /\ Close
          /\ UNCHANGED calls
       \/ /\ ~restricted
          /\ open
          /\ Take(u)
          /\ To(u, "reading")
    /\ UNCHANGED <<accessFile, service, restricted, propertyLock, accessFaults>>

EndRead(u) ==
    /\ calls[u].step = "reading"
    /\ To(u, IF Current(u) THEN "told" ELSE "refused")
    /\ UNCHANGED <<accessFile, service, session, restricted, propertyLock,
                   accessFaults>>

(* history:restore: it puts up the barrier of the mutation queue and waits *)
(* for what is queued before it.                                           *)
BeginRestore(u) ==
    /\ calls[u] = NoCall
    /\ ~restricted
    /\ open
    /\ ~propertyLock
    /\ Take(u)
    /\ To(u, "waiting")
    /\ UNCHANGED <<accessFile, service, restricted, propertyLock, accessFaults>>

(* Its turn comes: it looks at the token again. *)
RunRestore(u) ==
    /\ calls[u].step = "waiting"
    /\ \A v \in Users : calls[v].step # "applying"
    /\ To(u, IF Current(u) THEN "applying" ELSE "refused")
    /\ UNCHANGED <<accessFile, service, session, restricted, propertyLock,
                   accessFaults>>

(* What history.restore has done, the handler tells if it still may. *)
EndRestore(u) ==
    /\ calls[u].step = "applying"
    /\ \/ Current(u) /\ To(u, "told")
       \/ To(u, "refused")
    /\ UNCHANGED <<accessFile, service, session, restricted, propertyLock,
                   accessFaults>>

(* The renderer has the answer. *)
Received(u) ==
    /\ calls[u].step \in {"told", "refused"}
    /\ calls' = [calls EXCEPT ![u] = NoCall]
    /\ fresh' = fresh \ {u} /\ held' = held \ {u}
    /\ UNCHANGED <<accessFile, service, open, restricted, propertyLock,
                   accessFaults>>

(* An appearance lock is set, opened, or expires. *)
PropertyLockChanges ==
    /\ propertyLock' = ~propertyLock
    /\ UNCHANGED <<accessFile, service, session, restricted, calls,
                   accessFaults>>

(* The process ends and is started again.  A file half written stays. *)
AccessCrash ==
    /\ FaultHappens
    /\ accessFile' \in IF \E u \in Users : calls[u].step = "writing"
                      THEN Half ELSE {accessFile}
    /\ accessLoaded' = FALSE
    /\ available' = FALSE
    /\ verifier' = None
    /\ failures' = 0
    /\ calls' = [u \in Users |-> NoCall]
    /\ Close
    /\ UNCHANGED <<restricted, propertyLock>>

AccessNext ==
    \/ LoadAccess \/ Lock \/ SchoolTells \/ PropertyLockChanges \/ AccessCrash
    \/ \E secret \in Secrets : \/ Unlock(secret) \/ UnlockFails(secret)
                               \/ \E u \in Users : Create(u, secret)
    \/ \E u \in Users : \/ WriteVerifier(u) \/ WriteVerifierFails(u) \/ Created(u)
                        \/ BeginRead(u) \/ EndRead(u)
                        \/ BeginRestore(u) \/ RunRestore(u) \/ EndRestore(u)
                        \/ Received(u)

AccessSpec == AccessInit /\ [][AccessNext]_accessVars
-----------------------------------------------------------------------------
AccessTypeOK ==
    /\ accessFile \in Secrets \cup {None, Spoilt}
    /\ accessLoaded \in BOOLEAN /\ available \in BOOLEAN /\ open \in BOOLEAN
    /\ restricted \in BOOLEAN /\ propertyLock \in BOOLEAN
    /\ verifier \in Secrets \cup {None}
    /\ failures \in 0..MaxFailures
    /\ calls \in [Users -> [step: Steps, given: Secrets \cup {None}]]
    /\ fresh \subseteq Users /\ held \subseteq Users
    /\ accessFaults \in 0..AccessFaults

(* The credential that opens the gate is the one on disk, whichever of two *)
(* overlapping creations came first (history-access-service.ts:88-103),    *)
(* and at most one of them has made it.  Types, and the limit on wrong     *)
(* credentials, are part of it.                                            *)
OneCredential ==
    /\ AccessTypeOK
    /\ verifier # None => accessFile = verifier
    /\ open => verifier # None
    /\ \A u \in Users : calls[u].step = "written" => accessFile = calls[u].given

(* A restoration begins, and contents of the history or its success are    *)
(* told, only in the session that asked: one that was open all the time,   *)
(* and not one that was shut and opened again, nor under School mode       *)
(* (main.ts:578-655).                                                      *)
AnswersAreOfTheSession ==
    [][\A u \in Users :
          /\ calls'[u].step \in {"applying", "told"}
          /\ calls'[u].step # calls[u].step
          => u \in held /\ open /\ ~restricted]_accessVars

(* What a document or a message says and the code does not do: the two     *)
(* formulas below are not true (see the README).                           *)

(* "School mode suppresses protected history and invalidates any in-memory *)
(* unlock immediately when the mode becomes enabled"                       *)
(* (history-versioning.md:23).                                             *)
RestrictedIsShut == restricted => ~open

(* "History restore is paused while an appearance property lock is active" *)
(* (main.ts:635).                                                          *)
RestoreHeedsLocks ==
    [][\A u \in Users : calls[u].step = "waiting" /\ calls'[u].step = "applying"
                        => ~propertyLock]_accessVars
=============================================================================
