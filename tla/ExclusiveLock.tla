---------------------------- MODULE ExclusiveLock ----------------------------
(***************************************************************************)
(* What the lock file of school-mode-service.ts promises to the processes  *)
(* that share a record: one of them at a time is inside its critical       *)
(* section, and the lock of a process is taken away only when it has left  *)
(* or is dead.  A process may be slow to give the lock back, or never do.  *)
(***************************************************************************)
EXTENDS FiniteSets
CONSTANTS Procs, NoProc

ASSUME ProcsAssumption == NoProc \notin Procs

VARIABLES alive,   \* the processes that have not ended
          holder,  \* the process that the lock is held for
          inside   \* the live processes in their critical section

lockVars == <<alive, holder, inside>>
-----------------------------------------------------------------------------
LockInit == /\ alive = Procs
            /\ holder = NoProc
            /\ inside = {}

Enter(p) == /\ p \in alive
            /\ holder = NoProc
            /\ holder' = p
            /\ inside' = inside \cup {p}
            /\ UNCHANGED alive

Leave(p) == /\ p \in inside
            /\ inside' = inside \ {p}
            /\ UNCHANGED <<alive, holder>>

(* The holder gives the lock back, or another process breaks a dead lock. *)
Free == /\ holder # NoProc
        /\ holder \notin inside
        /\ holder' = NoProc
        /\ UNCHANGED <<alive, inside>>

Crash(p) == /\ p \in alive
            /\ alive' = alive \ {p}
            /\ inside' = inside \ {p}
            /\ UNCHANGED holder

LockNext == Free \/ \E p \in Procs : Enter(p) \/ Leave(p) \/ Crash(p)

LockSpec == LockInit /\ [][LockNext]_lockVars

(* At most one process is inside, and the lock is held for it. *)
MutualExclusion == inside \subseteq {holder}
=============================================================================
