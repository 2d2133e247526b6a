-------------------------- MODULE MCAppOperations --------------------------
(* The operations on two applications, one portable and one with an        *)
(* installer, or the store's own update: one in each behaviour, since they *)
(* share no state.                                                         *)
EXTENDS AppOperations, StoreUpdate

CONSTANTS player, editor

MCApps == {player, editor}
MCPortable == {player}

VARIABLE own      \* is it the store's own update

MCvars == <<vars, updateVars, own>>

MCInit == /\ own \in BOOLEAN
          /\ Init /\ UpdateInit
          /\ ~own => feed = 1 /\ marker = NoVersion

MCNext == /\ \/ ~own /\ Next /\ UNCHANGED updateVars
             \/ own /\ UpdateNext /\ UNCHANGED vars
          /\ UNCHANGED own

(* What does not happen in a behaviour is never enabled in it. *)
MCSpec == /\ MCInit /\ [][MCNext]_MCvars
          /\ WF_vars(Job) /\ \A a \in Apps : WF_vars(Launching(a))
          /\ CheckFairness
=============================================================================
