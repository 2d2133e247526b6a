--------------------------- MODULE AtomicRestore ---------------------------
(***************************************************************************)
(* What a history restore promises: the whole App Store state changes in   *)
(* one indivisible step or not at all.  A request remembers the state it   *)
(* started from; until it is settled the state is exactly `from' or        *)
(* exactly `to', and user saves are fenced out.                            *)
(***************************************************************************)
CONSTANTS Files,     \* the application-data files
          Contents,  \* what a file may hold, absence included
          NoRequest

VARIABLES state,     \* the durable state of every file
          request    \* the restore being carried out

vars == <<state, request>>

States == [Files -> Contents]
Requests == [from : States, to : States]

Init == /\ state \in States
        /\ request = NoRequest

Save(f, c) ==
    /\ request = NoRequest
    /\ state' = [state EXCEPT ![f] = c]
    /\ UNCHANGED request

Submit(to) ==
    /\ request = NoRequest
    /\ request' = [from |-> state, to |-> to]
    /\ UNCHANGED state

TakeEffect ==
    /\ request # NoRequest
    /\ state' = request.to
    /\ UNCHANGED request

TakeBack ==
    /\ request # NoRequest
    /\ state' = request.from
    /\ UNCHANGED request

Settle ==
    /\ request # NoRequest
    /\ request' = NoRequest
    /\ UNCHANGED state

Next == \/ \E f \in Files, c \in Contents : Save(f, c)
        \/ \E to \in States : Submit(to)
        \/ TakeEffect
        \/ TakeBack
        \/ Settle

Spec == Init /\ [][Next]_vars
=============================================================================
