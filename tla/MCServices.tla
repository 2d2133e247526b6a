------------------------------ MODULE MCServices ------------------------------
(* Parts that share no state, one in each behaviour: LockSupport,           *)
(* HistoryAccess, PortableReplace, ManagedUpdate, GuestProtocol or          *)
(* AppearanceDraft.  The others stay in one of their initial states.        *)
EXTENDS LockSupport, HistoryAccess, PortableReplace, ManagedUpdate,
        GuestProtocol, AppearanceDraft, TLC

CONSTANTS player, editor

MCApps == {player, editor}
Interchangeable == Permutations(MCApps) \cup Permutations(Keys)
                   \cup Permutations(Credentials)

MCLimit == [kind \in Kinds |-> IF kind = "request" THEN 3 ELSE 2]

VARIABLE subject

vars == <<lockVars, accessVars, portableVars, managedVars, guestVars,
          appearanceVars, subject>>

Others ==
    /\ subject # "locks" => lockFile = Nothing
    /\ subject # "access" => accessFile = None /\ ~restricted /\ ~propertyLock
    /\ subject # "portable" => directory = Gone
    /\ subject # "managed" => installed = [a \in Apps |-> 0]
    /\ subject # "guest" => mode = "source"
    /\ subject # "appearance" => stored = [e \in Elements |-> Plain]

Init == /\ subject \in {"locks", "access", "portable", "managed", "guest",
                        "appearance"}
        /\ LocksInit /\ AccessInit /\ PortableInit /\ ManagedInit
        /\ GuestInit /\ AppearanceInit /\ Others

Only(part) == subject = part /\ UNCHANGED subject

Next ==
    \/ /\ Only("locks") /\ LocksNext
       /\ UNCHANGED <<accessVars, portableVars, managedVars, guestVars,
                      appearanceVars>>
    \/ /\ Only("access") /\ AccessNext
       /\ UNCHANGED <<lockVars, portableVars, managedVars, guestVars,
                      appearanceVars>>
    \/ /\ Only("portable") /\ PortableNext
       /\ UNCHANGED <<lockVars, accessVars, managedVars, guestVars,
                      appearanceVars>>
    \/ /\ Only("managed") /\ ManagedNext
       /\ UNCHANGED <<lockVars, accessVars, portableVars, guestVars,
                      appearanceVars>>
    \/ /\ Only("guest") /\ GuestNext
       /\ UNCHANGED <<lockVars, accessVars, portableVars, managedVars,
                      appearanceVars>>
    \/ /\ Only("appearance") /\ AppearanceNext
       /\ UNCHANGED <<lockVars, accessVars, portableVars, managedVars,
                      guestVars>>

Spec == Init /\ [][Next]_vars
=============================================================================
