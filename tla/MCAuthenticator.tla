--------------------------- MODULE MCAuthenticator ---------------------------
EXTENDS Authenticator

CONSTANTS a, b, g

MCIds == {a, b}
MCSaved == {Blank, [ids |-> {b}, groups |-> {g}]}
MCSelections == {{a}, {a, b}}
MCGroups == {g}
MCLimit == [kind \in Kinds |-> IF kind = "fault" THEN 2 ELSE 1]
=============================================================================
