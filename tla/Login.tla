------------------------------- MODULE Login -------------------------------
(***************************************************************************)
(* What authorising the bot with another service promises: a user's token  *)
(* comes from a consent given on a link that was made for that very user,  *)
(* a consent logs in once at most, and nobody is ever logged out.          *)
(***************************************************************************)
CONSTANTS Users, Links, Consents, NoUser, NoLink, NoConsent

VARIABLES
    issued,     \* [Links -> whom a link was made for, or NoUser]
    granted,    \* [Consents -> the link it was given on, or NoLink]
    used,       \* the consents that are used up
    token       \* [Users -> the consent of the token stored, or NoConsent]

vars == <<issued, granted, used, token>>

Init ==
    /\ issued = [l \in Links |-> NoUser]
    /\ granted = [c \in Consents |-> NoLink]
    /\ used = {}
    /\ token = [u \in Users |-> NoConsent]

Issue(l, u) ==
    /\ issued[l] = NoUser
    /\ issued' = [issued EXCEPT ![l] = u]
    /\ UNCHANGED <<granted, used, token>>

Grant(c, l) ==
    /\ granted[c] = NoLink /\ issued[l] # NoUser
    /\ granted' = [granted EXCEPT ![c] = l]
    /\ UNCHANGED <<issued, used, token>>

Usable(c) == granted[c] # NoLink /\ c \notin used

\* The login comes to nothing and the consent is spent all the same.
Waste(c) ==
    /\ Usable(c)
    /\ used' = used \cup {c}
    /\ UNCHANGED <<issued, granted, token>>

LogIn(c) ==
    /\ Usable(c)
    /\ used' = used \cup {c}
    /\ token' = [token EXCEPT ![issued[granted[c]]] = c]
    /\ UNCHANGED <<issued, granted>>

Next ==
    \/ \E l \in Links : \E u \in Users : Issue(l, u)
    \/ \E c \in Consents : Waste(c) \/ LogIn(c) \/ \E l \in Links : Grant(c, l)

Spec == Init /\ [][Next]_vars
=============================================================================
