---------------------------- MODULE AtomicStore ----------------------------
(***************************************************************************)
(* What the authors of plugins take the store for ("This allows you to     *)
(* transform data atomically", store.go): an update is one step, made of   *)
(* what is stored at that time, and who only reads sees what was stored at *)
(* one time until it is done.                                              *)
(***************************************************************************)
CONSTANTS
    Clients,
    Contents,   \* what can be stored
    Makes,      \* [Clients -> what its function may make of what it finds]
    NoContent

VARIABLES
    content,    \* what is stored
    seen        \* [Clients -> what a reader looks at, or NoContent]

vars == <<content, seen>>

Init == content \in Contents /\ seen = [c \in Clients |-> NoContent]

Update(c) ==
    /\ content' \in Makes[c][content]
    /\ UNCHANGED seen

Look(c) ==
    /\ seen[c] = NoContent
    /\ seen' = [seen EXCEPT ![c] = content]
    /\ UNCHANGED content

LookAway(c) ==
    /\ seen' = [seen EXCEPT ![c] = NoContent]
    /\ UNCHANGED content

Next == \E c \in Clients : Update(c) \/ Look(c) \/ LookAway(c)

Spec == Init /\ [][Next]_vars
=============================================================================
