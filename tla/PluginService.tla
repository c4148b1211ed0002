--------------------------- MODULE PluginService ---------------------------
(***************************************************************************)
(* What the bot promises the users and the plugins, seen from outside: a   *)
(* request is served at most once and by the plugin it is meant for, a     *)
(* plugin serves one request at a time, and a request is settled once,     *)
(* with an answer only if it was served.                                   *)
(***************************************************************************)
CONSTANTS
    Requests,
    Workers,
    Owner,      \* [Requests -> Workers \cup {somebody else}]
    Nothing

VARIABLES
    serving,    \* the request each worker is busy with, or Nothing
    served,     \* the requests that were ever handed to their worker
    outcome     \* open, answered or unanswered

Init ==
    /\ serving = [w \in Workers |-> Nothing]
    /\ served = {}
    /\ outcome = [r \in Requests |-> "open"]

Take(w, r) ==
    /\ serving[w] = Nothing
    /\ Owner[r] = w /\ r \notin served
    /\ serving' = [serving EXCEPT ![w] = r]
    /\ served' = served \cup {r}
    /\ UNCHANGED outcome

Release(w) ==
    /\ serving[w] # Nothing
    /\ serving' = [serving EXCEPT ![w] = Nothing]
    /\ UNCHANGED <<served, outcome>>

Answer(r) ==
    /\ outcome[r] = "open" /\ r \in served
    /\ outcome' = [outcome EXCEPT ![r] = "answered"]
    /\ UNCHANGED <<serving, served>>

GiveUp(r) ==
    /\ outcome[r] = "open"
    /\ outcome' = [outcome EXCEPT ![r] = "unanswered"]
    /\ UNCHANGED <<serving, served>>

Next ==
    \/ \E w \in Workers : Release(w) \/ \E r \in Requests : Take(w, r)
    \/ \E r \in Requests : Answer(r) \/ GiveUp(r)

Spec == Init /\ [][Next]_<<serving, served, outcome>>
=============================================================================
