----------------------------- MODULE MCRegistry -----------------------------
EXTENDS Registry

CONSTANTS admin, karma, score

MCItem(k, n) == [kind |-> k, name |-> n]

\* The karma plugin, another one that has a command of the same name, and admin.
MCItems == [p \in Plugins |->
    IF p = karma THEN <<MCItem("command", "score"), MCItem("hook", "")>>
    ELSE IF p = score THEN <<MCItem("command", "high"), MCItem("command", "score"), MCItem("webhook", "score")>>
    ELSE <<MCItem("command", "shutdown"), MCItem("webhook", "healthCheck")>>]

MCId == [p \in Plugins |-> IF p = admin THEN "admin" ELSE IF p = karma THEN "karma" ELSE "score"]
=============================================================================
