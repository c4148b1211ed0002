----------------------------- MODULE MCStoreTx -----------------------------
EXTENDS StoreData

CONSTANTS nowplaying, g, karma, song

MCTx(m, r, c) == [mode |-> m, reply |-> r, call |-> c]

\* spotify's command asks spotify and replies inside a write transaction, /g asks
\* giphy and replies inside a read transaction that a write follows, karma's hook
\* writes once a token, spotify's hook reads the token for a call, as /comic reads
\* its templates for an upload.
MCScript == [x \in Clients |->
    IF x = nowplaying THEN <<MCTx("write", TRUE, TRUE)>>
    ELSE IF x = g THEN <<MCTx("read", TRUE, TRUE), MCTx("write", FALSE, FALSE)>>
    ELSE IF x = karma THEN <<MCTx("write", FALSE, FALSE)>>
    ELSE <<MCTx("read", FALSE, TRUE)>>]

\* Who finds it free takes it, for karma or for another plugin; who does not, fails.
MCContents == {"free", "karma", "other"}

MCMakes == [x \in Clients |-> [v \in MCContents |->
    IF v # "free" THEN {} ELSE IF x = karma THEN {"karma"} ELSE {"other"}]]
=============================================================================
