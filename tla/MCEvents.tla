------------------------------ MODULE MCEvents ------------------------------
EXTENDS Events

CONSTANTS karma, infobot, hello, thanks, B1

MCOrder == <<karma, infobot>>

\* A person's message and this bot's.
MCAuthor == [m \in Messages |-> IF m = hello THEN NoBot ELSE B1]

\* The person's message is repeated.
MCAttempts == [m \in Messages |-> IF m = hello THEN 2 ELSE 1]
=============================================================================
