------------------------------- MODULE MCGifs -------------------------------
EXTENDS Gifs

CONSTANTS party, sad, dance, cry

\* "party" has a gif of version 1, "sad" has none.
MCLegacy == [p \in Phrases |-> IF p = party THEN dance ELSE Nothing]
=============================================================================
