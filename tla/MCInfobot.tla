----------------------------- MODULE MCInfobot -----------------------------
EXTENDS Infobot, TLC

\* Names are interchangeable, and so are values.
Symmetry == Permutations(Names) \cup Permutations(Values)
=============================================================================
