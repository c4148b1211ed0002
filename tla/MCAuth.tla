------------------------------- MODULE MCAuth -------------------------------
EXTENDS Auth, TLC

CONSTANTS ann, bob, l1, l2, c1, c2

\* Users, links and consents have no order.
Symmetry == Permutations(Users) \cup Permutations(Links) \cup Permutations(Consents)
=============================================================================
