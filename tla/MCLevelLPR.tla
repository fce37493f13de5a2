----------------------------- MODULE MCLevelLPR -----------------------------
\* The model values that the instances of LevelLPR are made of.
EXTENDS LevelLPR

CONSTANTS e1, e2, p1, p2

\* One car comes back, the other one gets in its way.
OneComesBack == [p \in Plates |-> IF p = p1 THEN 2 ELSE 1]

=============================================================================
