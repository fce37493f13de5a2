---------------------------- MODULE MCEvacuation ----------------------------
\* The model values that the instances of Evacuation are made of.
EXTENDS Evacuation

CONSTANTS p1, p2, e1

=============================================================================
