---------------------------- MODULE MCCarStores ----------------------------
\* The model values that the instances of CarStores are made of.
EXTENDS CarStores

CONSTANTS p1, p2, p3

=============================================================================
