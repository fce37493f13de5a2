----------------------------- MODULE MCExitGate -----------------------------
\* The model values that the instances of ExitGate are made of.
EXTENDS ExitGate

CONSTANTS e1, e2, p1, p2, x1, x2

=============================================================================
