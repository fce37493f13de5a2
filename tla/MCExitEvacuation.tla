-------------------------- MODULE MCExitEvacuation --------------------------
\* The model values that the instances of ExitEvacuation are made of.
EXTENDS ExitEvacuation

CONSTANTS e1, p1, x1

=============================================================================
