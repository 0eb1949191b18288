--------------------------- MODULE MCEventOutbox ---------------------------
EXTENDS EventOutbox, TLC

\* The events differ in nothing but their name.
EventSymmetry == Permutations(Events)
=============================================================================
