---------------------------- MODULE MCEdgeAgent ----------------------------
EXTENDS EdgeAgent, TLC

\* Cameras differ in nothing but their name.  Objects and processes do not need
\* symmetry: their identities are handed out in a fixed order.
CameraSymmetry == Permutations(Cameras)
=============================================================================
