---------------------------- MODULE MCVMSClient ----------------------------
EXTENDS VMSClient, TLC

\* Good events differ in nothing but their name.
EventSymmetry == Permutations(Events \ Poison)
=============================================================================
