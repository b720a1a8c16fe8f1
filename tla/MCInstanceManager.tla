-------------------------- MODULE MCInstanceManager --------------------------
EXTENDS InstanceManager, TLC

\* Names, labels and request goroutines are interchangeable.
Symmetry == Permutations(Names) \cup Permutations(Labels) \cup Permutations(Requests)
=============================================================================
