------------------------ MODULE MCSlidingWindowLimiter ------------------------
EXTENDS SlidingWindowLimiter, TLC

CONSTANT MaxAdmitted    \* bound on the requests let through

Bounded == Len(admitted) <= MaxAdmitted

Symmetry == Permutations(Thread)
=============================================================================
