------------------------------- MODULE MCVFS -------------------------------
EXTENDS VFS, TLC

\* The clients differ by their addresses only.
Symmetry == Permutations(Addr)
====
