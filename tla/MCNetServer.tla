---------------------------- MODULE MCNetServer ----------------------------
(* Instances of NetServer for TLC. *)
EXTENDS NetServer, TLC

\* Descriptors are interchangeable: the kernel hands out any free one.
FdSymmetry == Permutations(Fd)
=============================================================================
