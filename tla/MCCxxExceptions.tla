-------------------------- MODULE MCCxxExceptions --------------------------
(* The exceptions of the C++ ABI library for TLC: threads, exceptions and    *)
(* exception_ptrs are each interchangeable.  The memory of a new exception   *)
(* holds no handler count, and a reference count of zero, one or 2^64 - 1.   *)
EXTENDS CxxExceptions, TLC

MCMemory == [refs : {-1, 0, 1}, handlers : {0}]

Symmetry == Permutations(Thread) \cup Permutations(Exn) \cup Permutations(Ptr)
=============================================================================
