-------------------------- MODULE MCFatFilesystem --------------------------
(* The volume for TLC: its files are interchangeable.                        *)
EXTENDS FatFilesystem, TLC

Symmetry == Permutations(File)
=============================================================================
