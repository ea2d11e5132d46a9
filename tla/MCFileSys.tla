----------------------------- MODULE MCFileSys -----------------------------
(* Instances of FileSys for TLC.  Names and struct files are               *)
(* interchangeable.                                                        *)
EXTENDS FileSys

Interchangeable == Permutations(Name) \cup Permutations(File)
=============================================================================
