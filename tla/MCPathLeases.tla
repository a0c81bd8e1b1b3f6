---------------------------- MODULE MCPathLeases ----------------------------
(* Small instances of the audio files. *)
EXTENDS PathLeases, TLC

CONSTANTS p1, i1, i2, i3, d1, d2, r1, t1, t2

\* Inodes, owners and publishers are interchangeable.
Simetria ==
    Permutations(Inodes) \cup Permutations(Donos) \cup Permutations(Publicadores)
=============================================================================
