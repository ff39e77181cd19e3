--------------------------- MODULE MCProjectFiles ---------------------------
(* Two folders, two maps, images that fit one or the other or have to be     *)
(* converted.                                                                *)
EXTENDS ProjectFiles, TLC

CONSTANTS f1, f2, m1, m2, c1, s1

MCFolders == {f1, f2}
MCMaps == {m1, m2}
MCImages == [fits : MCMaps, greyscale : BOOLEAN]
MCContinents == {c1}
MCStateIDs == {s1}

Symmetry == Permutations(MCFolders) \union Permutations(MCMaps)
=============================================================================
