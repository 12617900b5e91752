-------------------------- MODULE MCManifestStore ---------------------------
(***************************************************************************)
(* ManifestStore with two savers, two manifests, and files written in two  *)
(* pieces.  Four inodes: the current file, the one on the disk and the two *)
(* savers' can all differ, and so can both of them, one saver's and a      *)
(* stray.                                                                  *)
(***************************************************************************)
EXTENDS ManifestStore, TLC

CONSTANTS p1, p2, m1, m2, i1, i2, i3, i4

MCSavers == {p1, p2}
MCValues == {m1, m2}
MCInodes == {i1, i2, i3, i4}

\* Processes and inodes are interchangeable.
MCSymmetry == Permutations(MCSavers) \cup Permutations(MCInodes)

Everything == {"error", "kill", "powerloss"}
=============================================================================
