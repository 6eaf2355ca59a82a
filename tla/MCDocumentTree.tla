---------------------------- MODULE MCDocumentTree ----------------------------
(* Instances of DocumentTree for TLC: two directories with one file each. *)
EXTENDS DocumentTree, TLC

CONSTANTS DirNames, FileName  \* names of documents

MCNames == DirNames \cup {FileName}
MCDirs == {<<d>> : d \in DirNames}
MCPaths == MCDirs \cup {<<d, FileName>> : d \in DirNames}

(* Names are interchangeable, but for the one that files keep when they move. *)
Symmetry == Permutations(DirNames)
=============================================================================
