------------------------------ MODULE MCFiles ------------------------------
(***************************************************************************)
(* Files for TLC: a parent and a child, two descriptors each, three opens  *)
(* with room for two objects at a time.                                    *)
(***************************************************************************)
EXTENDS Files, TLC

CONSTANTS x, y, p1, p2, a1, a2

MCData == {<<x>>, <<y, x>>}
MCDisk == <<"sub", "b">> :> <<y>>
MCDirectories == {<<"sub">>}

\* Special files, names repeated, files and directories present and missing,
\* the root, the mount point, and a path below a special file.
MCPaths ==
  { <<"stdio">>, <<"pipe", "pipe">>, <<"disk", "sub", "b">>, <<"disk", "disk">>,
    <<"disk", "none", "b">>, <<>>, <<"stdio", "disk">> }

MCDescriptors == -1 .. TableSize

\* In front of a file of one byte, at its start and behind its end.
MCOffsets == {-1, 0, 2}

\* What a call was, returned and delivered is compared with OpenFiles for every
\* step, but no step reads it: states that differ only in that are one state.
\* The tree never changes.
View == <<running, procs, fd_table, contexts, heap>>

\* Which free memory malloc returns makes no difference.
Symmetry == Permutations(Addresses)
=============================================================================
