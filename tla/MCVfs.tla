------------------------------- MODULE MCVfs --------------------------------
(* Model checking of Vfs: programs with a few descriptors on small files.  *)
EXTENDS Vfs

\* The first two sizes of the server's table.
TwoSizes == <<7, 19>>

\* The first program makes every call; the others open one file and read it.
Roles ==
    [n \in Programs |->
        IF n = 1
        THEN [cmds |-> Cmds, names |-> {"f", "/"}, calls |-> 5]
        ELSE [cmds |-> {"VFS_OPENCONN", "VFS_OPEN", "VFS_READ"},
              names |-> {"g"}, calls |-> 3]]
=============================================================================
