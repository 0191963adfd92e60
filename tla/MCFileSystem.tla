----------------------------- MODULE MCFileSystem -----------------------------
\* Small sets of calls for FileSystem.
EXTENDS FileSystem, TLC

Root(s) == [root |-> TRUE, elems |-> s]
Here(s) == [root |-> FALSE, elems |-> s]

Call(op, path) == [op |-> op, path |-> path, new |-> NoPath]

\* A directory, something in it, and the way back up.
MCCalls == {Call("mkdir", Root(<<"a">>)), Call("mkdir", Root(<<"a", "b">>)),
            Call("create", Root(<<"a">>)),
            Call("unlink", Root(<<"a">>)), Call("unlink", Root(<<"a", "b">>)),
            Call("chdir", Root(<<"a", "b">>)), Call("chdir", Here(<<"..">>)),
            Call("open", Root(<<"a">>)), Call("mknod", Root(<<"b">>)),
            [op |-> "link", path |-> Root(<<"a">>), new |-> Root(<<"b">>)]}

Symmetry == Permutations(Procs)
================================================================================
