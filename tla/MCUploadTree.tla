---------------------------- MODULE MCUploadTree ----------------------------
(* A small local disk and the requests that tell the rules apart. The tree   *)
(* `s` has a file below two directories, a chain that two workers make at    *)
(* once, and a symbolic link; `b` has the name of the file below it; in `d`  *)
(* is a directory that cannot be read, and a name read_dir does not get to.  *)
(* On the remote side the target is missing, a directory or a file, or has a *)
(* file where the upload wants a directory and the other way round, or a     *)
(* longer old file.                                                          *)
EXTENDS UploadTree, TLC
CONSTANTS w1, w2
MCSymmetry == Permutations({w1, w2})

N(letter) == <<letter>>
MCNames == {N(l) : l \in {"a", "b", "c", "d", "l", "s", "t", "u", "x", "?"}}
             \cup {<<"a", "b">>, <<"*", "b">>, <<"*">>}
Dir == [kind |-> "dir", data |-> "none"]
File(data) == [kind |-> "file", data |-> data]
MCLocal ==
  (<<>> :> Dir)
  @@ (<<N("s")>> :> Dir)
  @@ (<<N("s"), N("a")>> :> Dir)
  @@ (<<N("s"), N("a"), N("c")>> :> Dir)
  @@ (<<N("s"), N("a"), N("c"), N("b")>> :> File("f"))
  @@ (<<N("s"), N("l")>> :> [kind |-> "link", data |-> "g"])
  @@ (<<N("b")>> :> File("g"))
  @@ (<<<<"a", "b">>>> :> File("h"))
  @@ (<<N("x")>> :> [kind |-> "broken", data |-> "none"])
  @@ (<<N("d")>> :> Dir)
  @@ (<<N("d"), N("u")>> :> Dir)
  @@ (<<N("d"), N("u"), N("b")>> :> File("f"))
  @@ (<<N("d"), N("c")>> :> File("g"))
MCUnlisted == {<<N("d"), N("u"), N("b")>>, <<N("d"), N("c")>>}
MCSize == [f |-> 2, g |-> 1, h |-> 1]

Source(path) == [path |-> path, slash |-> FALSE]
To(sources, target, slash) == [sources |-> sources, target |-> target, slash |-> slash]
Tree == Source(<<N("s")>>)
Deep == Source(<<N("s"), N("a"), N("c"), N("b")>>)
Top == Source(<<N("b")>>)
Inner == Source(<<N("s"), N("a"), N("c")>>)
Missing == Source(<<N("u")>>)
Target == <<N("t")>>
MCRequests ==
  { To(<<Tree>>, Target, FALSE),
    To(<<Tree>>, Target, TRUE),                              \* into a directory
    To(<<Source(<<<<"*", "b">>>>)>>, Target, FALSE),         \* a glob
    To(<<Deep, Top>>, Target, FALSE),                        \* one name twice
    To(<<Top>>, Target, FALSE),
    To(<<Inner>>, Target, FALSE),                            \* one file below it
    To(<<Top>>, <<N("u"), N("t")>>, FALSE),                  \* no parent
    To(<<Top, Missing>>, Target, FALSE),
    To(<<Source(<<N("?")>>)>>, Target, FALSE),               \* a broken link
    To(<<Source(<<N("d")>>), Top>>, Target, FALSE),          \* unreadable below it
    To(<<Source(<<N("d"), N("?")>>)>>, Target, FALSE),
    To(<<Source(<<N("d"), N("u"), N("?")>>)>>, Target, FALSE),
    To(<<Source(<<N("*"), N("b")>>)>>, Target, FALSE) }      \* not the last segment

RemoteDir == [dir |-> TRUE, data |-> <<>>]
RemoteFile == [dir |-> FALSE, data |-> <<"before", "before", "before">>]
Bare == <<>> :> RemoteDir
WithTarget == Bare @@ (Target :> RemoteDir)
MCRemoteTrees ==
  { Bare @@ (<<N("b")>> :> RemoteFile),
    WithTarget,
    Bare @@ (Target :> RemoteFile),
    WithTarget @@ (<<N("t"), N("a")>> :> RemoteFile) @@ (<<N("t"), N("b")>> :> RemoteDir),
    WithTarget @@ (<<N("t"), N("a")>> :> RemoteDir) @@ (<<N("t"), N("a"), N("c")>> :> RemoteDir)
      @@ (<<N("t"), N("a"), N("c"), N("b")>> :> RemoteFile) }
=============================================================================
