--------------------------- MODULE MCToolProcess ---------------------------
(***************************************************************************)
(* The tools of a session for TLC.  The processes of tools and the file    *)
(* tools share the policy and nothing that changes, so they are explored   *)
(* side by side and not interleaved: a behaviour is of one of two scenes.  *)
(***************************************************************************)
EXTENDS ToolProcess, FileTools, TLC

VARIABLE scene

Policy == [programs |-> {<<"python3">>, <<"bash">>}, env |-> {"PATH"}]

OneOfEach == [python     |-> [kind |-> "session", program |-> <<"python3">>, policy |-> Policy],
              bash       |-> [kind |-> "stateless", program |-> <<"bash">>, policy |-> Policy],
              run_script |-> [kind |-> "script", program |-> <<"bash">>, policy |-> Policy]]

TheNames == STRING

(* A working directory with a link out of it, one that dangles outside,    *)
(* one to a file in it, and one in the place of a directory; notes below   *)
(* it are read-only, and a file is mounted through a link.                 *)
W == <<"w">>
Mount(path, mode) == [path |-> path, mode |-> mode]
A_Tree ==
  <<>> :> Dir @@ W :> Dir @@ <<"out">> :> Dir @@ <<"tmp">> :> Dir
  @@ <<"w", "a">> :> File(<<"x", "y", "x">>) @@ <<"w", "b">> :> File(<<"y">>)
  @@ <<"w", "ro">> :> Dir @@ <<"w", "ro", "n">> :> File(<<"x">>)
  @@ <<"out", "f">> :> File(<<"y">>)
  @@ <<"w", "esc">> :> Link(TRUE, <<"out", "f">>)
  @@ <<"w", "new">> :> Link(FALSE, <<"..", "out", "g">>)
  @@ <<"w", "in">> :> Link(FALSE, <<"a">>)
  @@ <<"w", "d">> :> Link(TRUE, <<"out">>)
  @@ <<"w", "loop">> :> Link(FALSE, <<"loop">>)
  @@ <<"v">> :> Link(TRUE, W)

ThePlaces ==
  {[tree |-> A_Tree, workdir |-> W, mounts |-> <<Mount(W, "rw"), Mount(<<"w", "ro">>, "ro")>>],
   [tree |-> A_Tree, workdir |-> <<"v">>, mounts |-> <<Mount(<<"out">>, "ro"), Mount(<<"v">>, "rw")>>],
   [tree |-> A_Tree, workdir |-> W, mounts |-> <<Mount(W, "ro"), Mount(<<"w", "b">>, "rw")>>],
   [tree |-> A_Tree, workdir |-> <<"tmp">>, mounts |-> <<Mount(<<"tmp">>, "rw"), Mount(W, "ro")>>],
   [tree |-> <<>> :> Dir, workdir |-> <<>>, mounts |-> <<>>]}

ThePaths == {[abs |-> FALSE, to |-> <<n>>] : n \in {"a", "b", "esc", "new", "in", "d", "loop", "z"}}
            \cup {[abs |-> FALSE, to |-> <<"d", "f">>], [abs |-> FALSE, to |-> <<"ro", "n">>],
                  [abs |-> FALSE, to |-> <<"..", "out", "f">>], [abs |-> TRUE, to |-> <<"w", "in">>],
                  [abs |-> FALSE, to |-> <<"d", "z">>]}

TheFileCalls ==
  [tool : {"read", "write"}, path : ThePaths, old : {"x"}, new : {"y"}, all : {FALSE}]
  \cup [tool : {"edit"}, path : ThePaths, old : {"x", "y"}, new : {"z"}, all : BOOLEAN]

TheChanges == {[path |-> <<"w", "b">>, node |-> Link(TRUE, <<"out", "f">>)],
               [path |-> <<"w", "a">>, node |-> File(<<"y">>)],
               [path |-> <<"w", "z">>, node |-> Dir],
               [path |-> <<"out", "f">>, node |-> File(<<>>)]}

allVars == <<scene, vars, fvars>>

MCInit ==
  /\ scene \in {"processes", "files"}
  /\ ToolInit /\ FileInit
  /\ scene = "processes" => place.mounts = <<>>

MCNext ==
  /\ UNCHANGED scene
  /\ \/ scene = "processes" /\ Next /\ UNCHANGED fvars
     \/ scene = "files" /\ FileNext /\ UNCHANGED vars

MCSpec == MCInit /\ [][MCNext]_allVars /\ Fairness
=============================================================================
