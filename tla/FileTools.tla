----------------------------- MODULE FileTools -----------------------------
(***************************************************************************)
(* The tools read, write and edit on the native host, one call at a time,  *)
(* each host call in two steps: the check of the path and the access.  A   *)
(* script in the background may change the tree in between, where the      *)
(* sandbox lets it write.                                                  *)
(***************************************************************************)
EXTENDS Sandbox

CONSTANTS Places,      \* the trees, mounts and working directories of a session
          FileCalls,   \* the calls: [tool, path, old, new, all]
          Changes,     \* what the script may put where: [path, node]
          MaxFileCalls,
          MaxChanges

ASSUME FileAssumption ==
  /\ MaxFileCalls \in Nat /\ MaxChanges \in Nat
  /\ \A p \in Places : IsTree(p.tree) /\ IsMounts(p.mounts) /\ p.workdir \in Paths
  /\ \A c \in FileCalls : c.path \in [abs : BOOLEAN, to : Paths]
  /\ \A c \in Changes : c.path \in Paths /\ IsNode(c.node)

VARIABLES place,    \* the mounts and the working directory of the session
          tree,     \* the file system
          fpc,      \* where the call is
          fcall,    \* the call
          target,   \* Resolved.resolved
          text,     \* what edit has read
          fileCalls, changes,
          moved,    \* the tree was changed since the call began
          access    \* the last access: where it went, what was there and is there

fvars == <<place, tree, fpc, fcall, target, text, fileCalls, changes, moved, access>>

NoCall   == [tool |-> "none"]
NoAccess == [at |-> <<>>, mode |-> "none", call |-> NoCall, old |-> <<>>, new |-> <<>>]

Path(c) == resolve_path(place.workdir, c.path)

FileIdle == fpc' = "idle" /\ target' = <<>> /\ text' = <<>>

(* read_file or write_file begins: resolve().  An error ends the call.     *)
Resolving(c, mode, next) ==
  LET r == resolve(tree, place.mounts, Path(c), mode)
  IN  IF r.out = "ok" THEN fpc' = next /\ target' = r.path /\ UNCHANGED text ELSE FileIdle

StartFileCall ==
  /\ fpc = "idle" /\ fileCalls < MaxFileCalls
  /\ \E c \in FileCalls :
       /\ fcall' = c
       /\ Resolving(c, IF c.tool = "write" THEN "rw" ELSE "ro",
                    IF c.tool = "write" THEN "write" ELSE "read")
  /\ fileCalls' = fileCalls + 1 /\ moved' = FALSE /\ access' = NoAccess
  /\ UNCHANGED <<place, tree, changes>>

(* fs::read of the resolved path; edit looks for `old` in what it read.    *)
ReadFile ==
  /\ fpc = "read"
  /\ LET w == Walk(tree, target)
     IN  IF w.end = "found" /\ tree[w.at].t = "file"
           THEN /\ access' = [at |-> w.at, mode |-> "ro", call |-> fcall,
                              old |-> tree[w.at].text, new |-> tree[w.at].text]
                /\ IF fcall.tool = "edit" /\ ~edit_refused(tree[w.at].text, fcall.old, fcall.all)
                     THEN fpc' = "edit" /\ text' = tree[w.at].text /\ UNCHANGED target
                     ELSE FileIdle
           ELSE FileIdle /\ UNCHANGED access
  /\ UNCHANGED <<place, tree, fcall, fileCalls, changes, moved>>

(* edit writes: the path is resolved a second time.                        *)
EditFile ==
  /\ fpc = "edit"
  /\ Resolving(fcall, "rw", "write")
  /\ UNCHANGED <<place, tree, fcall, fileCalls, changes, moved, access>>

NewText == IF fcall.tool = "edit" THEN Replaced(text, fcall.old, fcall.new, fcall.all)
           ELSE <<fcall.new>>

(* fs::write creates the file, in a directory that exists.                 *)
WriteFile ==
  /\ fpc = "write"
  /\ LET w == Walk(tree, target)
     IN  IF w.end = "missing" \/ (w.end = "found" /\ tree[w.at].t = "file")
           THEN /\ tree' = [p \in DOMAIN tree \cup {w.at} |-> IF p = w.at THEN File(NewText) ELSE tree[p]]
                /\ access' = [at |-> w.at, mode |-> "rw", call |-> fcall,
                              old |-> IF w.end = "found" THEN tree[w.at].text ELSE <<>>,
                              new |-> NewText]
           ELSE UNCHANGED <<tree, access>>
  /\ FileIdle
  /\ UNCHANGED <<place, fcall, fileCalls, changes, moved>>

(* A script that runs in the background writes where its sandbox shows the *)
(* file system writable.                                                   *)
ScriptWrites ==
  /\ fpc # "idle" /\ changes < MaxChanges
  /\ \E c \in Changes :
       /\ Front(c.path) \in DOMAIN tree /\ tree[Front(c.path)].t = "dir"
       /\ ~\E p \in DOMAIN tree : p # c.path /\ IsPrefix(c.path, p)
       /\ Shows(build_args(place.mounts), c.path) = "bind"
       /\ tree' = [p \in DOMAIN tree \cup {c.path} |-> IF p = c.path THEN c.node ELSE tree[p]]
  /\ changes' = changes + 1 /\ moved' = TRUE
  /\ UNCHANGED <<place, fpc, fcall, target, text, fileCalls, access>>

FileInit ==
  /\ \E p \in Places : place = [mounts |-> p.mounts, workdir |-> p.workdir] /\ tree = p.tree
  /\ fpc = "idle" /\ fcall = NoCall /\ target = <<>> /\ text = <<>>
  /\ fileCalls = 0 /\ changes = 0 /\ moved = FALSE /\ access = NoAccess

FileNext == StartFileCall \/ ReadFile \/ EditFile \/ WriteFile \/ ScriptWrites

FileSpec == FileInit /\ [][FileNext]_fvars

-----------------------------------------------------------------------------
(* Properties.                                                             *)

(* Where the mounts really are, by the walk of the system.                 *)
MountedAt(i) == Walk(tree, place.mounts[i].path).at

(* A file tool opens the very file that its path names, through any links, *)
(* dangling ones, links in the place of directories and of mounts          *)
(* included, and that file lies below a mount that permits the access:     *)
(* the two checks of native/fs.rs miss nothing, provided that nobody       *)
(* changes the tree while the call is between check and access.            *)
AccessAsChecked ==
  access.mode # "none" /\ ~moved =>
    /\ Walk(tree, Path(access.call)).at = access.at
    /\ \E i \in DOMAIN place.mounts : /\ IsPrefix(MountedAt(i), access.at)
                                      /\ ModeLeq(access.mode, place.mounts[i].mode)

(* A process in the sandbox and a file tool under the same policy may      *)
(* write the same files: the order of the arguments of bubblewrap makes    *)
(* the same mount decide as FsPolicy::check (but for /proc and /dev, which *)
(* are always the sandbox's own).                                          *)
SandboxAgrees ==
  \A p \in DOMAIN tree :
    (p = <<>> \/ Head(p) \notin {"proc", "dev"}) =>
      ((Shows(build_args(place.mounts), p) = "bind") <=> check(place.mounts, p, "rw"))

=============================================================================
