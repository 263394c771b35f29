------------------------------ MODULE Sandbox ------------------------------
(***************************************************************************)
(* What a tool may touch: the checks of the native host on a file          *)
(* (crates/host/src/native/fs.rs), the arguments that bubblewrap gets      *)
(* (crates/sandbox/src/bwrap.rs) and the pure parts of the file tools.     *)
(*                                                                         *)
(* A path is the sequence of its components.  A tree is a function from    *)
(* the paths that exist, free of links, to nodes: [t |-> "dir"],           *)
(* [t |-> "file", text] or [t |-> "link", abs, to].  The mounts of a       *)
(* policy are a sequence, sorted by path as the code keeps them.           *)
(***************************************************************************)
EXTENDS Capabilities

CONSTANTS Names,      \* the names of files
          MaxHops,    \* bound on links followed: 40, of the system and of the code alike
          Fuel        \* bound on the steps of a walk; a path that needs more is an error

ASSUME SandboxAssumption == MaxHops \in Nat /\ Fuel \in Nat \ {0} /\ {"tmp", "proc", "dev"} \subseteq Names

Dir         == [t |-> "dir"]
File(text)  == [t |-> "file", text |-> text]
Link(abs, to) == [t |-> "link", abs |-> abs, to |-> to]

Paths == Seq(Names)

IsNode(n) == n.t = "link" => n.abs \in BOOLEAN /\ n.to \in Paths

(* What exists is in a directory that exists.                              *)
IsTree(tree) ==
  /\ DOMAIN tree \subseteq Paths /\ <<>> \in DOMAIN tree
  /\ \A p \in DOMAIN tree :
       /\ IsNode(tree[p])
       /\ p # <<>> => Front(p) \in DOMAIN tree /\ tree[Front(p)].t = "dir"

IsMounts(mounts) == mounts \in Seq([path : Paths, mode : {"ro", "rw"}])

-----------------------------------------------------------------------------
(* How the system walks a path: the reference for what an open reaches.    *)
(* `at` is where the walk is, `todo` what is left, `end` how it stopped or *)
(* "on".                                                                   *)
WalkStep(tree, s) ==
  IF s.end # "on" THEN s
  ELSE IF s.todo = <<>> THEN [s EXCEPT !.end = "found"]
  ELSE LET name  == Head(s.todo)
           child == Append(s.at, name)
           rest  == Tail(s.todo)
       IN  IF tree[s.at].t # "dir" THEN [s EXCEPT !.end = "NotADirectory"]
           ELSE IF name = ".." THEN [s EXCEPT !.at = IF @ = <<>> THEN @ ELSE Front(@), !.todo = rest]
           ELSE IF child \notin DOMAIN tree
             THEN [s EXCEPT !.end = IF rest = <<>> THEN "missing" ELSE "NotFound", !.at = child]
           ELSE IF tree[child].t # "link" THEN [s EXCEPT !.at = child, !.todo = rest]
           ELSE IF s.hops = MaxHops THEN [s EXCEPT !.end = "loop"]
           ELSE [s EXCEPT !.hops = @ + 1, !.todo = tree[child].to \o rest,
                          !.at = IF tree[child].abs THEN <<>> ELSE @]

Repeat(Step(_), s) ==
  LET r[n \in 0 .. Fuel] == IF n = 0 THEN s ELSE Step(r[n - 1]) IN r[Fuel]

Walk(tree, path) ==
  Repeat(LAMBDA s : WalkStep(tree, s), [at |-> <<>>, todo |-> path, hops |-> 0, end |-> "on"])

(* fs::canonicalize, and symlink_metadata of a link.                       *)
canonicalize(tree, path) == LET w == Walk(tree, path) IN
  [kind |-> IF w.end \in {"missing", "NotFound"} THEN "NotFound" ELSE w.end, path |-> w.at]

IsLink(tree, path) ==
  /\ path # <<>> /\ Last(path) # ".."
  /\ LET w == Walk(tree, Front(path))
     IN  /\ w.end = "found" /\ Append(w.at, Last(path)) \in DOMAIN tree
         /\ tree[Append(w.at, Last(path))].t = "link"

LinkAt(tree, path) == tree[Append(Walk(tree, Front(path)).at, Last(path))]

-----------------------------------------------------------------------------
(* native/fs.rs.                                                           *)
normalize_has_dotdot(path) == ".." \in ToSet(path)

(* One turn of the loops of resolve_symlinks, on [probe, rest, hops, out,  *)
(* path]: `out` is "on", and "ok", "NotFound" or "Io" when it is left.     *)
resolve_step_NoFollow(tree, s) ==
  IF s.out # "on" THEN s
  ELSE LET c == canonicalize(tree, s.probe)
       IN  CASE c.kind = "found" ->
                  [s EXCEPT !.out = "ok", !.path = c.path \o s.rest]
             [] c.kind = "NotFound" ->
                  IF s.probe = <<>> \/ Last(s.probe) = ".." THEN [s EXCEPT !.out = "NotFound"]
                  ELSE [s EXCEPT !.rest = <<Last(s.probe)>> \o @, !.probe = Front(@)]
             [] OTHER -> [s EXCEPT !.out = "Io"]

resolve_step(tree, s) ==
  IF s.out # "on" THEN s
  ELSE LET c == canonicalize(tree, s.probe)
       IN  CASE c.kind = "found" ->
                  [s EXCEPT !.out = IF normalize_has_dotdot(s.rest) THEN "Io" ELSE "ok",
                            !.path = c.path \o s.rest]
             [] c.kind = "NotFound" /\ IsLink(tree, s.probe) ->
                  IF s.hops = MaxHops THEN [s EXCEPT !.out = "Io"]
                  ELSE LET l == LinkAt(tree, s.probe)
                       IN  [s EXCEPT !.hops = @ + 1, !.rest = <<>>,
                                     !.probe = (IF l.abs THEN l.to ELSE Front(@) \o l.to) \o s.rest]
             [] c.kind = "NotFound" /\ ~IsLink(tree, s.probe) ->
                  IF s.probe = <<>> \/ Last(s.probe) = ".." THEN [s EXCEPT !.out = "NotFound"]
                  ELSE [s EXCEPT !.rest = <<Last(s.probe)>> \o @, !.probe = Front(@)]
             [] OTHER -> [s EXCEPT !.out = "Io"]

resolve_symlinks(tree, path) ==
  Repeat(LAMBDA s : resolve_step(tree, s),
         [probe |-> path, rest |-> <<>>, hops |-> 0, out |-> "on", path |-> <<>>])

(* FsPolicy::check: of the mounts above the path the deepest decides, of   *)
(* two at the same place the later.                                        *)
check(mounts, path, mode) ==
  LET above == {i \in DOMAIN mounts : IsPrefix(mounts[i].path, path)}
      best  == CHOOSE i \in above : \A j \in above :
                 \/ Len(mounts[j].path) < Len(mounts[i].path)
                 \/ Len(mounts[j].path) = Len(mounts[i].path) /\ j <= i
  IN  above # {} /\ ModeLeq(mode, mounts[best].mode)

(* resolve: "ok" with the path to open, or the error.                      *)
resolve(tree, mounts, path, mode) ==
  LET r   == resolve_symlinks(tree, path)
      at  == [i \in DOMAIN mounts |-> resolve_symlinks(tree, mounts[i].path)]
      bad == {i \in DOMAIN mounts : at[i].out # "ok"}
      res == [i \in DOMAIN mounts |-> [path |-> at[i].path, mode |-> mounts[i].mode]]
  IN  [path |-> r.path,
       out  |-> IF normalize_has_dotdot(path) \/ ~check(mounts, path, mode) THEN "Denied"
                ELSE IF r.out # "ok" THEN r.out
                ELSE IF bad # {} THEN at[Min(bad)].out
                ELSE IF ~check(res, r.path, mode) THEN "Denied" ELSE "ok"]

-----------------------------------------------------------------------------
(* bwrap.rs: the mounts in the order of the arguments.                     *)
SANDBOX_HOME == <<"tmp">>

(* (number of components, path): mounts are sorted by path already.        *)
Shallowest(mounts) ==
  LET before(i, j) == \/ Len(mounts[i].path) < Len(mounts[j].path)
                      \/ Len(mounts[i].path) = Len(mounts[j].path) /\ i < j
      rank(i)      == Cardinality({j \in DOMAIN mounts : before(j, i)}) + 1
  IN  [r \in DOMAIN mounts |-> mounts[CHOOSE i \in DOMAIN mounts : rank(i) = r]]

Op(flag, path) == [flag |-> flag, path |-> path]

build_args_TmpfsLast(mounts) ==
  <<Op("ro-bind", <<>>)>>
  \o [i \in DOMAIN mounts |-> Op(IF Shallowest(mounts)[i].mode = "rw" THEN "bind" ELSE "ro-bind",
                                 Shallowest(mounts)[i].path)]
  \o <<Op("tmpfs", SANDBOX_HOME), Op("proc", <<"proc">>), Op("dev", <<"dev">>)>>

build_args(mounts) ==
  <<Op("ro-bind", <<>>), Op("tmpfs", SANDBOX_HOME)>>
  \o [i \in DOMAIN mounts |-> Op(IF Shallowest(mounts)[i].mode = "rw" THEN "bind" ELSE "ro-bind",
                                 Shallowest(mounts)[i].path)]
  \o <<Op("proc", <<"proc">>), Op("dev", <<"dev">>)>>

(* What a process in the sandbox finds at a path: the last operation that  *)
(* covers it (external: the behaviour of bubblewrap).                      *)
Shows(args, path) ==
  LET over == {i \in DOMAIN args : IsPrefix(args[i].path, path)}
  IN  args[Max(over)].flag

(* env.rs and prepare() of the backends: no launch without a permitted     *)
(* program, none with a secret-like name in the allowlist.  A program is   *)
(* the sequence of the components of its path, or its name alone.          *)
check_program(policy, program) ==
  policy.programs = {} \/ program \in policy.programs \/ <<Last(program)>> \in policy.programs

scrubbed_env_refuses(policy) == \E n \in policy.env : env_name_is_secret_like(n)

prepare(policy, program) == check_program(policy, program) /\ ~scrubbed_env_refuses(policy)

-----------------------------------------------------------------------------
(* The tools that work on files (crates/sandbox/src/tools).                *)

(* A path as the model writes it: [abs, to], `..` taken lexically.         *)
Normalized(out, c) ==
  IF c = "." THEN out
  ELSE IF c = ".." THEN IF out = <<>> THEN out ELSE Front(out)
  ELSE Append(out, c)

lexical_normalize(path) ==
  LET out[n \in 0 .. Len(path)] == IF n = 0 THEN <<>> ELSE Normalized(out[n - 1], path[n])
  IN  out[Len(path)]

resolve_path(workdir, p) == lexical_normalize(IF p.abs THEN p.to ELSE workdir \o p.to)

(* edit: the occurrences of `old`, and the text with them replaced.        *)
Occurrences(text, old) == {i \in DOMAIN text : text[i] = old}

edit_refused(text, old, all) ==
  Occurrences(text, old) = {} \/ (Cardinality(Occurrences(text, old)) > 1 /\ ~all)

Replaced(text, old, new, all) ==
  LET at == Occurrences(text, old)
  IN  [i \in DOMAIN text |-> IF i \in at /\ (all \/ i = Min(at)) THEN new ELSE text[i]]
=============================================================================
