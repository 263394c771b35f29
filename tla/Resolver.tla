------------------------------ MODULE Resolver ------------------------------
(***************************************************************************)
(* The resolution of an agent and the launch of its session: resolve() of  *)
(* crates/profiles/src/resolve.rs, which walks the graph of sub-agents     *)
(* with a memo that is shared by the whole walk, then assemble() of the    *)
(* launcher, the loader of extensions, and the registry and the chain that *)
(* Kernel::create builds.  A session can be reopened with another project  *)
(* file, since the agent may write that file.                              *)
(***************************************************************************)
EXTENDS Profiles

CONSTANTS Worlds,      \* what a resolution may find
          Root,        \* the catalog entry that is launched
          Accesses,    \* what grants and policies are compared on
          MaxOpens     \* bound: how often the session is opened

ASSUME OpensAssumption == MaxOpens \in Nat

(* What is written down has the type its key asks for, or is Mistyped: a   *)
(* path is a list of names, a list is a list, a number a number (schema.rs *)
(* on toml::Value).                                                        *)
Written(items)  == \A a \in items : a.k = "fs" => a.path.tail \in Seq(STRING)
Concrete(caps)  == \A c \in caps : c.k = "fs" => c.path \in Seq(STRING)
IsList(list)    == list \in Seq(ToSet(list))
Numbers         == {"sandbox.timeout_s", "sandbox.scratch_tmpfs_mb"}

TableOK(t) ==
  /\ Has(t, "capabilities.grants") => Written(t["capabilities.grants"])
  /\ \A k \in Numbers : Has(t, k) => t[k] \in Int
  /\ \A k \in {"subagents", "extensions.paths"} : Has(t, k) => IsList(t[k])
  /\ Has(t, "subagents") =>
       \A i \in DOMAIN t["subagents"] :
         t["subagents"][i].caps # NoFile => Written(t["subagents"][i].caps)

FileOK(f) == f # NoFile => TableOK(f.vals)

(* The kernel's own table has a value for whatever the resolution reads    *)
(* without asking whether it is there, and names no sub-agent (DEFAULTS of *)
(* lib.rs).                                                                *)
AlwaysSet == Numbers \cup {"capabilities.grants", "tools.allow", "sandbox.env_allow",
                           "sandbox.network", "sandbox.backend"}

DefaultsOK(t) ==
  /\ TableOK(t) /\ AlwaysSet \subseteq DOMAIN t /\ "subagents" \notin DOMAIN t
  /\ \A k \in DOMAIN t : t[k] # Mistyped

(* No built-in tool asks for a secret, and a tool of an extension is named *)
(* "ext.<extension>.<tool>": no built-in one is, and two extensions share  *)
(* a tool only if they share the name (sandbox/src/tools, manifest.rs).    *)
BuildOK(w) ==
  /\ \A n \in DOMAIN w.reg.tools : /\ Concrete(w.reg.tools[n].caps)
                                   /\ OfKind(w.reg.tools[n].caps, "secret") = {}
  /\ \A d \in DOMAIN w.exts :
       /\ d \in Seq(STRING) /\ Written(w.exts[d].caps)
       /\ ToSet(w.exts[d].tools) \cap DOMAIN w.reg.tools = {}
       /\ \A e \in DOMAIN w.exts :
            ToSet(w.exts[d].tools) \cap ToSet(w.exts[e].tools) # {} => w.exts[d].name = w.exts[e].name

WorldOK(w) ==
  /\ {"catalog", "project", "later", "defaults", "overrides", "bundles", "roots", "reg", "exts"}
       \subseteq DOMAIN w
  /\ \A i \in DOMAIN w.catalog : FileOK(w.catalog[i].model) /\ FileOK(w.catalog[i].agent)
  /\ FileOK(w.project) /\ FileOK(w.later)
  /\ DefaultsOK(w.defaults)
  /\ \A b \in DOMAIN w.bundles : Written(w.bundles[b])
  /\ {"root", "workdir", "home"} \subseteq DOMAIN w.roots
  /\ \A r \in DOMAIN w.roots : w.roots[r] \in Seq(STRING)
  /\ BuildOK(w)

ASSUME WorldsAssumption == \A w \in Worlds : WorldOK(w)

ASSUME AccessesAssumption ==
  \A x \in Accesses : /\ x.k \in {"fs", "host", "proc", "tool", "spawn", "secret"}
                      /\ x.k = "fs" => x.path \in Seq(STRING)

VARIABLES world,   \* the files, the registry and the project file of this opening
          opens,   \* how many resolutions have been started
          phase,   \* where the launch is
          memo,    \* Ctx.memo: catalog name -> state, grants and errors of a child
          stack,   \* the calls of resolve_entry that are active, the innermost last
          full,    \* the stage of the full resolution, while it is compared and after
          kernel,  \* what Kernel::create built
          errs     \* the codes of the failure

vars == <<world, opens, phase, memo, stack, full, kernel, errs>>

Phases == {"start", "full", "base", "resolved", "assembled", "launched", "refused", "failed"}
None   == [grants |-> {}, present |-> FALSE]

InProgress      == [state |-> "InProgress", grants |-> {}, errs |-> {}]
Done(grants, e) == [state |-> "Done", grants |-> IF e = {} THEN grants ELSE {}, errs |-> e]

Frame(name, layers) ==
  [name |-> name, layers |-> layers, st |-> Stage(world, name, layers), next |-> 1, errs |-> {}]

Top == stack[Len(stack)]
Pop == SubSeq(stack, 1, Len(stack) - 1)

(* The caller goes on to its next sub-agent, with what it learnt of this   *)
(* one: the errors of the child, or that it holds more than its ceiling.   *)
Learn(frame, sub, child) ==
  [frame EXCEPT !.next = @ + 1,
                !.errs = @ \cup (IF sub.found THEN {} ELSE {"E_FILE_NOT_FOUND"})
                           \cup (IF child.errs # {} THEN child.errs
                                 ELSE Exceeds(child.grants, sub.ceiling))]

OnTop(frame) == Append(Pop, frame)

Stop(where, codes) ==
  /\ phase' = where /\ errs' = codes /\ stack' = <<>>

-----------------------------------------------------------------------------
(* resolve(): steps 1 and 2, then the full resolution of the root.         *)
Begin ==
  /\ phase = "start"
  /\ LET bad1 == Catalog_load(world)
         bad2 == Bundles_load(world)
         bad3 == Err(Root \notin CatalogNames(world), "E_CATALOG_REF")
         bad  == IF bad1 # {} THEN bad1 ELSE IF bad2 # {} THEN bad2
                 ELSE IF bad3 # {} THEN bad3 ELSE StageErrors(world, Root, "full")
     IN  IF bad # {} THEN Stop("refused", bad)
         ELSE /\ stack' = <<Frame(Root, "full")>>
              /\ phase' = "full" /\ UNCHANGED errs
  /\ UNCHANGED <<world, opens, memo, full, kernel>>

Sub == Top.st.subs[Top.next]

AtSub == stack # <<>> /\ Top.next <= Len(Top.st.subs)

CeilingTooWide == Exceeds(Sub.ceiling, Top.st.grants) # {}

(* narrowing_checks (c): a ceiling that is too wide is an error, and the   *)
(* child is not looked at.                                                 *)
SkipSub ==
  /\ AtSub /\ CeilingTooWide
  /\ stack' = OnTop(Learn([Top EXCEPT !.errs = @ \cup {"E_CAP_EXCEEDS_GRANTS"}], Sub,
                          Done({}, {})))
  /\ UNCHANGED <<world, opens, phase, memo, full, kernel, errs>>

(* child_grants() of a child in the memo: one that is in progress further  *)
(* out (a cycle) counts as holding nothing.                                *)
KnownSub_Trusted ==
  /\ AtSub /\ ~CeilingTooWide /\ Sub.catalog \in DOMAIN memo
  /\ stack' = OnTop([Top EXCEPT !.next = @ + 1, !.errs = @ \cup memo[Sub.catalog].errs])
  /\ UNCHANGED <<world, opens, phase, memo, full, kernel, errs>>

KnownSub ==
  /\ AtSub /\ ~CeilingTooWide /\ Sub.catalog \in DOMAIN memo
  /\ stack' = OnTop(Learn(Top, Sub, memo[Sub.catalog]))
  /\ UNCHANGED <<world, opens, phase, memo, full, kernel, errs>>

Remember(name, entry) == memo' = [n \in DOMAIN memo \cup {name} |-> IF n = name THEN entry ELSE memo[n]]

(* ... of a new child: it is resolved, with the layers 0 to 2.             *)
EnterSub_NoMark ==
  /\ AtSub /\ ~CeilingTooWide /\ Sub.catalog \notin DOMAIN memo
  /\ LET bad == StageErrors(world, Sub.catalog, "base")
     IN  IF bad = {}
           THEN /\ stack' = Append(stack, Frame(Sub.catalog, "base")) /\ UNCHANGED memo
           ELSE /\ Remember(Sub.catalog, Done({}, bad))
                /\ stack' = OnTop(Learn(Top, Sub, Done({}, bad)))
  /\ UNCHANGED <<world, opens, phase, full, kernel, errs>>

EnterSub ==
  /\ AtSub /\ ~CeilingTooWide /\ Sub.catalog \notin DOMAIN memo
  /\ LET bad == StageErrors(world, Sub.catalog, "base")
     IN  IF bad = {}
           THEN /\ Remember(Sub.catalog, InProgress)
                /\ stack' = Append(stack, Frame(Sub.catalog, "base"))
           ELSE /\ Remember(Sub.catalog, Done({}, bad))
                /\ stack' = OnTop(Learn(Top, Sub, Done({}, bad)))
  /\ UNCHANGED <<world, opens, phase, full, kernel, errs>>

Finished(depth) == Len(stack) = depth /\ Top.next > Len(Top.st.subs)
Verdict(frame)  == frame.errs \cup narrowing_checks(world, frame.st)

(* The child returns to its caller and is remembered.                      *)
LeaveSub ==
  /\ Len(stack) > 1 /\ Finished(Len(stack))
  /\ LET result == Done(Top.st.grants, Verdict(Top))
         caller == stack[Len(stack) - 1]
     IN  /\ Remember(Top.name, result)
         /\ stack' = Append(SubSeq(stack, 1, Len(stack) - 2),
                            Learn(caller, caller.st.subs[caller.next], result))
  /\ UNCHANGED <<world, opens, phase, full, kernel, errs>>

(* Step 9: the envelope must derive.  Step 10: the prompt.                 *)
Envelope(st) == derive_policy_with(envelope_caps(st.grants), st.limits)

Accept(st, step8) ==
  LET bad == IF step8 # {} THEN step8
             ELSE Err(PolicyErrors(envelope_caps(st.grants), st.grants, st.limits) # {},
                      "E_SANDBOX_POLICY")
  IN  IF bad # {} THEN Stop("refused", bad)
      ELSE phase' = "resolved" /\ stack' = <<>> /\ UNCHANGED errs

Blocks(st) == st.blocks \o (IF opens > 1 /\ st.inject /\ world.notebook THEN <<"notebook">> ELSE <<>>)

(* The walk from the root is complete.  Step 8f: with a project file the   *)
(* root is resolved again without it.                                      *)
EndFull ==
  /\ phase = "full" /\ Finished(1)
  /\ full' = [st |-> Top.st, errs |-> Verdict(Top), blocks |-> Blocks(Top.st), present |-> TRUE]
  /\ IF world.project = NoFile THEN Accept(Top.st, Verdict(Top))
     ELSE LET bad == StageErrors(world, Root, "base")
          IN  IF bad # {} THEN Stop("refused", bad)
              ELSE /\ stack' = <<Frame(Root, "base")>>
                   /\ phase' = "base" /\ UNCHANGED errs
  /\ UNCHANGED <<world, opens, memo, kernel>>

(* Errors of the base on its own are not reported, only the comparison.    *)
EndBase ==
  /\ phase = "base" /\ Finished(1)
  /\ Accept(full.st, full.errs \cup check_project_narrowing(full.st, Top.st))
  /\ UNCHANGED <<world, opens, memo, full, kernel>>
-----------------------------------------------------------------------------
(* Extensions (crates/ext): a directory holds a manifest [name, kind,      *)
(* runtime, program, caps, tools].  Its own placeholder is "ext"; it may   *)
(* ask for fs, net and proc atoms only, must ask for its own program, and  *)
(* asks for its directory implicitly.                                      *)
ManifestWorld(dir) ==
  [roots |-> [p \in {"ext", "workdir", "home", "root"} |-> IF p = "ext" THEN dir ELSE world.roots[p]]]

ManifestErrors(dir) ==
  IF dir \notin DOMAIN world.exts THEN {"Io"}
  ELSE LET m == world.exts[dir]
       IN  Err(\/ ~is_ident(m.name) \/ m.kind \notin {"stateless", "session"}
               \/ m.runtime # "process"
               \/ \E c \in m.caps : c.k \notin {"fs", "net", "proc"}
               \/ UNION {AtomErrors(ManifestWorld(dir), c) : c \in m.caps} # {}
               \/ Proc(m.program) \notin m.caps
               \/ m.tools = <<>> \/ ~IsInjective(m.tools), "Invalid")

manifest_caps(dir) ==
  {expand_atom(ManifestWorld(dir), c) : c \in world.exts[dir].caps} \cup {Fs("ro", dir)}

(* load_all(): the first directory that fails ends the launch.             *)
admit(dir, st) == PolicyErrors(manifest_caps(dir), st.grants, st.limits)

LoadErrors(st) ==
  LET bad == UNION {ManifestErrors(st.exts[i]) : i \in DOMAIN st.exts}
  IN  IF bad # {} THEN bad
      ELSE Err(\E i, j \in DOMAIN st.exts :
                 i < j /\ world.exts[st.exts[i]].name = world.exts[st.exts[j]].name,
               "DuplicateManifest")
           \cup UNION {admit(st.exts[i], st) : i \in DOMAIN st.exts}

ext_tools(st) ==
  UNION {{[name |-> world.exts[d].tools[i], caps |-> manifest_caps(d),
           kind |-> world.exts[d].kind, command |-> TRUE]
            : i \in DOMAIN world.exts[d].tools} : d \in ToSet(st.exts)}

compiled_tools(st) ==
  {[name |-> n, caps |-> world.reg.tools[n].caps, kind |-> world.reg.tools[n].kind,
    command |-> world.reg.tools[n].kind = "session"] : n \in st.tools}

(* assemble(): the backend, the tools, the extensions, the middleware and  *)
(* the provider, in this order; the grants get the atoms of the extension  *)
(* tools.                                                                  *)
BackendName(st) == IF world.override # "" THEN world.override ELSE st.backend

BackendKnown(b) == b = "bwrap" \/ (b = "none" /\ world.reg.dev)

AssembleErrors(st) ==
  IF ~BackendKnown(BackendName(st)) THEN {"Backend"}
  ELSE IF LoadErrors(st) # {} THEN LoadErrors(st)
  ELSE IF \E i \in DOMAIN st.chain : st.chain[i].name \notin world.reg.middleware \cup {"recorder"}
    THEN {"UnknownMiddleware"}
  ELSE Err(~world.endpoint, "Config")

session_grants(st) == st.grants \cup {Tool(t.name) : t \in ext_tools(st)}

Assemble ==
  /\ phase = "resolved"
  /\ LET bad == AssembleErrors(full.st)
     IN  IF bad # {} THEN Stop("failed", bad) /\ UNCHANGED kernel
         ELSE /\ phase' = "assembled"
              /\ kernel' = [tools   |-> compiled_tools(full.st) \cup ext_tools(full.st),
                            grants  |-> session_grants(full.st),
                            chain   |-> SelectSeq(full.st.chain, LAMBDA m : m.name # "recorder"),
                            present |-> TRUE]
              /\ UNCHANGED <<stack, errs>>
  /\ UNCHANGED <<world, opens, memo, full>>

(* Registry::build and chain::resolve, when the kernel is created.         *)
RegistryErrors(k, limits) ==
       Err(\E t, u \in k.tools : t # u /\ t.name = u.name, "DuplicateTool")
  \cup Err(\E t \in k.tools : PolicyErrors(t.caps, k.grants, limits) # {}, "ToolExceedsGrants")
  \cup Err(\E t \in k.tools : t.kind = "session" /\ ~t.command, "MissingSessionCommand")
  \cup Err(PolicyErrors(envelope_caps(k.grants), k.grants, limits) # {}, "Internal")

ReservedPriority(m) ==
  IF m.name = TOOL_CALL_PARSER_NAME THEN m.priority # TOOL_CALL_PARSER_PRIORITY
  ELSE m.priority <= TOOL_CALL_PARSER_PRIORITY

ChainErrorsOf(chain) ==
  Err(Duplicates(chain), "DuplicateMiddleware")
  \cup Err(\E i \in DOMAIN chain : ReservedPriority(chain[i]), "ReservedPriority")

BuildKernel ==
  /\ phase = "assembled"
  /\ LET limits == full.st.limits
         bad    == RegistryErrors(kernel, limits) \cup ChainErrorsOf(kernel.chain)
     IN  IF bad # {} THEN Stop("failed", bad) /\ UNCHANGED kernel
         ELSE /\ phase' = "launched"
              /\ kernel' = [tools    |-> {[name |-> t.name, policy |-> derive_policy_with(t.caps, limits)]
                                            : t \in kernel.tools},
                            grants   |-> kernel.grants,
                            chain    |-> SortByPriority(kernel.chain),
                            envelope |-> derive_policy_with(envelope_caps(kernel.grants), limits),
                            present  |-> TRUE]
              /\ UNCHANGED <<stack, errs>>
  /\ UNCHANGED <<world, opens, memo, full>>

(* resume_session(): the profile is resolved again, from what the files    *)
(* say now.  The agent may have written its project file.                  *)
Reopen ==
  /\ phase = "launched" /\ opens < MaxOpens
  /\ opens' = opens + 1 /\ phase' = "start"
  /\ world' = [world EXCEPT !.project = world.later]
  /\ memo' = <<>> /\ full' = None /\ kernel' = None
  /\ UNCHANGED <<stack, errs>>

Init ==
  /\ world \in Worlds
  /\ opens = 1 /\ phase = "start" /\ memo = <<>> /\ stack = <<>>
  /\ full = None /\ kernel = None /\ errs = {}

(* The launch is over: the session runs, or the errors are reported.       *)
Ended ==
  /\ phase \in {"refused", "failed"} \/ (phase = "launched" /\ opens = MaxOpens)
  /\ UNCHANGED vars

Next == \/ Begin \/ SkipSub \/ KnownSub \/ EnterSub \/ LeaveSub \/ EndFull \/ EndBase
        \/ Assemble \/ BuildKernel \/ Reopen \/ Ended

Spec == Init /\ [][Next]_vars
-----------------------------------------------------------------------------
(* Properties.                                                             *)

(* Nothing the resolution decided changes afterwards.                      *)
Accepted == phase = "resolved"

(* The memo, the stack and the phase are what resolve.rs can hold; in      *)
(* particular the recursion is no deeper than the catalog, plus the root,  *)
(* whatever cycles the sub-agents form (child_grants, "the check           *)
(* terminates").                                                           *)
TypeOK ==
  /\ phase \in Phases /\ opens \in 1 .. MaxOpens
  /\ DOMAIN memo \subseteq CatalogNames(world)
  /\ \A n \in DOMAIN memo : memo[n].state \in {"InProgress", "Done"}
  /\ Len(stack) <= Len(world.catalog) + 1
  /\ \A i \in DOMAIN stack : stack[i].next <= Len(stack[i].st.subs) + 1
  /\ (errs # {}) <=> (phase \in {"refused", "failed"})

(* The graph of agents as they would be spawned: name -> grants and subs.  *)
Graph == [n \in CatalogNames(world) |->
            IF StageErrors(world, n, "base") = {}
              THEN LET st == Stage(world, n, "base") IN [grants |-> st.grants, subs |-> ToSet(st.subs)]
              ELSE [grants |-> {}, subs |-> {}]]

Called(subs) == {s.catalog : s \in subs}

(* The agents that those in `names` can bring to life: they are in every   *)
(* set that holds `names` and whatever its members may spawn.              *)
Closed(g, M) == \A m \in M : Called(g[m].subs) \subseteq M

SpawnedBy(g, names) ==
  {n \in CatalogNames(world) :
     \A M \in SUBSET CatalogNames(world) : names \subseteq M /\ Closed(g, M) => n \in M}

Spawned(g) == SpawnedBy(g, Called(ToSet(full.st.subs)))

Edges(g) == ToSet(full.st.subs) \cup UNION {g[n].subs : n \in Spawned(g)}

(* What a child may do stays below the ceiling its parent wrote for it.    *)
EdgeNarrows(g, sub) ==
  \A x \in Accesses : Permits(g[sub.catalog].grants, x) => Permits(sub.ceiling, x)

Cyclic(g) == \E n \in Spawned(g) : n \in SpawnedBy(g, Called(g[n].subs))

(* No agent that an accepted root can bring to life, through any number of *)
(* spawns and also around a cycle of agents, is permitted an access that   *)
(* the root is not: not even the root itself, spawned without its project  *)
(* file (resolve.rs, narrowing_checks (c), child_grants and the memo).     *)
(* Without a cycle it stays below every ceiling written for it, also where *)
(* several parents spawn an agent that was looked at only once.            *)
CeilingsHold ==
  Accepted =>
    LET g == Graph
    IN  /\ \A n \in Spawned(g) : \A x \in Accesses :
             Permits(g[n].grants, x) => Permits(full.st.grants, x)
        /\ ~Cyclic(g) => \A s \in Edges(g) : EdgeNarrows(g, s)

(* A project file, which the agent itself may have written since the last  *)
(* opening, gives the session no access, no time, no scratch space, no     *)
(* environment and no network that the profile alone would not give        *)
(* (check_project_narrowing; the layers, bundles and overrides included).  *)
ProjectOnlyNarrows ==
  Accepted =>
    LET base == Stage(world, Root, "base")
    IN  /\ \A x \in Accesses : Permits(full.st.grants, x) => Permits(base.grants, x)
        /\ LET p == Envelope(full.st) b == Envelope(base)
           IN  /\ p.timeout <= b.timeout /\ p.scratch <= b.scratch /\ p.env \subseteq b.env
               /\ \A x \in Accesses : x.k = "host" /\ PolicyPermits(p, x) => PolicyPermits(b, x)
        /\ full.st.backend = base.backend

(* Each tool of a running session, compiled or from an extension, is       *)
(* confined to what the session was granted: the policy the kernel derives *)
(* for it opens no file and reaches no host that the grants do not permit, *)
(* and none at all while sandbox.network is off (derive_policy_with).      *)
PolicyWithinGrants ==
  phase = "launched" =>
    \A t \in kernel.tools : \A x \in Accesses :
      PolicyPermits(t.policy, x) => /\ Permits(full.st.grants, x)
                                    /\ x.k = "host" => full.st.limits.network

(* A profile that was accepted never fails later because a policy does not *)
(* derive or a tool is there twice: what registry.rs refuses, the checks   *)
(* of resolve.rs and of the extension loader have refused before.          *)
AcceptedPolicyDerives ==
  phase = "failed" =>
    errs \cap {"DuplicateTool", "ToolExceedsGrants", "MissingSessionCommand", "Internal"} = {}

(* What is still to do, as a pair: the phase, the agents not yet known,    *)
(* then the sub-agents left to look at in the active calls.                *)
Rank == [start |-> 0, full |-> 1, base |-> 2, resolved |-> 3, assembled |-> 4,
         launched |-> 5, refused |-> 5, failed |-> 5]

Unlooked == LET left[i \in 0 .. Len(stack)] ==
                  IF i = 0 THEN 0 ELSE left[i - 1] + 2 + Len(stack[i].st.subs) - stack[i].next
            IN  left[Len(stack)]

(* Every step of a launch brings its end nearer, around any cycle of       *)
(* sub-agents: the phase advances, or an agent becomes known, or a call    *)
(* has one sub-agent less to look at.  The measure is well-founded and no  *)
(* state but a final one is stuck, so every launch ends, in a session or   *)
(* in a refusal (child_grants: "the check terminates").                    *)
Closer ==
  \/ Rank[phase'] > Rank[phase]
  \/ /\ phase' = phase
     /\ \/ DOMAIN memo \subseteq DOMAIN memo' /\ DOMAIN memo # DOMAIN memo'
        \/ DOMAIN memo = DOMAIN memo' /\ Unlooked' < Unlooked

Terminates == [][opens' = opens => Closer]_vars
=============================================================================
