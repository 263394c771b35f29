------------------------------ MODULE Profiles ------------------------------
(***************************************************************************)
(* Profile files: their validation, the merge of the layers and the        *)
(* expansion of what they grant (crates/profiles: schema.rs, merge.rs,     *)
(* atom.rs, bundles.rs, catalog.rs and the steps 1 to 7 of resolve.rs).    *)
(*                                                                         *)
(* A file is [version, vals, mw]: vals is a partial function from dotted   *)
(* keys to values, mw the sequence of its [[middleware]] entries.  The     *)
(* errors of a check are the set of the diagnostic codes it reports.       *)
(* A world `w` holds what one resolution reads: the catalog and the files  *)
(* it names, the bundles, the project file, the runtime overrides, the     *)
(* registry of the build, the directories placeholders stand for and the   *)
(* definition files that exist.                                            *)
(***************************************************************************)
EXTENDS Capabilities

CONSTANTS Mistyped,    \* a TOML value of another type than its key asks for
          NoFile,      \* a file that does not exist
          BadNames     \* names that fail the grammar of the field they are in

SCHEMA_VERSION           == 1
TOOL_CALL_PARSER_NAME     == "tool_call_parser"
TOOL_CALL_PARSER_PRIORITY == 100
RECORDER_PRIORITY         == 990

Err(bad, code) == IF bad THEN {code} ELSE {}
Has(t, key)    == key \in DOMAIN t /\ t[key] # Mistyped
At(t, key, d)  == IF Has(t, key) THEN t[key] ELSE d
is_ident(name) == name \notin BadNames

(* A value that is present must satisfy its condition.                     *)
Range_(t, key, Ok(_)) == Err(Has(t, key) /\ ~Ok(t[key]), "E_VALUE_RANGE")
require_positive(t, key) == Range_(t, key, LAMBDA v : v > 0)
-----------------------------------------------------------------------------
(* Paths and atoms as they are written.  A path is [lead, tail]: lead is   *)
(* "root", "rel", a placeholder ("workdir", "home", "install") or          *)
(* "unknown", and "$" in the tail stands for a placeholder in the middle.  *)

check_path_grammar(p) ==
       Err(p.lead = "unknown", "E_UNKNOWN_PLACEHOLDER")
  \cup Err("$" \in ToSet(p.tail) \/ p = [lead |-> "rel", tail |-> <<>>], "E_PATH_NOT_ABSOLUTE")

Substituted(w, p) == w.roots[p.lead] \o p.tail

PathErrors(w, p) ==
  IF p.lead = "rel" THEN {"E_PATH_NOT_ABSOLUTE"}
  ELSE IF p.lead \notin DOMAIN w.roots THEN {"E_UNKNOWN_PLACEHOLDER"}
  ELSE Err(HasDotDot(Substituted(w, p)), "E_PATH_DOTDOT")

expand_path(w, p) == normalize_path(Substituted(w, p))

(* expand_raw: any text with a known placeholder, or none, in front.       *)
RawErrors(w, p) == Err(p.lead \notin DOMAIN w.roots \cup {"rel"}, "E_UNKNOWN_PLACEHOLDER")

(* A path field that is relative is taken from the directory of its file,  *)
(* for which the kind of the file stands as a placeholder.                 *)
resolve_path_field(p, kind) ==
  IF p # NoFile /\ p.lead = "rel" THEN [p EXCEPT !.lead = kind] ELSE p

(* A grant item is an atom whose path is still symbolic, or a bundle name; *)
(* k = "malformed" is a string that is neither.                            *)
check_atom_grammar(a) ==
       Err(a.k = "malformed", "E_MALFORMED_ATOM")
  \cup (IF a.k = "fs"
          THEN IF a.path.lead = "unknown" THEN {"E_UNKNOWN_PLACEHOLDER"}
               ELSE Err("$" \in ToSet(a.path.tail), "E_MALFORMED_ATOM")
          ELSE {})

AtomErrors(w, a) == check_atom_grammar(a) \cup (IF a.k = "fs" THEN PathErrors(w, a.path) ELSE {})

expand_atom(w, a) ==
  CASE a.k = "fs"  -> Fs(a.mode, expand_path(w, a.path))
    [] a.k = "net" -> IF a.any THEN a ELSE Net(normalize_hosts(a.hosts))
    [] OTHER       -> a

(* `tool:` and `spawn:` atoms are derived, never granted by name: neither  *)
(* in capabilities.grants nor inside a bundle.  Bundles do not nest.       *)
check_grant_list(items, inGrants, allowBundles) ==
  UNION {CASE a.k = "bundle" -> Err(~allowBundles \/ ~is_ident(a.name), "E_MALFORMED_ATOM")
           [] OTHER -> LET bad == check_atom_grammar(a)
                       IN  IF bad # {} THEN bad
                           ELSE Err((inGrants \/ ~allowBundles) /\ a.k \in {"tool", "spawn"},
                                    "E_DERIVED_ATOM_IN_GRANTS") : a \in items}

check_env_names(names) ==
  Err(\E n \in names : env_name_is_secret_like(n), "E_ENV_ALLOW_SECRET_PATTERN")
-----------------------------------------------------------------------------
(* The schema of a file: its keys, and the keys nobody may set.            *)
FixedByModel == {"model.id", "model.endpoint", "model.context_length", "model.tool_format",
                 "model.quirks.reasoning_field", "model.quirks.auth", "prompt",
                 "fine_tune.trained_against_profile_hash", "fine_tune.warn_on_drift"}
ModelKeys == FixedByModel \cup
  {"model.temperature", "model.max_output_tokens", "model.thinking.enabled",
   "model.thinking.budget_tokens", "tool_descriptions", "compaction.trigger_at",
   "compaction.target"}
FixedByAgent == {"agent.name", "agent.eval_set", "sandbox.backend"}
AgentKeys == FixedByAgent \cup
  {"agent.role_prompt", "agent.agents_md", "agent.context_budget_tokens",
   "agent.spill_cap_bytes", "capabilities.grants", "tools.allow", "mcp_servers",
   "skills.paths", "extensions.paths", "subagents", "memory.module", "sandbox.timeout_s",
   "sandbox.scratch_tmpfs_mb", "sandbox.env_allow", "sandbox.network", "notebook.path",
   "notebook.inject_on_resume", "notebook.max_tokens"}
TextKeys   == {"prompt", "agent.role_prompt", "tool_descriptions"}
KernelOnly == {"loop", "checkpoint", "sandbox.outer"}
RuntimeOverrideKeys == {"model.temperature", "model.max_output_tokens",
                        "model.thinking.enabled", "model.thinking.budget_tokens",
                        "agent.context_budget_tokens", "notebook.path"}
ProjectForbidden == FixedByModel \cup FixedByAgent

spec_for(kind) == CASE kind = "model" -> ModelKeys
                    [] kind = "agent" -> AgentKeys
                    [] kind = "project" -> ModelKeys \cup AgentKeys

priority_range(kind) == IF kind = "model" THEN 100 .. 199 ELSE 200 .. 899

check_schema_version(f) == Err(f.version = Mistyped \/ f.version # SCHEMA_VERSION, "E_SCHEMA_VERSION")

walk_table(t, keys) ==
  UNION {IF k \in KernelOnly THEN {"E_KERNEL_ONLY_KEY"}
         ELSE IF k \notin keys THEN {"E_UNKNOWN_KEY"}
         ELSE Err(t[k] = Mistyped, IF k \in TextKeys THEN "E_TEXT_SOURCE" ELSE "E_VALUE_RANGE")
           : k \in DOMAIN t}

check_project_forbidden(t) ==
  Err(DOMAIN t \cap ProjectForbidden # {}, "E_OVERRIDE_FORBIDDEN_KEY")

(* 0 < target < trigger_at <= 1, in per cent, over the keys present.       *)
check_compaction(t) ==
       Range_(t, "compaction.trigger_at", LAMBDA v : v > 0 /\ v <= 100)
  \cup Range_(t, "compaction.target",
              LAMBDA v : v > 0 /\ v < At(t, "compaction.trigger_at", 100))

(* A text source is a text, or the name of a file that must exist.         *)
resolve_text_source(t, key) ==
  Err(Has(t, key) /\ t[key] = NoFile, "E_FILE_NOT_FOUND")

BudgetNeedsThinking(t) ==
  Has(t, "model.thinking.budget_tokens") /\ t["model.thinking.budget_tokens"] > 0

check_model_semantics(t) ==
       Range_(t, "model.id", LAMBDA v : v # "")
  \cup (UNION {Range_(t, k, is_ident) : k \in {"model.endpoint", "model.tool_format",
                "model.quirks.reasoning_field", "model.quirks.auth",
                "fine_tune.trained_against_profile_hash"}})
  \cup require_positive(t, "model.context_length")
  \cup require_positive(t, "model.max_output_tokens")
  \cup Range_(t, "model.temperature", LAMBDA v : v \in 0 .. 200)
  \cup Range_(t, "model.thinking.budget_tokens", LAMBDA v : v >= 0)
  \cup Err(BudgetNeedsThinking(t) /\ At(t, "model.thinking.enabled", TRUE) = FALSE, "E_VALUE_RANGE")
  \cup resolve_text_source(t, "prompt")
  \cup Err(Has(t, "tool_descriptions") /\ \E n \in t["tool_descriptions"] : ~is_ident(n),
           "E_VALUE_RANGE")
  \cup check_compaction(t)
-----------------------------------------------------------------------------
(* The tables of an agent file.  An MCP server is [name, transport,        *)
(* program, args, host, caps, env], a sub-agent [name, catalog, caps,      *)
(* definition]; NoFile stands for a field that is missing.                 *)

PathField(p) == IF p.lead = "url" THEN {} ELSE check_path_grammar(p)

Duplicates(seq) == \E i, j \in DOMAIN seq : i < j /\ seq[i].name = seq[j].name

check_mcp_server(s) ==
       Err(s.name = NoFile \/ s.transport = NoFile \/ s.caps = NoFile, "E_MISSING_KEY")
  \cup Err(s.name # NoFile /\ ~is_ident(s.name), "E_VALUE_RANGE")
  \cup Err(s.transport \notin {NoFile, "stdio", "http"}, "E_VALUE_RANGE")
  \cup Err(s.transport = "stdio" /\ s.program = NoFile, "E_MISSING_KEY")
  \cup Err(s.transport = "http" /\ s.host = NoFile, "E_MISSING_KEY")
  \cup (IF s.caps = NoFile THEN {}
        ELSE check_grant_list(s.caps, FALSE, TRUE)
             \cup Err(s.transport = "stdio" /\ s.program # NoFile /\ Proc(s.program) \notin s.caps,
                      "E_VALUE_RANGE"))
  \cup check_env_names(s.env)

check_subagent(s) ==
       Err(s.name = NoFile \/ s.catalog = NoFile \/ s.caps = NoFile, "E_MISSING_KEY")
  \cup Err(s.catalog # NoFile /\ ~is_ident(s.catalog), "E_VALUE_RANGE")
  \cup (IF s.caps = NoFile THEN {} ELSE check_grant_list(s.caps, FALSE, TRUE))
  \cup (IF s.definition = NoFile THEN {} ELSE check_path_grammar(s.definition))

check_list(t, key, Check(_)) ==
  IF ~Has(t, key) THEN {}
  ELSE (UNION {Check(t[key][i]) : i \in DOMAIN t[key]}) \cup Err(Duplicates(t[key]), "E_DUP_NAME")

check_eval_set(t) ==
  IF ~Has(t, "agent.eval_set") THEN {}
  ELSE LET e == t["agent.eval_set"]
       IN  Err(NoFile \in {e.dev, e.hidden}, "E_MISSING_KEY")
           \cup UNION {PathField(p) : p \in {e.dev, e.hidden} \ {NoFile}}

check_agent_idents(t) ==
  UNION {Range_(t, k, is_ident) : k \in {"agent.name", "memory.module", "sandbox.backend"}}

check_spill_cap(t)   == Range_(t, "agent.spill_cap_bytes", LAMBDA v : v \in 1024 .. 1048576)
check_mcp_servers(t) == check_list(t, "mcp_servers", check_mcp_server)
check_subagents(t)   == check_list(t, "subagents", check_subagent)

check_agent_semantics(t) ==
       check_agent_idents(t)
  \cup resolve_text_source(t, "agent.role_prompt")
  \cup (UNION {IF Has(t, k) THEN check_path_grammar(t[k]) ELSE {}
                : k \in {"agent.agents_md", "notebook.path"}})
  \cup (UNION {require_positive(t, k) : k \in {"agent.context_budget_tokens", "sandbox.timeout_s",
                                             "sandbox.scratch_tmpfs_mb", "notebook.max_tokens"}})
  \cup check_spill_cap(t)
  \cup check_eval_set(t)
  \cup (IF Has(t, "capabilities.grants")
          THEN check_grant_list(t["capabilities.grants"], TRUE, TRUE) ELSE {})
  \cup Err(\E n \in At(t, "tools.allow", {}) : ~is_ident(n), "E_VALUE_RANGE")
  \cup check_mcp_servers(t)
  \cup (UNION {check_path_grammar(p) : p \in ToSet(At(t, "skills.paths", <<>>))
                                         \cup ToSet(At(t, "extensions.paths", <<>>))})
  \cup check_subagents(t)
  \cup check_env_names(At(t, "sandbox.env_allow", {}))

(* A middleware entry is [name, priority, syntax]: the parser has its own  *)
(* slot and belongs to a model whose tool format is parsed, every other    *)
(* entry stays in the range of its layer.                                  *)
check_middleware_entry(e, t, kind) ==
  IF e.name = NoFile \/ e.priority = NoFile THEN {"E_MISSING_KEY"}
  ELSE Err(~is_ident(e.name), "E_VALUE_RANGE")
       \cup Err(e.name \in {"recorder", "replay"}, "E_RESERVED_MIDDLEWARE_NAME")
       \cup IF e.name = TOOL_CALL_PARSER_NAME
              THEN Err(\/ kind # "model"
                       \/ At(t, "model.tool_format", "native") = "native"
                       \/ e.priority # TOOL_CALL_PARSER_PRIORITY
                       \/ e.syntax \notin {"", At(t, "model.tool_format", "native")},
                       "E_PARSER_SLOT")
              ELSE Err(e.priority \notin priority_range(kind), "E_PRIORITY_RANGE")

check_middleware(f, kind) ==
  (UNION {check_middleware_entry(f.mw[i], f.vals, kind) : i \in DOMAIN f.mw})
  \cup Err(Duplicates(SelectSeq(f.mw, LAMBDA e : e.name # NoFile)), "E_DUP_MIDDLEWARE")

validate_file(f, kind) ==
  IF f = NoFile THEN {"E_FILE_NOT_FOUND"}
  ELSE check_schema_version(f)
       \cup walk_table(f.vals, spec_for(kind))
       \cup check_middleware(f, kind)
       \cup (IF kind = "project" THEN check_project_forbidden(f.vals) ELSE {})
       \cup (IF kind # "agent" THEN check_model_semantics(f.vals) ELSE {})
       \cup (IF kind # "model" THEN check_agent_semantics(f.vals) ELSE {})
-----------------------------------------------------------------------------
(* The catalog, a sequence of [name, model, agent] with the two files, and *)
(* the bundles, a function from names to sets of atoms.                    *)

check_catalog_semantics(w) ==
       Err(\E i \in DOMAIN w.catalog : ~is_ident(w.catalog[i].name), "E_VALUE_RANGE")
  \cup Err(Duplicates(w.catalog), "E_DUP_NAME")
  \cup Err(\E i \in DOMAIN w.catalog : NoFile \in {w.catalog[i].model, w.catalog[i].agent},
           "E_FILE_NOT_FOUND")
  \cup Err(~\E i \in DOMAIN w.catalog : w.catalog[i].name = "default", "E_CATALOG_REF")

Catalog_load(w) ==
  LET bad == check_catalog_semantics(w)
  IN  IF bad # {} THEN bad
      ELSE Err(\E i \in DOMAIN w.catalog :
                 LET t == w.catalog[i].agent.vals
                 IN  Has(t, "agent.name") /\ t["agent.name"] # w.catalog[i].name, "E_CATALOG_REF")

CatalogNames(w)  == {w.catalog[i].name : i \in DOMAIN w.catalog}
Entry(w, name)   == w.catalog[CHOOSE i \in DOMAIN w.catalog : w.catalog[i].name = name]

Bundles_load(w) ==
       Err(HasDotDot(At(w.roots, "install", <<>>)), "E_PATH_DOTDOT")
  \cup Err(\E b \in DOMAIN w.bundles : ~is_ident(b), "E_VALUE_RANGE")
  \cup UNION {check_grant_list(w.bundles[b], FALSE, FALSE)
               \cup Err(/\ "install" \notin DOMAIN w.roots
                        /\ \E a \in w.bundles[b] : a.k = "fs" /\ a.path.lead = "install",
                        "E_UNKNOWN_PLACEHOLDER") : b \in DOMAIN w.bundles}

UnknownBundles(w, items) ==
  Err(\E a \in items : a.k = "bundle" /\ a.name \notin DOMAIN w.bundles, "E_UNKNOWN_BUNDLE")

expand_bundles(w, items) ==
  UNION {IF a.k = "bundle" THEN w.bundles[a.name] ELSE {a} : a \in items}
-----------------------------------------------------------------------------
(* Merge (merge.rs): the later layer wins key by key, lists are replaced,  *)
(* the open table of tool descriptions is merged name by name.             *)
merge_tables(dst, src) ==
  [k \in DOMAIN dst \cup DOMAIN src |->
     IF k \notin DOMAIN src THEN dst[k]
     ELSE IF k = "tool_descriptions" /\ k \in DOMAIN dst THEN dst[k] \cup src[k]
     ELSE src[k]]

(* Middleware is keyed by name: a later layer takes over the entry in its  *)
(* place, except that a project may not take over one of the model.        *)
Sourced(mw, kind) == [i \in DOMAIN mw |-> [name |-> mw[i].name, priority |-> mw[i].priority,
                                           source |-> kind]]

Position(chain, name) == {i \in DOMAIN chain : chain[i].name = name}

MiddlewareClash(chain, mw) ==
  Err(\E i \in DOMAIN mw : \E j \in Position(chain, mw[i].name) : chain[j].source = "model",
      "E_PRIORITY_RANGE")

merge_middleware(chain, mw) ==
  [i \in DOMAIN chain |->
     IF Position(mw, chain[i].name) = {} THEN chain[i]
     ELSE mw[CHOOSE j \in Position(mw, chain[i].name) : TRUE]]
  \o SelectSeq(mw, LAMBDA e : Position(chain, e.name) = {})

(* Layer 4 (apply_runtime_overrides).                                      *)
OverrideErrors(o) ==
       Err(~(DOMAIN o \subseteq RuntimeOverrideKeys), "E_OVERRIDE_FORBIDDEN_KEY")
  \cup Err(\E k \in DOMAIN o \cap RuntimeOverrideKeys : o[k] = Mistyped, "E_VALUE_RANGE")
  \cup Range_(o, "model.temperature", LAMBDA v : v \in 0 .. 200)
  \cup require_positive(o, "model.max_output_tokens")
  \cup require_positive(o, "agent.context_budget_tokens")
  \cup Range_(o, "model.thinking.budget_tokens", LAMBDA v : v >= 0)
  \cup Range_(o, "notebook.path", LAMBDA v : check_path_grammar(v) = {})

(* What holds only of the merged table (check_merged).                     *)
check_merged(t, name) ==
       Err(\E k \in {"model.id", "model.endpoint", "model.context_length", "agent.name"} :
             k \notin DOMAIN t, "E_MISSING_KEY")
  \cup Err("agent.name" \in DOMAIN t /\ t["agent.name"] # name, "E_CATALOG_REF")
  \cup check_compaction(t)
  \cup Err(~t["model.thinking.enabled"] /\ BudgetNeedsThinking(t), "E_VALUE_RANGE")

(* The layers: the defaults, the two files of the entry and, for a full    *)
(* resolution, the project file and the overrides.                         *)
Located(t, kind) ==
  LET at(p) == resolve_path_field(p, kind)
  IN  [k \in DOMAIN t |->
         CASE k \in {"agent.agents_md", "notebook.path"} -> at(t[k])
           [] k \in {"skills.paths", "extensions.paths"} -> [i \in DOMAIN t[k] |-> at(t[k][i])]
           [] k = "agent.eval_set" -> [dev |-> at(t[k].dev), hidden |-> at(t[k].hidden)]
           [] k = "subagents" ->
                [i \in DOMAIN t[k] |->
                   [name |-> t[k][i].name, catalog |-> t[k][i].catalog, caps |-> t[k][i].caps,
                    definition |-> at(t[k][i].definition)]]
           [] OTHER -> t[k]]

UsesProject(w, layers) == layers = "full" /\ w.project # NoFile

MergedTable(w, e, layers) ==
  LET base == merge_tables(merge_tables(w.defaults, e.model.vals), Located(e.agent.vals, "agent"))
      proj == IF UsesProject(w, layers) THEN merge_tables(base, Located(w.project.vals, "project")) ELSE base
  IN  IF layers = "full" THEN merge_tables(proj, w.overrides) ELSE proj

MergedMiddleware(w, e, layers) ==
  LET base == merge_middleware(Sourced(e.model.mw, "model"), Sourced(e.agent.mw, "agent"))
  IN  IF UsesProject(w, layers) THEN merge_middleware(base, Sourced(w.project.mw, "project"))
      ELSE base

LayerErrors(w, e, layers) ==
  validate_file(e.model, "model") \cup validate_file(e.agent, "agent")
  \cup (IF UsesProject(w, layers) THEN validate_file(w.project, "project") ELSE {})

MergeErrors(w, e, layers) ==
  (IF UsesProject(w, layers)
     THEN MiddlewareClash(merge_middleware(Sourced(e.model.mw, "model"),
                                           Sourced(e.agent.mw, "agent")), w.project.mw) ELSE {})
  \cup (IF layers = "full" THEN OverrideErrors(w.overrides) ELSE {})
-----------------------------------------------------------------------------
(* Steps 4 and 5: the grants, with the atoms derived from the tools and    *)
(* the sub-agents; the chain, with the parser and the recorder.            *)
Servers(t) == ToSet(At(t, "mcp_servers", <<>>))
Subs(t)    == At(t, "subagents", <<>>)

GrantErrors(w, t) ==
  (UNION {UnknownBundles(w, l) : l \in {t["capabilities.grants"]}
           \cup {s.caps : s \in Servers(t)} \cup {s.caps : s \in ToSet(Subs(t))}})
  \cup Err(\E s \in ToSet(Subs(t)) : s.catalog \notin CatalogNames(w), "E_CATALOG_REF")

expand_grants(w, t) ==
  expand_bundles(w, t["capabilities.grants"])
  \cup {Tool(n) : n \in t["tools.allow"]}
  \cup {Spawn(s.catalog) : s \in ToSet(Subs(t))}

ChainErrors(w, t, mw) ==
       Err(t["model.tool_format"] # "native" /\ t["model.tool_format"] \notin w.reg.parsers,
           "E_PARSER_UNAVAILABLE")
  \cup Err(\E i \in DOMAIN mw : mw[i].name \notin w.reg.middleware \cup {TOOL_CALL_PARSER_NAME},
           "E_MIDDLEWARE_UNKNOWN")

(* A stable sort by priority.                                              *)
SortByPriority(chain) ==
  LET before(i, j) == \/ chain[i].priority < chain[j].priority
                      \/ chain[i].priority = chain[j].priority /\ i < j
      rank(i)      == Cardinality({j \in DOMAIN chain : before(j, i)}) + 1
  IN  [r \in DOMAIN chain |-> chain[CHOOSE i \in DOMAIN chain : rank(i) = r]]

finish_chain(t, mw) ==
  LET parser == IF t["model.tool_format"] # "native" /\ Position(mw, TOOL_CALL_PARSER_NAME) = {}
                  THEN <<[name |-> TOOL_CALL_PARSER_NAME, source |-> "model",
                          priority |-> TOOL_CALL_PARSER_PRIORITY]>> ELSE <<>>
      recorder == [name |-> "recorder", priority |-> RECORDER_PRIORITY, source |-> "kernel"]
  IN  SortByPriority((mw \o parser) \o <<recorder>>)

check_registry(w, t) ==
       Err(t["memory.module"] \notin w.reg.memory, "E_MEMORY_UNKNOWN")
  \cup (IF t["sandbox.backend"] = "none" /\ ~w.reg.dev THEN {"E_SANDBOX_NONE_FORBIDDEN"}
        ELSE Err(t["sandbox.backend"] \notin w.reg.backends, "E_SANDBOX_BACKEND_UNKNOWN"))
  \cup Err(~((t["tools.allow"] \cup At(t, "tool_descriptions", {})) \subseteq DOMAIN w.reg.tools),
           "E_TOOL_UNKNOWN")
-----------------------------------------------------------------------------
(* Step 7 (expand_stage): every path and atom becomes concrete.            *)
AllAtoms(w, t) == expand_grants(w, t)
  \cup UNION {expand_bundles(w, s.caps) : s \in Servers(t) \cup ToSet(Subs(t))}

EvalFiles(t) ==
  IF ~Has(t, "agent.eval_set") THEN {}
  ELSE {p \in {t["agent.eval_set"].dev, t["agent.eval_set"].hidden} : p.lead # "url"}

FilePaths(t) ==
  {t["agent.agents_md"], t["notebook.path"]} \cup EvalFiles(t)
  \cup ToSet(At(t, "skills.paths", <<>>)) \cup ToSet(At(t, "extensions.paths", <<>>))
  \cup ({s.definition : s \in ToSet(Subs(t))} \ {NoFile})

ExpandErrors(w, t) ==
  (UNION {AtomErrors(w, a) : a \in AllAtoms(w, t)})
  \cup (UNION {PathErrors(w, p) : p \in FilePaths(t)})
  \cup UNION {RawErrors(w, p) : p \in UNION {ToSet(s.args) : s \in Servers(t)}}

ExpandAll(w, items) == {expand_atom(w, a) : a \in expand_bundles(w, items)}

NoPath == [path |-> <<>>, set |-> FALSE]

is_file(w, p) == p = NoFile \/ expand_path(w, p) \in w.files

(* What resolve_entry hands on: the values of the resolved profile that    *)
(* the rest of the resolution, the launcher and the kernel act on.         *)
StageOf(w, t, mw) ==
  [grants   |-> {expand_atom(w, a) : a \in expand_grants(w, t)},
   tools    |-> t["tools.allow"],
   mcp      |-> {[s EXCEPT !.caps = ExpandAll(w, s.caps)] : s \in Servers(t)},
   subs     |-> [i \in DOMAIN Subs(t) |->
                   [catalog |-> Subs(t)[i].catalog, ceiling |-> ExpandAll(w, Subs(t)[i].caps),
                    found |-> is_file(w, Subs(t)[i].definition)]],
   chain    |-> finish_chain(t, mw),
   backend  |-> t["sandbox.backend"],
   limits   |-> [timeout |-> t["sandbox.timeout_s"], scratch |-> t["sandbox.scratch_tmpfs_mb"],
                 env |-> t["sandbox.env_allow"], network |-> t["sandbox.network"]],
   notebook |-> expand_path(w, t["notebook.path"]),
   hidden   |-> IF Has(t, "agent.eval_set") /\ t["agent.eval_set"].hidden.lead # "url"
                  THEN [path |-> expand_path(w, t["agent.eval_set"].hidden), set |-> TRUE]
                  ELSE NoPath,
   exts     |-> [i \in DOMAIN At(t, "extensions.paths", <<>>) |->
                   expand_path(w, t["extensions.paths"][i])],
   thinking |-> [enabled |-> t["model.thinking.enabled"],
                 budget |-> t["model.thinking.budget_tokens"]],
   compact  |-> [trigger |-> t["compaction.trigger_at"], target |-> t["compaction.target"]],
   blocks   |-> SelectSeq(<<"prompt", "agent.role_prompt">>, LAMBDA k : k \in DOMAIN t)
                \o (IF w.agentsMd THEN <<"agents_md">> ELSE <<>>),
   inject   |-> t["notebook.inject_on_resume"]]

(* resolve_entry, steps 1 to 7: each group of checks ends the resolution.  *)
StageErrors(w, name, layers) ==
  LET e    == Entry(w, name)
      bad1 == LayerErrors(w, e, layers)
      bad2 == MergeErrors(w, e, layers)
      t    == MergedTable(w, e, layers)
      mw   == MergedMiddleware(w, e, layers)
      bad3 == check_merged(t, name)
      bad4 == GrantErrors(w, t)
      bad5 == ChainErrors(w, t, mw)
      bad6 == check_registry(w, t)
  IN  CASE bad1 # {} -> bad1 [] bad1 = {} /\ bad2 # {} -> bad2
        [] OTHER -> IF bad3 # {} THEN bad3 ELSE IF bad4 # {} THEN bad4
                    ELSE IF bad5 # {} THEN bad5 ELSE IF bad6 # {} THEN bad6
                    ELSE ExpandErrors(w, t)

Stage(w, name, layers) ==
  StageOf(w, MergedTable(w, Entry(w, name), layers), MergedMiddleware(w, Entry(w, name), layers))
-----------------------------------------------------------------------------
(* Step 8 without the sub-agents: tools, servers, notebook, eval set.      *)
Exceeds(caps, grants) == Err(\E c \in caps : ~covered_by(c, grants), "E_CAP_EXCEEDS_GRANTS")

(* The host of an http server must be one its own capabilities allow.      *)
McpUrlErrors(s) ==
  Err(s.transport = "http" /\ ~covered_by(Net({s.host}), s.caps), "E_MCP_URL_HOST")

hidden_reachable(w, st) ==
  /\ st.hidden.set
  /\ \/ IsPrefix(w.roots["workdir"], st.hidden.path)
     \/ covered_by(Fs("ro", st.hidden.path), st.grants)

narrowing_checks_NoTools(w, st) ==
       (UNION {Exceeds(s.caps, st.grants) \cup McpUrlErrors(s) : s \in st.mcp})
  \cup Exceeds({Fs("rw", st.notebook)}, st.grants)
  \cup Err(hidden_reachable(w, st), "E_HIDDEN_EVAL_REACHABLE")

narrowing_checks(w, st) ==
       (UNION {Exceeds(w.reg.tools[n].caps, st.grants) : n \in st.tools})
  \cup (UNION {Exceeds(s.caps, st.grants) \cup McpUrlErrors(s) : s \in st.mcp})
  \cup Exceeds({Fs("rw", st.notebook)}, st.grants)
  \cup Err(hidden_reachable(w, st), "E_HIDDEN_EVAL_REACHABLE")

(* Step 8f: what the project file made may not be wider than the base.     *)
check_project_narrowing_GrantsOnly(full, base) ==
  Err(\E c \in full.grants : ~covered_by(c, base.grants), "E_OVERRIDE_WIDENS_GRANTS")

check_project_narrowing(full, base) ==
       Err(\E c \in full.grants : ~covered_by(c, base.grants), "E_OVERRIDE_WIDENS_GRANTS")
  \cup Err(\/ full.limits.timeout > base.limits.timeout
           \/ full.limits.scratch > base.limits.scratch
           \/ ~(full.limits.env \subseteq base.limits.env)
           \/ full.limits.network /\ ~base.limits.network, "E_OVERRIDE_WIDENS_SANDBOX")

=============================================================================
