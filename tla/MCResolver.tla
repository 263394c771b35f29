----------------------------- MODULE MCResolver -----------------------------
(* Worlds for Resolver: spawn graphs, layers, middleware, faults in files, *)
(* tools with servers and extensions.                                      *)
EXTENDS Resolver

P(lead, tail)  == [lead |-> lead, tail |-> tail]
Rw(lead, tail) == [k |-> "fs", mode |-> "rw", path |-> P(lead, tail)]
Ro(lead, tail) == [k |-> "fs", mode |-> "ro", path |-> P(lead, tail)]
Bundle(n)      == [k |-> "bundle", name |-> n]
H(n, p)        == [name |-> n, port |-> p]

Work   == Rw("workdir", <<>>)
Notes  == Rw("workdir", <<"g">>)
Wide   == {Work, Proc("bash")}
Narrow == {Notes}

File(vals, mw) == [version |-> 1, vals |-> vals, mw |-> mw]
Nothing        == <<>>

Defaults ==
  ("model.tool_format" :> "native") @@ ("model.thinking.enabled" :> FALSE)
  @@ ("model.thinking.budget_tokens" :> 0) @@ ("compaction.trigger_at" :> 85)
  @@ ("compaction.target" :> 50) @@ ("agent.agents_md" :> P("workdir", <<"A">>))
  @@ ("capabilities.grants" :> {}) @@ ("tools.allow" :> {}) @@ ("memory.module" :> "none")
  @@ ("sandbox.backend" :> "bwrap") @@ ("sandbox.timeout_s" :> 600)
  @@ ("sandbox.scratch_tmpfs_mb" :> 256) @@ ("sandbox.env_allow" :> {"PATH", "HOME"})
  @@ ("sandbox.network" :> FALSE) @@ ("notebook.path" :> P("workdir", <<"g", "n">>))
  @@ ("notebook.inject_on_resume" :> TRUE)

ModelVals == ("model.id" :> "m") @@ ("model.endpoint" :> "e") @@ ("model.context_length" :> 100)
Model     == File(ModelVals, <<>>)

AgentVals(name, grants) == ("agent.name" :> name) @@ ("capabilities.grants" :> grants)
Agent(name, grants, more, mw) == File(more @@ AgentVals(name, grants), mw)

Registry == [tools |-> [read |-> [caps |-> {Fs("ro", <<"w">>)}, kind |-> "stateless"],
                        write |-> [caps |-> {Fs("rw", <<"w">>)}, kind |-> "stateless"],
                        python |-> [caps |-> {Fs("rw", <<"w">>), Proc("bash")}, kind |-> "session"]],
             middleware |-> {"one", "two", TOOL_CALL_PARSER_NAME}, parsers |-> {"hermes"},
             memory |-> {"none"}, backends |-> {"bwrap"}, dev |-> FALSE]
DevRegistry == [Registry EXCEPT !.backends = {"bwrap", "none"}, !.dev = TRUE]

World(catalog) ==
  [catalog |-> catalog, project |-> NoFile, later |-> NoFile, overrides |-> Nothing,
   defaults |-> Defaults, reg |-> Registry, override |-> "", endpoint |-> TRUE,
   agentsMd |-> TRUE, notebook |-> TRUE, exts |-> Nothing, files |-> {<<"p", "d">>},
   bundles |-> ("tree" :> {Ro("install", <<>>), Proc("bash")}) @@ ("all" :> Wide),
   roots |-> [root |-> <<>>, workdir |-> <<"w">>, home |-> <<"h">>, install |-> <<"i">>,
              agent |-> <<"p">>, project |-> <<"w", "g">>]]

Row(name, agent)        == [name |-> name, model |-> Model, agent |-> agent]
Single(model, agent)    == World(<<[name |-> "default", model |-> model, agent |-> agent]>>)
Projects(w, ps, ls)     == {[w EXCEPT !.project = p, !.later = l] : p \in ps, l \in ls}
-----------------------------------------------------------------------------
(* Graphs of three agents, with narrow or wide grants and ceilings.        *)
SubList(names, ceiling, spawns) ==
  [i \in DOMAIN names |-> [name |-> names[i], catalog |-> names[i], definition |-> NoFile,
                           caps |-> ceiling \cup (IF spawns THEN {Spawn(n) : n \in ToSet(names)} ELSE {})]]

Spawner(name, grants, names, ceiling, spawns) ==
  Agent(name, grants, "subagents" :> SubList(names, ceiling, spawns), <<>>)

Spawners(name, grantSets, lists) ==
  {Spawner(name, g, l, c, TRUE) : g \in grantSets, l \in lists, c \in {Wide, Narrow}}

GraphWorlds ==
  UNION {Projects(World(<<Row("default", a), Row("b", b), Row("c", c)>>),
                  {NoFile} \cup {File("capabilities.grants" :> Narrow, <<>>)}, {NoFile})
    : a \in Spawners("default", {Wide}, {<<"b">>, <<"b", "c">>, <<"c", "b">>}),
      b \in Spawners("b", {Wide, Narrow}, {<<>>, <<"b">>, <<"c">>, <<"default">>}),
      c \in Spawners("c", {Wide, Narrow}, {<<>>, <<"b">>, <<"b", "c">>})}
  \cup {World(<<Row("default", Agent("default", Wide, "subagents" :> l, <<>>)), Row("b", Agent("b", Narrow, Nothing, <<>>))>>)
         : l \in {<<[name |-> "b", catalog |-> "b", definition |-> P("rel", <<"q">>), caps |-> Wide]>>,
                  <<[name |-> "b", catalog |-> "b", definition |-> P("rel", <<"d">>), caps |-> Wide]>>,
                  <<[name |-> "b", catalog |-> "b", definition |-> P("home", <<"..">>), caps |-> Wide]>>,
                  <<[name |-> "b", catalog |-> "b", definition |-> P("rel", <<>>), caps |-> Wide]>>,
                  <<[name |-> "b", catalog |-> "zz", definition |-> NoFile, caps |-> Wide]>>,
                  <<[name |-> "b", catalog |-> "b", definition |-> NoFile, caps |-> NoFile]>>,
                  <<[name |-> "b", catalog |-> "b", definition |-> NoFile, caps |-> {Tool("read")}]>>,
                  <<[name |-> "b", catalog |-> "b", definition |-> NoFile, caps |-> Wide],
                    [name |-> "b", catalog |-> "b", definition |-> NoFile, caps |-> Wide]>>}}
-----------------------------------------------------------------------------
(* Layers: project files and overrides over two model and agent files.     *)
ProjectVals ==
  {"capabilities.grants" :> {Work}, "capabilities.grants" :> {Notes, Secret("s")},
   "capabilities.grants" :> {Work, NetAny}, "capabilities.grants" :> {Work, Net({H("x", 443)})},
   "capabilities.grants" :> {Bundle("all")}, "capabilities.grants" :> {Bundle("zz")},
   "capabilities.grants" :> {Rw("workdir", <<"..">>)}, "capabilities.grants" :> {Tool("read")},
   "capabilities.grants" :> {Ro("workdir", <<>>), Notes},
   "sandbox.timeout_s" :> 60, "sandbox.timeout_s" :> 900, "sandbox.scratch_tmpfs_mb" :> 512,
   "sandbox.env_allow" :> {"PATH"}, "sandbox.env_allow" :> {"PATH", "LANG"},
   "sandbox.env_allow" :> {"API_KEY"}, "sandbox.network" :> TRUE, "sandbox.network" :> FALSE,
   "sandbox.backend" :> "none", "model.id" :> "other", "model.thinking.enabled" :> FALSE,
   "model.thinking.budget_tokens" :> 7, "compaction.target" :> 90, "compaction.trigger_at" :> 40,
   "notebook.path" :> P("rel", <<"n">>), "notebook.path" :> P("home", <<"n">>),
   "tools.allow" :> {"write"}, "loop" :> 1, "zz" :> 1, "sandbox.timeout_s" :> Mistyped}
Overrides ==
  {Nothing, "model.thinking.enabled" :> TRUE, "model.thinking.enabled" :> FALSE,
   "model.thinking.budget_tokens" :> 9, "model.temperature" :> 300,
   "notebook.path" :> P("workdir", <<"n">>), "notebook.path" :> P("rel", <<"n">>),
   "sandbox.network" :> TRUE, "model.max_output_tokens" :> Mistyped}
Models == {Model, File(("model.thinking.enabled" :> TRUE) @@ ("model.thinking.budget_tokens" :> 5)
                       @@ ("compaction.target" :> 20) @@ ModelVals, <<>>)}
Agents == {Agent("default", Wide \cup {Secret("s")}, "tools.allow" :> {"read"}, <<>>),
           Agent("default", Wide \cup {Net({H("x", 0)})},
                 ("sandbox.network" :> TRUE) @@ ("tools.allow" :> {"read", "write"}), <<>>)}
Files == {NoFile} \cup {File(v, <<>>) : v \in ProjectVals}

LayerWorlds ==
  UNION {Projects([Single(m, a) EXCEPT !.overrides = o], Files,
                  {NoFile, File("capabilities.grants" :> {Notes, Net({H("x", 443)})}, <<>>),
                   File("capabilities.grants" :> {Work, NetAny}, <<>>)})
           : m \in Models, a \in Agents, o \in Overrides}
-----------------------------------------------------------------------------
(* Middleware of the three layers.                                         *)
Mw(name, prio, syntax) == [name |-> name, priority |-> prio, syntax |-> syntax]
ModelMw   == {<<>>, <<Mw("one", 150, "")>>, <<Mw("one", 100, "")>>, <<Mw("one", 101, ""), Mw("two", 101, "")>>,
              <<Mw("one", 300, "")>>, <<Mw(TOOL_CALL_PARSER_NAME, 100, "hermes"), Mw("two", 120, "")>>,
              <<Mw("two", 199, ""), Mw(TOOL_CALL_PARSER_NAME, 150, "")>>, <<Mw("one", 120, ""), Mw("one", 130, "")>>}
AgentMw   == {<<>>, <<Mw("one", 200, "")>>, <<Mw("two", 899, ""), Mw("one", 899, "")>>, <<Mw("zz", 300, "")>>,
              <<Mw("recorder", 300, "")>>, <<Mw(TOOL_CALL_PARSER_NAME, 200, "")>>, <<Mw(NoFile, 200, "")>>}
ProjectMw == {<<>>, <<Mw("one", 400, "")>>, <<Mw("two", 250, ""), Mw("one", 250, "")>>, <<Mw("one", 900, "")>>}
ChainWorlds ==
  {[Single(File(("model.tool_format" :> f) @@ ModelVals, m), Agent("default", Wide, Nothing, a))
      EXCEPT !.project = File(Nothing, p)]
     : f \in {"native", "hermes", "zz"}, m \in ModelMw, a \in AgentMw, p \in ProjectMw}
-----------------------------------------------------------------------------
(* One fault in a file, in the catalog, in the bundles, in the build.      *)
Server(transport, program, host, caps, env) ==
  [name |-> "s", transport |-> transport, program |-> program, host |-> host, caps |-> caps, env |-> env,
   args |-> IF program = NoFile THEN <<>> ELSE <<P("rel", <<"-c">>), P("install", <<>>)>>]
Plain == Single(Model, Agent("default", Wide, Nothing, <<>>))
FaultyModels == {NoFile, [Model EXCEPT !.version = 2], [Model EXCEPT !.version = Mistyped]}
  \cup {File(v @@ ModelVals, <<>>) : v \in
         {"model.endpoint" :> "Bad", "model.context_length" :> 0, "model.temperature" :> -1,
          "model.thinking.budget_tokens" :> -1, "model.quirks.auth" :> "Bad", "prompt" :> NoFile,
          "tool_descriptions" :> {"read", "zz"}, "tool_descriptions" :> {"read"}, "prompt" :> Mistyped,
          "compaction.target" :> 0, "compaction.trigger_at" :> 101, "agent.name" :> "default"}}
  \cup {File("model.id" :> "m", <<>>)}
FaultyAgents == {File(v @@ AgentVals("default", Wide), <<>>) : v \in
   {"agent.name" :> "zz", "agent.spill_cap_bytes" :> 1, "memory.module" :> "zz", "sandbox.backend" :> "zz",
    "sandbox.backend" :> "none", "tools.allow" :> {"zz"}, "tools.allow" :> {"Bad"}, "agent.role_prompt" :> NoFile,
    "agent.role_prompt" :> "text", "skills.paths" :> <<P("unknown", <<>>)>>, "skills.paths" :> <<P("home", <<"..">>)>>, "sandbox.outer" :> 1,
    "capabilities.grants" :> {[k |-> "malformed"], Work}, "capabilities.grants" :> {Spawn("b"), Work},
    "capabilities.grants" :> {Rw("rel", <<"x">>), Work}, "capabilities.grants" :> {Rw("unknown", <<>>)},
    "capabilities.grants" :> {Rw("workdir", <<"$">>)}, "capabilities.grants" :> {Ro("install", <<".">>), Work},
    "notebook.path" :> P("workdir", <<"..", "n">>), "notebook.path" :> P("rel", <<>>)}}
  \cup {File("capabilities.grants" :> Wide, <<>>)}
FaultWorlds ==
  {Single(m, Agent("default", Wide, Nothing, <<>>)) : m \in FaultyModels}
  \cup {Single(Model, a) : a \in FaultyAgents} \cup {[Single(Model, a) EXCEPT !.reg = DevRegistry] : a \in FaultyAgents}
  \cup {World(<<Row("b", Agent("b", Wide, Nothing, <<>>))>>),
        World(<<Row("default", Agent("default", Wide, Nothing, <<>>)), Row("default", Agent("default", Wide, Nothing, <<>>))>>),
        [Plain EXCEPT !.bundles = "Bad" :> {}], [Plain EXCEPT !.bundles = "b" :> {Bundle("b")}],
        [Plain EXCEPT !.bundles = "b" :> {Tool("read")}], [Plain EXCEPT !.roots["install"] = <<"..">>],
        [Single(Model, Agent("default", Wide, "mcp_servers" :> <<Server("stdio", "bash", NoFile, {Proc("bash")}, {})>>, <<>>))
           EXCEPT !.bundles = Nothing, !.roots = [r \in DOMAIN @ \ {"install"} |-> @[r]]],
        [Plain EXCEPT !.endpoint = FALSE], [Plain EXCEPT !.override = "none"], [Plain EXCEPT !.agentsMd = FALSE],
        [Plain EXCEPT !.override = "none", !.reg = DevRegistry]}
-----------------------------------------------------------------------------
(* Tools, MCP servers, extensions and the eval set, over several grants.   *)
ServerLists ==
  {<<>>, <<Server("stdio", "bash", NoFile, {Proc("bash")}, {})>>, <<Server("stdio", "bash", NoFile, {}, {})>>,
   <<Server("http", NoFile, H("x", 443), {Net({H("x", 0)})}, {})>>, <<Server("http", NoFile, H("y", 0), {Net({H("x", 0)})}, {})>>,
   <<Server("ftp", NoFile, NoFile, NoFile, {"API_KEY"})>>}
GrantSets == {Wide, {Ro("workdir", <<>>), Notes}, Wide \cup {Ro("root", <<"x">>), Net({H("x", 0), H("x", 443)})},
              {Rw("workdir", <<"g">>), Ro("root", <<>>), Bundle("tree"), NetAny}}
Manifest(name, kind, caps, tools) ==
  [name |-> name, kind |-> kind, runtime |-> "process", program |-> "bash", caps |-> caps, tools |-> tools]
Exts == (<<"x">> :> Manifest("stats", "stateless", {Proc("bash"), Net({H("x", 443)})}, <<"ext.stats.count">>))
     @@ (<<"x", "y">> :> Manifest("deep", "session", {Proc("bash"), Ro("ext", <<"d">>)}, <<"ext.deep.a", "ext.deep.b">>))
     @@ (<<"p", "z">> :> Manifest("stats", "stateless", {Proc("bash"), Rw("home", <<>>)}, <<"ext.stats.other">>))
     @@ (<<"w", "q">> :> Manifest("tool", "stateless", {Proc("bash"), Tool("read")}, <<"ext.tool.x">>))
ExtLists == {<<>>, <<P("root", <<"x">>)>>, <<P("root", <<"x">>), P("root", <<"x", "y">>)>>, <<P("rel", <<"z">>)>>,
             <<P("root", <<"x">>), P("root", <<"x">>)>>, <<P("workdir", <<"q">>)>>, <<P("root", <<"none">>)>>}
Eval(dev, hidden) == [dev |-> dev, hidden |-> hidden]
EvalSets == {NoFile, Eval(P("url", <<>>), P("url", <<>>)), Eval(P("rel", <<"d">>), P("home", <<"e">>)),
             Eval(P("home", <<"..">>), P("url", <<>>)), Eval(P("home", <<"d">>), P("workdir", <<"e">>)),
             Eval(P("url", <<>>), P("root", <<"x", "e">>))}
ToolSets == {{}, {"read"}, {"write"}, {"read", "python"}}
ToolWorlds ==
  {[Single(Model, Agent("default", g,
      ("tools.allow" :> ts) @@ ("mcp_servers" :> s) @@ ("extensions.paths" :> x) @@ ("sandbox.network" :> n)
      @@ (IF e = NoFile THEN Nothing ELSE "agent.eval_set" :> e), <<>>))
      EXCEPT !.exts = Exts]
     : g \in GrantSets, ts \in ToolSets, s \in ServerLists, x \in ExtLists, e \in EvalSets, n \in BOOLEAN}

MCWorlds == GraphWorlds \cup LayerWorlds \cup ChainWorlds \cup FaultWorlds \cup ToolWorlds

MCAccesses ==
  {[k |-> "fs", mode |-> m, path |-> p] : m \in {"ro", "rw"},
     p \in {<<"w", "a">>, <<"w", "g", "n">>, <<"i", "a">>, <<"x", "a">>, <<"x", "y", "a">>, <<"h", "a">>}}
  \cup {[k |-> "host", name |-> n, port |-> q] : n \in {"x", "y"}, q \in {80, 443}}
  \cup {[k |-> "proc", name |-> "bash"], [k |-> "secret", name |-> "s"], [k |-> "tool", name |-> "write"],
        [k |-> "spawn", name |-> "b"], [k |-> "spawn", name |-> "c"]}
=============================================================================
