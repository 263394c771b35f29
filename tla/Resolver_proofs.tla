-------------------------- MODULE Resolver_proofs --------------------------
(***************************************************************************)
(* Theorems about Resolver: what an accepted profile grants, and that each *)
(* launch ends, whatever the files, the graph of sub-agents and the        *)
(* project file say.                                                       *)
(*                                                                         *)
(* The proofs rest on two facts about atoms.  The order on them is         *)
(* transitive (NarrowerTransitive), and it is sound: a narrower atom       *)
(* permits no more (NarrowerPermitsLess).  Both need that the paths are    *)
(* sequences, which holds of every atom a resolution expands.              *)
(*                                                                         *)
(* Inv says what the stack, the memo and an accepted profile are.  WalkInv *)
(* is about the walk of the sub-agents: an agent that is done holds no     *)
(* more than some call that is still active, unless an error is on its way *)
(* to the root (Walking), and a call is below those that led to it, so     *)
(* that an agent found in progress is on a cycle (Descended).  When the    *)
(* root has looked at all its sub-agents, the memo is closed under         *)
(* spawning and holds nothing the root does not (Walked).                  *)
(*                                                                         *)
(* That a launch ends rests on sums over the stack (Unlooked).  They are   *)
(* dealt with by the least-number principle: where two sums first differ,  *)
(* or first leave the naturals.                                            *)
(***************************************************************************)
EXTENDS Resolver, FiniteSetTheorems, WellFoundedInduction, TLAPS

-----------------------------------------------------------------------------
(* Atoms                                                                   *)

\* A concrete path: a sequence of names.
IsSequence(path) == \E S : path \in Seq(S)

\* The file atoms of caps have concrete paths.
Paths(caps) == \A c \in caps : c.k = "fs" => IsSequence(c.path)

\* covered_by of every atom: what Exceeds and its like check.
Within(a, b) == \A c \in a : covered_by(c, b)

\* A prefix of a prefix is a prefix.
LEMMA PrefixTransitive ==
    ASSUME NEW p, NEW q, NEW r, IsSequence(p), IsSequence(q), IsSequence(r), IsPrefix(p, q), IsPrefix(q, r)
    PROVE  IsPrefix(p, r)
<1>1. PICK S1 : p \in Seq(S1)
  BY DEF IsSequence
<1>2. PICK S2 : q \in Seq(S2)
  BY DEF IsSequence
<1>3. PICK S3 : r \in Seq(S3)
  BY DEF IsSequence
<1> DEFINE S == S1 \cup S2 \cup S3
<1>4. p \in Seq(S) /\ q \in Seq(S) /\ r \in Seq(S)
  BY <1>1, <1>2, <1>3
<1> HIDE DEF S
<1>5. QED
  BY <1>4 DEF IsPrefix

\* host_covered of capability.rs is transitive.
LEMMA HostsTransitive ==
    ASSUME NEW f, NEW g, NEW h, host_covered(f, g), host_covered(g, h)
    PROVE  host_covered(f, h)
BY DEF host_covered

\* The order of capability.rs is transitive.
LEMMA NarrowerTransitive ==
    ASSUME NEW a, NEW b, NEW c, Paths({a, b, c}), narrower_than(a, b), narrower_than(b, c)
    PROVE  narrower_than(a, c)
<1>1. a.k = b.k /\ b.k = c.k
  BY DEF narrower_than
<1>2. CASE a.k = "fs"
  <2>1. IsSequence(a.path) /\ IsSequence(b.path) /\ IsSequence(c.path)
    BY <1>1, <1>2 DEF Paths
  <2>2. /\ ModeLeq(a.mode, b.mode) /\ IsPrefix(b.path, a.path)
        /\ ModeLeq(b.mode, c.mode) /\ IsPrefix(c.path, b.path)
    BY <1>1, <1>2 DEF narrower_than
  <2>3. IsPrefix(c.path, a.path)
    BY <2>1, <2>2, PrefixTransitive
  <2>4. ModeLeq(a.mode, c.mode)
    BY <2>2 DEF ModeLeq
  <2>5. QED
    BY <1>1, <1>2, <2>3, <2>4 DEF narrower_than
<1>3. CASE a.k = "net"
  <2>1. /\ b.any \/ (~a.any /\ \A h \in a.hosts : \E g \in b.hosts : host_covered(h, g))
        /\ c.any \/ (~b.any /\ \A h \in b.hosts : \E g \in c.hosts : host_covered(h, g))
    BY <1>1, <1>3 DEF narrower_than
  <2>2. CASE c.any
    BY <1>1, <1>3, <2>2 DEF narrower_than
  <2>3. CASE ~c.any
    <3>1. ~a.any
      BY <2>1, <2>3
    <3>2. ASSUME NEW h \in a.hosts
          PROVE  \E g \in c.hosts : host_covered(h, g)
      <4>1. PICK f \in b.hosts : host_covered(h, f)
        BY <2>1, <2>3
      <4>2. PICK g \in c.hosts : host_covered(f, g)
        BY <2>1, <2>3
      <4>3. QED
        BY <4>1, <4>2, HostsTransitive
    <3>3. QED
      BY <1>1, <1>3, <3>1, <3>2 DEF narrower_than
  <2>4. QED
    BY <2>2, <2>3
<1>4. CASE a.k \notin {"fs", "net"}
  BY <1>1, <1>4 DEF narrower_than
<1>5. QED
  BY <1>2, <1>3, <1>4

\* Grants that are covered by covered grants are covered.
LEMMA WithinTransitive ==
    ASSUME NEW A, NEW B, NEW C, Paths(A), Paths(B), Paths(C), Within(A, B), Within(B, C)
    PROVE  Within(A, C)
<1>1. SUFFICES ASSUME NEW a \in A PROVE covered_by(a, C)
  BY DEF Within
<1>2. PICK b \in B : narrower_than(a, b)
  BY DEF Within, covered_by
<1>3. PICK c \in C : narrower_than(b, c)
  BY DEF Within, covered_by
<1>4. Paths({a, b, c})
  BY DEF Paths
<1>5. narrower_than(a, c)
  BY <1>2, <1>3, <1>4, NarrowerTransitive
<1>6. QED
  BY <1>5 DEF covered_by

\* Exceeds and its neighbours report exactly what is not covered.
LEMMA NothingExceeds ==
    ASSUME NEW A, NEW B
    PROVE  Exceeds(A, B) = {} <=> Within(A, B)
BY DEF Exceeds, Err, Within

\* A narrower atom permits no access that the wider one does not.
LEMMA NarrowerPermitsLess ==
    ASSUME NEW a, NEW b, Paths({a, b}), narrower_than(a, b),
           NEW x \in Accesses, AtomPermits(a, x)
    PROVE  AtomPermits(b, x)
<1>1. a.k = b.k
  BY DEF narrower_than
<1>2. CASE x.k = "fs"
  <2>1. a.k = "fs" /\ ModeLeq(x.mode, a.mode) /\ IsPrefix(a.path, x.path)
    BY <1>2 DEF AtomPermits
  <2>2. ModeLeq(a.mode, b.mode) /\ IsPrefix(b.path, a.path)
    BY <2>1 DEF narrower_than
  <2>3. IsSequence(a.path) /\ IsSequence(b.path) /\ IsSequence(x.path)
    BY <1>1, <1>2, <2>1, AccessesAssumption DEF Paths, IsSequence
  <2>4. IsPrefix(b.path, x.path)
    BY <2>1, <2>2, <2>3, PrefixTransitive
  <2>5. ModeLeq(x.mode, b.mode)
    BY <2>1, <2>2 DEF ModeLeq
  <2>6. QED
    BY <1>1, <1>2, <2>1, <2>4, <2>5 DEF AtomPermits
<1>3. CASE x.k = "host"
  <2>1. a.k = "net" /\ (a.any \/ \E h \in a.hosts : h.name = x.name /\ h.port \in {0, x.port})
    BY <1>3 DEF AtomPermits
  <2>2. b.any \/ (~a.any /\ \A h \in a.hosts : \E g \in b.hosts : host_covered(h, g))
    BY <2>1 DEF narrower_than
  <2>3. b.any \/ \E g \in b.hosts : g.name = x.name /\ g.port \in {0, x.port}
    BY <2>1, <2>2 DEF host_covered
  <2>4. QED
    BY <1>1, <1>3, <2>1, <2>3 DEF AtomPermits
<1>4. CASE x.k \notin {"fs", "host"}
  <2>1. a.k = x.k /\ a.name = x.name /\ a.k \notin {"fs", "net"}
    BY <1>4, AccessesAssumption DEF AtomPermits
  <2>2. b.name = x.name
    BY <1>1, <2>1 DEF narrower_than
  <2>3. QED
    BY <1>1, <1>4, <2>1, <2>2 DEF AtomPermits
<1>5. QED
  BY <1>2, <1>3, <1>4

\* Grants that are covered permit no access that the others do not.
LEMMA WithinPermitsLess ==
    ASSUME NEW A, NEW B, Paths(A), Paths(B), Within(A, B), NEW x \in Accesses, Permits(A, x)
    PROVE  Permits(B, x)
<1>1. PICK a \in A : AtomPermits(a, x)
  BY DEF Permits
<1>2. PICK b \in B : narrower_than(a, b)
  BY DEF Within, covered_by
<1>3. Paths({a, b})
  BY DEF Paths
<1>4. QED
  BY <1>1, <1>2, <1>3, NarrowerPermitsLess DEF Permits

-----------------------------------------------------------------------------
(* Tables                                                                  *)

\* The keys whose values the proofs rely on.
Keys == Numbers \cup {"capabilities.grants", "subagents", "extensions.paths"}

\* What the values of these keys are once the file is validated.
ValueOK(k, v) ==
  /\ k = "capabilities.grants" => Written(v)
  /\ k \in Numbers => v \in Int
  /\ k \in {"subagents", "extensions.paths"} => IsList(v)
  /\ k = "subagents" => \A i \in DOMAIN v : v[i].caps # NoFile /\ Written(v[i].caps)

\* A table whose values have the types its keys ask for.
Sound(t) == \A k \in Keys \cap DOMAIN t : ValueOK(k, t[k])

\* normalize_path leaves a sequence.
LEMMA NormalizedIsSequence ==
    ASSUME NEW path \in Seq(STRING)
    PROVE  IsSequence(normalize_path(path))
<1> DEFINE kept == {i \in DOMAIN path : path[i] # "."}
           nth(k) == CHOOSE i \in kept : Cardinality({j \in kept : j <= i}) = k
           n == Cardinality(kept)
           f == [k \in 1 .. n |-> path[nth(k)]]
           S == {path[nth(k)] : k \in 1 .. n}
<1>1. n \in Nat
  <2>1. IsFiniteSet(1 .. Len(path)) /\ kept \subseteq 1 .. Len(path)
    BY FS_Interval
  <2>2. QED
    BY <2>1, FS_Subset, FS_CardinalityType
<1>2. normalize_path(path) = f
  BY DEF normalize_path
<1>3. f \in [1 .. n -> S]
  OBVIOUS
<1> HIDE DEF f, S, n
<1>4. f \in Seq(S)
  BY <1>1, <1>3
<1>5. QED
  BY <1>2, <1>4 DEF IsSequence

\* A file that was read without an error has no value of a wrong type.
LEMMA FileHasNoMistyped ==
    ASSUME NEW f, NEW kind, validate_file(f, kind) = {}
    PROVE  /\ f # NoFile
           /\ \A k \in DOMAIN f.vals : k \in spec_for(kind) /\ f.vals[k] # Mistyped
<1>1. f # NoFile
  BY DEF validate_file
<1>2. walk_table(f.vals, spec_for(kind)) = {}
  BY <1>1 DEF validate_file
<1>3. ASSUME NEW k \in DOMAIN f.vals
      PROVE  k \in spec_for(kind) /\ f.vals[k] # Mistyped
  <2>1. (IF k \in KernelOnly THEN {"E_KERNEL_ONLY_KEY"}
         ELSE IF k \notin spec_for(kind) THEN {"E_UNKNOWN_KEY"}
         ELSE Err(f.vals[k] = Mistyped, IF k \in TextKeys THEN "E_TEXT_SOURCE" ELSE "E_VALUE_RANGE")) = {}
    BY <1>2 DEF walk_table
  <2>2. QED
    BY <2>1 DEF Err
<1>4. QED
  BY <1>1, <1>3

\* A sub-agent without capabilities is an error.
LEMMA SubagentsHaveCaps ==
    ASSUME NEW t, check_agent_semantics(t) = {}, Has(t, "subagents"),
           NEW i \in DOMAIN t["subagents"]
    PROVE  t["subagents"][i].caps # NoFile
<1> DEFINE found == UNION {check_subagent(t["subagents"][j]) : j \in DOMAIN t["subagents"]}
<1>1. /\ \A e \in found : e \in check_subagents(t)
      /\ \A e \in check_subagents(t) : e \in check_agent_semantics(t)
  BY DEF check_subagents, check_list, check_agent_semantics
<1>2. check_subagent(t["subagents"][i]) = {}
  BY <1>1
<1>3. QED
  BY <1>2 DEF check_subagent, Err

\* What validate_file accepts has the types the resolution relies on.
LEMMA FileIsSound ==
    ASSUME NEW f, NEW kind \in {"model", "agent", "project"}, FileOK(f), validate_file(f, kind) = {}
    PROVE  f # NoFile /\ Sound(f.vals)
<1>1. f # NoFile /\ TableOK(f.vals)
  BY FileHasNoMistyped DEF FileOK
<1>2. \A k \in DOMAIN f.vals : k \in spec_for(kind) /\ f.vals[k] # Mistyped /\ Has(f.vals, k)
  BY FileHasNoMistyped DEF Has
<1>3. ASSUME NEW k \in Keys, k \in DOMAIN f.vals
      PROVE  ValueOK(k, f.vals[k])
  <2>1. /\ k = "capabilities.grants" => Written(f.vals[k])
        /\ k \in Numbers => f.vals[k] \in Int
        /\ k \in {"subagents", "extensions.paths"} => IsList(f.vals[k])
    BY <1>1, <1>2, <1>3 DEF TableOK
  <2>2. ASSUME k = "subagents", NEW i \in DOMAIN f.vals[k]
        PROVE  f.vals[k][i].caps # NoFile /\ Written(f.vals[k][i].caps)
    <3>1. kind # "model"
      BY <1>2, <1>3, <2>2 DEF spec_for, ModelKeys, FixedByModel
    <3>2. check_agent_semantics(f.vals) = {}
      BY <1>1, <3>1 DEF validate_file
    <3>3. f.vals[k][i].caps # NoFile
      BY <1>2, <1>3, <2>2, <3>2, SubagentsHaveCaps
    <3>4. QED
      BY <1>1, <1>2, <1>3, <2>2, <3>3 DEF TableOK
  <2>3. QED
    BY <2>1, <2>2 DEF ValueOK
<1>4. QED
  BY <1>1, <1>3 DEF Sound

\* The kernel's own table is sound.
LEMMA DefaultsAreSound ==
    ASSUME NEW t, DefaultsOK(t)
    PROVE  Sound(t)
<1>1. TableOK(t) /\ "subagents" \notin DOMAIN t /\ \A k \in DOMAIN t : Has(t, k)
  BY DEF DefaultsOK, Has
<1>2. QED
  BY <1>1 DEF TableOK, Sound, ValueOK, Keys, Numbers

\* Merging two sound tables gives a sound one.
LEMMA MergeIsSound ==
    ASSUME NEW s, NEW t, Sound(s), Sound(t)
    PROVE  Sound(merge_tables(s, t))
<1> DEFINE m == merge_tables(s, t)
<1>1. ASSUME NEW k \in Keys, k \in DOMAIN m
      PROVE  (k \in DOMAIN s /\ m[k] = s[k]) \/ (k \in DOMAIN t /\ m[k] = t[k])
  BY <1>1 DEF merge_tables, Keys, Numbers
<1>2. QED
  BY <1>1 DEF Sound

\* Locating the paths of a file leaves its table sound.
LEMMA LocatedIsSound ==
    ASSUME NEW t, NEW kind, Sound(t)
    PROVE  Sound(Located(t, kind))
<1>1. DOMAIN Located(t, kind) = DOMAIN t
  BY DEF Located
<1>2. ASSUME NEW k \in Keys, k \in DOMAIN t
      PROVE  ValueOK(k, Located(t, kind)[k])
  <2>1. CASE k \notin {"extensions.paths", "subagents"}
    <3>1. Located(t, kind)[k] = t[k]
      BY <1>2, <2>1 DEF Located, Keys, Numbers
    <3>2. QED
      BY <1>2, <3>1 DEF Sound
  <2>2. CASE k = "extensions.paths"
    <3> DEFINE list == Located(t, kind)[k]
    <3>1. list = [i \in DOMAIN t[k] |-> resolve_path_field(t[k][i], kind)]
      BY <1>2, <2>2 DEF Located
    <3>2. IsList(t[k])
      BY <1>2, <2>2 DEF Sound, ValueOK
    <3>3. PICK n \in Nat : DOMAIN t[k] = 1 .. n
      BY <3>2 DEF IsList
    <3>4. list \in [1 .. n -> ToSet(list)]
      BY <3>1, <3>3 DEF ToSet
    <3> HIDE DEF list
    <3>5. IsList(list)
      BY <3>4 DEF IsList
    <3>6. QED
      BY <2>2, <3>5 DEF ValueOK, Numbers, list
  <2>3. CASE k = "subagents"
    <3> DEFINE list == Located(t, kind)[k]
    <3>1. list = [i \in DOMAIN t[k] |->
                    [name |-> t[k][i].name, catalog |-> t[k][i].catalog, caps |-> t[k][i].caps,
                     definition |-> resolve_path_field(t[k][i].definition, kind)]]
      BY <1>2, <2>3 DEF Located
    <3>2. IsList(t[k]) /\ \A i \in DOMAIN t[k] : t[k][i].caps # NoFile /\ Written(t[k][i].caps)
      BY <1>2, <2>3 DEF Sound, ValueOK
    <3>3. PICK n \in Nat : DOMAIN t[k] = 1 .. n
      BY <3>2 DEF IsList
    <3>4. /\ list \in [1 .. n -> ToSet(list)]
          /\ \A i \in 1 .. n : list[i].caps = t[k][i].caps
      BY <3>1, <3>3 DEF ToSet
    <3> HIDE DEF list
    <3>5. IsList(list)
      BY <3>4 DEF IsList
    <3>6. \A i \in DOMAIN list : list[i].caps # NoFile /\ Written(list[i].caps)
      BY <3>2, <3>3, <3>4
    <3>7. QED
      BY <2>3, <3>5, <3>6 DEF ValueOK, Numbers, list
  <2>4. QED
    BY <2>1, <2>2, <2>3
<1>3. QED
  BY <1>1, <1>2 DEF Sound

-----------------------------------------------------------------------------
(* Stages                                                                  *)

\* The table that resolve_entry works on.
Table(w, name, layers) == MergedTable(w, Entry(w, name), layers)

\* A stage without errors has passed every check of resolve_entry.
LEMMA StageChecked ==
    ASSUME NEW w, NEW name, NEW layers, StageErrors(w, name, layers) = {}
    PROVE  /\ LayerErrors(w, Entry(w, name), layers) = {}
           /\ MergeErrors(w, Entry(w, name), layers) = {}
           /\ GrantErrors(w, Table(w, name, layers)) = {}
           /\ check_registry(w, Table(w, name, layers)) = {}
           /\ ExpandErrors(w, Table(w, name, layers)) = {}
BY DEF StageErrors, Table

\* A name of the catalog has an entry.
LEMMA EntryIsListed ==
    ASSUME NEW w, NEW name \in CatalogNames(w)
    PROVE  \E i \in DOMAIN w.catalog : Entry(w, name) = w.catalog[i]
<1>1. \E i \in DOMAIN w.catalog : w.catalog[i].name = name
  BY DEF CatalogNames
<1>2. QED
  BY <1>1 DEF Entry

\* The merged table has the keys of both.
LEMMA MergedDomain ==
    ASSUME NEW s, NEW t
    PROVE  DOMAIN merge_tables(s, t) = DOMAIN s \cup DOMAIN t
BY DEF merge_tables

\* An override that is accepted sets no key that grants or limits depend on.
LEMMA OverridesSetNoKey ==
    ASSUME NEW o, OverrideErrors(o) = {}
    PROVE  /\ DOMAIN o \cap (Keys \cup AlwaysSet) = {}
           /\ Sound(o)
<1>1. DOMAIN o \subseteq RuntimeOverrideKeys
  BY DEF OverrideErrors, Err
<1>2. RuntimeOverrideKeys \cap (Keys \cup AlwaysSet) = {}
  BY DEF RuntimeOverrideKeys, Keys, AlwaysSet, Numbers
<1>3. QED
  BY <1>1, <1>2 DEF Sound

\* The table of an entry that was staged without an error.
LEMMA TableIsSound ==
    ASSUME NEW w, WorldOK(w), NEW name \in CatalogNames(w), NEW layers \in {"full", "base"},
           StageErrors(w, name, layers) = {}
    PROVE  Sound(Table(w, name, layers)) /\ AlwaysSet \subseteq DOMAIN Table(w, name, layers)
<1> DEFINE e == Entry(w, name)
           base == merge_tables(merge_tables(w.defaults, e.model.vals), Located(e.agent.vals, "agent"))
           proj == IF UsesProject(w, layers)
                     THEN merge_tables(base, Located(w.project.vals, "project")) ELSE base
<1>1. LayerErrors(w, e, layers) = {} /\ MergeErrors(w, e, layers) = {}
  BY StageChecked
<1>2. FileOK(e.model) /\ FileOK(e.agent) /\ FileOK(w.project)
  BY EntryIsListed DEF WorldOK
<1>3. Sound(e.model.vals) /\ Sound(e.agent.vals)
  BY <1>1, <1>2, FileIsSound DEF LayerErrors
<1>4. Sound(w.defaults) /\ AlwaysSet \subseteq DOMAIN w.defaults
  BY DefaultsAreSound DEF WorldOK, DefaultsOK
<1>5. Sound(base) /\ AlwaysSet \subseteq DOMAIN base
  <2>1. /\ Sound(merge_tables(w.defaults, e.model.vals))
        /\ AlwaysSet \subseteq DOMAIN merge_tables(w.defaults, e.model.vals)
    BY <1>3, <1>4, MergeIsSound, MergedDomain
  <2>2. Sound(Located(e.agent.vals, "agent"))
    BY <1>3, LocatedIsSound
  <2>3. Sound(base)
    BY <2>1, <2>2, MergeIsSound
  <2>4. ASSUME NEW s, NEW d
        PROVE  DOMAIN s \subseteq DOMAIN merge_tables(s, d)
    BY MergedDomain
  <2>5. AlwaysSet \subseteq DOMAIN base
    BY <2>1, <2>4
  <2>6. QED
    BY <2>3, <2>5
<1> HIDE DEF base
<1>6. Sound(proj) /\ AlwaysSet \subseteq DOMAIN proj
  <2>1. CASE UsesProject(w, layers)
    <3>1. validate_file(w.project, "project") = {}
      BY <1>1, <2>1 DEF LayerErrors
    <3>2. Sound(Located(w.project.vals, "project"))
      BY <1>2, <3>1, FileIsSound, LocatedIsSound
    <3>3. QED
      BY <1>5, <2>1, <3>2, MergeIsSound, MergedDomain
  <2>2. CASE ~UsesProject(w, layers)
    BY <1>5, <2>2
  <2>3. QED
    BY <2>1, <2>2
<1>7. Table(w, name, layers) = IF layers = "full" THEN merge_tables(proj, w.overrides) ELSE proj
  BY DEF Table, MergedTable, base
<1> HIDE DEF proj
<1>8. CASE layers = "full"
  <2>1. Sound(w.overrides)
    BY <1>1, <1>8, OverridesSetNoKey DEF MergeErrors
  <2>2. QED
    BY <1>6, <1>7, <1>8, <2>1, MergeIsSound, MergedDomain
<1>9. CASE layers # "full"
  BY <1>6, <1>7, <1>9
<1>10. QED
  BY <1>8, <1>9

\* The fields of a stage, from the merged table.
LEMMA StageFields ==
    ASSUME NEW w, NEW name, NEW layers
    PROVE  LET t == Table(w, name, layers) st == Stage(w, name, layers) IN
           /\ st.grants = {expand_atom(w, a) : a \in expand_grants(w, t)}
           /\ st.tools = t["tools.allow"]
           /\ st.subs = [i \in DOMAIN Subs(t) |->
                [catalog |-> Subs(t)[i].catalog, ceiling |-> ExpandAll(w, Subs(t)[i].caps),
                 found |-> is_file(w, Subs(t)[i].definition)]]
           /\ st.backend = t["sandbox.backend"]
           /\ st.limits = [timeout |-> t["sandbox.timeout_s"], scratch |-> t["sandbox.scratch_tmpfs_mb"],
                           env |-> t["sandbox.env_allow"], network |-> t["sandbox.network"]]
           /\ st.exts = [i \in DOMAIN At(t, "extensions.paths", <<>>) |->
                           expand_path(w, t["extensions.paths"][i])]
BY DEF Stage, StageOf, Table

\* An atom that is expanded without an error has a path that is one.
LEMMA ExpandedIsConcrete ==
    ASSUME NEW w, \A r \in DOMAIN w.roots : w.roots[r] \in Seq(STRING),
           NEW items, Written(items), \A a \in items : AtomErrors(w, a) = {}
    PROVE  Paths({expand_atom(w, a) : a \in items})
<1>1. SUFFICES ASSUME NEW a \in items, expand_atom(w, a).k = "fs"
               PROVE  IsSequence(expand_atom(w, a).path)
  BY DEF Paths
<1>2. CASE a.k = "fs"
  <2>1. PathErrors(w, a.path) = {}
    BY <1>2 DEF AtomErrors
  <2>2. a.path.lead \in DOMAIN w.roots
    BY <2>1 DEF PathErrors
  <2>3. Substituted(w, a.path) \in Seq(STRING)
    BY <1>2, <2>2 DEF Written, Substituted
  <2>4. expand_atom(w, a).path = expand_path(w, a.path)
    BY <1>2 DEF expand_atom, Fs
  <2>5. QED
    BY <2>3, <2>4, NormalizedIsSequence DEF expand_path
<1>3. CASE a.k = "net"
  BY <1>1, <1>3 DEF expand_atom, Net
<1>4. CASE a.k \notin {"fs", "net"}
  BY <1>1, <1>4 DEF expand_atom
<1>5. QED
  BY <1>2, <1>3, <1>4

\* Expanding bundles leaves paths that are sequences.
LEMMA BundlesAreWritten ==
    ASSUME NEW w, WorldOK(w), NEW items, Written(items), UnknownBundles(w, items) = {}
    PROVE  Written(expand_bundles(w, items))
<1>1. SUFFICES ASSUME NEW a \in expand_bundles(w, items), a.k = "fs"
               PROVE  a.path.tail \in Seq(STRING)
  BY DEF Written
<1>2. PICK b \in items : a \in IF b.k = "bundle" THEN w.bundles[b.name] ELSE {b}
  BY DEF expand_bundles
<1>3. CASE b.k = "bundle"
  <2>1. b.name \in DOMAIN w.bundles
    BY <1>3 DEF UnknownBundles, Err
  <2>2. Written(w.bundles[b.name])
    BY <2>1 DEF WorldOK
  <2>3. QED
    BY <1>1, <1>2, <1>3, <2>2 DEF Written
<1>4. CASE b.k # "bundle"
  BY <1>1, <1>2, <1>4 DEF Written
<1>5. QED
  BY <1>3, <1>4

\* What a stage without errors grants, asks of its sub-agents and offers.
StageOK(w, st) ==
  /\ Paths(st.grants)
  /\ \E n \in Nat : DOMAIN st.subs = 1 .. n
  /\ st.subs \in Seq(ToSet(st.subs))
  /\ \A i \in DOMAIN st.subs : /\ Paths(st.subs[i].ceiling)
                               /\ st.subs[i].catalog \in CatalogNames(w)
  /\ st.tools \subseteq DOMAIN w.reg.tools
  /\ st.limits.timeout \in Int /\ st.limits.scratch \in Int
  /\ st.exts \in Seq(ToSet(st.exts))

\* A stage without errors is well formed: its paths are sequences, its
\* sub-agents are in the catalog and its tools in the registry.
LEMMA StageIsOK ==
    ASSUME NEW w, WorldOK(w), NEW name \in CatalogNames(w), NEW layers \in {"full", "base"},
           StageErrors(w, name, layers) = {}
    PROVE  StageOK(w, Stage(w, name, layers))
<1> DEFINE t == Table(w, name, layers)
           st == Stage(w, name, layers)
<1>1. Sound(t) /\ AlwaysSet \subseteq DOMAIN t
  BY TableIsSound
<1>2. /\ GrantErrors(w, t) = {} /\ check_registry(w, t) = {} /\ ExpandErrors(w, t) = {}
  BY StageChecked
<1>3. /\ st.grants = {expand_atom(w, a) : a \in expand_grants(w, t)}
      /\ st.tools = t["tools.allow"]
      /\ st.subs = [i \in DOMAIN Subs(t) |->
           [catalog |-> Subs(t)[i].catalog, ceiling |-> ExpandAll(w, Subs(t)[i].caps),
            found |-> is_file(w, Subs(t)[i].definition)]]
      /\ st.limits = [timeout |-> t["sandbox.timeout_s"], scratch |-> t["sandbox.scratch_tmpfs_mb"],
                      env |-> t["sandbox.env_allow"], network |-> t["sandbox.network"]]
      /\ st.exts = [i \in DOMAIN At(t, "extensions.paths", <<>>) |->
                      expand_path(w, t["extensions.paths"][i])]
  BY StageFields
<1>4. \A r \in DOMAIN w.roots : w.roots[r] \in Seq(STRING)
  BY DEF WorldOK
<1> HIDE DEF t, st
<1>5. \A a \in AllAtoms(w, t) : AtomErrors(w, a) = {}
  BY <1>2 DEF ExpandErrors
<1>6. Paths(st.grants)
  <2>1. Written(t["capabilities.grants"])
    BY <1>1 DEF Sound, ValueOK, Keys, AlwaysSet
  <2>2. UnknownBundles(w, t["capabilities.grants"]) = {}
    BY <1>2 DEF GrantErrors
  <2>3. Written(expand_bundles(w, t["capabilities.grants"]))
    BY <2>1, <2>2, BundlesAreWritten
  <2>4. Written(expand_grants(w, t))
    BY <2>3 DEF expand_grants, Written, Tool, Spawn
  <2>5. \A a \in expand_grants(w, t) : AtomErrors(w, a) = {}
    BY <1>5 DEF AllAtoms
  <2>6. Paths({expand_atom(w, a) : a \in expand_grants(w, t)})
    BY <1>4, <2>4, <2>5, ExpandedIsConcrete
  <2>7. QED
    BY <1>3, <2>6
<1>7. IsList(Subs(t)) /\ \A i \in DOMAIN Subs(t) : Written(Subs(t)[i].caps)
  <2>1. CASE Has(t, "subagents")
    <3>1. Subs(t) = t["subagents"] /\ "subagents" \in DOMAIN t
      BY <2>1 DEF Subs, At, Has
    <3>2. QED
      BY <1>1, <3>1 DEF Sound, ValueOK, Keys
  <2>2. CASE ~Has(t, "subagents")
    <3>1. Subs(t) = <<>>
      BY <2>2 DEF Subs, At
    <3>2. QED
      BY <3>1 DEF IsList
  <2>3. QED
    BY <2>1, <2>2
<1>8. PICK n \in Nat : DOMAIN Subs(t) = 1 .. n
  BY <1>7 DEF IsList
<1>9. DOMAIN st.subs = 1 .. n
  BY <1>3, <1>8
<1>10. st.subs \in Seq(ToSet(st.subs))
  <2>1. st.subs \in [1 .. n -> ToSet(st.subs)]
    BY <1>3, <1>9 DEF ToSet
  <2>2. QED
    BY <2>1
<1>11. ASSUME NEW i \in DOMAIN st.subs
       PROVE  Paths(st.subs[i].ceiling) /\ st.subs[i].catalog \in CatalogNames(w)
  <2>1. i \in DOMAIN Subs(t) /\ Subs(t)[i] \in ToSet(Subs(t))
    BY <1>3 DEF ToSet
  <2>2. st.subs[i].catalog = Subs(t)[i].catalog /\ st.subs[i].ceiling = ExpandAll(w, Subs(t)[i].caps)
    BY <1>3, <2>1
  <2>3. Subs(t)[i].catalog \in CatalogNames(w) /\ UnknownBundles(w, Subs(t)[i].caps) = {}
    <3>1. Subs(t)[i].catalog \in CatalogNames(w)
      BY <1>2, <2>1 DEF GrantErrors, Err
    <3>2. Subs(t)[i].caps \in {s.caps : s \in ToSet(Subs(t))}
      BY <2>1
    <3>3. UnknownBundles(w, Subs(t)[i].caps) \subseteq GrantErrors(w, t)
      BY <3>2 DEF GrantErrors
    <3>4. QED
      BY <1>2, <3>1, <3>3
  <2>4. Written(expand_bundles(w, Subs(t)[i].caps))
    BY <1>7, <2>1, <2>3, BundlesAreWritten
  <2>5. \A a \in expand_bundles(w, Subs(t)[i].caps) : AtomErrors(w, a) = {}
    BY <1>5, <2>1 DEF AllAtoms
  <2>6. Paths({expand_atom(w, a) : a \in expand_bundles(w, Subs(t)[i].caps)})
    BY <1>4, <2>4, <2>5, ExpandedIsConcrete
  <2>7. QED
    BY <2>2, <2>3, <2>6 DEF ExpandAll
<1>12. st.tools \subseteq DOMAIN w.reg.tools
  BY <1>2, <1>3 DEF check_registry, Err
<1>13. st.limits.timeout \in Int /\ st.limits.scratch \in Int
  BY <1>1, <1>3 DEF Sound, ValueOK, Keys, AlwaysSet, Numbers
<1>14. st.exts \in Seq(ToSet(st.exts))
  <2> DEFINE list == At(t, "extensions.paths", <<>>)
  <2>1. IsList(list)
    <3>1. CASE Has(t, "extensions.paths")
      BY <1>1, <3>1 DEF Sound, ValueOK, Keys, At, Has
    <3>2. CASE ~Has(t, "extensions.paths")
      BY <3>2 DEF At, IsList
    <3>3. QED
      BY <3>1, <3>2
  <2>2. PICK m \in Nat : DOMAIN list = 1 .. m
    BY <2>1 DEF IsList
  <2>3. st.exts \in [1 .. m -> ToSet(st.exts)]
    BY <1>3, <2>2 DEF ToSet
  <2>4. QED
    BY <2>3
<1>15. QED
  BY <1>6, <1>9, <1>10, <1>11, <1>12, <1>13, <1>14 DEF StageOK, st

-----------------------------------------------------------------------------
(* Policies                                                                *)

\* A policy opens and reaches nothing but what its atoms permit.
LEMMA PolicyPermitsItsAtoms ==
    ASSUME NEW caps, NEW limits, NEW x, PolicyPermits(derive_policy_with(caps, limits), x)
    PROVE  /\ Permits(caps, x) /\ x.k \in {"fs", "host"}
           /\ x.k = "host" => limits.network
<1> DEFINE p == derive_policy_with(caps, limits)
<1>1. CASE x.k = "fs"
  <2>1. PICK m \in Deciding(p, x.path) : ModeLeq(x.mode, m.mode)
    BY <1>1 DEF PolicyPermits
  <2>2. p.mounts = {[path |-> f.path, mode |-> MountMode(caps, f.path)] : f \in OfKind(caps, "fs")}
    BY DEF derive_policy_with
  <2>3. m \in p.mounts /\ IsPrefix(m.path, x.path)
    BY <2>1 DEF Deciding
  <2> HIDE DEF p
  <2>4. PICK f \in OfKind(caps, "fs") : m = [path |-> f.path, mode |-> MountMode(caps, f.path)]
    BY <2>2, <2>3
  <2>5. f \in caps /\ f.k = "fs" /\ m.path = f.path /\ m.mode = MountMode(caps, f.path)
    BY <2>4 DEF OfKind
  <2>6. CASE Fs("rw", f.path) \in caps
    <3>1. AtomPermits(Fs("rw", f.path), x)
      BY <1>1, <2>3, <2>5 DEF AtomPermits, Fs, ModeLeq
    <3>2. QED
      BY <1>1, <2>6, <3>1 DEF Permits
  <2>7. CASE Fs("rw", f.path) \notin caps
    <3>1. x.mode = "ro"
      BY <2>1, <2>5, <2>7 DEF MountMode, ModeLeq
    <3>2. AtomPermits(f, x)
      BY <1>1, <2>3, <2>5, <3>1 DEF AtomPermits, ModeLeq
    <3>3. QED
      BY <1>1, <2>5, <3>2 DEF Permits
  <2>8. QED
    BY <2>6, <2>7
<1>2. CASE x.k # "fs"
  <2> DEFINE nets == OfKind(caps, "net")
  <2>1. p.net = NetOf(caps, limits)
    BY DEF derive_policy_with
  <2>2. /\ x.k = "host" /\ p.net.enabled
        /\ p.net.any \/ \E h \in p.net.hosts : h.name = x.name /\ h.port \in {0, x.port}
    BY <1>2 DEF PolicyPermits
  <2> HIDE DEF p
  <2>3. limits.network /\ nets # {}
    BY <2>1, <2>2 DEF NetOf
  <2>4. p.net = [enabled |-> TRUE, any |-> \E n \in nets : n.any,
                 hosts |-> IF \E n \in nets : n.any THEN {} ELSE UNION {n.hosts : n \in nets}]
    BY <2>1, <2>3 DEF NetOf
  <2> HIDE DEF nets
  <2>5. PICK n \in nets : n.any \/ \E h \in n.hosts : h.name = x.name /\ h.port \in {0, x.port}
    <3>1. CASE \E n \in nets : n.any
      BY <3>1
    <3>2. CASE ~\E n \in nets : n.any
      <4>1. p.net.hosts = UNION {n.hosts : n \in nets} /\ ~p.net.any
        BY <2>4, <3>2
      <4>2. QED
        BY <2>2, <4>1
    <3>3. QED
      BY <3>1, <3>2
  <2>6. n \in caps /\ n.k = "net"
    BY DEF nets, OfKind
  <2>7. AtomPermits(n, x)
    BY <2>2, <2>5, <2>6 DEF AtomPermits
  <2>8. QED
    BY <2>2, <2>3, <2>6, <2>7 DEF Permits
<1>3. QED
  BY <1>1, <1>2

\* With the network switched on it reaches all its atoms permit.
LEMMA PolicyReachesItsHosts ==
    ASSUME NEW caps, NEW limits, NEW x, x.k = "host", limits.network, Permits(caps, x)
    PROVE  PolicyPermits(derive_policy_with(caps, limits), x)
<1> DEFINE p == derive_policy_with(caps, limits)
           nets == OfKind(caps, "net")
<1>1. PICK c \in caps : AtomPermits(c, x)
  BY DEF Permits
<1>2. c.k = "net" /\ (c.any \/ \E h \in c.hosts : h.name = x.name /\ h.port \in {0, x.port})
  BY <1>1 DEF AtomPermits
<1>3. c \in nets
  BY <1>2 DEF OfKind
<1>4. p.net = NetOf(caps, limits)
  BY DEF derive_policy_with
<1>5. p.net = [enabled |-> TRUE, any |-> \E n \in nets : n.any,
               hosts |-> IF \E n \in nets : n.any THEN {} ELSE UNION {n.hosts : n \in nets}]
  BY <1>3, <1>4 DEF NetOf
<1> HIDE DEF nets, p
<1>6. p.net.enabled /\ (p.net.any \/ \E h \in p.net.hosts : h.name = x.name /\ h.port \in {0, x.port})
  <2>1. CASE \E n \in nets : n.any
    BY <1>5, <2>1
  <2>2. CASE ~\E n \in nets : n.any
    <3>1. p.net.hosts = UNION {n.hosts : n \in nets} /\ p.net.enabled
      BY <1>5, <2>2
    <3>2. PICK h \in c.hosts : h.name = x.name /\ h.port \in {0, x.port}
      BY <1>2, <1>3, <2>2
    <3>3. h \in p.net.hosts
      BY <1>3, <3>1, <3>2
    <3>4. QED
      BY <3>1, <3>2, <3>3
  <2>3. QED
    BY <2>1, <2>2
<1>7. QED
  BY <1>6 DEF PolicyPermits, p

\* The envelope is narrower where the grants are, and the limits.
LEMMA EnvelopeNarrows ==
    ASSUME NEW a, NEW b, Paths(a.grants), Paths(b.grants), Within(a.grants, b.grants),
           a.limits.network => b.limits.network,
           NEW x \in Accesses, x.k = "host", PolicyPermits(Envelope(a), x)
    PROVE  PolicyPermits(Envelope(b), x)
<1>1. Permits(envelope_caps(a.grants), x) /\ a.limits.network
  BY PolicyPermitsItsAtoms DEF Envelope
<1>2. Permits(b.grants, x)
  <2>1. Permits(a.grants, x)
    BY <1>1 DEF Permits, envelope_caps
  <2>2. QED
    BY <2>1, WithinPermitsLess
<1>3. Permits(envelope_caps(b.grants), x)
  BY <1>2 DEF Permits, envelope_caps, AtomPermits
<1>4. QED
  BY <1>1, <1>3, PolicyReachesItsHosts DEF Envelope

\* Clamping a timeout keeps the order.
LEMMA ClampIsMonotone ==
    ASSUME NEW s \in Int, NEW t \in Int, s <= t
    PROVE  Clamp(s) <= Clamp(t)
BY TimeoutAssumption DEF Clamp

\* What it means that a policy derives.
LEMMA NoPolicyErrors ==
    ASSUME NEW caps, NEW grants, NEW limits
    PROVE  PolicyErrors(caps, grants, limits) = {} <=>
             /\ OfKind(caps, "secret") = {}
             /\ Within(caps, grants)
             /\ ~\E n \in limits.env : env_name_is_secret_like(n)
BY DEF PolicyErrors, Within

-----------------------------------------------------------------------------
(* The project file                                                        *)

\* The grants are made of three keys.
LEMMA GrantsOfEqualTables ==
    ASSUME NEW w, NEW s, NEW t,
           \A k \in AlwaysSet \cup Keys :
             /\ k \in DOMAIN s <=> k \in DOMAIN t
             /\ k \in DOMAIN s => s[k] = t[k],
           AlwaysSet \subseteq DOMAIN s
    PROVE  expand_grants(w, s) = expand_grants(w, t)
<1>1. s["capabilities.grants"] = t["capabilities.grants"] /\ s["tools.allow"] = t["tools.allow"]
  BY DEF AlwaysSet
<1>2. Subs(s) = Subs(t)
  <2>1. "subagents" \in Keys
    BY DEF Keys
  <2>2. QED
    BY <2>1 DEF Subs, At, Has
<1>3. QED
  BY <1>1, <1>2 DEF expand_grants

\* Without a project file the overrides change no grant, no limit and not
\* the backend.
LEMMA SameWithoutProject ==
    ASSUME NEW w, WorldOK(w), NEW name \in CatalogNames(w), w.project = NoFile,
           StageErrors(w, name, "full") = {}
    PROVE  LET full_ == Stage(w, name, "full") base == Stage(w, name, "base") IN
           /\ full_.grants = base.grants /\ full_.limits = base.limits
           /\ full_.backend = base.backend
<1> DEFINE t == Table(w, name, "full")
           b == Table(w, name, "base")
<1>1. t = merge_tables(b, w.overrides)
  BY DEF Table, MergedTable, UsesProject
<1>2. DOMAIN w.overrides \cap (Keys \cup AlwaysSet) = {}
  BY StageChecked, OverridesSetNoKey DEF MergeErrors
<1>3. AlwaysSet \subseteq DOMAIN t
  BY TableIsSound
<1> HIDE DEF t, b
<1>4. \A k \in AlwaysSet \cup Keys :
         /\ k \in DOMAIN t <=> k \in DOMAIN b
         /\ k \in DOMAIN t => t[k] = b[k]
  BY <1>1, <1>2 DEF merge_tables
<1>5. expand_grants(w, t) = expand_grants(w, b)
  BY <1>3, <1>4, GrantsOfEqualTables
<1>6. \A k \in AlwaysSet : t[k] = b[k]
  BY <1>3, <1>4
<1>7. /\ t["sandbox.timeout_s"] = b["sandbox.timeout_s"]
      /\ t["sandbox.scratch_tmpfs_mb"] = b["sandbox.scratch_tmpfs_mb"]
      /\ t["sandbox.env_allow"] = b["sandbox.env_allow"]
      /\ t["sandbox.network"] = b["sandbox.network"]
      /\ t["sandbox.backend"] = b["sandbox.backend"]
  BY <1>6 DEF AlwaysSet, Numbers
<1>8. ASSUME NEW layers
      PROVE  LET u == Table(w, name, layers) st == Stage(w, name, layers) IN
             /\ st.grants = {expand_atom(w, a) : a \in expand_grants(w, u)}
             /\ st.limits = [timeout |-> u["sandbox.timeout_s"], scratch |-> u["sandbox.scratch_tmpfs_mb"],
                             env |-> u["sandbox.env_allow"], network |-> u["sandbox.network"]]
             /\ st.backend = u["sandbox.backend"]
  BY DEF Stage, StageOf, Table
<1>9. Stage(w, name, "full").grants = Stage(w, name, "base").grants
  <2>1. Stage(w, name, "full").grants = {expand_atom(w, a) : a \in expand_grants(w, t)}
    BY <1>8 DEF t
  <2>2. Stage(w, name, "base").grants = {expand_atom(w, a) : a \in expand_grants(w, b)}
    BY <1>8 DEF b
  <2>3. QED
    BY <1>5, <2>1, <2>2
<1>10. /\ Stage(w, name, "full").limits = Stage(w, name, "base").limits
       /\ Stage(w, name, "full").backend = Stage(w, name, "base").backend
  BY <1>7, <1>8 DEF t, b
<1>11. QED
  BY <1>9, <1>10

\* The backend is not for a project file to choose.
LEMMA ProjectKeepsBackend ==
    ASSUME NEW w, WorldOK(w), NEW name \in CatalogNames(w), w.project # NoFile,
           StageErrors(w, name, "full") = {}
    PROVE  Stage(w, name, "full").backend = Stage(w, name, "base").backend
<1> DEFINE t == Table(w, name, "full")
           b == Table(w, name, "base")
           p == Located(w.project.vals, "project")
           k == "sandbox.backend"
<1>1. t = merge_tables(merge_tables(b, p), w.overrides)
  BY DEF Table, MergedTable, UsesProject
<1>2. k \notin DOMAIN w.overrides
  BY StageChecked, OverridesSetNoKey DEF MergeErrors, AlwaysSet
<1>3. k \notin DOMAIN p
  <2>1. validate_file(w.project, "project") = {}
    BY StageChecked DEF LayerErrors, UsesProject
  <2>2. check_project_forbidden(w.project.vals) = {}
    BY <2>1 DEF validate_file
  <2>3. k \in ProjectForbidden
    BY DEF ProjectForbidden, FixedByAgent
  <2>4. DOMAIN p = DOMAIN w.project.vals
    BY DEF Located
  <2>5. QED
    BY <2>2, <2>3, <2>4 DEF check_project_forbidden, Err
<1>4. k \in DOMAIN t
  BY TableIsSound DEF AlwaysSet
<1>5. t[k] = b[k]
  BY <1>1, <1>2, <1>3, <1>4 DEF merge_tables
<1>6. ASSUME NEW layers
      PROVE  Stage(w, name, layers).backend = Table(w, name, layers)[k]
  BY DEF Stage, StageOf, Table
<1>7. QED
  BY <1>5, <1>6

\* check_project_narrowing compares what matters of the two stages.
LEMMA NarrowingChecked ==
    ASSUME NEW a, NEW b, check_project_narrowing(a, b) = {},
           a.limits.timeout \in Int, b.limits.timeout \in Int,
           a.limits.scratch \in Int, b.limits.scratch \in Int
    PROVE  /\ Within(a.grants, b.grants)
           /\ a.limits.timeout <= b.limits.timeout /\ a.limits.scratch <= b.limits.scratch
           /\ a.limits.env \subseteq b.limits.env
           /\ a.limits.network => b.limits.network
BY DEF check_project_narrowing, Err, Within

\* What ProjectOnlyNarrows says of two stages.
Narrowed(a, b) ==
  /\ \A x \in Accesses : Permits(a.grants, x) => Permits(b.grants, x)
  /\ LET p == Envelope(a) q == Envelope(b)
     IN  /\ p.timeout <= q.timeout /\ p.scratch <= q.scratch /\ p.env \subseteq q.env
         /\ \A x \in Accesses : x.k = "host" /\ PolicyPermits(p, x) => PolicyPermits(q, x)
  /\ a.backend = b.backend

\* A stage with narrower grants and limits is narrowed.
LEMMA NarrowerStage ==
    ASSUME NEW a, NEW b, Paths(a.grants), Paths(b.grants), Within(a.grants, b.grants),
           a.limits.timeout \in Int, b.limits.timeout \in Int,
           a.limits.scratch \in Int, b.limits.scratch \in Int,
           a.limits.timeout <= b.limits.timeout, a.limits.scratch <= b.limits.scratch,
           a.limits.env \subseteq b.limits.env,
           a.limits.network => b.limits.network,
           a.backend = b.backend
    PROVE  Narrowed(a, b)
<1>1. \A x \in Accesses : Permits(a.grants, x) => Permits(b.grants, x)
  BY WithinPermitsLess
<1>2. /\ Envelope(a).timeout = Clamp(a.limits.timeout)
      /\ Envelope(b).timeout = Clamp(b.limits.timeout)
      /\ Envelope(a).scratch = IF a.limits.scratch < 1 THEN 1 ELSE a.limits.scratch
      /\ Envelope(b).scratch = IF b.limits.scratch < 1 THEN 1 ELSE b.limits.scratch
      /\ Envelope(a).env = a.limits.env /\ Envelope(b).env = b.limits.env
  BY DEF Envelope, derive_policy_with
<1>3. Envelope(a).timeout <= Envelope(b).timeout
  BY <1>2, ClampIsMonotone
<1>4. Envelope(a).scratch <= Envelope(b).scratch
  BY <1>2
<1>5. \A x \in Accesses : x.k = "host" /\ PolicyPermits(Envelope(a), x) => PolicyPermits(Envelope(b), x)
  BY EnvelopeNarrows
<1>6. QED
  BY <1>1, <1>2, <1>3, <1>4, <1>5 DEF Narrowed

-----------------------------------------------------------------------------
(* The launch                                                              *)

\* The tools that the kernel is created with.
SessionTools(st) == compiled_tools(st) \cup ext_tools(st)

\* What assembly and the registry rely on: the profile was accepted.
Launchable(st) ==
  /\ StageOK(world, st)
  /\ narrowing_checks(world, st) = {}
  /\ PolicyErrors(envelope_caps(st.grants), st.grants, st.limits) = {}

\* The atoms of a manifest that is accepted have concrete paths.
LEMMA ManifestIsConcrete ==
    ASSUME WorldOK(world), NEW dir, ManifestErrors(dir) = {}
    PROVE  Paths(manifest_caps(dir))
<1> DEFINE w == ManifestWorld(dir)
           caps == world.exts[dir].caps
<1>1. dir \in DOMAIN world.exts
  BY DEF ManifestErrors
<1>2. dir \in Seq(STRING) /\ Written(caps)
  BY <1>1 DEF WorldOK, BuildOK
<1>3. UNION {AtomErrors(w, c) : c \in caps} = {}
  BY <1>1 DEF ManifestErrors, Err
<1>4. \A r \in DOMAIN w.roots : w.roots[r] \in Seq(STRING)
  BY <1>2 DEF ManifestWorld, WorldOK
<1>5. manifest_caps(dir) = {expand_atom(w, c) : c \in caps} \cup {Fs("ro", dir)}
  BY DEF manifest_caps
<1> HIDE DEF w, caps
<1>6. Paths({expand_atom(w, c) : c \in caps})
  BY <1>2, <1>3, <1>4, ExpandedIsConcrete
<1>7. Paths({Fs("ro", dir)})
  BY <1>2 DEF Paths, Fs, IsSequence
<1>8. QED
  BY <1>5, <1>6, <1>7 DEF Paths

\* The loader has admitted every directory, and no two of one name.
LEMMA LoadedDirectories ==
    ASSUME NEW st, LoadErrors(st) = {}, IsList(st.exts)
    PROVE  /\ \A i \in DOMAIN st.exts : ManifestErrors(st.exts[i]) = {} /\ admit(st.exts[i], st) = {}
           /\ \A d, e \in ToSet(st.exts) : d # e => world.exts[d].name # world.exts[e].name
<1> DEFINE bad == UNION {ManifestErrors(st.exts[i]) : i \in DOMAIN st.exts}
           refused == UNION {admit(st.exts[i], st) : i \in DOMAIN st.exts}
           twice == \E i, j \in DOMAIN st.exts :
                      i < j /\ world.exts[st.exts[i]].name = world.exts[st.exts[j]].name
<1>1. LoadErrors(st) = IF bad # {} THEN bad ELSE Err(twice, "DuplicateManifest") \cup refused
  BY DEF LoadErrors
<1> HIDE DEF bad, refused, twice
<1>2. bad = {} /\ refused = {} /\ ~twice
  BY <1>1 DEF Err
<1>3. \A i \in DOMAIN st.exts : ManifestErrors(st.exts[i]) = {} /\ admit(st.exts[i], st) = {}
  BY <1>2 DEF bad, refused
<1>4. ASSUME NEW d \in ToSet(st.exts), NEW e \in ToSet(st.exts), d # e
      PROVE  world.exts[d].name # world.exts[e].name
  <2>1. PICK i \in DOMAIN st.exts : d = st.exts[i]
    BY DEF ToSet
  <2>2. PICK j \in DOMAIN st.exts : e = st.exts[j]
    BY DEF ToSet
  <2>3. i \in Nat /\ j \in Nat /\ i # j
    BY <1>4, <2>1, <2>2 DEF IsList
  <2>4. i < j \/ j < i
    BY <2>3
  <2>5. QED
    BY <1>2, <2>1, <2>2, <2>4 DEF twice
<1>5. QED
  BY <1>3, <1>4

\* A tool of an extension belongs to a directory that was loaded.
LEMMA ExtensionTools ==
    ASSUME NEW st, NEW t \in ext_tools(st)
    PROVE  \E d \in ToSet(st.exts) :
             /\ t.name \in ToSet(world.exts[d].tools)
             /\ t = [name |-> t.name, caps |-> manifest_caps(d),
                     kind |-> world.exts[d].kind, command |-> TRUE]
<1>1. PICK d \in ToSet(st.exts) :
        t \in {[name |-> world.exts[d].tools[i], caps |-> manifest_caps(d),
                kind |-> world.exts[d].kind, command |-> TRUE] : i \in DOMAIN world.exts[d].tools}
  BY DEF ext_tools
<1>2. PICK i \in DOMAIN world.exts[d].tools :
        t = [name |-> world.exts[d].tools[i], caps |-> manifest_caps(d),
             kind |-> world.exts[d].kind, command |-> TRUE]
  BY <1>1
<1>3. t.name = world.exts[d].tools[i] /\ t.name \in ToSet(world.exts[d].tools)
  BY <1>2 DEF ToSet
<1>4. QED
  BY <1>2, <1>3

\* A compiled tool is one of the registry that the profile allows.
LEMMA CompiledTools ==
    ASSUME NEW st, NEW t \in compiled_tools(st)
    PROVE  /\ t.name \in st.tools
           /\ t = [name |-> t.name, caps |-> world.reg.tools[t.name].caps,
                   kind |-> world.reg.tools[t.name].kind,
                   command |-> world.reg.tools[t.name].kind = "session"]
<1>1. PICK n \in st.tools :
        t = [name |-> n, caps |-> world.reg.tools[n].caps, kind |-> world.reg.tools[n].kind,
             command |-> world.reg.tools[n].kind = "session"]
  BY DEF compiled_tools
<1>2. t.name = n
  BY <1>1
<1>3. QED
  BY <1>1, <1>2

\* Every tool asks for atoms the stage covers, and for no secret.
LEMMA ToolIsCovered ==
    ASSUME WorldOK(world), NEW st, Launchable(st), LoadErrors(st) = {}, NEW t \in SessionTools(st)
    PROVE  /\ Paths(t.caps)
           /\ PolicyErrors(t.caps, st.grants, st.limits) = {}
           /\ t.kind = "session" => t.command
<1>1. CASE t \in compiled_tools(st)
  <2>1. /\ t.name \in st.tools /\ t.caps = world.reg.tools[t.name].caps
        /\ t.kind = world.reg.tools[t.name].kind
        /\ t.command = (world.reg.tools[t.name].kind = "session")
    BY <1>1, CompiledTools
  <2>2. t.name \in DOMAIN world.reg.tools
    BY <2>1 DEF Launchable, StageOK
  <2>3. Concrete(t.caps) /\ OfKind(t.caps, "secret") = {}
    BY <2>1, <2>2 DEF WorldOK, BuildOK
  <2>4. Within(t.caps, st.grants)
    <3>1. UNION {Exceeds(world.reg.tools[n].caps, st.grants) : n \in st.tools} = {}
      BY DEF Launchable, narrowing_checks
    <3>2. Exceeds(t.caps, st.grants) = {}
      BY <2>1, <3>1
    <3>3. QED
      BY <3>2, NothingExceeds
  <2>5. ~\E n \in st.limits.env : env_name_is_secret_like(n)
    BY NoPolicyErrors DEF Launchable
  <2>6. PolicyErrors(t.caps, st.grants, st.limits) = {}
    BY <2>3, <2>4, <2>5, NoPolicyErrors
  <2>7. Paths(t.caps)
    BY <2>3 DEF Concrete, Paths, IsSequence
  <2>8. QED
    BY <2>1, <2>6, <2>7
<1>2. CASE t \in ext_tools(st)
  <2>1. PICK d \in ToSet(st.exts) : t = [name |-> t.name, caps |-> manifest_caps(d),
                                         kind |-> world.exts[d].kind, command |-> TRUE]
    BY <1>2, ExtensionTools
  <2>2. ManifestErrors(d) = {} /\ admit(d, st) = {}
    BY LoadedDirectories DEF Launchable, StageOK, IsList, ToSet
  <2>3. t.caps = manifest_caps(d) /\ t.command
    BY <2>1
  <2>4. QED
    BY <2>2, <2>3, ManifestIsConcrete DEF admit
<1>3. QED
  BY <1>1, <1>2 DEF SessionTools

\* No two tools of a session have the same name.
LEMMA ToolNamesDiffer ==
    ASSUME WorldOK(world), NEW st, Launchable(st), LoadErrors(st) = {},
           NEW t \in SessionTools(st), NEW u \in SessionTools(st), t.name = u.name
    PROVE  t = u
<1>1. /\ \A d, e \in ToSet(st.exts) : d # e => world.exts[d].name # world.exts[e].name
      /\ \A d \in ToSet(st.exts) : d \in DOMAIN world.exts
  <2>1. /\ \A d, e \in ToSet(st.exts) : d # e => world.exts[d].name # world.exts[e].name
        /\ \A i \in DOMAIN st.exts : ManifestErrors(st.exts[i]) = {}
    BY LoadedDirectories DEF Launchable, StageOK, IsList
  <2>2. \A dir : ManifestErrors(dir) = {} => dir \in DOMAIN world.exts
    BY DEF ManifestErrors
  <2>3. QED
    BY <2>1, <2>2 DEF ToSet
<1>2. \A d \in DOMAIN world.exts :
        /\ ToSet(world.exts[d].tools) \cap DOMAIN world.reg.tools = {}
        /\ \A e \in DOMAIN world.exts :
             ToSet(world.exts[d].tools) \cap ToSet(world.exts[e].tools) # {}
               => world.exts[d].name = world.exts[e].name
  BY DEF WorldOK, BuildOK
<1>3. st.tools \subseteq DOMAIN world.reg.tools
  BY DEF Launchable, StageOK
<1>4. CASE t \in compiled_tools(st) /\ u \in compiled_tools(st)
  BY <1>4, CompiledTools
<1>5. CASE t \in ext_tools(st) /\ u \in ext_tools(st)
  <2>1. PICK d \in ToSet(st.exts) :
           /\ t.name \in ToSet(world.exts[d].tools)
           /\ t = [name |-> t.name, caps |-> manifest_caps(d),
                   kind |-> world.exts[d].kind, command |-> TRUE]
    BY <1>5, ExtensionTools
  <2>2. PICK e \in ToSet(st.exts) :
           /\ u.name \in ToSet(world.exts[e].tools)
           /\ u = [name |-> u.name, caps |-> manifest_caps(e),
                   kind |-> world.exts[e].kind, command |-> TRUE]
    BY <1>5, ExtensionTools
  <2>3. t.name \in ToSet(world.exts[d].tools) \cap ToSet(world.exts[e].tools)
    BY <2>1, <2>2
  <2>4. d = e
    BY <1>1, <1>2, <2>3
  <2>5. QED
    BY <2>1, <2>2, <2>4
<1>6. ASSUME NEW a \in compiled_tools(st), NEW b \in ext_tools(st)
      PROVE  a.name # b.name
  <2>1. a.name \in DOMAIN world.reg.tools
    BY <1>3, CompiledTools
  <2>2. PICK d \in ToSet(st.exts) : b.name \in ToSet(world.exts[d].tools)
    BY ExtensionTools
  <2>3. QED
    BY <1>1, <1>2, <2>1, <2>2
<1>7. QED
  BY <1>4, <1>5, <1>6 DEF SessionTools

\* More grants cover no less.
LEMMA WithinMoreGrants ==
    ASSUME NEW A, NEW B, NEW C, Within(A, B), B \subseteq C
    PROVE  Within(A, C)
BY DEF Within, covered_by

\* What resolve.rs and the loader accepted, the registry does not refuse.
LEMMA RegistryAccepts ==
    ASSUME WorldOK(world), NEW st, Launchable(st), LoadErrors(st) = {},
           NEW k, k.tools = SessionTools(st), k.grants = session_grants(st)
    PROVE  RegistryErrors(k, st.limits) = {}
<1>1. ~\E t, u \in k.tools : t # u /\ t.name = u.name
  BY ToolNamesDiffer
<1>2. st.grants \subseteq k.grants
  BY DEF session_grants
<1>3. ASSUME NEW t \in k.tools
      PROVE  PolicyErrors(t.caps, k.grants, st.limits) = {}
  <2>1. PolicyErrors(t.caps, st.grants, st.limits) = {}
    BY ToolIsCovered
  <2>2. QED
    BY <1>2, <2>1, NoPolicyErrors, WithinMoreGrants
<1>4. ~\E t \in k.tools : t.kind = "session" /\ ~t.command
  BY ToolIsCovered
<1>5. PolicyErrors(envelope_caps(k.grants), k.grants, st.limits) = {}
  <2>1. /\ Within(envelope_caps(st.grants), st.grants)
        /\ ~\E n \in st.limits.env : env_name_is_secret_like(n)
    BY NoPolicyErrors DEF Launchable
  <2>2. OfKind(envelope_caps(k.grants), "secret") = {}
    BY DEF OfKind, envelope_caps
  <2>3. ASSUME NEW c \in envelope_caps(k.grants)
        PROVE  covered_by(c, k.grants)
    <3>1. CASE c \in st.grants
      <4>1. c \in envelope_caps(st.grants)
        BY <3>1 DEF envelope_caps
      <4>2. QED
        BY <1>2, <2>1, <4>1 DEF Within, covered_by
    <3>2. CASE c \notin st.grants
      <4>1. c \in k.grants /\ c.k = "tool"
        BY <3>2 DEF envelope_caps, session_grants, Tool
      <4>2. narrower_than(c, c)
        BY <4>1 DEF narrower_than
      <4>3. QED
        BY <4>1, <4>2 DEF covered_by
    <3>3. QED
      BY <3>1, <3>2
  <2>4. QED
    BY <2>1, <2>2, <2>3, NoPolicyErrors DEF Within
<1>6. QED
  BY <1>1, <1>3, <1>4, <1>5 DEF RegistryErrors, Err

\* A tool's policy permits nothing that the session was not granted.
LEMMA ToolWithinGrants ==
    ASSUME WorldOK(world), NEW st, Launchable(st), LoadErrors(st) = {}, NEW t \in SessionTools(st),
           NEW x \in Accesses, PolicyPermits(derive_policy_with(t.caps, st.limits), x)
    PROVE  Permits(st.grants, x) /\ (x.k = "host" => st.limits.network)
<1>1. Permits(t.caps, x) /\ (x.k = "host" => st.limits.network)
  BY PolicyPermitsItsAtoms
<1>2. Paths(t.caps) /\ Within(t.caps, st.grants)
  BY ToolIsCovered, NoPolicyErrors
<1>3. QED
  BY <1>1, <1>2, WithinPermitsLess DEF Launchable, StageOK

-----------------------------------------------------------------------------
(* The walk                                                                *)

\* Only the outermost call of the full resolution uses the project file.
LayersAt(i) == IF i = 1 /\ phase = "full" THEN "full" ELSE "base"

FrameOK(w, f, layers) ==
  /\ f = [name |-> f.name, layers |-> f.layers, st |-> f.st, next |-> f.next, errs |-> f.errs]
  /\ f.name \in CatalogNames(w) /\ f.layers = layers
  /\ StageErrors(w, f.name, layers) = {} /\ f.st = Stage(w, f.name, layers)
  /\ f.next \in 1 .. Len(f.st.subs) + 1

\* The frame f has called resolve_entry of the frame g, for a sub-agent whose
\* ceiling it had looked at.
Calls(f, g) ==
  /\ f.next \in DOMAIN f.st.subs
  /\ g.name = f.st.subs[f.next].catalog
  /\ Within(f.st.subs[f.next].ceiling, f.st.grants)

\* The active calls: each of them has called the next.
Stacked ==
  /\ IsList(stack)
  /\ phase \in {"full", "base"} <=> stack # <<>>
  /\ \A i \in DOMAIN stack : FrameOK(world, stack[i], LayersAt(i))
  /\ stack # <<>> => stack[1].name = Root
  /\ \A i \in DOMAIN stack : i > 1 => Calls(stack[i - 1], stack[i])

\* An entry in progress has its frame, and the other way round.
Memoised ==
  /\ DOMAIN memo \subseteq CatalogNames(world)
  /\ \A n \in DOMAIN memo :
       \/ memo[n] = InProgress /\ \E i \in DOMAIN stack : i > 1 /\ stack[i].name = n
       \/ /\ memo[n].state = "Done"
          /\ memo[n].errs = {} => /\ StageErrors(world, n, "base") = {}
                                  /\ memo[n].grants = Stage(world, n, "base").grants
  /\ \A i \in DOMAIN stack : i > 1 => stack[i].name \in DOMAIN memo /\ memo[stack[i].name] = InProgress
  /\ \A i, j \in DOMAIN stack : i > 1 /\ j > 1 /\ stack[i].name = stack[j].name => i = j

\* What the full resolution was found to be, and what was accepted.
FullKnown ==
  /\ Root \in CatalogNames(world) /\ StageErrors(world, Root, "full") = {}
  /\ full.st = Stage(world, Root, "full")
  /\ narrowing_checks(world, full.st) \subseteq full.errs

\* What was accepted has no errors, and is not wider than its base.
Approved ==
  /\ full.errs = {}
  /\ PolicyErrors(envelope_caps(full.st.grants), full.st.grants, full.st.limits) = {}
  /\ world.project # NoFile => /\ StageErrors(world, Root, "base") = {}
                               /\ check_project_narrowing(full.st, Stage(world, Root, "base")) = {}

Judged ==
  /\ phase \notin {"start", "full", "refused"} => FullKnown
  /\ phase = "base" => world.project # NoFile
  /\ phase \in {"resolved", "assembled", "launched", "failed"} => Approved

\* What was loaded, and what the kernel was built from.
Built ==
  /\ phase \in {"assembled", "launched"} => LoadErrors(full.st) = {}
  /\ phase = "assembled" => /\ kernel.tools = SessionTools(full.st)
                            /\ kernel.grants = session_grants(full.st)
  /\ phase = "launched" =>
       \A t \in kernel.tools : \E u \in SessionTools(full.st) :
         t.policy = derive_policy_with(u.caps, full.st.limits)
  /\ AcceptedPolicyDerives

\* The inductive invariant of a resolution and its launch.
Inv == WorldOK(world) /\ Stacked /\ Memoised /\ Judged /\ Built

\* An agent that can bring itself to life again.
OnCycle(n) == n \in SpawnedBy(Graph, Called(Graph[n].subs))

\* The child holds no more than its ceiling, unless it is part of a cycle:
\* then it may have been looked at while it was in progress.
EdgeOK(s) == Within(Graph[s.catalog].grants, s.ceiling) \/ OnCycle(s.catalog)

\* Sub-agents that are in the memo and were found to be in order.
Known(subs) == \A s \in subs : s.catalog \in DOMAIN memo /\ EdgeOK(s)

\* The sub-agents that a call has looked at.
LookedAtBy(f) == {f.st.subs[k] : k \in 1 .. f.next - 1}

\* An agent that is done holds no more than some call that is still active,
\* or an error is on its way to the root.
Covered(n) ==
  \/ \E i \in DOMAIN stack : stack[i].errs # {}
  \/ /\ memo[n].errs = {} /\ Known(Graph[n].subs)
     /\ \E i \in DOMAIN stack : Within(Graph[n].grants, stack[i].st.grants)

\* While the walk goes on: a call that has found no error knows the
\* sub-agents it has looked at, and an agent that is done is covered.
Walking ==
  phase = "full" =>
    /\ \A i \in DOMAIN stack : stack[i].errs = {} => Known(LookedAtBy(stack[i]))
    /\ \A n \in DOMAIN memo : memo[n].state = "Done" => Covered(n)

\* A call is below those that led to it: it is in every set of agents that
\* holds the sub-agents of one of them and is closed.
Descended ==
  \A i, j \in DOMAIN stack : i < j =>
    \A M \in SUBSET CatalogNames(world) :
      Closed(Graph, M) /\ Called(ToSet(stack[i].st.subs)) \subseteq M => stack[j].name \in M

\* When it is over: the agents that were looked at are all there are.
Walked ==
  phase \notin {"start", "full", "refused"} /\ full.errs = {} =>
    \E M \in SUBSET CatalogNames(world) :
      /\ Called(ToSet(full.st.subs)) \subseteq M /\ Closed(Graph, M)
      /\ \A s \in ToSet(full.st.subs) : EdgeOK(s)
      /\ \A n \in M : /\ \A s \in Graph[n].subs : EdgeOK(s)
                      /\ Within(Graph[n].grants, full.st.grants)

\* The inductive invariant of the walk, on top of Inv.
WalkInv == (phase = "start" => memo = <<>>) /\ Walking /\ Descended /\ Walked

-----------------------------------------------------------------------------
(* What a step does to the stack                                           *)

\* The stack s has the calls of stack up to m - 1, then the call f.
Went(s, m, f) ==
  /\ IsList(s) /\ Len(s) = m /\ DOMAIN s = 1 .. m /\ s[m] = f
  /\ \A i \in 1 .. m - 1 : s[i] = stack[i]

\* The call f is the call g after it has looked at one more sub-agent.
Onward(f, g) ==
  /\ f = [name |-> g.name, layers |-> g.layers, st |-> g.st, next |-> g.next + 1, errs |-> f.errs]
  /\ g.errs \subseteq f.errs

\* A record with the fields of a call.
IsFrame(f) ==
  f = [name |-> f.name, layers |-> f.layers, st |-> f.st, next |-> f.next, errs |-> f.errs]

\* A sequence is a list of its own members.
LEMMA SequenceIsList ==
    ASSUME NEW S, NEW s \in Seq(S)
    PROVE  IsList(s)
<1>1. s = [i \in 1 .. Len(s) |-> s[i]] /\ Len(s) \in Nat /\ DOMAIN s = 1 .. Len(s)
  OBVIOUS
<1>2. \A i \in 1 .. Len(s) : s[i] \in ToSet(s)
  BY <1>1 DEF ToSet
<1>3. QED
  BY <1>1, <1>2 DEF IsList

\* The length and the domain of a list.
LEMMA ListFacts ==
    ASSUME NEW s, IsList(s)
    PROVE  /\ Len(s) \in Nat /\ DOMAIN s = 1 .. Len(s)
           /\ s # <<>> <=> Len(s) > 0
BY DEF IsList

\* The three ways in which a step changes the stack: the innermost call is
\* replaced, a call is added, or the innermost call returns to its caller.
LEMMA StackMoves ==
    ASSUME IsList(stack), stack # <<>>, NEW f
    PROVE  /\ Went(OnTop(f), Len(stack), f)
           /\ Went(Append(stack, f), Len(stack) + 1, f)
           /\ Len(stack) > 1 =>
                Went(Append(SubSeq(stack, 1, Len(stack) - 2), f), Len(stack) - 1, f)
<1> DEFINE S == ToSet(stack) \cup {f}
           n == Len(stack)
<1>1. stack \in Seq(S) /\ n \in Nat /\ n > 0 /\ f \in S
  BY ListFacts DEF IsList
<1> HIDE DEF S
<1>2. ASSUME NEW k \in 0 .. n
      PROVE  LET s == Append(SubSeq(stack, 1, k), f) IN
             /\ s \in Seq(S) /\ Len(s) = k + 1 /\ DOMAIN s = 1 .. k + 1 /\ s[k + 1] = f
             /\ \A i \in 1 .. k : s[i] = stack[i]
  <2> DEFINE p == SubSeq(stack, 1, k)
  <2>1. p \in Seq(S) /\ Len(p) = k /\ \A i \in 1 .. k : p[i] = stack[i]
    BY <1>1
  <2> HIDE DEF p
  <2>2. QED
    BY <1>1, <2>1 DEF p
<1>3. ASSUME NEW k \in 0 .. n
      PROVE  Went(Append(SubSeq(stack, 1, k), f), k + 1, f)
  <2> DEFINE s == Append(SubSeq(stack, 1, k), f)
  <2>1. /\ s \in Seq(S) /\ Len(s) = k + 1 /\ DOMAIN s = 1 .. k + 1 /\ s[k + 1] = f
        /\ \A i \in 1 .. k : s[i] = stack[i]
    BY <1>2
  <2> HIDE DEF s
  <2>2. IsList(s)
    BY <2>1, SequenceIsList
  <2>3. Went(s, k + 1, f)
    BY <2>1, <2>2 DEF Went
  <2>4. QED
    BY <2>3 DEF s
<1>4. Went(OnTop(f), n, f)
  BY <1>1, <1>3 DEF OnTop, Pop
<1>5. Went(Append(stack, f), n + 1, f)
  <2>1. SubSeq(stack, 1, n) = stack
    BY <1>1
  <2>2. Went(Append(SubSeq(stack, 1, n), f), n + 1, f)
    BY <1>1, <1>3
  <2>3. QED
    BY <2>1, <2>2
<1>6. n > 1 => Went(Append(SubSeq(stack, 1, n - 2), f), n - 1, f)
  BY <1>1, <1>3
<1>7. QED
  BY <1>4, <1>5, <1>6

\* The caller knows of a child that it has no errors and stays below its
\* ceiling, or an error.
LEMMA WhatIsLearnt ==
    ASSUME NEW g, IsFrame(g), NEW sub, NEW child
    PROVE  LET f == Learn(g, sub, child) IN
           /\ Onward(f, g)
           /\ f.errs = {} => child.errs = {} /\ Within(child.grants, sub.ceiling)
<1> DEFINE e == g.errs \cup (IF sub.found THEN {} ELSE {"E_FILE_NOT_FOUND"})
                       \cup (IF child.errs # {} THEN child.errs
                             ELSE Exceeds(child.grants, sub.ceiling))
           h == [name |-> g.name, layers |-> g.layers, st |-> g.st, next |-> g.next + 1, errs |-> e]
<1>1. Learn(g, sub, child) = [g EXCEPT !.next = @ + 1, !.errs = e]
  BY DEF Learn
<1> HIDE DEF e
<1>2. Learn(g, sub, child) = h
  BY <1>1 DEF IsFrame
<1>3. g.errs \subseteq e
  BY DEF e
<1>4. e = {} => child.errs = {} /\ Exceeds(child.grants, sub.ceiling) = {}
  BY DEF e
<1>5. QED
  BY <1>2, <1>3, <1>4, NothingExceeds DEF Onward

\* What Remember does to the memo.
LEMMA Remembered ==
    ASSUME NEW name, NEW entry, Remember(name, entry)
    PROVE  /\ DOMAIN memo' = DOMAIN memo \cup {name} /\ memo'[name] = entry
           /\ \A n \in DOMAIN memo : n # name => memo'[n] = memo[n]
BY DEF Remember

\* Every active call works on a stage without errors.
LEMMA FrameStage ==
    ASSUME WorldOK(world), Stacked, NEW i \in DOMAIN stack
    PROVE  /\ FrameOK(world, stack[i], LayersAt(i)) /\ IsFrame(stack[i])
           /\ StageOK(world, stack[i].st) /\ Paths(stack[i].st.grants)
           /\ DOMAIN stack[i].st.subs = 1 .. Len(stack[i].st.subs)
           /\ Len(stack[i].st.subs) \in Nat /\ stack[i].next \in Nat
<1>1. FrameOK(world, stack[i], LayersAt(i))
  BY DEF Stacked
<1>2. IsFrame(stack[i])
  BY <1>1 DEF FrameOK, IsFrame
<1>3. StageOK(world, stack[i].st)
  BY <1>1, StageIsOK DEF FrameOK, LayersAt
<1>4. /\ DOMAIN stack[i].st.subs = 1 .. Len(stack[i].st.subs)
      /\ Len(stack[i].st.subs) \in Nat
  BY <1>3 DEF StageOK
<1>5. stack[i].next \in Nat
  BY <1>1, <1>4 DEF FrameOK
<1>6. QED
  BY <1>1, <1>2, <1>3, <1>4, <1>5 DEF StageOK

\* What the innermost call may rely on when it looks at a sub-agent.
LEMMA LookedAt ==
    ASSUME WorldOK(world), Stacked, AtSub
    PROVE  /\ Len(stack) \in DOMAIN stack /\ stack # <<>> /\ Top = stack[Len(stack)]
           /\ Top.next \in DOMAIN Top.st.subs
           /\ Sub = Top.st.subs[Top.next] /\ Sub \in ToSet(Top.st.subs)
           /\ Sub.catalog \in CatalogNames(world) /\ Paths(Sub.ceiling)
           /\ ~CeilingTooWide => Within(Sub.ceiling, Top.st.grants)
<1>1. Len(stack) \in DOMAIN stack /\ stack # <<>> /\ Top = stack[Len(stack)]
  BY ListFacts DEF AtSub, Stacked, Top
<1>2. /\ FrameOK(world, Top, LayersAt(Len(stack))) /\ StageOK(world, Top.st)
      /\ DOMAIN Top.st.subs = 1 .. Len(Top.st.subs) /\ Len(Top.st.subs) \in Nat
  BY <1>1, FrameStage
<1>3. Top.next \in DOMAIN Top.st.subs
  BY <1>2 DEF AtSub, FrameOK
<1>4. Sub \in ToSet(Top.st.subs)
  BY <1>3 DEF Sub, ToSet
<1>5. Sub.catalog \in CatalogNames(world) /\ Paths(Sub.ceiling)
  BY <1>2, <1>3 DEF Sub, StageOK
<1>6. ~CeilingTooWide => Within(Sub.ceiling, Top.st.grants)
  BY NothingExceeds DEF CeilingTooWide
<1>7. QED
  BY <1>1, <1>3, <1>4, <1>5, <1>6 DEF Sub

\* A step of the walk.
Sits == /\ world' = world /\ phase' = phase /\ full' = full
        /\ kernel' = kernel /\ errs' = errs

\* The call m becomes the innermost, and has looked at one more sub-agent.
Looks(m, f) ==
  /\ m \in DOMAIN stack /\ Went(stack', m, f) /\ Onward(f, stack[m])
  /\ stack[m].next \in DOMAIN stack[m].st.subs

\* There is a new innermost call.
Enters(f) ==
  /\ AtSub /\ ~CeilingTooWide /\ Went(stack', Len(stack) + 1, f)
  /\ f.name = Sub.catalog /\ f.next = 1 /\ f.errs = {}

\* Looking at a sub-agent keeps the stack well formed.
LEMMA LooksStacked ==
    ASSUME WorldOK(world), Stacked, Sits, NEW m, NEW f, Looks(m, f)
    PROVE  Stacked'
<1>1. /\ DOMAIN stack' = 1 .. m /\ stack'[m] = f /\ IsList(stack') /\ stack' # <<>>
      /\ \A i \in 1 .. m - 1 : stack'[i] = stack[i]
  BY ListFacts DEF Looks, Went, Stacked
<1>2. m \in 1 .. Len(stack) /\ DOMAIN stack = 1 .. Len(stack) /\ Len(stack) \in Nat
  BY ListFacts DEF Looks, Stacked
<1>3. FrameOK(world, stack[m], LayersAt(m)) /\ IsFrame(stack[m]) /\ Len(stack[m].st.subs) \in Nat
      /\ DOMAIN stack[m].st.subs = 1 .. Len(stack[m].st.subs)
  BY FrameStage DEF Looks
<1>4. /\ f = [name |-> stack[m].name, layers |-> stack[m].layers, st |-> stack[m].st,
              next |-> stack[m].next + 1, errs |-> f.errs]
      /\ stack[m].next \in DOMAIN stack[m].st.subs
  BY DEF Looks, Onward
<1>5. /\ f.name = stack[m].name /\ f.layers = stack[m].layers /\ f.st = stack[m].st
      /\ f.next = stack[m].next + 1
  BY <1>4
<1>6. IsFrame(f)
  BY <1>4, <1>5 DEF IsFrame
<1>7. f.next \in 1 .. Len(f.st.subs) + 1
  BY <1>3, <1>4, <1>5
<1>8. FrameOK(world, f, LayersAt(m))
  BY <1>3, <1>5, <1>6, <1>7 DEF FrameOK, IsFrame
<1>9. ASSUME NEW i \in DOMAIN stack'
      PROVE  FrameOK(world, stack'[i], LayersAt(i)) /\ LayersAt(i)' = LayersAt(i)
  <2>1. i = m \/ (i \in 1 .. m - 1 /\ i \in DOMAIN stack)
    BY <1>1, <1>2
  <2>2. FrameOK(world, stack'[i], LayersAt(i))
    BY <1>1, <1>8, <2>1 DEF Stacked
  <2>3. LayersAt(i)' = LayersAt(i)
    BY DEF LayersAt, Sits
  <2>4. QED
    BY <2>2, <2>3
<1>10. ASSUME NEW i \in DOMAIN stack', i > 1
       PROVE  Calls(stack'[i - 1], stack'[i])
  <2>1. i \in DOMAIN stack /\ i - 1 \in 1 .. m - 1
    BY <1>1, <1>2, <1>10
  <2>2. stack'[i - 1] = stack[i - 1] /\ stack'[i].name = stack[i].name
    BY <1>1, <1>2, <1>5, <2>1
  <2>3. Calls(stack[i - 1], stack[i])
    BY <1>10, <2>1 DEF Stacked
  <2>4. QED
    BY <2>2, <2>3 DEF Calls
<1>11. stack'[1].name = Root
  <2>1. stack[1].name = Root
    BY <1>2 DEF Stacked
  <2>2. QED
    BY <1>1, <1>2, <1>5, <2>1
<1>12. phase' \in {"full", "base"}
  BY <1>2 DEF Stacked, Sits
<1>13. \A i \in DOMAIN stack' : FrameOK(world, stack[i], LayersAt(i))'
  BY <1>9 DEF Sits
<1>14. QED
  BY <1>1, <1>10, <1>11, <1>12, <1>13 DEF Stacked

\* Entering a sub-agent keeps the stack well formed.
LEMMA EntersStacked ==
    ASSUME WorldOK(world), Stacked, Sits, NEW f, Enters(f), FrameOK(world, f, "base")
    PROVE  Stacked'
<1> DEFINE n == Len(stack)
<1>1. /\ DOMAIN stack' = 1 .. n + 1 /\ stack'[n + 1] = f /\ IsList(stack')
      /\ \A i \in 1 .. n : stack'[i] = stack[i]
  BY ListFacts DEF Enters, Went, Stacked
<1>2. DOMAIN stack = 1 .. n /\ n \in Nat /\ n > 0
  BY ListFacts DEF Enters, AtSub, Stacked
<1>3. /\ stack' # <<>> /\ phase' \in {"full", "base"}
  <2>1. DOMAIN stack' # {}
    BY <1>1, <1>2
  <2>2. QED
    BY <1>2, <2>1 DEF Stacked, Sits
<1>4. Calls(stack[n], f)
  BY LookedAt DEF Calls, Enters, Sub
<1> HIDE DEF n
<1>5. ASSUME NEW i \in DOMAIN stack'
      PROVE  FrameOK(world, stack[i], LayersAt(i))'
  <2>1. i = n + 1 \/ i \in DOMAIN stack
    BY <1>1, <1>2
  <2>2. LayersAt(i)' = LayersAt(i)
    BY DEF LayersAt, Sits
  <2>3. FrameOK(world, stack'[i], LayersAt(i))
    <3>1. i = n + 1 => LayersAt(i) = "base"
      BY <1>2 DEF LayersAt
    <3>2. QED
      BY <1>1, <1>2, <2>1, <3>1 DEF Stacked
  <2>4. QED
    BY <2>2, <2>3 DEF Sits
<1>6. ASSUME NEW i \in DOMAIN stack', i > 1
      PROVE  Calls(stack'[i - 1], stack'[i])
  <2>1. i - 1 \in DOMAIN stack /\ stack'[i - 1] = stack[i - 1]
    BY <1>1, <1>2, <1>6
  <2>2. CASE i = n + 1
    BY <1>1, <1>2, <1>4, <2>1, <2>2
  <2>3. CASE i # n + 1
    <3>1. i \in DOMAIN stack /\ stack'[i] = stack[i]
      BY <1>1, <1>2, <2>3
    <3>2. QED
      BY <1>6, <2>1, <3>1 DEF Stacked
  <2>4. QED
    BY <2>2, <2>3
<1>7. stack'[1].name = Root
  BY <1>1, <1>2 DEF Stacked
<1>8. QED
  BY <1>1, <1>3, <1>5, <1>6, <1>7 DEF Stacked

\* The calls that remain keep their names and stages, and lose no error.
LEMMA SameCalls ==
    ASSUME WorldOK(world), Stacked, NEW m, NEW f, Looks(m, f)
    PROVE  /\ DOMAIN stack' = 1 .. m /\ stack'[m] = f /\ m \in 1 .. Len(stack)
           /\ DOMAIN stack = 1 .. Len(stack) /\ Len(stack) \in Nat
           /\ f.next = stack[m].next + 1
           /\ \A i \in 1 .. m - 1 : stack'[i] = stack[i]
           /\ \A i \in 1 .. m : /\ stack'[i].name = stack[i].name /\ stack'[i].st = stack[i].st
                                /\ stack[i].errs \subseteq stack'[i].errs
<1>1. /\ DOMAIN stack' = 1 .. m /\ stack'[m] = f
      /\ \A i \in 1 .. m - 1 : stack'[i] = stack[i]
  BY DEF Looks, Went
<1>2. m \in 1 .. Len(stack) /\ DOMAIN stack = 1 .. Len(stack) /\ Len(stack) \in Nat
  BY ListFacts DEF Looks, Stacked
<1>3. /\ f.name = stack[m].name /\ f.st = stack[m].st /\ stack[m].errs \subseteq f.errs
      /\ f.next = stack[m].next + 1
  BY DEF Looks, Onward
<1>4. \A i \in 1 .. m : i = m \/ i \in 1 .. m - 1
  BY <1>2
<1>5. QED
  BY <1>1, <1>2, <1>3, <1>4

\* What Memoised says of the entry of n.
EntryOK(n) ==
  \/ memo[n] = InProgress /\ \E i \in DOMAIN stack : i > 1 /\ stack[i].name = n
  \/ /\ memo[n].state = "Done"
     /\ memo[n].errs = {} => /\ StageErrors(world, n, "base") = {}
                             /\ memo[n].grants = Stage(world, n, "base").grants

\* The two kinds of entries of the memo are told apart.
LEMMA DoneFields ==
    ASSUME NEW g, NEW e
    PROVE  /\ Done(g, e).state = "Done" /\ Done(g, e).errs = e
           /\ e = {} => Done(g, e).grants = g
           /\ Done(g, e) # InProgress
           /\ InProgress.state = "InProgress" /\ InProgress.errs = {} /\ InProgress.grants = {}
BY DEF Done, InProgress

\* Looking at a sub-agent that is known keeps the memo well formed.
LEMMA LooksMemo ==
    ASSUME WorldOK(world), Stacked, Memoised, Sits, NEW f, Looks(Len(stack), f), memo' = memo
    PROVE  Memoised'
<1>1. /\ DOMAIN stack' = DOMAIN stack
      /\ \A i \in DOMAIN stack : stack'[i].name = stack[i].name
  BY SameCalls
<1>2. world' = world
  BY DEF Sits
<1>3. QED
  BY <1>1, <1>2 DEF Memoised

\* So does recording one that does not resolve,
LEMMA RecordsMemo ==
    ASSUME WorldOK(world), Stacked, Memoised, Sits, NEW f, Looks(Len(stack), f),
           NEW c \in CatalogNames(world), c \notin DOMAIN memo,
           NEW bad, bad # {}, Remember(c, Done({}, bad))
    PROVE  Memoised'
<1>1. /\ DOMAIN stack' = DOMAIN stack
      /\ \A i \in DOMAIN stack : stack'[i].name = stack[i].name
  BY SameCalls
<1>2. world' = world
  BY DEF Sits
<1>3. /\ DOMAIN memo' = DOMAIN memo \cup {c} /\ memo'[c] = Done({}, bad)
      /\ \A n \in DOMAIN memo : memo'[n] = memo[n]
  BY Remembered
<1>4. memo'[c].state = "Done" /\ memo'[c].errs # {}
  BY <1>3, DoneFields
<1>5. \A n \in DOMAIN memo : EntryOK(n)
  BY DEF Memoised, EntryOK
<1>6. ASSUME NEW n \in DOMAIN memo'
      PROVE  EntryOK(n)'
  <2>1. CASE n = c
    BY <1>4, <2>1 DEF EntryOK
  <2>2. CASE n # c
    BY <1>1, <1>2, <1>3, <1>5, <2>2 DEF EntryOK
  <2>3. QED
    BY <2>1, <2>2
<1>7. DOMAIN memo' \subseteq CatalogNames(world')
  BY <1>2, <1>3 DEF Memoised
<1>8. \A i \in DOMAIN stack' : i > 1 =>
        stack'[i].name \in DOMAIN memo' /\ memo'[stack'[i].name] = InProgress
  BY <1>1, <1>3 DEF Memoised
<1>9. \A i, j \in DOMAIN stack' : i > 1 /\ j > 1 /\ stack'[i].name = stack'[j].name => i = j
  BY <1>1 DEF Memoised
<1>10. QED
  BY <1>6, <1>7, <1>8, <1>9 DEF Memoised, EntryOK

\* and recording one that returns,
LEMMA ReturnsMemo ==
    ASSUME WorldOK(world), Stacked, Memoised, Sits, Len(stack) > 1,
           NEW f, Looks(Len(stack) - 1, f),
           NEW e, Remember(Top.name, Done(Top.st.grants, e))
    PROVE  Memoised'
<1> DEFINE n == Len(stack)
           c == Top.name
<1>1. /\ DOMAIN stack' = 1 .. n - 1 /\ DOMAIN stack = 1 .. n /\ n \in Nat
      /\ \A i \in 1 .. n - 1 : stack'[i].name = stack[i].name
  BY SameCalls
<1>2. world' = world
  BY DEF Sits
<1>3. /\ DOMAIN memo' = DOMAIN memo \cup {c} /\ memo'[c] = Done(Top.st.grants, e)
      /\ \A k \in DOMAIN memo : k # c => memo'[k] = memo[k]
  BY ZenonT(30), Remembered
<1>4. n \in DOMAIN stack /\ Top = stack[n]
  BY <1>1 DEF Top
<1>5. /\ c \in CatalogNames(world) /\ StageErrors(world, c, "base") = {}
      /\ Top.st = Stage(world, c, "base")
  <2>1. FrameOK(world, Top, "base")
    BY <1>4 DEF Stacked, LayersAt
  <2>2. QED
    BY <2>1 DEF FrameOK
<1>6. c \in DOMAIN memo /\ \A i \in DOMAIN stack : i > 1 /\ stack[i].name = c => i = n
  BY <1>4 DEF Memoised
<1>7. memo'[c].state = "Done" /\ (memo'[c].errs = {} => memo'[c].grants = Top.st.grants)
  BY <1>3, DoneFields
<1>8. \A k \in DOMAIN memo : EntryOK(k)
  BY DEF Memoised, EntryOK
<1> HIDE DEF c
<1>9. ASSUME NEW k \in DOMAIN memo'
      PROVE  EntryOK(k)'
  <2>1. CASE k = c
    <3>1. StageErrors(world', k, "base") = {} /\ Top.st = Stage(world', k, "base")
      BY <1>2, <1>5, <2>1
    <3>2. memo'[k].state = "Done" /\ (memo'[k].errs = {} => memo'[k].grants = Top.st.grants)
      BY <1>7, <2>1
    <3>3. QED
      BY <3>1, <3>2 DEF EntryOK
  <2>2. CASE k # c
    <3>1. k \in DOMAIN memo /\ memo'[k] = memo[k] /\ EntryOK(k)
      BY <1>3, <1>8, <2>2
    <3>2. CASE memo[k] = InProgress /\ \E i \in DOMAIN stack : i > 1 /\ stack[i].name = k
      <4>1. PICK i \in DOMAIN stack : i > 1 /\ stack[i].name = k
        BY <3>2
      <4>2. i # n
        BY <1>4, <2>2, <4>1 DEF c
      <4>3. i \in 1 .. n - 1
        BY <1>1, <4>1, <4>2
      <4>4. i \in DOMAIN stack' /\ stack'[i].name = k
        BY <1>1, <4>1, <4>3
      <4>5. QED
        BY <3>1, <3>2, <4>1, <4>4 DEF EntryOK
    <3>3. CASE ~(memo[k] = InProgress /\ \E i \in DOMAIN stack : i > 1 /\ stack[i].name = k)
      BY <1>2, <3>1, <3>3 DEF EntryOK
    <3>4. QED
      BY <3>2, <3>3
  <2>3. QED
    BY <2>1, <2>2
<1>10. DOMAIN memo' \subseteq CatalogNames(world')
  BY <1>2, <1>3, <1>5 DEF Memoised
<1>11. ASSUME NEW i \in DOMAIN stack', i > 1
       PROVE  stack'[i].name \in DOMAIN memo' /\ memo'[stack'[i].name] = InProgress
  <2>1. i \in DOMAIN stack /\ i # n /\ stack'[i].name = stack[i].name
    BY <1>1, <1>11
  <2>2. stack[i].name \in DOMAIN memo /\ memo[stack[i].name] = InProgress /\ stack[i].name # c
    BY <1>6, <1>11, <2>1 DEF Memoised
  <2>3. QED
    BY <1>3, <2>1, <2>2
<1>12. \A i, j \in DOMAIN stack' : i > 1 /\ j > 1 /\ stack'[i].name = stack'[j].name => i = j
  BY <1>1 DEF Memoised
<1>13. QED
  BY <1>9, <1>10, <1>11, <1>12 DEF Memoised, EntryOK

\* and marking one that is entered.
LEMMA EntersMemo ==
    ASSUME WorldOK(world), Stacked, Memoised, Sits, NEW f, Enters(f),
           Sub.catalog \notin DOMAIN memo, Remember(Sub.catalog, InProgress)
    PROVE  Memoised'
<1> DEFINE n == Len(stack)
           c == Sub.catalog
<1>1. /\ DOMAIN stack' = 1 .. n + 1 /\ stack'[n + 1] = f /\ DOMAIN stack = 1 .. n
      /\ \A i \in DOMAIN stack : stack'[i] = stack[i]
  BY ListFacts DEF Enters, Went, Stacked
<1>2. n \in Nat /\ n > 0 /\ f.name = c /\ c \in CatalogNames(world)
  BY ListFacts, LookedAt DEF Enters, AtSub, Stacked
<1>3. world' = world
  BY DEF Sits
<1>4. /\ DOMAIN memo' = DOMAIN memo \cup {c} /\ memo'[c] = InProgress
      /\ \A k \in DOMAIN memo : memo'[k] = memo[k]
  BY Remembered
<1>5. \A k \in DOMAIN memo : EntryOK(k)
  BY DEF Memoised, EntryOK
<1>6. \A i \in DOMAIN stack : i > 1 => stack[i].name # c
  BY DEF Memoised
<1> HIDE DEF c, n
<1>7. ASSUME NEW k \in DOMAIN memo'
      PROVE  EntryOK(k)'
  <2>1. CASE k = c
    <3>1. n + 1 \in DOMAIN stack' /\ n + 1 > 1 /\ stack'[n + 1].name = c
      BY <1>1, <1>2
    <3>2. QED
      BY <1>4, <2>1, <3>1 DEF EntryOK
  <2>2. CASE k # c
    <3>1. DOMAIN stack \subseteq DOMAIN stack'
      BY <1>1, <1>2
    <3>2. memo'[k] = memo[k] /\ EntryOK(k)
      BY <1>4, <1>5, <2>2
    <3>3. QED
      BY <1>1, <1>3, <3>1, <3>2 DEF EntryOK
  <2>3. QED
    BY <2>1, <2>2
<1>8. DOMAIN memo' \subseteq CatalogNames(world')
  BY <1>2, <1>3, <1>4 DEF Memoised
<1>9. ASSUME NEW i \in DOMAIN stack', i > 1
      PROVE  stack'[i].name \in DOMAIN memo' /\ memo'[stack'[i].name] = InProgress
  <2>1. i = n + 1 \/ i \in DOMAIN stack
    BY <1>1, <1>2
  <2>2. QED
    BY <1>1, <1>2, <1>4, <1>9, <2>1 DEF Memoised
<1>10. ASSUME NEW i \in DOMAIN stack', NEW j \in DOMAIN stack', i > 1, j > 1,
              stack'[i].name = stack'[j].name
       PROVE  i = j
  <2>1. (i = n + 1 \/ i \in DOMAIN stack) /\ (j = n + 1 \/ j \in DOMAIN stack)
    BY <1>1, <1>2
  <2>2. QED
    BY <1>1, <1>2, <1>6, <1>10, <2>1 DEF Memoised
<1>11. QED
  BY <1>7, <1>8, <1>9, <1>10 DEF Memoised, EntryOK

-----------------------------------------------------------------------------
(* The steps of the walk, by what they do to the stack and to the memo     *)

Skips(f) ==
  /\ Sits /\ Looks(Len(stack), f) /\ memo' = memo
  /\ f.errs # {}

Knows(f) ==
  /\ Sits /\ Looks(Len(stack), f) /\ memo' = memo
  /\ Sub.catalog \in DOMAIN memo
  /\ f.errs = {} => /\ memo[Sub.catalog].errs = {}
                    /\ Within(memo[Sub.catalog].grants, Sub.ceiling)

Fails(f, bad) ==
  /\ Sits /\ Looks(Len(stack), f)
  /\ Sub.catalog \in CatalogNames(world) \ DOMAIN memo
  /\ bad # {} /\ Remember(Sub.catalog, Done({}, bad))
  /\ f.errs # {}

Starts(f) ==
  /\ Sits /\ Enters(f) /\ FrameOK(world, f, "base")
  /\ Sub.catalog \notin DOMAIN memo /\ Remember(Sub.catalog, InProgress)

Returns(f) ==
  /\ Sits /\ Len(stack) > 1 /\ Looks(Len(stack) - 1, f)
  /\ Finished(Len(stack)) /\ Remember(Top.name, Done(Top.st.grants, Verdict(Top)))
  /\ f.errs = {} => /\ Verdict(Top) = {}
                    /\ LET caller == stack[Len(stack) - 1]
                       IN  Within(Top.st.grants, caller.st.subs[caller.next].ceiling)

Walks(f) == Skips(f) \/ Knows(f) \/ (\E bad : Fails(f, bad)) \/ Starts(f) \/ Returns(f)

\* SkipSub is a step of the kind Skips.
LEMMA SkipSubStep ==
    ASSUME WorldOK(world), Stacked, SkipSub
    PROVE  \E f : Skips(f)
<1> DEFINE g == [Top EXCEPT !.errs = @ \cup {"E_CAP_EXCEEDS_GRANTS"}]
           f == Learn(g, Sub, Done({}, {}))
<1>1. Len(stack) \in DOMAIN stack /\ stack # <<>> /\ Top = stack[Len(stack)]
      /\ Top.next \in DOMAIN Top.st.subs
  BY LookedAt DEF SkipSub
<1>2. IsFrame(Top) /\ IsList(stack)
  BY <1>1, FrameStage DEF Stacked
<1>3. g = [name |-> Top.name, layers |-> Top.layers, st |-> Top.st, next |-> Top.next,
           errs |-> Top.errs \cup {"E_CAP_EXCEEDS_GRANTS"}]
  BY <1>2 DEF IsFrame
<1>4. /\ IsFrame(g) /\ g.name = Top.name /\ g.layers = Top.layers /\ g.st = Top.st
      /\ g.next = Top.next /\ g.errs = Top.errs \cup {"E_CAP_EXCEEDS_GRANTS"}
  BY <1>3 DEF IsFrame
<1> HIDE DEF g
<1>5. Onward(f, g)
  BY <1>4, WhatIsLearnt
<1>6. stack' = OnTop(f)
  BY DEF SkipSub, g
<1>7. Went(stack', Len(stack), f)
  BY <1>1, <1>2, <1>6, StackMoves
<1> HIDE DEF f
<1>8. Onward(f, Top) /\ f.errs # {}
  BY <1>4, <1>5 DEF Onward
<1>9. Looks(Len(stack), f)
  BY <1>1, <1>7, <1>8 DEF Looks
<1>10. Sits /\ memo' = memo
  BY DEF SkipSub, Sits
<1>11. QED
  BY <1>8, <1>9, <1>10 DEF Skips

\* KnownSub is a step of the kind Knows.
LEMMA KnownSubStep ==
    ASSUME WorldOK(world), Stacked, KnownSub
    PROVE  \E f : Knows(f)
<1> DEFINE f == Learn(Top, Sub, memo[Sub.catalog])
<1>1. Len(stack) \in DOMAIN stack /\ stack # <<>> /\ Top = stack[Len(stack)]
      /\ Top.next \in DOMAIN Top.st.subs
  BY LookedAt DEF KnownSub
<1>2. IsFrame(Top) /\ IsList(stack)
  BY <1>1, FrameStage DEF Stacked
<1>3. /\ Onward(f, Top)
      /\ f.errs = {} => /\ memo[Sub.catalog].errs = {}
                        /\ Within(memo[Sub.catalog].grants, Sub.ceiling)
  BY <1>2, WhatIsLearnt
<1>4. Went(stack', Len(stack), f)
  BY <1>1, <1>2, StackMoves DEF KnownSub
<1> HIDE DEF f
<1>5. Looks(Len(stack), f)
  BY <1>1, <1>3, <1>4 DEF Looks
<1>6. Sits /\ memo' = memo /\ Sub.catalog \in DOMAIN memo
  BY DEF KnownSub, Sits
<1>7. Knows(f)
  BY <1>3, <1>5, <1>6 DEF Knows
<1>8. QED
  BY <1>7

\* EnterSub starts a call, or records that the sub-agent does not resolve.
LEMMA EnterSubStep ==
    ASSUME WorldOK(world), Stacked, EnterSub
    PROVE  \E f : Starts(f) \/ \E bad : Fails(f, bad)
<1> DEFINE c == Sub.catalog
           bad == StageErrors(world, c, "base")
<1>1. Len(stack) \in DOMAIN stack /\ stack # <<>> /\ Top = stack[Len(stack)]
      /\ Top.next \in DOMAIN Top.st.subs /\ c \in CatalogNames(world)
  BY LookedAt DEF EnterSub
<1>2. IsFrame(Top) /\ IsList(stack)
  BY <1>1, FrameStage DEF Stacked
<1>3. Sits /\ AtSub /\ ~CeilingTooWide /\ c \notin DOMAIN memo
  BY DEF EnterSub, Sits
<1>4. CASE bad = {}
  <2> DEFINE f == Frame(c, "base")
             st == Stage(world, c, "base")
  <2>1. Remember(c, InProgress) /\ stack' = Append(stack, f)
    BY <1>4 DEF EnterSub
  <2>2. Went(stack', Len(stack) + 1, f)
    BY <1>1, <1>2, <2>1, StackMoves
  <2>3. StageOK(world, st)
    BY <1>1, <1>4, StageIsOK
  <2>4. 1 \in 1 .. Len(st.subs) + 1
    BY <2>3 DEF StageOK
  <2>5. f = [name |-> c, layers |-> "base", st |-> st, next |-> 1, errs |-> {}]
    BY DEF Frame
  <2> HIDE DEF f, st
  <2>6. f.name = c /\ f.layers = "base" /\ f.st = st /\ f.next = 1 /\ f.errs = {}
    BY <2>5
  <2>7. f = [name |-> f.name, layers |-> f.layers, st |-> f.st, next |-> f.next, errs |-> f.errs]
    BY <2>5, <2>6
  <2>8. FrameOK(world, f, "base")
    BY <1>1, <1>4, <2>4, <2>6, <2>7 DEF FrameOK, st
  <2>9. Enters(f)
    BY <1>3, <2>2, <2>6 DEF Enters
  <2>10. Starts(f)
    BY <1>3, <2>1, <2>8, <2>9 DEF Starts
  <2>11. QED
    BY <2>10
<1>5. CASE bad # {}
  <2> DEFINE f == Learn(Top, Sub, Done({}, bad))
  <2>1. Remember(c, Done({}, bad)) /\ stack' = OnTop(f)
    BY <1>5 DEF EnterSub
  <2>2. Went(stack', Len(stack), f)
    BY <1>1, <1>2, <2>1, StackMoves
  <2>3. Onward(f, Top) /\ (f.errs = {} => Done({}, bad).errs = {})
    BY <1>2, WhatIsLearnt
  <2> HIDE DEF f
  <2>4. f.errs # {}
    BY <1>5, <2>3, DoneFields
  <2>5. Looks(Len(stack), f)
    BY <1>1, <2>2, <2>3 DEF Looks
  <2>6. Fails(f, bad)
    BY <1>1, <1>3, <1>5, <2>1, <2>4, <2>5 DEF Fails
  <2>7. QED
    BY <2>6
<1>6. QED
  BY <1>4, <1>5

\* LeaveSub is a step of the kind Returns.
LEMMA LeaveSubStep ==
    ASSUME WorldOK(world), Stacked, LeaveSub
    PROVE  \E f : Returns(f)
<1> DEFINE n == Len(stack)
           caller == stack[n - 1]
           sub == caller.st.subs[caller.next]
           result == Done(Top.st.grants, Verdict(Top))
           f == Learn(caller, sub, result)
<1>1. /\ n \in Nat /\ n > 1 /\ DOMAIN stack = 1 .. n /\ stack # <<>> /\ IsList(stack)
      /\ Finished(n)
  BY ListFacts DEF LeaveSub, Stacked
<1>2. n - 1 \in DOMAIN stack /\ n \in DOMAIN stack
  BY <1>1
<1>3. IsFrame(caller)
  BY <1>2, FrameStage
<1>4. caller.next \in DOMAIN caller.st.subs
  BY <1>1, <1>2 DEF Stacked, Calls
<1>5. Remember(Top.name, result) /\ stack' = Append(SubSeq(stack, 1, n - 2), f)
  BY DEF LeaveSub
<1>6. Went(stack', n - 1, f)
  BY <1>1, <1>5, StackMoves
<1>7. /\ Onward(f, caller)
      /\ f.errs = {} => result.errs = {} /\ Within(result.grants, sub.ceiling)
  BY <1>3, WhatIsLearnt
<1> HIDE DEF f
<1>8. f.errs = {} => Verdict(Top) = {} /\ Within(Top.st.grants, sub.ceiling)
  BY <1>7, DoneFields
<1>9. Looks(n - 1, f)
  BY <1>2, <1>4, <1>6, <1>7 DEF Looks
<1>10. Sits
  BY DEF LeaveSub, Sits
<1>11. Returns(f)
  BY <1>1, <1>5, <1>8, <1>9, <1>10 DEF Returns
<1>12. QED
  BY <1>11

\* The actions of the walk are steps of these five kinds.
LEMMA WalkSteps ==
    ASSUME WorldOK(world), Stacked, SkipSub \/ KnownSub \/ EnterSub \/ LeaveSub
    PROVE  \E f : Walks(f)
BY SkipSubStep, KnownSubStep, EnterSubStep, LeaveSubStep DEF Walks

\* They keep the stack and the memo well formed.
LEMMA WalkKeepsStack ==
    ASSUME WorldOK(world), Stacked, Memoised, NEW f, Walks(f)
    PROVE  Sits /\ Stacked' /\ Memoised'
<1>1. CASE Skips(f)
  BY <1>1, LooksStacked, LooksMemo DEF Skips
<1>2. CASE Knows(f)
  BY <1>2, LooksStacked, LooksMemo DEF Knows
<1>3. CASE \E bad : Fails(f, bad)
  <2>1. PICK bad : Fails(f, bad)
    BY <1>3
  <2>2. QED
    BY <2>1, LooksStacked, RecordsMemo DEF Fails
<1>4. CASE Starts(f)
  BY <1>4, EntersStacked, EntersMemo DEF Starts
<1>5. CASE Returns(f)
  BY <1>5, LooksStacked, ReturnsMemo DEF Returns
<1>6. QED
  BY <1>1, <1>2, <1>3, <1>4, <1>5 DEF Walks

-----------------------------------------------------------------------------
(* The other steps                                                         *)

\* Where world does not change, nor does what is read of it.
LEMMA LoadKept ==
    ASSUME world' = world, full' = full
    PROVE  /\ LoadErrors(full.st)' = LoadErrors(full.st)
           /\ SessionTools(full.st)' = SessionTools(full.st)
           /\ session_grants(full.st)' = session_grants(full.st)
<1>1. \A d : manifest_caps(d)' = manifest_caps(d)
  BY DEF manifest_caps, ManifestWorld
<1>2. \A d : ManifestErrors(d)' = ManifestErrors(d)
  BY DEF ManifestErrors, ManifestWorld
<1>3. ext_tools(full.st)' = ext_tools(full.st)
  BY <1>1 DEF ext_tools
<1>4. compiled_tools(full.st)' = compiled_tools(full.st)
  BY DEF compiled_tools
<1>5. \A d : admit(d, full.st)' = admit(d, full.st)
  BY <1>1 DEF admit
<1>6. LoadErrors(full.st)' = LoadErrors(full.st)
  BY DEF LoadErrors, ManifestErrors, ManifestWorld, manifest_caps, admit
<1>7. QED
  BY <1>3, <1>4, <1>6 DEF SessionTools, session_grants

\* What was found of the full resolution stays found.
LEMMA FullKept ==
    ASSUME world' = world, full' = full
    PROVE  (FullKnown => FullKnown') /\ (Approved => Approved')
BY DEF FullKnown, Approved

\* With no call but that of the root, no entry of the memo is in progress.
LEMMA MemoWithoutCalls ==
    ASSUME Memoised, world' = world, memo' = memo, \A i \in DOMAIN stack : i = 1,
           \A i \in DOMAIN stack' : i = 1
    PROVE  Memoised'
<1>1. \A i, j \in DOMAIN stack' : i = j
  OBVIOUS
<1>2. \A i \in DOMAIN stack : ~(i > 1)
  OBVIOUS
<1>3. \A i \in DOMAIN stack' : ~(i > 1)
  OBVIOUS
<1>4. QED
  BY <1>1, <1>2, <1>3 DEF Memoised

\* The empty stack is well formed outside the walk.
LEMMA NoStack ==
    ASSUME stack' = <<>>, phase' \notin {"full", "base"}
    PROVE  Stacked' /\ \A i \in DOMAIN stack' : i = 1
<1>1. IsList(<<>>)
  <2>1. <<>> \in Seq({})
    OBVIOUS
  <2>2. QED
    BY <2>1, SequenceIsList
<1>2. DOMAIN stack' = {}
  OBVIOUS
<1>3. QED
  BY <1>1, <1>2 DEF Stacked

\* So is the stack of a resolution that has just begun.
LEMMA RootStacked ==
    ASSUME WorldOK(world), world' = world, NEW layers \in {"full", "base"}, phase' = layers,
           Root \in CatalogNames(world), StageErrors(world, Root, layers) = {},
           stack' = <<Frame(Root, layers)>>
    PROVE  Stacked' /\ \A i \in DOMAIN stack' : i = 1
<1> DEFINE f == Frame(Root, layers)
           st == Stage(world, Root, layers)
<1>1. f = [name |-> Root, layers |-> layers, st |-> st, next |-> 1, errs |-> {}]
  BY DEF Frame
<1>2. 1 \in 1 .. Len(st.subs) + 1
  BY StageIsOK DEF StageOK
<1>3. IsList(<<f>>) /\ DOMAIN <<f>> = {1} /\ <<f>>[1] = f /\ <<f>> # <<>>
  <2> HIDE DEF f
  <2>1. <<f>> \in Seq({f})
    OBVIOUS
  <2>2. IsList(<<f>>)
    BY <2>1, SequenceIsList
  <2>3. DOMAIN <<f>> = {1} /\ <<f>>[1] = f /\ <<f>> # <<>>
    OBVIOUS
  <2>4. QED
    BY <2>2, <2>3
<1> HIDE DEF f, st
<1>4. f.name = Root /\ f.layers = layers /\ f.st = st /\ f.next = 1
      /\ f = [name |-> f.name, layers |-> f.layers, st |-> f.st, next |-> f.next, errs |-> f.errs]
  BY <1>1
<1>5. FrameOK(world, f, layers)
  BY <1>2, <1>4 DEF FrameOK, st
<1>6. stack' = <<f>>
  BY DEF f
<1>7. LayersAt(1)' = layers
  BY DEF LayersAt
<1>8. DOMAIN stack' = {1} /\ stack'[1] = f
  BY <1>3, <1>6
<1>9. \A i \in DOMAIN stack' : FrameOK(world, stack[i], LayersAt(i))'
  BY <1>5, <1>7, <1>8
<1>10. QED
  BY <1>3, <1>4, <1>6, <1>8, <1>9 DEF Stacked

\* The steps of the walk leave alone what was judged before.
LEMMA WalkKeepsInv ==
    ASSUME Inv, NEW f, Walks(f)
    PROVE  Inv'
<1>1. Sits /\ Stacked' /\ Memoised'
  BY WalkKeepsStack DEF Inv
<1>2. Judged'
  BY <1>1, FullKept DEF Inv, Judged, Sits
<1>3. phase \in {"full", "base"}
  <2>1. stack # <<>>
    BY ListFacts DEF Inv, Stacked, Walks, Skips, Knows, Fails, Starts, Returns, Looks, Enters, AtSub
  <2>2. QED
    BY <2>1 DEF Inv, Stacked
<1>4. Built'
  BY <1>1, <1>3 DEF Built, Sits, AcceptedPolicyDerives
<1>5. QED
  BY <1>1, <1>2, <1>4 DEF Inv, Sits

\* The launch stops, with no call in progress.
LEMMA StopKeepsInv ==
    ASSUME Inv, world' = world, memo' = memo, \A i \in DOMAIN stack : i = 1,
           NEW codes, Stop("refused", codes)
    PROVE  Inv'
<1>1. phase' = "refused" /\ stack' = <<>>
  BY DEF Stop
<1>2. Stacked' /\ \A i \in DOMAIN stack' : i = 1
  BY <1>1, NoStack
<1>3. Memoised'
  BY <1>2, MemoWithoutCalls DEF Inv
<1>4. Judged' /\ Built'
  BY <1>1 DEF Judged, Built, AcceptedPolicyDerives
<1>5. QED
  BY <1>2, <1>3, <1>4 DEF Inv

\* The launch fails after the profile was accepted, with a code that is not
\* one of those of AcceptedPolicyDerives.
LEMMA FailKeepsInv ==
    ASSUME Inv, world' = world, memo' = memo, full' = full,
           phase \in {"resolved", "assembled"}, NEW codes, Stop("failed", codes),
           codes \cap {"DuplicateTool", "ToolExceedsGrants", "MissingSessionCommand", "Internal"} = {}
    PROVE  Inv'
<1>1. phase' = "failed" /\ stack' = <<>> /\ errs' = codes
  BY DEF Stop
<1>2. Stacked' /\ \A i \in DOMAIN stack' : i = 1
  BY <1>1, NoStack
<1>3. stack = <<>>
  BY DEF Inv, Stacked
<1>4. \A i \in DOMAIN stack : i = 1
  BY <1>3
<1>5. Memoised'
  BY <1>2, <1>4, MemoWithoutCalls DEF Inv
<1>6. Judged'
  BY <1>1, FullKept DEF Inv, Judged
<1>7. Built'
  BY <1>1 DEF Built, AcceptedPolicyDerives
<1>8. QED
  BY <1>2, <1>5, <1>6, <1>7 DEF Inv

\* Begin keeps the invariant.
LEMMA BeginKeepsInv ==
    ASSUME Inv, Begin
    PROVE  Inv'
<1>1. phase = "start" /\ world' = world /\ memo' = memo /\ full' = full
  BY DEF Begin
<1>2. stack = <<>>
  BY <1>1 DEF Inv, Stacked
<1>3. \A i \in DOMAIN stack : i = 1
  BY <1>2
<1>4. CASE \E codes : Stop("refused", codes)
  BY <1>1, <1>3, <1>4, StopKeepsInv
<1>5. CASE ~\E codes : Stop("refused", codes)
  <2>1. /\ Root \in CatalogNames(world) /\ StageErrors(world, Root, "full") = {}
        /\ stack' = <<Frame(Root, "full")>> /\ phase' = "full"
    BY <1>5 DEF Begin, Err
  <2>2. Stacked' /\ \A i \in DOMAIN stack' : i = 1
    BY <1>1, <2>1, RootStacked DEF Inv
  <2>3. Memoised'
    BY <1>1, <1>3, <2>2, MemoWithoutCalls DEF Inv
  <2>4. Judged' /\ Built'
    BY <2>1 DEF Judged, Built, AcceptedPolicyDerives
  <2>5. QED
    BY <1>1, <2>2, <2>3, <2>4 DEF Inv
<1>6. QED
  BY <1>4, <1>5

\* With one call left it is that of the root.
LEMMA RootIsLeft ==
    ASSUME WorldOK(world), Stacked, phase \in {"full", "base"}, Finished(1)
    PROVE  /\ \A i \in DOMAIN stack : i = 1
           /\ 1 \in DOMAIN stack /\ Top = stack[1] /\ Top.next > Len(Top.st.subs)
           /\ Root \in CatalogNames(world) /\ StageErrors(world, Root, phase) = {}
           /\ Top.st = Stage(world, Root, phase)
<1>1. Len(stack) = 1 /\ DOMAIN stack = 1 .. 1 /\ stack # <<>> /\ Top.next > Len(Top.st.subs)
  BY ListFacts DEF Stacked, Finished
<1>2. Top = stack[1] /\ 1 \in DOMAIN stack /\ \A i \in DOMAIN stack : i = 1
  BY <1>1 DEF Top
<1>3. FrameOK(world, Top, LayersAt(1)) /\ LayersAt(1) = phase /\ Top.name = Root
  BY <1>1, <1>2 DEF Stacked, LayersAt
<1>4. QED
  BY <1>1, <1>2, <1>3 DEF FrameOK

\* Accept keeps the invariant, whichever resolution it ends.
LEMMA AcceptKeepsInv ==
    ASSUME Inv, \A i \in DOMAIN stack : i = 1, world' = world, memo' = memo,
           NEW st, NEW step8, Accept(st, step8), full'.st = st, full'.errs \subseteq step8, FullKnown',
           world.project # NoFile =>
             /\ StageErrors(world, Root, "base") = {}
             /\ step8 = {} => check_project_narrowing(st, Stage(world, Root, "base")) = {}
    PROVE  Inv'
<1>1. CASE \E codes : Stop("refused", codes)
  BY <1>1, StopKeepsInv
<1>2. CASE ~\E codes : Stop("refused", codes)
  <2>1. /\ step8 = {} /\ PolicyErrors(envelope_caps(st.grants), st.grants, st.limits) = {}
        /\ phase' = "resolved" /\ stack' = <<>>
    BY <1>2 DEF Accept, Err
  <2>2. Stacked' /\ \A i \in DOMAIN stack' : i = 1
    BY <2>1, NoStack
  <2>3. Memoised'
    BY <2>2, MemoWithoutCalls DEF Inv
  <2>4. Approved'
    BY <2>1 DEF Approved
  <2>5. Judged' /\ Built'
    BY <2>1, <2>4 DEF Judged, Built, AcceptedPolicyDerives
  <2>6. QED
    BY <2>2, <2>3, <2>5 DEF Inv
<1>3. QED
  BY <1>1, <1>2

\* EndFull keeps the invariant.
LEMMA EndFullKeepsInv ==
    ASSUME Inv, EndFull
    PROVE  Inv'
<1>1. phase = "full" /\ Finished(1) /\ world' = world /\ memo' = memo
  BY DEF EndFull
<1>2. /\ \A i \in DOMAIN stack : i = 1
      /\ Root \in CatalogNames(world) /\ StageErrors(world, Root, "full") = {}
      /\ Top.st = Stage(world, Root, "full")
  BY <1>1, RootIsLeft DEF Inv
<1>3. full'.st = Top.st /\ full'.errs = Verdict(Top)
  BY DEF EndFull
<1>4. narrowing_checks(world, Top.st) \subseteq Verdict(Top)
  BY DEF Verdict
<1>5. FullKnown'
  BY <1>1, <1>2, <1>3, <1>4 DEF FullKnown
<1>6. CASE world.project = NoFile
  <2>1. Accept(Top.st, Verdict(Top))
    BY <1>6 DEF EndFull
  <2>2. QED
    BY <1>1, <1>2, <1>3, <1>5, <1>6, <2>1, AcceptKeepsInv
<1>7. CASE world.project # NoFile /\ \E codes : Stop("refused", codes)
  BY <1>1, <1>2, <1>7, StopKeepsInv
<1>8. CASE world.project # NoFile /\ ~\E codes : Stop("refused", codes)
  <2>1. /\ StageErrors(world, Root, "base") = {}
        /\ stack' = <<Frame(Root, "base")>> /\ phase' = "base"
    BY <1>8 DEF EndFull
  <2>2. Stacked' /\ \A i \in DOMAIN stack' : i = 1
    BY <1>1, <1>2, <2>1, RootStacked DEF Inv
  <2>3. Memoised'
    BY <1>1, <1>2, <2>2, MemoWithoutCalls DEF Inv
  <2>4. Judged' /\ Built'
    BY <1>1, <1>5, <1>8, <2>1 DEF Judged, Built, AcceptedPolicyDerives
  <2>5. QED
    BY <1>1, <2>2, <2>3, <2>4 DEF Inv
<1>9. QED
  BY <1>6, <1>7, <1>8

\* EndBase keeps the invariant.
LEMMA EndBaseKeepsInv ==
    ASSUME Inv, EndBase
    PROVE  Inv'
<1>1. phase = "base" /\ Finished(1) /\ world' = world /\ memo' = memo /\ full' = full
  BY DEF EndBase
<1>2. /\ \A i \in DOMAIN stack : i = 1
      /\ StageErrors(world, Root, "base") = {} /\ Top.st = Stage(world, Root, "base")
  BY <1>1, RootIsLeft DEF Inv
<1>3. FullKnown'
  BY <1>1, FullKept DEF Inv, Judged
<1> DEFINE step8 == full.errs \cup check_project_narrowing(full.st, Top.st)
<1>4. Accept(full.st, step8)
  BY DEF EndBase
<1>5. full'.errs \subseteq step8
      /\ (step8 = {} => check_project_narrowing(full.st, Stage(world, Root, "base")) = {})
  BY <1>1, <1>2
<1> HIDE DEF step8
<1>6. QED
  BY <1>1, <1>2, <1>3, <1>4, <1>5, AcceptKeepsInv

\* The codes that the registry reports and assembly does not.
LEMMA AssemblyCodes ==
    ASSUME NEW st
    PROVE  AssembleErrors(st) \cap {"DuplicateTool", "ToolExceedsGrants", "MissingSessionCommand",
                                    "Internal"} = {}
<1> DEFINE codes == {"Io", "Invalid", "DuplicateManifest", "SecretInSandbox", "Exceeds",
                     "EnvNameForbidden"}
<1>1. \A d : ManifestErrors(d) \subseteq codes
  BY DEF ManifestErrors, Err
<1>2. \A d : admit(d, st) \subseteq codes
  BY DEF admit, PolicyErrors
<1>3. LoadErrors(st) \subseteq codes
  <2> DEFINE bad == UNION {ManifestErrors(st.exts[i]) : i \in DOMAIN st.exts}
             refused == UNION {admit(st.exts[i], st) : i \in DOMAIN st.exts}
             twice == \E i, j \in DOMAIN st.exts :
                        i < j /\ world.exts[st.exts[i]].name = world.exts[st.exts[j]].name
  <2>1. LoadErrors(st) = IF bad # {} THEN bad ELSE Err(twice, "DuplicateManifest") \cup refused
    BY DEF LoadErrors
  <2>2. bad \subseteq codes /\ refused \subseteq codes
    BY <1>1, <1>2
  <2> HIDE DEF bad, refused, twice
  <2>3. Err(twice, "DuplicateManifest") \subseteq codes
    BY DEF Err
  <2>4. QED
    BY <2>1, <2>2, <2>3
<1>4. AssembleErrors(st) \subseteq codes \cup {"Backend", "UnknownMiddleware", "Config"}
  BY <1>3 DEF AssembleErrors, Err
<1>5. QED
  BY <1>4

\* A profile that was accepted has what a launch relies on.
LEMMA ApprovedIsLaunchable ==
    ASSUME Inv, phase \in {"resolved", "assembled", "launched", "failed"}
    PROVE  Launchable(full.st) /\ FullKnown /\ Approved
<1>1. FullKnown /\ Approved
  BY DEF Inv, Judged
<1>2. StageOK(world, full.st)
  BY <1>1, StageIsOK DEF FullKnown, Inv
<1>3. QED
  BY <1>1, <1>2 DEF Launchable, FullKnown, Approved

\* Assemble keeps the invariant.
LEMMA AssembleKeepsInv ==
    ASSUME Inv, Assemble
    PROVE  Inv'
<1>1. phase = "resolved" /\ world' = world /\ memo' = memo /\ full' = full
  BY DEF Assemble
<1>2. CASE AssembleErrors(full.st) # {}
  <2>1. Stop("failed", AssembleErrors(full.st))
    BY <1>2 DEF Assemble
  <2>2. QED
    BY <1>1, <2>1, AssemblyCodes, FailKeepsInv
<1>3. CASE AssembleErrors(full.st) = {}
  <2>1. /\ phase' = "assembled" /\ stack' = stack
        /\ kernel'.tools = SessionTools(full.st) /\ kernel'.grants = session_grants(full.st)
    BY <1>3 DEF Assemble, SessionTools
  <2>2. LoadErrors(full.st) = {}
    BY <1>3 DEF AssembleErrors
  <2>3. stack = <<>>
    BY <1>1 DEF Inv, Stacked
  <2>4. Stacked' /\ \A i \in DOMAIN stack' : i = 1
    BY <2>1, <2>3, NoStack
  <2>5. Memoised'
    BY <1>1, <2>1, <2>4, MemoWithoutCalls DEF Inv
  <2>6. Judged'
    BY <1>1, <2>1, FullKept DEF Inv, Judged
  <2>7. /\ LoadErrors(full.st)' = {} /\ kernel'.tools = SessionTools(full.st)'
        /\ kernel'.grants = session_grants(full.st)'
    BY <1>1, <2>1, <2>2, LoadKept
  <2>8. Built'
    BY <2>1, <2>7 DEF Built, AcceptedPolicyDerives
  <2>9. QED
    BY <1>1, <2>4, <2>5, <2>6, <2>8 DEF Inv
<1>4. QED
  BY <1>2, <1>3

\* BuildKernel keeps the invariant: the registry finds nothing to refuse.
LEMMA BuildKernelKeepsInv ==
    ASSUME Inv, BuildKernel
    PROVE  Inv'
<1> DEFINE limits == full.st.limits
           bad == RegistryErrors(kernel, limits) \cup ChainErrorsOf(kernel.chain)
<1>1. phase = "assembled" /\ world' = world /\ memo' = memo /\ full' = full
  BY DEF BuildKernel
<1>2. /\ LoadErrors(full.st) = {} /\ kernel.tools = SessionTools(full.st)
      /\ kernel.grants = session_grants(full.st)
  BY <1>1 DEF Inv, Built
<1>3. RegistryErrors(kernel, limits) = {}
  BY <1>1, <1>2, ApprovedIsLaunchable, RegistryAccepts DEF Inv
<1>4. ChainErrorsOf(kernel.chain) \subseteq {"DuplicateMiddleware", "ReservedPriority"}
  BY DEF ChainErrorsOf, Err
<1>5. CASE bad # {}
  <2>1. Stop("failed", bad)
    BY <1>5 DEF BuildKernel
  <2>2. bad \cap {"DuplicateTool", "ToolExceedsGrants", "MissingSessionCommand", "Internal"} = {}
    BY <1>3, <1>4
  <2> HIDE DEF bad
  <2>3. QED
    BY <1>1, <2>1, <2>2, FailKeepsInv
<1>6. CASE bad = {}
  <2>1. /\ phase' = "launched" /\ stack' = stack
        /\ kernel'.tools = {[name |-> t.name, policy |-> derive_policy_with(t.caps, limits)]
                              : t \in kernel.tools}
    BY <1>6 DEF BuildKernel
  <2>2. stack = <<>>
    BY <1>1 DEF Inv, Stacked
  <2>3. Stacked' /\ \A i \in DOMAIN stack' : i = 1
    BY <2>1, <2>2, NoStack
  <2>4. Memoised'
    BY <1>1, <2>1, <2>3, MemoWithoutCalls DEF Inv
  <2>5. Judged'
    BY <1>1, <2>1, FullKept DEF Inv, Judged
  <2>6. LoadErrors(full.st)' = {} /\ SessionTools(full.st)' = SessionTools(full.st)
    BY <1>1, <1>2, LoadKept
  <2>7. ASSUME NEW t \in kernel'.tools
        PROVE  \E u \in SessionTools(full.st) : t.policy = derive_policy_with(u.caps, full.st.limits)
    <3>1. PICK u \in kernel.tools :
            t = [name |-> u.name, policy |-> derive_policy_with(u.caps, limits)]
      BY <2>1
    <3>2. QED
      BY <1>2, <3>1
  <2>8. \A t \in kernel'.tools :
          \E u \in SessionTools(full.st)' : t.policy = derive_policy_with(u.caps, full'.st.limits)
    BY <1>1, <2>6, <2>7
  <2>9. Built'
    BY <2>1, <2>6, <2>8 DEF Built, AcceptedPolicyDerives
  <2>10. QED
    BY <1>1, <2>3, <2>4, <2>5, <2>9 DEF Inv
<1>7. QED
  BY <1>5, <1>6

\* BuildOK reads the registry and the extensions only.
LEMMA BuildKept ==
    ASSUME NEW w, NEW v, BuildOK(w), v.reg = w.reg, v.exts = w.exts
    PROVE  BuildOK(v)
BY Zenon DEF BuildOK

\* Reopen keeps the invariant, whatever the project file says now.
LEMMA ReopenKeepsInv ==
    ASSUME Inv, Reopen
    PROVE  Inv'
<1>1. /\ phase = "launched" /\ phase' = "start" /\ memo' = <<>> /\ stack' = stack
      /\ world' = [world EXCEPT !.project = world.later]
  BY DEF Reopen
<1>2. WorldOK(world)'
  <2>1. "project" \in DOMAIN world /\ DOMAIN world' = DOMAIN world
    BY <1>1 DEF Inv, WorldOK
  <2>2. /\ world'.project = world.later /\ world'.later = world.later
        /\ world'.catalog = world.catalog /\ world'.defaults = world.defaults
        /\ world'.bundles = world.bundles /\ world'.roots = world.roots
        /\ world'.reg = world.reg /\ world'.exts = world.exts
    BY <1>1 DEF Inv, WorldOK
  <2>3. BuildOK(world)'
    <3>1. BuildOK(world)
      BY DEF Inv, WorldOK
    <3>2. QED
      BY <2>2, <3>1, BuildKept
  <2>4. QED
    <3>1. WorldOK(world)
      BY DEF Inv
    <3>2. QED
      BY <2>1, <2>2, <2>3, <3>1 DEF WorldOK
<1>3. stack = <<>>
  BY <1>1 DEF Inv, Stacked
<1>4. Stacked' /\ \A i \in DOMAIN stack' : i = 1
  BY <1>1, <1>3, NoStack
<1>5. DOMAIN memo' = {}
  BY <1>1
<1>6. Memoised'
  BY <1>4, <1>5 DEF Memoised
<1>7. Judged' /\ Built'
  BY <1>1 DEF Judged, Built, AcceptedPolicyDerives
<1>8. QED
  BY <1>2, <1>4, <1>6, <1>7 DEF Inv

\* Every initial state satisfies the invariant.
LEMMA InitInv ==
    ASSUME Init
    PROVE  Inv
<1>1. WorldOK(world) /\ phase = "start" /\ memo = <<>> /\ stack = <<>>
  BY WorldsAssumption DEF Init
<1>2. IsList(<<>>)
  <2>1. <<>> \in Seq({})
    OBVIOUS
  <2>2. QED
    BY <2>1, SequenceIsList
<1>3. DOMAIN memo = {} /\ DOMAIN stack = {}
  BY <1>1
<1>4. Stacked /\ Memoised
  BY <1>1, <1>2, <1>3 DEF Stacked, Memoised
<1>5. Judged /\ Built
  BY <1>1 DEF Judged, Built, AcceptedPolicyDerives
<1>6. QED
  BY <1>1, <1>4, <1>5 DEF Inv

\* A stuttering step keeps the invariant.
LEMMA StutterKeepsInv ==
    ASSUME Inv, UNCHANGED vars
    PROVE  Inv'
<1>1. /\ world' = world /\ phase' = phase /\ memo' = memo /\ stack' = stack /\ full' = full
      /\ kernel' = kernel /\ errs' = errs
  BY DEF vars
<1>2. \A i : LayersAt(i)' = LayersAt(i)
  BY <1>1 DEF LayersAt
<1>3. Stacked'
  BY <1>1, <1>2 DEF Inv, Stacked
<1>4. Memoised'
  BY <1>1 DEF Inv, Memoised
<1>5. Judged'
  BY <1>1, FullKept DEF Inv, Judged
<1>6. Built'
  BY <1>1, LoadKept DEF Inv, Built, AcceptedPolicyDerives
<1>7. QED
  BY <1>1, <1>3, <1>4, <1>5, <1>6 DEF Inv

\* Every step keeps the invariant.
LEMMA NextKeepsInv ==
    ASSUME Inv, [Next]_vars
    PROVE  Inv'
<1>1. CASE SkipSub \/ KnownSub \/ EnterSub \/ LeaveSub
  BY <1>1, WalkSteps, WalkKeepsInv DEF Inv
<1>2. CASE Begin
  BY <1>2, BeginKeepsInv
<1>3. CASE EndFull
  BY <1>3, EndFullKeepsInv
<1>4. CASE EndBase
  BY <1>4, EndBaseKeepsInv
<1>5. CASE Assemble
  BY <1>5, AssembleKeepsInv
<1>6. CASE BuildKernel
  BY <1>6, BuildKernelKeepsInv
<1>7. CASE Reopen
  BY <1>7, ReopenKeepsInv
<1>8. CASE Ended \/ UNCHANGED vars
  BY <1>8, StutterKeepsInv DEF Ended
<1>9. QED
  BY <1>1, <1>2, <1>3, <1>4, <1>5, <1>6, <1>7, <1>8 DEF Next

-----------------------------------------------------------------------------
(* The graph of agents                                                     *)

\* The graph of agents is a function of the world.
LEMMA GraphKept ==
    ASSUME world' = world
    PROVE  /\ Graph' = Graph
           /\ \A n : OnCycle(n)' <=> OnCycle(n)
           /\ \A s : EdgeOK(s)' <=> EdgeOK(s)
<1>1. Graph' = Graph
  BY DEF Graph
<1>2. \A g, names : SpawnedBy(g, names)' = SpawnedBy(g, names)
  BY DEF SpawnedBy
<1>3. \A n : OnCycle(n)' <=> OnCycle(n)
  BY <1>1, <1>2 DEF OnCycle, SpawnedBy
<1>4. QED
  BY <1>1, <1>3 DEF EdgeOK

\* What the graph says of one agent.
LEMMA GraphOf ==
    ASSUME NEW n \in CatalogNames(world)
    PROVE  /\ StageErrors(world, n, "base") = {} =>
                /\ Graph[n].grants = Stage(world, n, "base").grants
                /\ Graph[n].subs = ToSet(Stage(world, n, "base").subs)
           /\ StageErrors(world, n, "base") # {} => Graph[n].grants = {} /\ Graph[n].subs = {}
BY DEF Graph

\* The grants and ceilings in the graph have concrete paths, and its edges
\* lead to entries of the catalog.
LEMMA GraphIsSound ==
    ASSUME WorldOK(world), NEW n \in CatalogNames(world)
    PROVE  /\ Paths(Graph[n].grants)
           /\ \A s \in Graph[n].subs : Paths(s.ceiling) /\ s.catalog \in CatalogNames(world)
<1>1. CASE StageErrors(world, n, "base") = {}
  <2> DEFINE st == Stage(world, n, "base")
  <2>1. StageOK(world, st) /\ Graph[n].grants = st.grants /\ Graph[n].subs = ToSet(st.subs)
    BY <1>1, StageIsOK, GraphOf
  <2> HIDE DEF st
  <2>2. QED
    BY <2>1 DEF StageOK, ToSet
<1>2. CASE StageErrors(world, n, "base") # {}
  BY <1>2, GraphOf DEF Paths
<1>3. QED
  BY <1>1, <1>2

\* A call for a sub-agent works on what the graph says of it.
LEMMA FrameInGraph ==
    ASSUME WorldOK(world), Stacked, NEW i \in DOMAIN stack, i > 1
    PROVE  /\ stack[i].name \in CatalogNames(world)
           /\ Graph[stack[i].name].grants = stack[i].st.grants
           /\ Graph[stack[i].name].subs = ToSet(stack[i].st.subs)
<1>1. FrameOK(world, stack[i], "base")
  <2>1. LayersAt(i) = "base"
    BY DEF LayersAt
  <2>2. QED
    BY <2>1 DEF Stacked
<1>2. QED
  BY <1>1, GraphOf DEF FrameOK

\* Whatever the innermost call looks at is below all the calls.
LEMMA Downwards ==
    ASSUME WorldOK(world), Stacked, Descended, AtSub, NEW i \in DOMAIN stack,
           NEW M \in SUBSET CatalogNames(world), Closed(Graph, M),
           Called(ToSet(stack[i].st.subs)) \subseteq M
    PROVE  Sub.catalog \in M
<1> DEFINE n == Len(stack)
<1>1. /\ n \in DOMAIN stack /\ Top = stack[n] /\ Sub \in ToSet(Top.st.subs)
      /\ DOMAIN stack = 1 .. n /\ n \in Nat
  BY LookedAt, ListFacts DEF Stacked
<1>2. Sub.catalog \in Called(ToSet(Top.st.subs))
  BY <1>1 DEF Called
<1>3. CASE i = n
  BY <1>1, <1>2, <1>3
<1>4. CASE i # n
  <2>1. i < n
    BY <1>1, <1>4
  <2>2. stack[n].name \in M
    BY <1>1, <2>1 DEF Descended
  <2>3. n > 1
    BY <1>1, <2>1
  <2>4. Graph[Top.name].subs = ToSet(Top.st.subs)
    BY <1>1, <2>3, FrameInGraph
  <2>5. Called(Graph[Top.name].subs) \subseteq M
    BY <1>1, <2>2 DEF Closed
  <2>6. QED
    BY <1>2, <2>4, <2>5
<1>5. QED
  BY <1>3, <1>4

\* A sub-agent that is found in progress is part of a cycle.
LEMMA InProgressIsOnCycle ==
    ASSUME WorldOK(world), Stacked, Memoised, Descended, AtSub, Sub.catalog \in DOMAIN memo,
           memo[Sub.catalog].state # "Done"
    PROVE  OnCycle(Sub.catalog)
<1> DEFINE c == Sub.catalog
<1>1. c \in CatalogNames(world)
  BY LookedAt
<1>2. PICK i \in DOMAIN stack : i > 1 /\ stack[i].name = c
  BY DEF Memoised
<1>3. Graph[c].subs = ToSet(stack[i].st.subs)
  BY <1>2, FrameInGraph
<1>4. \A M \in SUBSET CatalogNames(world) :
        Called(Graph[c].subs) \subseteq M /\ Closed(Graph, M) => c \in M
  BY <1>3, Downwards
<1> HIDE DEF c
<1>5. OnCycle(c)
  BY <1>1, <1>4 DEF OnCycle, SpawnedBy
<1>6. QED
  BY <1>5 DEF c

-----------------------------------------------------------------------------
(* The walk keeps to the graph                                             *)

\* Looking at a sub-agent keeps the calls below those that led to them,
LEMMA LooksDescended ==
    ASSUME WorldOK(world), Stacked, Descended, Sits, NEW m, NEW f, Looks(m, f)
    PROVE  Descended'
<1>1. /\ DOMAIN stack' = 1 .. m /\ DOMAIN stack = 1 .. Len(stack) /\ m \in 1 .. Len(stack)
      /\ \A i \in 1 .. m : stack'[i].name = stack[i].name /\ stack'[i].st = stack[i].st
  BY SameCalls
<1>2. world' = world /\ Graph' = Graph
  BY GraphKept DEF Sits
<1>3. \A i \in DOMAIN stack' : i \in DOMAIN stack
  BY <1>1
<1>4. QED
  BY <1>1, <1>2, <1>3 DEF Descended

\* and so does entering one.
LEMMA EntersDescended ==
    ASSUME WorldOK(world), Stacked, Descended, Sits, NEW f, Enters(f)
    PROVE  Descended'
<1> DEFINE n == Len(stack)
<1>1. /\ DOMAIN stack' = 1 .. n + 1 /\ stack'[n + 1] = f /\ DOMAIN stack = 1 .. n /\ n \in Nat
      /\ \A i \in DOMAIN stack : stack'[i] = stack[i]
  BY ListFacts DEF Enters, Went, Stacked
<1>2. world' = world /\ Graph' = Graph
  BY GraphKept DEF Sits
<1>3. AtSub /\ f.name = Sub.catalog
  BY DEF Enters
<1> HIDE DEF n
<1>4. ASSUME NEW i \in DOMAIN stack', NEW j \in DOMAIN stack', i < j,
             NEW M \in SUBSET CatalogNames(world), Closed(Graph, M),
             Called(ToSet(stack'[i].st.subs)) \subseteq M
      PROVE  stack'[j].name \in M
  <2>1. i \in DOMAIN stack /\ stack'[i] = stack[i]
    BY <1>1, <1>4
  <2>2. CASE j = n + 1
    BY <1>1, <1>3, <1>4, <2>1, <2>2, Downwards
  <2>3. CASE j # n + 1
    <3>1. j \in DOMAIN stack /\ stack'[j] = stack[j]
      BY <1>1, <2>3
    <3>2. QED
      BY <1>4, <2>1, <3>1 DEF Descended
  <2>4. QED
    BY <2>2, <2>3
<1>5. QED
  BY <1>2, <1>4 DEF Descended

\* What is known stays known while the memo grows.
LEMMA KnownGrows ==
    ASSUME Sits, DOMAIN memo \subseteq DOMAIN memo', NEW subs, Known(subs)
    PROVE  Known(subs)'
BY GraphKept DEF Known, Sits

\* A call that has found no error knows one more sub-agent.
LEMMA CallsKnow ==
    ASSUME WorldOK(world), Stacked, Sits, DOMAIN memo \subseteq DOMAIN memo',
           \A i \in DOMAIN stack : stack[i].errs = {} => Known(LookedAtBy(stack[i])),
           NEW m, NEW f, Looks(m, f),
           LET s == stack[m].st.subs[stack[m].next]
           IN  f.errs = {} => s.catalog \in DOMAIN memo' /\ EdgeOK(s)
    PROVE  \A i \in DOMAIN stack' : stack'[i].errs = {} => Known(LookedAtBy(stack[i]))'
<1>1. /\ DOMAIN stack' = 1 .. m /\ stack'[m] = f /\ m \in 1 .. Len(stack)
      /\ DOMAIN stack = 1 .. Len(stack) /\ Len(stack) \in Nat
      /\ \A i \in 1 .. m - 1 : stack'[i] = stack[i]
      /\ f.st = stack[m].st /\ stack[m].errs \subseteq f.errs /\ f.next = stack[m].next + 1
  BY SameCalls
<1>2. stack[m].next \in Nat
  BY <1>1, FrameStage
<1> DEFINE s == stack[m].st.subs[stack[m].next]
<1>3. LookedAtBy(f) \subseteq LookedAtBy(stack[m]) \cup {s}
  <2>1. SUFFICES ASSUME NEW k \in 1 .. f.next - 1
                 PROVE  f.st.subs[k] \in LookedAtBy(stack[m]) \cup {s}
    BY DEF LookedAtBy
  <2>2. k = stack[m].next \/ k \in 1 .. stack[m].next - 1
    BY <1>1, <1>2
  <2>3. QED
    BY <1>1, <2>2 DEF LookedAtBy
<1>4. ASSUME f.errs = {}
      PROVE  Known(LookedAtBy(f))'
  <2>1. Known(LookedAtBy(stack[m]))
    BY <1>1, <1>4
  <2>2. s.catalog \in DOMAIN memo' /\ EdgeOK(s)
    BY <1>4
  <2>3. \A r \in LookedAtBy(f) : r.catalog \in DOMAIN memo' /\ EdgeOK(r)
    BY <1>3, <2>1, <2>2 DEF Known
  <2>4. QED
    BY <2>3, GraphKept DEF Known, Sits
<1>5. SUFFICES ASSUME NEW i \in DOMAIN stack', stack'[i].errs = {}
               PROVE  Known(LookedAtBy(stack[i]))'
  OBVIOUS
<1>6. CASE i = m
  BY <1>1, <1>4, <1>5, <1>6
<1>7. CASE i # m
  <2>1. i \in DOMAIN stack /\ stack'[i] = stack[i]
    BY <1>1, <1>7
  <2>2. Known(LookedAtBy(stack[i]))
    BY <1>5, <2>1
  <2>3. QED
    BY <2>1, <2>2, KnownGrows
<1>8. QED
  BY <1>6, <1>7

\* An error on a call that remains covers everything.
LEMMA ErrorCovers ==
    ASSUME WorldOK(world), Stacked, NEW m, NEW f, Looks(m, f), f.errs # {}, NEW n
    PROVE  Covered(n)'
BY SameCalls DEF Covered

\* What was covered stays so while the calls remain that cover it.
LEMMA CoverRemains ==
    ASSUME Sits, DOMAIN memo \subseteq DOMAIN memo', NEW n \in DOMAIN memo,
           memo'[n] = memo[n], Covered(n),
           \A i \in DOMAIN stack :
             /\ stack[i].errs # {} => \E j \in DOMAIN stack' : stack'[j].errs # {}
             /\ Within(Graph[n].grants, stack[i].st.grants) =>
                  \E j \in DOMAIN stack' : Within(Graph[n].grants, stack'[j].st.grants)
    PROVE  Covered(n)'
<1>1. Graph' = Graph
  BY GraphKept DEF Sits
<1>2. CASE \E i \in DOMAIN stack : stack[i].errs # {}
  BY <1>2 DEF Covered
<1>3. CASE /\ memo[n].errs = {} /\ Known(Graph[n].subs)
           /\ \E i \in DOMAIN stack : Within(Graph[n].grants, stack[i].st.grants)
  <2> DEFINE subs == Graph[n].subs
  <2>1. \A s \in subs : s.catalog \in DOMAIN memo' /\ EdgeOK(s)
    BY <1>3 DEF Known
  <2>2. \A s \in Graph'[n].subs : s.catalog \in DOMAIN memo' /\ EdgeOK(s)'
    BY <1>1, <2>1, GraphKept DEF Sits
  <2>3. Known(Graph[n].subs)'
    BY <2>2 DEF Known
  <2>4. QED
    BY <1>1, <1>3, <2>3 DEF Covered
<1>4. QED
  BY <1>2, <1>3 DEF Covered

\* A sub-agent found in the memo is within its ceiling, or on a cycle.
LEMMA KnowsWalking ==
    ASSUME WorldOK(world), Stacked, Memoised, Descended, Walking, phase = "full",
           NEW f, Knows(f)
    PROVE  Walking'
<1> DEFINE m == Len(stack)
           c == Sub.catalog
<1>1. Sits /\ Looks(m, f) /\ memo' = memo /\ c \in DOMAIN memo
      /\ (f.errs = {} => memo[c].errs = {} /\ Within(memo[c].grants, Sub.ceiling))
  BY DEF Knows
<1>2. /\ DOMAIN stack' = DOMAIN stack /\ stack'[m] = f
      /\ \A i \in DOMAIN stack : stack'[i].st = stack[i].st /\ stack[i].errs \subseteq stack'[i].errs
  BY <1>1, SameCalls
<1>3. AtSub
  <2>1. m \in DOMAIN stack /\ Top = stack[m] /\ Top.next \in DOMAIN Top.st.subs
    BY <1>1 DEF Looks, Top
  <2>2. Top.next <= Len(Top.st.subs)
    BY <2>1, FrameStage
  <2>3. QED
    BY <2>1, <2>2 DEF AtSub
<1>4. Sub = stack[m].st.subs[stack[m].next] /\ c \in CatalogNames(world)
  BY <1>3, LookedAt
<1>5. f.errs = {} => EdgeOK(Sub)
  <2>1. CASE memo[c].state # "Done"
    BY <1>1, <1>3, <2>1, InProgressIsOnCycle DEF EdgeOK
  <2>2. CASE memo[c].state = "Done"
    <3>1. memo[c].errs = {} => /\ StageErrors(world, c, "base") = {}
                               /\ memo[c].grants = Stage(world, c, "base").grants
      BY <1>1, <2>2, DoneFields DEF Memoised
    <3>2. QED
      BY <1>1, <1>4, <3>1, GraphOf DEF EdgeOK
  <2>3. QED
    BY <2>1, <2>2
<1>6. \A i \in DOMAIN stack' : stack'[i].errs = {} => Known(LookedAtBy(stack[i]))'
  BY <1>1, <1>4, <1>5, CallsKnow DEF Walking
<1>7. ASSUME NEW n \in DOMAIN memo', memo'[n].state = "Done"
      PROVE  Covered(n)'
  <2>1. Covered(n)
    BY <1>1, <1>7 DEF Walking
  <2>2. QED
    BY <1>1, <1>2, <2>1, CoverRemains
<1>8. QED
  BY <1>6, <1>7 DEF Walking

\* An error on the way to the root excuses whatever is not covered.
LEMMA ErrorWalking ==
    ASSUME WorldOK(world), Stacked, Walking, phase = "full", Sits,
           DOMAIN memo \subseteq DOMAIN memo', NEW m, NEW f, Looks(m, f), f.errs # {}
    PROVE  Walking'
<1>1. \A i \in DOMAIN stack' : stack'[i].errs = {} => Known(LookedAtBy(stack[i]))'
  BY CallsKnow DEF Walking
<1>2. \A n \in DOMAIN memo' : Covered(n)'
  BY ErrorCovers
<1>3. QED
  BY <1>1, <1>2 DEF Walking

\* Entering a sub-agent uncovers nothing.
LEMMA StartsWalking ==
    ASSUME WorldOK(world), Stacked, Walking, phase = "full", NEW f, Starts(f)
    PROVE  Walking'
<1> DEFINE n == Len(stack)
<1>1. /\ DOMAIN stack' = 1 .. n + 1 /\ stack'[n + 1] = f /\ DOMAIN stack = 1 .. n
      /\ \A i \in DOMAIN stack : stack'[i] = stack[i]
  BY ListFacts DEF Starts, Enters, Went, Stacked
<1>2. n \in Nat /\ Sits /\ f.next = 1 /\ f.errs = {}
  BY ListFacts DEF Starts, Enters, Stacked
<1>3. /\ DOMAIN memo' = DOMAIN memo \cup {Sub.catalog} /\ memo'[Sub.catalog] = InProgress
      /\ \A k \in DOMAIN memo : memo'[k] = memo[k]
  BY Remembered DEF Starts
<1> HIDE DEF n
<1>4. ASSUME NEW i \in DOMAIN stack', stack'[i].errs = {}
      PROVE  Known(LookedAtBy(stack[i]))'
  <2>1. CASE i = n + 1
    <3>1. LookedAtBy(f) = {}
      BY <1>2 DEF LookedAtBy
    <3>2. Known({})'
      BY DEF Known
    <3>3. QED
      BY <1>1, <2>1, <3>1, <3>2
  <2>2. CASE i # n + 1
    <3>1. i \in DOMAIN stack /\ stack'[i] = stack[i]
      BY <1>1, <1>2, <2>2
    <3>2. Known(LookedAtBy(stack[i]))
      BY <1>4, <3>1 DEF Walking
    <3>3. QED
      BY <1>2, <1>3, <3>1, <3>2, KnownGrows
  <2>3. QED
    BY <2>1, <2>2
<1>5. ASSUME NEW k \in DOMAIN memo', memo'[k].state = "Done"
      PROVE  Covered(k)'
  <2>1. k \in DOMAIN memo /\ memo'[k] = memo[k]
    BY <1>3, <1>5, DoneFields
  <2>2. Covered(k)
    BY <1>5, <2>1 DEF Walking
  <2>3. \A i \in DOMAIN stack : i \in DOMAIN stack' /\ stack'[i] = stack[i]
    BY <1>1, <1>2
  <2>4. QED
    BY <1>2, <1>3, <2>1, <2>2, <2>3, CoverRemains
<1>6. QED
  BY <1>4, <1>5 DEF Walking

\* A child that returns without an error is within its ceiling, and that is
\* within its caller: the caller covers what the child has covered.
LEMMA ReturnsWalking ==
    ASSUME WorldOK(world), Stacked, Memoised, Walking, phase = "full", NEW f, Returns(f), f.errs = {}
    PROVE  Walking'
<1> DEFINE n == Len(stack)
           m == n - 1
           caller == stack[m]
           sub == caller.st.subs[caller.next]
           c == Top.name
<1>1. /\ Sits /\ Looks(m, f) /\ Remember(c, Done(Top.st.grants, Verdict(Top)))
      /\ Verdict(Top) = {} /\ Within(Top.st.grants, sub.ceiling) /\ Finished(n)
  BY DEF Returns
<1>2. /\ DOMAIN stack' = 1 .. m /\ DOMAIN stack = 1 .. n /\ n \in Nat /\ m \in 1 .. n
      /\ \A i \in 1 .. m : stack'[i].st = stack[i].st /\ stack[i].errs \subseteq stack'[i].errs
  BY <1>1, SameCalls
<1>3. n \in DOMAIN stack /\ m \in DOMAIN stack /\ n > 1 /\ Top = stack[n] /\ stack'[m] = f
  BY <1>1, <1>2, SameCalls DEF Top
<1>4. Calls(caller, Top)
  BY <1>3 DEF Stacked
<1>5. c = sub.catalog /\ Within(sub.ceiling, caller.st.grants)
  BY <1>4 DEF Calls
<1>6. c \in CatalogNames(world) /\ Graph[c].grants = Top.st.grants /\ Graph[c].subs = ToSet(Top.st.subs)
  BY <1>3, FrameInGraph
<1>7. /\ DOMAIN memo' = DOMAIN memo \cup {c} /\ memo'[c] = Done(Top.st.grants, {})
      /\ \A k \in DOMAIN memo : k # c => memo'[k] = memo[k]
  BY ZenonT(30), <1>1, Remembered
<1>8. EdgeOK(sub)
  BY <1>1, <1>5, <1>6 DEF EdgeOK
<1>9. \A i \in DOMAIN stack' : stack'[i].errs = {} => Known(LookedAtBy(stack[i]))'
  BY <1>1, <1>5, <1>7, <1>8, CallsKnow DEF Walking
<1>10. Paths(Top.st.grants) /\ Paths(caller.st.grants) /\ Paths(sub.ceiling)
  <2>1. StageOK(world, Top.st) /\ StageOK(world, caller.st)
    BY <1>3, FrameStage
  <2>2. caller.next \in DOMAIN caller.st.subs
    BY <1>4 DEF Calls
  <2>3. QED
    BY <2>1, <2>2 DEF StageOK
<1>11. Within(Top.st.grants, caller.st.grants)
  BY <1>1, <1>5, <1>10, WithinTransitive
<1>12. Top.errs = {}
  BY <1>1 DEF Verdict
<1>13. Known(Graph[c].subs)
  <2>1. Known(LookedAtBy(Top))
    BY <1>3, <1>12 DEF Walking
  <2>2. /\ DOMAIN Top.st.subs = 1 .. Len(Top.st.subs) /\ Len(Top.st.subs) \in Nat /\ Top.next \in Nat
    BY <1>3, FrameStage
  <2>3. Top.next > Len(Top.st.subs)
    BY <1>1 DEF Finished
  <2>4. ToSet(Top.st.subs) \subseteq LookedAtBy(Top)
    <3>1. SUFFICES ASSUME NEW k \in DOMAIN Top.st.subs
                   PROVE  Top.st.subs[k] \in LookedAtBy(Top)
      BY DEF ToSet
    <3>2. k \in 1 .. Top.next - 1
      BY <2>2, <2>3
    <3>3. QED
      BY <3>2 DEF LookedAtBy
  <2>5. QED
    BY <1>6, <2>1, <2>4 DEF Known
<1> HIDE DEF c, m, n, sub, caller
<1>14. ASSUME NEW k \in DOMAIN memo', memo'[k].state = "Done"
       PROVE  Covered(k)'
  <2>1. CASE k = c
    <3>1. Graph' = Graph
      BY <1>1, GraphKept DEF Sits
    <3>2. memo'[k].errs = {}
      BY <1>7, <2>1, DoneFields
    <3>3. \A s \in Graph'[k].subs : s.catalog \in DOMAIN memo' /\ EdgeOK(s)'
      BY <1>1, <1>7, <1>13, <2>1, <3>1, GraphKept DEF Known, Sits
    <3>4. Known(Graph[k].subs)'
      BY <3>3 DEF Known
    <3>5. m \in DOMAIN stack' /\ Within(Graph'[k].grants, stack'[m].st.grants)
      BY <1>2, <1>3, <1>6, <1>11, <2>1, <3>1 DEF caller, m
    <3>6. QED
      BY <3>2, <3>4, <3>5 DEF Covered
  <2>2. CASE k # c
    <3>1. k \in DOMAIN memo /\ memo'[k] = memo[k]
      BY <1>7, <2>2
    <3>2. Covered(k)
      BY <1>14, <3>1 DEF Walking
    <3>3. \A i \in DOMAIN stack : i = n \/ i \in 1 .. m
      BY <1>2 DEF m
    <3>4. k \in CatalogNames(world) /\ Paths(Graph[k].grants)
      BY <3>1, GraphIsSound DEF Memoised
    <3>5. \A i \in DOMAIN stack :
            stack[i].errs # {} => \E j \in DOMAIN stack' : stack'[j].errs # {}
      BY <1>2, <1>3, <1>12, <3>3
    <3>6. ASSUME NEW i \in DOMAIN stack, Within(Graph[k].grants, stack[i].st.grants)
          PROVE  \E j \in DOMAIN stack' : Within(Graph[k].grants, stack'[j].st.grants)
      <4>1. CASE i = n
        <5>1. Within(Graph[k].grants, Top.st.grants)
          BY <1>3, <3>6, <4>1
        <5>2. Within(Graph[k].grants, caller.st.grants)
          BY <1>10, <1>11, <3>4, <5>1, WithinTransitive
        <5>3. m \in DOMAIN stack' /\ stack'[m].st = caller.st
          BY <1>2, <1>3 DEF caller, m
        <5>4. QED
          BY <5>2, <5>3
      <4>2. CASE i \in 1 .. m
        BY <1>2, <3>6, <4>2
      <4>3. QED
        BY <3>3, <4>1, <4>2
    <3>7. QED
      BY <1>1, <1>7, <3>1, <3>2, <3>5, <3>6, CoverRemains
  <2>3. QED
    BY <2>1, <2>2
<1>15. QED
  BY <1>9, <1>14 DEF Walking

\* The steps of the walk keep its invariant.
LEMMA WalkKeepsWalkInv ==
    ASSUME Inv, WalkInv, NEW f, Walks(f)
    PROVE  WalkInv'
<1>1. /\ WorldOK(world) /\ Stacked /\ Memoised /\ Walking /\ Descended /\ Walked
      /\ Sits /\ Stacked'
  BY WalkKeepsStack DEF Inv, WalkInv
<1>2. phase \in {"full", "base"}
  <2>1. stack # <<>>
    BY ListFacts DEF Inv, Stacked, Walks, Skips, Knows, Fails, Starts, Returns, Looks, Enters, AtSub
  <2>2. QED
    BY <1>1, <2>1 DEF Stacked
<1>3. Descended'
  BY <1>1, LooksDescended, EntersDescended DEF Walks, Skips, Knows, Fails, Starts, Returns
<1>4. Walked'
  <2>1. /\ Graph' = Graph /\ world' = world /\ full' = full /\ phase' = phase
        /\ \A s : EdgeOK(s)' <=> EdgeOK(s)
    BY <1>1, GraphKept DEF Sits
  <2>2. QED
    BY <1>1, <2>1 DEF Walked
<1>5. Walking'
  <2>1. CASE phase = "base"
    BY <1>1, <2>1 DEF Walking, Sits
  <2>2. CASE phase = "full"
    <3>1. CASE Knows(f)
      BY <1>1, <2>2, <3>1, KnowsWalking
    <3>2. CASE Starts(f)
      BY <1>1, <2>2, <3>2, StartsWalking
    <3>3. CASE Returns(f) /\ f.errs = {}
      BY <1>1, <2>2, <3>3, ReturnsWalking
    <3>4. CASE Returns(f) /\ f.errs # {}
      <4>1. Looks(Len(stack) - 1, f) /\ DOMAIN memo \subseteq DOMAIN memo'
        BY <3>4, Remembered DEF Returns
      <4>2. QED
        BY <1>1, <2>2, <3>4, <4>1, ErrorWalking
    <3>5. CASE Skips(f) \/ \E bad : Fails(f, bad)
      <4>1. Looks(Len(stack), f) /\ DOMAIN memo \subseteq DOMAIN memo' /\ f.errs # {}
        BY <3>5, Remembered DEF Skips, Fails
      <4>2. QED
        BY <1>1, <2>2, <4>1, ErrorWalking
    <3>6. QED
      BY <3>1, <3>2, <3>3, <3>4, <3>5 DEF Walks
  <2>3. QED
    BY <1>2, <2>1, <2>2
<1>6. QED
  BY <1>1, <1>2, <1>3, <1>4, <1>5 DEF WalkInv, Sits

\* When the root has looked at all its sub-agents without an error, the memo
\* holds every agent that can be brought to life.
LEMMA EndFullKeepsWalkInv ==
    ASSUME Inv, WalkInv, EndFull
    PROVE  WalkInv'
<1>1. /\ WorldOK(world) /\ Stacked /\ Memoised /\ Walking /\ phase = "full" /\ Finished(1)
      /\ world' = world /\ full'.st = Top.st /\ full'.errs = Verdict(Top)
  BY DEF Inv, WalkInv, EndFull
<1>2. /\ \A i \in DOMAIN stack : i = 1
      /\ 1 \in DOMAIN stack /\ Top = stack[1] /\ Top.next > Len(Top.st.subs)
  BY <1>1, RootIsLeft
<1>3. phase' \in {"base", "resolved", "refused"}
  BY DEF EndFull, Accept, Stop
<1>4. \A i \in DOMAIN stack' : i = 1
  BY <1>1, <1>2, RootIsLeft, NoStack, RootStacked DEF EndFull, Accept, Stop
<1>5. Walking' /\ Descended'
  BY <1>3, <1>4 DEF Walking, Descended
<1>6. Walked'
  <2>1. SUFFICES ASSUME full'.errs = {}
                 PROVE  Walked'
    BY DEF Walked
  <2>2. Top.errs = {}
    BY <1>1, <2>1 DEF Verdict
  <2>3. Known(LookedAtBy(Top))
    BY <1>1, <1>2, <2>2 DEF Walking
  <2>4. ToSet(Top.st.subs) \subseteq LookedAtBy(Top)
    <3>1. /\ DOMAIN Top.st.subs = 1 .. Len(Top.st.subs) /\ Len(Top.st.subs) \in Nat
          /\ Top.next \in Nat
      BY <1>1, <1>2, FrameStage
    <3>2. SUFFICES ASSUME NEW k \in DOMAIN Top.st.subs
                   PROVE  Top.st.subs[k] \in LookedAtBy(Top)
      BY DEF ToSet
    <3>3. k \in 1 .. Top.next - 1
      BY <1>2, <3>1
    <3>4. QED
      BY <3>3 DEF LookedAtBy
  <2>5. \A s \in ToSet(Top.st.subs) : s.catalog \in DOMAIN memo /\ EdgeOK(s)
    BY <2>3, <2>4 DEF Known
  <2>6. ASSUME NEW n \in DOMAIN memo
        PROVE  /\ Known(Graph[n].subs)
               /\ Within(Graph[n].grants, Top.st.grants)
    <3>1. memo[n].state = "Done"
      BY <1>1, <1>2 DEF Memoised
    <3>2. Covered(n)
      BY <1>1, <3>1 DEF Walking
    <3>3. QED
      BY <1>2, <2>2, <3>2 DEF Covered
  <2>7. /\ Graph' = Graph /\ \A s : EdgeOK(s)' <=> EdgeOK(s)
    BY <1>1, GraphKept
  <2> DEFINE M == DOMAIN memo
  <2>8. M \in SUBSET CatalogNames(world)
    BY <1>1 DEF Memoised
  <2>9. Called(ToSet(Top.st.subs)) \subseteq M
    BY <2>5 DEF Called
  <2>10. Closed(Graph, M)
    BY <2>6 DEF Closed, Called, Known
  <2>11. \A n \in M : /\ \A s \in Graph[n].subs : EdgeOK(s)
                      /\ Within(Graph[n].grants, Top.st.grants)
    BY <2>6 DEF Known
  <2> HIDE DEF M
  <2>12. /\ M \in SUBSET CatalogNames(world') /\ Called(ToSet(full'.st.subs)) \subseteq M
         /\ Closed(Graph', M) /\ \A s \in ToSet(full'.st.subs) : EdgeOK(s)'
         /\ \A n \in M : /\ \A s \in Graph'[n].subs : EdgeOK(s)'
                         /\ Within(Graph'[n].grants, full'.st.grants)
    BY <1>1, <2>5, <2>7, <2>8, <2>9, <2>10, <2>11
  <2>13. QED
    BY <2>12 DEF Walked
<1>7. QED
  BY <1>3, <1>5, <1>6 DEF WalkInv

\* A step outside the walk, which keeps the world and the full resolution.
LEMMA OutsideKeepsWalkInv ==
    ASSUME WalkInv, world' = world, full' = full, memo' = memo,
           phase' \notin {"start", "full"}, \A i \in DOMAIN stack' : i = 1,
           phase \notin {"start", "full", "refused"} \/ phase' = "refused"
    PROVE  WalkInv'
<1>1. /\ Graph' = Graph /\ \A s : EdgeOK(s)' <=> EdgeOK(s)
  BY GraphKept
<1>2. Walked'
  BY <1>1 DEF WalkInv, Walked
<1>3. Walking' /\ Descended'
  BY DEF Walking, Descended
<1>4. QED
  BY <1>2, <1>3 DEF WalkInv

\* Begin starts a walk that knows nothing yet.
LEMMA BeginKeepsWalkInv ==
    ASSUME Inv, WalkInv, Begin
    PROVE  WalkInv'
<1>1. phase = "start" /\ memo' = memo /\ memo = <<>>
  BY DEF Begin, WalkInv
<1>2. CASE phase' = "full"
  <2> DEFINE f == Frame(Root, "full")
  <2>1. stack' = <<f>>
    BY <1>2 DEF Begin, Stop
  <2>2. f.next = 1
    BY DEF Frame
  <2> HIDE DEF f
  <2>3. DOMAIN stack' = {1} /\ stack'[1] = f
    BY <2>1
  <2>4. LookedAtBy(f) = {}
    BY <2>2 DEF LookedAtBy
  <2>5. \A i \in DOMAIN stack' : Known(LookedAtBy(stack[i]))'
    BY <2>3, <2>4 DEF Known
  <2>6. DOMAIN memo' = {}
    BY <1>1
  <2>7. Walking' /\ Descended' /\ Walked'
    BY <1>2, <2>3, <2>5, <2>6 DEF Walking, Descended, Walked
  <2>8. QED
    BY <1>2, <2>7 DEF WalkInv
<1>3. CASE phase' = "refused" /\ stack' = <<>>
  <2>1. DOMAIN stack' = {}
    BY <1>3
  <2>2. QED
    BY <1>3, <2>1 DEF WalkInv, Walking, Descended, Walked
<1>4. QED
  BY <1>2, <1>3 DEF Begin, Stop

\* Every step keeps the invariant of the walk.
LEMMA NextKeepsWalkInv ==
    ASSUME Inv, WalkInv, [Next]_vars
    PROVE  WalkInv'
<1>1. CASE SkipSub \/ KnownSub \/ EnterSub \/ LeaveSub
  BY <1>1, WalkSteps, WalkKeepsWalkInv DEF Inv
<1>2. CASE Begin
  BY <1>2, BeginKeepsWalkInv
<1>3. CASE EndFull
  BY <1>3, EndFullKeepsWalkInv
<1>4. CASE EndBase
  <2>1. phase = "base" /\ world' = world /\ memo' = memo /\ full' = full /\ stack' = <<>>
        /\ phase' \in {"resolved", "refused"}
    BY <1>4 DEF EndBase, Accept, Stop
  <2>2. \A i \in DOMAIN stack' : i = 1
    BY <2>1
  <2>3. QED
    BY <2>1, <2>2, OutsideKeepsWalkInv
<1>5. CASE Assemble \/ BuildKernel
  <2>1. /\ phase \in {"resolved", "assembled"} /\ world' = world /\ memo' = memo /\ full' = full
        /\ phase' \in {"assembled", "launched", "failed"} /\ stack' \in {stack, <<>>}
    BY <1>5 DEF Assemble, BuildKernel, Stop
  <2>2. stack = <<>>
    BY <2>1 DEF Inv, Stacked
  <2>3. \A i \in DOMAIN stack' : i = 1
    BY <2>1, <2>2
  <2>4. QED
    BY <2>1, <2>3, OutsideKeepsWalkInv
<1>6. CASE Reopen
  <2>1. phase' = "start" /\ memo' = <<>> /\ stack' = stack /\ phase = "launched"
    BY <1>6 DEF Reopen
  <2>2. stack = <<>>
    BY <2>1 DEF Inv, Stacked
  <2>3. DOMAIN stack' = {}
    BY <2>1, <2>2
  <2>4. QED
    BY <2>1, <2>3 DEF WalkInv, Walking, Descended, Walked
<1>7. CASE Ended \/ UNCHANGED vars
  <2>1. /\ world' = world /\ phase' = phase /\ memo' = memo /\ stack' = stack /\ full' = full
    BY <1>7 DEF Ended, vars
  <2>2. /\ Graph' = Graph /\ \A s : EdgeOK(s)' <=> EdgeOK(s)
    BY <2>1, GraphKept
  <2>3. Walked' /\ Descended'
    BY <2>1, <2>2 DEF WalkInv, Walked, Descended
  <2>4. \A subs : Known(subs) => Known(subs)'
    BY <2>1, <2>2 DEF Known
  <2>5. \A i \in DOMAIN stack' : Known(LookedAtBy(stack[i])) => Known(LookedAtBy(stack[i]))'
    BY <2>1, <2>4
  <2>6. \A n : Covered(n) => Covered(n)'
    BY <2>1, <2>2, <2>4 DEF Covered
  <2>7. Walking'
    BY <2>1, <2>5, <2>6 DEF WalkInv, Walking
  <2>8. QED
    BY <2>1, <2>3, <2>7 DEF WalkInv
<1>8. QED
  BY <1>1, <1>2, <1>3, <1>4, <1>5, <1>6, <1>7 DEF Next

\* Every initial state satisfies the invariant of the walk.
LEMMA InitWalkInv ==
    ASSUME Init
    PROVE  WalkInv
<1>1. phase = "start" /\ memo = <<>> /\ stack = <<>>
  BY DEF Init
<1>2. DOMAIN stack = {}
  BY <1>1
<1>3. QED
  BY <1>1, <1>2 DEF WalkInv, Walking, Descended, Walked

-----------------------------------------------------------------------------
(* The theorems                                                            *)

\* The inductive invariants: of the stack, the memo and what was accepted,
\* and of the walk of the graph of sub-agents.
THEOREM Invariants == Spec => [](Inv /\ WalkInv)
<1>1. Init => Inv /\ WalkInv
  BY InitInv, InitWalkInv
<1>2. Inv /\ WalkInv /\ [Next]_vars => (Inv /\ WalkInv)'
  BY NextKeepsInv, NextKeepsWalkInv
<1>3. QED
  BY <1>1, <1>2, PTL DEF Spec

\* A profile that resolve.rs and the extension loader accepted is refused by
\* no check of registry.rs: no tool is there twice, none exceeds the grants,
\* and the envelope derives.
THEOREM AcceptedProfilesDerive == Spec => []AcceptedPolicyDerives
<1>1. Inv => AcceptedPolicyDerives
  BY DEF Inv, Built
<1>2. QED
  BY <1>1, Invariants, PTL

\* The policy of a tool of a running session, compiled or from an extension,
\* permits no file and no host that the session was not granted, and no host
\* while sandbox.network is off.
THEOREM ToolsAreConfined == Spec => []PolicyWithinGrants
<1>1. ASSUME Inv
      PROVE  PolicyWithinGrants
  <2>1. SUFFICES ASSUME phase = "launched", NEW t \in kernel.tools, NEW x \in Accesses,
                        PolicyPermits(t.policy, x)
                 PROVE  /\ Permits(full.st.grants, x)
                        /\ x.k = "host" => full.st.limits.network
    BY DEF PolicyWithinGrants
  <2>2. Launchable(full.st) /\ LoadErrors(full.st) = {} /\ WorldOK(world)
    BY <1>1, <2>1, ApprovedIsLaunchable DEF Inv, Built
  <2>3. PICK u \in SessionTools(full.st) : t.policy = derive_policy_with(u.caps, full.st.limits)
    BY <1>1, <2>1 DEF Inv, Built
  <2>4. QED
    BY <2>1, <2>2, <2>3, ToolWithinGrants
<1>2. QED
  BY <1>1, Invariants, PTL

\* A project file, however the agent has rewritten it between two openings,
\* gives the session nothing that the profile alone would not give.
THEOREM ProjectsNarrow == Spec => []ProjectOnlyNarrows
<1>1. ASSUME Inv
      PROVE  ProjectOnlyNarrows
  <2> DEFINE base == Stage(world, Root, "base")
  <2>1. SUFFICES ASSUME Accepted
                 PROVE  Narrowed(full.st, base)
    BY DEF ProjectOnlyNarrows, Narrowed
  <2>2. FullKnown /\ Approved /\ WorldOK(world) /\ StageOK(world, full.st)
    BY <1>1, <2>1, ApprovedIsLaunchable DEF Accepted, Inv, Launchable
  <2>3. CASE world.project = NoFile
    <3>1. /\ full.st.grants = base.grants /\ full.st.limits = base.limits
          /\ full.st.backend = base.backend
      BY <2>2, <2>3, SameWithoutProject DEF FullKnown
    <3> HIDE DEF base
    <3>2. Narrowed(full.st, base)
      <4>1. Envelope(full.st) = Envelope(base)
        BY <3>1 DEF Envelope
      <4>2. Envelope(full.st).timeout \in Int /\ Envelope(full.st).scratch \in Int
        BY <2>2, TimeoutAssumption DEF StageOK, Envelope, derive_policy_with, Clamp
      <4>3. QED
        BY <3>1, <4>1, <4>2 DEF Narrowed
    <3>3. QED
      BY <3>2
  <2>4. CASE world.project # NoFile
    <3>1. StageErrors(world, Root, "base") = {} /\ check_project_narrowing(full.st, base) = {}
      BY <2>2, <2>4 DEF Approved
    <3>2. StageOK(world, base)
      BY <2>2, <3>1, StageIsOK DEF FullKnown
    <3>3. full.st.backend = base.backend
      BY <2>2, <2>4, ProjectKeepsBackend DEF FullKnown
    <3> HIDE DEF base
    <3>4. /\ Paths(full.st.grants) /\ Paths(base.grants)
          /\ full.st.limits.timeout \in Int /\ base.limits.timeout \in Int
          /\ full.st.limits.scratch \in Int /\ base.limits.scratch \in Int
      BY <2>2, <3>2 DEF StageOK
    <3>5. /\ Within(full.st.grants, base.grants)
          /\ full.st.limits.timeout <= base.limits.timeout
          /\ full.st.limits.scratch <= base.limits.scratch
          /\ full.st.limits.env \subseteq base.limits.env
          /\ full.st.limits.network => base.limits.network
      BY <3>1, <3>4, NarrowingChecked
    <3>6. QED
      BY <3>3, <3>4, <3>5, NarrowerStage
  <2>5. QED
    BY <2>3, <2>4
<1>2. QED
  BY <1>1, Invariants, PTL

\* No agent that an accepted root can bring to life, around any cycle, may do
\* what the root may not; without a cycle each stays below its ceilings.
\* The agents that can be brought to life are among those that were looked
\* at, and one that is on a cycle and below the root makes the graph cyclic.
THEOREM SpawnsAreCovered == Spec => []CeilingsHold
<1>1. ASSUME Inv, WalkInv
      PROVE  CeilingsHold
  <2>1. SUFFICES ASSUME Accepted
                 PROVE  /\ \A n \in Spawned(Graph) : \A x \in Accesses :
                             Permits(Graph[n].grants, x) => Permits(full.st.grants, x)
                        /\ ~Cyclic(Graph) => \A s \in Edges(Graph) : EdgeNarrows(Graph, s)
    BY DEF CeilingsHold
  <2>2. FullKnown /\ Approved /\ WorldOK(world) /\ StageOK(world, full.st)
    BY <1>1, <2>1, ApprovedIsLaunchable DEF Accepted, Inv, Launchable
  <2>3. PICK M \in SUBSET CatalogNames(world) :
          /\ Called(ToSet(full.st.subs)) \subseteq M /\ Closed(Graph, M)
          /\ \A s \in ToSet(full.st.subs) : EdgeOK(s)
          /\ \A n \in M : /\ \A s \in Graph[n].subs : EdgeOK(s)
                          /\ Within(Graph[n].grants, full.st.grants)
    BY <1>1, <2>1, <2>2 DEF Accepted, WalkInv, Walked, Approved
  <2>4. Spawned(Graph) \subseteq M
    BY <2>3 DEF Spawned, SpawnedBy
  <2>5. ASSUME NEW n \in Spawned(Graph), NEW x \in Accesses, Permits(Graph[n].grants, x)
        PROVE  Permits(full.st.grants, x)
    <3>1. n \in CatalogNames(world) /\ Within(Graph[n].grants, full.st.grants)
      BY <2>3, <2>4
    <3>2. Paths(Graph[n].grants) /\ Paths(full.st.grants)
      BY <2>2, <3>1, GraphIsSound DEF StageOK
    <3>3. QED
      BY <2>5, <3>1, <3>2, WithinPermitsLess
  <2>6. ASSUME ~Cyclic(Graph), NEW s \in Edges(Graph)
        PROVE  EdgeNarrows(Graph, s)
    <3>1. /\ EdgeOK(s) /\ Paths(s.ceiling) /\ s.catalog \in CatalogNames(world)
          /\ s.catalog \in Spawned(Graph)
      <4>1. CASE s \in ToSet(full.st.subs)
        <5>1. Paths(s.ceiling) /\ s.catalog \in CatalogNames(world)
          BY <2>2, <4>1 DEF StageOK, ToSet
        <5>2. s.catalog \in Called(ToSet(full.st.subs))
          BY <4>1 DEF Called
        <5>3. s.catalog \in Spawned(Graph)
          BY <5>1, <5>2 DEF Spawned, SpawnedBy
        <5>4. QED
          BY <2>3, <4>1, <5>1, <5>3
      <4>2. CASE s \notin ToSet(full.st.subs)
        <5>1. PICK n \in Spawned(Graph) : s \in Graph[n].subs
          BY <2>6, <4>2 DEF Edges
        <5>2. n \in M /\ n \in CatalogNames(world)
          BY <2>4
        <5>3. EdgeOK(s) /\ Paths(s.ceiling) /\ s.catalog \in CatalogNames(world)
          BY <2>2, <2>3, <5>1, <5>2, GraphIsSound
        <5>4. s.catalog \in Called(Graph[n].subs)
          BY <5>1 DEF Called
        <5>5. \A N \in SUBSET CatalogNames(world) :
                Called(ToSet(full.st.subs)) \subseteq N /\ Closed(Graph, N) => s.catalog \in N
          BY <5>1, <5>4 DEF Spawned, SpawnedBy, Closed
        <5>6. s.catalog \in Spawned(Graph)
          BY <5>3, <5>5 DEF Spawned, SpawnedBy
        <5>7. QED
          BY <5>3, <5>6
      <4>3. QED
        BY <4>1, <4>2
    <3>2. ~OnCycle(s.catalog)
      BY <2>6, <3>1 DEF Cyclic, OnCycle
    <3>3. Within(Graph[s.catalog].grants, s.ceiling)
      BY <3>1, <3>2 DEF EdgeOK
    <3>4. Paths(Graph[s.catalog].grants)
      BY <2>2, <3>1, GraphIsSound
    <3>5. QED
      BY <3>1, <3>3, <3>4, WithinPermitsLess DEF EdgeNarrows
  <2>7. QED
    BY <2>5, <2>6
<1>2. QED
  BY <1>1, Invariants, PTL
-----------------------------------------------------------------------------
(* The end of the walk                                                     *)

\* The least-number principle, for a set of naturals with a member n.
LEMMA Least ==
    ASSUME NEW T \in SUBSET Nat, NEW n \in T
    PROVE  \E m \in T : \A k \in T : m <= k
<1> DEFINE R == {ss \in Nat \X Nat : ss[1] < ss[2]}
<1>1. IsWellFoundedOn(R, Nat)
  BY NatLessThanWellFounded DEF OpToRel
<1>2. PICK m \in T : \A k \in T : <<k, m>> \notin R
  BY <1>1, WFMin
<1>3. \A k \in T : ~ (k < m)
  BY <1>2
<1>4. QED
  BY <1>3

\* The sums of Unlooked, over the first n calls of a stack.
IsSum(left, s, n) ==
    left = [i \in 0 .. n |-> IF i = 0 THEN 0 ELSE left[i - 1] + 2 + Len(s[i].st.subs) - s[i].next]

\* The sums of a longer stack are those of a shorter one, and one more.
LEMMA SumExtends ==
    ASSUME NEW s, NEW n \in Nat, n > 0, NEW g, IsSum(g, s, n - 1)
    PROVE  \E f : IsSum(f, s, n)
<1> DEFINE f == [i \in 0 .. n |-> IF i < n THEN g[i]
                                  ELSE g[n - 1] + 2 + Len(s[n].st.subs) - s[n].next]
<1>1. \A i \in 0 .. n : i < n => f[i] = g[i]
  OBVIOUS
<1>2. f[n] = g[n - 1] + 2 + Len(s[n].st.subs) - s[n].next
  OBVIOUS
<1>3. DOMAIN f = 0 .. n /\ f = [i \in 0 .. n |-> f[i]]
  OBVIOUS
<1>4. \A i \in 0 .. n - 1 :
        g[i] = IF i = 0 THEN 0 ELSE g[i - 1] + 2 + Len(s[i].st.subs) - s[i].next
  BY DEF IsSum
<1> HIDE DEF f
<1>5. ASSUME NEW i \in 0 .. n
      PROVE  f[i] = IF i = 0 THEN 0 ELSE f[i - 1] + 2 + Len(s[i].st.subs) - s[i].next
  <2>1. CASE i < n
    <3>1. i \in 0 .. n - 1 /\ f[i] = g[i] /\ (i # 0 => f[i - 1] = g[i - 1])
      BY <1>1, <2>1
    <3>2. QED
      BY <1>4, <3>1
  <2>2. CASE i = n
    <3>1. i # 0 /\ f[i - 1] = g[n - 1]
      BY <1>1, <2>2
    <3>2. QED
      BY <1>2, <2>2, <3>1
  <2>3. QED
    BY <2>1, <2>2
<1>6. IsSum(f, s, n)
  BY <1>3, <1>5 DEF IsSum
<1>7. QED
  BY <1>6

\* They exist, of any stack.
LEMMA SumExists ==
    ASSUME NEW s, NEW n \in Nat
    PROVE  \E f : IsSum(f, s, n)
<1> DEFINE T == {k \in Nat : ~ \E f : IsSum(f, s, k)}
<1>1. SUFFICES ASSUME n \in T PROVE FALSE
  OBVIOUS
<1>2. PICK m \in T : \A k \in T : m <= k
  BY <1>1, Least
<1>3. CASE m = 0
  <2>1. IsSum([i \in 0 .. 0 |-> 0], s, 0)
    BY DEF IsSum
  <2>2. QED
    BY <1>2, <1>3, <2>1
<1>4. CASE m > 0
  <2>1. m - 1 \in Nat /\ m - 1 \notin T
    BY <1>2, <1>4
  <2>2. PICK g : IsSum(g, s, m - 1)
    BY <2>1
  <2>3. QED
    BY <1>2, <1>4, <2>2, SumExtends
<1>5. QED
  BY <1>2, <1>3, <1>4

\* One entry of the sums.
LEMMA SumStep ==
    ASSUME NEW s, NEW n \in Nat, NEW a, IsSum(a, s, n)
    PROVE  /\ a[0] = 0
           /\ \A i \in 1 .. n : a[i] = a[i - 1] + 2 + Len(s[i].st.subs) - s[i].next
BY DEF IsSum

\* The sums of two stacks that agree up to call k agree up to there.
LEMMA SumAgrees ==
    ASSUME NEW s, NEW n \in Nat, NEW a, IsSum(a, s, n), NEW t, NEW m \in Nat, NEW b, IsSum(b, t, m),
           NEW k \in Nat, k <= n, k <= m, \A i \in 1 .. k : s[i] = t[i]
    PROVE  a[k] = b[k]
<1> DEFINE T == {i \in 0 .. k : a[i] # b[i]}
<1>1. SUFFICES ASSUME k \in T PROVE FALSE
  OBVIOUS
<1>2. PICK j \in T : \A i \in T : j <= i
  <2>1. T \in SUBSET Nat
    OBVIOUS
  <2> HIDE DEF T
  <2>2. QED
    BY <1>1, <2>1, Least
<1>3. j # 0
  BY <1>2, SumStep
<1>4. j \in 1 .. k /\ j - 1 \in 0 .. k /\ j - 1 \notin T
  BY <1>2, <1>3
<1>5. a[j - 1] = b[j - 1]
  BY <1>4
<1>6. /\ a[j] = a[j - 1] + 2 + Len(s[j].st.subs) - s[j].next
      /\ b[j] = b[j - 1] + 2 + Len(t[j].st.subs) - t[j].next
  BY <1>4, SumStep
<1>7. QED
  BY <1>2, <1>4, <1>5, <1>6

\* They are naturals, and the last one is the greatest.
LEMMA SumGrows ==
    ASSUME NEW s, NEW n \in Nat, NEW a, IsSum(a, s, n),
           \A i \in 1 .. n : /\ Len(s[i].st.subs) \in Nat /\ s[i].next \in Nat
                            /\ s[i].next <= Len(s[i].st.subs) + 1
    PROVE  \A i \in 0 .. n : a[i] \in Nat /\ a[i] <= a[n]
<1>1. \A i \in 0 .. n : a[i] \in Nat
  <2> DEFINE T == {i \in 0 .. n : a[i] \notin Nat}
  <2>1. SUFFICES ASSUME NEW i \in T PROVE FALSE
    OBVIOUS
  <2>2. PICK j \in T : \A k \in T : j <= k
    <3>1. T \in SUBSET Nat
      OBVIOUS
    <3> HIDE DEF T
    <3>2. QED
      BY <2>1, <3>1, Least
  <2>3. j \in 1 .. n /\ j - 1 \in 0 .. n /\ j - 1 \notin T
    BY <2>2, SumStep
  <2>4. a[j - 1] \in Nat /\ a[j] = a[j - 1] + 2 + Len(s[j].st.subs) - s[j].next
    BY <2>3, SumStep
  <2>5. a[j] \in Nat
    <3> DEFINE v == a[j - 1]
               x == Len(s[j].st.subs)
               y == s[j].next
    <3>1. v \in Nat /\ x \in Nat /\ y \in Nat /\ y <= x + 1 /\ a[j] = v + 2 + x - y
      BY <2>3, <2>4
    <3> HIDE DEF v, x, y
    <3>2. QED
      BY <3>1
  <2>6. QED
    BY <2>2, <2>5
<1>2. \A i \in 1 .. n : a[i - 1] <= a[i]
  <2> SUFFICES ASSUME NEW i \in 1 .. n PROVE a[i - 1] <= a[i]
    OBVIOUS
  <2>1. i - 1 \in 0 .. n /\ a[i] = a[i - 1] + 2 + Len(s[i].st.subs) - s[i].next
    BY SumStep
  <2>2. a[i - 1] \in Nat
    BY <1>1, <2>1
  <2>3. /\ Len(s[i].st.subs) \in Nat /\ s[i].next \in Nat
        /\ s[i].next <= Len(s[i].st.subs) + 1
    OBVIOUS
  <2> DEFINE v == a[i - 1]
             x == Len(s[i].st.subs)
             y == s[i].next
  <2>4. v \in Nat /\ x \in Nat /\ y \in Nat /\ y <= x + 1 /\ a[i] = v + 2 + x - y
    BY <2>1, <2>2, <2>3
  <2> HIDE DEF v, x, y
  <2>5. v <= a[i]
    BY <2>4
  <2>6. QED
    BY <2>5 DEF v
<1>3. \A i \in 0 .. n : a[i] <= a[n]
  <2> DEFINE T == {d \in 0 .. n : ~ (a[n - d] <= a[n])}
  <2>1. SUFFICES ASSUME NEW d \in T PROVE FALSE
    <3>1. \A i \in 0 .. n : n - i \in 0 .. n /\ n - (n - i) = i
      OBVIOUS
    <3>2. QED
      BY <3>1
  <2>2. PICK e \in T : \A k \in T : e <= k
    <3>1. T \in SUBSET Nat
      OBVIOUS
    <3> HIDE DEF T
    <3>2. QED
      BY <2>1, <3>1, Least
  <2>3. e # 0 /\ e \in 0 .. n
    <3>1. n \in 0 .. n /\ n - 0 = n
      OBVIOUS
    <3>2. QED
      BY <1>1, <2>2, <3>1
  <2>4. e - 1 \in 0 .. n /\ e - 1 \notin T /\ n - e \in 0 .. n /\ n - (e - 1) \in 1 .. n
    <3>1. e - 1 \in 0 .. n /\ n - e \in 0 .. n /\ n - (e - 1) \in 1 .. n /\ ~ (e <= e - 1)
      BY <2>3
    <3>2. e - 1 \notin T
      BY <2>2, <3>1
    <3>3. QED
      BY <3>1, <3>2
  <2>5. a[n - (e - 1)] <= a[n] /\ a[(n - (e - 1)) - 1] <= a[n - (e - 1)]
    BY <1>2, <2>4
  <2>6. (n - (e - 1)) - 1 = n - e /\ n - (e - 1) \in 0 .. n
    BY <2>2, <2>4
  <2>7. a[n - e] \in Nat /\ a[n] \in Nat /\ a[n - (e - 1)] \in Nat
    BY <1>1, <2>4, <2>6
  <2>8. QED
    BY <2>2, <2>5, <2>6, <2>7
<1>4. QED
  BY <1>1, <1>3

\* Unlooked is the last of the sums.
LEMMA UnlookedIsSum ==
    ASSUME NEW a, IsSum(a, stack, Len(stack)), Len(stack) \in Nat
    PROVE  Unlooked = a[Len(stack)]
<1> DEFINE c == CHOOSE left : IsSum(left, stack, Len(stack))
<1>1. IsSum(c, stack, Len(stack))
  BY SumExists
<1>2. Unlooked = c[Len(stack)]
  BY DEF Unlooked, IsSum
<1> HIDE DEF c
<1>3. QED
  BY <1>1, <1>2, SumAgrees

\* So it is after a step.
LEMMA UnlookedIsSumNext ==
    ASSUME NEW a, IsSum(a, stack', Len(stack')), Len(stack') \in Nat
    PROVE  Unlooked' = a[Len(stack')]
<1> DEFINE c == CHOOSE left : IsSum(left, stack', Len(stack'))
<1>1. IsSum(c, stack', Len(stack'))
  BY SumExists
<1>2. Unlooked' = c[Len(stack')]
  BY DEF Unlooked, IsSum
<1> HIDE DEF c
<1>3. QED
  BY <1>1, <1>2, SumAgrees

\* Looking at a sub-agent, also after a call has returned, leaves less to
\* look at.
LEMMA LooksLess ==
    ASSUME WorldOK(world), Stacked, NEW m, NEW f, Looks(m, f)
    PROVE  Unlooked' < Unlooked
<1> DEFINE n == Len(stack)
<1>1. n \in Nat /\ DOMAIN stack = 1 .. n /\ m \in 1 .. n
  BY ListFacts DEF Stacked, Looks
<1>2. /\ Len(stack') = m /\ stack'[m] = f /\ \A i \in 1 .. m - 1 : stack'[i] = stack[i]
  BY DEF Looks, Went
<1>3. f.st = stack[m].st /\ f.next = stack[m].next + 1
  <2>1. f = [name |-> stack[m].name, layers |-> stack[m].layers, st |-> stack[m].st,
             next |-> stack[m].next + 1, errs |-> f.errs]
    BY DEF Looks, Onward
  <2>2. QED
    BY <2>1
<1>4. \A i \in 1 .. n :
        /\ Len(stack[i].st.subs) \in Nat /\ stack[i].next \in Nat
        /\ stack[i].next <= Len(stack[i].st.subs) + 1
  BY <1>1, FrameStage DEF FrameOK
<1>5. PICK a : IsSum(a, stack, n)
  BY <1>1, SumExists
<1>6. PICK b : IsSum(b, stack', m)
  BY <1>1, SumExists
<1>7. b[m - 1] = a[m - 1]
  <2>1. m - 1 \in Nat /\ m - 1 <= n /\ m - 1 <= m /\ m \in Nat
    BY <1>1
  <2>2. QED
    BY <1>1, <1>2, <1>5, <1>6, <2>1, SumAgrees
<1>8. /\ b[m] = b[m - 1] + 2 + Len(f.st.subs) - f.next
      /\ a[m] = a[m - 1] + 2 + Len(stack[m].st.subs) - stack[m].next
  <2>1. b[m] = b[m - 1] + 2 + Len(stack'[m].st.subs) - stack'[m].next
    BY <1>1, <1>6, SumStep
  <2>2. a[m] = a[m - 1] + 2 + Len(stack[m].st.subs) - stack[m].next
    BY <1>1, <1>5, SumStep
  <2>3. QED
    BY <1>2, <2>1, <2>2
<1>9. a[m - 1] \in Nat /\ a[m] \in Nat /\ a[n] \in Nat /\ a[m] <= a[n]
  BY <1>1, <1>4, <1>5, SumGrows
<1>10. b[m] < a[n]
  <2>1. Len(stack[m].st.subs) \in Nat /\ stack[m].next \in Nat
    BY <1>1, <1>4
  <2> DEFINE v == a[m - 1]
             x == Len(stack[m].st.subs)
             y == stack[m].next
  <2>2. v \in Nat /\ x \in Nat /\ y \in Nat /\ b[m] = v + 2 + x - (y + 1) /\ a[m] = v + 2 + x - y
    BY <1>3, <1>7, <1>8, <1>9, <2>1
  <2> HIDE DEF v, x, y
  <2>3. b[m] < a[m]
    BY <2>2
  <2>4. b[m] \in Int
    BY <2>2
  <2>5. QED
    BY <1>9, <2>3, <2>4
<1>11. Unlooked = a[n] /\ Unlooked' = b[m]
  BY <1>1, <1>2, <1>5, <1>6, UnlookedIsSum, UnlookedIsSumNext
<1>12. QED
  BY <1>10, <1>11

\* The steps of the walk bring its end nearer.
LEMMA WalksCloser ==
    ASSUME WorldOK(world), Stacked, Memoised, NEW f, Walks(f)
    PROVE  Closer
<1>1. phase' = phase
  BY DEF Walks, Skips, Knows, Fails, Starts, Returns, Sits
<1>2. CASE Skips(f) \/ Knows(f)
  <2>1. Looks(Len(stack), f) /\ memo' = memo
    BY <1>2 DEF Skips, Knows
  <2>2. QED
    BY <1>1, <2>1, LooksLess DEF Closer
<1>3. CASE \E bad : Fails(f, bad)
  <2>1. PICK bad : Fails(f, bad)
    BY <1>3
  <2>2. PICK c : c \notin DOMAIN memo /\ DOMAIN memo' = DOMAIN memo \cup {c}
    BY <2>1, Remembered DEF Fails
  <2>3. QED
    BY <1>1, <2>2 DEF Closer
<1>4. CASE Starts(f)
  <2>1. PICK c : c \notin DOMAIN memo /\ DOMAIN memo' = DOMAIN memo \cup {c}
    BY <1>4, Remembered DEF Starts
  <2>2. QED
    BY <1>1, <2>1 DEF Closer
<1>5. CASE Returns(f)
  <2>1. Unlooked' < Unlooked
    BY <1>5, LooksLess DEF Returns
  <2>2. Len(stack) \in DOMAIN stack /\ Len(stack) > 1 /\ Top = stack[Len(stack)]
    BY <1>5, ListFacts DEF Returns, Stacked, Top
  <2>3. Top.name \in DOMAIN memo
    BY <2>2 DEF Memoised
  <2>4. DOMAIN memo' = DOMAIN memo
    <3>1. DOMAIN memo' = DOMAIN memo \cup {Top.name}
      BY <1>5, Remembered DEF Returns
    <3>2. QED
      BY <2>3, <3>1
  <2>5. QED
    BY <1>1, <2>1, <2>4 DEF Closer
<1>6. QED
  BY <1>2, <1>3, <1>4, <1>5 DEF Walks

\* The other steps of a launch go on to a later phase.
LEMMA OthersCloser ==
    ASSUME Begin \/ EndFull \/ EndBase \/ Assemble \/ BuildKernel
    PROVE  Closer
<1>1. CASE Begin
  BY <1>1 DEF Begin, Stop, Closer, Rank
<1>2. CASE EndFull
  BY <1>2 DEF EndFull, Accept, Stop, Closer, Rank
<1>3. CASE EndBase
  BY <1>3 DEF EndBase, Accept, Stop, Closer, Rank
<1>4. CASE Assemble
  BY <1>4 DEF Assemble, Stop, Closer, Rank
<1>5. CASE BuildKernel
  BY <1>5 DEF BuildKernel, Stop, Closer, Rank
<1>6. QED
  BY <1>1, <1>2, <1>3, <1>4, <1>5

\* Every step of a launch brings its end nearer, around any cycle of
\* sub-agents and for any files: the phase advances, or an agent becomes
\* known, or one sub-agent less is left to look at (child_grants).
THEOREM LaunchesEnd == Spec => Terminates
<1>1. Init => opens \in Nat
  BY DEF Init
<1>2. opens \in Nat /\ [Next]_vars => (opens \in Nat)'
  BY DEF Next, vars, Begin, SkipSub, KnownSub, EnterSub, LeaveSub, EndFull, EndBase, Assemble,
    BuildKernel, Reopen, Ended
<1>3. Inv /\ opens \in Nat /\ [Next]_vars => [opens' = opens => Closer]_vars
  <2> SUFFICES ASSUME Inv, opens \in Nat, [Next]_vars
               PROVE  [opens' = opens => Closer]_vars
    OBVIOUS
  <2>1. CASE SkipSub \/ KnownSub \/ EnterSub \/ LeaveSub
    BY <2>1, WalkSteps, WalksCloser DEF Inv
  <2>2. CASE Begin \/ EndFull \/ EndBase \/ Assemble \/ BuildKernel
    BY <2>2, OthersCloser
  <2>3. CASE Reopen
    BY <2>3 DEF Reopen
  <2>4. CASE Ended \/ UNCHANGED vars
    BY <2>4 DEF Ended
  <2>5. QED
    BY <2>1, <2>2, <2>3, <2>4 DEF Next
<1>4. QED
  BY <1>1, <1>2, <1>3, Invariants, PTL DEF Spec, Terminates
=============================================================================
