---------------------------- MODULE Capabilities ----------------------------
(***************************************************************************)
(* Capability atoms, the partial order on them and the sandbox policy that *)
(* is derived from them (kernel/src/capability.rs, kernel/src/sandbox.rs). *)
(* An atom is a record whose field k names the variant:                    *)
(*   [k |-> "fs", mode |-> "ro" or "rw", path |-> sequence of names]       *)
(*   [k |-> "net", any |-> BOOLEAN, hosts |-> set of [name, port]]         *)
(*   [k |-> "proc", "tool", "spawn" or "secret", name |-> a name]          *)
(* A path is the sequence of its components below the root; port 0 stands  *)
(* for a host written without a port.                                      *)
(***************************************************************************)
EXTENDS Integers, Sequences, FiniteSets, SequencesExt

Fs(mode, path) == [k |-> "fs", mode |-> mode, path |-> path]
Net(hosts)     == [k |-> "net", any |-> FALSE, hosts |-> hosts]
NetAny         == [k |-> "net", any |-> TRUE, hosts |-> {}]
Proc(p)        == [k |-> "proc", name |-> p]
Tool(t)        == [k |-> "tool", name |-> t]
Spawn(a)       == [k |-> "spawn", name |-> a]
Secret(s)      == [k |-> "secret", name |-> s]

(* `seg` is "." or ".." or a name; relative paths never get here.  A path  *)
(* with ".." has no normal form.                                           *)
HasDotDot(path)      == ".." \in ToSet(path)
normalize_path(path) ==
  LET kept   == {i \in DOMAIN path : path[i] # "."}
      nth(k) == CHOOSE i \in kept : Cardinality({j \in kept : j <= i}) = k
  IN  [k \in 1 .. Cardinality(kept) |-> path[nth(k)]]

(* Of a host with and without a port only the one without is kept.         *)
normalize_hosts(hosts) ==
  {h \in hosts : h.port = 0 \/ [h EXCEPT !.port = 0] \notin hosts}

host_covered(a, b) == a.name = b.name /\ (a.port = b.port \/ b.port = 0)

ModeLeq(a, b) == a = "ro" \/ b = "rw"

narrower_than_AnyMode(a, b) ==
  /\ a.k = b.k
  /\ CASE a.k = "fs"  -> IsPrefix(b.path, a.path)
       [] a.k = "net" -> b.any \/ (~a.any /\ \A h \in a.hosts :
                                      \E g \in b.hosts : host_covered(h, g))
       [] OTHER       -> a.name = b.name

narrower_than(a, b) ==
  /\ a.k = b.k
  /\ CASE a.k = "fs"  -> ModeLeq(a.mode, b.mode) /\ IsPrefix(b.path, a.path)
       [] a.k = "net" -> b.any \/ (~a.any /\ \A h \in a.hosts :
                                      \E g \in b.hosts : host_covered(h, g))
       [] OTHER       -> a.name = b.name

covered_by(a, grants) == \E g \in grants : narrower_than(a, g)

-----------------------------------------------------------------------------
(* The policy of one tool, or of the session (the envelope).               *)
CONSTANTS SecretLike,      \* env names that contain KEY, TOKEN, SECRET, ...
          MinTimeout,      \* 1 s
          MaxTimeout       \* 24 h

ASSUME TimeoutAssumption == /\ MinTimeout \in Nat \ {0}
                            /\ MaxTimeout \in Nat
                            /\ MinTimeout <= MaxTimeout

env_name_is_secret_like(name) == name \in SecretLike

Clamp(t) == IF t < MinTimeout THEN MinTimeout ELSE IF t > MaxTimeout THEN MaxTimeout ELSE t

OfKind(caps, k) == {c \in caps : c.k = k}

(* What derive_policy_with answers instead of a policy.                    *)
PolicyErrors(caps, grants, limits) ==
     (IF OfKind(caps, "secret") # {} THEN {"SecretInSandbox"} ELSE {})
  \cup (IF \E c \in caps : ~covered_by(c, grants) THEN {"Exceeds"} ELSE {})
  \cup (IF \E n \in limits.env : env_name_is_secret_like(n) THEN {"EnvNameForbidden"} ELSE {})

(* The widest mode asked for at a path wins; without the network switch    *)
(* of the limits, or without a net atom, there is no network.              *)
MountMode(caps, path) == IF Fs("rw", path) \in caps THEN "rw" ELSE "ro"

NetOf(caps, limits) ==
  LET nets == OfKind(caps, "net")
  IN  IF limits.network /\ nets # {}
        THEN [enabled |-> TRUE, any |-> \E n \in nets : n.any,
              hosts |-> IF \E n \in nets : n.any THEN {} ELSE UNION {n.hosts : n \in nets}]
        ELSE [enabled |-> FALSE, any |-> FALSE, hosts |-> {}]

derive_policy_with(caps, limits) ==
  [mounts   |-> {[path |-> f.path, mode |-> MountMode(caps, f.path)] : f \in OfKind(caps, "fs")},
   net      |-> NetOf(caps, limits),
   programs |-> {p.name : p \in OfKind(caps, "proc")},
   env      |-> limits.env,
   timeout  |-> Clamp(limits.timeout),
   scratch  |-> IF limits.scratch < 1 THEN 1 ELSE limits.scratch]

envelope_caps(grants) == {g \in grants : g.k # "secret"}
-----------------------------------------------------------------------------
(* The meaning of atoms and policies, against which the order is judged.   *)
(* An access is [k |-> "fs", mode, path] of one file, [k |-> "host", name, *)
(* port] of one endpoint, or [k, name] of a program, tool, agent or secret.*)

AtomPermits(c, x) ==
  \/ /\ x.k = "fs" /\ c.k = "fs"
     /\ ModeLeq(x.mode, c.mode) /\ IsPrefix(c.path, x.path)
  \/ /\ x.k = "host" /\ c.k = "net"
     /\ c.any \/ \E h \in c.hosts : h.name = x.name /\ h.port \in {0, x.port}
  \/ /\ x.k \notin {"fs", "host"} /\ c.k = x.k /\ c.name = x.name

Permits(grants, x) == \E c \in grants : AtomPermits(c, x)

(* The mount that decides on a path: the most specific one.                *)
Deciding(policy, path) ==
  {m \in policy.mounts : /\ IsPrefix(m.path, path)
                         /\ \A n \in policy.mounts :
                              IsPrefix(n.path, path) => Len(n.path) <= Len(m.path)}

(* What a process under the policy may open for writing, connect to and    *)
(* be started as.  Reading is not confined: the launcher binds the whole   *)
(* file system read-only.                                                  *)
PolicyPermits(policy, x) ==
  \/ x.k = "fs" /\ \E m \in Deciding(policy, x.path) : ModeLeq(x.mode, m.mode)
  \/ /\ x.k = "host" /\ policy.net.enabled
     /\ policy.net.any \/ \E h \in policy.net.hosts : h.name = x.name /\ h.port \in {0, x.port}
=============================================================================
