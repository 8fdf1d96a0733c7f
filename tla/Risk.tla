--------------------------------- MODULE Risk ---------------------------------
(***************************************************************************)
(* The risk rules of a cluster (reducers/risk.py): the built-in ones with  *)
(* what the cluster's section of the configuration switches off, changes   *)
(* and adds; the sections that show them; and how often each was matched.  *)
(*                                                                         *)
(* A pattern is the command lines it matches, less those that a cluster    *)
(* variable it names does not; a gate is the lines that hold one of its    *)
(* literals, null where there is none.  A line stands for tool and argv.   *)
(***************************************************************************)
EXTENDS Reducers

CONSTANTS Builtin,      \* by kind, the catalogue in order: id, pattern, gate
          DefaultVars,  \* DEFAULT_VARS: by name, the lines
          InstCap,      \* INSTANCE_CAP
          MatchMax      \* MATCH_CACHE_MAX

Kinds == {"commands", "credentials"}

\* `subst` and compile: the lines, null when a variable is not set.
Resolved(pat, vars) ==
  IF pat.var = None THEN pat.lines
  ELSE IF pat.var \in DOMAIN vars THEN pat.lines \cap vars[pat.var] ELSE None

\* Bug: the gate of a built-in rule stands whatever the variables make of its pattern.
OwnGate(b, vars) == b.gate

\* "A gate is proven only against the pattern it was written for."
GateOf(b, vars) == IF Resolved(b.pat, vars) = Resolved(b.pat, DefaultVars) THEN b.gate ELSE None

\* `_build`, the built-in rules: those not switched off, as overridden.
FromBuiltin(b, over, vars) ==
  LET o == IF b.id \in DOMAIN over THEN over[b.id] ELSE <<>>
  IN [id |-> b.id, pat |-> IF "pat" \in DOMAIN o THEN o.pat ELSE b.pat,
      gate |-> IF "gate" \in DOMAIN o THEN o.gate ELSE IF "pat" \in DOMAIN o THEN None ELSE GateOf(b, vars)]
\* The added ones: a new id each.
RECURSIVE Added(_, _, _)
Added(specs, add, known) ==
  IF add = <<>> THEN specs
  ELSE IF Head(add).id \in known THEN Added(specs, Tail(add), known)
  ELSE Added(Append(specs, Head(add)), Tail(add), known \cup {Head(add).id})
Specs(kind, conf) ==
  LET base == SelectSeq(Builtin[kind], LAMBDA b : b.id \notin conf[kind].disable)
  IN Added([i \in DOMAIN base |-> FromBuiltin(base[i], conf[kind].override, conf.vars)], conf[kind].add,
           {b.id : b \in ToSet(Builtin[kind])})
\* A rule that names an unset variable is left out.
Built(kind, conf) ==
  LET specs == [i \in DOMAIN Specs(kind, conf) |->
                  [id |-> Specs(kind, conf)[i].id, gate |-> Specs(kind, conf)[i].gate, lines |-> Resolved(Specs(kind, conf)[i].pat, conf.vars)]]
  IN SelectSeq(specs, LAMBDA s : s.lines # None)

-----------------------------------------------------------------------------
(* `_sections`: each rule placed in exactly one. *)

\* What a section lists, one by one: an unknown rule and one that is placed are noted.
RECURSIVE PlaceList(_, _, _, _, _)
PlaceList(acc, pool, kind, sid, want) ==
  IF want = <<>> THEN acc
  ELSE LET r   == Head(want)
           new == [acc EXCEPT !.placed[kind] = Upd(@, r, sid)]
       IN PlaceList(IF r \notin pool THEN [acc EXCEPT !.unknown = @ + 1]
                    ELSE IF r \in DOMAIN acc.placed[kind] THEN [acc EXCEPT !.invalid = @ + 1] ELSE new,
                    pool, kind, sid, Tail(want))

\* A section: its id is its own, and one of a kind takes the rest.
PlaceSection(acc, spec, pools) ==
  LET seen == [acc EXCEPT !.ids = @ \cup {spec.id}]
  IN IF spec.kind \notin Kinds \cup {"login_compute"} \/ spec.id \in acc.ids THEN [acc EXCEPT !.invalid = @ + 1]
     ELSE IF spec.kind = "login_compute" THEN [seen EXCEPT !.out = Append(@, spec)]
     ELSE IF spec.rest /\ spec.kind \in DOMAIN acc.rest THEN [seen EXCEPT !.invalid = @ + 1]
     ELSE IF spec.rest THEN [seen EXCEPT !.out = Append(@, spec), !.rest = Upd(@, spec.kind, spec.id)]
     ELSE [PlaceList(seen, pools[spec.kind], spec.kind, spec.id, spec.want) EXCEPT !.out = Append(@, spec)]
RECURSIVE PlaceAll(_, _, _)
PlaceAll(acc, specs, pools) ==
  IF specs = <<>> THEN acc ELSE PlaceAll(PlaceSection(acc, Head(specs), pools), Tail(specs), pools)

\* The rest goes to the section that takes it, if there is one.
Rest(acc, pools) ==
  [acc EXCEPT !.placed = [k \in Kinds |->
     IF k \notin DOMAIN acc.rest THEN acc.placed[k]
     ELSE [r \in pools[k] \cup DOMAIN acc.placed[k] |->
             IF r \in DOMAIN acc.placed[k] THEN acc.placed[k][r] ELSE acc.rest[k]]]]
Sections(specs, pools) ==
  Rest(PlaceAll([out |-> <<>>, ids |-> {}, rest |-> <<>>, placed |-> [k \in Kinds |-> <<>>], invalid |-> 0, unknown |-> 0],
                specs, pools), pools)

\* `RuleSet`, with `_keep`: only the rules that a section shows are matched.  What the page masks
\* is decided before the sections are.
Kept(built, sec, masks) ==
  [rules |-> [k \in Kinds |-> SelectSeq(built[k], LAMBDA r : r.id \in DOMAIN sec.placed[k])],
   placed |-> sec.placed, sections |-> sec.out, invalid |-> sec.invalid, masks |-> masks,
   compute |-> \E i \in DOMAIN sec.out : sec.out[i].kind = "login_compute"]
Masked(built, conf) ==
  {r.id : r \in {x \in ToSet(built.credentials) :
     x.id \in DOMAIN conf.credentials.override \/ x.id \notin {b.id : b \in ToSet(Builtin.credentials)}}}
RuleSet(built, conf) ==
  Kept(built, Sections(conf.sections, [k \in Kinds |-> {r.id : r \in ToSet(built[k])}]), Masked(built, conf))
RulesOf(conf) == RuleSet([k \in Kinds |-> Built(k, conf)], conf)

-----------------------------------------------------------------------------
(* The reducer. *)

NoCompute == [n |-> 0, cpu |-> 0, users |-> {}, classes |-> NoCount]
NoRule    == [n |-> 0, ok |-> 0, rated |-> 0, users |-> {}, classes |-> NoCount, inst |-> <<>>]

RiskEmpty(conf) == [rs |-> RulesOf(conf), match |-> <<>>, lc |-> <<>>, procs |-> <<>>, hits |-> [k \in Kinds |-> <<>>],
                    cpu |-> 0, events |-> 0]

Hit(rule, line) == (rule.gate = None \/ line \in rule.gate) /\ line \in rule.lines
Verdict(s, r) ==
  [k \in Kinds |-> {x.id : x \in {y \in ToSet(s.rs.rules[k]) : (k = "credentials" => r.args) /\ Hit(y, r.line)}}]

\* `_matches`: a line is matched once; the cache is dropped whole when it is full.
Matched(s, r) ==
  IF <<r.line, r.args>> \in DOMAIN s.match THEN s
  ELSE [s EXCEPT !.match = Upd(IF Cardinality(DOMAIN @) >= MatchMax THEN <<>> ELSE @, <<r.line, r.args>>, Verdict(s, r))]

\* The heaviest processes, cut to half when there are too many.
CutProcs(list) == IF Len(list) > TrimAt THEN Heaviest(list, TopCap) ELSE list

\* A process of a tool that computes or moves data.
Computes(s, r) ==
  LET e == IF r.tool \in DOMAIN s.lc THEN s.lc[r.tool] ELSE NoCompute
  IN IF ~s.rs.compute \/ r.bucket \notin {"compute", "transfer"} THEN s
     ELSE [s EXCEPT
            !.lc = Upd(@, r.tool, [n |-> e.n + 1, cpu |-> e.cpu + r.cpu, users |-> e.users \cup {r.user},
                                   classes |-> AddTo(e.classes, r.cls, 1)]),
            !.procs = IF r.bucket = "compute" THEN CutProcs(Append(@, [w |-> r.cpu, who |-> r.pid])) ELSE @]

\* A match: only a record that carries a verdict is rated.
Tripped(h, r) ==
  [n |-> h.n + 1, users |-> h.users \cup {r.user}, classes |-> AddTo(h.classes, r.cls, 1),
   inst |-> First(Append(h.inst, r.pid), InstCap),
   rated |-> IF r.code # None THEN h.rated + 1 ELSE h.rated, ok |-> IF r.code = 0 THEN h.ok + 1 ELSE h.ok]
Trips(s, r, verdict) ==
  [s EXCEPT !.hits = [k \in Kinds |->
     [id \in DOMAIN @[k] \cup verdict[k] |->
        IF id \notin verdict[k] THEN @[k][id]
        ELSE Tripped(IF id \in DOMAIN @[k] THEN @[k][id] ELSE NoRule, r)]]]

\* `feed`.
Judged(s, r)   == Trips(s, r, s.match[<<r.line, r.args>>])
RiskFeed(s, r) == Judged(Matched(Computes([s EXCEPT !.cpu = @ + r.cpu, !.events = @ + 1], r), r), r)

\* `merge`: the samples are the first few in time.
ComputeJoin(a, b) == [n |-> a.n + b.n, cpu |-> a.cpu + b.cpu, users |-> a.users \cup b.users, classes |-> AddCounts(a.classes, b.classes)]
HitJoin(a, b) ==
  [n |-> a.n + b.n, ok |-> a.ok + b.ok, rated |-> a.rated + b.rated, users |-> a.users \cup b.users,
   classes |-> AddCounts(a.classes, b.classes), inst |-> First(a.inst \o b.inst, InstCap)]
RiskMerge(s, o) ==
  [s EXCEPT !.lc = Joined(@, o.lc, ComputeJoin), !.procs = CutProcs(@ \o o.procs), !.cpu = @ + o.cpu, !.events = @ + o.events,
            !.hits = [k \in Kinds |-> Joined(@[k], o.hits[k], HitJoin)]]

\* `result`: by section, the rules it shows that were matched.
RiskShown(s) ==
  [lc |-> s.lc, top |-> Heaviest(s.procs, TopCap), hits |-> s.hits, cpu |-> s.cpu, events |-> s.events,
   sections |-> [i \in DOMAIN s.rs.sections |->
     LET x == s.rs.sections[i]
     IN [id |-> x.id, rules |-> IF x.kind = "login_compute" THEN {}
                                ELSE {r.id : r \in {y \in ToSet(s.rs.rules[x.kind]) : s.rs.placed[x.kind][y.id] = x.id}}]]]
=============================================================================
