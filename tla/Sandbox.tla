-------------------------------- MODULE Sandbox --------------------------------
(***************************************************************************)
(* Whether an agent's tool calls ran in a sandbox (reducers/sandbox.py).   *)
(* A call is the outermost sandbox wrapper, or a tool shell that no        *)
(* wrapper encloses.  A child exits before the process that waits for it,  *)
(* so what ran below a pid is held until that pid exits; it crosses the    *)
(* hours, with the calls it names.                                         *)
(*                                                                         *)
(* One host.  The tables of verdicts by class are one counter.             *)
(***************************************************************************)
EXTENDS ProcIndex

CONSTANTS BelowCap     \* BELOW_CAP

CallKnown == {"isolated", "not_isolated", "failed"}
NoBelow   == [payload |-> FALSE, iso |-> FALSE, unk |-> FALSE, start |-> None, units |-> <<>>]

\* carried: the calls of earlier hours; prior: those a wrapper of this hour absorbed.
BoxEmpty == [counts |-> NoCount, roots |-> <<>>, below |-> <<>>, units |-> <<>>, n |-> 0, capped |-> 0,
             carried |-> {}, prior |-> {}]

Unknown(sb) == sb \in {"unknown", "denied"}
BelowIt(s, up) == {s.units[u] : u \in ToSet(up) \cap DOMAIN s.units}

\* A reused pid: those children were an earlier process's.
Earlier(r, got) == r.start # None /\ got.start # None /\ r.start > got.start + 1

\* What the children of the pid left, and it is taken.
Got(s, r) ==
  IF r.pid \notin DOMAIN s.below \/ Earlier(r, s.below[r.pid]) THEN NoBelow ELSE s.below[r.pid]

\* The call that the exit is, named by the exit itself: a wrapper takes in what ran below it,
\* a tool shell is its own payload.
CallOf(s, r, got) ==
  LET below == BelowIt(s, got.units)
  IN [wrapper |-> r.wrapper, apid |-> r.apid, root |-> r.root, cls |-> r.cls, user |-> r.user, absorbed |-> FALSE,
      iso     |-> r.sb = "sandboxed" \/ (r.wrapper /\ (got.iso \/ \E u \in below : u.iso)),
      payload |-> ~r.wrapper \/ got.payload \/ \E u \in below : u.payload,
      unk     |-> IF r.wrapper THEN got.unk \/ \E u \in below : u.unk ELSE Unknown(r.sb),
      failed  |-> r.wrapper /\ r.code \notin {None, 0}, ok |-> ~r.wrapper \/ r.code = 0]
Uid(s, r) == IF r.ts # None THEN <<r.pid, r.ts>> ELSE <<0, s.n>>
Called(s, r, got) ==
  [s EXCEPT !.n = @ + 1,
            !.units = Upd([u \in DOMAIN @ |-> [@[u] EXCEPT !.absorbed = @ \/ (r.wrapper /\ u \in ToSet(got.units))]],
                          Uid(s, r), CallOf(s, r, got))]

\* What the exit reports to its parent: itself and the calls that nothing has absorbed; those
\* of a session's root are final.
Reported(s, r, up) ==
  LET cur == IF r.ppid \in DOMAIN s.below THEN s.below[r.ppid] ELSE NoBelow
  IN IF r.ppid = None THEN s
     ELSE IF r.ppid \notin DOMAIN s.below /\ Cardinality(DOMAIN s.below) >= BelowCap THEN [s EXCEPT !.capped = @ + 1]
     ELSE [s EXCEPT !.below = Upd(@, r.ppid,
            [payload |-> cur.payload \/ ~r.wrapper, unk |-> cur.unk \/ (~r.wrapper /\ Unknown(r.sb)),
             iso |-> cur.iso \/ r.sb = "sandboxed", start |-> MinOf(cur.start, r.start), units |-> cur.units \o up])]

\* `_calls`.
IsCall(r) == r.wrapper \/ r.role = "tool-shell"
Up(s, r, got) ==
  IF r.role = "agent" THEN <<>>
  ELSE IF IsCall(r) THEN (IF r.wrapper THEN <<>> ELSE got.units) \o <<Uid(s, r)>> ELSE got.units
CallsFrom(s, r, got) == Reported(IF IsCall(r) THEN Called(s, r, got) ELSE s, r, Up(s, r, got))
Calls(s, r) == CallsFrom([s EXCEPT !.below = Dropped(@, r.pid)], r, Got(s, r))

\* `feed`.
Rooted(s, r) == IF r.role = "agent" /\ r.pid = r.apid THEN [s EXCEPT !.roots = Upd(@, r.pid, r.approval)] ELSE s
BoxFeed(s, r) ==
  IF r.ev # "exit" THEN Rooted(s, r)
  ELSE LET t == [Rooted(s, r) EXCEPT !.counts = AddTo(@, <<r.cls, r.sb, r.approval>>, 1)]
       IN IF r.cls = "agent" THEN Calls(t, r) ELSE t

\* `carry`, `carry_done` and `seed`: what the hour after begins with.
BoxSeed(h) ==
  LET named == UNION {ToSet(h.below[p].units) : p \in DOMAIN h.below} \cap DOMAIN h.units
  IN [BoxEmpty EXCEPT !.below = h.below, !.units = [u \in named |-> h.units[u]], !.n = h.n, !.carried = named]
\* `strip`: what an hour saves.
BoxStrip(s) ==
  [s EXCEPT !.prior = {u \in s.carried \cap DOMAIN s.units : s.units[u].absorbed}, !.carried = {}, !.below = <<>>,
            !.units = [u \in DOMAIN @ \ s.carried |-> @[u]]]
\* `merge`: the newest record of a root wins; the same exit twice is one call.
BoxMerge(s, o) ==
  LET units == Joined(s.units, o.units, LAMBDA a, b : a)
  IN [s EXCEPT !.counts = AddCounts(@, o.counts), !.roots = Joined(@, o.roots, LAMBDA a, b : b),
               !.units = [u \in DOMAIN units |-> [units[u] EXCEPT !.absorbed = @ \/ u \in o.prior]],
               !.n = Max({@, o.n}), !.capped = @ + o.capped]

-----------------------------------------------------------------------------
(* What is served. *)

\* `_outcome`.
CallOutcome(u) ==
  CASE u.iso                               -> "isolated"
    [] ~u.iso /\ u.payload /\ u.unk         -> "unknown"
    [] ~u.iso /\ u.payload /\ ~u.unk        -> "not_isolated"
    [] ~u.iso /\ ~u.payload /\ u.failed     -> "failed"
    [] ~u.iso /\ ~u.payload /\ ~u.failed    -> IF u.ok THEN "no_payload" ELSE "unknown"

\* `session_state`, over the calls whose outcome is known.
SessionState(calls) ==
  LET n(S) == MapThenSumSet(LAMBDA k : CountAt(calls, k), S)
  IN CASE n(CallKnown) = 0 -> IF n({"unknown"}) > 0 THEN "unknown" ELSE "no_calls"
       [] n(CallKnown) > 0 /\ n({"isolated"}) = n(CallKnown) -> "sandboxed"
       [] n({"isolated"}) > 0 /\ n({"isolated"}) < n(CallKnown) -> "partial"
       [] n(CallKnown) > 0 /\ n({"isolated"}) = 0 -> IF n({"failed"}) > 0 THEN "failed" ELSE "unsandboxed"

\* `_sessions`: the roots seen, and the owner of any call whose root was not.
Counting(s)        == {u \in DOMAIN s.units : ~s.units[u].absorbed}
OwnerOf(s, e, u)   == IF s.units[u].apid = None THEN None ELSE Owner(e, s.units[u].apid, s.units[u].root)[1]
CallsOf(s, e, own) ==
  LET mine == {u \in Counting(s) : OwnerOf(s, e, u) = own}
      of(k) == Cardinality({u \in mine : CallOutcome(s.units[u]) = k})
  IN [k \in {CallOutcome(s.units[u]) : u \in mine} |-> of(k)]
Boxes(s, e, calls) ==
  [p \in DOMAIN calls |-> [approval |-> IF p \in DOMAIN s.roots THEN s.roots[p] ELSE "unknown",
                           calls |-> calls[p], state |-> SessionState(calls[p])]]
BoxShown(s, e) ==
  [counts |-> s.counts, capped |-> s.capped,
   sessions |-> Boxes(s, e, [p \in DOMAIN s.roots \cup {OwnerOf(s, e, u) : u \in Counting(s)} |-> CallsOf(s, e, p)])]
=============================================================================
