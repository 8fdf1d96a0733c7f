--------------------------------- MODULE Costs ---------------------------------
(***************************************************************************)
(* What the processes that exited cost, by class, by tool and by user      *)
(* (reducers/resources.py, io.py, tools.py), and by bin for the series.    *)
(*                                                                         *)
(* The fields of a record that are summed and sketched the same way are    *)
(* members of Measure, null where the collector could not read them; a     *)
(* record's io block is one number.  A share is left as its two parts.     *)
(***************************************************************************)
EXTENDS Reducers

CONSTANTS DedupMax,   \* dedup_sessions_max
          SpanCap     \* SERIES_SPAN_CAP

Measure == {"cpu", "run", "wait", "dwait", "flt", "rss", "dur"}
Worst   == {"wait", "dwait", "flt"}       \* the axes whose worst processes are kept

NoClass == [n |-> 0, acc |-> [f \in Measure |-> NoAcc], q |-> [f \in Measure |-> NoQuant], oncpu |-> NoQuant,
            aside |-> 0, top |-> <<>>, stalls |-> 0, io |-> NoAcc, ioq |-> NoQuant]
NoTool  == [n |-> 0, wait |-> 0, max |-> 0]
NoUser  == [n |-> 0, withIo |-> 0, io |-> 0, cls |-> None]

CostsEmpty(bin) ==
  [bin |-> bin, bins |-> NoCount, stallBins |-> NoCount, ticks |-> NoCount, noTs |-> 0, cls |-> <<>>,
   stall |-> <<>>, worst |-> [f \in Worst |-> <<>>], users |-> <<>>, impossible |-> NoCount,
   calls |-> NoCount, cpu |-> NoCount, peak |-> <<>>, tok |-> <<>>, dropped |-> 0, total |-> 0, evicted |-> 0]

\* What is held of x under k.
Held(f, k, none) == IF k \in DOMAIN f THEN f[k] ELSE none
Some(v)          == IF v = None THEN 0 ELSE v
BinOf(s, r)      == r.ts \div s.bin

-----------------------------------------------------------------------------
(* resources.py *)

\* `_tick`: the classes that had a live process at the tick.
TickFeed(s, r) ==
  IF r.ts = None THEN [s EXCEPT !.noTs = @ + 1]
  ELSE [s EXCEPT !.ticks = AddCounts(AddTo(@, <<BinOf(s, r), r.host, "ticks">>, 1),
                                     [k \in {<<BinOf(s, r), r.host, c>> : c \in DOMAIN r.by} |-> r.by[k[3]]])]

\* `_series_add`: how many, and each field that is there with how many had it.
SeriesAdd(s, r) ==
  IF r.ts = None THEN [s EXCEPT !.noTs = @ + 1]
  ELSE [s EXCEPT
         !.bins = AddCounts(AddTo(@, <<BinOf(s, r), r.cls, "n">>, 1),
                    [k \in {<<BinOf(s, r), r.cls, x, f>> : x \in {"sum", "has"}, f \in {m \in Measure : r.m[m] # None}} |->
                       IF k[3] = "sum" THEN r.m[k[4]] ELSE 1]),
         !.stallBins = IF Some(r.m.dwait) > 0 THEN AddTo(@, <<BinOf(s, r), r.tool>>, r.m.dwait) ELSE @]

\* `feed`, what a record adds to its class.  A run time longer than the lifetime it was measured
\* over is set aside, and counted.
Tops(top, f, v) == f \notin DOMAIN top \/ v > top[f].w
ClassFeed(c, r) ==
  LET shared == r.m.dur # None /\ r.m.dur > 0 /\ r.m.run # None
  IN [c EXCEPT !.n = @ + 1, !.acc = [f \in Measure |-> AccAdd(@[f], r.m[f])], !.q = [f \in Measure |-> QAdd(@[f], r.m[f])],
               !.aside = IF shared /\ r.m.run > r.m.dur THEN @ + 1 ELSE @,
               !.oncpu = IF shared /\ r.m.run <= r.m.dur THEN QAdd(@, r.m.run) ELSE @,
               !.top = [f \in DOMAIN @ \cup {x \in Measure : r.m[x] # None} |->
                          IF r.m[f] # None /\ Tops(@, f, r.m[f]) THEN [w |-> r.m[f], who |-> r.pid] ELSE @[f]],
               !.stalls = IF Some(r.m.dwait) > 0 THEN @ + 1 ELSE @,
               !.io = AccAdd(@, r.io), !.ioq = QAdd(@, r.io)]

ResourcesFeed(s, r) ==
  LET t == Held(s.stall, r.tool, NoTool)
  IN [SeriesAdd(s, r) EXCEPT
       !.cls = Upd(@, r.cls, ClassFeed(Held(@, r.cls, NoClass), r)),
       !.impossible = IF r.impossible THEN AddTo(@, r.cls, 1) ELSE @,
       !.stall = IF Some(r.m.dwait) > 0
                 THEN Upd(@, r.tool, [n |-> t.n + 1, wait |-> t.wait + r.m.dwait, max |-> Max({t.max, r.m.dwait})]) ELSE @,
       !.worst = [f \in Worst |-> IF Some(r.m[f]) > 0 THEN TopBy(Append(@[f], [w |-> r.m[f], who |-> r.pid])) ELSE @[f]]]

-----------------------------------------------------------------------------
(* io.py: a user's class is the newest record's. *)

IoFeed(s, r) ==
  LET u == Held(s.users, r.user, NoUser)
  IN [s EXCEPT !.users = Upd(@, r.user, [n |-> u.n + 1, withIo |-> u.withIo + IF r.io = None THEN 0 ELSE 1,
                                         io |-> u.io + Some(r.io), cls |-> r.cls])]

-----------------------------------------------------------------------------
(* tools.py: a shell that was resolved to the command it ran is not counted *)
(* when a child of it that was captured resolved to the same.               *)

\* What its parent may be told of it later; the oldest goes at the cap.
Told(s, r) ==
  LET key == <<r.sid, r.ppid>>
      has == \E i \in DOMAIN s.tok : s.tok[i][1] = key
      full == ~has /\ Len(s.tok) >= DedupMax
  IN IF r.tool = None THEN s
     ELSE [s EXCEPT !.tok = IF has THEN [i \in DOMAIN @ |-> IF @[i][1] = key THEN <<key, @[i][2] \cup {r.tool}>> ELSE @[i]]
                            ELSE Append(IF full THEN Tail(@) ELSE @, <<key, {r.tool}>>),
                    !.evicted = IF full THEN @ + 1 ELSE @]

ChildCounted(s, r) == r.shell /\ \E i \in DOMAIN s.tok : s.tok[i][1] = <<r.sid, r.pid>> /\ r.tool \in s.tok[i][2]

\* Each is counted under its class, and an agent's also under its type.
Units(r) == {<<r.cls>>} \cup IF r.cls = "agent" /\ r.type # None THEN {<<r.cls, r.type>>} ELSE {}
MixCount(t, r) ==
  LET keys == {<<u, r.tool>> : u \in Units(r)}
  IN [t EXCEPT !.calls = AddCounts(@, [k \in keys |-> 1]), !.cpu = AddCounts(@, [k \in keys |-> Some(r.m.cpu)]),
               !.peak = IF r.m.rss = None THEN @ ELSE [k \in DOMAIN @ \cup keys |->
                          IF k \in keys THEN Max({r.m.rss, Held(@, k, 0)}) ELSE @[k]]]
MixOne(t, r)  == IF ChildCounted(t, r) THEN [t EXCEPT !.dropped = @ + 1] ELSE MixCount(t, r)
MixFeed(s, r) == MixOne([Told(s, r) EXCEPT !.total = @ + 1], r)

CostsFeed(s, r) == IF r.ev = "tick" THEN TickFeed(s, r) ELSE MixFeed(IoFeed(ResourcesFeed(s, r), r), r)

-----------------------------------------------------------------------------
(* A later state. *)

HeavierOf(a, b) == IF b.w > a.w THEN b ELSE a
ClassMerge(a, b) ==
  [n |-> a.n + b.n, acc |-> [f \in Measure |-> AccMerge(a.acc[f], b.acc[f])],
   q |-> [f \in Measure |-> QMerge(a.q[f], b.q[f])], oncpu |-> QMerge(a.oncpu, b.oncpu), aside |-> a.aside + b.aside,
   top |-> Joined(a.top, b.top, HeavierOf), stalls |-> a.stalls + b.stalls, io |-> AccMerge(a.io, b.io), ioq |-> QMerge(a.ioq, b.ioq)]
ToolMerge(a, b) == [n |-> a.n + b.n, wait |-> a.wait + b.wait, max |-> Max({a.max, b.max})]
UserMerge(a, b) == [n |-> a.n + b.n, withIo |-> a.withIo + b.withIo, io |-> a.io + b.io, cls |-> b.cls]
MaxCounts(a, b) == Joined(a, b, LAMBDA x, y : Max({x, y}))

CostsMerge(s, o) ==
  LET f == s.bin \div o.bin
  IN [s EXCEPT
       !.bins = AddCounts(@, Rebinned(o.bins, f)), !.stallBins = AddCounts(@, Rebinned(o.stallBins, f)),
       !.ticks = AddCounts(@, Rebinned(o.ticks, f)), !.noTs = @ + o.noTs, !.cls = Joined(@, o.cls, ClassMerge),
       !.impossible = AddCounts(@, o.impossible), !.stall = Joined(@, o.stall, ToolMerge),
       !.worst = [x \in Worst |-> TopBy(@[x] \o o.worst[x])], !.users = Joined(@, o.users, UserMerge),
       !.calls = AddCounts(@, o.calls), !.cpu = AddCounts(@, o.cpu), !.peak = MaxCounts(@, o.peak),
       !.dropped = @ + o.dropped, !.total = @ + o.total, !.evicted = @ + o.evicted]

\* `carry`, `seed` and `strip`: what the children resolved to crosses the hours.
CostsSeed(h) == [CostsEmpty(h.bin) EXCEPT !.tok = h.tok]

-----------------------------------------------------------------------------
(* What is served. *)

\* `series`: a bin a class has no record in is null, and one none of whose records had the
\* field; a tool that did not stall where stalls were measured stalled 0 s.
Bins(s) == {k[1] : k \in DOMAIN s.bins \cup DOMAIN s.ticks}
Axis(held) == IF held = {} THEN {} ELSE Max({Min(held), Max(held) - SpanCap + 1}) .. Max(held)
SeriesOf(s, axis) ==
  LET classes == {k[2] : k \in {x \in DOMAIN s.bins : x[1] \in axis}}
      field(b, c, f) == IF CountAt(s.bins, <<b, c, "has", f>>) > 0 THEN s.bins[<<b, c, "sum", f>>] ELSE None
  IN [clipped |-> Cardinality(Bins(s) \ axis),
      n |-> [b \in axis, c \in classes |-> IF <<b, c, "n">> \in DOMAIN s.bins THEN s.bins[<<b, c, "n">>] ELSE None],
      by |-> [b \in axis, c \in classes, f \in Measure |-> field(b, c, f)],
      stall |-> [b \in axis, t \in DOMAIN s.stall |->
                   IF \E c \in classes : CountAt(s.bins, <<b, c, "has", "dwait">>) > 0 THEN CountAt(s.stallBins, <<b, t>>) ELSE None],
      resident |-> [b \in axis |-> {<<k[2], k[3], s.ticks[k]>> : k \in {x \in DOMAIN s.ticks : x[1] = b}}]]

CostsShown(s) ==
  [cls |-> [c \in DOMAIN s.cls |-> [s.cls[c] EXCEPT !.q = [f \in Measure |-> QuantShown(@[f])], !.oncpu = QuantShown(@),
                                                    !.ioq = QuantShown(@)]],
   stall |-> s.stall, worst |-> [f \in Worst |-> Heaviest(s.worst[f], TopCap)], users |-> s.users,
   impossible |-> s.impossible, series |-> SeriesOf(s, Axis(Bins(s))),
   mix |-> <<s.calls, s.cpu, s.peak, s.dropped, s.total>>]
=============================================================================
