----------------------------- MODULE HourStore -----------------------------
(***************************************************************************)
(* Hourly merge-reduce (hours.HourStore): every record is reduced once,    *)
(* into the saved state of the hour it belongs to.  Hours are reduced in   *)
(* order, each seeded with the join state the hour before ended with (its  *)
(* chain); a record that arrives for an hour already closed is found by a  *)
(* later hour's read and merged into its own hour's state; whole days are  *)
(* merged from their hours and saved.  The build thread does all of it,    *)
(* one file save at a time, and may be killed, or raise, between any two.  *)
(*                                                                         *)
(* A timestamp is its hour.  Each host has one file, in time order; hosts  *)
(* run apart, so one may write for an hour that another's newer records    *)
(* have closed.  SCAN_SLACK_S and the grace, which forgive disorder within *)
(* a poll round, are zero.                                                 *)
(***************************************************************************)
EXTENDS FiniteSets, Bags, Selections

CONSTANTS Hosts,
          MaxHour,   \* bound: hours are 1 .. MaxHour
          MaxLen,    \* bound: records in a file
          MaxAll,    \* bound: records in all
          MaxGap,    \* MAX_GAP_H
          DayLen,    \* hours in a day
          Keep,      \* retention, in hours
          MaxRot     \* bound: saved files that turn out unreadable

ASSUME HourAssumption ==
  /\ IsFiniteSet(Hosts) /\ MaxHour \in Nat /\ MaxLen \in Nat /\ MaxAll \in Nat
  /\ MaxGap \in Nat /\ DayLen \in Nat \ {0} /\ Keep \in Nat \ {0} /\ MaxRot \in Nat

VARIABLES
  log,      \* host -> its file: the hours of its records
  hours,    \* saved hour -> its state: records taken, carried, stops, patched
  days,     \* saved day -> the records of its hours, merged
  chains,   \* hour -> its saved chain: the hour its join state reaches back to
  chain,    \* HourStore.chain: the newest chain, [hour, from]
  at,       \* where the build thread is
  ask,      \* ensure's range, while it runs
  runs,     \* runs of hours yet to begin, as <<first, one past the last>>
  run,      \* the run under way: its hour, its end, its carry, the stops of the hour before
  got,      \* what the hour's read found: its records, the strays, the stops
  strayed,  \* history: records some read found for hours already closed
  skipped,  \* history: records of earlier hours a read left behind it, in a file new to it
  lost,     \* stragglers_lost: strays whose hour was not saved
  rotted    \* how many saved files turned out unreadable

saves == <<hours, days, chains>>
vars  == <<log, saves, chain, at, ask, runs, run, got, strayed, skipped, lost, rotted>>

NoChain == [hour |-> -1, from |-> 0]
NoRun == [h |-> 0, b |-> 0, from |-> 0, prev |-> <<>>, again |-> FALSE]
Nothing == [recs |-> {}, strays |-> {}, stop |-> <<>>]

Init ==
  /\ log = [b \in Hosts |-> <<>>]
  /\ hours = <<>> /\ days = <<>> /\ chains = <<>> /\ chain = NoChain
  /\ at = "idle" /\ ask = <<0, 0>> /\ runs = {} /\ run = NoRun /\ got = Nothing
  /\ strayed = {} /\ skipped = {} /\ lost = {} /\ rotted = 0

-----------------------------------------------------------------------------
(* The files and the saved states. *)

Have == DOMAIN hours
HourOf(r) == log[r[1]][r[2]]
Without(f, S) == [x \in DOMAIN f \ S |-> f[x]]
With(f, x, v) == [y \in DOMAIN f \cup {x} |-> IF y = x THEN v ELSE f[y]]
Files == {b \in Hosts : log[b] # <<>>}

\* How many of b's records are of hours before h.
Before(b, h) == Cardinality({i \in 1 .. Len(log[b]) : log[b][i] < h})

\* `closed_end`: the first hour not closed.
Closed == Max({Last(log[b]) : b \in Files} \cup {0})

\* `_stale`: h started afresh though the hour before it now has a chain.
Stale(h) == /\ h \in Have /\ h - 1 \in DOMAIN chains \cap Have
            /\ ~hours[h].carried

\* `_newest_chain`.
Newest ==
  LET S == DOMAIN chains \cap Have
  IN IF S = {} THEN NoChain ELSE [hour |-> Max(S), from |-> chains[Max(S)]]

\* `_began`: the saved hour the run that ends before a started afresh in.
Began(a) ==
  LET ks == {k \in chain.hour + 1 .. a - 1 :
               /\ k .. a - 1 \subseteq Have
               /\ ~hours[k].carried /\ \A j \in k + 1 .. a - 1 : hours[j].carried}
  IN IF ks = {} THEN a ELSE Max(ks)

\* The runs of consecutive hours a set of hours is made of.
RunsOf(S) ==
  {x \in S \X {h + 1 : h \in S} :
     x[1] < x[2] /\ x[1] .. x[2] - 1 \subseteq S /\ x[1] - 1 \notin S /\ x[2] \notin S}

\* They are taken in order.
IsNext(x) == x \in runs /\ \A y \in runs : x[1] <= y[1]

-----------------------------------------------------------------------------
(* The collectors, and what may happen to saved files. *)

Write(b, h) ==
  /\ Len(log[b]) < MaxLen /\ FoldSet(LAMBDA c, n : n + Len(log[c]), 0, Hosts) < MaxAll
  /\ (log[b] # <<>> => h >= Last(log[b]))
  /\ log' = [log EXCEPT ![b] = Append(@, h)]
  /\ UNCHANGED <<saves, chain, at, ask, runs, run, got, strayed, skipped, lost, rotted>>

\* `load`, of a window's part: an hour that cannot be read is dropped.
HourUnreadable(h) ==
  /\ rotted < MaxRot /\ at = "idle" /\ h \in Have /\ rotted' = rotted + 1
  /\ hours' = Without(hours, {h})
  /\ UNCHANGED <<log, days, chains, chain, at, ask, runs, run, got, strayed, skipped, lost>>

\* `_load_chain`: so is a chain.
ChainUnreadable(h) ==
  /\ rotted < MaxRot /\ at = "idle" /\ h \in DOMAIN chains /\ rotted' = rotted + 1
  /\ chains' = Without(chains, {h})
  /\ UNCHANGED <<log, hours, days, chain, at, ask, runs, run, got, strayed, skipped, lost>>

\* `prune`: hours, chains and days past retention.
Prune ==
  /\ at = "idle"
  /\ LET old == 1 .. Closed - Keep - 1 IN
     /\ hours' = Without(hours, old) /\ chains' = Without(chains, old)
     /\ days' = Without(days, {d \in DOMAIN days : d * DayLen < Closed - Keep})
  /\ UNCHANGED <<log, chain, at, ask, runs, run, got, strayed, skipped, lost, rotted>>

\* `load_part`: a whole day is merged from its hours and saved.
MergeDay(d) ==
  /\ at = "idle" /\ d \notin DOMAIN days
  /\ LET hs == d * DayLen .. d * DayLen + DayLen - 1 IN
     /\ hs \subseteq Have
     /\ days' = With(days, d, FoldSet(LAMBDA h, bag : bag (+) hours[h].recs, EmptyBag, hs))
  /\ UNCHANGED <<log, hours, chains, chain, at, ask, runs, run, got, strayed, skipped, lost,
                 rotted>>

-----------------------------------------------------------------------------
(* `ensure`. *)

\* A window, or `advance`, asks for the hours from lo to the last closed one:
\* those not saved, and those stale.
Ensure(lo) ==
  /\ at = "idle" /\ lo < Closed
  /\ LET need == {h \in lo .. Closed - 1 : h \notin Have \/ Stale(h)}
     IN need # {} /\ runs' = RunsOf(need)
  /\ at' = "run" /\ ask' = <<lo, Closed>>
  /\ UNCHANGED <<log, saves, chain, run, got, strayed, skipped, lost, rotted>>

Stops(h) == IF h \in Have THEN hours[h].stop ELSE <<>>

Begin(x, h, from) ==
  /\ runs' = runs \ {x}
  /\ run' = [h |-> h, b |-> x[2], from |-> from, prev |-> Stops(h - 1), again |-> FALSE]
  /\ at' = "read"
  /\ UNCHANGED <<log, saves, chain, ask, got, strayed, skipped, lost, rotted>>

HasChain(h) == chain.hour = h \/ h \in DOMAIN chains \cap Have

\* A run carries on from the chain of the hour just before it ...
CarryOn(x) ==
  /\ at = "run" /\ IsNext(x)
  /\ LET a == x[1] IN
     /\ HasChain(a - 1)
     /\ Begin(x, a, IF chain.hour = a - 1 THEN chain.from ELSE chains[a - 1])

\* The first hour of the gap between the newest chain and a, when it is small.
Gap(a) == {h \in {chain.hour + 1} : chain # NoChain /\ chain.hour < a
                                     /\ a - chain.hour - 1 <= MaxGap}

\* ... or continues the newest chain, filling a small gap ...
FillGap(x) ==
  /\ at = "run" /\ IsNext(x)
  /\ ~HasChain(x[1] - 1)
  /\ \E h \in Gap(x[1]) : Begin(x, h, chain.from)

\* ... or starts afresh, where the hours before it without a chain did.
Afresh(x) ==
  /\ at = "run" /\ IsNext(x)
  /\ LET a == x[1] IN
     /\ ~HasChain(a - 1) /\ Gap(a) = {}
     /\ Begin(x, IF chain.hour >= a THEN a ELSE Began(a), 0)

-----------------------------------------------------------------------------
(* `_reduce_run`: one hour. *)

\* `plan_span`: where the read of h starts in b's file: at its first record of
\* the hour, or where the hour before stopped reading if that is earlier.
StartOf(b, h) ==
  Min({Before(b, h)} \cup {run.prev[c] : c \in {b} \cap DOMAIN run.prev})

\* `read_span`: each file up to the first record past the hour.  Records of
\* earlier hours past the stop of the hour before are strays.
Read ==
  /\ at = "read" /\ at' = "chain"
  /\ LET h    == run.h
         span == UNION {{<<b, i>> : i \in StartOf(b, h) + 1 .. Before(b, h + 1)} : b \in Files}
     IN /\ got' = [recs   |-> {r \in span : HourOf(r) = h},
                   strays |-> {r \in span : /\ HourOf(r) < h /\ r[1] \in DOMAIN run.prev
                                            /\ r[2] > run.prev[r[1]]},
                   stop   |-> [b \in Files |-> Before(b, h + 1)]]
        /\ skipped' = skipped \cup UNION {{<<b, i>> : i \in 1 .. StartOf(b, h)}
                                          : b \in Files \ DOMAIN run.prev}
  /\ UNCHANGED <<log, saves, chain, ask, runs, run, strayed, lost, rotted>>

\* The hour the join state handed on reaches back to.
Reach == IF run.from = 0 THEN run.h ELSE run.from

\* The chain is saved first, so that a saved hour always has its own ...
SaveChain ==
  /\ at = "chain" /\ at' = "hour"
  /\ chains' = With(chains, run.h, Reach)
  /\ UNCHANGED <<log, hours, days, chain, ask, runs, run, got, strayed, skipped, lost, rotted>>

\* `_save_hour`: the day an hour is part of no longer matches it.
DaysLeft(h) == Without(days, {h \div DayLen})

\* ... then the hour itself ...
SaveHour ==
  /\ at = "hour" /\ at' = "drop"
  /\ days' = DaysLeft(run.h)
  /\ hours' = With(hours, run.h, [recs |-> SetToBag(got.recs), carried |-> run.from # 0,
                                  stop |-> got.stop, patched |-> {}])
  /\ strayed' = strayed \cup got.strays
  /\ UNCHANGED <<log, chains, chain, ask, runs, run, got, skipped, lost, rotted>>

\* Bug: the hour's own chain goes.
DropOwn == Without(chains, {run.h})

\* No run starts at this hour now.
ChainsLeft == Without(chains, {run.h - 1})

\* ... and the chain of the hour before is dropped.
DropChain ==
  /\ at = "drop" /\ at' = "patch"
  /\ chains' = ChainsLeft
  /\ UNCHANGED <<log, hours, days, chain, ask, runs, run, got, strayed, skipped, lost, rotted>>

\* Bug: what an hour took before is not looked at.
AllOf(k, recs) == recs

\* Those of the records that hour k was not patched with already.
NotDone(k, recs) == recs \ hours[k].patched

\* `_patch`, hour by hour: the strays of an hour are merged into its state.
Patch ==
  /\ at = "patch" /\ got.strays # {}
  /\ LET k    == Min({HourOf(r) : r \in got.strays})
         recs == {r \in got.strays : HourOf(r) = k}
     IN /\ got' = [got EXCEPT !.strays = @ \ recs]
        /\ IF k \notin Have
           THEN lost' = lost \cup recs /\ UNCHANGED <<hours, days>>
           ELSE /\ UNCHANGED lost
                /\ LET new == NotDone(k, recs) IN
                   IF new = {} THEN UNCHANGED <<hours, days>>
                   ELSE /\ days' = DaysLeft(k)
                        /\ hours' = [hours EXCEPT ![k].recs = @ (+) SetToBag(new),
                                                  ![k].patched = @ \cup new]
  /\ UNCHANGED <<log, chains, chain, at, ask, runs, run, strayed, skipped, rotted>>

\* On to the next hour of the run.
NextHour ==
  /\ at = "patch" /\ got.strays = {} /\ run.h + 1 < run.b
  /\ at' = "read" /\ got' = Nothing
  /\ run' = [run EXCEPT !.h = @ + 1, !.from = Reach, !.prev = got.stop]
  /\ UNCHANGED <<log, saves, chain, ask, runs, strayed, skipped, lost, rotted>>

-----------------------------------------------------------------------------
(* `ensure`, after a run. *)

RunOver == at = "patch" /\ got.strays = {} /\ run.h + 1 = run.b

\* Bug: the hour after a run is never reduced again.
Never(h) == FALSE

\* A saved hour that started afresh.
SeamAt(h) == h \in Have /\ ~hours[h].carried

\* If it was the newest run, its chain is the newest one ...
EndRun ==
  /\ RunOver
  /\ run.again \/ chain.hour <= run.h \/ ~SeamAt(run.b)
  /\ chain' = IF chain.hour <= run.h THEN [hour |-> run.h, from |-> Reach] ELSE chain
  /\ at' = "run" /\ run' = NoRun /\ got' = Nothing
  /\ UNCHANGED <<log, saves, ask, runs, strayed, skipped, lost, rotted>>

\* ... else a saved hour after it that started afresh is reduced again.
Again ==
  /\ RunOver /\ ~run.again /\ run.h < chain.hour /\ SeamAt(run.b)
  /\ at' = "read" /\ got' = Nothing
  /\ run' = [h |-> run.b, b |-> run.b + 1, from |-> Reach, prev |-> got.stop, again |-> TRUE]
  /\ UNCHANGED <<log, saves, chain, ask, runs, strayed, skipped, lost, rotted>>

\* `_prune_chains`: the newest stays, and each a run can start from.
Finish ==
  /\ at = "run" /\ runs = {} /\ at' = "idle" /\ ask' = <<0, 0>>
  /\ chains' = Without(chains, {h \in DOMAIN chains :
                 h # chain.hour /\ ~(h \in Have /\ (h + 1 \notin Have \/ Stale(h + 1)))})
  /\ UNCHANGED <<log, hours, days, chain, runs, run, got, strayed, skipped, lost, rotted>>

\* The service is killed, or the run raises: the newest chain is read again.
Stop ==
  /\ at' = "idle" /\ runs' = {} /\ run' = NoRun /\ got' = Nothing /\ chain' = Newest
  /\ ask' = <<0, 0>> /\ UNCHANGED <<log, saves, strayed, skipped, lost, rotted>>

-----------------------------------------------------------------------------
Step ==
  \/ \E x \in runs : CarryOn(x) \/ FillGap(x) \/ Afresh(x)
  \/ Read \/ SaveChain \/ SaveHour \/ DropChain \/ Patch \/ NextHour
  \/ EndRun \/ Again \/ Finish

Next ==
  \/ \E b \in Hosts, h \in 1 .. MaxHour : Write(b, h)
  \/ \E h \in 1 .. MaxHour : HourUnreadable(h) \/ ChainUnreadable(h) \/ Ensure(h) \/ MergeDay(h)
  \/ Prune \/ Step \/ Stop

Spec == Init /\ [][Next]_vars

-----------------------------------------------------------------------------
(* Properties. *)

Records == Hosts \X (1 .. MaxLen)

\* f gives members of B to some of A.
Maps(f, A, B) == DOMAIN f \subseteq A /\ \A x \in DOMAIN f : f[x] \in B

IsHour(s) ==
  /\ s = [recs |-> s.recs, carried |-> s.carried, stop |-> s.stop, patched |-> s.patched]
  /\ Maps(s.recs, Records, Nat) /\ s.carried \in BOOLEAN
  /\ Maps(s.stop, Hosts, 0 .. MaxLen) /\ s.patched \subseteq Records

IsRun(r) ==
  /\ r = [h |-> r.h, b |-> r.b, from |-> r.from, prev |-> r.prev, again |-> r.again]
  /\ r.h \in 0 .. MaxHour /\ r.b \in 0 .. MaxHour + 1 /\ r.from \in 0 .. MaxHour
  /\ Maps(r.prev, Hosts, 0 .. MaxLen) /\ r.again \in BOOLEAN

IsRead(g) ==
  /\ g = [recs |-> g.recs, strays |-> g.strays, stop |-> g.stop]
  /\ g.recs \subseteq Records /\ g.strays \subseteq Records /\ Maps(g.stop, Hosts, 0 .. MaxLen)

\* A run is under way.
Busy == at \in {"read", "chain", "hour", "drop", "patch"}

TypeOK ==
  /\ log \in [Hosts -> Seq(1 .. MaxHour)] /\ \A b \in Hosts : Len(log[b]) <= MaxLen
  /\ Have \subseteq 1 .. MaxHour /\ \A h \in Have : IsHour(hours[h])
  /\ Maps(chains, 1 .. MaxHour, 1 .. MaxHour)
  /\ chain = NoChain \/ chain \in [hour : 1 .. MaxHour, from : 1 .. MaxHour]
  /\ at \in {"idle", "run", "read", "chain", "hour", "drop", "patch"}
  /\ ask \in (0 .. MaxHour) \X (0 .. MaxHour)
  /\ runs \subseteq (1 .. MaxHour) \X (1 .. MaxHour + 1) /\ \A x \in runs : x[1] < x[2]
  /\ IsRun(run) /\ (Busy => 0 < run.h /\ run.h < run.b)
  /\ IsRead(got)
  /\ rotted \in Nat

\* `_patch`: an hour "read again meets the same records again, and must not merge
\* them twice": an hour's state holds records of that hour only, each once from
\* the hour's own read at most, and once as a late one at most.
MergedOnce ==
  \A h \in Have : \A r \in BagToSet(hours[h].recs) :
    /\ HourOf(r) = h
    /\ hours[h].recs[r] <= IF r \in hours[h].patched THEN 2 ELSE 1

\* A saved day is the merge of its hours as they are saved now.
DayIsItsHours ==
  \A d \in DOMAIN days :
    LET hs == d * DayLen .. d * DayLen + DayLen - 1 IN
    hs \subseteq Have =>
      days[d] = FoldSet(LAMBDA h, bag : bag (+) hours[h].recs, EmptyBag, hs)

\* The offsets saved with an hour and what is saved agree: a record of a saved
\* hour that some saved hour's read stopped past is in its hour's state, unless
\* a read found it late, or left it behind in a file it had not seen before.
PassedIsTaken ==
  \A h, k \in Have : \A b \in DOMAIN hours[k].stop : \A i \in 1 .. hours[k].stop[b] :
    log[b][i] = h => \/ BagIn(<<b, i>>, hours[h].recs)
                     \/ <<b, i>> \in strayed \cup skipped

\* R67, "a saved hour always has the state it carries out, so a build stopped
\* after it resumes there": as long as files can be read, a saved hour whose next
\* is not saved has its chain.
ResumesThere ==
  rotted = 0 => \A h \in Have : h + 1 \notin Have => h \in DOMAIN chains

\* `ensure`: "the seam between the two holds no unjoined records": when it
\* returns, every hour it was asked for is saved, and was seeded with the hour
\* before if that was asked for too.
SeamsJoined ==
  [][Finish /\ rotted = 0 => \A h \in ask[1] .. ask[2] - 1 :
       h \in Have /\ (h > ask[1] => hours[h].carried)]_vars

\* `_patch`: "every count, sum and session they belong to takes them, so none is
\* lost": a late record merged into a saved hour is in it for as long as the hour
\* is saved, though it be reduced again.
PatchedStays ==
  [][\A h \in Have : h \in DOMAIN hours' =>
       \A r \in hours[h].patched : BagIn(r, hours'[h].recs)]_vars

-----------------------------------------------------------------------------
(* What the repository says of itself, and the code does not do. *)

\* hours.py: "each record is parsed and reduced ONCE": an hour's state holds no
\* record twice.
ReducedOnce ==
  \A h \in Have : \A r \in BagToSet(hours[h].recs) : hours[h].recs[r] = 1

\* hours.py: "A record that arrives for an hour already closed ... is not lost:
\* the next hour's read finds it": what a read found late is in its hour's state,
\* or counted, once the run is over.
StraysAreMerged ==
  at = "idle" =>
    \A r \in strayed : HourOf(r) \in Have => BagIn(r, hours[HourOf(r)].recs) \/ r \in lost

\* `plan_span`: "so every byte of a file is read by some hour -- the records a
\* host wrote late are found, not skipped over".
NoneSkipped ==
  \A r \in skipped : HourOf(r) \in Have =>
    BagIn(r, hours[HourOf(r)].recs) \/ r \in strayed
=============================================================================
