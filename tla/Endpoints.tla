------------------------------ MODULE Endpoints ------------------------------
(***************************************************************************)
(* Network bytes by endpoint (ebpf_trace.py, schema 7).  The kernel keeps  *)
(* a bounded table of cumulative counts per process and endpoint and       *)
(* announces each new entry on a ring that may overflow; userspace keeps   *)
(* an index of each process's entries, reads a process's own before        *)
(* writing its record, the reported processes' at each tick, and the whole *)
(* table now and then.  From the figures on the entry of a process come    *)
(* its lifetime list and the netio series of what moved since.             *)
(*                                                                         *)
(* A process that ends after its exit event may send until its record is   *)
(* due.  A pid is not reused while its exit is held, nor does a send fall  *)
(* between the read of a due process's entries and their deletion.         *)
(***************************************************************************)
EXTENDS Integers, FiniteSets, Functions

CONSTANTS Tgids, Addrs,
          TableMax,    \* the size of netp
          RingMax,     \* how many announcements netp_new holds
          SweepTicks,  \* NETP_SWEEP_TICKS
          MaxSent,     \* bound: bytes sent by a process
          MaxTicks     \* bound: residency ticks

ASSUME EndpointsAssumption ==
  /\ IsFiniteSet(Tgids) /\ IsFiniteSet(Addrs)
  /\ {TableMax, RingMax, MaxSent, MaxTicks} \subseteq Nat /\ SweepTicks \in Nat \ {0}

VARIABLES
  reported,   \* those actor_of() gives an actor
  task,       \* each process: off, running, exiting (its exit event is out), gone
  sent,       \* the bytes it sent: netb
  netp,       \* the table: 0 where there is no entry
  dropped,    \* netp_drop: the bytes that found the table full
  ring, gap,  \* announcements not read yet; whether one was dropped
  index,      \* _netp_index
  entry,      \* the process table's entries
  unclaimed,  \* _netp_unclaimed
  orphans,    \* _netp_orphans
  unwanted,   \* history: the bytes of processes that are not reported
  sweep,      \* _netp_sweep: tick, full_calls, lost, and whether a fallback read is allowed
  series,     \* the sum of a process's netio records
  record      \* its exit or truncated record, or NoRecord

evars == <<reported, task, sent, netp, dropped, ring, gap, index, entry, unclaimed, orphans,
           unwanted, sweep, series, record>>

Keys     == Tgids \X Addrs
Zero     == [a \in Addrs |-> 0]
NoRecord == [listed |-> -1, missed |-> 0, inSeries |-> FALSE, last |-> FALSE]

NoEntry == [is |-> "unknown", k |-> Zero, rep |-> Zero, inSeries |-> FALSE, polled |-> FALSE]

Entries == {x \in Keys : netp[x] > 0}
Of(p)   == {p} \X Addrs

-----------------------------------------------------------------------------
(* What a read does to the state S = [netp, index, entry, unclaimed,       *)
(* orphans, lost].                                                         *)

St == [netp |-> netp, index |-> index, entry |-> entry, unclaimed |-> unclaimed,
       orphans |-> orphans, unwanted |-> unwanted, lost |-> sweep.lost]

\* Bug: a read adds.
FoldAdds(e, n, p, keys) ==
  [e EXCEPT !.k = [a \in Addrs |-> IF <<p, a>> \in keys THEN @[a] + n[<<p, a>>] ELSE @[a]]]

\* What an entry of the process table is left with by a read of keys: the counts are
\* cumulative, so a read replaces.
Fold(e, n, p, keys) ==
  [e EXCEPT !.k = [a \in Addrs |-> IF <<p, a>> \in keys THEN n[<<p, a>>] ELSE @[a]]]

FoldedInto(S, ps, keys) ==
  [S EXCEPT !.entry = [p \in Tgids |-> IF p \in ps THEN Fold(@[p], S.netp, p, keys) ELSE @[p]]]

Gone(S, keys) == [S EXCEPT !.netp = [x \in Keys |-> IF x \in keys THEN 0 ELSE @[x]],
                           !.index = @ \ keys]

\* "An announcement may be lost": what a full read finds is indexed.
Reindexed(S, known) == S.index \cup known

\* `netpeer_read`: an entry of a process whose record is written is an orphan, and so is
\* one of an unknown process the second time it is seen; the rest is folded and indexed.
Orphaned(S, x) ==
  CASE S.entry[x[1]].is = "unknown" -> x \in S.unclaimed
    [] OTHER -> S.entry[x[1]].is = "done"

NetpeerRead(S) ==
  LET there  == {x \in Keys : S.netp[x] > 0}
      orphan == {x \in there : Orphaned(S, x)}
      wait   == {x \in there \ orphan : S.entry[x[1]].is = "unknown"}
      known  == (there \ orphan) \ wait
      F      == FoldedInto(S, {p \in Tgids : S.entry[p].is \in {"live", "held"}}, known)
  IN Gone([F EXCEPT !.unclaimed = wait, !.lost = FALSE, !.index = Reindexed(S, known),
                    !.orphans = @ + SumFunctionOnSet(S.netp, orphan)], orphan)

\* `_netp_read_pid`, of each of ps: a process's own entries, by the index.
ReadPid(S, ps) ==
  LET theirs == {x \in S.index : x[1] \in ps}
      there  == {x \in theirs : S.netp[x] > 0}
  IN [FoldedInto(S, ps, there) EXCEPT !.index = (@ \ theirs) \cup there]

\* `_netp_collect`, of a process about to be written; `ready`: no fallback for a second.
Falls(S, p)          == sent[p] > 0 /\ (S.lost \/ S.index \cap Of(p) = {})
Collect(S, p, ready) ==
  LET R == ReadPid(S, {p}) IN IF ready /\ Falls(S, p) THEN NetpeerRead(R) ELSE R

\* `_netp_release`.
Release(S, p) ==
  LET held == {<<p, a>> : a \in {b \in Addrs : S.entry[p].k[b] > 0}}
  IN [Gone(S, held \cup (S.index \cap Of(p))) EXCEPT !.entry[p].is = "done"]

\* The same, of a process that gets no record.
Forgotten(S, p) ==
  LET R == Release(S, p)
  IN [R EXCEPT !.unwanted = @ + SumFunctionOnSet(S.netp, Keys) - SumFunctionOnSet(R.netp, Keys)]

Grown(e) == {a \in Addrs : e.k[a] > e.rep[a]}
Delta(e) == SumFunctionOnSet(e.k, Addrs) - SumFunctionOnSet(e.rep, Addrs)

\* `_emit_netio`: what the record moves the series by, and what it leaves on the entry.
Emitted(e) == IF Grown(e) = {} THEN e ELSE [e EXCEPT !.rep = e.k, !.inSeries = TRUE]

\* `_net_endpoints_block`.
Unlisted(n, listed) == IF n > listed THEN n - listed ELSE 0
NetBlock(e, n, last) ==
  LET listed == SumFunctionOnSet(e.k, Addrs) IN
  [listed |-> listed, missed |-> Unlisted(n, listed), inSeries |-> e.inSeries, last |-> last]

Becomes(S) ==
  /\ netp' = S.netp /\ index' = S.index /\ entry' = S.entry /\ unclaimed' = S.unclaimed
  /\ orphans' = S.orphans /\ unwanted' = S.unwanted

-----------------------------------------------------------------------------
EInit(on) ==
  /\ reported \in SUBSET (IF on THEN Tgids ELSE {})
  /\ task = [p \in Tgids |-> IF on THEN "running" ELSE "off"] /\ sent = [p \in Tgids |-> 0]
  /\ netp = [x \in Keys |-> 0] /\ dropped = 0 /\ ring = {} /\ gap = FALSE /\ index = {}
  /\ entry = [p \in Tgids |-> NoEntry] /\ unclaimed = {} /\ orphans = 0 /\ unwanted = 0
  /\ sweep = [tick |-> 0, full |-> 0, lost |-> FALSE, ready |-> TRUE]
  /\ series = [p \in Tgids |-> 0] /\ record = [p \in Tgids |-> NoRecord]

\* `_netp_add`.
Send(p, a) ==
  LET x == <<p, a>>
      new == netp[x] = 0
      full == new /\ Cardinality(Entries) >= TableMax
  IN /\ task[p] \in {"running", "exiting"} /\ sent[p] < MaxSent
     /\ sent' = [sent EXCEPT ![p] = @ + 1]
     /\ dropped' = IF full THEN dropped + 1 ELSE dropped
     /\ netp' = IF full THEN netp ELSE [netp EXCEPT ![x] = @ + 1]
     /\ IF new /\ ~full
        THEN IF Cardinality(ring) < RingMax THEN ring' = ring \cup {x} /\ UNCHANGED gap
             ELSE gap' = TRUE /\ UNCHANGED ring
        ELSE UNCHANGED <<ring, gap>>
     /\ UNCHANGED <<reported, task, index, entry, unclaimed, orphans, unwanted, sweep, series, record>>

\* A round of the main loop: `_cb_netp_new`, `_netp_index_add`, `_lost_netp_new`.
Poll ==
  /\ \E p \in Tgids : task[p] # "off"
  /\ index' = index \cup ring /\ ring' = {} /\ gap' = FALSE
  /\ sweep' = [sweep EXCEPT !.lost = @ \/ gap]
  /\ entry' = [p \in Tgids |-> [entry[p] EXCEPT !.polled = @ \/ entry[p].is = "held"]]
  /\ UNCHANGED <<reported, task, sent, netp, dropped, unclaimed, orphans, unwanted, series, record>>

\* An event of the process is handled, or a resync finds it.
Know(p) ==
  /\ task[p] = "running" /\ entry[p].is = "unknown"
  /\ entry' = [entry EXCEPT ![p].is = "live"]
  /\ UNCHANGED <<reported, task, sent, netp, dropped, ring, gap, index, unclaimed, orphans, unwanted,
                 sweep, series, record>>

\* The exit event, and `_stage_exit`.
StageExit(p) ==
  /\ task[p] = "running"
  /\ task' = [task EXCEPT ![p] = "exiting"] /\ entry' = [entry EXCEPT ![p].is = "held"]
  /\ UNCHANGED <<reported, sent, netp, dropped, ring, gap, index, unclaimed, orphans, unwanted, sweep,
                 series, record>>

End(p) ==
  /\ task[p] = "exiting" /\ task' = [task EXCEPT ![p] = "gone"]
  /\ UNCHANGED <<reported, sent, netp, dropped, ring, gap, index, entry, unclaimed, orphans, unwanted,
                 sweep, series, record>>

\* `_retire`: the exit event was lost, and the process is found gone.
Retire(p) ==
  /\ task[p] = "running" /\ entry[p].is = "live" /\ task' = [task EXCEPT ![p] = "gone"]
  /\ Becomes(Forgotten(St, p))
  /\ UNCHANGED <<reported, sent, dropped, ring, gap, sweep, series, record>>

\* `drain_exits` and `_write_exit`, of one process: a poll later than its exit.
Drain(p) ==
  LET S == Collect(St, p, sweep.ready)
      e == IF S.entry[p].inSeries THEN Emitted(S.entry[p]) ELSE S.entry[p]
  IN /\ entry[p].is = "held" /\ entry[p].polled
     /\ sweep' = [sweep EXCEPT !.lost = S.lost, !.ready = @ /\ ~Falls(St, p)]
     /\ IF p \in reported
        THEN /\ Becomes(Release([S EXCEPT !.entry[p] = e], p))
             /\ record' = [record EXCEPT ![p] = NetBlock(e, sent[p], FALSE)]
             /\ series' = [series EXCEPT ![p] = @ + IF S.entry[p].inSeries
                                                    THEN Delta(S.entry[p]) ELSE 0]
        ELSE Becomes(Forgotten(S, p)) /\ UNCHANGED <<record, series>>
     /\ UNCHANGED <<reported, task, sent, dropped, ring, gap>>

\* `netio_tick`, of the processes ps; `netio_final_live`, of those in the series.
Ticked(S, ps) == [S EXCEPT !.entry = [p \in Tgids |-> IF p \in ps THEN Emitted(@[p]) ELSE @[p]]]
SentSeries(S, ps) ==
  [p \in Tgids |-> series[p] + IF p \in ps THEN Delta(S.entry[p]) ELSE 0]

\* `_netp_refresh_live`.
RefreshLive(S) == ReadPid(S, {p \in reported : S.entry[p].is = "live"})

\* The endpoint part of `residency_tick`: `_netp_sweep_due`, then a full read or
\* `_netp_refresh_live`, then `netio_tick`.
ETick ==
  LET live == {p \in reported : entry[p].is = "live"}
      due  == dropped > sweep.full \/ sweep.lost \/ sweep.tick % SweepTicks = 0
      S    == IF due THEN NetpeerRead(St) ELSE RefreshLive(St)
  IN /\ sweep.tick < MaxTicks /\ \E p \in Tgids : task[p] # "off"
     /\ Becomes(Ticked(S, live)) /\ series' = SentSeries(S, live)
     /\ sweep' = [tick |-> sweep.tick + 1, full |-> dropped, lost |-> S.lost, ready |-> TRUE]
     /\ UNCHANGED <<reported, task, sent, dropped, ring, gap, record>>

\* The end of `main`, once `drain_exits` is done: the last read, the rest of each
\* series, and `flush_live`.
EStop ==
  LET live == {p \in reported : entry[p].is = "live"}
      S    == NetpeerRead(St)
      ps   == {p \in live : S.entry[p].inSeries}
      D    == Ticked(S, ps)
  IN /\ \A p \in Tgids : task[p] # "off" /\ entry[p].is # "held"
     /\ \E p \in live : record[p] = NoRecord
     /\ Becomes(D) /\ series' = SentSeries(S, ps)
     /\ record' = [p \in Tgids |-> IF p \in live THEN NetBlock(D.entry[p], sent[p], TRUE)
                                   ELSE record[p]]
     /\ task' = [p \in Tgids |-> "off"]
     /\ sweep' = [sweep EXCEPT !.lost = FALSE] /\ UNCHANGED <<reported, sent, dropped, ring, gap>>

ENext ==
  \/ \E p \in Tgids : (\E a \in Addrs : Send(p, a)) \/ Know(p) \/ StageExit(p) \/ End(p)
                      \/ Retire(p) \/ Drain(p)
  \/ Poll \/ ETick \/ EStop

EndpointSpec == EInit(TRUE) /\ [][ENext]_evars

-----------------------------------------------------------------------------
(* Properties. *)

\* Every byte counted in the kernel is in the table, or in one record's list, or in the
\* loss counters, however reads, exits, ticks and late announcements interleave.
BytesConserved ==
  LET exits == {p \in Tgids : record[p] # NoRecord /\ ~record[p].last}
      lists == [p \in exits |-> record[p].listed]
  IN SumFunctionOnSet(sent, Tgids) =
       SumFunctionOnSet(netp, Keys) + dropped + orphans + unwanted + SumFunctionOnSet(lists, exits)

\* "For a series process the netio records alone sum to its lifetime"; no other process
\* has any.
SeriesSums ==
  \A p \in Tgids : record[p] # NoRecord =>
    series[p] = IF record[p].inSeries THEN record[p].listed ELSE 0

\* "Some entries are not in the index" only until the next read of the whole table: each
\* is announced, or known to be lost, or was left for that read with no process known.
Indexed ==
  \A x \in Entries : x \in index \cup ring \cup unclaimed \/ gap \/ sweep.lost
=============================================================================
