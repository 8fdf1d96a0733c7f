------------------------------ MODULE FeedTail ------------------------------
(***************************************************************************)
(* One host's day-files from both ends.                                    *)
(*                                                                         *)
(* The collector (DailyWriter) appends JSON lines to the open day through  *)
(* a stdio buffer, rolls over at midnight, and hands sealed days to an     *)
(* asynchronous gzip; it may be killed and restarted.  The dashboard       *)
(* (FileTailSource, Aggregator.backfill_now, Aggregator.poll_once) hands   *)
(* each file to its tail at its last complete line, reads the history      *)
(* behind that point once, and polls for the lines appended after it.      *)
(*                                                                         *)
(* Bytes are counted, not spelled: a file is its length and the offsets    *)
(* just past its newlines, each with the record its line holds.  A day's   *)
(* two streams, and the hosts, are files of their own that share nothing   *)
(* with one another, so one file per day stands for all of them.           *)
(***************************************************************************)
EXTENDS Integers, FiniteSets

CONSTANTS MaxDay,    \* days the clock may reach
          MaxRec,    \* records the collector may write
          MaxCrash,  \* times the collector, or a gzip, may be killed
          MaxBack,   \* times the clock may step back over a midnight
          LineLen,   \* bytes of a record's line, its newline included
          ReadCap,   \* the most one poll reads of a file (READ_CAP)
          TailDays,  \* date directories the tail follows (feeds.ebpf.days)
          Since      \* the oldest record the read-back wants (live.backfill_hours)

ASSUME BoundsAssumption ==
  /\ MaxRec \in Nat /\ MaxCrash \in Nat /\ MaxBack \in Nat /\ Since \in Nat
  /\ MaxDay \in Nat \ {0} /\ LineLen \in Nat \ {0}
  /\ ReadCap \in Nat \ {0} /\ TailDays \in Nat \ {0}

Days  == 1..MaxDay
Files == 1..(MaxDay + 2 * MaxBack)   \* inodes the days' plain names may take
Paths == {"plain", "gz"} \X Days     \* x.jsonl and x.jsonl.gz
Torn  == 0                           \* a line that is not one record
Nothing == 0                         \* no file, no day

VARIABLES
  \* ---- the disk
  plain,    \* day -> the inode named x.jsonl, or Nothing
  gzip,     \* day -> how far x.jsonl.gz is: "none", "running", "killed", "done"
  gzOf,     \* day -> the inode x.jsonl.gz was made from
  line,     \* inode -> offset just past a newline -> the record ended there
  end,      \* inode -> bytes appended to it, the collector's buffer included
  size,     \* inode -> bytes of them on disk
  \* ---- the collector
  today, up, openDay,
  nrec,     \* records written
  sealing,  \* days a compress thread has been started for
  kills, backs,
  \* ---- the dashboard
  rpc,      \* where the thread holding the aggregator's lock is
  todo,     \* listed paths it has still to open
  state,    \* path -> [ino, off]: the tail's offset records
  plan,     \* ranges the read-back has still to open: [path, start, end]
  fed,      \* <<inode, offset>> of the lines handed to the live tier
  again,    \* those handed over more than once
  missed    \* planned ranges that are not read back: their file could not be opened,
            \* or `position` raised

diskVars == <<plain, gzip, gzOf, line, end, size>>
collVars == <<today, up, openDay, nrec, sealing, kills, backs>>
tailVars == <<rpc, todo, state, plan, fed, again, missed>>
vars == <<diskVars, collVars, tailVars>>

Init ==
  /\ plain = [d \in Days |-> Nothing]
  /\ gzip = [d \in Days |-> "none"]
  /\ gzOf = [d \in Days |-> Nothing]
  /\ line = [i \in Files |-> <<>>]
  /\ end = [i \in Files |-> 0]
  /\ size = [i \in Files |-> 0]
  /\ today = 1 /\ up = FALSE /\ openDay = Nothing /\ nrec = 0
  /\ sealing = {} /\ kills = 0 /\ backs = 0
  /\ rpc = "start" /\ todo = {} /\ state = <<>> /\ plan = {}
  /\ fed = {} /\ again = {} /\ missed = {}

-----------------------------------------------------------------------------
(* The disk, as a reader sees it. *)

Largest(S) == CHOOSE m \in S : \A x \in S : x <= m

\* Offsets just past the newlines of inode i.
Ends(i) == DOMAIN line[i]

\* `complete_end`: just past the last newline in the first n bytes.
CompleteEnd(i, n) == Largest({0} \cup {e \in Ends(i) : e <= n})

\* The records on the lines of i that a read of (from, to] sees from their start.
Records(i, from, to) ==
  {<<i, e>> : e \in {x \in Ends(i) : /\ from < x /\ x <= to /\ line[i][x] # Torn
                                    /\ \E b \in {0} \cup Ends(i) : from <= b /\ b < x}}

Durable == UNION {Records(i, 0, size[i]) : i \in Files}

Exists(p) == IF p[1] = "plain" THEN plain[p[2]] # Nothing ELSE gzip[p[2]] # "none"
Ino(p)    == IF p[1] = "plain" THEN plain[p[2]] ELSE gzOf[p[2]]
GzPath(p) == <<"gz", p[2]>>

\* `feed_files`: a plain file wins over its .gz twin.
NonEmpty == {d \in Days : plain[d] # Nothing \/ gzip[d] # "none"}
DayPath(d) == IF plain[d] # Nothing THEN <<"plain", d>> ELSE <<"gz", d>>

\* `dated_dirs`: the newest TailDays date directories that hold a day-file.
Newest == {d \in NonEmpty : Cardinality({x \in NonEmpty : x > d}) < TailDays}
Listing == {DayPath(d) : d \in Newest}

-----------------------------------------------------------------------------
(* The collector. *)

\* What `_compress_file` skips: no plain file, or a .gz already there.
Compressible(d) == plain[d] # Nothing /\ gzip[d] = "none"

Midnight ==
  /\ today < MaxDay
  /\ today' = today + 1
  /\ UNCHANGED <<diskVars, up, openDay, nrec, sealing, kills, backs, tailVars>>

NoneCompressing == sealing = {} /\ \A d \in Days : gzip[d] # "running"

\* The wall clock is set back over a midnight, with no compression in flight.
ClockBack ==
  /\ backs < MaxBack /\ today > 1 /\ NoneCompressing
  /\ today' = today - 1 /\ backs' = backs + 1
  /\ UNCHANGED <<diskVars, up, openDay, nrec, sealing, kills, tailVars>>

\* `main` up to its loop: `_sweep_sealed_days` skips today.
Start ==
  /\ ~up
  /\ up' = TRUE /\ openDay' = Nothing
  /\ sealing' = {d \in Days \ {today} : Compressible(d)}
  /\ UNCHANGED <<diskVars, today, nrec, kills, backs, tailVars>>

Used == {plain[d] : d \in Days} \cup {gzOf[d] : d \in Days}

\* Appends record r to inode i's buffer.  After a kill mid-line the file ends
\* in a fragment, and the line the newline closes is that fragment and r.
Append(i, r, base) ==
  LET at == end[i] + LineLen
      whole == end[i] = 0 \/ end[i] \in Ends(i)
  IN /\ line' = [line EXCEPT ![i] =
                   [e \in Ends(i) \cup {at} |->
                      IF e = at THEN (IF whole THEN r ELSE Torn) ELSE line[i][e]]]
     /\ end' = [end EXCEPT ![i] = at]
     /\ size' = base
     /\ nrec' = r

\* `write` into the open day.
Write ==
  /\ up /\ nrec < MaxRec /\ openDay = today
  /\ Append(plain[today], nrec + 1, size)
  /\ UNCHANGED <<plain, gzip, gzOf, today, up, openDay, sealing, kills, backs, tailVars>>

\* `write` on a new day: `_shut` flushes and closes the day that was open,
\* `_roll` opens (creating it if need be) today's file, `_compress_day` starts
\* on the one closed, and the record is appended.
RollAndWrite ==
  /\ up /\ nrec < MaxRec /\ openDay # today
  /\ \E i \in Files :
       /\ IF plain[today] = Nothing THEN i \notin Used /\ 1..(i - 1) \subseteq Used
          ELSE i = plain[today]
       /\ plain' = [plain EXCEPT ![today] = i]
       /\ Append(i, nrec + 1,
                 IF openDay = Nothing THEN size
                 ELSE [size EXCEPT ![plain[openDay]] = end[plain[openDay]]])
  /\ sealing' = sealing \cup {d \in {openDay} \ {Nothing} : Compressible(d)}
  /\ openDay' = today
  /\ UNCHANGED <<gzip, gzOf, today, up, kills, backs, tailVars>>

\* The stdio buffer fills and is written through, at whatever byte it ends.
Spill ==
  /\ up /\ openDay # Nothing
  /\ \E n \in size[plain[openDay]]+1 .. end[plain[openDay]]-1 :
        size' = [size EXCEPT ![plain[openDay]] = n]
  /\ UNCHANGED <<plain, gzip, gzOf, line, end, collVars, tailVars>>

\* `flush`, once per poll round.
Flush ==
  /\ up /\ openDay # Nothing
  /\ size[plain[openDay]] # end[plain[openDay]]
  /\ size' = [size EXCEPT ![plain[openDay]] = end[plain[openDay]]]
  /\ UNCHANGED <<plain, gzip, gzOf, line, end, collVars, tailVars>>

\* SIGTERM: `close` flushes.  Compress threads not yet started die with it.
Stop ==
  /\ up
  /\ up' = FALSE /\ openDay' = Nothing /\ sealing' = {}
  /\ size' = IF openDay = Nothing THEN size
             ELSE [size EXCEPT ![plain[openDay]] = end[plain[openDay]]]
  /\ UNCHANGED <<plain, gzip, gzOf, line, end, today, nrec, kills, backs, tailVars>>

\* SIGKILL or power loss: what was buffered is gone, a line cut anywhere.
Kill ==
  /\ up /\ kills < MaxCrash
  /\ kills' = kills + 1
  /\ up' = FALSE /\ openDay' = Nothing /\ sealing' = {}
  /\ IF openDay = Nothing THEN UNCHANGED <<line, end>>
     ELSE LET i == plain[openDay] IN
          /\ line' = [line EXCEPT ![i] =
                        [e \in {x \in Ends(i) : x <= size[i]} |-> line[i][e]]]
          /\ end' = [end EXCEPT ![i] = size[i]]
  /\ UNCHANGED <<plain, gzip, gzOf, size, today, nrec, backs, tailVars>>

\* The thread `_compress_file` started runs `gzip -f`; it outlives the collector.
GzipStart(d) ==
  /\ d \in sealing /\ Compressible(d)
  /\ gzip' = [gzip EXCEPT ![d] = "running"]
  /\ gzOf' = [gzOf EXCEPT ![d] = plain[d]]
  /\ sealing' = sealing \ {d}
  /\ UNCHANGED <<plain, line, end, size, today, up, openDay, nrec, kills, backs, tailVars>>

\* gzip succeeds, and unlinks the plain file.
GzipDone(d) ==
  /\ gzip[d] = "running"
  /\ gzip' = [gzip EXCEPT ![d] = "done"]
  /\ plain' = [plain EXCEPT ![d] = Nothing]
  /\ UNCHANGED <<gzOf, line, end, size, collVars, tailVars>>

\* gzip is killed: the plain file stays, beside a partial .gz.
GzipKilled(d) ==
  /\ gzip[d] = "running" /\ kills < MaxCrash
  /\ kills' = kills + 1
  /\ gzip' = [gzip EXCEPT ![d] = "killed"]
  /\ UNCHANGED <<plain, gzOf, line, end, size, today, up, openDay, nrec, sealing, backs, tailVars>>

-----------------------------------------------------------------------------
(* The dashboard. *)

Remember(p, off) == [q \in DOMAIN state \cup {p} |->
                       IF q = p THEN [ino |-> Ino(p), off |-> off] ELSE state[q]]

\* A batch of lines goes to the live tier.
Consume(lines) == /\ fed' = fed \cup lines
                  /\ again' = again \cup (fed \cap lines)

\* `position`: every file there is now ...
PositionBegin ==
  /\ rpc = "start" /\ rpc' = "position"
  /\ todo' = Listing
  /\ UNCHANGED <<diskVars, collVars, state, plan, fed, again, missed>>

\* ... is handed over after its last complete line, and the range behind it
\* that reaches back to Since is planned.  A file gone since is passed over.
\* `seek_to_epoch` finds the end of the last line older than Since.
Position(p) ==
  /\ rpc = "position" /\ p \in todo
  /\ todo' = todo \ {p}
  /\ IF Exists(p)
     THEN LET i     == Ino(p)
              to    == CompleteEnd(i, size[i])
              old   == {e \in Ends(i) : e <= to /\ line[i][e] \in 1..(Since - 1)}
              start == Largest({0} \cup old)
          IN /\ state' = Remember(p, to)
             /\ plan' = IF start < to
                        THEN plan \cup {[path |-> p, start |-> start, end |-> to]}
                        ELSE plan
     ELSE UNCHANGED <<state, plan>>
  /\ UNCHANGED <<diskVars, collVars, rpc, fed, again, missed>>

\* Every listed file is positioned: the tail may run (`positioned.set()`).
PositionEnd ==
  /\ rpc = "position" /\ todo = {} /\ rpc' = "idle"
  /\ UNCHANGED <<diskVars, collVars, todo, state, plan, fed, again, missed>>

\* `position` raises at a file: the tail runs all the same, after what was positioned by
\* then, and nothing is read back (the page says "error").
PositionFail ==
  /\ rpc = "position" /\ todo # {} /\ rpc' = "idle"
  /\ todo' = {} /\ plan' = {} /\ missed' = missed \cup plan
  /\ UNCHANGED <<diskVars, collVars, state, fed, again>>

\* `poll_once`, from listing ...
PollBegin ==
  /\ rpc = "idle" /\ rpc' = "poll"
  /\ todo' = Listing
  /\ UNCHANGED <<diskVars, collVars, state, plan, fed, again, missed>>

\* `_compressed`: a .gz first met takes up where its plain file was left.
Met(p) ==
  LET twin == <<"plain", p[2]>>
  IN IF p \notin DOMAIN state /\ p[1] = "gz" /\ twin \in DOMAIN state
     THEN Remember(p, state[twin].off) ELSE state

\* Bug: the record moved to the .gz is not the one used.
FromOldRecord(p) ==
  IF p \in DOMAIN state /\ state[p].ino = Ino(p) /\ state[p].off <= size[Ino(p)]
  THEN state[p].off ELSE 0

\* Where a poll reads p from: the offset counted in this very inode, else 0.
From(p) ==
  IF p \in DOMAIN Met(p) /\ Met(p)[p].ino = Ino(p) /\ Met(p)[p].off <= size[Ino(p)]
  THEN Met(p)[p].off ELSE 0

\* Bug: a read is used only when it ends at a newline.
CutIfWhole(p) ==
  LET left == size[Ino(p)] - From(p)
      to   == From(p) + (IF left < ReadCap THEN left ELSE ReadCap)
  IN IF to \in Ends(Ino(p)) THEN to ELSE From(p)

\* Just past the last newline of what one read gets, or From(p) if it has none.
Cut(p) ==
  LET left == size[Ino(p)] - From(p)
      to   == From(p) + (IF left < ReadCap THEN left ELSE ReadCap)
  IN Largest({From(p)} \cup {e \in Ends(Ino(p)) : From(p) < e /\ e <= to})

\* ... through `_read_one` of each file, none of which may be there by now ...
ReadOne(p) ==
  /\ rpc = "poll" /\ p \in todo
  /\ todo' = todo \ {p}
  /\ \/ ~Exists(p) /\ UNCHANGED <<state, fed, again>>
     \/ /\ Exists(p) /\ From(p) >= size[Ino(p)]              \* nothing new
        /\ state' = Remember(p, From(p)) /\ UNCHANGED <<fed, again>>
     \/ /\ Exists(p) /\ From(p) < size[Ino(p)] /\ Cut(p) = From(p)   \* no complete line yet
        /\ state' = Met(p) /\ UNCHANGED <<fed, again>>
     \/ /\ Exists(p) /\ From(p) < size[Ino(p)] /\ Cut(p) > From(p)
        /\ state' = Remember(p, Cut(p))
        /\ Consume(Records(Ino(p), From(p), Cut(p)))
  /\ UNCHANGED <<diskVars, collVars, rpc, plan, missed>>

\* Bug: the record of a plain file goes with its name.
KeptIfListed(p) == p \in Listing

\* `prune_state` keeps what is listed, and a plain file compressed since the
\* last poll until the tail has met its .gz.
Kept(p) == \/ p \in Listing
           \/ p[1] = "plain" /\ GzPath(p) \in Listing \ DOMAIN state

\* ... to the prune, on a listing of its own.
PollEnd ==
  /\ rpc = "poll" /\ todo = {} /\ rpc' = "idle"
  /\ state' = [p \in {q \in DOMAIN state : Kept(q)} |-> state[p]]
  /\ UNCHANGED <<diskVars, collVars, todo, plan, fed, again, missed>>

\* The name a planned range is read under: x.jsonl.gz once x.jsonl is gone.
ReadBackPath(p) ==
  IF p[1] = "plain" /\ ~Exists(p) /\ Exists(GzPath(p)) THEN GzPath(p) ELSE p

\* `_read_back_one` settles the name, the first time the merge is pulled ...
ReadBackName(r) ==
  /\ rpc = "idle" /\ r \in plan
  /\ rpc' = "readback"
  /\ todo' = {ReadBackPath(r.path)}
  /\ plan' = (plan \ {r}) \cup {[r EXCEPT !.path = ReadBackPath(r.path)]}
  /\ UNCHANGED <<diskVars, collVars, state, fed, again, missed>>

\* ... and then opens it; a file it cannot open yields nothing.
ReadBack(r) ==
  /\ rpc = "readback" /\ r \in plan /\ r.path \in todo
  /\ rpc' = "idle" /\ todo' = {} /\ plan' = plan \ {r}
  /\ IF Exists(r.path)
     THEN Consume(Records(Ino(r.path), r.start, r.end)) /\ UNCHANGED missed
     ELSE /\ missed' = missed \cup {r}
          /\ UNCHANGED <<fed, again>>
  /\ UNCHANGED <<diskVars, collVars, state>>

-----------------------------------------------------------------------------
Collector == \/ Midnight \/ Start \/ Write \/ RollAndWrite \/ Spill \/ Flush \/ Stop \/ Kill
             \/ \E d \in Days : GzipStart(d) \/ GzipDone(d) \/ GzipKilled(d)

Dashboard == \/ PositionBegin \/ PositionEnd \/ PositionFail \/ PollBegin \/ PollEnd
             \/ \E p \in todo : Position(p) \/ ReadOne(p)
             \/ \E r \in plan : ReadBackName(r) \/ ReadBack(r)

Next == Collector \/ Dashboard

Spec == Init /\ [][Next]_vars

\* The same with a clock that steps back (an NTP correction, a DST change at
\* midnight) and forward again, compression never overlapping the change.
SpecBack == Init /\ [][\/ Next /\ (today' # today => NoneCompressing)
                     \/ ClockBack]_vars

\* Scheduling: the collector's loop flushes every round and its compress
\* threads run; the ingest loop polls for ever, each thread that holds the
\* lock goes through with what it began, and the backfill thread reads on.
FairSpec ==
  /\ Spec
  /\ WF_vars(Flush)
  /\ \A d \in Days : WF_vars(GzipStart(d)) /\ WF_vars(GzipDone(d))
  /\ WF_vars(PositionBegin) /\ WF_vars(PositionEnd)
  /\ WF_vars(PollEnd) /\ SF_vars(PollBegin)
  /\ \A p \in Paths : WF_vars(Position(p)) /\ WF_vars(ReadOne(p))
  /\ SF_vars(\E r \in plan : ReadBackName(r)) /\ WF_vars(\E r \in plan : ReadBack(r))

-----------------------------------------------------------------------------
(* Properties. *)

Ranges == [path : Paths, start : Nat, end : Nat]

TypeOK ==
  /\ plain \in [Days -> Files \cup {Nothing}]
  /\ gzip \in [Days -> {"none", "running", "killed", "done"}]
  /\ gzOf \in [Days -> Files \cup {Nothing}]
  /\ DOMAIN line = Files
  /\ \A i \in Files : Ends(i) \subseteq Nat /\ line[i] \in [Ends(i) -> 0..MaxRec]
  /\ end \in [Files -> Nat] /\ size \in [Files -> Nat]
  /\ today \in Days /\ up \in BOOLEAN /\ openDay \in Days \cup {Nothing}
  /\ nrec \in 0..MaxRec /\ sealing \subseteq Days
  /\ kills \in 0..MaxCrash /\ backs \in 0..MaxBack
  /\ rpc \in {"start", "position", "idle", "poll", "readback"}
  /\ todo \subseteq Paths
  /\ DOMAIN state \subseteq Paths
  /\ state \in [DOMAIN state -> [ino : Files, off : Nat]]
  /\ plan \subseteq Ranges /\ missed \subseteq Ranges
  /\ fed \subseteq Files \X Nat /\ again \subseteq Files \X Nat

\* tail.py: "read from byte 0, the whole day would be counted twice" -- no line
\* reaches the live tier twice, across the hand-off between the tail and the
\* read-back, the change of name and inode a compressed day goes through, a
\* capped read and a prune of the offset map.
NoneTwice == again = {}

\* tail.py: "never a truncated JSON line, never a lost record" -- of a file the
\* tail follows, every record before its offset was handed over, is still in a
\* planned range, is older than what was asked for, or was in a range given up.
InRange(x, r) == r.start < x[2] /\ x[2] <= r.end
NoneSkipped ==
  \A p \in DOMAIN state : \A x \in Records(state[p].ino, 0, state[p].off) :
    \/ x \in fed
    \/ line[x[1]][x[2]] < Since
    \/ \E r \in plan \cup missed : r.path[2] = p[2] /\ InRange(x, r)

\* An offset is used only for the inode it was counted in, and there it is the
\* end of a line: what a poll reads from is never the middle of a record.
\* (SpecBack: the plain name of a day can come back as another file.)
OffsetsAtLineEnds ==
  \A p \in DOMAIN state :
    Exists(p) /\ Ino(p) = state[p].ino =>
      state[p].off \in {0} \cup {e \in Ends(Ino(p)) : e <= size[Ino(p)]}

\* What the tail follows it never reads again from the start: an offset only
\* advances, and a day compressed takes up at or after its plain file's.
\* (`stats["resets"]` stays 0 while the collector's files are only appended to.)
OffsetsAdvance ==
  [][\A p \in DOMAIN state' :
       /\ p \in DOMAIN state => state'[p].off >= state[p].off
       /\ p[1] = "gz" /\ <<"plain", p[2]>> \in DOMAIN state =>
            state'[p].off >= state[<<"plain", p[2]>>].off]_state

\* The live tier is an at-most-once consumer of the durable lines.
Once == INSTANCE FeedOnce WITH durable <- Durable
AtMostOnce == Once!Spec

\* Every record that reaches the disk, in a file the tail still follows, reaches
\* the live tier: the tail hands it over, or the read-back does, unless its range was
\* given up or it is older than what was asked for.
Accounted(x) ==
  \/ x \in fed
  \/ x \in Durable /\ line[x[1]][x[2]] < Since
  \/ \E r \in missed : x[1] \in {plain[r.path[2]], gzOf[r.path[2]]} /\ InRange(x, r)
  \/ \A d \in Newest : Ino(DayPath(d)) # x[1]
EveryLineFed ==
  \A i \in Files : \A e \in 1..(LineLen * MaxRec) : (<<i, e>> \in Durable) ~> Accounted(<<i, e>>)

-----------------------------------------------------------------------------
(* What the repository says of itself, and the code does not do. *)

\* `_sweep_sealed_days`: "At startup, gzip any sealed day left uncompressed by a
\* prior run or crash."
SweepTakesEverySealedDay ==
  [][~up /\ up' => \A d \in Days : plain[d] # Nothing /\ d # today /\ gzip[d] # "running"
                                        => d \in sealing']_vars

\* DailyWriter: "the exposure is SIGKILL or power loss losing at most one round"
\* -- a record flushed by a later round is not lost with it.
FlushedIsReadable ==
  \A i \in Files : \A e \in Ends(i) : e <= size[i] => line[i][e] # Torn

\* `feed_files`: "both exist while one is being compressed into the other, and
\* the plain one is the complete copy".
PlainIsComplete ==
  \A d \in Days : plain[d] # Nothing /\ gzip[d] # "none" => gzOf[d] = plain[d]

\* `_read_back_one`: "Compressed since it was positioned: the range holds in the
\* `.gz` as well" -- a day compressed meanwhile is still read back.
ReadBackOpens == missed = {}
=============================================================================
