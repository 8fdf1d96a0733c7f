----------------------------- MODULE BuildSeam -----------------------------
(***************************************************************************)
(* How one panel view gets its records: a build scans the hosts' files     *)
(* with a k-way merge on the timestamp, while the collectors append to     *)
(* them and the tail hands what it reads to the same view.  What the tail  *)
(* hands over during a build is buffered, and replayed when the fresh      *)
(* reducers are swapped in; a record no newer than what the scan reached   *)
(* is taken to be one it read.  The reducers are saved with how far into   *)
(* each file the scan went, and a view with nothing in memory resumes      *)
(* from there (windows.PanelView, WindowRegistry._build, export).          *)
(*                                                                         *)
(* A host's file is the sequence of its records' timestamps, appended in   *)
(* order; a record is its host and its place.  Reducers are the sequence   *)
(* of the records fed to them.                                             *)
(***************************************************************************)
EXTENDS FiniteSets, Selections

CONSTANTS Hosts,      \* one day-file each
          MaxTs,      \* bound: timestamps are 1 .. MaxTs
          MaxLen,     \* bound: records in a file
          MaxAll,     \* bound: records in all files
          ReplayCap,  \* REPLAY_CAP
          Pinned,     \* bound: the builds' windows all start at 0
          None        \* Python's None

ASSUME SeamAssumption ==
  /\ IsFiniteSet(Hosts) /\ Hosts # {}
  /\ MaxTs \in Nat \ {0} /\ MaxLen \in Nat \ {0} /\ MaxAll \in Nat
  /\ ReplayCap \in Nat
  /\ Pinned \in BOOLEAN
  /\ None \notin Seq(Hosts \X (1 .. MaxLen))

VARIABLES
  log,       \* host -> its file
  tail,      \* host -> records of its file the tail is past, once positioned
  since,     \* where the view's window starts
  positioned, \* Aggregator.positioned
  state,     \* the view's: queued, building, ready, error
  red,       \* the view's reducers: the records fed to them, or None
  through,   \* consumed_through: the newest timestamp their build ingested; 0 is none
  replay,    \* the replay buffer, or None
  dropped,   \* the records that did not fit in it
  given,     \* the records handed to the view's feed
  scan,      \* the build under way, or NoScan
  blob,      \* the build just swapped in and still to be saved, or NoBuild
  saved      \* the saved build, or NoBuild

vars == <<log, tail, since, positioned, state, red, through, replay, dropped,
          given, scan, blob, saved>>

NoFile == [h \in Hosts |-> 0]
NoScan == [at |-> "none"]
NoBuild == [from |-> -1, got |-> <<>>, end |-> <<>>, newest |-> 0]

Init ==
  /\ log = [h \in Hosts |-> <<>>] /\ tail = NoFile /\ positioned = FALSE
  /\ state = "queued" /\ since = 0
  /\ red = None /\ through = 0 /\ replay = None /\ dropped = {} /\ given = {}
  /\ scan = NoScan /\ blob = NoBuild /\ saved = NoBuild

Ts(r) == log[r[1]][r[2]]
OnDisk(h) == {<<h, i>> : i \in 1 .. Len(log[h])}
Greatest(S) == Max(S \cup {0})

-----------------------------------------------------------------------------
(* The collectors. *)

\* A host appends a record, not older than its last; another host's may be.
Append1(h, ts) ==
  /\ Len(log[h]) < MaxLen /\ Cardinality(UNION {OnDisk(g) : g \in Hosts}) < MaxAll
  /\ log[h] # <<>> => ts >= Last(log[h])
  /\ log' = [log EXCEPT ![h] = Append(@, ts)]
  /\ UNCHANGED <<tail, since, positioned, state, red, through, replay, dropped, given,
                 scan, blob, saved>>

-----------------------------------------------------------------------------
(* The live feed. *)

\* Bug: a record as new as the newest scanned is taken for one the scan missed.
AsNew(rs, to) == Only(rs, {r \in ToSet(rs) : Ts(r) >= to})

\* `PanelView.feed` of a ready view: those the build has not counted.
Newer(rs, to) == Only(rs, {r \in ToSet(rs) : Ts(r) > to})

\* How many more records the replay buffer takes.
Room == ReplayCap - Len(replay)

\* Bug: what does not fit is not counted.
NotCounted(S) == dropped

\* What does not fit is.
Dropped(S) == dropped \cup S

\* `PanelView.feed`, record after record: into the replay buffer while a build
\* has one, as far as it goes; else into the reducers, if there are any.
Feed(rs) ==
  /\ given' = given \cup ToSet(rs)
  /\ IF replay # None
     THEN LET fit == Min({Len(rs), Room}) IN
            /\ replay' = replay \o SubSeq(rs, 1, fit)
            /\ dropped' = Dropped(ToSet(SubSeq(rs, fit + 1, Len(rs))))
            /\ UNCHANGED red
     ELSE /\ red' = IF red = None THEN None ELSE red \o Newer(rs, through)
          /\ UNCHANGED <<replay, dropped>>

\* `backfill_now`: the tail is positioned at the end of every file.
Position ==
  /\ ~positioned /\ positioned' = TRUE
  /\ tail' = [h \in Hosts |-> Len(log[h])]
  /\ UNCHANGED <<log, since, state, red, through, replay, dropped, given, scan,
                 blob, saved>>

\* The records of h past its first n, up to its first m.
Span(h, n, m) == [i \in 1 .. m - n |-> <<h, n + i>>]

\* `poll_once`, under the aggregator's lock: each file is read on, in the order
\* they are listed, as far as it was written when the poll came to it and the read
\* cap goes.
Poll ==
  /\ positioned
  /\ \E to \in [Hosts -> 0 .. MaxLen], order \in SetToSeqs(Hosts) :
       /\ \A h \in Hosts : tail[h] <= to[h] /\ to[h] <= Len(log[h])
       /\ to # tail /\ tail' = to
       /\ Feed(FlattenSeq([k \in DOMAIN order |-> Span(order[k], tail[order[k]], to[order[k]])]))
  /\ UNCHANGED <<log, since, positioned, state, through, scan, blob, saved>>

-----------------------------------------------------------------------------
(* The build. *)

\* `seek_to_epoch`: records before the first of the window.
Before(h, from) == Cardinality({i \in 1 .. Len(log[h]) : log[h][i] < from})

\* `_build`: live records are buffered from here.
BuildBegin ==
  /\ scan = NoScan /\ blob = NoBuild /\ state # "building"
  /\ state' = "building" /\ replay' = <<>> /\ scan' = [at |-> "plan"]
  /\ UNCHANGED <<log, tail, since, positioned, red, through, dropped, given, blob, saved>>

\* A build that read nothing yet: `next` is how far into each file it is, `files`
\* those whose stream is not opened yet; of those open, the merge holds the record
\* at `next`.
Fresh(from, plan) ==
  [at |-> "open", from |-> from, next |-> plan, files |-> DOMAIN plan,
   open |-> {}, got |-> <<>>, had |-> 0, newest |-> 0, base |-> 0]

\* `window_plan`: the files that hold something of the window, from there. Bound: nothing
\* is as old as 0, so a window from 1 is one from 0.
Plan ==
  /\ scan.at = "plan"
  /\ \E from \in IF Pinned THEN {0} ELSE (since .. MaxTs) \ {1} :
       LET files == {h \in Hosts : Before(h, from) < Len(log[h])}
       IN scan' = Fresh(from, [h \in files |-> Before(h, from)])
  /\ UNCHANGED <<log, tail, since, positioned, state, red, through, replay, dropped,
                 given, blob, saved>>

\* `_resume`, `resume_plan`: a view with nothing in memory reads the saved
\* build's files on from where it stopped, and any other from the window's start.
Resume ==
  /\ scan.at = "plan" /\ red = None /\ saved # NoBuild
  /\ LET known == DOMAIN saved.end
         more  == {h \in Hosts \ known : Before(h, saved.from) < Len(log[h])}
         plan  == [h \in known \cup more |->
                     IF h \in known THEN saved.end[h] ELSE Before(h, saved.from)]
     IN scan' = [Fresh(saved.from, plan) EXCEPT !.got = saved.got, !.had = Len(saved.got),
                                                  !.base = saved.newest]
  /\ UNCHANGED <<log, tail, since, positioned, state, red, through, replay, dropped,
                 given, blob, saved>>

\* What the merge takes next from h's stream: its next record, or, at the end of
\* the file, nothing ever again.
Pull(sc, h) ==
  IF sc.next[h] < Len(log[h])
  THEN [sc EXCEPT !.next[h] = @ + 1, !.open = @ \cup {h}]
  ELSE [sc EXCEPT !.open = @ \ {h}]

\* `heapq.merge` asks every stream for a record before it yields one.
Open(h) ==
  /\ scan.at = "open" /\ h \in scan.files
  /\ scan' = [Pull(scan, h) EXCEPT !.files = @ \ {h}]
  /\ UNCHANGED <<log, tail, since, positioned, state, red, through, replay, dropped,
                 given, blob, saved>>

\* The stream whose record is the oldest.
Least(h) ==
  /\ h \in scan.open
  /\ \A g \in scan.open : log[h][scan.next[h]] <= log[g][scan.next[g]]

\* One record is fed to the fresh reducers, and its stream asked for the next.
Merge(h) ==
  /\ scan.at = "open" /\ scan.files = {}
  /\ Least(h)
  /\ LET r == <<h, scan.next[h]>>
     IN scan' = [Pull(scan, h) EXCEPT !.got = Append(@, r), !.newest = Greatest({@, Ts(r)})]
  /\ UNCHANGED <<log, tail, since, positioned, state, red, through, replay, dropped,
                 given, blob, saved>>

\* Bug: the reducers are saved as they are after the replay.
SaveAfterReplay(sc, after) ==
  [from |-> sc.from, got |-> after, end |-> sc.next, newest |-> Greatest({sc.base, sc.newest})]

\* What is saved: the reducers as they are before the replay.
Capture(sc, after) ==
  [from |-> sc.from, got |-> sc.got, end |-> sc.next, newest |-> Greatest({sc.base, sc.newest})]

\* Under the lock the fresh reducers are installed, and the buffer replayed.
Swap ==
  /\ scan.at = "open" /\ scan.files = {} /\ scan.open = {}
  /\ LET to == Greatest({scan.base, scan.newest})
         after == scan.got \o (IF replay = None THEN <<>> ELSE Newer(replay, to))
     IN /\ through' = to /\ red' = after
        /\ blob' = Capture(scan, after)
  /\ since' = scan.from
  /\ state' = "ready" /\ replay' = None /\ scan' = NoScan
  /\ UNCHANGED <<log, tail, positioned, dropped, given, saved>>

\* `SnapshotStore.save`, atomic, after the swap; or the save fails.
Save ==
  /\ blob # NoBuild /\ blob' = NoBuild
  /\ saved' \in {blob, saved}
  /\ UNCHANGED <<log, tail, since, positioned, state, red, through, replay, dropped,
                 given, scan>>

\* The build raises: the old reducers stay, the buffer goes.
BuildFail ==
  /\ scan # NoScan
  /\ state' = "error" /\ replay' = None /\ scan' = NoScan
  /\ UNCHANGED <<log, tail, since, positioned, red, through, dropped, given, blob, saved>>

\* A view made anew.
NewView ==
  /\ state' = "queued" /\ since' = 0 /\ red' = None /\ through' = 0
  /\ replay' = None /\ dropped' = {} /\ given' = {}

\* It is evicted, and asked for again.
Evicted ==
  /\ scan = NoScan /\ blob = NoBuild /\ state \in {"ready", "error"}
  /\ NewView
  /\ UNCHANGED <<log, tail, positioned, scan, blob, saved>>

\* The service is killed and started again: only the files and the saved build
\* are left.
Restart ==
  /\ state # "queued" \/ positioned
  /\ NewView /\ tail' = NoFile /\ positioned' = FALSE /\ scan' = NoScan /\ blob' = NoBuild
  /\ UNCHANGED <<log, saved>>

-----------------------------------------------------------------------------
Next ==
  \/ \E h \in Hosts, ts \in 1 .. MaxTs : Append1(h, ts)
  \/ Position \/ Poll
  \/ BuildBegin \/ Plan \/ Resume \/ Swap \/ Save \/ BuildFail
  \/ \E h \in Hosts : Open(h) \/ Merge(h)
  \/ Evicted \/ Restart

Spec == Init /\ [][Next]_vars

-----------------------------------------------------------------------------
(* Properties. *)

Records == Hosts \X (1 .. MaxLen)

\* f gives members of B to some of A.
Maps(f, A, B) == DOMAIN f \subseteq A /\ \A x \in DOMAIN f : f[x] \in B

IsScan(sc) ==
  /\ DOMAIN sc = {"at", "from", "next", "files", "open", "got", "had", "newest", "base"}
  /\ sc.at = "open" /\ {sc.from, sc.newest, sc.base} \subseteq 0 .. MaxTs
  /\ Maps(sc.next, Hosts, 0 .. MaxLen)
  /\ sc.files \subseteq DOMAIN sc.next /\ sc.open \subseteq DOMAIN sc.next
  /\ sc.got \in Seq(Records) /\ sc.had \in 0 .. Len(sc.got)

IsBuild(s) ==
  /\ s = [from |-> s.from, got |-> s.got, end |-> s.end, newest |-> s.newest]
  /\ {s.from, s.newest} \subseteq 0 .. MaxTs
  /\ s.got \in Seq(Records) /\ Maps(s.end, Hosts, 0 .. MaxLen)

TypeOK ==
  /\ log \in [Hosts -> Seq(1 .. MaxTs)] /\ \A h \in Hosts : Len(log[h]) <= MaxLen
  /\ tail \in [Hosts -> 0 .. MaxLen] /\ \A h \in Hosts : tail[h] <= Len(log[h])
  /\ since \in 0 .. MaxTs /\ positioned \in BOOLEAN /\ through \in 0 .. MaxTs
  /\ state \in {"queued", "building", "ready", "error"}
  /\ red = None \/ red \in Seq(Records)
  /\ replay = None \/ (replay \in Seq(Records) /\ Len(replay) <= ReplayCap)
  /\ dropped \subseteq given /\ given \subseteq Records
  /\ scan = NoScan \/ scan = [at |-> "plan"] \/ IsScan(scan)
  /\ (scan # NoScan) = (state = "building") /\ (replay # None) = (state = "building")
  /\ blob = NoBuild \/ (IsBuild(blob) /\ state = "ready")
  /\ saved = NoBuild \/ IsBuild(saved)
  /\ state = "ready" => red # None

\* README: no record is counted twice, by the scan and by the live feed, by the
\* replay and by the tail, or by a saved build and the resume that reads on.
CountedOnce ==
  /\ red # None => IsInjective(red)
  /\ scan.at = "open" => IsInjective(scan.got)

\* window_scan: "Ascending order is a correctness requirement": what one build
\* reads is fed oldest first, across the hosts' files.
ScanAscends ==
  scan.at = "open" =>
    \A i, j \in scan.had + 1 .. Len(scan.got) : i < j => Ts(scan.got[i]) <= Ts(scan.got[j])

\* A saved build holds exactly what its files hold up to the offsets saved with
\* it, of its window: reading on from them makes the window whole.
SavedIsWhole ==
  saved # NoBuild =>
    ToSet(saved.got) = UNION {{r \in OnDisk(h) : r[2] <= saved.end[h] /\ Ts(r) >= saved.from}
                              : h \in DOMAIN saved.end}

\* What a ready view was handed and does not hold is older than its window,
\* counted in replay_dropped, or no newer than what its build reached: nothing
\* newer is lost, to the scan, the buffer, the swap or a resume.
NoneNewerLost ==
  state = "ready" =>
    \A r \in given : \/ r \in ToSet(red) \cup dropped
                     \/ Ts(r) < since \/ Ts(r) <= through

-----------------------------------------------------------------------------
(* What the repository says of itself, and the code does not do. *)

\* README, "The seam": "Rows landing in that seam are buffered and replayed; if
\* the buffer overflows the count is published as replay_dropped rather than
\* quietly going missing".
SeamAccounted ==
  state = "ready" => \A r \in given : r \in ToSet(red) \cup dropped \/ Ts(r) < since

\* windows.py: "The records a rebuild could not replay are counted": the old
\* reducers, which a failed build leaves in place, hold what they were handed.
FailureAccounted ==
  state = "error" /\ red # None =>
    \A r \in given : \/ r \in ToSet(red) \cup dropped
                     \/ Ts(r) < since \/ Ts(r) <= through

\* Aggregator.consume: "their own scans already cover every row the backfill
\* reads": all there was when the tail was positioned.
ScanCoversBackfill ==
  positioned /\ state = "ready" /\ given = {} /\ tail # NoFile =>
    \A h \in Hosts : \A i \in 1 .. tail[h] : <<h, i>> \in ToSet(red) \/ log[h][i] < since
=============================================================================
