-------------------------------- MODULE Conns --------------------------------
(***************************************************************************)
(* TCP connections folded into the record of their process                 *)
(* (ebpf_trace.py, schema 6).  The kernel's birth map remembers who opened *)
(* or accepted a socket; an accept and a close are events, each folded     *)
(* onto the process it names, whose block of counts is written with its    *)
(* exit record at the end of the hold, or is counted as dropped when the   *)
(* entry is reaped without one.  Pids are not reused here (see ProcTable). *)
(***************************************************************************)
EXTENDS Integers, FiniteSets, Functions

CONSTANTS Owners, Sockets, Peers,
          Blocks,     \* the probe blocks loaded: tcp, accept
          BirthMax,   \* the size of tcp_birth
          PeerMax     \* _PEER_KEYS_MAX

ASSUME ConnsAssumption ==
  /\ IsFiniteSet(Owners) /\ IsFiniteSet(Sockets) /\ IsFiniteSet(Peers)
  /\ Blocks \subseteq {"tcp", "accept"} /\ {BirthMax, PeerMax} \subseteq Nat

VARIABLES
  sock,     \* each socket: off, free, syn, open, closed; whose, with whom, whether inbound
  birth,    \* tcp_birth: the sockets in it, and whether each was established
  tcpq,     \* events not handled yet
  folds,    \* history: how often each socket was folded
  owner,    \* each process's entry: its state, whether it is reported, its conns
  noted     \* _conn_dropped

cvars == <<sock, birth, tcpq, folds, owner, noted>>

NoConns == [n |-> 0, accepted |-> 0, established |-> 0, failed |-> 0,
            peers |-> [d \in Peers |-> 0], overflow |-> 0]

Free == [st |-> "free", pid |-> 0, peer |-> 0, in |-> FALSE]

-----------------------------------------------------------------------------
Keyed(c) == Cardinality({d \in Peers : c.peers[d] > 0})

\* Bug: past the cap nothing is counted.
Uncounted(c, d) == IF c.peers[d] = 0 /\ Keyed(c) >= PeerMax THEN c ELSE [c EXCEPT !.peers[d] = @ + 1]

\* The peers of a block: one more than the cap is counted, not merged into another.
Peered(c, d) ==
  IF c.peers[d] = 0 /\ Keyed(c) >= PeerMax THEN [c EXCEPT !.overflow = @ + 1]
  ELSE [c EXCEPT !.peers[d] = @ + 1]

\* `_conn_fold`.
ConnFold(c, d, in, estab) ==
  Peered([c EXCEPT !.n = @ + 1,
                   !.accepted = IF in THEN @ + 1 ELSE @,
                   !.established = IF estab THEN @ + 1 ELSE @,
                   !.failed = IF ~estab /\ ~in THEN @ + 1 ELSE @], d)

CInit(on) ==
  /\ sock = [s \in Sockets |-> [Free EXCEPT !.st = IF on THEN "free" ELSE "off"]]
  /\ birth = {} /\ tcpq = {} /\ folds = [s \in Sockets |-> 0] /\ noted = 0
  /\ owner = [p \in Owners |-> [st |-> "live", actor |-> TRUE, conns |-> NoConns]]

Born(s, estab) ==
  IF s \in {x[1] : x \in birth} \/ Cardinality(birth) < BirthMax
  THEN {x \in birth : x[1] # s} \cup {<<s, estab>>} ELSE birth

HasBirth(s) == \E estab \in BOOLEAN : <<s, estab>> \in birth

\* `inet_sock_set_state`, to SYN_SENT.
Connect(s, p, d) ==
  /\ sock[s].st = "free" /\ owner[p].st = "live"
  /\ sock' = [sock EXCEPT ![s] = [st |-> "syn", pid |-> p, peer |-> d, in |-> FALSE]]
  /\ birth' = IF "tcp" \in Blocks THEN Born(s, FALSE) ELSE birth
  /\ UNCHANGED <<tcpq, folds, owner, noted>>

\* To ESTABLISHED.
Establish(s) ==
  /\ sock[s].st = "syn" /\ sock' = [sock EXCEPT ![s].st = "open"]
  /\ birth' = IF "tcp" \in Blocks /\ HasBirth(s) THEN Born(s, TRUE) ELSE birth
  /\ UNCHANGED <<tcpq, folds, owner, noted>>

\* `inet_csk_accept` returns.
Accept(s, p, d) ==
  /\ sock[s].st = "free" /\ owner[p].st = "live"
  /\ sock' = [sock EXCEPT ![s] = [st |-> "open", pid |-> p, peer |-> d, in |-> TRUE]]
  /\ IF "accept" \in Blocks
     THEN birth' = Born(s, TRUE) /\ tcpq' = tcpq \cup {[kind |-> "accept", s |-> s, estab |-> TRUE]}
     ELSE UNCHANGED <<birth, tcpq>>
  /\ UNCHANGED <<folds, owner, noted>>

\* To CLOSE: the sockets a process still has are closed as it exits.
Close(s) ==
  /\ sock[s].st \in {"syn", "open"} /\ sock' = [sock EXCEPT ![s].st = "closed"]
  /\ IF "tcp" \in Blocks /\ HasBirth(s)
     THEN /\ tcpq' = tcpq \cup {[kind |-> "close", s |-> s, estab |-> <<s, TRUE>> \in birth]}
          /\ birth' = {x \in birth : x[1] # s}
     ELSE UNCHANGED <<birth, tcpq>>
  /\ UNCHANGED <<folds, owner, noted>>

\* `on_tcp`: of a process with no actor nothing is kept.
OnTcp(e) ==
  LET k == sock[e.s] IN
  /\ e \in tcpq /\ tcpq' = tcpq \ {e}
  /\ IF owner[k.pid].actor
     THEN /\ owner' = [owner EXCEPT ![k.pid].conns = ConnFold(@, k.peer, k.in, e.estab)]
          /\ folds' = [folds EXCEPT ![e.s] = @ + 1]
     ELSE UNCHANGED <<owner, folds>>
  /\ UNCHANGED <<sock, birth, noted>>

LoseTcp(e) == e \in tcpq /\ tcpq' = tcpq \ {e} /\ UNCHANGED <<sock, birth, folds, owner, noted>>

\* What it runs or descends from is found to be no agent after all.
Disown(p) ==
  /\ owner[p].st = "live" /\ owner[p].actor /\ \E s \in Sockets : sock[s].st # "off"
  /\ owner' = [owner EXCEPT ![p].actor = FALSE]
  /\ UNCHANGED <<sock, birth, tcpq, folds, noted>>

ExitOwner(p) ==
  /\ owner[p].st = "live" /\ \E s \in Sockets : sock[s].st # "off"
  /\ owner' = [owner EXCEPT ![p].st = "held"] /\ UNCHANGED <<sock, birth, tcpq, folds, noted>>

\* `_write_exit`, when the events of its sockets are in: `_conns_block`.
WriteOwner(p) ==
  /\ owner[p].st = "held"
  /\ \A s \in Sockets : sock[s].pid = p => sock[s].st = "closed" /\ \A e \in tcpq : e.s # s
  /\ owner' = [owner EXCEPT ![p].st = IF owner[p].actor THEN "written" ELSE "unwritten"]
  /\ UNCHANGED <<sock, birth, tcpq, folds, noted>>

\* `_note_conn_dropped`.
NoteDropped(p) == IF owner[p].st = "written" THEN 0 ELSE owner[p].conns.n

\* `gc`.
GcOwner(p) ==
  /\ owner[p].st \in {"written", "unwritten"}
  /\ noted' = noted + NoteDropped(p)
  /\ owner' = [owner EXCEPT ![p].st = IF @ = "written" THEN "kept" ELSE "gone"]
  /\ UNCHANGED <<sock, birth, tcpq, folds>>

CNext ==
  \/ \E s \in Sockets : (\E p \in Owners, d \in Peers : Connect(s, p, d) \/ Accept(s, p, d))
                        \/ Establish(s) \/ Close(s)
  \/ \E e \in tcpq : OnTcp(e) \/ LoseTcp(e)
  \/ \E p \in Owners : Disown(p) \/ ExitOwner(p) \/ WriteOwner(p) \/ GcOwner(p)

ConnSpec == CInit(TRUE) /\ [][CNext]_cvars

-----------------------------------------------------------------------------
(* Properties. *)

\* Every fold of a connection is in the block of one record, or of an entry that can
\* still be written, or in the count of those dropped; and a block adds up: its peers and
\* its overflow to all of it, its established and failed as well, and what was accepted
\* is among the established, never the failed.
FoldsConserved ==
  /\ SumFunctionOnSet(folds, Sockets) =
       noted + SumFunctionOnSet([p \in Owners |-> owner[p].conns.n],
                                {p \in Owners : owner[p].st # "gone"})
  /\ \A p \in Owners : LET c == owner[p].conns IN
       c.n = SumFunctionOnSet(c.peers, Peers) + c.overflow
       /\ c.established + c.failed = c.n /\ c.accepted <= c.established

-----------------------------------------------------------------------------
(* What the repository says of itself, and the code does not do. *)

\* `_conn_fold`: "Accumulate one closed/accepted connection onto its process", and
\* `on_tcp`: "Fold one closed (kind=1) or accepted (kind=2) connection": one, once.
FoldedOnce == \A s \in Sockets : folds[s] <= 1
=============================================================================
