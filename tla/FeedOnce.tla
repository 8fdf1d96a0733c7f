------------------------------ MODULE FeedOnce ------------------------------
(***************************************************************************)
(* What the live tier of the dashboard promises of the collector's         *)
(* day-files, with no file, offset, compression or thread in sight:        *)
(* a line becomes durable once, and a durable line is handed to the        *)
(* reducers at most once.  FeedTail implements this.                       *)
(***************************************************************************)
VARIABLES durable,   \* the readable lines on disk
          fed,       \* the lines handed to the live tier
          again      \* the lines handed to it more than once

onceVars == <<durable, fed, again>>

Init == durable = {} /\ fed = {} /\ again = {}

\* The collector's write(2) makes some lines readable, and never takes one back.
Persist == /\ durable \subseteq durable'
           /\ UNCHANGED <<fed, again>>

\* A poll, or the read-back, hands over lines nobody handed over before.
Feed == /\ fed \subseteq fed'
        /\ fed' \subseteq durable
        /\ UNCHANGED <<durable, again>>

Next == Persist \/ Feed

Spec == Init /\ [][Next]_onceVars
=============================================================================
