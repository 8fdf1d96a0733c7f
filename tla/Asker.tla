--------------------------------- MODULE Asker ---------------------------------
(***************************************************************************)
(* The question runner (ask.py, class Asker).  Each question runs on a     *)
(* thread of its own, which waits for a slot, starts an agent, writes the  *)
(* prompt to its stdin, reads its stdout to the end and then its stderr,   *)
(* and waits for it; a timer ends an agent that takes too long.  The last  *)
(* KEEP questions are held, whatever they are doing.  The suggestions an   *)
(* operator marks done are kept on disk, through restarts.                 *)
(*                                                                         *)
(* The agent is any program: it may read its prompt, which is larger than  *)
(* a pipe, or close its stdin, fill its stderr, answer or not, and exit or *)
(* not.  It starts no session of its own.                                  *)
(***************************************************************************)
EXTENDS FiniteSets, Selections

CONSTANTS Questions, NotRead,
          Keep,        \* Asker.KEEP
          DoneKeep,    \* Asker.DONE_KEEP
          Slots,       \* ask.max_concurrent
          MaxSuggs,    \* bound: suggestions in an answer
          MaxRestarts  \* bound

ASSUME AskerAssumption ==
  /\ {Keep, DoneKeep, Slots} \subseteq Nat \ {0} /\ MaxSuggs \in Nat
  /\ IsFiniteSet(Questions) /\ NotRead \notin Seq(Questions \X Nat)

VARIABLES
  jobs,      \* the ids held, oldest first
  job,       \* each question's record and its thread: where it is, its suggestions
  agent,     \* each question's process: where it is, its stdin, whether it answered
  timer,     \* off, armed, termed (SIGTERM sent), killed
  done,      \* _done, or NotRead
  file,      \* done.json
  acked,     \* history: marks the page was told were kept, not undone or pushed out since
  undone,    \* history: marks the page was told were undone, and not made again
  restarts

avars == <<jobs, job, agent, timer, done, file, acked, undone, restarts>>

NoAgent  == [st |-> "none", stdin |-> "unread", answer |-> FALSE]
Blank    == [pc |-> "new", suggs |-> 0]
Active   == {"launch", "write", "stdout", "stderr"}
Ended    == {"done", "error"}
InSlot   == {q \in Questions : job[q].pc \in Active}
Dead     == {"exited", "failed", "killed"}

AInit ==
  /\ jobs = <<>> /\ job = [q \in Questions |-> Blank]
  /\ agent = [q \in Questions |-> NoAgent] /\ timer = [q \in Questions |-> "off"]
  /\ done = NotRead /\ file = <<>> /\ acked = {} /\ undone = {} /\ restarts = 0

-----------------------------------------------------------------------------
\* `submit`: the oldest goes, queued or running too.
Ask(q) ==
  LET all == Append(jobs, q) IN
  /\ job[q].pc = "new" /\ job' = [job EXCEPT ![q].pc = "queued"]
  /\ jobs' = IF Len(all) > Keep THEN Tail(all) ELSE all
  /\ UNCHANGED <<agent, timer, done, file, acked, undone, restarts>>

At(q, pc) == job' = [job EXCEPT ![q].pc = pc]

\* `_run`, up to the agent's start.
TakeSlot(q) ==
  /\ job[q].pc = "queued" /\ Cardinality(InSlot) < Slots /\ At(q, "launch")
  /\ UNCHANGED <<jobs, agent, timer, done, file, acked, undone, restarts>>

\* Bug: the timer is started once the prompt is written.
LateTimer == "off"

\* The timer is started with the agent, before the prompt is written.
TimerAtLaunch == "armed"

Armed(t) == IF t = "off" THEN "armed" ELSE t

Launch(q) ==
  /\ job[q].pc = "launch"
  /\ \/ /\ At(q, "write") /\ agent' = [agent EXCEPT ![q].st = "runs"]
        /\ timer' = [timer EXCEPT ![q] = TimerAtLaunch]
     \/ At(q, "error") /\ UNCHANGED <<agent, timer>>        \* it cannot be started
     \/ At(q, "lost") /\ UNCHANGED <<agent, timer>>         \* nor its directory made
  /\ UNCHANGED <<jobs, done, file, acked, undone, restarts>>

\* The prompt is written as it is read; an agent that closed its stdin, or is gone, breaks
\* the pipe, and the timer is cancelled.
SendPrompt(q) ==
  /\ job[q].pc = "write"
  /\ \/ agent[q].stdin = "read" /\ At(q, "stdout") /\ timer' = [timer EXCEPT ![q] = Armed(@)]
     \/ /\ agent[q].stdin = "closed" \/ (agent[q].st \in Dead /\ agent[q].stdin = "unread")
        /\ At(q, "error") /\ timer' = [timer EXCEPT ![q] = "off"]
  /\ UNCHANGED <<jobs, agent, done, file, acked, undone, restarts>>

\* Bug: stdout is read up to the answer.
StopsReading(q) == agent[q].answer \/ agent[q].st \in Dead

\* stdout is at its end once the agent is gone.
AtEnd(q) == agent[q].st \in Dead

ReadOut(q) ==
  /\ job[q].pc = "stdout" /\ AtEnd(q) /\ At(q, "stderr")
  /\ UNCHANGED <<jobs, agent, timer, done, file, acked, undone, restarts>>

\* The rest of `_run`: an exit with a code and no answer is an error, a timeout or not; the
\* suggestions are read from the answer.
Judge(q) ==
  /\ job[q].pc = "stderr" /\ timer' = [timer EXCEPT ![q] = "off"]
  /\ IF agent[q].st # "exited" /\ ~agent[q].answer THEN At(q, "error")
     ELSE \E n \in 0 .. MaxSuggs :
            /\ agent[q].answer \/ n = 0
            /\ job' = [job EXCEPT ![q] = [pc |-> "done", suggs |-> n]]
  /\ UNCHANGED <<jobs, agent, done, file, acked, undone, restarts>>

\* `_kill`, on the timer's thread.
Fire(q) ==
  /\ timer[q] = "armed" /\ timer' = [timer EXCEPT ![q] = "termed"]
  /\ \/ agent[q].st \in {"runs", "stuck"} /\ agent' = [agent EXCEPT ![q].st = "killed"]
     \/ UNCHANGED agent                                     \* SIGTERM is ignored
  /\ UNCHANGED <<jobs, job, done, file, acked, undone, restarts>>

Kill(q) ==
  /\ timer[q] = "termed" /\ timer' = [timer EXCEPT ![q] = "killed"]
  /\ agent' = [agent EXCEPT ![q].st = IF @ \in {"runs", "stuck"} THEN "killed" ELSE @]
  /\ UNCHANGED <<jobs, job, done, file, acked, undone, restarts>>

\* What an agent may do.  One whose stderr is full is stuck: it is read last.
Act(q) ==
  /\ agent[q].st = "runs"
  /\ \/ agent[q].stdin = "unread" /\ \E s \in {"read", "closed"} : agent' = [agent EXCEPT ![q].stdin = s]
     \/ ~agent[q].answer /\ agent' = [agent EXCEPT ![q].answer = TRUE]
     \/ \E s \in {"stuck", "exited", "failed"} : agent' = [agent EXCEPT ![q].st = s]
  /\ UNCHANGED <<jobs, job, timer, done, file, acked, undone, restarts>>

-----------------------------------------------------------------------------
\* `_done_items`.
DoneItems == IF done = NotRead THEN file ELSE done

\* What a call leaves in memory is saved, or the save fails and the page is told so.
Saved(now, told, gone) ==
  \/ done' = now /\ file' = now /\ acked' = told /\ undone' = gone
  \/ done' = now /\ UNCHANGED file /\ acked' = told \cap ToSet(file) \cap ToSet(now)
     /\ undone' = (undone \cap gone) \ ToSet(file)

\* `mark_done`: one marked already is not saved again.
MarkDone(q, i) ==
  LET all == <<<<q, i>>>> \o DoneItems
      now == IF Len(all) > DoneKeep THEN Front(all) ELSE all
  IN /\ q \in ToSet(jobs) /\ job[q].pc = "done" /\ i \in 1 .. job[q].suggs
     /\ IF <<q, i>> \in ToSet(DoneItems)
        THEN done' = DoneItems /\ UNCHANGED <<file, acked, undone>>
        ELSE Saved(now, (acked \cup {<<q, i>>}) \cap ToSet(now), undone \ {<<q, i>>})
     /\ UNCHANGED <<jobs, job, agent, timer, restarts>>

\* The marks but x.
Unmarked(x) == Only(DoneItems, ToSet(DoneItems) \ {x})

\* Bug: only the list in memory is changed.
UndoneHere(x) ==
  /\ done' = Unmarked(x) /\ UNCHANGED file
  /\ acked' = acked \ {x} /\ undone' = undone \cup {x}

\* `undo_done`.
Undo(x) == Saved(Unmarked(x), acked \ {x}, undone \cup {x})

UndoDone(x) ==
  /\ x \in ToSet(DoneItems) /\ Undo(x)
  /\ UNCHANGED <<jobs, job, agent, timer, restarts>>

\* The service stops and starts again: its questions are forgotten.
RestartService ==
  /\ restarts < MaxRestarts /\ restarts' = restarts + 1
  /\ jobs' = <<>> /\ job' = [q \in Questions |-> IF job[q].pc = "new" THEN job[q]
                                                 ELSE [Blank EXCEPT !.pc = "forgotten"]]
  /\ agent' = [q \in Questions |-> NoAgent] /\ timer' = [q \in Questions |-> "off"]
  /\ done' = NotRead /\ UNCHANGED <<file, acked, undone>>

ANext ==
  \/ \E q \in Questions :
       \/ Ask(q) \/ TakeSlot(q) \/ Launch(q) \/ SendPrompt(q) \/ ReadOut(q) \/ Judge(q)
       \/ Fire(q) \/ Kill(q) \/ Act(q) \/ \E i \in 1 .. MaxSuggs : MarkDone(q, i) \/ UndoDone(<<q, i>>)
  \/ RestartService

AskerSpec == AInit /\ [][ANext]_avars

\* The threads run; nothing is promised of the agents.
AskerFairness ==
  \A q \in Questions : /\ WF_avars(TakeSlot(q)) /\ WF_avars(Launch(q)) /\ WF_avars(SendPrompt(q))
                       /\ WF_avars(ReadOut(q)) /\ WF_avars(Judge(q))
                       /\ WF_avars(Fire(q)) /\ WF_avars(Kill(q))

-----------------------------------------------------------------------------
(* Properties. *)

\* An agent that runs is in its question's slot, so at most max_concurrent do; but for one
\* that closed its stdin, which is given up, and not ended.
AgentsInSlots ==
  /\ \A q \in Questions :
       agent[q].st \in {"runs", "stuck"} => q \in InSlot \/ agent[q].stdin = "closed"
  /\ Cardinality(InSlot) <= Slots

\* What the page was told is marked done stays so, through restarts and saves that fail,
\* until it is undone or enough others follow; what it was told is undone does not return.
DoneLasts == acked \subseteq ToSet(DoneItems) /\ undone \cap ToSet(DoneItems) = {}

\* Every question ends, whatever the agents do: none is in its slot for good.  One whose
\* directory cannot be made leaves its slot, and stays running in the page's list.
QuestionsEnd ==
  \A q \in Questions : job[q].pc = "queued" ~> job[q].pc \in Ended \cup {"forgotten", "lost"}
=============================================================================
