-------------------------- MODULE WorkDistribution --------------------------
(***************************************************************************)
(* How new work reaches the miners: the signal handler, which adopts a new *)
(* block and starts an updateStratumWorkers coroutine, and timerProc,      *)
(* which watches the link to the wallet and refreshes old work.            *)
(*                                                                         *)
(* Both walk stratumWorkers with a range-for loop whose body waits for a   *)
(* template.  While it waits the records may be erased and created by the  *)
(* sessions, and the loop goes on with the iterator and the socket it has. *)
(***************************************************************************)
EXTENDS PoolState

workUnchanged == <<uniqueShares, extraNonceMap, sessionId, claim, credits>>

NoVisit == [pos |-> 0, socket |-> "own", valid |-> TRUE]
VisitTo(s, workers) ==
  [pos |-> s, socket |-> workers[s].socket, valid |-> TRUE]

\* The records a loop has still to stop at.
StopsNotForOld(loop, from, workers) ==  \* mutant: old work is not refreshed
  {s \in DOMAIN workers : s >= from /\ loop # "refresh"}
Stops(loop, from, workers) ==
  {s \in DOMAIN workers : s >= from /\ (loop = "refresh" => workers[s].due)}

\* Where coroutine w goes when its loop has reached session id from.  The
\* timer refreshes old work after an update, then sleeps.
NextStop(w, loop, from, workers) ==
  LET here == Stops(loop, from, workers)
      old  == Stops("refresh", 0, workers)
      stop(l, s) == [pc |-> l, answer |-> Pending, visit |-> VisitTo(s, workers)]
  IN  CASE here # {} -> stop(loop, Min(here))
        [] here = {} /\ w = Timer /\ loop = "update" /\ old # {} ->
             stop("refresh", Min(old))
        [] OTHER -> [pc |-> IF w = Timer THEN "sleep" ELSE "free",
                     answer |-> Null, visit |-> NoVisit]

GoTo(w, stop) ==
  /\ pc' = [pc EXCEPT ![w] = stop.pc]
  /\ answer' = [answer EXCEPT ![w] = stop.answer]
  /\ visit' = [visit EXCEPT ![w] = stop.visit]

\* The timer copies the state of the link when it leaves the update.
SampleLink(w, loop, stop) ==
  connectedBefore' = IF w = Timer /\ loop = "update" /\ stop.pc # "update"
                     THEN connected ELSE connectedBefore

StartWalk(w, loop, workers) ==
  LET stop == NextStop(w, loop, 0, workers)
  IN  GoTo(w, stop) /\ SampleLink(w, loop, stop)

-----------------------------------------------------------------------------
\* signalHandler

NewBlockSignal ==
  /\ signals # <<>>
  /\ AdoptBlock(Head(signals))
  /\ signals' = Tail(signals)
  /\ \E w \in Walkers :
       /\ pc[w] = "free"
       /\ StartWalk(w, "update", stratumWorkers)
  /\ Silent
  /\ UNCHANGED <<stratumWorkers, sessionId, claim, credits, job, process,
                 tip, chain, connected, served, found, overlooked>>

-----------------------------------------------------------------------------
\* One round of the loop: stratumSendNewWork(w.socket, w.first), then ++

Alive(s) == pc[s] \notin {"unborn", "closed"}

\* The write goes to a deleted or uninitialised socket, or the iterator
\* stands on a freed node.
WritesAstray(w) ==
  /\ HasWork(answer[w])
  /\ visit[w].socket = "wild" \/ ~Alive(visit[w].pos)
Broken(w) == WritesAstray(w) \/ ~visit[w].valid

\* A broken round may crash the process.
WalkCrash(w) ==
  /\ pc[w] \in {"update", "refresh"} /\ answer[w] # Pending
  /\ Broken(w)
  /\ process' = "crashed"
  /\ Silent
  /\ UNCHANGED <<blockVars, taskVars, uniqueShares, registryVars,
                 connectedBefore, callVars, visit, walletVars, credits, job>>

\* Otherwise a message written astray reaches nobody, and a freed node still
\* leads to its successor.
WalkStep(w) ==
  LET s       == visit[w].pos
      workers == WorkersAfterWork(s, answer[w])
      stop    == NextStop(w, pc[w], s + 1, workers)
  IN  /\ pc[w] \in {"update", "refresh"} /\ answer[w] # Pending
      /\ stratumTaskMap' = TasksAfterWork(answer[w])
      /\ stratumWorkers' = workers
      /\ job' = JobsAfterWork(s, answer[w], ~WritesAstray(w))
      /\ GoTo(w, stop)
      /\ SampleLink(w, pc[w], stop)
      /\ Silent
      /\ UNCHANGED <<workUnchanged, blockVars, walletVars, process>>

-----------------------------------------------------------------------------
\* timerProc

timerUnchanged == <<sessionId, stratumWorkers, claim, walletVars, credits, job,
                    process>>

\* The link is as it was: only old work is refreshed.
TimerTick ==
  /\ pc[Timer] = "sleep" /\ connectedBefore = connected
  /\ StartWalk(Timer, "refresh", stratumWorkers)
  /\ Silent
  /\ UNCHANGED <<timerUnchanged, blockVars, taskVars, uniqueShares>>

TimerSeesLinkUp ==
  /\ pc[Timer] = "sleep" /\ ~connectedBefore /\ connected
  /\ Call(Timer, "getblock")
  /\ Silent
  /\ UNCHANGED <<timerUnchanged, blockVars, taskVars, uniqueShares,
                 connectedBefore, visit>>

\* No block: connectedBefore keeps its value and the next tick tries again.
TimerGivesUp ==  \* mutant: connectedBefore is copied without a block
  /\ pc[Timer] = "getblock" /\ answer[Timer] = Null
  /\ Resume(Timer, "sleep")
  /\ connectedBefore' = connected
  /\ Silent
  /\ UNCHANGED <<timerUnchanged, blockVars, taskVars, uniqueShares, visit>>

TimerGetsNoBlock ==
  /\ pc[Timer] = "getblock" /\ answer[Timer] = Null
  /\ Resume(Timer, "sleep")
  /\ Silent
  /\ UNCHANGED <<timerUnchanged, blockVars, taskVars, uniqueShares,
                 connectedBefore, visit>>

TimerGetsBlock ==
  /\ pc[Timer] = "getblock" /\ answer[Timer] \notin {Null, Pending}
  /\ AdoptBlock(answer[Timer])
  /\ StartWalk(Timer, "update", stratumWorkers)
  /\ Silent
  /\ UNCHANGED timerUnchanged

\* The link is gone: the height becomes 0; the hash, the tasks and the shares
\* seen stay.
TimerSeesLinkDown ==
  /\ pc[Timer] = "sleep" /\ connectedBefore /\ ~connected
  /\ currHeight' = 0
  /\ published' = [height |-> 0, hash |-> currHash]
  /\ StartWalk(Timer, "update", stratumWorkers)
  /\ Silent
  /\ UNCHANGED <<timerUnchanged, currHash, taskVars, uniqueShares>>

TimerStep ==
  \/ TimerTick \/ TimerSeesLinkUp \/ TimerGetsNoBlock \/ TimerGetsBlock
  \/ TimerSeesLinkDown

WorkNext ==
  \/ NewBlockSignal
  \/ \E w \in Walks : WalkStep(w) \/ WalkCrash(w)
  \/ TimerStep
=============================================================================
