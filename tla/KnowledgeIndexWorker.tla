------------------------ MODULE KnowledgeIndexWorker ------------------------
(***************************************************************************)
(* The knowledge index worker of the console process: a thread that ticks  *)
(* until it is stopped, is closed before the service is declared READY and *)
(* is resumed when a drain is cancelled.  The callers are the lifespan of  *)
(* the server (start) and the ConsoleShutdownCoordinator (begin_shutdown,  *)
(* close, cancel_shutdown), which uses one of them at a time.              *)
(*                                                                         *)
(* What happens under the worker's lock is one action; a thread is alive   *)
(* (is_alive) until it has run past its last use of the lock.              *)
(***************************************************************************)
EXTENDS Naturals, FiniteSets

CONSTANTS
    Thread,     \* worker threads
    NoThread    \* _thread is None

ASSUME WorkerConstants == NoThread \notin Thread

VARIABLES
    stop,       \* the Event _stop
    failure,    \* _failure
    thread,     \* _thread
    wt,         \* where each thread is
    ctl         \* the caller: where it is, the thread it joins, its last result

workerVars == <<stop, failure, thread, wt, ctl>>

-----------------------------------------------------------------------------

\* top: before the test of stop; tick: in tick(); wait: in stop.wait;
\* leaving: before the finally clause; exiting: after it, still alive.
WorkerPC == {"none", "top", "tick", "wait", "leaving", "exiting"}
InLoop == {"top", "tick", "wait"}

\* start: about to call start(); undo: start() raised; snap, join, verdict: the
\* steps of close.  state: the coordinator's view (cancel_shutdown is refused
\* unless it drains, and for ever after a failed start).  closed: close returned
\* true and the worker was not resumed since.
CtlPC == {"idle", "start", "undo", "snap", "join", "verdict"}

TypeOK ==
    /\ stop \in BOOLEAN
    /\ failure \in BOOLEAN
    /\ thread \in Thread \cup {NoThread}
    /\ wt \in [Thread -> WorkerPC]
    /\ ctl \in [pc : CtlPC, joins : Thread \cup {NoThread},
                state : {"new", "running", "draining", "failed"},
                closed : BOOLEAN]

Init ==
    /\ stop = FALSE
    /\ failure = FALSE
    /\ thread = NoThread
    /\ wt = [t \in Thread |-> "none"]
    /\ ctl = [pc |-> "idle", joins |-> NoThread, state |-> "new", closed |-> FALSE]

Alive(t) == t # NoThread /\ wt[t] # "none"
Ticking == {t \in Thread : wt[t] \in InLoop}

-----------------------------------------------------------------------------
(* The thread                                                              *)

\* Mutant: the loop does not look at the event.
CheckStopNever(t) ==
    /\ wt[t] = "top"
    /\ wt' = [wt EXCEPT ![t] = "tick"]
    /\ UNCHANGED <<stop, failure, thread, ctl>>

CheckStop(t) ==
    /\ wt[t] = "top"
    /\ wt' = [wt EXCEPT ![t] = IF stop THEN "leaving" ELSE "tick"]
    /\ UNCHANGED <<stop, failure, thread, ctl>>

Tick(t) ==
    /\ wt[t] = "tick"
    /\ wt' = [wt EXCEPT ![t] = "wait"]
    /\ UNCHANGED <<stop, failure, thread, ctl>>

\* A tick that raises is not evidence of completed work.
TickRaises(t) ==
    /\ wt[t] = "tick"
    /\ failure' = TRUE
    /\ stop' = TRUE
    /\ wt' = [wt EXCEPT ![t] = "leaving"]
    /\ UNCHANGED <<thread, ctl>>

\* stop.wait ends by the event or by its timeout.
Wake(t) ==
    /\ wt[t] = "wait"
    /\ wt' = [wt EXCEPT ![t] = "top"]
    /\ UNCHANGED <<stop, failure, thread, ctl>>

\* The finally clause: a stop that was cancelled after this thread saw it is
\* handed to a successor.  (A thread the operating system refuses to start here
\* is left out.)
Leave(t) ==
    /\ wt[t] = "leaving"
    /\ \/ /\ ~stop /\ ~failure
          /\ \E u \in Thread : /\ wt[u] = "none"
                               /\ thread' = u
                               /\ wt' = [wt EXCEPT ![t] = "exiting", ![u] = "top"]
       \/ /\ stop \/ failure
          /\ wt' = [wt EXCEPT ![t] = "exiting"]
          /\ UNCHANGED thread
    /\ UNCHANGED <<stop, failure, ctl>>

Exit(t) ==
    /\ wt[t] = "exiting"
    /\ wt' = [wt EXCEPT ![t] = "none"]
    /\ UNCHANGED <<stop, failure, thread, ctl>>

-----------------------------------------------------------------------------
(* The caller                                                              *)

Goto(pc) == ctl' = [ctl EXCEPT !.pc = pc]

\* The lifespan starts the worker once.
CallStart ==
    /\ ctl.pc = "idle"
    /\ ctl.state = "new"
    /\ ctl' = [ctl EXCEPT !.pc = "start", !.state = "running"]
    /\ UNCHANGED <<stop, failure, thread, wt>>

\* cancel_shutdown, not called after a failure: clear stop, then call start().
CancelShutdown ==
    /\ ctl.pc = "idle"
    /\ ctl.state = "draining"
    /\ ~failure
    /\ stop' = FALSE
    /\ ctl' = [ctl EXCEPT !.pc = "start", !.state = "running", !.closed = FALSE]
    /\ UNCHANGED <<failure, thread, wt>>

\* Mutant: a second thread is started beside one that is still alive.
StartAnyway ==
    /\ ctl.pc = "start"
    /\ ~failure
    /\ stop' = FALSE
    /\ \E t \in Thread : wt[t] = "none" /\ thread' = t /\ wt' = [wt EXCEPT ![t] = "top"]
    /\ Goto("idle")
    /\ UNCHANGED failure

Start ==
    /\ ctl.pc = "start"
    /\ \/ /\ failure \/ Alive(thread)
          /\ Goto("idle")
          /\ UNCHANGED <<stop, failure, thread, wt>>
       \/ /\ ~failure /\ ~Alive(thread)
          /\ stop' = FALSE
          /\ \E t \in Thread :
                wt[t] = "none" /\ thread' = t /\ wt' = [wt EXCEPT ![t] = "top"]
          /\ Goto("idle")
          /\ UNCHANGED failure

\* Thread.start() raises before the thread exists, or after it began to run.
StartRaises ==
    /\ ctl.pc = "start"
    /\ ~failure /\ ~Alive(thread)
    /\ \/ /\ thread' = NoThread
          /\ stop' = FALSE
          /\ UNCHANGED <<failure, wt>>
       \/ /\ \E t \in Thread :
                wt[t] = "none" /\ thread' = t /\ wt' = [wt EXCEPT ![t] = "top"]
          /\ stop' = TRUE
          /\ failure' = TRUE
    /\ Goto("undo")

\* The coordinator, or the lifespan, then drains.
Undo ==
    /\ ctl.pc = "undo"
    /\ stop' = TRUE
    /\ ctl' = [ctl EXCEPT !.pc = "idle", !.state = "failed"]
    /\ UNCHANGED <<failure, thread, wt>>

BeginShutdown ==
    /\ ctl.pc = "idle"
    /\ ctl.state = "running"
    /\ stop' = TRUE
    /\ ctl' = [ctl EXCEPT !.state = "draining"]
    /\ UNCHANGED <<failure, thread, wt>>

\* close: stop, read the thread, join it, read the failure, read is_alive.
Close ==
    /\ ctl.pc = "idle"
    /\ ctl.state \in {"draining", "failed"}
    /\ stop' = TRUE
    /\ Goto("snap")
    /\ UNCHANGED <<failure, thread, wt>>

CloseSnap ==
    /\ ctl.pc = "snap"
    /\ ctl' = [ctl EXCEPT !.pc = "join", !.joins = thread]
    /\ UNCHANGED <<stop, failure, thread, wt>>

\* The join ends with the thread or by its timeout; a failure means refusal.
CloseJoined ==
    /\ ctl.pc = "join"
    /\ ctl' = IF failure THEN [ctl EXCEPT !.pc = "idle", !.joins = NoThread, !.closed = FALSE]
                         ELSE [ctl EXCEPT !.pc = "verdict"]
    /\ UNCHANGED <<stop, failure, thread, wt>>

\* Mutant: a join that timed out counts.
CloseVerdictByJoin ==
    /\ ctl.pc = "verdict"
    /\ ctl' = [ctl EXCEPT !.pc = "idle", !.joins = NoThread, !.closed = TRUE]
    /\ UNCHANGED <<stop, failure, thread, wt>>

CloseVerdict ==
    /\ ctl.pc = "verdict"
    /\ ctl' = [ctl EXCEPT !.pc = "idle", !.joins = NoThread,
                          !.closed = ~Alive(ctl.joins)]
    /\ UNCHANGED <<stop, failure, thread, wt>>

-----------------------------------------------------------------------------

Worker(t) == CheckStop(t) \/ Tick(t) \/ TickRaises(t) \/ Wake(t) \/ Leave(t) \/ Exit(t)

\* The rest of a call that has begun.
Proceed == Start \/ StartRaises \/ Undo \/ CloseSnap \/ CloseJoined \/ CloseVerdict

Next ==
    \/ \E t \in Thread : Worker(t)
    \/ CallStart \/ CancelShutdown \/ BeginShutdown \/ Close
    \/ Proceed

Spec == Init /\ [][Next]_workerVars

\* Threads run, a tick ends, and calls that have begun go on.
FairSpec ==
    /\ Spec
    /\ \A t \in Thread : WF_workerVars(Worker(t))
    /\ WF_workerVars(Proceed)

-----------------------------------------------------------------------------

\* However stops, resumptions and failed starts interleave with a leaving
\* thread, two threads never tick at the same time.
OneTicker == \A t, u \in Ticking : t = u

\* After close returned true no thread works on the index, and none will
\* until the worker is resumed.
ClosedMeansStopped == ctl.closed => \A t \in Thread : wt[t] \in {"none", "exiting"}

\* A stop ends the loop and its hand-over, unless it is cancelled.
StopEnds ==
    stop ~> (~stop \/ \A t \in Thread : wt[t] \in {"none", "exiting"})

\* _run: "A thrown tick has not proved durable completion. Keep the service
\* online for inspection instead of silently accepting a join as READY."
FailedTickNotClosed == ctl.closed => ~failure

\* _run, finally: "Hand the resumed admission to one successor, never lose the
\* tick loop."
TickLoopNeverLost ==
    (ctl.state = "running" /\ ~failure) ~>
        (Ticking # {} \/ ctl.state # "running" \/ failure)
=============================================================================
