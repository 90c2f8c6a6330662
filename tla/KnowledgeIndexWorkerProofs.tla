--------------------- MODULE KnowledgeIndexWorkerProofs ---------------------
(***************************************************************************)
(* The index worker never ticks in two threads at once, and a close that   *)
(* returned true means that no thread is working, for any number of        *)
(* threads.                                                                *)
(***************************************************************************)
EXTENDS KnowledgeIndexWorker, TLAPS

\* A thread that loops, or that has yet to decide about a successor, is the one
\* _thread names.
OnlyCurrent ==
    \A t \in Thread : wt[t] \in InLoop \cup {"leaving"} => t = thread

Closing == {"snap", "join", "verdict"}

\* From the first step of close until a resumption the event stays set, so no
\* successor appears and the joined thread is still the current one.
CloseInv ==
    /\ ctl.pc \in {"start", "undo"} => ~ctl.closed
    /\ ctl.closed \/ ctl.pc \in Closing =>
            stop /\ ctl.state \in {"draining", "failed"}
    /\ ctl.pc \in {"join", "verdict"} => ctl.joins = thread

WorkerInv == TypeOK /\ OnlyCurrent /\ CloseInv /\ ClosedMeansStopped

-----------------------------------------------------------------------------

\* Initially there is no thread and nothing is closed.
LEMMA WorkerInit == Init => WorkerInv
<1> SUFFICES ASSUME Init PROVE WorkerInv
  OBVIOUS
<1>1. TypeOK
  BY DEF Init, TypeOK, WorkerPC, CtlPC
<1>2. OnlyCurrent
  BY DEF Init, OnlyCurrent, InLoop
<1>3. CloseInv /\ ClosedMeansStopped
  BY DEF Init, CloseInv, ClosedMeansStopped, Closing
<1> QED
  BY <1>1, <1>2, <1>3 DEF WorkerInv

\* No step of a thread breaks the invariant; the finally clause of _run hands
\* over only while no close is under way.
LEMMA ThreadStep ==
  ASSUME WorkerInv, NEW t \in Thread, Worker(t)
  PROVE  WorkerInv'
<1> USE DEF WorkerInv, TypeOK, WorkerPC, InLoop
<1>1. UNCHANGED ctl
  BY DEF Worker, CheckStop, Tick, TickRaises, Wake, Leave, Exit
<1>2. CASE CheckStop(t) \/ Tick(t) \/ Wake(t) \/ Exit(t)
  <2>1. /\ UNCHANGED <<stop, failure, thread>>
        /\ \E pc \in WorkerPC :
             /\ wt' = [wt EXCEPT ![t] = pc]
             /\ pc \in InLoop \cup {"leaving"} => wt[t] \in InLoop
             /\ wt[t] \in {"none", "exiting"} => pc = "none"
    BY <1>2 DEF CheckStop, Tick, Wake, Exit
  <2> QED
    BY <1>1, <2>1 DEF OnlyCurrent, CloseInv, ClosedMeansStopped
<1>3. CASE TickRaises(t)
  BY <1>1, <1>3 DEF TickRaises, OnlyCurrent, CloseInv, ClosedMeansStopped
<1>4. CASE Leave(t)
  <2>1. wt[t] = "leaving" /\ UNCHANGED <<stop, failure>>
    BY <1>4 DEF Leave
  <2>2. t = thread /\ ~ctl.closed
    BY <2>1 DEF OnlyCurrent, ClosedMeansStopped
  <2>3. CASE stop \/ failure
    <3>1. wt' = [wt EXCEPT ![t] = "exiting"] /\ UNCHANGED thread
      BY <1>4, <2>3 DEF Leave
    <3> QED
      BY <1>1, <2>1, <2>2, <3>1 DEF OnlyCurrent, CloseInv, ClosedMeansStopped
  <2>4. CASE ~stop /\ ~failure
    <3>1. PICK u \in Thread :
            /\ wt[u] = "none" /\ thread' = u
            /\ wt' = [wt EXCEPT ![t] = "exiting", ![u] = "top"]
      BY <1>4, <2>4 DEF Leave
    <3>2. ctl.pc \notin Closing
      BY <2>4 DEF CloseInv
    <3>3. OnlyCurrent'
      BY <2>1, <2>2, <3>1 DEF OnlyCurrent
    <3>4. CloseInv' /\ ClosedMeansStopped'
      BY <1>1, <2>1, <2>2, <3>2 DEF CloseInv, ClosedMeansStopped, Closing
    <3> QED
      BY <1>1, <2>1, <3>1, <3>3, <3>4
  <2> QED
    BY <2>3, <2>4
<1> QED
  BY <1>2, <1>3, <1>4 DEF Worker

\* start() creates a thread only when the current one is gone, and is called only
\* when nothing is closed.
LEMMA StartStep ==
  ASSUME WorkerInv, Start \/ StartRaises
  PROVE  WorkerInv'
<1> USE DEF WorkerInv, TypeOK
<1>1. ctl.pc = "start" /\ ~ctl.closed
  BY DEF Start, StartRaises, CloseInv
<1>2. PICK pc \in {"idle", "undo"} : ctl' = [ctl EXCEPT !.pc = pc]
  BY DEF Start, StartRaises, Goto
<1>3. /\ ctl'.pc = pc /\ ctl'.closed = ctl.closed /\ ctl'.state = ctl.state
      /\ ctl'.joins = ctl.joins
  BY <1>2
<1>4. /\ ctl' \in [pc : CtlPC, joins : Thread \cup {NoThread},
                   state : {"new", "running", "draining", "failed"},
                   closed : BOOLEAN]
      /\ CloseInv' /\ ClosedMeansStopped'
  BY <1>1, <1>2, <1>3 DEF CtlPC, CloseInv, ClosedMeansStopped, Closing
<1>5. CASE UNCHANGED <<stop, failure, thread, wt>>
  BY <1>4, <1>5 DEF OnlyCurrent
<1>6. CASE ~Alive(thread)
  <2>1. \A t \in Thread : wt[t] \notin InLoop \cup {"leaving"}
    BY <1>6, WorkerConstants DEF OnlyCurrent, Alive, InLoop
  <2>2. CASE thread' = NoThread /\ UNCHANGED <<failure, wt>> /\ stop' = FALSE
    BY <1>4, <2>1, <2>2 DEF OnlyCurrent
  <2>3. ASSUME NEW t \in Thread, thread' = t, wt' = [wt EXCEPT ![t] = "top"],
               stop' \in BOOLEAN, failure' \in BOOLEAN
        PROVE  WorkerInv'
    BY <1>4, <2>1, <2>3 DEF OnlyCurrent, WorkerPC
  <2> QED
    BY <1>5, <2>2, <2>3 DEF Start, StartRaises
<1> QED
  BY <1>5, <1>6 DEF Start, StartRaises

\* The other steps of the caller start no thread; the verdict of close is read
\* from the current thread.
LEMMA CallerStep ==
  ASSUME WorkerInv,
         \/ CallStart \/ CancelShutdown \/ BeginShutdown \/ Close
         \/ Undo \/ CloseSnap \/ CloseJoined \/ CloseVerdict
  PROVE  WorkerInv'
<1> USE DEF WorkerInv, TypeOK, CtlPC
<1>1. UNCHANGED <<failure, thread, wt>> /\ stop' \in BOOLEAN
  BY DEF CallStart, CancelShutdown, BeginShutdown, Close, Undo, CloseSnap,
     CloseJoined, CloseVerdict
<1>2. OnlyCurrent'
  BY <1>1 DEF OnlyCurrent
<1>3. CASE CallStart \/ CancelShutdown \/ BeginShutdown \/ Close
  BY <1>1, <1>2, <1>3 DEF CallStart, CancelShutdown, BeginShutdown, Close, Goto,
     CloseInv, ClosedMeansStopped, Closing
<1>4. CASE Undo \/ CloseSnap \/ CloseJoined
  BY <1>1, <1>2, <1>4 DEF Undo, CloseSnap, CloseJoined, CloseInv, ClosedMeansStopped,
     Closing
<1>5. CASE CloseVerdict
  <2>1. ctl.joins = thread /\ stop /\ ctl.state \in {"draining", "failed"}
    BY <1>5 DEF CloseVerdict, CloseInv, Closing
  <2>2. ~Alive(thread) => \A t \in Thread : wt[t] \in {"none", "exiting"}
    BY WorkerConstants DEF OnlyCurrent, Alive, InLoop, WorkerPC
  <2> DEFINE c == ~Alive(ctl.joins)
  <2>3. c \in BOOLEAN
    BY DEF Alive
  <2>4. ctl' = [ctl EXCEPT !.pc = "idle", !.joins = NoThread, !.closed = c]
        /\ UNCHANGED stop
    BY <1>5 DEF CloseVerdict
  <2>5. c => ~Alive(thread)
    BY <2>1
  <2> HIDE DEF c
  <2> QED
    BY <1>1, <1>2, <2>1, <2>2, <2>3, <2>4, <2>5
       DEF CloseInv, ClosedMeansStopped, Closing
<1> QED
  BY <1>3, <1>4, <1>5

\* The invariant holds in every reachable state.
THEOREM WorkerCorrect == Spec => []WorkerInv
<1>1. WorkerInv /\ [Next]_workerVars => WorkerInv'
  <2> SUFFICES ASSUME WorkerInv, [Next]_workerVars PROVE WorkerInv'
    OBVIOUS
  <2>1. CASE UNCHANGED workerVars
    BY <2>1 DEF workerVars, WorkerInv, TypeOK, OnlyCurrent, CloseInv,
       ClosedMeansStopped
  <2> QED
    BY <2>1, ThreadStep, StartStep, CallerStep DEF Next, Proceed
<1> QED
  BY <1>1, WorkerInit, PTL DEF Spec

\* However stops, resumptions, failed starts and hand-overs interleave, and for
\* any number of threads, two threads never tick at the same time.
THEOREM OneTickerHolds == Spec => []OneTicker
<1>1. WorkerInv => OneTicker
  BY DEF WorkerInv, OnlyCurrent, OneTicker, Ticking
<1> QED
  BY <1>1, WorkerCorrect, PTL

\* After close returned true no thread works on the index until a resumption:
\* the thread it joined is the last one, although it may have been started by a
\* leaving thread.
THEOREM ClosedMeansStoppedHolds == Spec => []ClosedMeansStopped
<1>1. WorkerInv => ClosedMeansStopped
  BY DEF WorkerInv
<1> QED
  BY <1>1, WorkerCorrect, PTL
=============================================================================
