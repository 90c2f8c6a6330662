--------------------------- MODULE ProjectConsole ---------------------------
(***************************************************************************)
(* The operations of the Web Console: the durable operation store and the  *)
(* ProjectConsole that admits operations, executes them one at a time in a *)
(* dispatcher thread, and is drained, resumed and restarted around them.   *)
(*                                                                         *)
(* What the code does under the console's one lock (`_lifecycle', also     *)
(* `_condition') is one action.  The two Events and the store are used     *)
(* outside it as well, so a thread's steps between two holdings of the     *)
(* lock are actions of their own.                                          *)
(***************************************************************************)
EXTENDS Naturals, FiniteSets

CONSTANTS
    Op,         \* operation ids (a digest of team and idempotency key)
    Delivery,   \* delivery ids
    DeliveryOf, \* [Op -> Delivery]; one of its own for an operation without one
    Thread,     \* dispatcher threads
    NoThread,   \* _thread is None
    NoOp,       \* a thread without an operation
    MaxCrash    \* bound: the host process stops at most this often

ASSUME ConsoleConstants ==
    /\ DeliveryOf \in [Op -> Delivery]
    /\ NoThread \notin Thread
    /\ NoOp \notin Op
    /\ MaxCrash \in Nat

VARIABLES
    ops,        \* the store: the status of each operation
    con,        \* the fields of ProjectConsole
    th,         \* the dispatcher threads
    waking,     \* submissions stored whose wake.set() has not run yet
    silent,     \* operations stored during the dispatcher's present wait by a
                \* submission that raised, so without a wake.set() (history)
    waiter,     \* the caller of await_shutdown
    crashes     \* how often the host stopped

consoleVars == <<ops, con, th, waking, silent, waiter, crashes>>

-----------------------------------------------------------------------------
(* Types                                                                   *)

OpStatus == {"ABSENT", "QUEUED", "RUNNING", "SUCCEEDED", "FAILED", "INTERRUPTED"}
Unfinished == {"QUEUED", "RUNNING"}

Console == [started : BOOLEAN, draining : BOOLEAN, ready : BOOLEAN,
            timedOut : BOOLEAN, failure : BOOLEAN, stop : BOOLEAN,
            wake : BOOLEAN, thread : Thread \cup {NoThread}, active : Nat]

\* top: before wake.clear(); check: before the test of stop; claim: before
\* claim_next; exec: the operation runs; done, broken: its final record was or
\* was not confirmed; wait: in wake.wait; dying: in the outer except clause;
\* exiting: past its last use of the lock, is_alive() still true.
ThreadPC == {"none", "top", "check", "claim", "exec", "done", "broken", "wait",
             "dying", "exiting"}

NewConsole == [started |-> FALSE, draining |-> FALSE, ready |-> FALSE,
               timedOut |-> FALSE, failure |-> FALSE, stop |-> FALSE,
               wake |-> FALSE, thread |-> NoThread, active |-> 0]
NoThreads == [t \in Thread |-> [pc |-> "none", op |-> NoOp]]
NoWaiter == [pc |-> "off", joins |-> {}, late |-> FALSE]

TypeOK ==
    /\ ops \in [Op -> OpStatus]
    /\ con \in Console
    /\ th \in [Thread -> [pc : ThreadPC, op : Op \cup {NoOp}]]
    /\ waking \subseteq Op
    /\ silent \subseteq Op
    /\ waiter \in [pc : {"off", "loop", "asleep", "join"},
                   joins : SUBSET Thread, late : BOOLEAN]
    /\ crashes \in 0 .. MaxCrash

Init ==
    /\ ops = [o \in Op |-> "ABSENT"]
    /\ con = NewConsole
    /\ th = NoThreads
    /\ waking = {}
    /\ silent = {}
    /\ waiter = NoWaiter
    /\ crashes = 0

-----------------------------------------------------------------------------
(* Helpers                                                                 *)

\* Every thread that is alive was added to _threads and only dead ones are
\* removed, so the live members of _threads are all the live threads.
Live == {t \in Thread : th[t].pc # "none"}

Looping(t) == th[t].pc \notin {"none", "exiting"}

Queued == {o \in Op : ops[o] = "QUEUED"}

\* _refuse_locked: sticky for the life of the process.
Refuse(c) == [c EXCEPT !.failure = TRUE, !.draining = TRUE, !.stop = TRUE,
                       !.wake = TRUE]

\* _condition.notify_all()
Notify == waiter' = IF waiter.pc = "asleep" THEN [waiter EXCEPT !.pc = "loop"]
                                            ELSE waiter

\* A thread id that no running join refers to.
Fresh(t) == th[t].pc = "none" /\ t \notin waiter.joins

Goto(t, pc) == th' = [th EXCEPT ![t].pc = pc]

-----------------------------------------------------------------------------
(* Submission                                                              *)

\* No other operation of the delivery is unfinished.
Available(o) ==
    \A p \in Op : DeliveryOf[p] = DeliveryOf[o] => ops[p] \notin Unfinished

\* A repeated submission returns the stored operation and still wakes.
Submit(o) ==
    /\ ~con.draining
    /\ \/ /\ ops[o] = "ABSENT"
          /\ Available(o)
          /\ ops' = [ops EXCEPT ![o] = "QUEUED"]
       \/ /\ ops[o] # "ABSENT"
          /\ UNCHANGED ops
    /\ waking' = waking \cup {o}
    /\ UNCHANGED <<con, th, silent, waiter, crashes>>

\* The record is linked and the synchronisation of its directory raises: the
\* operation is stored, and the caller leaves without setting the event.
SubmitRaises(o) ==
    /\ ~con.draining
    /\ ops[o] = "ABSENT"
    /\ Available(o)
    /\ ops' = [ops EXCEPT ![o] = "QUEUED"]
    /\ silent' = IF \E t \in Thread : th[t].pc = "wait" THEN silent \cup {o} ELSE silent
    /\ UNCHANGED <<con, th, waking, waiter, crashes>>

SubmitWake(o) ==
    /\ o \in waking
    /\ waking' = waking \ {o}
    /\ con' = [con EXCEPT !.wake = TRUE]
    /\ UNCHANGED <<ops, th, silent, waiter, crashes>>

-----------------------------------------------------------------------------
(* The dispatcher thread: _run and run_once                                *)

ClearWake(t) ==
    /\ th[t].pc = "top"
    /\ con' = [con EXCEPT !.wake = FALSE]
    /\ Goto(t, "check")
    /\ UNCHANGED <<ops, waking, silent, waiter, crashes>>

\* Leaving the loop, the thread gives up its place under the lock.
Left(c, t) == [c EXCEPT !.thread = IF @ = t THEN NoThread ELSE @]

CheckStop(t) ==
    /\ th[t].pc = "check"
    /\ \/ /\ con.stop
          /\ con' = Left(con, t)
          /\ Goto(t, "exiting")
          /\ Notify
       \/ /\ ~con.stop
          /\ Goto(t, "claim")
          /\ UNCHANGED <<con, waiter>>
    /\ UNCHANGED <<ops, waking, silent, crashes>>

\* Mutant: the event is cleared after the claim that found nothing.
ClaimNothingThenClear(t) ==
    /\ con.draining \/ con.active > 0 \/ Queued = {}
    /\ con' = [con EXCEPT !.wake = FALSE]
    /\ Goto(t, "wait")
    /\ UNCHANGED <<ops, waiter>>

ClaimNothing(t) ==
    /\ con.draining \/ con.active > 0 \/ Queued = {}
    /\ Goto(t, "wait")
    /\ UNCHANGED <<ops, con, waiter>>

\* requested_at is wall-clock time, which may tie or step back, so any queued
\* operation may be the first.
ClaimOne(t, o) ==
    /\ ops' = [ops EXCEPT ![o] = "RUNNING"]
    /\ con' = [con EXCEPT !.active = @ + 1]
    /\ th' = [th EXCEPT ![t] = [pc |-> "exec", op |-> o]]
    /\ UNCHANGED waiter

\* The store raises; the record may have been published before it did.
ClaimRaises(t) ==
    /\ \/ UNCHANGED ops
       \/ \E o \in Queued : ops' = [ops EXCEPT ![o] = "RUNNING"]
    /\ con' = Refuse(con)
    /\ Goto(t, "dying")
    /\ Notify

ClaimNext(t) ==
    /\ th[t].pc = "claim"
    /\ \/ ClaimNothing(t)
       \/ /\ ~con.draining
          /\ con.active = 0
          /\ \/ \E o \in Queued : ClaimOne(t, o)
             \/ ClaimRaises(t)
    /\ UNCHANGED <<waking, silent, crashes>>

\* The executor returned, was paused, rejected or failed: the final record is
\* appended to the RUNNING version that was claimed.
Finish(t) ==
    /\ th[t].pc = "exec"
    /\ ops[th[t].op] = "RUNNING"
    /\ \E s \in {"SUCCEEDED", "FAILED"} : ops' = [ops EXCEPT ![th[t].op] = s]
    /\ Goto(t, "done")
    /\ UNCHANGED <<con, waking, silent, waiter, crashes>>

\* The final record, or the owned scope around it, raises; what was written
\* before is kept.
FinishRaises(t) ==
    /\ th[t].pc = "exec"
    /\ \/ UNCHANGED ops
       \/ /\ ops[th[t].op] = "RUNNING"
          /\ \E s \in {"SUCCEEDED", "FAILED"} : ops' = [ops EXCEPT ![th[t].op] = s]
    /\ Goto(t, "broken")
    /\ UNCHANGED <<con, waking, silent, waiter, crashes>>

\* Mutant: an unconfirmed final record does not refuse further work.
ReleaseAnyway(t) ==
    /\ th[t].pc \in {"done", "broken"}
    /\ con' = [con EXCEPT !.active = @ - 1]
    /\ th' = [th EXCEPT ![t] = [pc |-> "top", op |-> NoOp]]
    /\ Notify
    /\ UNCHANGED <<ops, waking, silent, crashes>>

\* The finally clause of run_once.
Release(t) ==
    /\ \/ /\ th[t].pc = "done"
          /\ con' = [con EXCEPT !.active = @ - 1]
          /\ th' = [th EXCEPT ![t] = [pc |-> "top", op |-> NoOp]]
       \/ /\ th[t].pc = "broken"
          /\ con' = Refuse([con EXCEPT !.active = @ - 1])
          /\ th' = [th EXCEPT ![t] = [pc |-> "dying", op |-> NoOp]]
    /\ Notify
    /\ UNCHANGED <<ops, waking, silent, crashes>>

\* wake.wait returns because of the event or of its timeout.
Poll(t) ==
    /\ th[t].pc = "wait"
    /\ Goto(t, "top")
    /\ silent' = {}
    /\ UNCHANGED <<ops, con, waking, waiter, crashes>>

Die(t) ==
    /\ th[t].pc = "dying"
    /\ con' = Left(IF con.failure THEN con ELSE Refuse(con), t)
    /\ Goto(t, "exiting")
    /\ Notify
    /\ UNCHANGED <<ops, waking, silent, crashes>>

Exit(t) ==
    /\ th[t].pc = "exiting"
    /\ Goto(t, "none")
    /\ UNCHANGED <<ops, con, waking, silent, waiter, crashes>>

-----------------------------------------------------------------------------
(* Lifecycle                                                               *)

\* The thread is created and recorded; the operating system may refuse it.
StartThread(t, c) ==
    /\ Fresh(t)
    /\ con' = [c EXCEPT !.thread = t]
    /\ Goto(t, "top")

StartThreadRaises(t, c) ==
    /\ Fresh(t)
    /\ con' = [c EXCEPT !.thread = t]
    /\ UNCHANGED th

Interrupted == [o \in Op |-> IF ops[o] = "RUNNING" THEN "INTERRUPTED" ELSE ops[o]]

\* The thread field names a thread that is alive.
Dispatching == con.thread # NoThread /\ th[con.thread].pc # "none"

\* Mutant: leftovers are interrupted before a live dispatcher is looked for.
StartInterruptsFirst ==
    LET started == [con EXCEPT !.stop = FALSE, !.started = TRUE] IN
    /\ ~con.draining
    /\ ops' = Interrupted
    /\ \/ Dispatching /\ UNCHANGED <<con, th>>
       \/ ~Dispatching /\ \E t \in Thread : StartThread(t, started)
    /\ UNCHANGED <<waking, silent, waiter, crashes>>

\* start: leftovers of a stopped host are interrupted, never run again.
Start ==
    LET started == [con EXCEPT !.stop = FALSE, !.started = TRUE] IN
    /\ ~con.draining
    /\ ~Dispatching
    /\ con.active = 0
    /\ ops' = Interrupted
    /\ \E t \in Thread : StartThread(t, started) \/ StartThreadRaises(t, started)
    /\ UNCHANGED <<waking, silent, waiter, crashes>>

\* interrupt_running raises part of the way.
StartRefused ==
    /\ ~con.draining
    /\ ~Dispatching
    /\ con.active = 0
    /\ \E done \in SUBSET Op :
          ops' = [o \in Op |-> IF o \in done THEN Interrupted[o] ELSE ops[o]]
    /\ con' = Refuse(con)
    /\ Notify
    /\ UNCHANGED <<th, waking, silent, crashes>>

\* Mutant: the dispatcher is not told to stop.
BeginWithoutStop ==
    /\ con' = [con EXCEPT !.draining = TRUE, !.wake = TRUE]
    /\ UNCHANGED <<ops, th, waking, silent, waiter, crashes>>

BeginShutdown ==
    /\ con' = [con EXCEPT !.draining = TRUE, !.stop = TRUE, !.wake = TRUE]
    /\ UNCHANGED <<ops, th, waking, silent, waiter, crashes>>

AwaitShutdown ==
    /\ waiter.pc = "off"
    /\ waiter' = [NoWaiter EXCEPT !.pc = "loop"]
    /\ UNCHANGED <<ops, con, th, waking, silent, crashes>>

\* The deadline of the running await_shutdown passes.
Deadline ==
    /\ waiter.pc # "off"
    /\ ~waiter.late
    /\ waiter' = [waiter EXCEPT !.late = TRUE]
    /\ UNCHANGED <<ops, con, th, waking, silent, crashes>>

\* Mutant: the thread field is taken as proof that the threads have ended.
AwaitReadyByField ==
    /\ con.thread = NoThread
    /\ con' = [con EXCEPT !.ready = TRUE, !.timedOut = FALSE]
    /\ waiter' = NoWaiter

AwaitReady ==
    /\ Live = {}
    /\ con' = [con EXCEPT !.ready = TRUE, !.timedOut = FALSE]
    /\ waiter' = NoWaiter

AwaitTimesOut ==
    /\ con' = [con EXCEPT !.timedOut = TRUE]
    /\ waiter' = NoWaiter

\* One holding of the lock in the loop of await_shutdown.
AwaitLoop ==
    /\ waiter.pc = "loop"
    /\ \/ /\ ~con.draining \/ con.failure
          /\ waiter' = NoWaiter
          /\ UNCHANGED con
       \/ /\ con.draining /\ ~con.failure /\ con.active > 0
          /\ \/ waiter.late /\ AwaitTimesOut
             \/ /\ ~waiter.late
                /\ waiter' = [waiter EXCEPT !.pc = "asleep"]
                /\ UNCHANGED con
       \/ /\ con.draining /\ ~con.failure /\ con.active = 0
          /\ \/ AwaitReady
             \/ /\ Live # {}
                /\ waiter' = [waiter EXCEPT !.pc = "join", !.joins = Live]
                /\ UNCHANGED con
    /\ UNCHANGED <<ops, th, waking, silent, crashes>>

\* The timed wait ends without a notification.
AwaitWakes ==
    /\ waiter.pc = "asleep"
    /\ waiter.late
    /\ waiter' = [waiter EXCEPT !.pc = "loop"]
    /\ UNCHANGED <<ops, con, th, waking, silent, crashes>>

\* The joins end because the threads did, or at the deadline.
AwaitJoined ==
    /\ waiter.pc = "join"
    /\ waiter.joins \cap Live = {} \/ waiter.late
    /\ \/ waiter.late /\ Live # {} /\ AwaitTimesOut
       \/ /\ ~waiter.late \/ Live = {}
          /\ waiter' = [waiter EXCEPT !.pc = "loop", !.joins = {}]
          /\ UNCHANGED con
    /\ UNCHANGED <<ops, th, waking, silent, crashes>>

Resumed(c) == [c EXCEPT !.draining = FALSE, !.ready = FALSE, !.timedOut = FALSE,
                        !.stop = FALSE, !.wake = TRUE]

\* Mutant: the resumed console relies on a dispatcher that has left.
CancelWithoutThread ==
    /\ ~con.failure
    /\ con' = Resumed(con) /\ UNCHANGED th
    /\ Notify
    /\ UNCHANGED <<ops, waking, silent, crashes>>

\* Mutant: every resumption starts a dispatcher.
CancelAlwaysStarts ==
    /\ ~con.failure
    /\ \/ con.started /\ \E t \in Thread : StartThread(t, Resumed(con))
       \/ ~con.started /\ con' = Resumed(con) /\ UNCHANGED th
    /\ Notify
    /\ UNCHANGED <<ops, waking, silent, crashes>>

\* cancel_shutdown: the missing dispatcher is prepared while admission is
\* closed, since it needs this lock for its first claim.
CancelShutdown ==
    LET missing == con.started /\ con.thread = NoThread IN
    /\ ~con.failure
    /\ \/ missing /\ \E t \in Thread : StartThread(t, Resumed(con))
       \/ ~missing /\ con' = Resumed(con) /\ UNCHANGED th
    /\ Notify
    /\ UNCHANGED <<ops, waking, silent, crashes>>

\* The thread cannot be started, or before_resume raises after it was.
CancelRefused ==
    LET missing == con.started /\ con.thread = NoThread IN
    /\ ~con.failure
    /\ \/ missing /\ \E t \in Thread : \/ StartThread(t, Refuse(con))
                                       \/ StartThreadRaises(t, Refuse(con))
       \/ ~missing /\ con' = Refuse(con) /\ UNCHANGED th
    /\ Notify
    /\ UNCHANGED <<ops, waking, silent, crashes>>

\* The host process stops; a new one starts with a new ProjectConsole.
Crash ==
    /\ crashes < MaxCrash
    /\ crashes' = crashes + 1
    /\ con' = NewConsole
    /\ th' = NoThreads
    /\ waking' = {}
    /\ silent' = {}
    /\ waiter' = NoWaiter
    /\ UNCHANGED ops

-----------------------------------------------------------------------------

Dispatcher(t) ==
    \/ ClearWake(t) \/ CheckStop(t) \/ ClaimNext(t) \/ Finish(t) \/ FinishRaises(t)
    \/ Release(t) \/ Poll(t) \/ Die(t) \/ Exit(t)

Await == Deadline \/ AwaitLoop \/ AwaitWakes \/ AwaitJoined

Next ==
    \/ \E o \in Op : Submit(o) \/ SubmitRaises(o) \/ SubmitWake(o)
    \/ \E t \in Thread : Dispatcher(t)
    \/ Start \/ StartRefused
    \/ BeginShutdown \/ AwaitShutdown \/ Await
    \/ CancelShutdown \/ CancelRefused
    \/ Crash

Spec == Init /\ [][Next]_consoleVars

\* start() failed to create its thread: the lifespan of the server drains.
StartFailed == con.thread # NoThread /\ th[con.thread].pc = "none"

\* Threads run, an execution ends (invocations are limited in time and a drain
\* requests a pause), timed waits end, the host calls start and drains a start
\* that failed.  Submissions, shutdowns, resumptions and crashes are not fair.
FairSpec ==
    /\ Spec
    /\ \A t \in Thread : WF_consoleVars(Dispatcher(t))
    /\ \A o \in Op : WF_consoleVars(SubmitWake(o))
    /\ WF_consoleVars(Await)
    /\ WF_consoleVars(~con.started /\ Start)
    /\ WF_consoleVars(StartFailed /\ BeginShutdown)

-----------------------------------------------------------------------------
(* Safety                                                                  *)

\* _result_locked, READY: "the final record of the current operation is saved
\* and the dispatcher thread has stopped": no thread is alive and the store has
\* no RUNNING operation of this host, whatever was resumed or refused before.
ReadyMeansStopped ==
    con.ready /\ con.draining /\ ~con.failure =>
        /\ Live = {}
        /\ con.active = 0
        /\ con.started => \A o \in Op : ops[o] # "RUNNING"

\* An operation the store calls RUNNING while no thread works on it (its claim
\* or its final record was not confirmed) has closed the console for good: the
\* console admits, claims and resumes nothing any more.
UnconfirmedRefused ==
    con.started =>
        \A o \in Op : ops[o] = "RUNNING" /\ (\A t \in Thread : th[t].op # o) =>
            con.failure /\ con.draining /\ con.stop

\* _run: "an earlier durable submission is visible to that claim, and a later
\* submission wakes its wait".  A dispatcher sleeps for its full timeout only when
\* there is no stop to see and nothing to claim but what a submission stored during
\* that very sleep and then raised, setting no event.  The caller of await_shutdown
\* sleeps only while there is something to wait for: no wake, end of an operation,
\* refusal or resumption is missed.
NoLostSignal ==
    /\ \A t \in Thread :
          th[t].pc = "wait" /\ ~con.wake => ~con.stop /\ Queued \subseteq waking \cup silent
    /\ waiter.pc = "asleep" => con.active > 0 /\ con.draining /\ ~con.failure

\* While a thread executes an operation it is the only one to do so and nobody
\* has interrupted the operation, so its final record is accepted.
ExclusiveExecution ==
    \A t \in Thread : th[t].pc = "exec" =>
        /\ ops[th[t].op] = "RUNNING"
        /\ \A u \in Thread \ {t} : th[u].op = NoOp

\* Drains and resumptions never leave two dispatchers.
OneDispatcher == \A t \in Thread : Looping(t) => con.thread = t

(* Liveness                                                                *)

\* A stored operation is run after every restart and resumption, unless the
\* console is drained; also one whose submission raised.
QueuedIsClaimed ==
    \A o \in Op : ops[o] = "QUEUED" ~> (ops[o] # "QUEUED" \/ con.draining)

\* A drain ends its threads, unless it is cancelled.
DrainCompletes == con.draining ~> (Live = {} \/ ~con.draining)
=============================================================================
