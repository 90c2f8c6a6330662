------------------------ MODULE ProjectConsoleProofs ------------------------
(***************************************************************************)
(* The console executes one operation at a time, never reports READY while *)
(* something runs, refuses everything after an unconfirmed record and      *)
(* misses no signal: for any number of operations, threads and restarts.   *)
(***************************************************************************)
EXTENDS ProjectConsole, TLAPS

\* A thread that has an operation: executing it, or about to release it.
Busy == {"exec", "done", "broken"}

OpHeld ==
    \A t \in Thread : IF th[t].pc \in Busy THEN th[t].op \in Op ELSE th[t].op = NoOp

\* _active counts the busy threads, of which there is at most one.
ActiveCount ==
    con.active = IF \E t \in Thread : th[t].pc \in Busy THEN 1 ELSE 0

\* The store's view of an operation a thread executes or has finished.
HeldStatus ==
    \A t \in Thread :
        /\ th[t].pc = "exec" => ops[th[t].op] = "RUNNING"
        /\ th[t].pc = "done" => ops[th[t].op] \in {"SUCCEEDED", "FAILED"}

\* The stop event is set exactly while the console drains; a refusal and READY
\* are states of a draining console.
Flags ==
    /\ con.stop <=> con.draining
    /\ con.failure => con.draining
    /\ con.ready => con.draining

CoreInv == TypeOK /\ OneDispatcher /\ OpHeld /\ ActiveCount /\ HeldStatus /\ Flags

-----------------------------------------------------------------------------
(* Records                                                                 *)

\* What the updates of the console's fields change and what they keep.
LEMMA ConsoleFields ==
  ASSUME con \in Console, NEW b \in BOOLEAN
  PROVE  /\ Refuse(con) \in Console
         /\ Refuse(con).failure /\ Refuse(con).draining /\ Refuse(con).stop
         /\ Refuse(con).wake /\ Refuse(con).active = con.active
         /\ Refuse(con).thread = con.thread /\ Refuse(con).started = con.started
         /\ Refuse(con).ready = con.ready
         /\ Resumed(con) \in Console
         /\ ~Resumed(con).draining /\ ~Resumed(con).ready /\ ~Resumed(con).stop
         /\ Resumed(con).wake /\ Resumed(con).active = con.active
         /\ Resumed(con).thread = con.thread /\ Resumed(con).started = con.started
         /\ Resumed(con).failure = con.failure
         /\ [con EXCEPT !.wake = b] \in Console
         /\ [con EXCEPT !.timedOut = TRUE] \in Console
         /\ [con EXCEPT !.ready = TRUE, !.timedOut = FALSE] \in Console
         /\ [con EXCEPT !.draining = TRUE, !.stop = TRUE, !.wake = TRUE] \in Console
         /\ [con EXCEPT !.stop = FALSE, !.started = TRUE] \in Console
  BY DEF Console, Refuse, Resumed

\* The fields two console records have in common when only _thread differs.
SameButPlace(x, c) ==
    /\ x.active = c.active /\ x.started = c.started /\ x.ready = c.ready
    /\ x.failure = c.failure /\ x.draining = c.draining
    /\ x.stop = c.stop /\ x.wake = c.wake

\* A thread that leaves gives up its place and changes nothing else; a thread
\* that is started takes it.
LEMMA PlaceFields ==
  ASSUME NEW c \in Console, NEW t \in Thread
  PROVE  /\ [c EXCEPT !.thread = t] \in Console
         /\ [c EXCEPT !.thread = t].thread = t
         /\ SameButPlace([c EXCEPT !.thread = t], c)
         /\ Left(c, t) \in Console
         /\ Left(c, t).thread = IF c.thread = t THEN NoThread ELSE c.thread
         /\ SameButPlace(Left(c, t), c)
  BY DEF Console, Left, SameButPlace

\* Moving one thread to another point of its code keeps its operation.
LEMMA GotoThread ==
  ASSUME TypeOK, NEW t \in Thread, NEW pc \in ThreadPC, Goto(t, pc)
  PROVE  /\ th' \in [Thread -> [pc : ThreadPC, op : Op \cup {NoOp}]]
         /\ th'[t].pc = pc /\ th'[t].op = th[t].op
         /\ \A u \in Thread \ {t} : th'[u] = th[u]
  BY DEF TypeOK, Goto

\* A notification wakes a sleeping await_shutdown and changes nothing else.
LEMMA NotifyWaiter ==
  ASSUME TypeOK, Notify
  PROVE  /\ waiter' \in [pc : {"off", "loop", "asleep", "join"},
                         joins : SUBSET Thread, late : BOOLEAN]
         /\ waiter'.pc # "asleep"
  BY DEF TypeOK, Notify

-----------------------------------------------------------------------------
(* One dispatcher, one operation                                           *)

\* Initially nothing is stored, no thread exists and nothing is drained.
LEMMA CoreInit == Init => CoreInv
<1> SUFFICES ASSUME Init PROVE CoreInv
  OBVIOUS
<1>1. TypeOK
  BY ConsoleConstants DEF Init, TypeOK, NewConsole, NoThreads, NoWaiter, Console,
     OpStatus, ThreadPC
<1>2. OneDispatcher /\ OpHeld /\ HeldStatus
  BY DEF Init, NoThreads, OneDispatcher, Looping, OpHeld, HeldStatus, Busy
<1>3. ActiveCount /\ Flags
  BY DEF Init, NoThreads, NewConsole, ActiveCount, Flags, Busy
<1> QED
  BY <1>1, <1>2, <1>3 DEF CoreInv

\* Finished and running operations stay what they are.
SettledOps ==
    \A o \in Op : ops[o] \in {"RUNNING", "SUCCEEDED", "FAILED"} => ops'[o] = ops[o]

\* A step in which no thread takes or gives back an operation.
LEMMA CoreFrame ==
  ASSUME CoreInv, TypeOK', Flags', OneDispatcher',
         con'.active = con.active,
         \A t \in Thread : th'[t].pc \in Busy \/ th[t].pc \in Busy => th'[t] = th[t],
         \A t \in Thread : th'[t].op = th[t].op,
         SettledOps \/ con.active = 0
  PROVE  CoreInv'
<1>1. OpHeld'
  BY DEF CoreInv, OpHeld
<1>2. ActiveCount'
  BY DEF CoreInv, ActiveCount
<1>3. HeldStatus'
  BY DEF CoreInv, OpHeld, HeldStatus, Busy, SettledOps, ActiveCount
<1> QED
  BY <1>1, <1>2, <1>3 DEF CoreInv

\* A step that leaves the threads alone.
LEMMA CoreSignal ==
  ASSUME CoreInv, TypeOK', Flags', th' = th,
         con'.active = con.active, con'.thread = con.thread,
         SettledOps \/ con.active = 0
  PROVE  CoreInv'
<1>1. OneDispatcher'
  BY DEF CoreInv, OneDispatcher, Looping
<1> QED
  BY <1>1, CoreFrame

\* Submission stores a new operation only and wakes the dispatcher.
LEMMA SubmitCore ==
  ASSUME CoreInv, NEW o \in Op, Submit(o) \/ SubmitRaises(o) \/ SubmitWake(o)
  PROVE  CoreInv'
<1>1. TypeOK
  BY DEF CoreInv
<1>2. ops' \in [Op -> OpStatus] /\ SettledOps /\ UNCHANGED <<th, waiter, crashes>>
  BY <1>1 DEF Submit, SubmitRaises, SubmitWake, TypeOK, OpStatus, SettledOps
<1>3. /\ con' \in Console /\ con'.active = con.active /\ con'.thread = con.thread
      /\ con'.stop = con.stop /\ con'.draining = con.draining
      /\ con'.failure = con.failure /\ con'.ready = con.ready
  BY <1>1 DEF TypeOK, Submit, SubmitRaises, SubmitWake, Console
<1>4. waking' \subseteq Op /\ silent' \subseteq Op
  BY <1>1 DEF TypeOK, Submit, SubmitRaises, SubmitWake
<1>5. TypeOK'
  BY <1>1, <1>2, <1>3, <1>4 DEF TypeOK
<1>6. Flags'
  BY <1>3 DEF CoreInv, Flags
<1> QED
  BY <1>2, <1>3, <1>5, <1>6, CoreSignal

\* A waiter record is well-formed.
WaiterTyped ==
    waiter \in [pc : {"off", "loop", "asleep", "join"},
                joins : SUBSET Thread, late : BOOLEAN]

\* A thread without an operation moves on in its loop, or leaves it.
LEMMA LoopCore ==
  ASSUME CoreInv, NEW t \in Thread, NEW pc \in ThreadPC \ Busy,
         th[t].pc \notin Busy, Goto(t, pc),
         con' \in Console, con'.active = con.active, Flags',
         \/ con'.thread = con.thread /\ (pc \notin {"none", "exiting"} => Looping(t))
         \/ /\ con'.thread = IF con.thread = t THEN NoThread ELSE con.thread
            /\ pc = "exiting",
         ops' \in [Op -> OpStatus], SettledOps, WaiterTyped',
         silent' \subseteq silent, UNCHANGED <<waking, crashes>>
  PROVE  CoreInv'
<1>1. TypeOK
  BY DEF CoreInv
<1>2. /\ th' \in [Thread -> [pc : ThreadPC, op : Op \cup {NoOp}]]
      /\ th'[t].pc = pc /\ th'[t].op = th[t].op
      /\ \A u \in Thread \ {t} : th'[u] = th[u]
  BY <1>1, GotoThread
<1>3. TypeOK'
  BY <1>1, <1>2 DEF TypeOK, WaiterTyped
<1>4. OneDispatcher'
  BY <1>2 DEF CoreInv, OneDispatcher, Looping
<1> QED
  BY <1>2, <1>3, <1>4, CoreFrame

\* The loop of _run around a claim keeps the invariant.
LEMMA LoopSteps ==
  ASSUME CoreInv, NEW t \in Thread,
         \/ ClearWake(t) \/ CheckStop(t) \/ Poll(t) \/ Die(t) \/ Exit(t)
         \/ th[t].pc = "claim" /\ ClaimNothing(t) /\ UNCHANGED <<waking, silent, crashes>>
  PROVE  CoreInv'
<1>1. TypeOK /\ con \in Console /\ WaiterTyped
  BY DEF CoreInv, TypeOK, WaiterTyped
<1>2. silent' \subseteq silent /\ UNCHANGED <<ops, waking, crashes>>
  BY DEF ClearWake, CheckStop, Poll, Die, Exit, ClaimNothing
<1>3. ops' \in [Op -> OpStatus] /\ SettledOps
  BY <1>1, <1>2 DEF TypeOK, SettledOps
<1>4. CASE ClearWake(t)
  <2> DEFINE c == [con EXCEPT !.wake = FALSE]
  <2>1. con' = c /\ Goto(t, "check") /\ th[t].pc = "top" /\ WaiterTyped'
    BY <1>1, <1>4 DEF ClearWake, WaiterTyped
  <2>2. /\ c \in Console /\ c.active = con.active /\ c.thread = con.thread
        /\ c.stop = con.stop /\ c.draining = con.draining
        /\ c.failure = con.failure /\ c.ready = con.ready
    BY <1>1 DEF Console
  <2> HIDE DEF c
  <2>3. Flags'
    BY <2>1, <2>2 DEF CoreInv, Flags
  <2>4. Looping(t) /\ "check" \in ThreadPC \ Busy /\ th[t].pc \notin Busy
    BY <2>1 DEF Looping, ThreadPC, Busy
  <2> QED
    BY <1>2, <1>3, <2>1, <2>2, <2>3, <2>4, LoopCore
<1>5. CASE /\ UNCHANGED <<con, waiter>>
           /\ \/ CheckStop(t) /\ ~con.stop
              \/ Poll(t)
              \/ Exit(t)
              \/ th[t].pc = "claim" /\ ClaimNothing(t)
  <2>1. PICK pc \in ThreadPC \ Busy :
            /\ Goto(t, pc) /\ th[t].pc \notin Busy
            /\ pc \notin {"none", "exiting"} => Looping(t)
    BY <1>5 DEF CheckStop, Poll, Exit, ClaimNothing, Looping, ThreadPC, Busy
  <2>2. Flags' /\ WaiterTyped' /\ con' \in Console
    BY <1>1, <1>5 DEF CoreInv, Flags, WaiterTyped
  <2> QED
    BY <1>2, <1>3, <1>5, <2>1, <2>2, LoopCore
<1>6. CASE (CheckStop(t) /\ con.stop) \/ Die(t)
  <2> DEFINE c == IF th[t].pc = "dying" /\ ~con.failure THEN Refuse(con) ELSE con
  <2>1. /\ con' = Left(c, t) /\ Goto(t, "exiting") /\ Notify
        /\ th[t].pc \in {"check", "dying"}
    BY <1>6 DEF CheckStop, Die
  <2>2. /\ c \in Console /\ c.active = con.active /\ c.thread = con.thread
        /\ (c.stop <=> c.draining) /\ (c.failure => c.draining) /\ (c.ready => c.draining)
    BY <1>1, ConsoleFields DEF CoreInv, Flags
  <2> HIDE DEF c
  <2>3. /\ con' \in Console /\ SameButPlace(con', c)
        /\ con'.thread = IF c.thread = t THEN NoThread ELSE c.thread
    BY <2>1, <2>2, PlaceFields, Zenon
  <2>4. "exiting" \in ThreadPC \ Busy /\ th[t].pc \notin Busy
    BY <2>1 DEF ThreadPC, Busy
  <2>5. WaiterTyped' /\ Flags'
    BY <1>1, <2>1, <2>2, <2>3, NotifyWaiter DEF WaiterTyped, Flags, SameButPlace
  <2> QED
    BY <1>2, <1>3, <2>1, <2>2, <2>3, <2>4, <2>5, LoopCore DEF SameButPlace
<1> QED
  BY <1>4, <1>5, <1>6 DEF CheckStop, Poll, Exit, ClaimNothing

\* At most one thread is busy.
LEMMA OneBusy ==
  ASSUME CoreInv, NEW t \in Thread, th[t].pc \in Busy
  PROVE  \A u \in Thread : th[u].pc \in Busy => u = t
  BY DEF CoreInv, OneDispatcher, Looping, Busy

\* claim_next takes one operation when nothing is active; when the store raises,
\* no operation is held and the console refuses everything.
LEMMA ClaimCore ==
  ASSUME CoreInv, NEW t \in Thread, ClaimNext(t), ~ClaimNothing(t)
  PROVE  CoreInv'
<1>1. TypeOK /\ con \in Console /\ WaiterTyped
  BY DEF CoreInv, TypeOK, WaiterTyped
<1>2. /\ th[t].pc = "claim" /\ con.active = 0 /\ ~con.draining
      /\ UNCHANGED <<waking, silent, crashes>>
  BY DEF ClaimNext
<1>3. \A u \in Thread : th[u].pc \notin Busy
  BY <1>2 DEF CoreInv, ActiveCount
<1>4. ASSUME NEW o \in Queued, ClaimOne(t, o) PROVE CoreInv'
  <2> DEFINE c == [con EXCEPT !.active = @ + 1]
             r == [pc |-> "exec", op |-> o]
  <2>1. /\ o \in Op /\ ops' = [ops EXCEPT ![o] = "RUNNING"] /\ con' = c
        /\ th' = [th EXCEPT ![t] = r] /\ UNCHANGED waiter
    BY <1>4 DEF ClaimOne, Queued
  <2>2. /\ c \in Console /\ c.active = 1 /\ c.thread = con.thread
        /\ c.stop = con.stop /\ c.draining = con.draining
        /\ c.failure = con.failure /\ c.ready = con.ready
    BY <1>1, <1>2 DEF Console
  <2>3. r \in [pc : ThreadPC, op : Op \cup {NoOp}] /\ r.pc = "exec" /\ r.op = o
    BY <2>1 DEF ThreadPC
  <2> HIDE DEF c, r
  <2>4. th'[t] = r /\ \A u \in Thread \ {t} : th'[u] = th[u]
    BY <1>1, <2>1 DEF TypeOK
  <2>5. TypeOK'
    BY <1>1, <1>2, <2>1, <2>2, <2>3 DEF TypeOK, OpStatus
  <2>6. OneDispatcher'
    BY <1>2, <2>1, <2>2, <2>4 DEF CoreInv, OneDispatcher, Looping
  <2>7. OpHeld'
    BY <2>1, <2>3, <2>4 DEF CoreInv, OpHeld, Busy
  <2>8. ActiveCount'
    BY <2>1, <2>2, <2>3, <2>4 DEF ActiveCount, Busy
  <2>9. HeldStatus'
    <3>1. ops'[o] = "RUNNING"
      BY <1>1, <2>1 DEF TypeOK
    <3> QED
      BY <1>3, <2>3, <2>4, <3>1 DEF HeldStatus, Busy
  <2>10. Flags'
    BY <2>1, <2>2 DEF CoreInv, Flags
  <2> QED
    BY <2>5, <2>6, <2>7, <2>8, <2>9, <2>10 DEF CoreInv
<1>5. CASE ClaimRaises(t)
  <2>1. con' = Refuse(con) /\ Goto(t, "dying") /\ Notify
    BY <1>5 DEF ClaimRaises
  <2>2. ops' \in [Op -> OpStatus] /\ SettledOps
    BY <1>1, <1>5 DEF ClaimRaises, TypeOK, OpStatus, SettledOps, Queued
  <2>3. con' \in Console /\ con'.active = con.active /\ con'.thread = con.thread /\ Flags'
    BY <1>1, <2>1, ConsoleFields DEF Flags
  <2>4. "dying" \in ThreadPC \ Busy /\ th[t].pc \notin Busy /\ Looping(t)
    BY <1>2, <1>3 DEF ThreadPC, Busy, Looping
  <2>5. WaiterTyped'
    BY <1>1, <2>1, NotifyWaiter DEF WaiterTyped
  <2> QED
    BY <1>2, <2>1, <2>2, <2>3, <2>4, <2>5, LoopCore
<1> QED
  BY <1>4, <1>5 DEF ClaimNext

\* The end of an execution, with or without a confirmed record, changes only the
\* operation its thread holds.
LEMMA FinishCore ==
  ASSUME CoreInv, NEW t \in Thread, Finish(t) \/ FinishRaises(t)
  PROVE  CoreInv'
<1> DEFINE o == th[t].op
<1>1. TypeOK
  BY DEF CoreInv
<1>2. th[t].pc = "exec" /\ UNCHANGED <<con, waking, silent, waiter, crashes>>
  BY DEF Finish, FinishRaises
<1>3. o \in Op /\ \A u \in Thread \ {t} : th[u].pc \notin Busy
  BY <1>2, OneBusy DEF CoreInv, OpHeld, Busy
<1>4. PICK pc \in {"done", "broken"} :
        /\ Goto(t, pc)
        /\ pc = "done" => \E s \in {"SUCCEEDED", "FAILED"} : ops' = [ops EXCEPT ![o] = s]
  BY DEF Finish, FinishRaises
<1>5. /\ th' \in [Thread -> [pc : ThreadPC, op : Op \cup {NoOp}]]
      /\ th'[t].pc = pc /\ th'[t].op = o
      /\ \A u \in Thread \ {t} : th'[u] = th[u]
  <2>1. pc \in ThreadPC
    BY DEF ThreadPC
  <2> QED
    BY <1>1, <1>4, <2>1, GotoThread
<1>6. ops' \in [Op -> OpStatus]
  BY <1>1 DEF Finish, FinishRaises, TypeOK, OpStatus
<1>7. TypeOK'
  BY <1>1, <1>2, <1>5, <1>6 DEF TypeOK
<1>8. OneDispatcher'
  BY <1>2, <1>5 DEF CoreInv, OneDispatcher, Looping
<1>9. OpHeld' /\ ActiveCount'
  BY <1>2, <1>3, <1>5 DEF CoreInv, OpHeld, ActiveCount, Busy
<1>10. HeldStatus'
  <2>1. pc = "done" => ops'[o] \in {"SUCCEEDED", "FAILED"}
    BY <1>1, <1>3, <1>4 DEF TypeOK
  <2> QED
    BY <1>3, <1>5, <2>1 DEF HeldStatus, Busy
<1>11. Flags'
  BY <1>2 DEF CoreInv, Flags
<1> QED
  BY <1>7, <1>8, <1>9, <1>10, <1>11 DEF CoreInv

\* The finally clause of run_once gives the operation back.
LEMMA ReleaseCore ==
  ASSUME CoreInv, NEW t \in Thread, Release(t)
  PROVE  CoreInv' /\ con'.active = 0
<1> DEFINE c == [con EXCEPT !.active = @ - 1]
<1>1. TypeOK /\ con \in Console /\ WaiterTyped
  BY DEF CoreInv, TypeOK, WaiterTyped
<1>2. th[t].pc \in {"done", "broken"} /\ Notify /\ UNCHANGED <<ops, waking, silent, crashes>>
  BY DEF Release
<1>3. con.active = 1 /\ \A u \in Thread \ {t} : th[u].pc \notin Busy
  BY <1>2, OneBusy DEF CoreInv, ActiveCount, Busy
<1>4. /\ c \in Console /\ c.active = 0 /\ c.thread = con.thread
      /\ c.stop = con.stop /\ c.draining = con.draining
      /\ c.failure = con.failure /\ c.ready = con.ready
  BY <1>1, <1>3 DEF Console
<1>5. con' = c \/ con' = Refuse(c)
  BY DEF Release
<1> HIDE DEF c
<1>6. con' \in Console /\ con'.active = 0 /\ con'.thread = con.thread /\ Flags'
  <2>1. CASE con' = c
    BY <1>4, <2>1 DEF CoreInv, Flags
  <2>2. CASE con' = Refuse(c)
    BY <1>4, <2>2 DEF Refuse, Console, Flags
  <2> QED
    BY <1>5, <2>1, <2>2
<1>7. PICK pc \in {"top", "dying"} : th' = [th EXCEPT ![t] = [pc |-> pc, op |-> NoOp]]
  BY DEF Release
<1>8. /\ th' \in [Thread -> [pc : ThreadPC, op : Op \cup {NoOp}]]
      /\ th'[t].pc = pc /\ th'[t].op = NoOp
      /\ \A u \in Thread \ {t} : th'[u] = th[u]
  BY <1>1, <1>7 DEF TypeOK, ThreadPC
<1>9. WaiterTyped'
  BY <1>1, <1>2, NotifyWaiter DEF WaiterTyped
<1>10. TypeOK'
  BY <1>1, <1>2, <1>6, <1>8, <1>9 DEF TypeOK, WaiterTyped
<1>11. OneDispatcher'
  BY <1>2, <1>6, <1>8 DEF CoreInv, OneDispatcher, Looping
<1>12. OpHeld' /\ ActiveCount' /\ HeldStatus'
  BY <1>3, <1>6, <1>8 DEF CoreInv, OpHeld, ActiveCount, HeldStatus, Busy
<1> QED
  BY <1>6, <1>10, <1>11, <1>12 DEF CoreInv

FlagsOf(c) ==
    /\ c.stop <=> c.draining
    /\ c.failure => c.draining
    /\ c.ready => c.draining

\* A dispatcher is started, or refused by the operating system, when no thread
\* loops.
LEMMA SpawnCore ==
  ASSUME CoreInv, NEW t \in Thread, NEW c \in Console,
         StartThread(t, c) \/ StartThreadRaises(t, c),
         \A u \in Thread : ~Looping(u), FlagsOf(c), c.active = con.active,
         ops' \in [Op -> OpStatus], WaiterTyped', UNCHANGED <<waking, silent, crashes>>
  PROVE  CoreInv'
<1>1. TypeOK /\ th[t].pc = "none"
  BY DEF CoreInv, StartThread, StartThreadRaises, Fresh
<1>2. con' = [c EXCEPT !.thread = t]
  BY DEF StartThread, StartThreadRaises
<1>3. con' \in Console /\ con'.thread = t /\ SameButPlace(con', c)
  BY <1>2, PlaceFields, Zenon
<1>4. PICK pc \in {"none", "top"} :
        /\ th' \in [Thread -> [pc : ThreadPC, op : Op \cup {NoOp}]]
        /\ th'[t].pc = pc /\ th'[t].op = th[t].op
        /\ \A u \in Thread \ {t} : th'[u] = th[u]
  <2>1. CASE StartThread(t, c)
    BY <1>1, <2>1, GotoThread DEF StartThread, ThreadPC
  <2>2. CASE StartThreadRaises(t, c)
    BY <1>1, <2>2 DEF StartThreadRaises, TypeOK
  <2> QED
    BY <2>1, <2>2
<1>5. TypeOK'
  BY <1>1, <1>3, <1>4 DEF TypeOK, WaiterTyped
<1>6. Flags' /\ con'.active = con.active
  BY <1>3 DEF SameButPlace, Flags, FlagsOf
<1>7. OneDispatcher'
  BY <1>3, <1>4 DEF OneDispatcher, Looping
<1>8. \A u \in Thread : th[u].pc \notin Busy /\ th'[u].pc \notin Busy
  BY <1>4 DEF Looping, Busy
<1>9. con.active = 0
  BY <1>8 DEF CoreInv, ActiveCount
<1> QED
  BY <1>4, <1>5, <1>6, <1>7, <1>8, <1>9, CoreFrame

\* With no live dispatcher named by _thread, no thread loops.
LEMMA NoLooping ==
  ASSUME CoreInv, ~Dispatching \/ con.thread = NoThread
  PROVE  \A u \in Thread : ~Looping(u)
  BY ConsoleConstants DEF CoreInv, OneDispatcher, Looping, Dispatching

\* Leftovers are interrupted only while nothing is active.
LEMMA StartCore ==
  ASSUME CoreInv, Start \/ StartRefused
  PROVE  CoreInv'
<1>1. TypeOK /\ con \in Console /\ WaiterTyped
  BY DEF CoreInv, TypeOK, WaiterTyped
<1>2. ~con.draining /\ con.active = 0 /\ UNCHANGED <<waking, silent, crashes>>
  BY DEF Start, StartRefused
<1>3. \A u \in Thread : ~Looping(u)
  BY NoLooping DEF Start, StartRefused
<1>4. ops' \in [Op -> OpStatus]
  BY <1>1 DEF TypeOK, Start, StartRefused, Interrupted, OpStatus
<1>5. CASE Start
  <2> DEFINE c == [con EXCEPT !.stop = FALSE, !.started = TRUE]
  <2>1. PICK t \in Thread : StartThread(t, c) \/ StartThreadRaises(t, c)
    BY <1>5 DEF Start
  <2>2. c \in Console /\ FlagsOf(c) /\ c.active = con.active
    BY <1>1, <1>2 DEF Console, FlagsOf, CoreInv, Flags
  <2>3. WaiterTyped'
    BY <1>1, <1>5 DEF Start, WaiterTyped
  <2> HIDE DEF c
  <2> QED
    BY <1>2, <1>3, <1>4, <2>1, <2>2, <2>3, SpawnCore
<1>6. CASE StartRefused
  <2>1. con' = Refuse(con) /\ Notify /\ UNCHANGED th
    BY <1>6 DEF StartRefused
  <2>2. con' \in Console /\ con'.active = con.active /\ con'.thread = con.thread /\ Flags'
    BY <1>1, <2>1, ConsoleFields DEF Flags
  <2>3. TypeOK'
    <3>1. WaiterTyped'
      BY <1>1, <2>1, NotifyWaiter DEF WaiterTyped
    <3> QED
      BY <1>1, <1>2, <1>4, <2>1, <2>2, <3>1 DEF TypeOK, WaiterTyped
  <2> QED
    BY <1>2, <2>1, <2>2, <2>3, CoreSignal
<1> QED
  BY <1>5, <1>6

\* Drain requests and await_shutdown leave operations and threads alone.
LEMMA DrainCore ==
  ASSUME CoreInv, BeginShutdown \/ AwaitShutdown \/ Await
  PROVE  CoreInv'
<1>1. TypeOK /\ con \in Console
  BY DEF CoreInv, TypeOK
<1>2. UNCHANGED <<ops, th, waking, silent, crashes>> /\ SettledOps
  BY DEF BeginShutdown, AwaitShutdown, Await, Deadline, AwaitLoop, AwaitWakes,
     AwaitJoined, SettledOps
<1>3. WaiterTyped'
  <2>1. Live \in SUBSET Thread
    BY DEF Live
  <2>2. /\ waiter \in [pc : {"off", "loop", "asleep", "join"},
                       joins : SUBSET Thread, late : BOOLEAN]
        /\ NoWaiter \in [pc : {"off", "loop", "asleep", "join"},
                         joins : SUBSET Thread, late : BOOLEAN]
    BY <1>1 DEF TypeOK, NoWaiter
  <2>3. \/ waiter' \in {waiter, NoWaiter, [NoWaiter EXCEPT !.pc = "loop"],
                        [waiter EXCEPT !.late = TRUE],
                        [waiter EXCEPT !.pc = "asleep"],
                        [waiter EXCEPT !.pc = "loop"],
                        [waiter EXCEPT !.pc = "loop", !.joins = {}]}
        \/ waiter' = [waiter EXCEPT !.pc = "join", !.joins = Live]
    BY DEF BeginShutdown, AwaitShutdown, Await, Deadline, AwaitLoop, AwaitReady,
       AwaitTimesOut, AwaitWakes, AwaitJoined
  <2> QED
    BY <2>1, <2>2, <2>3 DEF WaiterTyped
<1>4. \/ UNCHANGED con
      \/ con' = [con EXCEPT !.draining = TRUE, !.stop = TRUE, !.wake = TRUE]
      \/ con' = [con EXCEPT !.timedOut = TRUE]
      \/ con.draining /\ con' = [con EXCEPT !.ready = TRUE, !.timedOut = FALSE]
  BY DEF BeginShutdown, AwaitShutdown, Await, Deadline, AwaitLoop, AwaitReady,
     AwaitTimesOut, AwaitWakes, AwaitJoined
<1>5. con' \in Console /\ con'.active = con.active /\ con'.thread = con.thread
  BY <1>1, <1>4 DEF Console
<1>6. Flags'
  BY <1>1, <1>4 DEF Console, CoreInv, Flags
<1>7. TypeOK'
  BY <1>1, <1>2, <1>3, <1>5 DEF TypeOK, WaiterTyped
<1> QED
  BY <1>2, <1>5, <1>6, <1>7, CoreSignal

\* cancel_shutdown starts a dispatcher only where none is left.
LEMMA CancelCore ==
  ASSUME CoreInv, CancelShutdown \/ CancelRefused
  PROVE  CoreInv'
<1>1. TypeOK /\ con \in Console
  BY DEF CoreInv, TypeOK
<1>2. ~con.failure /\ Notify /\ UNCHANGED <<ops, waking, silent, crashes>> /\ SettledOps
  BY DEF CancelShutdown, CancelRefused, SettledOps
<1>3. WaiterTyped' /\ ops' \in [Op -> OpStatus]
  BY <1>1, <1>2, NotifyWaiter DEF WaiterTyped, TypeOK
<1>4. PICK c \in {Resumed(con), Refuse(con)} :
        \/ con' = c /\ UNCHANGED th
        \/ /\ con.thread = NoThread
           /\ \E t \in Thread : StartThread(t, c) \/ StartThreadRaises(t, c)
  BY DEF CancelShutdown, CancelRefused
<1>5. c \in Console /\ FlagsOf(c) /\ c.active = con.active /\ c.thread = con.thread
  <2>1. CASE c = Resumed(con)
    BY <1>1, <1>2, <2>1 DEF Resumed, Console, FlagsOf
  <2>2. CASE c = Refuse(con)
    BY <1>1, <2>2 DEF Refuse, Console, FlagsOf
  <2> QED
    BY <1>4, <2>1, <2>2
<1> HIDE DEF Resumed, Refuse
<1>6. CASE con' = c /\ UNCHANGED th
  <2>1. TypeOK'
    BY <1>1, <1>2, <1>3, <1>5, <1>6 DEF TypeOK, WaiterTyped
  <2>2. Flags'
    BY <1>5, <1>6 DEF Flags, FlagsOf
  <2> QED
    BY <1>2, <1>5, <1>6, <2>1, <2>2, CoreSignal
<1>7. ASSUME con.thread = NoThread, NEW t \in Thread,
             StartThread(t, c) \/ StartThreadRaises(t, c)
      PROVE  CoreInv'
  <2>1. \A u \in Thread : ~Looping(u)
    BY <1>7, NoLooping
  <2> QED
    BY <1>2, <1>3, <1>5, <1>7, <2>1, SpawnCore
<1> QED
  BY <1>4, <1>6, <1>7

\* A new host process has no thread; what the store says survives.
LEMMA CrashCore ==
  ASSUME CoreInv, Crash
  PROVE  CoreInv'
<1>1. TypeOK
  BY DEF CoreInv
<1>2. crashes' \in 0 .. MaxCrash
  BY <1>1, ConsoleConstants DEF TypeOK, Crash
<1>3. TypeOK'
  BY <1>1, <1>2 DEF Crash, TypeOK, NewConsole, NoThreads, NoWaiter, Console, ThreadPC
<1>4. OneDispatcher' /\ OpHeld' /\ HeldStatus'
  BY DEF Crash, NoThreads, OneDispatcher, Looping, OpHeld, HeldStatus, Busy
<1>5. ActiveCount' /\ Flags'
  BY DEF Crash, NoThreads, NewConsole, ActiveCount, Flags, Busy
<1> QED
  BY <1>3, <1>4, <1>5 DEF CoreInv

\* Every step of the console, its threads and its callers keeps the invariant.
LEMMA CoreStep == CoreInv /\ [Next]_consoleVars => CoreInv'
<1> SUFFICES ASSUME CoreInv, [Next]_consoleVars PROVE CoreInv'
  OBVIOUS
<1>1. ASSUME NEW t \in Thread, Dispatcher(t) PROVE CoreInv'
  <2>1. CASE ClaimNext(t)
    BY <2>1, ClaimCore, LoopSteps DEF ClaimNext
  <2> QED
    BY <1>1, <2>1, LoopSteps, FinishCore, ReleaseCore DEF Dispatcher
<1>2. CASE UNCHANGED consoleVars
  BY <1>2 DEF consoleVars, CoreInv, TypeOK, OneDispatcher, Looping, OpHeld,
     ActiveCount, HeldStatus, Flags
<1> QED
  BY <1>1, <1>2, SubmitCore, StartCore, DrainCore, CancelCore, CrashCore DEF Next

\* The inductive invariant of the console holds in every reachable state.
THEOREM CoreCorrect == Spec => []CoreInv
  BY CoreInit, CoreStep, PTL DEF Spec

\* For any number of threads, drains, resumptions, refused starts and restarts:
\* a thread in the loop of _run is the one _thread names, so there is one.
THEOREM OneDispatcherHolds == Spec => []OneDispatcher
<1>1. CoreInv => OneDispatcher
  BY DEF CoreInv
<1> QED
  BY <1>1, CoreCorrect, PTL

\* While a thread executes an operation the store calls it RUNNING and no other
\* thread holds an operation, for any number of operations and threads: its
\* final record is appended to the version that was claimed.
THEOREM ExclusiveExecutionHolds == Spec => []ExclusiveExecution
<1>1. CoreInv => ExclusiveExecution
  <2> SUFFICES ASSUME CoreInv, NEW t \in Thread, th[t].pc = "exec"
               PROVE  /\ ops[th[t].op] = "RUNNING"
                      /\ \A u \in Thread \ {t} : th[u].op = NoOp
    BY DEF ExclusiveExecution
  <2> QED
    BY OneBusy DEF CoreInv, HeldStatus, OpHeld, Busy
<1> QED
  BY <1>1, CoreCorrect, PTL

-----------------------------------------------------------------------------
(* Unconfirmed records and READY                                           *)

\* A refusal lasts until the host stops, and start is the only step that makes
\* the console started; nothing but await_shutdown makes it READY.
LEMMA StickyFields ==
  ASSUME CoreInv, Next, ~Crash
  PROVE  /\ con.failure => con'.failure
         /\ con'.started => con.started \/ Start
         /\ con'.ready => con.ready \/ AwaitLoop
<1>1. con \in Console
  BY DEF CoreInv, TypeOK
<1> DEFINE Good(c) == /\ con.failure => c.failure
                      /\ c.started => con.started
                      /\ c.ready => con.ready
<1>2. Good(con) /\ Good(Refuse(con)) /\ Refuse(con) \in Console
  BY <1>1, ConsoleFields
<1>3. ASSUME NEW c \in Console, Good(c), NEW t \in Thread
      PROVE  Good(Left(c, t)) /\ Good([c EXCEPT !.thread = t])
  BY <1>3 DEF Left, Console
<1>4. ~con.failure => Good(Resumed(con)) /\ Resumed(con) \in Console
  BY <1>1, ConsoleFields
<1>5. CASE con' = con
  BY <1>5
<1>6. ASSUME NEW t \in Thread, Dispatcher(t) PROVE Good(con')
  <2>1. CASE ClearWake(t) \/ Release(t) \/ ClaimNext(t)
    BY <1>1, <2>1 DEF ClearWake, Release, ClaimNext, ClaimNothing, ClaimOne,
       ClaimRaises, Refuse, Console
  <2>2. CASE CheckStop(t) \/ Die(t)
    BY <1>1, <1>2, <1>3, <2>2 DEF CheckStop, Die
  <2> QED
    BY <1>5, <1>6, <2>1, <2>2 DEF Dispatcher, Finish, FinishRaises, Poll, Exit
<1>7. ASSUME NEW o \in Op, Submit(o) \/ SubmitRaises(o) \/ SubmitWake(o) PROVE Good(con')
  BY <1>1, <1>7 DEF Submit, SubmitRaises, SubmitWake, Console
<1>8. CASE Start
  BY <1>1, <1>8 DEF Start, StartThread, StartThreadRaises, Console
<1>9. CASE CancelShutdown \/ CancelRefused
  <2>1. ~con.failure
    BY <1>9 DEF CancelShutdown, CancelRefused
  <2> QED
    BY <1>2, <1>3, <1>4, <1>9, <2>1 DEF CancelShutdown, CancelRefused, StartThread,
       StartThreadRaises
<1>10. CASE StartRefused \/ BeginShutdown \/ AwaitShutdown \/ Await
  BY <1>1, <1>10 DEF StartRefused, Refuse, BeginShutdown, AwaitShutdown, Await,
     Deadline, AwaitLoop, AwaitReady, AwaitTimesOut, AwaitWakes, AwaitJoined, Console
<1> HIDE DEF Good
<1>11. Good(con') => /\ con.failure => con'.failure
                     /\ con'.started => con.started \/ Start
                     /\ con'.ready => con.ready \/ AwaitLoop
  BY DEF Good
<1> QED
  BY <1>6, <1>7, <1>8, <1>9, <1>10, <1>11 DEF Next

\* A step that makes no operation RUNNING and gives none back.
LEMMA UnconfirmedFrame ==
  ASSUME CoreInv', UnconfirmedRefused, con'.started => con.started,
         con.failure => con'.failure,
         \A o \in Op : ops'[o] = "RUNNING" => ops[o] = "RUNNING",
         \A t \in Thread : th'[t].op = th[t].op
  PROVE  UnconfirmedRefused'
  BY DEF UnconfirmedRefused, CoreInv, Flags

\* Every step keeps an unconfirmed operation refused.
LEMMA UnconfirmedStep ==
  ASSUME CoreInv, CoreInv', UnconfirmedRefused, [Next]_consoleVars
  PROVE  UnconfirmedRefused'
<1>1. TypeOK
  BY DEF CoreInv
<1>2. CASE UNCHANGED consoleVars
  BY <1>2 DEF consoleVars, UnconfirmedRefused
<1>3. CASE con'.failure \/ ~con'.started
  BY <1>3 DEF UnconfirmedRefused, CoreInv, Flags
<1>4. CASE Crash
  BY <1>3, <1>4 DEF Crash, NewConsole
<1>5. CASE Start
  <2>1. \A o \in Op : ops'[o] # "RUNNING"
    BY <1>5 DEF Start, Interrupted
  <2> QED
    BY <2>1 DEF UnconfirmedRefused
<1>6. CASE Next /\ ~Start /\ ~Crash /\ ~con'.failure
  <2>1. (con'.started => con.started) /\ (con.failure => con'.failure)
    BY <1>6, StickyFields
  <2>2. ASSUME NEW t \in Thread, NEW o \in Queued, ClaimOne(t, o),
               th[t].pc = "claim"
        PROVE  UnconfirmedRefused'
    <3>1. o \in Op /\ th[t].op = NoOp
      BY <2>2 DEF Queued, CoreInv, OpHeld, Busy
    <3>2. /\ \A u \in Thread \ {t} : th'[u] = th[u]
          /\ th'[t].op = o
          /\ \A p \in Op \ {o} : ops'[p] = ops[p]
      BY <1>1, <2>2, <3>1 DEF ClaimOne, TypeOK
    <3>3. con'.failure = con.failure
      BY <1>1, <2>2 DEF ClaimOne, TypeOK, Console
    <3> QED
      BY <2>1, <3>1, <3>2, <3>3, ConsoleConstants DEF UnconfirmedRefused, CoreInv, Flags
  <2>3. ASSUME NEW t \in Thread, Release(t) PROVE UnconfirmedRefused'
    <3>1. th[t].pc = "done"
      BY <1>1, <1>6, <2>3 DEF Release, Refuse, TypeOK, Console
    <3>2. ops[th[t].op] # "RUNNING" /\ UNCHANGED ops
      BY <2>3, <3>1 DEF CoreInv, HeldStatus, Release
    <3>3. \A u \in Thread \ {t} : th'[u] = th[u]
      BY <1>1, <2>3 DEF Release, TypeOK
    <3> QED
      BY <2>1, <3>2, <3>3 DEF UnconfirmedRefused, CoreInv, Flags
  <2>4. ASSUME NEW t \in Thread, Dispatcher(t), ~Release(t),
               ~\E o \in Queued : th[t].pc = "claim" /\ ClaimOne(t, o)
        PROVE  UnconfirmedRefused'
    <3>1. ~ClaimRaises(t)
      BY <1>1, <1>6 DEF ClaimRaises, Refuse, TypeOK, Console
    <3>2. \E pc \in ThreadPC : Goto(t, pc)
      BY <2>4, <3>1 DEF Dispatcher, ClearWake, CheckStop, ClaimNext, ClaimNothing,
         Finish, FinishRaises, Poll, Die, Exit, ThreadPC
    <3>3. \A u \in Thread : th'[u].op = th[u].op
      BY <1>1, <3>2, GotoThread
    <3>4. \A o \in Op : ops'[o] = "RUNNING" => ops[o] = "RUNNING"
      BY <1>1, <2>4, <3>1 DEF Dispatcher, ClearWake, CheckStop, ClaimNext, ClaimNothing,
         Finish, FinishRaises, Poll, Die, Exit, TypeOK
    <3> QED
      BY <2>1, <3>3, <3>4, UnconfirmedFrame
  <2>5. ASSUME NEW o \in Op, Submit(o) \/ SubmitRaises(o) \/ SubmitWake(o) PROVE UnconfirmedRefused'
    <3>1. UNCHANGED th /\ \A p \in Op : ops'[p] = "RUNNING" => ops[p] = "RUNNING"
      BY <1>1, <2>5 DEF Submit, SubmitRaises, SubmitWake, TypeOK
    <3> QED
      BY <2>1, <3>1, UnconfirmedFrame
  <2>6. CASE StartRefused
    BY <1>1, <1>6, <2>6 DEF StartRefused, Refuse, TypeOK, Console
  <2>7. CASE BeginShutdown \/ AwaitShutdown \/ Await
    <3>1. UNCHANGED <<ops, th>>
      BY <2>7 DEF BeginShutdown, AwaitShutdown, Await, Deadline, AwaitLoop, AwaitWakes,
         AwaitJoined
    <3> QED
      BY <2>1, <3>1, UnconfirmedFrame
  <2>8. CASE CancelShutdown \/ CancelRefused
    <3>1. UNCHANGED ops /\ (UNCHANGED th \/ \E t \in Thread : Goto(t, "top"))
      BY <2>8 DEF CancelShutdown, CancelRefused, StartThread, StartThreadRaises
    <3>2. \A u \in Thread : th'[u].op = th[u].op
      BY <1>1, <3>1, GotoThread DEF ThreadPC
    <3> QED
      BY <2>1, <3>1, <3>2, UnconfirmedFrame
  <2> QED
    BY <1>6, <2>2, <2>3, <2>4, <2>5, <2>6, <2>7, <2>8 DEF Next
<1> QED
  BY <1>2, <1>3, <1>4, <1>5, <1>6

\* Every step keeps a READY console at rest: its threads are gone, nothing is
\* admitted while it drains, and a resumption ends READY.
LEMMA ReadyStep ==
  ASSUME CoreInv, CoreInv', UnconfirmedRefused, ReadyMeansStopped, [Next]_consoleVars
  PROVE  ReadyMeansStopped'
<1>1. TypeOK
  BY DEF CoreInv
<1>2. CASE UNCHANGED consoleVars
  BY <1>2 DEF consoleVars, ReadyMeansStopped, Live
<1>3. CASE ~con'.ready \/ con'.failure
  BY <1>3 DEF ReadyMeansStopped
<1>4. CASE Crash
  BY <1>3, <1>4 DEF Crash, NewConsole
<1>5. CASE Next /\ ~Crash /\ con'.ready /\ ~con'.failure
  <2>1. ~con.failure /\ (con'.ready => con.ready \/ AwaitLoop)
    BY <1>5, StickyFields
  <2>2. CASE con.ready
    <3>1. /\ con.draining /\ Live = {} /\ con.active = 0
          /\ con.started => \A o \in Op : ops[o] # "RUNNING"
      BY <2>1, <2>2 DEF ReadyMeansStopped, CoreInv, Flags
    <3>2. \A t \in Thread : th[t].pc = "none"
      BY <3>1 DEF Live
    <3>3. ASSUME NEW t \in Thread, Dispatcher(t) PROVE FALSE
      BY <3>2, <3>3 DEF Dispatcher, ClearWake, CheckStop, ClaimNext, Finish,
         FinishRaises, Release, Poll, Die, Exit
    <3>4. ~StartRefused /\ ~CancelShutdown /\ ~Start
      BY <1>1, <1>5, <3>1 DEF StartRefused, CancelShutdown, Start, Resumed, StartThread,
         TypeOK, Console
    <3>5. ~CancelRefused
      BY <1>1, <1>5 DEF CancelRefused, Refuse, StartThread, StartThreadRaises, TypeOK,
         Console
    <3>6. \/ \E o \in Op : Submit(o) \/ SubmitRaises(o) \/ SubmitWake(o)
          \/ BeginShutdown \/ AwaitShutdown \/ Await
      BY <1>5, <3>3, <3>4, <3>5 DEF Next
    <3>7. UNCHANGED <<ops, th>>
      BY <3>1, <3>6 DEF Submit, SubmitRaises, SubmitWake, BeginShutdown, AwaitShutdown, Await, Deadline,
         AwaitLoop, AwaitWakes, AwaitJoined
    <3>8. con'.active = con.active /\ con'.started = con.started
      BY <1>1, <3>1, <3>6 DEF Submit, SubmitRaises, SubmitWake, BeginShutdown, AwaitShutdown, Await,
         Deadline, AwaitLoop, AwaitReady, AwaitTimesOut, AwaitWakes, AwaitJoined, TypeOK,
         Console
    <3> QED
      BY <3>1, <3>7, <3>8 DEF ReadyMeansStopped, Live
  <2>3. CASE ~con.ready
    <3>1. AwaitLoop /\ con' # con
      BY <1>5, <2>1, <2>3
    <3>2. AwaitReady /\ con.active = 0 /\ UNCHANGED <<ops, th>>
      <4>1. ~AwaitTimesOut
        BY <1>1, <1>5, <2>3 DEF AwaitTimesOut, TypeOK, Console
      <4> QED
        BY <3>1, <4>1 DEF AwaitLoop
    <3>3. Live = {} /\ con'.active = 0 /\ con'.started = con.started
      BY <1>1, <3>2 DEF AwaitReady, TypeOK, Console
    <3>4. \A t \in Thread : th[t].op = NoOp
      BY <3>3 DEF Live, CoreInv, OpHeld, Busy
    <3>5. con.started => \A o \in Op : ops[o] # "RUNNING"
      BY <2>1, <3>4, ConsoleConstants DEF UnconfirmedRefused
    <3> QED
      BY <3>2, <3>3, <3>5 DEF ReadyMeansStopped, Live
  <2> QED
    BY <2>2, <2>3
<1> QED
  BY <1>2, <1>3, <1>4, <1>5

ReadyInv == CoreInv /\ UnconfirmedRefused /\ ReadyMeansStopped

\* The three together are inductive.
LEMMA ReadyCorrect == Spec => []ReadyInv
<1>1. Init => UnconfirmedRefused /\ ReadyMeansStopped
  BY DEF Init, NewConsole, UnconfirmedRefused, ReadyMeansStopped
<1>2. ReadyInv /\ [Next]_consoleVars => ReadyInv'
  <2> SUFFICES ASSUME ReadyInv, [Next]_consoleVars PROVE ReadyInv'
    OBVIOUS
  <2>1. CoreInv /\ CoreInv'
    BY CoreStep DEF ReadyInv
  <2> QED
    BY <2>1, UnconfirmedStep, ReadyStep DEF ReadyInv
<1>3. Init => ReadyInv
  BY <1>1, CoreInit DEF ReadyInv
<1> QED
  BY <1>2, <1>3, PTL DEF Spec

\* An operation that the store calls RUNNING and that no thread holds, because its
\* claim or its final record raised, has closed this process for good: for any
\* number of operations, retries, resumptions and restarts.
THEOREM UnconfirmedRefusedHolds == Spec => []UnconfirmedRefused
<1>1. ReadyInv => UnconfirmedRefused
  BY DEF ReadyInv
<1> QED
  BY <1>1, ReadyCorrect, PTL

\* READY is truthful: no thread of the console is alive, nothing is active and, if
\* this process ever started, no operation is left RUNNING.
THEOREM ReadyMeansStoppedHolds == Spec => []ReadyMeansStopped
<1>1. ReadyInv => ReadyMeansStopped
  BY DEF ReadyInv
<1> QED
  BY <1>1, ReadyCorrect, PTL

-----------------------------------------------------------------------------
(* Signals                                                                 *)

\* A dispatcher that has passed its test of the stop event will see a later stop
\* through the wake event.
StopSeen ==
    \A t \in Thread : th[t].pc \in {"claim", "wait"} /\ ~con.wake => ~con.stop

\* A sleeping dispatcher has nothing to do that it could have been told of.
WaitIdle ==
    \A t \in Thread : th[t].pc = "wait" /\ ~con.wake => Queued \subseteq waking \cup silent

\* A sleeping await_shutdown has something to wait for.
AsleepBusy ==
    waiter.pc = "asleep" => con.active > 0 /\ con.draining /\ ~con.failure

SignalInv == StopSeen /\ WaitIdle /\ AsleepBusy

\* A step that clears no wake event, moves no thread to its claim or its wait and
\* queues nothing unnoticed.
LEMMA WakeFrame ==
  ASSUME SignalInv,
         con.wake => con'.wake,
         con'.stop => con.stop \/ con'.wake,
         \A t \in Thread : th'[t].pc \in {"claim", "wait"} => th'[t].pc = th[t].pc,
         Queued' \ (waking' \cup silent') \subseteq Queued \ (waking \cup silent) \/ con'.wake
  PROVE  StopSeen' /\ WaitIdle'
<1>1. StopSeen'
  BY DEF SignalInv, StopSeen
<1>2. WaitIdle'
  BY DEF SignalInv, WaitIdle
<1> QED
  BY <1>1, <1>2

\* No step of a dispatcher loses a signal: the event is cleared before stop is
\* tested and before the claim, never between the claim and the wait.
LEMMA DispatcherWake ==
  ASSUME CoreInv, SignalInv, NEW t \in Thread, Dispatcher(t)
  PROVE  StopSeen' /\ WaitIdle'
<1>1. TypeOK
  BY DEF CoreInv
<1>2. ASSUME Looping(t) PROVE \A u \in Thread \ {t} : ~Looping(u)
  BY <1>2 DEF CoreInv, OneDispatcher
<1>3. CASE ClearWake(t) \/ Poll(t)
  <2>1. PICK pc \in {"check", "top"} : Looping(t) /\ Goto(t, pc) /\ pc \in ThreadPC
    BY <1>3 DEF ClearWake, Poll, Looping, ThreadPC
  <2>2. \A u \in Thread : th'[u].pc \notin {"claim", "wait"}
    BY <1>1, <1>2, <2>1, GotoThread DEF Looping
  <2> QED
    BY <2>2 DEF StopSeen, WaitIdle
<1>4. CASE CheckStop(t) /\ ~con.stop
  <2>1. Goto(t, "claim") /\ UNCHANGED <<ops, con, waking, silent>> /\ "claim" \in ThreadPC
    BY <1>4 DEF CheckStop, ThreadPC
  <2>2. th'[t].pc = "claim" /\ \A u \in Thread \ {t} : th'[u] = th[u]
    BY <1>1, <2>1, GotoThread
  <2> QED
    BY <1>4, <2>1, <2>2 DEF SignalInv, StopSeen, WaitIdle, Queued
<1>5. CASE th[t].pc = "claim" /\ ClaimNothing(t) /\ UNCHANGED <<waking, silent>>
  <2>1. Goto(t, "wait") /\ UNCHANGED <<ops, con, waking, silent>> /\ "wait" \in ThreadPC
    BY <1>5 DEF ClaimNothing, ThreadPC
  <2>2. th'[t].pc = "wait" /\ \A u \in Thread \ {t} : th'[u] = th[u]
    BY <1>1, <2>1, GotoThread
  <2>3. con.active = 0
    BY <1>2, <1>5 DEF CoreInv, ActiveCount, Looping, Busy
  <2>4. ~con.wake => ~con.stop /\ ~con.draining
    BY <1>5 DEF SignalInv, StopSeen, CoreInv, Flags
  <2>5. ~con.wake => Queued = {}
    BY <1>5, <2>3, <2>4 DEF ClaimNothing
  <2>6. StopSeen'
    BY <2>1, <2>2, <2>4 DEF SignalInv, StopSeen
  <2>7. WaitIdle'
    BY <2>1, <2>2, <2>5 DEF SignalInv, WaitIdle, Queued
  <2> QED
    BY <2>6, <2>7
<1>6. CASE \/ CheckStop(t) /\ con.stop
           \/ Die(t)
           \/ Exit(t)
  <2>1. PICK pc \in {"exiting", "none"} : Goto(t, pc)
    BY <1>6 DEF CheckStop, Die, Exit
  <2>2. /\ UNCHANGED <<ops, waking, silent>> /\ (con.wake => con'.wake)
        /\ (con'.stop => con.stop \/ con'.wake)
    BY <1>1, <1>6 DEF CheckStop, Die, Exit, Left, Refuse, TypeOK, Console
  <2>3. th'[t].pc = pc /\ \A u \in Thread \ {t} : th'[u] = th[u]
    BY <1>1, <2>1, GotoThread DEF ThreadPC
  <2>4. Queued' \ (waking' \cup silent') \subseteq Queued \ (waking \cup silent)
    BY <2>2 DEF Queued
  <2> QED
    BY <2>2, <2>3, <2>4, WakeFrame
<1>7. CASE \/ Finish(t) \/ FinishRaises(t) \/ Release(t)
           \/ ClaimNext(t) /\ ~ClaimNothing(t)
  <2>1. /\ \A u \in Thread \ {t} : th'[u] = th[u]
        /\ th'[t].pc \notin {"claim", "wait"}
    BY <1>1, <1>7 DEF Finish, FinishRaises, Release, ClaimNext, ClaimOne, ClaimRaises,
       Goto, TypeOK
  <2>2. (con.wake => con'.wake) /\ (con'.stop => con.stop \/ con'.wake)
    BY <1>1, <1>7 DEF Finish, FinishRaises, Release, ClaimNext, ClaimOne, ClaimRaises,
       Refuse, TypeOK, Console
  <2>3. UNCHANGED <<waking, silent>> /\ \A o \in Op : ops'[o] = "QUEUED" => ops[o] = "QUEUED"
    BY <1>1, <1>7 DEF Finish, FinishRaises, Release, ClaimNext, ClaimOne, ClaimRaises,
       TypeOK
  <2>4. Queued' \ (waking' \cup silent') \subseteq Queued \ (waking \cup silent)
    BY <2>3 DEF Queued
  <2> QED
    BY <2>1, <2>2, <2>4, WakeFrame
<1> QED
  BY <1>3, <1>4, <1>5, <1>6, <1>7 DEF Dispatcher, ClaimNext

\* Nor does a step of the callers, or a restart.
LEMMA CallerWake ==
  ASSUME CoreInv, SignalInv, Next, ~\E t \in Thread : Dispatcher(t)
  PROVE  StopSeen' /\ WaitIdle'
<1>1. TypeOK
  BY DEF CoreInv
<1>2. ASSUME NEW o \in Op, Submit(o) \/ SubmitRaises(o) \/ SubmitWake(o) PROVE StopSeen' /\ WaitIdle'
  <2>1. /\ UNCHANGED th /\ (con.wake => con'.wake) /\ con'.stop = con.stop
        /\ SubmitWake(o) => con'.wake
    BY <1>1, <1>2 DEF Submit, SubmitRaises, SubmitWake, TypeOK, Console
  <2>2. (\/ Submit(o)
         \/ SubmitRaises(o) /\ \E t \in Thread : th[t].pc = "wait")
           => Queued' \ (waking' \cup silent') \subseteq Queued \ (waking \cup silent)
    BY <1>1 DEF Submit, SubmitRaises, Queued, TypeOK
  <2>3. CASE SubmitRaises(o) /\ ~\E t \in Thread : th[t].pc = "wait"
    BY <2>1, <2>3 DEF SignalInv, StopSeen, WaitIdle, SubmitRaises
  <2> QED
    BY <1>2, <2>1, <2>2, <2>3, WakeFrame
<1>3. CASE Start
  <2>1. \A u \in Thread : ~Looping(u)
    BY <1>3, NoLooping DEF Start
  <2>2. UNCHANGED th \/ \E t \in Thread : Goto(t, "top")
    BY <1>3 DEF Start, StartThread, StartThreadRaises
  <2>3. \A u \in Thread : th'[u].pc \notin {"claim", "wait"}
    BY <1>1, <2>1, <2>2, GotoThread DEF Looping, ThreadPC
  <2> QED
    BY <2>3 DEF StopSeen, WaitIdle
<1>4. CASE StartRefused \/ BeginShutdown \/ CancelShutdown \/ CancelRefused
  <2>1. con'.wake
    BY <1>1, <1>4 DEF StartRefused, BeginShutdown, CancelShutdown, CancelRefused,
       StartThread, StartThreadRaises, Refuse, Resumed, TypeOK, Console
  <2> QED
    BY <2>1 DEF StopSeen, WaitIdle
<1>5. CASE AwaitShutdown \/ Await
  <2>1. /\ UNCHANGED <<ops, th, waking, silent>>
        /\ con'.wake = con.wake /\ con'.stop = con.stop
    BY <1>1, <1>5 DEF AwaitShutdown, Await, Deadline, AwaitLoop, AwaitReady,
       AwaitTimesOut, AwaitWakes, AwaitJoined, TypeOK, Console
  <2> QED
    BY <2>1 DEF SignalInv, StopSeen, WaitIdle, Queued
<1>6. CASE Crash
  <2>1. \A u \in Thread : th'[u].pc = "none"
    BY <1>6 DEF Crash, NoThreads
  <2> QED
    BY <2>1 DEF StopSeen, WaitIdle
<1> QED
  BY <1>2, <1>3, <1>4, <1>5, <1>6 DEF Next

\* Whoever ends what await_shutdown waits for also notifies it.
LEMMA AsleepStep ==
  ASSUME CoreInv, SignalInv, Next
  PROVE  AsleepBusy'
<1>1. TypeOK /\ con \in Console
  BY DEF CoreInv, TypeOK
<1>2. CASE Notify \/ waiter' = NoWaiter
  BY <1>1, <1>2, NotifyWaiter DEF AsleepBusy, NoWaiter
<1>3. ASSUME waiter'.pc = waiter.pc, con'.active = con.active,
             con.draining => con'.draining, con'.failure => con.failure
      PROVE  AsleepBusy'
  BY <1>3 DEF SignalInv, AsleepBusy
<1>4. ASSUME NEW t \in Thread, Dispatcher(t) PROVE AsleepBusy'
  <2>1. ASSUME NEW o \in Queued, ClaimOne(t, o), con.active = 0 PROVE AsleepBusy'
    BY <2>1 DEF ClaimOne, SignalInv, AsleepBusy
  <2>2. CASE ~Notify /\ ~\E o \in Queued : ClaimOne(t, o) /\ con.active = 0
    <3>1. /\ UNCHANGED waiter
          /\ con' = con \/ con' = [con EXCEPT !.wake = FALSE]
      BY <1>4, <2>2 DEF Dispatcher, ClearWake, CheckStop, ClaimNext, ClaimNothing,
         ClaimRaises, Finish, FinishRaises, Release, Poll, Die, Exit
    <3>2. /\ con'.active = con.active /\ con'.draining = con.draining
          /\ con'.failure = con.failure
      BY <1>1, <3>1 DEF Console
    <3> QED
      BY <1>3, <3>1, <3>2
  <2> QED
    BY <1>2, <2>1, <2>2
<1>5. ASSUME NEW o \in Op, Submit(o) \/ SubmitRaises(o) \/ SubmitWake(o) PROVE AsleepBusy'
  <2>1. UNCHANGED waiter /\ (con' = con \/ con' = [con EXCEPT !.wake = TRUE])
    BY <1>5 DEF Submit, SubmitRaises, SubmitWake
  <2>2. /\ con'.active = con.active /\ con'.draining = con.draining
        /\ con'.failure = con.failure
    BY <1>1, <2>1 DEF Console
  <2> QED
    BY <1>3, <2>1, <2>2
<1>6. CASE Start
  <2>1. con.active = 0 /\ UNCHANGED waiter
    BY <1>6 DEF Start
  <2> QED
    BY <2>1 DEF SignalInv, AsleepBusy
<1>7. CASE BeginShutdown
  <2>1. /\ UNCHANGED waiter /\ con'.active = con.active /\ con'.draining
        /\ con'.failure = con.failure
    BY <1>1, <1>7 DEF BeginShutdown, Console
  <2> QED
    BY <1>3, <2>1
<1>8. CASE AwaitShutdown \/ AwaitWakes
  <2>1. waiter'.pc = "loop"
    BY <1>1, <1>8 DEF AwaitShutdown, AwaitWakes, NoWaiter, TypeOK
  <2> QED
    BY <2>1 DEF AsleepBusy
<1>9. CASE Deadline
  <2>1. waiter'.pc = waiter.pc /\ UNCHANGED con
    BY <1>1, <1>9 DEF Deadline, TypeOK
  <2> QED
    BY <1>3, <2>1
<1>10. CASE AwaitLoop
  <2>1. CASE waiter' = [waiter EXCEPT !.pc = "asleep"]
    <3>1. waiter'.pc = "asleep"
      BY <1>1, <2>1 DEF TypeOK
    <3>2. con.active > 0 /\ con.draining /\ ~con.failure /\ UNCHANGED con
      <4>1. NoWaiter.pc # "asleep"
        BY DEF NoWaiter
      <4>2. [waiter EXCEPT !.pc = "join", !.joins = Live].pc # "asleep"
        BY <1>1 DEF TypeOK
      <4> QED
        BY <1>10, <3>1, <4>1, <4>2 DEF AwaitLoop, AwaitTimesOut, AwaitReady
    <3> QED
      BY <3>2 DEF AsleepBusy
  <2>2. CASE waiter' = [waiter EXCEPT !.pc = "join", !.joins = Live]
    BY <1>1, <2>2 DEF AsleepBusy, TypeOK
  <2> QED
    BY <1>2, <1>10, <2>1, <2>2 DEF AwaitLoop, AwaitTimesOut, AwaitReady
<1>11. CASE AwaitJoined
  <2>1. CASE waiter' = [waiter EXCEPT !.pc = "loop", !.joins = {}]
    BY <1>1, <2>1 DEF AsleepBusy, TypeOK
  <2> QED
    BY <1>2, <1>11, <2>1 DEF AwaitJoined, AwaitTimesOut
<1> QED
  BY <1>2, <1>4, <1>5, <1>6, <1>7, <1>8, <1>9, <1>10, <1>11
     DEF Next, Await, StartRefused, CancelShutdown, CancelRefused, Crash

\* No wake, end of an operation, refusal or resumption is missed, for any number of
\* submissions and threads: a dispatcher sleeps with the event clear only when
\* there is no stop and every queued operation still has its wake to come or was
\* stored during that very sleep by a submission that then raised; and
\* await_shutdown sleeps only while an operation is active in a drain.
THEOREM NoLostSignalHolds == Spec => []NoLostSignal
<1>1. Init => SignalInv
  BY DEF Init, NoThreads, NoWaiter, SignalInv, StopSeen, WaitIdle, AsleepBusy
<1>2. CoreInv /\ SignalInv /\ [Next]_consoleVars => SignalInv'
  <2> SUFFICES ASSUME CoreInv, SignalInv, [Next]_consoleVars PROVE SignalInv'
    OBVIOUS
  <2>1. CASE UNCHANGED consoleVars
    BY <2>1 DEF consoleVars, SignalInv, StopSeen, WaitIdle, AsleepBusy, Queued
  <2>2. CASE Next
    BY <2>2, DispatcherWake, CallerWake, AsleepStep DEF SignalInv
  <2> QED
    BY <2>1, <2>2
<1>3. SignalInv => NoLostSignal
  BY DEF SignalInv, StopSeen, WaitIdle, AsleepBusy, NoLostSignal
<1>4. (CoreInv /\ SignalInv) /\ [Next]_consoleVars => (CoreInv /\ SignalInv)'
  BY <1>2, CoreStep
<1> QED
  BY <1>1, <1>3, <1>4, CoreInit, PTL DEF Spec

=============================================================================
