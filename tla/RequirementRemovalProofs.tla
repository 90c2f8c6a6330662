---------------------- MODULE RequirementRemovalProofs ----------------------
(***************************************************************************)
(* Closing, replacing and deleting Requirements: for any number of them    *)
(* and of processes, with any interruption, at most one command acts on a  *)
(* checkpoint, nothing is destroyed that was not decided, no Task is left  *)
(* open, an edit loses no draft and a retired journal is never extended.   *)
(*                                                                         *)
(* The argument is a rely and guarantee one.  StepOK says what a step of   *)
(* one actor does to every Requirement (Guarantee) and that it keeps the   *)
(* invariant of its rows and its own; OthersKept says that the guarantee   *)
(* is all that the invariant of any other actor relies on.                 *)
(***************************************************************************)
EXTENDS RequirementRemoval, TLAPS

\* Steps that act on a checkpoint under the lock of its journal.
LiveWriter == {"working", "settle", "close", "intake", "prepare", "replace", "deleteSettle"}

\* Steps of a deletion that may have lost the lock file to another purge.
Sealing == {"seal", "retire"}

\* Steps of RequirementPurger.execute under the deletion lock.
Purging == {"rows", "records", "unlink", "rmdir", "publish", "unplan"}

IsRetired(r) == retired[r] # NotRetired

\* The lock file and the checkpoints of r were unlinked by a purge.
Evicted(r) == retired[r].reason = "deleted" /\ ~Recorded(r)

-----------------------------------------------------------------------------
(* The inductive invariant                                                 *)

\* What a command holds and what it knows of the checkpoint it acts on.
LockInv(a) ==
    /\ actor[a].pc # "idle" \/ actor[a].cmd # "none" => Req(a) \in Requirement
    /\ actor[a].pc \in LiveWriter => lock[Req(a)] = a /\ ~IsRetired(Req(a))
    /\ actor[a].pc \in {"locked"} \cup Sealing => lock[Req(a)] = a \/ Evicted(Req(a))
    /\ actor[a].cmd = "replace" => actor[a].by \in Requirement
    /\ actor[a].pc \in {"intake", "prepare", "replace"} =>
          actor[a].cmd = "replace" /\ Recorded(Req(a)) /\ journal[Req(a)].phase = "ready"
    /\ actor[a].pc \in {"prepare", "replace"} =>
          lock[actor[a].by] = a /\ ~IsRetired(actor[a].by) /\ Recorded(actor[a].by)
    /\ actor[a].pc = "prepare" =>
          journal[actor[a].by].seq = 1 /\ journal[actor[a].by].phase = "preparing"

\* What a deletion and the purge that ends it know.
DeleteInv(a) ==
    /\ actor[a].cmd \in {"delete", "revoke"} => actor[a].expect # 0
    /\ actor[a].pc \in {"begin", "pending"} \cup Sealing => actor[a].cmd = "delete"
    /\ actor[a].pc = "deleteSettle" =>
          /\ actor[a].cmd = "delete" /\ Recorded(Req(a))
          /\ journal[Req(a)].seq = actor[a].expect
    /\ actor[a].pc \in Sealing => Recorded(Req(a)) \/ IsRetired(Req(a))
    /\ actor[a].pc \in Sealing /\ journal[Req(a)].seq # 0 =>
          /\ journal[Req(a)].seq = actor[a].expect
          /\ actor[a].pc = "retire" => plan[Req(a)] = actor[a].expect
    /\ actor[a].cmd = "revoke" => plan[Req(a)] = actor[a].expect \/ IsRetired(Req(a))
    /\ actor[a].pc \in {"purge"} \cup Purging =>
          /\ actor[a].cmd \in {"delete", "revoke"}
          /\ retired[Req(a)].reason = "deleted" /\ retired[Req(a)].seq = actor[a].expect
    /\ actor[a].pc \in Purging => purging[Req(a)] = a
    /\ actor[a].pc \in Purging \ {"unplan"} => plan[Req(a)] = actor[a].expect
    /\ actor[a].pc = "unplan" => purged[Req(a)] = actor[a].expect
    /\ actor[a].pc \in {"rmdir", "publish", "unplan"} => journal[Req(a)].seq = 0

\* The second half of NoTaskAdrift, and that there is something to settle.
FenceInv(a) ==
    /\ actor[a].pc \in {"settle", "deleteSettle"} => tasks[Req(a)] \notin {"none", "leased"}
    /\ actor[a].pc \in {"close", "seal", "retire", "rows"} =>
          tasks[Req(a)] \notin {"open", "leased"}

\* Checkpoints, retirement and completion of one Requirement agree.
JournalInv(r) ==
    /\ Recorded(r) => journal[r].seq # 0
    /\ journal[r].records = "none" => journal[r].seq = 0 /\ journal[r].phase = "preparing"
    /\ ~IsRetired(r) /\ ~Recorded(r) => journal[r].records = "none"
    /\ IsRetired(r) => retired[r].reason # "none" /\ retired[r].seq # 0
    /\ IsRetired(r) /\ journal[r].seq # 0 => journal[r].seq = retired[r].seq
    /\ retired[r].reason = "replaced" => retired[r].by \in Requirement
    /\ purged[r] # 0 => /\ purged[r] = retired[r].seq /\ retired[r].reason = "deleted"
                        /\ journal[r].seq = 0

\* Its Tasks: none before the approval, none open that a plan for the current
\* checkpoint would destroy.
TaskInv(r) ==
    /\ ~IsRetired(r) /\ journal[r].phase \in {"preparing", "ready", "draft"} =>
          tasks[r] = "none"
    /\ plan[r] # 0 => IsRetired(r) \/ plan[r] <= journal[r].seq
    /\ plan[r] # 0 /\ plan[r] = journal[r].seq => tasks[r] \notin {"open", "leased"}
    /\ (Recorded(r) /\ journal[r].phase = "closed") \/ IsRetired(r) =>
          tasks[r] \notin {"open", "leased"}
    /\ tasks[r] = "purged" \/ journal[r].records = "partial" \/ purged[r] # 0 =>
          retired[r].reason = "deleted" /\ retired[r].seq \in {plan[r], purged[r]}

ActorInv(a) == LockInv(a) /\ DeleteInv(a) /\ FenceInv(a)
RowInv(r) == JournalInv(r) /\ TaskInv(r)

\* No two commands act on the checkpoint of one displayed Requirement.
OneHolder ==
    \A a, b \in Actor :
        a # b /\ {actor[a].pc, actor[b].pc} \subseteq Writing => Req(a) # Req(b)

RemovalInv ==
    /\ TypeOK
    /\ \A a \in Actor : ActorInv(a)
    /\ \A r \in Requirement : RowInv(r)
    /\ OneHolder
    /\ ReplacedHasSuccessor

-----------------------------------------------------------------------------
(* What a step of one actor may do to a Requirement                        *)

SameJournal(r) ==
    /\ journal'[r].records = journal[r].records /\ journal'[r].seq = journal[r].seq
    /\ journal'[r].phase = journal[r].phase

\* a leaves r alone but for the locks it releases, the directory and the lock file.
SameRow(a, r) ==
    /\ SameJournal(r)
    /\ tasks'[r] = tasks[r] /\ plan'[r] = plan[r]
    /\ retired'[r] = retired[r] /\ purged'[r] = purged[r]
    /\ lock[r] \in {a, None} \/ lock'[r] = lock[r]
    /\ purging[r] \in {a, None} \/ purging'[r] = purging[r]

Guarantee(a, r) ==
    /\ IsRetired(r) => /\ IsRetired(r)' /\ retired'[r].seq = retired[r].seq
                       /\ retired[r].reason = "deleted" => retired'[r].reason = "deleted"
                       /\ journal'[r].seq \in {0, journal[r].seq}
                       /\ ~Recorded(r) => ~Recorded(r)'
                       /\ tasks'[r] \in {tasks[r], "purged", "settled"}
    /\ ~IsRetired(r) /\ lock[r] \notin {a, None} =>
          /\ SameJournal(r) /\ tasks'[r] = tasks[r] /\ plan'[r] = plan[r]
          /\ retired'[r] = retired[r]
    /\ Recorded(r) => Recorded(r)' \/ IsRetired(r)'
    /\ lock[r] \notin {a, None} => lock'[r] = lock[r] \/ Evicted(r)'
    /\ purging[r] \notin {a, None} => purging'[r] = purging[r]
    /\ purged'[r] = purged[r] \/ purging[r] = a
    /\ plan[r] # 0 =>
          plan'[r] = plan[r] \/ (purged[r] # 0 /\ purging[r] \in {a, None})

\* The step begins to act on a checkpoint only with the lock and the checkpoint.
Entry(a) ==
    actor'[a].pc \in Writing =>
        \/ actor[a].pc \in Writing /\ actor'[a].req = actor[a].req
        \/ lock'[actor'[a].req] = a /\ journal'[actor'[a].req].records = "whole"

\* A Requirement is replaced by one that has checkpoints.
Successor(r) ==
    retired'[r].reason = "replaced" =>
        \/ retired'[r] = retired[r]
        \/ journal'[retired'[r].by].records = "whole"

StepOK(a) ==
    /\ TypeOK'
    /\ \A b \in Actor \ {a} : actor'[b] = actor[b]
    /\ \A r \in Requirement : Guarantee(a, r) /\ RowInv(r)' /\ Successor(r)
    /\ ActorInv(a)'
    /\ Entry(a)

-----------------------------------------------------------------------------
(* Frame lemmas                                                            *)

\* A Requirement the step leaves alone keeps its invariant.
LEMMA SameRowKept ==
  ASSUME NEW a \in Actor, NEW r \in Requirement, RowInv(r), SameRow(a, r)
  PROVE  Guarantee(a, r) /\ RowInv(r)' /\ Successor(r)
  <1>1. RowInv(r)'
    BY DEF RowInv, JournalInv, TaskInv, SameRow, SameJournal, IsRetired, Recorded
  <1>2. Guarantee(a, r)
    BY DEF Guarantee, SameRow, SameJournal, IsRetired, Recorded, Evicted
  <1>3. Successor(r)
    BY DEF Successor, SameRow
  <1> QED  BY <1>1, <1>2, <1>3

\* StepOK(a) keeps what every other actor holds and knows.
LEMMA OthersKept ==
  ASSUME RemovalInv, NEW a \in Actor, NEW b \in Actor, a # b, StepOK(a)
  PROVE  ActorInv(b)'
  <1>0. /\ actor'[b] = actor[b] /\ a # None /\ b # None
        /\ \A q \in Requirement : Guarantee(a, q) /\ RowInv(q)'
    BY RemovalConstants DEF StepOK
  <1>1. ActorInv(b) /\ \A q \in Requirement : RowInv(q)
    BY DEF RemovalInv
  <1> SUFFICES ASSUME actor[b].pc # "idle" \/ actor[b].cmd # "none"
               PROVE  ActorInv(b)'
    BY <1>0 DEF ActorInv, LockInv, DeleteInv, FenceInv, LiveWriter, Sealing, Purging
  <1> PICK r \in Requirement : r = Req(b)
    BY <1>1 DEF ActorInv, LockInv
  <1>2. Req(b)' = r
    BY <1>0 DEF Req
  <1>3. Guarantee(a, r) /\ RowInv(r)
    BY <1>0, <1>1
  <1>4. LockInv(b)'
    <2>1. actor[b].pc \in LiveWriter => lock'[r] = b /\ ~IsRetired(r)'
      BY <1>0, <1>1, <1>3 DEF ActorInv, LockInv, Guarantee, Evicted, IsRetired, LiveWriter,
         NotRetired
    <2>2. actor[b].pc \in {"locked"} \cup Sealing => lock'[r] = b \/ Evicted(r)'
      BY <1>0, <1>1, <1>3 DEF ActorInv, LockInv, Guarantee, Evicted, IsRetired, Sealing,
         NotRetired
    <2>3. actor[b].pc \in {"intake", "prepare", "replace"} =>
             actor[b].cmd = "replace" /\ Recorded(r)' /\ journal'[r].phase = "ready"
      BY <1>0, <1>1, <1>3 DEF ActorInv, LockInv, Guarantee, LiveWriter, SameJournal, Recorded
    <2>4. actor[b].pc \in {"prepare", "replace"} => \E w \in Requirement :
             /\ w = actor[b].by
             /\ lock'[w] = b /\ ~IsRetired(w)' /\ Recorded(w)'
             /\ actor[b].pc = "prepare" => journal'[w].seq = 1 /\ journal'[w].phase = "preparing"
      <3> SUFFICES ASSUME actor[b].pc \in {"prepare", "replace"}
                   PROVE  \E w \in Requirement :
                             /\ w = actor[b].by
                             /\ lock'[w] = b /\ ~IsRetired(w)' /\ Recorded(w)'
                             /\ actor[b].pc = "prepare" =>
                                   journal'[w].seq = 1 /\ journal'[w].phase = "preparing"
        OBVIOUS
      <3> PICK w \in Requirement : w = actor[b].by
        BY <1>1 DEF ActorInv, LockInv
      <3>1. lock[w] = b /\ ~IsRetired(w) /\ Recorded(w)
        BY <1>1 DEF ActorInv, LockInv
      <3>2. SameJournal(w) /\ retired'[w] = retired[w] /\ (lock'[w] = b \/ Evicted(w)')
        BY <3>1, <1>0 DEF Guarantee
      <3> QED
        BY <3>1, <3>2, <1>1 DEF ActorInv, LockInv, SameJournal, IsRetired, Evicted, Recorded
    <2> QED
      BY <1>0, <1>1, <1>2, <2>1, <2>2, <2>3, <2>4 DEF ActorInv, LockInv
  <1>5. DeleteInv(b)'
    <2>1. actor[b].pc \in Sealing =>
             /\ Recorded(r)' \/ IsRetired(r)'
             /\ journal'[r].seq # 0 =>
                   /\ journal'[r].seq = actor[b].expect
                   /\ actor[b].pc = "retire" => plan'[r] = actor[b].expect
      <3> SUFFICES ASSUME actor[b].pc \in Sealing
                   PROVE  /\ Recorded(r)' \/ IsRetired(r)'
                          /\ journal'[r].seq # 0 =>
                                /\ journal'[r].seq = actor[b].expect
                                /\ actor[b].pc = "retire" => plan'[r] = actor[b].expect
        OBVIOUS
      <3>1. r \in Requirement /\ Guarantee(a, r) /\ RowInv(r)
        BY <1>3
      <3>2. CASE IsRetired(r)
        BY <3>1, <3>2, <1>1 DEF ActorInv, DeleteInv, Guarantee, RowInv, JournalInv, Sealing
      <3>3. CASE ~IsRetired(r)
        <4>1. lock[r] = b
          BY <1>1, <3>3 DEF ActorInv, LockInv, Evicted, IsRetired, NotRetired
        <4> QED
          BY <3>1, <3>3, <4>1, <1>0, <1>1 DEF ActorInv, DeleteInv, Guarantee, SameJournal,
             Recorded
      <3> QED  BY <3>2, <3>3
    <2>8. actor[b].pc = "deleteSettle" =>
             actor[b].cmd = "delete" /\ Recorded(r)' /\ journal'[r].seq = actor[b].expect
      BY <1>0, <1>1, <1>3 DEF ActorInv, LockInv, DeleteInv, Guarantee, SameJournal, Recorded,
         LiveWriter
    <2>2. actor[b].cmd = "revoke" =>
             plan'[r] = actor[b].expect \/ IsRetired(r)'
      BY <1>0, <1>1, <1>3 DEF ActorInv, DeleteInv, Guarantee, RowInv, JournalInv, IsRetired,
         NotRetired
    <2>3. actor[b].pc \in {"purge"} \cup Purging =>
             retired'[r].reason = "deleted" /\ retired'[r].seq = actor[b].expect
      BY <1>0, <1>1, <1>3 DEF ActorInv, DeleteInv, Guarantee, IsRetired, NotRetired, Purging
    <2>4. actor[b].pc \in Purging => purging'[r] = b
      BY <1>0, <1>1, <1>3 DEF ActorInv, DeleteInv, Guarantee, Purging
    <2>5. actor[b].pc \in Purging \ {"unplan"} => plan'[r] = actor[b].expect
      BY <1>0, <1>1, <1>3 DEF ActorInv, DeleteInv, Guarantee, Purging
    <2>6. actor[b].pc = "unplan" => purged'[r] = actor[b].expect
      BY <1>0, <1>1, <1>3 DEF ActorInv, DeleteInv, Guarantee, Purging
    <2>7. actor[b].pc \in {"rmdir", "publish", "unplan"} => journal'[r].seq = 0
      BY <1>0, <1>1, <1>3 DEF ActorInv, DeleteInv, Guarantee, Purging, IsRetired, NotRetired
    <2> QED
      BY <1>0, <1>1, <1>2, <2>1, <2>2, <2>3, <2>4, <2>5, <2>6, <2>7, <2>8 DEF ActorInv,
         DeleteInv
  <1>6. FenceInv(b)'
    <2>1. actor[b].pc \in {"settle", "deleteSettle"} => tasks'[r] \notin {"none", "leased"}
      BY <1>0, <1>1, <1>3 DEF ActorInv, LockInv, FenceInv, Guarantee, LiveWriter
    <2>2. actor[b].pc \in {"close", "seal", "retire", "rows"} =>
             tasks'[r] \notin {"open", "leased"}
      BY <1>0, <1>1, <1>3 DEF ActorInv, LockInv, DeleteInv, FenceInv, Guarantee, LiveWriter,
         Sealing, Purging, Evicted, IsRetired, NotRetired
    <2> QED  BY <1>0, <1>2, <2>1, <2>2 DEF FenceInv
  <1> QED  BY <1>4, <1>5, <1>6 DEF ActorInv

\* What StepOK says of a step of a is enough for the invariant.
LEMMA StepKeeps ==
  ASSUME RemovalInv, NEW a \in Actor, StepOK(a)
  PROVE  RemovalInv'
  <1>0. /\ \A b \in Actor : b # a => actor'[b] = actor[b]
        /\ \A q \in Requirement : Guarantee(a, q) /\ RowInv(q)' /\ Successor(q)
        /\ TypeOK' /\ TypeOK
    BY DEF StepOK, RemovalInv
  <1>1. \A b \in Actor : ActorInv(b)'
    BY OthersKept DEF StepOK
  <1>2. OneHolder'
    <2>1. ASSUME NEW b \in Actor, a # b, actor'[a].pc \in Writing, actor'[b].pc \in Writing,
                 actor'[a].req = actor'[b].req
          PROVE  FALSE
      <3> PICK r \in Requirement : r = actor'[b].req
        BY <1>1, <2>1 DEF ActorInv, LockInv, Req, Writing
      <3>1. actor'[b] = actor[b]
        BY <1>0, <2>1
      <3>2. ~(actor[a].pc \in Writing /\ actor[a].req = r)
        BY <2>1, <3>1 DEF RemovalInv, OneHolder, Req
      <3>3. lock'[r] = a /\ Recorded(r)'
        BY <2>1, <3>2 DEF StepOK, Entry, Recorded
      <3>4. lock'[r] = b \/ Evicted(r)'
        BY <1>1, <2>1 DEF ActorInv, LockInv, Req, Writing, LiveWriter, Sealing
      <3> QED  BY <3>3, <3>4, <2>1 DEF Evicted
    <2>2. ASSUME NEW b \in Actor, NEW c \in Actor, b # c, a # b, a # c,
                 actor'[b].pc \in Writing, actor'[c].pc \in Writing
          PROVE  actor'[b].req # actor'[c].req
      BY <1>0, <2>2 DEF RemovalInv, OneHolder, Req
    <2> QED  BY <2>1, <2>2 DEF OneHolder, Req
  <1>3. ReplacedHasSuccessor'
    <2> SUFFICES ASSUME NEW r \in Requirement, retired'[r].reason = "replaced"
                 PROVE  (Recorded(retired[r].by) \/ IsRetired(retired[r].by))'
      BY DEF ReplacedHasSuccessor, IsRetired
    <2> PICK w \in Requirement : w = retired'[r].by
      BY <1>0 DEF RowInv, JournalInv
    <2>1. CASE retired'[r] = retired[r]
      <3>1. Recorded(w) \/ IsRetired(w)
        BY <2>1 DEF RemovalInv, ReplacedHasSuccessor, IsRetired
      <3>2. Recorded(w)' \/ IsRetired(w)'
        BY <3>1, <1>0 DEF Guarantee
      <3> QED  BY <3>2 DEF Recorded, IsRetired
    <2>2. CASE journal'[w].records = "whole"
      BY <2>2 DEF Recorded
    <2> QED  BY <2>1, <2>2, <1>0 DEF Successor
  <1> QED  BY <1>0, <1>1, <1>2, <1>3 DEF RemovalInv

\* A command that returns, raises or dies knows nothing and holds nothing.
LEMMA EndKept ==
  ASSUME TypeOK, NEW a \in Actor, End(a)
  PROVE  /\ actor' \in [Actor -> [pc : PC, cmd : Cmd, req : Requirement \cup {None},
                                  by : Requirement \cup {None}, expect : 0 .. MaxSeq]]
         /\ \A b \in Actor \ {a} : actor'[b] = actor[b]
         /\ ActorInv(a)' /\ Entry(a)
         /\ lock' \in [Requirement -> Actor \cup {None}]
         /\ purging' \in [Requirement -> Actor \cup {None}]
         /\ \A r \in Requirement : /\ lock[r] = a \/ lock'[r] = lock[r]
                                   /\ purging[r] = a \/ purging'[r] = purging[r]
  <1>1. Idle \in [pc : PC, cmd : Cmd, req : Requirement \cup {None},
                  by : Requirement \cup {None}, expect : 0 .. MaxSeq]
    BY RemovalConstants DEF Idle, PC, Cmd
  <1>2. actor'[a] = Idle
    BY DEF End, TypeOK
  <1>3. ActorInv(a)' /\ Entry(a)
    BY <1>2 DEF ActorInv, LockInv, DeleteInv, FenceInv, Entry, Idle, LiveWriter, Sealing,
       Purging, Writing
  <1>4. /\ actor' \in [Actor -> [pc : PC, cmd : Cmd, req : Requirement \cup {None},
                                 by : Requirement \cup {None}, expect : 0 .. MaxSeq]]
        /\ \A b \in Actor \ {a} : actor'[b] = actor[b]
    BY <1>1 DEF End, TypeOK
  <1>5. /\ lock' \in [Requirement -> Actor \cup {None}]
        /\ \A r \in Requirement : lock[r] = a \/ lock'[r] = lock[r]
    BY DEF End, TypeOK
  <1>6. /\ purging' \in [Requirement -> Actor \cup {None}]
        /\ \A r \in Requirement : purging[r] = a \/ purging'[r] = purging[r]
    BY DEF End, TypeOK
  <1> QED  BY <1>3, <1>4, <1>5, <1>6

\* Only the place of a in its command changes.
LEMMA GotoKept ==
  ASSUME TypeOK, NEW a \in Actor, NEW p \in PC, Goto(a, p)
  PROVE  /\ actor' \in [Actor -> [pc : PC, cmd : Cmd, req : Requirement \cup {None},
                                  by : Requirement \cup {None}, expect : 0 .. MaxSeq]]
         /\ \A b \in Actor \ {a} : actor'[b] = actor[b]
         /\ actor'[a].pc = p /\ actor'[a].cmd = actor[a].cmd
         /\ actor'[a].req = actor[a].req /\ actor'[a].by = actor[a].by
         /\ actor'[a].expect = actor[a].expect
  <1> DEFINE T == [pc : PC, cmd : Cmd, req : Requirement \cup {None},
                   by : Requirement \cup {None}, expect : 0 .. MaxSeq]
             x == [actor[a] EXCEPT !.pc = p]
  <1>1. actor \in [Actor -> T] /\ actor' = [actor EXCEPT ![a] = x]
    BY DEF Goto, TypeOK
  <1>2. actor[a] \in T
    BY <1>1
  <1>3. /\ x \in T
        /\ x.pc = p /\ x.cmd = actor[a].cmd /\ x.req = actor[a].req
        /\ x.by = actor[a].by /\ x.expect = actor[a].expect
    BY <1>2
  <1> HIDE DEF T, x
  <1>4. actor' \in [Actor -> T] /\ actor'[a] = x /\ \A b \in Actor \ {a} : actor'[b] = actor[b]
    BY <1>1, <1>3
  <1> QED  BY <1>3, <1>4 DEF T

\* A step of a that disturbs at most the Requirement r.
LEMMA OneRowStep ==
  ASSUME RemovalInv, NEW a \in Actor, NEW r \in Requirement,
         TypeOK', \A b \in Actor \ {a} : actor'[b] = actor[b],
         \A q \in Requirement \ {r} : SameRow(a, q),
         SameRow(a, r) \/ (Guarantee(a, r) /\ RowInv(r)' /\ Successor(r)),
         ActorInv(a)', Entry(a)
  PROVE  StepOK(a)
  BY SameRowKept DEF StepOK, RemovalInv

\* A step of a that disturbs no Requirement.
LEMMA NoRowStep ==
  ASSUME RemovalInv, NEW a \in Actor,
         TypeOK', \A b \in Actor \ {a} : actor'[b] = actor[b],
         \A q \in Requirement : SameRow(a, q),
         ActorInv(a)', Entry(a)
  PROVE  StepOK(a)
  BY SameRowKept DEF StepOK, RemovalInv

\* The command ends and leaves everything on disk.
LEMMA RefuseStep ==
  ASSUME RemovalInv, NEW a \in Actor, End(a), UnchangedDisk, UNCHANGED calm
  PROVE  StepOK(a)
  <1>1. TypeOK
    BY DEF RemovalInv
  <1>2. TypeOK'
    BY <1>1, EndKept DEF TypeOK, UnchangedDisk
  <1>3. \A q \in Requirement : SameRow(a, q)
    BY <1>1, EndKept DEF SameRow, SameJournal, UnchangedDisk
  <1> QED  BY <1>1, <1>2, <1>3, EndKept, NoRowStep

\* The step of a changes its place and at most a receipt.
LEMMA QuietStep ==
  ASSUME RemovalInv, NEW a \in Actor, UNCHANGED calm, UnchangedLocks,
         UNCHANGED <<journal, tasks, plan, retired, purged>>,
         receipt' \in [Requirement -> [action : {"none", "close", "delete"}, seq : 0 .. MaxSeq]],
         actor' \in [Actor -> [pc : PC, cmd : Cmd, req : Requirement \cup {None},
                               by : Requirement \cup {None}, expect : 0 .. MaxSeq]],
         \A b \in Actor \ {a} : actor'[b] = actor[b],
         ActorInv(a)', Entry(a)
  PROVE  StepOK(a)
  <1>1. TypeOK'
    BY DEF RemovalInv, TypeOK, UnchangedLocks
  <1>2. \A q \in Requirement : SameRow(a, q)
    BY DEF SameRow, SameJournal, UnchangedLocks
  <1> QED  BY <1>1, <1>2, NoRowStep

-----------------------------------------------------------------------------
(* The steps of the commands                                               *)

\* A command is given: it holds and knows nothing yet.
LEMMA BeginStep ==
  ASSUME RemovalInv, NEW a \in Actor, UNCHANGED calm,
         \/ \E r \in Requirement, e \in 0 .. MaxSeq,
                cmd \in {"create", "work", "close", "restart", "delete"} : Begin(a, cmd, r, e)
         \/ \E r, r2 \in Requirement : BeginReplace(a, r, r2)
  PROVE  StepOK(a)
  <1> DEFINE T == [pc : PC, cmd : Cmd, req : Requirement \cup {None},
                   by : Requirement \cup {None}, expect : 0 .. MaxSeq]
  <1>1. TypeOK /\ actor \in [Actor -> T]
    BY DEF RemovalInv, TypeOK
  <1>2. /\ UnchangedDisk /\ UnchangedLocks
        /\ \E x \in T : /\ actor' = [actor EXCEPT ![a] = x]
                        /\ x.pc \in {"begin", "probe"} /\ x.req \in Requirement
                        /\ x.pc = "begin" => x.cmd = "delete"
                        /\ x.cmd = "delete" => x.expect # 0
                        /\ x.cmd # "revoke"
                        /\ x.cmd = "replace" => x.by \in Requirement
    <2>1. ASSUME NEW r \in Requirement, NEW e \in 0 .. MaxSeq,
                 NEW cmd \in {"create", "work", "close", "restart", "delete"},
                 Begin(a, cmd, r, e)
          PROVE  <1>2!2
      <3> DEFINE x == [pc |-> IF cmd = "delete" THEN "begin" ELSE "probe",
                       cmd |-> cmd, req |-> r, by |-> None, expect |-> e]
      <3>1. x \in T
        BY DEF PC, Cmd
      <3>2. cmd = "delete" => e # 0
        BY <2>1 DEF Begin, Displayed
      <3> QED  BY <2>1, <3>1, <3>2 DEF Begin
    <2>2. ASSUME NEW r \in Requirement, NEW r2 \in Requirement, BeginReplace(a, r, r2)
          PROVE  <1>2!2
      <3> DEFINE x == [pc |-> "probe", cmd |-> "replace", req |-> r, by |-> r2,
                       expect |-> journal[r].seq]
      <3>1. x \in T
        BY <1>1 DEF PC, Cmd, TypeOK
      <3> QED  BY <2>2, <3>1 DEF BeginReplace
    <2>3. UnchangedDisk /\ UnchangedLocks
      BY DEF Begin, BeginReplace
    <2> QED  BY <2>1, <2>2, <2>3
  <1>3. PICK x \in T : /\ actor' = [actor EXCEPT ![a] = x]
                       /\ x.pc \in {"begin", "probe"} /\ x.req \in Requirement
                       /\ x.pc = "begin" => x.cmd = "delete"
                       /\ x.cmd = "delete" => x.expect # 0
                       /\ x.cmd # "revoke"
                       /\ x.cmd = "replace" => x.by \in Requirement
    BY <1>2
  <1> HIDE DEF T
  <1>4. /\ actor' \in [Actor -> T] /\ actor'[a] = x
        /\ \A b \in Actor \ {a} : actor'[b] = actor[b]
    BY <1>1, <1>3
  <1>5. ActorInv(a)' /\ Entry(a)
    BY <1>3, <1>4 DEF ActorInv, LockInv, DeleteInv, FenceInv, Entry, Req, LiveWriter, Sealing,
       Purging, Writing
  <1>6. /\ UNCHANGED <<journal, tasks, plan, retired, purged>>
        /\ receipt' \in [Requirement -> [action : {"none", "close", "delete"}, seq : 0 .. MaxSeq]]
    BY <1>1, <1>2 DEF UnchangedDisk, TypeOK
  <1> QED  BY <1>2, <1>4, <1>5, <1>6, QuietStep DEF T

JournalRec ==
    [dir : BOOLEAN, lockfile : BOOLEAN, records : {"none", "whole", "partial"},
     seq : 0 .. MaxSeq, phase : Phase, closed : SUBSET (1 .. MaxSeq)]

JournalOK ==
    /\ journal \in [Requirement -> JournalRec]
    /\ \A r \in Requirement : journal[r].lockfile \/ journal[r].records # "none" =>
                                journal[r].dir

\* The journal part of the type invariant, and the rest of it.
LEMMA JournalType ==
  /\ TypeOK => JournalOK
  /\ TypeOK /\ JournalOK' /\ UNCHANGED <<tasks, receipt, plan, retired, purged, calm>>
        /\ actor' \in [Actor -> [pc : PC, cmd : Cmd, req : Requirement \cup {None},
                                  by : Requirement \cup {None}, expect : 0 .. MaxSeq]]
        /\ lock' \in [Requirement -> Actor \cup {None}]
        /\ purging' \in [Requirement -> Actor \cup {None}] => TypeOK'
  BY DEF TypeOK, JournalOK, JournalRec

\* One journal is written.
LEMMA JournalWrite ==
  ASSUME TypeOK, NEW r \in Requirement, NEW y \in JournalRec,
         y.lockfile \/ y.records # "none" => y.dir,
         journal' = [journal EXCEPT ![r] = y]
  PROVE  /\ JournalOK' /\ journal'[r] = y
         /\ \A q \in Requirement \ {r} : journal'[q] = journal[q]
  <1>1. JournalOK
    BY JournalType
  <1> QED  BY <1>1 DEF JournalOK

\* The directory and the lock file of r are made.
LEMMA LockFileMade ==
  ASSUME TypeOK, NEW r \in Requirement,
         journal' = [journal EXCEPT ![r].dir = TRUE, ![r].lockfile = TRUE]
  PROVE  JournalOK' /\ \A q \in Requirement : SameJournal(q)
  <1> DEFINE y == [journal[r] EXCEPT !.dir = TRUE, !.lockfile = TRUE]
  <1>1. journal[r] \in JournalRec /\ journal' = [journal EXCEPT ![r] = y]
    BY JournalType DEF JournalOK
  <1>2. /\ y \in JournalRec /\ y.dir /\ y.records = journal[r].records
        /\ y.seq = journal[r].seq /\ y.phase = journal[r].phase
    BY <1>1 DEF JournalRec
  <1> HIDE DEF y
  <1>3. /\ JournalOK' /\ journal'[r] = y
        /\ \A q \in Requirement \ {r} : journal'[q] = journal[q]
    BY <1>1, <1>2, JournalWrite
  <1> QED  BY <1>2, <1>3 DEF SameJournal

\* JointJournal.lock makes the lock file, and takes it when it is free.
LEMMA AcquireStep ==
  ASSUME RemovalInv, NEW a \in Actor, UNCHANGED calm, Acquire(a)
  PROVE  StepOK(a)
  <1>1. TypeOK /\ ActorInv(a) /\ At(a, "probe") /\ a # None
    BY RemovalConstants DEF RemovalInv, Acquire
  <1> PICK r \in Requirement : r = Req(a)
    BY <1>1 DEF ActorInv, LockInv, At
  <1>2. JournalOK' /\ \A q \in Requirement : SameJournal(q)
    BY <1>1, LockFileMade DEF Acquire
  <1>3. CASE lock[r] = None /\ Goto(a, "locked") /\ lock' = [lock EXCEPT ![r] = a] /\ UNCHANGED purging
    <2>1. "locked" \in PC
      BY DEF PC
    <2>2. /\ lock' \in [Requirement -> Actor \cup {None}] /\ lock'[r] = a
          /\ \A q \in Requirement \ {r} : lock'[q] = lock[q]
      BY <1>1, <1>3 DEF TypeOK
    <2>3. TypeOK'
      <3>1. purging' \in [Requirement -> Actor \cup {None}]
        BY <1>1, <1>3 DEF TypeOK
      <3> QED  BY <1>1, <1>2, <1>3, <2>1, <2>2, <3>1, GotoKept, JournalType DEF Acquire
    <2>4. \A q \in Requirement : SameRow(a, q)
      BY <1>1, <1>2, <1>3, <2>2 DEF SameRow, Acquire
    <2>5. ActorInv(a)' /\ Entry(a)
      <3>1. /\ actor'[a].pc = "locked" /\ actor'[a].cmd = actor[a].cmd
            /\ actor'[a].req = r /\ actor'[a].by = actor[a].by
            /\ actor'[a].expect = actor[a].expect
        BY <1>1, <1>3, <2>1, GotoKept DEF Req
      <3>2. plan'[r] = plan[r] /\ retired'[r] = retired[r]
        BY DEF Acquire
      <3> QED
        BY <1>1, <2>2, <3>1, <3>2 DEF ActorInv, LockInv, DeleteInv, FenceInv, Entry,
           Req, LiveWriter, Sealing, Purging, Writing, IsRetired
    <2> QED  BY <1>1, <1>3, <2>1, <2>3, <2>4, <2>5, GotoKept, NoRowStep
  <1>4. CASE End(a)
    <2>1. TypeOK'
      BY <1>1, <1>2, <1>4, EndKept, JournalType DEF Acquire
    <2>2. \A q \in Requirement : SameRow(a, q)
      BY <1>1, <1>2, <1>4, EndKept DEF SameRow, Acquire
    <2> QED  BY <1>1, <1>4, <2>1, <2>2, EndKept, NoRowStep
  <1> QED  BY <1>3, <1>4 DEF Acquire

\* A command goes on in place p and changes nothing but a receipt: what remains to be
\* shown is what it knows in its new place.
LEMMA GotoStep ==
  ASSUME RemovalInv, NEW a \in Actor, NEW p \in PC, UNCHANGED calm, Goto(a, p),
         UnchangedLocks, UNCHANGED <<journal, tasks, plan, retired, purged>>,
         receipt' \in [Requirement -> [action : {"none", "close", "delete"}, seq : 0 .. MaxSeq]],
         ActorInv(a)', Entry(a)
  PROVE  StepOK(a)
  <1>1. TypeOK
    BY DEF RemovalInv
  <1> QED  BY <1>1, GotoKept, QuietStep

\* resume, reply and approve read the checkpoint; update_requirement reads the draft.
LEMMA ReadStep ==
  ASSUME RemovalInv, NEW a \in Actor, UNCHANGED calm, Work(a) \/ Replace(a)
  PROVE  StepOK(a)
  <1>1. TypeOK /\ ActorInv(a) /\ At(a, "locked") /\ \A q \in Requirement : RowInv(q)
    BY DEF RemovalInv, Work, Replace, Runs, At
  <1> PICK r \in Requirement : r = Req(a)
    BY <1>1 DEF ActorInv, LockInv, At
  <1>2. ASSUME NEW p \in {"working", "intake"}, Current(r), Goto(a, p), UnchangedDisk,
               UnchangedLocks,
               p = "intake" => actor[a].cmd = "replace" /\ journal[r].phase = "ready"
        PROVE  StepOK(a)
    <2>1. p \in PC
      BY DEF PC
    <2>2. /\ actor'[a].pc = p /\ actor'[a].cmd = actor[a].cmd
          /\ actor'[a].req = r /\ actor'[a].by = actor[a].by
          /\ actor'[a].expect = actor[a].expect
      BY <1>1, <1>2, <2>1, GotoKept DEF Req
    <2>3. /\ journal' = journal /\ tasks' = tasks /\ plan' = plan /\ retired' = retired
          /\ purged' = purged /\ receipt' = receipt /\ lock' = lock
      BY <1>2 DEF UnchangedDisk, UnchangedLocks
    <2>4. lock[r] = a /\ ~IsRetired(r) /\ Recorded(r)
      BY <1>1, <1>2 DEF Current, IsRetired, ActorInv, LockInv, Evicted, At
    <2>5. ActorInv(a)'
      BY <1>1, <1>2, <2>2, <2>3, <2>4 DEF ActorInv, LockInv, DeleteInv, FenceInv, Req, LiveWriter,
         Sealing, Purging, IsRetired, Recorded
    <2>6. Entry(a)
      BY <2>2, <2>3, <2>4 DEF Entry, Recorded
    <2>7. receipt' \in [Requirement -> [action : {"none", "close", "delete"}, seq : 0 .. MaxSeq]]
      BY <1>1, <2>3 DEF TypeOK
    <2> QED  BY <1>2, <2>1, <2>3, <2>5, <2>6, <2>7, GotoStep
  <1>3. CASE Refuse(a)
    BY <1>3, RefuseStep DEF Refuse
  <1>4. CASE Work(a) /\ ~Refuse(a)
    BY <1>4, <1>2 DEF Work
  <1>5. CASE Replace(a) /\ ~Refuse(a)
    BY <1>5, <1>2 DEF Replace, Runs
  <1> QED  BY <1>3, <1>4, <1>5

\* A receipt is made once and binds the checkpoint.
LEMMA ReceiptType ==
  ASSUME TypeOK, NEW r \in Requirement, NEW c \in {"close", "delete"},
         receipt' \in {receipt, [receipt EXCEPT ![r] = ReceiptFor(r, c)]}
  PROVE  receipt' \in [Requirement -> [action : {"none", "close", "delete"}, seq : 0 .. MaxSeq]]
  <1>1. ReceiptFor(r, c) \in [action : {"none", "close", "delete"}, seq : 0 .. MaxSeq]
    BY DEF ReceiptFor, TypeOK
  <1> QED  BY <1>1 DEF TypeOK

\* close_requirement passes its checks with the lock, on a Requirement that is not retired.
LEMMA CloseStep ==
  ASSUME RemovalInv, NEW a \in Actor, UNCHANGED calm, Close(a)
  PROVE  StepOK(a)
  <1>1. TypeOK /\ ActorInv(a) /\ At(a, "locked") /\ actor[a].cmd = "close"
    BY DEF RemovalInv, Close, Runs, At
  <1> PICK r \in Requirement : r = Req(a)
    BY <1>1 DEF ActorInv, LockInv, At
  <1>2. CASE ~Refuse(a)
    <2> DEFINE p == IF tasks[r] = "none" THEN "close" ELSE "settle"
    <2>1. /\ p \in PC /\ Goto(a, p) /\ Current(r) /\ CloseAllowed(r) /\ tasks[r] # "leased"
          /\ UnchangedLocks /\ UNCHANGED <<journal, tasks, plan, retired, purged>>
          /\ receipt' \in {receipt, [receipt EXCEPT ![r] = ReceiptFor(r, "close")]}
      BY <1>2 DEF Close, PC
    <2>2. /\ actor'[a].pc = p /\ actor'[a].cmd = "close" /\ actor'[a].req = r
      BY <1>1, <2>1, GotoKept DEF Req
    <2>3. lock'[r] = a /\ retired'[r] = NotRetired /\ Recorded(r)
      BY <1>1, <2>1 DEF Current, ActorInv, LockInv, Evicted, At, UnchangedLocks, NotRetired
    <2>4. ActorInv(a)'
      BY <2>1, <2>2, <2>3 DEF ActorInv, LockInv, DeleteInv, FenceInv, Req, LiveWriter,
         Sealing, Purging, IsRetired
    <2>5. Entry(a)
      BY <2>1, <2>2, <2>3 DEF Entry, Recorded
    <2> HIDE DEF p
    <2> QED  BY <1>1, <2>1, <2>4, <2>5, ReceiptType, GotoStep
  <1> QED  BY <1>2, RefuseStep DEF Refuse

\* delete_requirement reads its stores, and again under the lock.
LEMMA DeleteReadStep ==
  ASSUME RemovalInv, NEW a \in Actor, UNCHANGED calm, DeleteBegins(a) \/ DeletePending(a)
  PROVE  StepOK(a)
  <1>1. TypeOK /\ ActorInv(a) /\ actor[a].pc \in {"begin", "pending"}
    BY DEF RemovalInv, DeleteBegins, DeletePending, At
  <1> PICK r \in Requirement : r = Req(a)
    BY <1>1 DEF ActorInv, LockInv
  <1>2. CASE Refuse(a)
    BY <1>2, RefuseStep DEF Refuse
  <1>3. ASSUME NEW p \in {"pending", "probe", "purge"}, Goto(a, p), UnchangedDisk, UnchangedLocks,
               p = "purge" => /\ plan[r] = actor[a].expect
                              /\ retired[r].reason = "deleted" /\ retired[r].seq = plan[r]
        PROVE  StepOK(a)
    <2>1. p \in PC
      BY DEF PC
    <2>2. /\ actor'[a].pc = p /\ actor'[a].cmd = "delete" /\ actor'[a].req = r
          /\ actor'[a].expect = actor[a].expect /\ actor[a].cmd = "delete"
      BY <1>1, <1>3, <2>1, GotoKept DEF Req, ActorInv, DeleteInv
    <2>3. /\ journal' = journal /\ tasks' = tasks /\ plan' = plan /\ retired' = retired
          /\ purged' = purged /\ receipt' = receipt /\ lock' = lock
      BY <1>3 DEF UnchangedDisk, UnchangedLocks
    <2>4. ActorInv(a)' /\ Entry(a)
      BY <1>1, <1>3, <2>2, <2>3 DEF ActorInv, LockInv, DeleteInv, FenceInv, Req, LiveWriter,
         Sealing, Purging, Entry, Writing
    <2>5. receipt' \in [Requirement -> [action : {"none", "close", "delete"}, seq : 0 .. MaxSeq]]
      BY <1>1, <2>3 DEF TypeOK
    <2> QED  BY <1>3, <2>1, <2>3, <2>4, <2>5, GotoStep
  <1>4. ASSUME actor' = [actor EXCEPT ![a].pc = "probe", ![a].cmd = "revoke"],
               UnchangedDisk, UnchangedLocks, plan[r] = actor[a].expect
        PROVE  StepOK(a)
    <2> DEFINE T == [pc : PC, cmd : Cmd, req : Requirement \cup {None},
                     by : Requirement \cup {None}, expect : 0 .. MaxSeq]
               x == [actor[a] EXCEPT !.pc = "probe", !.cmd = "revoke"]
    <2>1. actor \in [Actor -> T] /\ actor[a] \in T /\ actor' = [actor EXCEPT ![a] = x]
      BY <1>1, <1>4 DEF TypeOK
    <2>2. /\ x \in T /\ x.pc = "probe" /\ x.cmd = "revoke" /\ x.req = r
          /\ x.expect = actor[a].expect
      BY <2>1 DEF PC, Cmd, Req
    <2> HIDE DEF T, x
    <2>3. /\ actor' \in [Actor -> T] /\ actor'[a] = x
          /\ \A b \in Actor \ {a} : actor'[b] = actor[b]
      BY <2>1, <2>2
    <2>4. /\ journal' = journal /\ tasks' = tasks /\ plan' = plan /\ retired' = retired
          /\ purged' = purged /\ receipt' = receipt /\ lock' = lock
      BY <1>4 DEF UnchangedDisk, UnchangedLocks
    <2>5. actor[a].cmd = "delete" /\ actor[a].expect # 0
      BY <1>1 DEF ActorInv, DeleteInv
    <2>6. ActorInv(a)' /\ Entry(a)
      BY <1>4, <2>2, <2>3, <2>4, <2>5 DEF ActorInv, LockInv, DeleteInv, FenceInv, Req, LiveWriter,
         Sealing, Purging, Entry, Writing
    <2>7. receipt' \in [Requirement -> [action : {"none", "close", "delete"}, seq : 0 .. MaxSeq]]
      BY <1>1, <2>4 DEF TypeOK
    <2> QED  BY <1>4, <2>3, <2>4, <2>6, <2>7, QuietStep DEF T
  <1>5. CASE DeleteBegins(a)
    BY <1>5, <1>3 DEF DeleteBegins
  <1>6. CASE DeletePending(a) /\ ~Refuse(a)
    BY <1>6, <1>3, <1>4 DEF DeletePending
  <1> QED  BY <1>2, <1>5, <1>6

\* A checkpoint is appended to one journal.
LEMMA AppendKept ==
  ASSUME TypeOK, NEW a \in Actor, NEW r \in Requirement, r = Req(a), NEW phase \in Phase,
         Append(a, phase)
  PROVE  /\ JournalOK'
         /\ \A q \in Requirement \ {r} : journal'[q] = journal[q]
         /\ journal'[r].records = "whole" /\ journal'[r].phase = phase
         /\ journal'[r].seq = journal[r].seq + 1
         /\ purged[r] = 0
  <1> DEFINE n == journal[r].seq + 1
             c == IF phase = "closed" THEN journal[r].closed \cup {n} ELSE journal[r].closed
             y == [journal[r] EXCEPT !.dir = TRUE, !.records = "whole", !.seq = n,
                      !.phase = phase, !.closed = c]
  <1>1. journal[r] \in JournalRec
    BY JournalType DEF JournalOK
  <1>2. journal' = [journal EXCEPT ![r] = y] /\ n <= MaxSeq /\ purged[r] = 0
    <2>1. n <= MaxSeq /\ purged[r] = 0
      BY DEF Append
    <2>2. journal' = [journal EXCEPT ![r] = y]
      BY DEF Append
    <2> QED  BY <2>1, <2>2
  <1>3. n \in 1 .. MaxSeq
    BY <1>1, <1>2, RemovalConstants DEF JournalRec
  <1>4. /\ y \in JournalRec /\ y.dir /\ y.records = "whole" /\ y.seq = n /\ y.phase = phase
    <2>1. c \in SUBSET (1 .. MaxSeq)
      BY <1>1, <1>3 DEF JournalRec
    <2>2. n \in 0 .. MaxSeq
      BY <1>3
    <2> HIDE DEF n, c
    <2> QED  BY <1>1, <2>1, <2>2 DEF JournalRec
  <1> HIDE DEF y
  <1>5. /\ JournalOK' /\ journal'[r] = y
        /\ \A q \in Requirement \ {r} : journal'[q] = journal[q]
    BY <1>2, <1>4, JournalWrite
  <1> QED  BY <1>2, <1>4, <1>5

\* Who holds the lock of a Requirement that is not retired may append to its journal.
LEMMA AppendRow ==
  ASSUME RemovalInv, NEW a \in Actor, NEW r \in Requirement, lock[r] = a, ~IsRetired(r),
         journal'[r].records = "whole", journal'[r].seq = journal[r].seq + 1,
         plan'[r] = plan[r], retired'[r] = retired[r], purged'[r] = purged[r],
         tasks'[r] \in {tasks[r], "open"},
         purging[r] = a \/ purging'[r] = purging[r],
         journal'[r].phase \in {"preparing", "ready", "draft"} => tasks'[r] = "none",
         journal'[r].phase = "closed" => tasks'[r] \notin {"open", "leased"}
  PROVE  Guarantee(a, r) /\ RowInv(r)' /\ Successor(r)
  <1>1. RowInv(r) /\ journal[r].seq \in Nat /\ plan[r] \in Nat
    BY RemovalConstants DEF RemovalInv, TypeOK
  <1>2. retired[r].reason = "none" /\ retired[r] = NotRetired
    BY DEF IsRetired, NotRetired
  <1>3. RowInv(r)'
    BY <1>1, <1>2 DEF RowInv, JournalInv, TaskInv, IsRetired, Recorded, NotRetired
  <1>4. Guarantee(a, r)
    BY <1>1, <1>2 DEF Guarantee, IsRetired, Recorded, NotRetired
  <1>5. Successor(r)
    BY DEF Successor
  <1> QED  BY <1>3, <1>4, <1>5

\* _intake writes the first checkpoint of a Requirement that is not retired.
LEMMA CreateStep ==
  ASSUME RemovalInv, NEW a \in Actor, UNCHANGED calm, Create(a)
  PROVE  StepOK(a)
  <1>1. TypeOK /\ ActorInv(a) /\ At(a, "locked") /\ \A q \in Requirement : RowInv(q)
    BY DEF RemovalInv, Create, Runs, At
  <1> PICK r \in Requirement : r = Req(a)
    BY <1>1 DEF ActorInv, LockInv, At
  <1>2. CASE Refuse(a)
    BY <1>2, RefuseStep DEF Refuse
  <1>3. CASE ~Refuse(a)
    <2>1. /\ ~IsRetired(r) /\ journal[r].records # "partial" /\ actor[a].cmd = "create"
          /\ Goto(a, "working") /\ UnchangedLocks
          /\ UNCHANGED <<tasks, receipt, plan, retired, purged>>
          /\ IF journal[r].records = "none" THEN Append(a, "preparing") ELSE UNCHANGED journal
      BY <1>3 DEF Create, IsRetired, Runs
    <2>2. lock[r] = a
      BY <1>1, <2>1 DEF ActorInv, LockInv, At, Evicted, IsRetired, NotRetired
    <2>3. "working" \in PC /\ "preparing" \in Phase
      BY DEF PC, Phase
    <2>4. /\ actor'[a].pc = "working" /\ actor'[a].req = r /\ actor'[a].cmd = "create"
      BY <1>1, <2>1, <2>3, GotoKept DEF Req
    <2>5. /\ JournalOK' /\ Recorded(r)'
          /\ \A q \in Requirement \ {r} : journal'[q] = journal[q]
          /\ SameRow(a, r) \/ (Guarantee(a, r) /\ RowInv(r)' /\ Successor(r))
      <3>1. CASE journal[r].records = "none"
        <4>1. Append(a, "preparing")
          BY <3>1, <2>1
        <4>2. /\ JournalOK' /\ \A q \in Requirement \ {r} : journal'[q] = journal[q]
              /\ journal'[r].records = "whole" /\ journal'[r].phase = "preparing"
              /\ journal'[r].seq = journal[r].seq + 1
          BY <4>1, <1>1, <2>3, AppendKept
        <4>3. tasks[r] = "none"
          BY <3>1, <1>1, <2>1 DEF RowInv, JournalInv, TaskInv
        <4>4. Guarantee(a, r) /\ RowInv(r)' /\ Successor(r)
          BY <2>1, <2>2, <4>2, <4>3, AppendRow DEF UnchangedLocks
        <4> QED  BY <4>2, <4>4 DEF Recorded
      <3>2. CASE journal[r].records # "none"
        <4>1. journal' = journal /\ Recorded(r)
          BY <3>2, <2>1, <1>1 DEF Recorded, TypeOK
        <4>2. JournalOK'
          BY <4>1, <1>1, JournalType DEF JournalOK
        <4>3. SameRow(a, r)
          BY <4>1, <2>1 DEF SameRow, SameJournal, UnchangedLocks
        <4> QED  BY <4>1, <4>2, <4>3 DEF Recorded
      <3> QED  BY <3>1, <3>2
    <2>6. TypeOK'
      <3>1. lock' \in [Requirement -> Actor \cup {None}] /\ purging' \in [Requirement -> Actor \cup {None}]
        BY <1>1, <2>1 DEF TypeOK, UnchangedLocks
      <3> QED  BY <1>1, <2>1, <2>3, <2>5, <3>1, GotoKept, JournalType
    <2>7. \A q \in Requirement \ {r} : SameRow(a, q)
      BY <2>1, <2>5 DEF SameRow, SameJournal, UnchangedLocks
    <2>8. ActorInv(a)' /\ Entry(a)
      BY <2>1, <2>2, <2>4, <2>5 DEF ActorInv, LockInv, DeleteInv, FenceInv, Req, LiveWriter,
         Sealing, Purging, IsRetired, UnchangedLocks, Entry, Recorded
    <2> QED  BY <1>1, <2>1, <2>3, <2>5, <2>6, <2>7, <2>8, GotoKept, OneRowStep
  <1> QED  BY <1>2, <1>3

\* One checkpoint of _advance, with the Tasks that engineering makes.
LEMMA AdvanceStep ==
  ASSUME RemovalInv, NEW a \in Actor, NEW phase \in Phase, UNCHANGED calm, Advance(a, phase)
  PROVE  StepOK(a)
  <1>1. TypeOK /\ ActorInv(a) /\ actor[a].pc = "working" /\ \A q \in Requirement : RowInv(q)
    BY DEF RemovalInv, Advance, At
  <1> PICK r \in Requirement : r = Req(a)
    BY <1>1 DEF ActorInv, LockInv
  <1>2. lock[r] = a /\ ~IsRetired(r)
    BY <1>1 DEF ActorInv, LockInv, LiveWriter
  <1>3. /\ JournalOK' /\ \A q \in Requirement \ {r} : journal'[q] = journal[q]
        /\ journal'[r].records = "whole" /\ journal'[r].phase = phase
        /\ journal'[r].seq = journal[r].seq + 1
    BY <1>1, AppendKept DEF Advance
  <1>4. /\ phase \in Successors(journal[r].phase)
        /\ UNCHANGED <<receipt, plan, retired, purged, lock, purging, actor>>
        /\ \/ tasks' = tasks
           \/ journal[r].phase = "engineering" /\ tasks' = [tasks EXCEPT ![r] = "open"]
    BY DEF Advance
  <1>5. /\ tasks' \in [Requirement -> TaskState] /\ tasks'[r] \in {tasks[r], "open"}
        /\ \A q \in Requirement \ {r} : tasks'[q] = tasks[q]
        /\ journal[r].phase # "engineering" => tasks'[r] = tasks[r]
    <2>1. tasks \in [Requirement -> TaskState] /\ "open" \in TaskState
      BY <1>1 DEF TypeOK, TaskState
    <2>2. CASE tasks' = tasks
      BY <2>1, <2>2
    <2>3. CASE journal[r].phase = "engineering" /\ tasks' = [tasks EXCEPT ![r] = "open"]
      BY <2>1, <2>3
    <2> QED  BY <1>4, <2>2, <2>3
  <1>6. /\ phase \in {"preparing", "ready", "draft"} => tasks'[r] = "none"
        /\ phase # "closed"
    BY <1>1, <1>2, <1>4, <1>5 DEF Successors, RowInv, TaskInv, TypeOK, Phase
  <1>7. Guarantee(a, r) /\ RowInv(r)' /\ Successor(r)
    BY <1>2, <1>3, <1>4, <1>5, <1>6, AppendRow
  <1>8. TypeOK'
    BY <1>1, <1>3, <1>4, <1>5 DEF TypeOK, JournalOK, JournalRec
  <1>9. \A q \in Requirement \ {r} : SameRow(a, q)
    BY <1>3, <1>4, <1>5 DEF SameRow, SameJournal
  <1>10. ActorInv(a)' /\ Entry(a)
    BY <1>1, <1>2, <1>3, <1>4 DEF ActorInv, LockInv, DeleteInv, FenceInv, Req, LiveWriter,
       Sealing, Purging, IsRetired, Entry, Writing
  <1> QED  BY <1>4, <1>7, <1>8, <1>9, <1>10, OneRowStep

\* A checkpoint is the last thing a close and a restart write.
LEMMA LastAppendStep ==
  ASSUME RemovalInv, NEW a \in Actor, UNCHANGED calm, CloseSaves(a) \/ Restart(a)
  PROVE  StepOK(a)
  <1>1. TypeOK /\ ActorInv(a) /\ actor[a].pc \in {"close", "locked"}
    BY DEF RemovalInv, CloseSaves, Restart, At, Runs
  <1> PICK r \in Requirement : r = Req(a)
    BY <1>1 DEF ActorInv, LockInv
  <1>2. CASE Refuse(a)
    BY <1>2, RefuseStep DEF Refuse
  <1>3. CASE ~Refuse(a)
    <2>1. PICK phase \in {"closed", "stopped"} :
             /\ Append(a, phase) /\ End(a) /\ UNCHANGED <<tasks, receipt, plan, retired, purged>>
             /\ phase = "closed" => actor[a].pc = "close"
             /\ phase = "stopped" => Current(r)
      BY <1>3 DEF CloseSaves, Restart, At
    <2>2. phase \in Phase
      BY DEF Phase
    <2>3. lock[r] = a /\ ~IsRetired(r)
      BY <1>1, <2>1 DEF ActorInv, LockInv, LiveWriter, Current, IsRetired, Evicted, NotRetired
    <2>4. phase = "closed" => tasks[r] \notin {"open", "leased"}
      BY <1>1, <2>1 DEF ActorInv, FenceInv
    <2>5. /\ JournalOK' /\ \A q \in Requirement \ {r} : journal'[q] = journal[q]
          /\ journal'[r].records = "whole" /\ journal'[r].phase = phase
          /\ journal'[r].seq = journal[r].seq + 1
      BY <1>1, <2>1, <2>2, AppendKept
    <2>6. /\ \A q \in Requirement : /\ lock[q] = a \/ lock'[q] = lock[q]
                                    /\ purging[q] = a \/ purging'[q] = purging[q]
      BY <1>1, <2>1, EndKept
    <2>7. Guarantee(a, r) /\ RowInv(r)' /\ Successor(r)
      BY <2>1, <2>3, <2>4, <2>5, <2>6, AppendRow
    <2>8. \A q \in Requirement \ {r} : SameRow(a, q)
      BY <2>1, <2>5, <2>6 DEF SameRow, SameJournal
    <2>9. TypeOK'
      BY <1>1, <2>1, <2>5, EndKept, JournalType
    <2> QED  BY <1>1, <2>1, <2>7, <2>8, <2>9, EndKept, OneRowStep
  <1> QED  BY <1>2, <1>3

\* Close and delete settle the Tasks of a Requirement that is not retired.
LEMMA SettleStep ==
  ASSUME RemovalInv, NEW a \in Actor, UNCHANGED calm, CloseSettles(a) \/ DeleteSettles(a)
  PROVE  StepOK(a)
  <1>1. /\ TypeOK /\ ActorInv(a) /\ actor[a].pc \in {"settle", "deleteSettle"}
        /\ \A q \in Requirement : RowInv(q)
    BY DEF RemovalInv, CloseSettles, DeleteSettles, At
  <1> PICK r \in Requirement : r = Req(a)
    BY <1>1 DEF ActorInv, LockInv
  <1>2. PICK p \in {"close", "seal"} :
           /\ Goto(a, p) /\ (p = "seal" <=> actor[a].pc = "deleteSettle")
           /\ tasks' = [tasks EXCEPT ![r] = "settled"]
           /\ UnchangedLocks /\ UNCHANGED <<journal, receipt, plan, retired, purged>>
    BY DEF CloseSettles, DeleteSettles, Settled, At
  <1>3. p \in PC
    BY DEF PC
  <1>4. lock[r] = a /\ ~IsRetired(r) /\ tasks[r] \notin {"none", "leased"} /\ RowInv(r)
    BY <1>1 DEF ActorInv, LockInv, FenceInv, LiveWriter
  <1>5. /\ actor'[a].pc = p /\ actor'[a].cmd = actor[a].cmd
        /\ actor'[a].req = r /\ actor'[a].by = actor[a].by
        /\ actor'[a].expect = actor[a].expect
    BY <1>1, <1>2, <1>3, GotoKept DEF Req
  <1>6. /\ tasks' \in [Requirement -> TaskState] /\ tasks'[r] = "settled"
        /\ \A q \in Requirement \ {r} : tasks'[q] = tasks[q]
    BY <1>1, <1>2 DEF TypeOK, TaskState
  <1>7. TypeOK'
    BY <1>1, <1>2, <1>3, <1>6, GotoKept DEF TypeOK, UnchangedLocks
  <1>8. \A q \in Requirement \ {r} : SameRow(a, q)
    BY <1>2, <1>6 DEF SameRow, SameJournal, UnchangedLocks
  <1>9. Guarantee(a, r) /\ RowInv(r)' /\ Successor(r)
    BY <1>2, <1>4, <1>6 DEF Guarantee, RowInv, JournalInv, TaskInv, Successor, IsRetired, Recorded,
       Evicted, UnchangedLocks
  <1>10. ActorInv(a)' /\ Entry(a)
    BY <1>1, <1>2, <1>4, <1>5, <1>6 DEF ActorInv, LockInv, DeleteInv, FenceInv, Req, LiveWriter,
       Sealing, Purging, IsRetired, Entry, Recorded, Writing, UnchangedLocks
  <1> QED  BY <1>1, <1>2, <1>3, <1>7, <1>8, <1>9, <1>10, GotoKept, OneRowStep

\* delete_requirement passes its checks with the lock and the displayed checkpoint.
LEMMA DeleteChecksStep ==
  ASSUME RemovalInv, NEW a \in Actor, UNCHANGED calm, DeleteChecks(a)
  PROVE  StepOK(a)
  <1>1. /\ TypeOK /\ ActorInv(a) /\ actor[a].pc = "locked" /\ actor[a].cmd = "delete"
        /\ \A q \in Requirement : RowInv(q)
    BY DEF RemovalInv, DeleteChecks, Runs
  <1> PICK r \in Requirement : r = Req(a)
    BY <1>1 DEF ActorInv, LockInv
  <1>2. CASE ~Refuse(a)
    <2> DEFINE p == IF tasks[r] = "open" THEN "deleteSettle" ELSE "seal"
    <2>1. /\ p \in PC /\ Goto(a, p) /\ Recorded(r) /\ journal[r].seq = actor[a].expect
          /\ tasks[r] \in {"none", "open", "settled"}
          /\ UnchangedLocks /\ UNCHANGED <<journal, tasks, plan, retired, purged>>
          /\ receipt' \in {receipt, [receipt EXCEPT ![r] = ReceiptFor(r, "delete")]}
      BY <1>2 DEF DeleteChecks, PC
    <2>2. /\ actor'[a].pc = p /\ actor'[a].cmd = "delete" /\ actor'[a].req = r
          /\ actor'[a].expect = actor[a].expect
      BY <1>1, <2>1, GotoKept DEF Req
    <2>3. lock[r] = a /\ (IsRetired(r) => tasks[r] # "open")
      BY <1>1, <2>1 DEF ActorInv, LockInv, Evicted, RowInv, TaskInv
    <2>4. ActorInv(a)'
      BY <1>1, <2>1, <2>2, <2>3 DEF ActorInv, LockInv, DeleteInv, FenceInv, Req, LiveWriter,
         Sealing, Purging, IsRetired, Recorded, UnchangedLocks
    <2>5. Entry(a)
      BY <2>1, <2>2, <2>3 DEF Entry, Recorded, UnchangedLocks
    <2> HIDE DEF p
    <2> QED  BY <1>1, <2>1, <2>4, <2>5, ReceiptType, GotoStep
  <1> QED  BY <1>2, RefuseStep DEF Refuse

\* The plan is sealed for the checkpoint that was checked, or stays as it is.
LEMMA SealStep ==
  ASSUME RemovalInv, NEW a \in Actor, UNCHANGED calm, Seal(a)
  PROVE  StepOK(a)
  <1>1. /\ TypeOK /\ ActorInv(a) /\ actor[a].pc = "seal" /\ \A q \in Requirement : RowInv(q)
    BY DEF RemovalInv, Seal, At
  <1> PICK r \in Requirement : r = Req(a)
    BY <1>1 DEF ActorInv, LockInv
  <1>2. CASE ~Refuse(a)
    <2>1. /\ "retire" \in PC /\ Goto(a, "retire") /\ plan[r] \in {0, journal[r].seq}
          /\ plan' = [plan EXCEPT ![r] = journal[r].seq]
          /\ UnchangedLocks /\ UNCHANGED <<journal, tasks, receipt, retired, purged>>
      BY <1>2 DEF Seal, PC
    <2>2. /\ actor'[a].pc = "retire" /\ actor'[a].cmd = actor[a].cmd /\ actor'[a].req = r
          /\ actor'[a].expect = actor[a].expect /\ actor'[a].by = actor[a].by
      BY <1>1, <2>1, GotoKept DEF Req
    <2>3. /\ plan' \in [Requirement -> 0 .. MaxSeq] /\ plan'[r] = journal[r].seq
          /\ \A q \in Requirement \ {r} : plan'[q] = plan[q]
      BY <1>1, <2>1 DEF TypeOK
    <2>4. /\ lock[r] = a \/ Evicted(r)
          /\ tasks[r] \notin {"open", "leased"}
          /\ Recorded(r) \/ IsRetired(r)
          /\ actor[a].cmd = "delete"
          /\ journal[r].seq # 0 => journal[r].seq = actor[a].expect
      BY <1>1 DEF ActorInv, LockInv, DeleteInv, FenceInv, Sealing
    <2>5. TypeOK'
      BY <1>1, <2>1, <2>3, GotoKept DEF TypeOK, UnchangedLocks
    <2>6. \A q \in Requirement \ {r} : SameRow(a, q)
      BY <2>1, <2>3 DEF SameRow, SameJournal, UnchangedLocks
    <2>7. RowInv(r)'
      <3>1. journal[r].seq \in Nat /\ RowInv(r)
        BY <1>1 DEF TypeOK
      <3> QED
        BY <2>1, <2>3, <2>4, <3>1 DEF RowInv, JournalInv, TaskInv, IsRetired, Recorded
    <2>8. Guarantee(a, r) /\ Successor(r)
      BY <1>1, <2>1, <2>3, <2>4 DEF Guarantee, Successor, IsRetired, Recorded, Evicted, UnchangedLocks,
         NotRetired, SameJournal
    <2>9. ActorInv(a)' /\ Entry(a)
      BY <1>1, <2>1, <2>2, <2>3, <2>4 DEF ActorInv, LockInv, DeleteInv, FenceInv, Req,
         LiveWriter, Sealing, Purging, IsRetired, Entry, Recorded, Evicted, Writing, UnchangedLocks
    <2> QED  BY <1>1, <2>1, <2>5, <2>6, <2>7, <2>8, <2>9, GotoKept, OneRowStep
  <1> QED  BY <1>2, RefuseStep DEF Refuse

\* An entry of retirement.json: who holds the lock adds it, and an entry that exists
\* keeps its checkpoint.
LEMMA RetireRow ==
  ASSUME RemovalInv, NEW a \in Actor, NEW r \in Requirement,
         NEW reason \in {"deleted", "replaced"}, NEW w \in Requirement \cup {None},
         Retire(r, reason, w), UNCHANGED <<journal, tasks, plan, purged>>,
         journal[r].seq # 0, tasks[r] \notin {"open", "leased"}, lock[r] = a \/ IsRetired(r),
         reason = "replaced" => w \in Requirement /\ ~IsRetired(r) /\ Recorded(w),
         lock[r] \in {a, None} \/ lock'[r] = lock[r],
         purging[r] \in {a, None} \/ purging'[r] = purging[r]
  PROVE  /\ Guarantee(a, r) /\ RowInv(r)' /\ Successor(r)
         /\ retired' \in [Requirement -> [reason : {"none", "deleted", "replaced"},
                                          seq : 0 .. MaxSeq, by : Requirement \cup {None}]]
         /\ retired'[r].reason = reason /\ retired'[r].seq = journal[r].seq
         /\ \A q \in Requirement \ {r} : retired'[q] = retired[q]
  <1> DEFINE x == [reason |-> reason, seq |-> journal[r].seq, by |-> w]
             T == [reason : {"none", "deleted", "replaced"},
                   seq : 0 .. MaxSeq, by : Requirement \cup {None}]
  <1>1. TypeOK /\ RowInv(r) /\ retired \in [Requirement -> T] /\ journal[r].seq \in 0 .. MaxSeq
    BY DEF RemovalInv, TypeOK
  <1>2. x \in T /\ x.reason = reason /\ x.seq = journal[r].seq /\ x.by = w
    BY <1>1
  <1>3. retired' = [retired EXCEPT ![r] = x]
    BY DEF Retire
  <1> HIDE DEF x, T
  <1>4. /\ retired' \in [Requirement -> T] /\ retired'[r] = x
        /\ \A q \in Requirement \ {r} : retired'[q] = retired[q]
    BY <1>1, <1>2, <1>3
  <1>5. IsRetired(r)'
    BY <1>2, <1>4 DEF IsRetired, NotRetired
  <1>6. RowInv(r)'
    <2>1. JournalInv(r)'
      BY <1>1, <1>2, <1>4, <1>5 DEF RowInv, JournalInv, IsRetired, Recorded, NotRetired
    <2>2. TaskInv(r)'
      BY <1>1, <1>2, <1>4, <1>5 DEF RowInv, JournalInv, TaskInv, IsRetired, Recorded, NotRetired
    <2> QED  BY <2>1, <2>2 DEF RowInv
  <1>7. Guarantee(a, r)
    BY <1>1, <1>2, <1>4, <1>5 DEF Guarantee, RowInv, JournalInv, IsRetired, Recorded, NotRetired
  <1>8. Successor(r)
    BY <1>2, <1>4 DEF Successor, Recorded
  <1> QED  BY <1>2, <1>4, <1>6, <1>7, <1>8 DEF T

\* The retirement of a deletion: with the sealed plan, or again by a retry.
LEMMA RetireStep ==
  ASSUME RemovalInv, NEW a \in Actor, UNCHANGED calm, RetireDeleted(a) \/ Revoke(a)
  PROVE  StepOK(a)
  <1>1. /\ TypeOK /\ ActorInv(a) /\ actor[a].pc \in {"retire", "locked"}
        /\ \A q \in Requirement : RowInv(q)
    BY DEF RemovalInv, RetireDeleted, Revoke, At, Runs
  <1> PICK r \in Requirement : r = Req(a)
    BY <1>1 DEF ActorInv, LockInv
  <1>2. CASE ~Refuse(a)
    <2>1. /\ "purge" \in PC /\ Goto(a, "purge") /\ Retire(r, "deleted", None)
          /\ UNCHANGED <<journal, tasks, receipt, plan, purged, purging>>
      BY <1>2 DEF RetireDeleted, Revoke, PC, UnchangedLocks
    <2>2. /\ actor'[a].pc = "purge" /\ actor'[a].cmd = actor[a].cmd /\ actor'[a].req = r
          /\ actor'[a].expect = actor[a].expect /\ actor'[a].by = actor[a].by
      BY <1>1, <2>1, GotoKept DEF Req
    <2>3. /\ journal[r].seq # 0 /\ journal[r].seq = actor[a].expect
          /\ tasks[r] \notin {"open", "leased"} /\ actor[a].cmd \in {"delete", "revoke"}
          /\ lock[r] = a \/ IsRetired(r)
          /\ lock' \in [Requirement -> Actor \cup {None}]
          /\ \A q \in Requirement \ {r} : lock'[q] = lock[q]
          /\ lock[r] = a \/ lock'[r] = lock[r]
      <3>1. CASE RetireDeleted(a)
        <4>1. actor[a].pc = "retire" /\ (retired[r] = NotRetired \/ retired[r].seq = journal[r].seq)
          BY <3>1, <1>2 DEF RetireDeleted, At
        <4>2. journal[r].seq # 0
          BY <4>1, <1>1 DEF ActorInv, DeleteInv, Sealing, RowInv, JournalInv, IsRetired
        <4>3. lock' = lock
          BY <3>1, <1>2 DEF RetireDeleted, UnchangedLocks
        <4>4. lock[r] = a \/ IsRetired(r)
          BY <4>1, <1>1 DEF ActorInv, LockInv, Sealing, Evicted, IsRetired, NotRetired
        <4>5. journal[r].seq = actor[a].expect /\ tasks[r] \notin {"open", "leased"}
          BY <4>1, <4>2, <1>1 DEF ActorInv, DeleteInv, FenceInv, Sealing
        <4>6. actor[a].cmd = "delete"
          BY <4>1, <1>1 DEF ActorInv, DeleteInv, Sealing
        <4>7. lock' \in [Requirement -> Actor \cup {None}]
          BY <4>3, <1>1 DEF TypeOK
        <4> QED  BY <4>2, <4>3, <4>4, <4>5, <4>6, <4>7
      <3>2. CASE Revoke(a)
        <4>1. /\ actor[a].pc = "locked" /\ actor[a].cmd = "revoke" /\ Recorded(r)
              /\ journal[r].seq = actor[a].expect /\ lock' = [lock EXCEPT ![r] = None]
          BY <3>2, <1>2 DEF Revoke, Runs
        <4>2. lock[r] = a
          BY <4>1, <1>1 DEF ActorInv, LockInv, Evicted
        <4>3. actor[a].expect # 0 /\ tasks[r] \notin {"open", "leased"}
          BY <4>1, <1>1 DEF ActorInv, DeleteInv, RowInv, TaskInv
        <4>4. /\ lock' \in [Requirement -> Actor \cup {None}]
              /\ \A q \in Requirement \ {r} : lock'[q] = lock[q]
          BY <4>1, <1>1 DEF TypeOK
        <4> QED  BY <4>1, <4>2, <4>3, <4>4
      <3> QED  BY <3>1, <3>2
    <2>4. /\ Guarantee(a, r) /\ RowInv(r)' /\ Successor(r)
          /\ retired' \in [Requirement -> [reason : {"none", "deleted", "replaced"},
                                           seq : 0 .. MaxSeq, by : Requirement \cup {None}]]
          /\ retired'[r].reason = "deleted" /\ retired'[r].seq = journal[r].seq
          /\ \A q \in Requirement \ {r} : retired'[q] = retired[q]
      BY <2>1, <2>3, RetireRow
    <2>5. TypeOK'
      BY <1>1, <2>1, <2>3, <2>4, GotoKept DEF TypeOK
    <2>6. \A q \in Requirement \ {r} : SameRow(a, q)
      BY <2>1, <2>3, <2>4 DEF SameRow, SameJournal
    <2>7. ActorInv(a)' /\ Entry(a)
      BY <1>1, <2>1, <2>2, <2>3, <2>4 DEF ActorInv, LockInv, DeleteInv, FenceInv, Req,
         LiveWriter, Sealing, Purging, Entry, Writing, IsRetired, NotRetired
    <2> QED  BY <1>1, <2>1, <2>4, <2>5, <2>6, <2>7, GotoKept, OneRowStep
  <1> QED  BY <1>2, RefuseStep DEF Refuse

\* update_requirement retires the old draft while it holds both locks.
LEMMA ReplaceRetiresStep ==
  ASSUME RemovalInv, NEW a \in Actor, UNCHANGED calm, ReplaceRetires(a)
  PROVE  StepOK(a)
  <1>1. /\ TypeOK /\ ActorInv(a) /\ actor[a].pc = "replace" /\ End(a)
        /\ \A q \in Requirement : RowInv(q)
    BY DEF RemovalInv, ReplaceRetires, At
  <1> PICK r \in Requirement : r = Req(a)
    BY <1>1 DEF ActorInv, LockInv
  <1> PICK w \in Requirement : w = actor[a].by
    BY <1>1 DEF ActorInv, LockInv
  <1>2. /\ Retire(r, "replaced", w) /\ UNCHANGED <<journal, tasks, receipt, plan, purged>>
    BY DEF ReplaceRetires
  <1>3. /\ lock[r] = a /\ ~IsRetired(r) /\ Recorded(r) /\ Recorded(w)
        /\ journal[r].phase = "ready"
    BY <1>1 DEF ActorInv, LockInv, LiveWriter
  <1>4. journal[r].seq # 0 /\ tasks[r] \notin {"open", "leased"}
    BY <1>1, <1>3 DEF RowInv, JournalInv, TaskInv
  <1>5. \A q \in Requirement : /\ lock[q] = a \/ lock'[q] = lock[q]
                               /\ purging[q] = a \/ purging'[q] = purging[q]
    BY <1>1, EndKept
  <1>6. /\ Guarantee(a, r) /\ RowInv(r)' /\ Successor(r)
        /\ retired' \in [Requirement -> [reason : {"none", "deleted", "replaced"},
                                         seq : 0 .. MaxSeq, by : Requirement \cup {None}]]
        /\ \A q \in Requirement \ {r} : retired'[q] = retired[q]
    BY <1>2, <1>3, <1>4, <1>5, RetireRow
  <1>7. TypeOK'
    BY <1>1, <1>2, <1>6, EndKept DEF TypeOK
  <1>8. \A q \in Requirement \ {r} : SameRow(a, q)
    BY <1>2, <1>5, <1>6 DEF SameRow, SameJournal
  <1> QED  BY <1>1, <1>6, <1>7, <1>8, EndKept, OneRowStep

\* _intake of the edited draft: the other journal is locked, and begun if it is new.
LEMMA IntakeStep ==
  ASSUME RemovalInv, NEW a \in Actor, UNCHANGED calm, Intake(a)
  PROVE  StepOK(a)
  <1>1. /\ TypeOK /\ ActorInv(a) /\ actor[a].pc = "intake"
        /\ \A q \in Requirement : RowInv(q)
    BY DEF RemovalInv, Intake, At
  <1> PICK r \in Requirement : r = Req(a)
    BY <1>1 DEF ActorInv, LockInv
  <1> PICK w \in Requirement : w = actor[a].by
    BY <1>1 DEF ActorInv, LockInv
  <1>2. /\ lock[r] = a /\ ~IsRetired(r) /\ Recorded(r) /\ journal[r].phase = "ready"
        /\ actor[a].cmd = "replace" /\ a # None
    BY <1>1, RemovalConstants DEF ActorInv, LockInv, LiveWriter
  <1>3. UNCHANGED <<tasks, receipt, plan, retired, purged>>
    BY DEF Intake
  <1>4. CASE End(a) /\ journal' = [journal EXCEPT ![w].dir = TRUE, ![w].lockfile = TRUE]
    <2>1. JournalOK' /\ \A q \in Requirement : SameJournal(q)
      BY <1>1, <1>4, LockFileMade
    <2>2. TypeOK'
      BY <1>1, <1>3, <1>4, <2>1, EndKept, JournalType
    <2>3. \A q \in Requirement : SameRow(a, q)
      BY <1>1, <1>3, <1>4, <2>1, EndKept DEF SameRow
    <2> QED  BY <1>1, <1>4, <2>2, <2>3, EndKept, NoRowStep
  <1>5. CASE ~(End(a) /\ journal' = [journal EXCEPT ![w].dir = TRUE, ![w].lockfile = TRUE])
    <2> DEFINE p == IF Recorded(w) THEN "replace" ELSE "prepare"
               y == IF Recorded(w) THEN [journal[w] EXCEPT !.lockfile = TRUE]
                    ELSE [NoJournal EXCEPT !.dir = TRUE, !.lockfile = TRUE,
                                           !.records = "whole", !.seq = 1]
    <2>1. /\ lock[w] = None /\ ~IsRetired(w) /\ (Recorded(w) => journal[w].phase = "ready")
          /\ journal' = [journal EXCEPT ![w] = y] /\ Goto(a, p)
          /\ lock' = [lock EXCEPT ![w] = a] /\ UNCHANGED purging
      BY <1>5 DEF Intake, IsRetired
    <2>2. p \in PC /\ r # w
      BY <1>2, <2>1 DEF PC
    <2>3. /\ y \in JournalRec /\ y.records = "whole" /\ y.dir
          /\ Recorded(w) => y.seq = journal[w].seq /\ y.phase = journal[w].phase
          /\ ~Recorded(w) => y.seq = 1 /\ y.phase = "preparing"
      <3>1. journal[w] \in JournalRec /\ (Recorded(w) => journal[w].dir)
        BY <1>1, JournalType DEF JournalOK, Recorded
      <3>2. CASE Recorded(w)
        BY <3>1, <3>2 DEF JournalRec, Recorded
      <3>3. CASE ~Recorded(w)
        <4>1. 1 \in 0 .. MaxSeq /\ "preparing" \in Phase
          BY RemovalConstants DEF Phase
        <4>2. y = [dir |-> TRUE, lockfile |-> TRUE, records |-> "whole", seq |-> 1,
                   phase |-> "preparing", closed |-> {}]
          BY <3>3 DEF NoJournal
        <4> HIDE DEF y
        <4> QED  BY <3>3, <4>1, <4>2 DEF JournalRec
      <3> QED  BY <3>2, <3>3
    <2> HIDE DEF y
    <2>4. /\ JournalOK' /\ journal'[w] = y
          /\ \A q \in Requirement \ {w} : journal'[q] = journal[q]
      BY <1>1, <2>1, <2>3, JournalWrite
    <2>5. /\ lock' \in [Requirement -> Actor \cup {None}] /\ lock'[w] = a
          /\ \A q \in Requirement \ {w} : lock'[q] = lock[q]
      BY <1>1, <2>1 DEF TypeOK
    <2>6. TypeOK'
      <3>1. purging' \in [Requirement -> Actor \cup {None}]
        BY <1>1, <2>1 DEF TypeOK
      <3> HIDE DEF p
      <3> QED  BY <1>1, <1>3, <2>1, <2>2, <2>4, <2>5, <3>1, GotoKept, JournalType
    <2>7. /\ actor'[a].pc = p /\ actor'[a].cmd = "replace" /\ actor'[a].req = r
          /\ actor'[a].by = w
      BY <1>1, <1>2, <2>1, <2>2, GotoKept DEF Req
    <2>8. \A q \in Requirement \ {w} : SameRow(a, q)
      BY <1>3, <2>1, <2>4, <2>5 DEF SameRow, SameJournal
    <2>9. RowInv(w)'
      <3>1. RowInv(w) /\ plan[w] \in Nat /\ retired[w].reason = "none"
        BY <1>1, <2>1 DEF TypeOK, IsRetired, NotRetired
      <3> QED
        BY <1>3, <2>1, <2>3, <2>4, <3>1 DEF RowInv, JournalInv, TaskInv, IsRetired, Recorded
    <2>10. Guarantee(a, w) /\ Successor(w)
      BY <1>3, <2>1, <2>3, <2>4 DEF Guarantee, Successor, IsRetired, Recorded
    <2>11. ActorInv(a)' /\ Entry(a)
      <3>1. journal'[r] = journal[r] /\ lock'[r] = a /\ retired' = retired
        BY <1>2, <1>3, <2>2, <2>4, <2>5
      <3> QED
        BY <1>2, <2>1, <2>2, <2>3, <2>4, <2>5, <2>7, <3>1 DEF ActorInv, LockInv, DeleteInv,
           FenceInv, Req, LiveWriter, Sealing, Purging, Entry, Recorded, IsRetired
    <2> HIDE DEF p
    <2> QED  BY <1>1, <2>1, <2>2, <2>6, <2>8, <2>9, <2>10, <2>11, GotoKept, OneRowStep
  <1> QED  BY <1>4, <1>5

\* The edited draft becomes ready, or is withdrawn.
LEMMA PrepareStep ==
  ASSUME RemovalInv, NEW a \in Actor, UNCHANGED calm, Prepare(a)
  PROVE  StepOK(a)
  <1>1. /\ TypeOK /\ ActorInv(a) /\ actor[a].pc = "prepare"
        /\ \A q \in Requirement : RowInv(q)
    BY DEF RemovalInv, Prepare, At
  <1> PICK r \in Requirement : r = Req(a)
    BY <1>1 DEF ActorInv, LockInv
  <1> PICK w \in Requirement : w = actor[a].by
    BY <1>1 DEF ActorInv, LockInv
  <1>2. /\ lock[r] = a /\ ~IsRetired(r) /\ Recorded(r) /\ journal[r].phase = "ready"
        /\ lock[w] = a /\ ~IsRetired(w) /\ Recorded(w)
        /\ journal[w].seq = 1 /\ journal[w].phase = "preparing"
        /\ actor[a].cmd = "replace" /\ r # w
    BY <1>1 DEF ActorInv, LockInv, LiveWriter
  <1>3. tasks[w] = "none"
    BY <1>1, <1>2 DEF RowInv, TaskInv
  <1>4. CASE Retire(w, "deleted", None) /\ End(a) /\ UNCHANGED journal
    <2>1. UNCHANGED <<journal, tasks, receipt, plan, purged>>
      BY <1>4 DEF Prepare
    <2>2. \A q \in Requirement : /\ lock[q] = a \/ lock'[q] = lock[q]
                                 /\ purging[q] = a \/ purging'[q] = purging[q]
      BY <1>1, <1>4, EndKept
    <2>3. /\ Guarantee(a, w) /\ RowInv(w)' /\ Successor(w)
          /\ retired' \in [Requirement -> [reason : {"none", "deleted", "replaced"},
                                           seq : 0 .. MaxSeq, by : Requirement \cup {None}]]
          /\ \A q \in Requirement \ {w} : retired'[q] = retired[q]
      BY <1>2, <1>3, <1>4, <2>1, <2>2, RetireRow
    <2>4. TypeOK'
      BY <1>1, <1>4, <2>1, <2>3, EndKept DEF TypeOK
    <2>5. \A q \in Requirement \ {w} : SameRow(a, q)
      BY <2>1, <2>2, <2>3 DEF SameRow, SameJournal
    <2> QED  BY <1>1, <1>4, <2>3, <2>4, <2>5, EndKept, OneRowStep
  <1>5. CASE /\ journal' = [journal EXCEPT ![w].seq = 2, ![w].phase = "ready"]
             /\ Goto(a, "replace") /\ UnchangedLocks /\ UNCHANGED retired
    <2> DEFINE y == [journal[w] EXCEPT !.seq = 2, !.phase = "ready"]
    <2>1. journal[w] \in JournalRec /\ journal[w].dir
      BY <1>1, <1>2, JournalType DEF JournalOK, Recorded
    <2>2. journal' = [journal EXCEPT ![w] = y]
      BY <1>5
    <2>3. y \in JournalRec /\ y.records = "whole" /\ y.dir /\ y.seq = 2 /\ y.phase = "ready"
      <3>1. 2 \in 0 .. MaxSeq /\ "ready" \in Phase
        BY RemovalConstants DEF Phase
      <3> QED  BY <1>2, <2>1, <3>1 DEF JournalRec, Recorded
    <2> HIDE DEF y
    <2>4. /\ JournalOK' /\ journal'[w] = y
          /\ \A q \in Requirement \ {w} : journal'[q] = journal[q]
      BY <1>1, <2>2, <2>3, JournalWrite
    <2>5. UNCHANGED <<tasks, receipt, plan, retired, purged>> /\ "replace" \in PC
      BY <1>5 DEF Prepare, PC
    <2>6. TypeOK'
      <3>1. lock' \in [Requirement -> Actor \cup {None}] /\ purging' \in [Requirement -> Actor \cup {None}]
        BY <1>1, <1>5 DEF TypeOK, UnchangedLocks
      <3> QED  BY <1>1, <1>5, <2>4, <2>5, <3>1, GotoKept, JournalType
    <2>7. /\ actor'[a].pc = "replace" /\ actor'[a].cmd = "replace" /\ actor'[a].req = r
          /\ actor'[a].by = w
      BY <1>1, <1>2, <1>5, <2>5, GotoKept DEF Req
    <2>8. \A q \in Requirement \ {w} : SameRow(a, q)
      BY <1>5, <2>4, <2>5 DEF SameRow, SameJournal, UnchangedLocks
    <2>9. Guarantee(a, w) /\ RowInv(w)' /\ Successor(w)
      <3>1. /\ journal'[w].records = "whole" /\ journal'[w].seq = journal[w].seq + 1
            /\ journal'[w].phase = "ready"
        BY <1>2, <2>3, <2>4
      <3>2. /\ plan'[w] = plan[w] /\ retired'[w] = retired[w] /\ purged'[w] = purged[w]
            /\ tasks'[w] = "none" /\ tasks[w] = "none" /\ purging'[w] = purging[w]
        BY <1>3, <1>5, <2>5 DEF UnchangedLocks
      <3> QED  BY <1>2, <3>1, <3>2, AppendRow
    <2>10. ActorInv(a)' /\ Entry(a)
      <3>1. journal'[r] = journal[r] /\ lock' = lock /\ retired' = retired
        BY <1>2, <1>5, <2>4, <2>5 DEF UnchangedLocks
      <3> QED
        BY <1>2, <2>3, <2>4, <2>7, <3>1 DEF ActorInv, LockInv, DeleteInv,
           FenceInv, Req, LiveWriter, Sealing, Purging, Entry, Recorded, IsRetired
    <2> QED  BY <1>1, <1>5, <2>5, <2>6, <2>8, <2>9, <2>10, GotoKept, OneRowStep
  <1> QED  BY <1>4, <1>5 DEF Prepare

\* A repeated deletion finds the completion and removes a plan that was left over.
LEMMA DeleteAgainStep ==
  ASSUME RemovalInv, NEW a \in Actor, UNCHANGED calm, DeleteAgain(a)
  PROVE  StepOK(a)
  <1>1. /\ TypeOK /\ ActorInv(a) /\ actor[a].pc = "begin" /\ End(a)
        /\ \A q \in Requirement : RowInv(q)
    BY DEF RemovalInv, DeleteAgain, At
  <1> PICK r \in Requirement : r = Req(a)
    BY <1>1 DEF ActorInv, LockInv
  <1>2. /\ purged[r] # 0 /\ UNCHANGED <<journal, tasks, receipt, retired, purged>>
        /\ plan' = plan \/ (purging[r] = None /\ plan' = [plan EXCEPT ![r] = 0])
    BY DEF DeleteAgain
  <1>3. /\ plan' \in [Requirement -> 0 .. MaxSeq]
        /\ plan'[r] = plan[r] \/ (purging[r] = None /\ plan'[r] = 0)
        /\ \A q \in Requirement \ {r} : plan'[q] = plan[q]
    <2>1. plan \in [Requirement -> 0 .. MaxSeq] /\ 0 \in 0 .. MaxSeq
      BY <1>1, RemovalConstants DEF TypeOK
    <2>2. CASE plan' = plan
      BY <2>1, <2>2
    <2>3. CASE purging[r] = None /\ plan' = [plan EXCEPT ![r] = 0]
      BY <2>1, <2>3
    <2> QED  BY <1>2, <2>2, <2>3
  <1>4. \A q \in Requirement : /\ lock[q] = a \/ lock'[q] = lock[q]
                               /\ purging[q] = a \/ purging'[q] = purging[q]
    BY <1>1, EndKept
  <1>5. TypeOK'
    BY <1>1, <1>2, <1>3, EndKept DEF TypeOK
  <1>6. \A q \in Requirement \ {r} : SameRow(a, q)
    BY <1>2, <1>3, <1>4 DEF SameRow, SameJournal
  <1>7. RowInv(r)'
    BY <1>1, <1>2, <1>3 DEF RowInv, JournalInv, TaskInv, IsRetired, Recorded
  <1>8. Guarantee(a, r) /\ Successor(r)
    <2>1. IsRetired(r)
      BY <1>1, <1>2 DEF RowInv, JournalInv, IsRetired, NotRetired
    <2> QED
      BY <1>2, <1>3, <1>4, <2>1 DEF Guarantee, Successor, IsRetired, Recorded
  <1> QED  BY <1>1, <1>5, <1>6, <1>7, <1>8, EndKept, OneRowStep

\* What the purger knows of the Requirement it destroys.
LEMMA PurgerKnows ==
  ASSUME RemovalInv, NEW a \in Actor, actor[a].pc \in {"purge"} \cup Purging
  PROVE  /\ TypeOK /\ Req(a) \in Requirement
         /\ actor[a].expect # 0 /\ actor[a].cmd \in {"delete", "revoke"}
         /\ retired[Req(a)].reason = "deleted" /\ retired[Req(a)].seq = actor[a].expect
         /\ IsRetired(Req(a)) /\ RowInv(Req(a)) /\ tasks[Req(a)] \notin {"open", "leased"}
         /\ actor[a].pc # "purge" => purging[Req(a)] = a
         /\ actor[a].pc \in Purging \ {"unplan"} => plan[Req(a)] = actor[a].expect
         /\ actor[a].pc = "unplan" => purged[Req(a)] = actor[a].expect
         /\ actor[a].pc \in {"rmdir", "publish", "unplan"} => journal[Req(a)].seq = 0
  <1>1. TypeOK /\ ActorInv(a)
    BY DEF RemovalInv
  <1>2. Req(a) \in Requirement
    BY <1>1 DEF ActorInv, LockInv, Purging
  <1>3. /\ actor[a].expect # 0 /\ actor[a].cmd \in {"delete", "revoke"}
        /\ retired[Req(a)].reason = "deleted" /\ retired[Req(a)].seq = actor[a].expect
        /\ actor[a].pc # "purge" => purging[Req(a)] = a
        /\ actor[a].pc \in Purging \ {"unplan"} => plan[Req(a)] = actor[a].expect
        /\ actor[a].pc = "unplan" => purged[Req(a)] = actor[a].expect
        /\ actor[a].pc \in {"rmdir", "publish", "unplan"} => journal[Req(a)].seq = 0
    BY <1>1 DEF ActorInv, DeleteInv
  <1>4. IsRetired(Req(a)) /\ RowInv(Req(a))
    BY <1>2, <1>3 DEF RemovalInv, IsRetired, NotRetired
  <1>5. tasks[Req(a)] \notin {"open", "leased"}
    BY <1>4 DEF RowInv, TaskInv
  <1> QED  BY <1>1, <1>2, <1>3, <1>4, <1>5

\* The purger takes the deletion lock and compares the plan.
LEMMA PurgeStartsStep ==
  ASSUME RemovalInv, NEW a \in Actor, UNCHANGED calm, PurgeStarts(a)
  PROVE  StepOK(a)
  <1>1. actor[a].pc \in {"purge"} \cup Purging /\ actor[a].pc = "purge"
    BY DEF PurgeStarts, At
  <1> PICK r \in Requirement : r = Req(a)
    BY <1>1, PurgerKnows
  <1>2. /\ TypeOK /\ actor[a].expect # 0 /\ actor[a].cmd \in {"delete", "revoke"}
        /\ retired[r].reason = "deleted" /\ retired[r].seq = actor[a].expect
        /\ IsRetired(r) /\ tasks[r] \notin {"open", "leased"}
    BY <1>1, PurgerKnows
  <1>3. CASE ~Refuse(a)
    <2>1. /\ "rows" \in PC /\ Goto(a, "rows") /\ purging[r] = None /\ plan[r] = actor[a].expect
          /\ purging' = [purging EXCEPT ![r] = a] /\ UNCHANGED lock /\ UnchangedDisk
      BY <1>3 DEF PurgeStarts, PC
    <2>2. /\ purging' \in [Requirement -> Actor \cup {None}] /\ purging'[r] = a
          /\ \A q \in Requirement \ {r} : purging'[q] = purging[q]
      BY <1>2, <2>1 DEF TypeOK
    <2>3. /\ actor'[a].pc = "rows" /\ actor'[a].cmd = actor[a].cmd /\ actor'[a].req = r
          /\ actor'[a].expect = actor[a].expect
      BY <1>2, <2>1, GotoKept DEF Req
    <2>4. TypeOK'
      BY <1>2, <2>1, <2>2, GotoKept DEF TypeOK, UnchangedDisk
    <2>5. \A q \in Requirement : SameRow(a, q)
      BY <2>1, <2>2 DEF SameRow, SameJournal, UnchangedDisk
    <2>6. ActorInv(a)' /\ Entry(a)
      BY <1>2, <2>1, <2>2, <2>3 DEF ActorInv, LockInv, DeleteInv, FenceInv, Req, LiveWriter,
         Sealing, Purging, Entry, Writing, UnchangedDisk, IsRetired
    <2> QED  BY <1>2, <2>1, <2>4, <2>5, <2>6, GotoKept, NoRowStep
  <1> QED  BY <1>3, RefuseStep DEF Refuse

\* The rows are deleted in one transaction.
LEMMA PurgeRowsStep ==
  ASSUME RemovalInv, NEW a \in Actor, UNCHANGED calm, PurgeRows(a)
  PROVE  StepOK(a)
  <1>1. actor[a].pc \in {"purge"} \cup Purging /\ actor[a].pc = "rows"
    BY DEF PurgeRows, At, Purging
  <1> PICK r \in Requirement : r = Req(a)
    BY <1>1, PurgerKnows
  <1>2. /\ TypeOK /\ actor[a].expect # 0 /\ actor[a].cmd \in {"delete", "revoke"}
        /\ retired[r].reason = "deleted" /\ retired[r].seq = actor[a].expect
        /\ IsRetired(r) /\ RowInv(r) /\ purging[r] = a /\ plan[r] = actor[a].expect
    BY <1>1, PurgerKnows DEF Purging
  <1>3. /\ "records" \in PC /\ Goto(a, "records")
        /\ tasks' = [tasks EXCEPT ![r] = IF tasks[r] = "none" THEN "none" ELSE "purged"]
        /\ UnchangedLocks /\ UNCHANGED <<journal, receipt, plan, retired, purged>>
    BY DEF PurgeRows, PC
  <1>4. /\ tasks' \in [Requirement -> TaskState] /\ tasks'[r] \in {"none", "purged"}
        /\ tasks'[r] \in {tasks[r], "purged"}
        /\ \A q \in Requirement \ {r} : tasks'[q] = tasks[q]
    BY <1>2, <1>3 DEF TypeOK, TaskState
  <1>5. /\ actor'[a].pc = "records" /\ actor'[a].cmd = actor[a].cmd /\ actor'[a].req = r
        /\ actor'[a].expect = actor[a].expect
    BY <1>2, <1>3, GotoKept DEF Req
  <1>6. TypeOK'
    BY <1>2, <1>3, <1>4, GotoKept DEF TypeOK, UnchangedLocks
  <1>7. \A q \in Requirement \ {r} : SameRow(a, q)
    BY <1>3, <1>4 DEF SameRow, SameJournal, UnchangedLocks
  <1>8. RowInv(r)' /\ Guarantee(a, r) /\ Successor(r)
    BY <1>2, <1>3, <1>4 DEF RowInv, JournalInv, TaskInv, Guarantee, Successor, IsRetired, Recorded,
       UnchangedLocks
  <1>9. ActorInv(a)' /\ Entry(a)
    BY <1>2, <1>3, <1>5 DEF ActorInv, LockInv, DeleteInv, FenceInv, Req, LiveWriter,
       Sealing, Purging, Entry, Writing, UnchangedLocks, IsRetired
  <1> QED  BY <1>2, <1>3, <1>6, <1>7, <1>8, <1>9, GotoKept, OneRowStep

\* The directory of a deleted Requirement is destroyed in three steps: its first
\* checkpoint, the other files and the lock file, the directory itself.
LEMMA PurgeFilesStep ==
  ASSUME RemovalInv, NEW a \in Actor, UNCHANGED calm,
         PurgeRecords(a) \/ PurgeUnlinks(a) \/ PurgeRmdir(a)
  PROVE  StepOK(a)
  <1>1. /\ actor[a].pc \in {"purge"} \cup Purging
        /\ actor[a].pc \in {"records", "unlink", "rmdir"}
    BY DEF PurgeRecords, PurgeUnlinks, PurgeRmdir, At, Purging
  <1> PICK r \in Requirement : r = Req(a)
    BY <1>1, PurgerKnows
  <1>2. /\ TypeOK /\ actor[a].expect # 0 /\ actor[a].cmd \in {"delete", "revoke"}
        /\ retired[r].reason = "deleted" /\ retired[r].seq = actor[a].expect
        /\ IsRetired(r) /\ RowInv(r) /\ purging[r] = a /\ plan[r] = actor[a].expect
    BY <1>1, PurgerKnows DEF Purging
  <1>3. journal[r] \in JournalRec /\ (journal[r].records # "none" => journal[r].dir)
        /\ (journal[r].lockfile => journal[r].dir)
    BY <1>2, JournalType DEF JournalOK
  <1>4. PICK y \in JournalRec, p \in {"unlink", "rmdir", "publish"} :
           /\ journal' = [journal EXCEPT ![r] = y] /\ Goto(a, p)
           /\ y.lockfile \/ y.records # "none" => y.dir
           /\ y.records # "whole"
           /\ \/ y.seq = journal[r].seq /\ y.phase = journal[r].phase /\ p = "unlink"
                 /\ y.records = (IF Recorded(r) THEN "partial" ELSE journal[r].records)
              \/ y.seq = 0 /\ y.phase = "preparing" /\ y.records = "none"
           /\ lock' = lock \/ lock' = [lock EXCEPT ![r] = None]
           /\ receipt' = receipt \/ receipt' = [receipt EXCEPT ![r] = NoReceipt]
           /\ UNCHANGED <<tasks, plan, retired, purged, purging>>
    <2>1. CASE PurgeRecords(a)
      <3> DEFINE z == IF Recorded(r) THEN "partial" ELSE journal[r].records
                 y == [journal[r] EXCEPT !.records = z]
      <3>1. journal' = [journal EXCEPT ![r] = y]
        BY <2>1 DEF PurgeRecords, Recorded
      <3>2. z \in {"none", "whole", "partial"} /\ z # "whole" /\ (z # "none" => journal[r].dir)
        BY <1>3 DEF JournalRec, Recorded
      <3> HIDE DEF z
      <3>3. /\ y \in JournalRec /\ y.records = z /\ y.seq = journal[r].seq
            /\ y.phase = journal[r].phase /\ y.dir = journal[r].dir
            /\ y.lockfile = journal[r].lockfile
        BY <1>3, <3>2 DEF JournalRec
      <3> HIDE DEF y
      <3>4. /\ Goto(a, "unlink") /\ lock' = lock /\ receipt' = receipt
            /\ UNCHANGED <<tasks, plan, retired, purged, purging>>
        BY <2>1 DEF PurgeRecords, UnchangedLocks
      <3> QED  BY <1>3, <3>1, <3>2, <3>3, <3>4 DEF z
    <2>2. CASE PurgeUnlinks(a)
      <3> DEFINE y == [NoJournal EXCEPT !.dir = TRUE]
      <3>1. /\ y \in JournalRec /\ y.dir /\ y.seq = 0 /\ y.phase = "preparing"
            /\ y.records = "none"
        <4>1. /\ NoJournal \in JournalRec /\ NoJournal.seq = 0
              /\ NoJournal.phase = "preparing" /\ NoJournal.records = "none"
          BY RemovalConstants DEF JournalRec, NoJournal, Phase
        <4> QED  BY <4>1 DEF JournalRec
      <3>2. /\ journal' = [journal EXCEPT ![r] = y] /\ Goto(a, "rmdir")
            /\ lock' = [lock EXCEPT ![r] = None]
            /\ receipt' = [receipt EXCEPT ![r] = NoReceipt]
            /\ UNCHANGED <<tasks, plan, retired, purged, purging>>
        BY <2>2 DEF PurgeUnlinks
      <3> HIDE DEF y
      <3> QED  BY <3>1, <3>2
    <2>3. CASE PurgeRmdir(a)
      <3>1. /\ NoJournal \in JournalRec /\ ~NoJournal.lockfile /\ NoJournal.seq = 0
            /\ NoJournal.phase = "preparing" /\ NoJournal.records = "none"
        BY RemovalConstants DEF JournalRec, NoJournal, Phase
      <3>2. /\ journal' = [journal EXCEPT ![r] = NoJournal] /\ Goto(a, "publish")
            /\ lock' = lock /\ receipt' = receipt
            /\ UNCHANGED <<tasks, plan, retired, purged, purging>>
        BY <2>3 DEF PurgeRmdir, UnchangedLocks
      <3> QED  BY <3>1, <3>2
    <2> QED  BY <2>1, <2>2, <2>3
  <1>5. p \in PC
    BY DEF PC
  <1>6. /\ JournalOK' /\ journal'[r] = y
        /\ \A q \in Requirement \ {r} : journal'[q] = journal[q]
    BY <1>2, <1>4, JournalWrite
  <1>7. /\ actor'[a].pc = p /\ actor'[a].cmd = actor[a].cmd /\ actor'[a].req = r
        /\ actor'[a].expect = actor[a].expect
    BY <1>2, <1>4, <1>5, GotoKept DEF Req
  <1>8. /\ lock' \in [Requirement -> Actor \cup {None}]
        /\ \A q \in Requirement \ {r} : lock'[q] = lock[q]
    <2>1. lock \in [Requirement -> Actor \cup {None}]
      BY <1>2 DEF TypeOK
    <2> QED  BY <1>4, <2>1
  <1>9. receipt' \in [Requirement -> [action : {"none", "close", "delete"}, seq : 0 .. MaxSeq]]
    <2>1. NoReceipt \in [action : {"none", "close", "delete"}, seq : 0 .. MaxSeq]
      BY RemovalConstants DEF NoReceipt
    <2>2. receipt \in [Requirement -> [action : {"none", "close", "delete"}, seq : 0 .. MaxSeq]]
      BY <1>2 DEF TypeOK
    <2>3. CASE receipt' = receipt
      BY <2>2, <2>3
    <2>4. CASE receipt' = [receipt EXCEPT ![r] = NoReceipt]
      BY <2>1, <2>2, <2>4
    <2> QED  BY <1>4, <2>3, <2>4
  <1>10. TypeOK'
    BY <1>2, <1>4, <1>5, <1>6, <1>8, <1>9, GotoKept DEF TypeOK, JournalOK, JournalRec
  <1>11. \A q \in Requirement \ {r} : SameRow(a, q)
    BY <1>4, <1>6, <1>8 DEF SameRow, SameJournal
  <1>12. RowInv(r)'
    BY <1>2, <1>4, <1>6 DEF RowInv, JournalInv, TaskInv, IsRetired, Recorded
  <1>13. Guarantee(a, r) /\ Successor(r)
    BY <1>2, <1>4, <1>6 DEF Guarantee, Successor, IsRetired, Recorded, Evicted
  <1>14. ActorInv(a)' /\ Entry(a)
    BY <1>2, <1>4, <1>6, <1>7 DEF ActorInv, LockInv, DeleteInv, FenceInv, Req, LiveWriter,
       Sealing, Purging, Entry, Writing, IsRetired
  <1> QED  BY <1>2, <1>4, <1>5, <1>10, <1>11, <1>12, <1>13, <1>14, GotoKept, OneRowStep

\* The completion is published, then the plan removed.
LEMMA PurgePublishesStep ==
  ASSUME RemovalInv, NEW a \in Actor, UNCHANGED calm, PurgePublishes(a)
  PROVE  StepOK(a)
  <1>1. actor[a].pc \in {"purge"} \cup Purging /\ actor[a].pc = "publish"
    BY DEF PurgePublishes, At, Purging
  <1> PICK r \in Requirement : r = Req(a)
    BY <1>1, PurgerKnows
  <1>2. /\ TypeOK /\ actor[a].expect # 0 /\ actor[a].cmd \in {"delete", "revoke"}
        /\ retired[r].reason = "deleted" /\ retired[r].seq = actor[a].expect
        /\ IsRetired(r) /\ RowInv(r) /\ purging[r] = a /\ plan[r] = actor[a].expect
        /\ journal[r].seq = 0
    BY <1>1, PurgerKnows DEF Purging
  <1>3. /\ "unplan" \in PC /\ Goto(a, "unplan")
        /\ purged' = [purged EXCEPT ![r] = plan[r]]
        /\ UnchangedLocks /\ UNCHANGED <<journal, tasks, receipt, plan, retired>>
    BY DEF PurgePublishes, PC
  <1>4. /\ purged' \in [Requirement -> 0 .. MaxSeq] /\ purged'[r] = plan[r]
        /\ \A q \in Requirement \ {r} : purged'[q] = purged[q]
    BY <1>2, <1>3 DEF TypeOK
  <1>5. /\ actor'[a].pc = "unplan" /\ actor'[a].cmd = actor[a].cmd /\ actor'[a].req = r
        /\ actor'[a].expect = actor[a].expect
    BY <1>2, <1>3, GotoKept DEF Req
  <1>6. TypeOK'
    BY <1>2, <1>3, <1>4, GotoKept DEF TypeOK, UnchangedLocks
  <1>7. \A q \in Requirement \ {r} : SameRow(a, q)
    BY <1>3, <1>4 DEF SameRow, SameJournal, UnchangedLocks
  <1>8. RowInv(r)' /\ Guarantee(a, r) /\ Successor(r)
    BY <1>2, <1>3, <1>4 DEF RowInv, JournalInv, TaskInv, Guarantee, Successor, IsRetired, Recorded,
       UnchangedLocks
  <1>9. ActorInv(a)' /\ Entry(a)
    BY <1>2, <1>3, <1>4, <1>5 DEF ActorInv, LockInv, DeleteInv, FenceInv, Req, LiveWriter,
       Sealing, Purging, Entry, Writing, UnchangedLocks, IsRetired
  <1> QED  BY <1>2, <1>3, <1>6, <1>7, <1>8, <1>9, GotoKept, OneRowStep

\* The purge ends: the plan is removed last, under the deletion lock.
LEMMA PurgeEndsStep ==
  ASSUME RemovalInv, NEW a \in Actor, UNCHANGED calm, PurgeEnds(a)
  PROVE  StepOK(a)
  <1>1. actor[a].pc \in {"purge"} \cup Purging /\ actor[a].pc = "unplan" /\ End(a)
    BY DEF PurgeEnds, At, Purging
  <1> PICK r \in Requirement : r = Req(a)
    BY <1>1, PurgerKnows
  <1>2. /\ TypeOK /\ actor[a].expect # 0
        /\ retired[r].reason = "deleted" /\ retired[r].seq = actor[a].expect
        /\ IsRetired(r) /\ RowInv(r) /\ purging[r] = a /\ purged[r] = actor[a].expect
    BY <1>1, PurgerKnows DEF Purging
  <1>3. plan' = [plan EXCEPT ![r] = 0] /\ UNCHANGED <<journal, tasks, receipt, retired, purged>>
    BY DEF PurgeEnds
  <1>4. /\ plan' \in [Requirement -> 0 .. MaxSeq] /\ plan'[r] = 0
        /\ \A q \in Requirement \ {r} : plan'[q] = plan[q]
    BY <1>2, <1>3, RemovalConstants DEF TypeOK
  <1>5. \A q \in Requirement : /\ lock[q] = a \/ lock'[q] = lock[q]
                               /\ purging[q] = a \/ purging'[q] = purging[q]
    BY <1>1, <1>2, EndKept
  <1>6. TypeOK'
    BY <1>1, <1>2, <1>3, <1>4, EndKept DEF TypeOK
  <1>7. \A q \in Requirement \ {r} : SameRow(a, q)
    BY <1>3, <1>4, <1>5 DEF SameRow, SameJournal
  <1>8. RowInv(r)' /\ Guarantee(a, r) /\ Successor(r)
    BY <1>2, <1>3, <1>4, <1>5 DEF RowInv, JournalInv, TaskInv, Guarantee, Successor, IsRetired,
       Recorded
  <1> QED  BY <1>1, <1>2, <1>6, <1>7, <1>8, EndKept, OneRowStep

\* A worker takes or leaves the Tasks of a Requirement nobody has fenced.
LEMMA WorkerStep ==
  ASSUME RemovalInv, NEW r \in Requirement, UNCHANGED calm, WorkerClaims(r) \/ WorkerLeaves(r)
  PROVE  /\ RemovalInv'
         /\ journal' = journal
  <1>1. /\ TypeOK /\ (\A q \in Requirement : RowInv(q)) /\ (\A a \in Actor : ActorInv(a))
        /\ OneHolder /\ ReplacedHasSuccessor
    BY DEF RemovalInv
  <1>2. PICK t \in {"leased", "open", "settled"} :
           /\ tasks' = [tasks EXCEPT ![r] = t] /\ tasks[r] \in {"open", "leased"}
           /\ t = "leased" => ~Fenced(r)
           /\ t # "leased" => tasks[r] = "leased"
           /\ UNCHANGED <<journal, receipt, plan, retired, purged, lock, purging, actor>>
    BY DEF WorkerClaims, WorkerLeaves
  <1>3. /\ tasks' \in [Requirement -> TaskState] /\ tasks'[r] = t
        /\ \A q \in Requirement \ {r} : tasks'[q] = tasks[q]
    BY <1>1, <1>2 DEF TypeOK, TaskState
  <1>4. TypeOK'
    BY <1>1, <1>2, <1>3 DEF TypeOK
  <1>5. ASSUME NEW q \in Requirement PROVE RowInv(q)'
    BY <1>1, <1>2, <1>3 DEF RowInv, JournalInv, TaskInv, IsRetired, Recorded
  <1>6. ASSUME NEW a \in Actor PROVE ActorInv(a)'
    <2>1. ActorInv(a) /\ actor'[a] = actor[a]
      BY <1>1, <1>2
    <2>2. LockInv(a)' /\ DeleteInv(a)'
      BY <2>1, <1>2 DEF ActorInv, LockInv, DeleteInv, IsRetired, Recorded, Evicted, Req
    <2>3. FenceInv(a)'
      <3> SUFFICES ASSUME actor[a].pc \in {"settle", "deleteSettle", "close", "seal", "retire",
                                           "rows"}
                   PROVE  FenceInv(a)'
        BY <2>1 DEF FenceInv
      <3>1. Req(a) \in Requirement /\ Req(a)' = Req(a)
        BY <2>1 DEF ActorInv, LockInv, Req
      <3>2. CASE Req(a) = r
        <4>1. Fenced(r)
          BY <3>2 DEF Fenced
        <4> QED  BY <1>2, <1>3, <2>1, <3>2, <4>1 DEF ActorInv, FenceInv, Req
      <3>3. CASE Req(a) # r
        BY <1>3, <2>1, <3>1, <3>3 DEF ActorInv, FenceInv, Req
      <3> QED  BY <3>2, <3>3
    <2> QED  BY <2>2, <2>3 DEF ActorInv
  <1>7. OneHolder' /\ ReplacedHasSuccessor'
    BY <1>1, <1>2 DEF OneHolder, ReplacedHasSuccessor, Req, Recorded
  <1> QED  BY <1>2, <1>4, <1>5, <1>6, <1>7 DEF RemovalInv

-----------------------------------------------------------------------------
(* The theorems                                                            *)

\* The invariant holds of what earlier commands may have left.
LEMMA InitOK ==
  ASSUME Init
  PROVE  RemovalInv
  <1>1. \A r \in Requirement :
           /\ journal[r] \in JournalRec /\ journal[r].seq \in {0, 1}
           /\ journal[r].lockfile \/ journal[r].records # "none" => journal[r].dir
           /\ journal[r].records = "none" =>
                 journal[r].seq = 0 /\ journal[r].phase = "preparing"
           /\ journal[r].records # "none" => journal[r].records = "whole" /\ journal[r].seq = 1
           /\ journal[r].phase # "closed"
    <2> SUFFICES ASSUME NEW r \in Requirement
                 PROVE  <1>1!(r)
      OBVIOUS
    <2>1. journal[r] \in {NoJournal} \cup {Left(p) : p \in StartPhase}
      BY DEF Init
    <2>2. CASE journal[r] = NoJournal
      BY <2>2, RemovalConstants DEF NoJournal, JournalRec, Phase
    <2>3. CASE journal[r] \in {Left(p) : p \in StartPhase}
      <3>1. PICK p \in StartPhase : journal[r] = Left(p)
        BY <2>3
      <3>2. p \in Phase /\ p # "closed"
        BY RemovalConstants DEF Phase
      <3> QED  BY <3>1, <3>2, RemovalConstants DEF Left, JournalRec
    <2> QED  BY <2>1, <2>2, <2>3
  <1>2. JournalOK
    <2>1. journal \in [Requirement -> {NoJournal} \cup {Left(p) : p \in StartPhase}]
      BY DEF Init
    <2>2. journal \in [Requirement -> JournalRec]
      BY <1>1, <2>1
    <2> QED  BY <1>1, <2>2 DEF JournalOK
  <1>3. /\ tasks \in [Requirement -> TaskState]
        /\ \A r \in Requirement : tasks[r] \in LeftTasks(journal[r].phase)
    BY DEF Init
  <1>4. TypeOK
    <2>1. NoReceipt \in [action : {"none", "close", "delete"}, seq : 0 .. MaxSeq]
      BY RemovalConstants DEF NoReceipt
    <2>2. NotRetired \in [reason : {"none", "deleted", "replaced"},
                          seq : 0 .. MaxSeq, by : Requirement \cup {None}]
      BY RemovalConstants DEF NotRetired
    <2>3. Idle \in [pc : PC, cmd : Cmd, req : Requirement \cup {None},
                    by : Requirement \cup {None}, expect : 0 .. MaxSeq]
      BY RemovalConstants DEF Idle, PC, Cmd
    <2>4. 0 \in 0 .. MaxSeq
      BY RemovalConstants
    <2>5. /\ receipt = [r \in Requirement |-> NoReceipt]
          /\ plan = [r \in Requirement |-> 0]
          /\ retired = [r \in Requirement |-> NotRetired]
          /\ purged = [r \in Requirement |-> 0]
          /\ lock = [r \in Requirement |-> None]
          /\ purging = [r \in Requirement |-> None]
          /\ actor = [a \in Actor |-> Idle]
          /\ calm = FALSE
      BY DEF Init
    <2> QED  BY <1>2, <1>3, <2>1, <2>2, <2>3, <2>4, <2>5 DEF TypeOK, JournalOK, JournalRec
  <1>5. ASSUME NEW r \in Requirement PROVE RowInv(r)
    <2>1. /\ retired[r] = NotRetired /\ plan[r] = 0 /\ purged[r] = 0
          /\ retired[r].reason = "none"
      BY DEF Init, NotRetired
    <2>2. tasks[r] \in {"none", "open", "settled"}
          /\ (journal[r].phase \in {"preparing", "ready", "draft"} => tasks[r] = "none")
      BY <1>3 DEF LeftTasks
    <2> QED
      BY <1>1, <2>1, <2>2 DEF RowInv, JournalInv, TaskInv, IsRetired, Recorded
  <1>6. ASSUME NEW a \in Actor PROVE ActorInv(a) /\ actor[a].pc = "idle"
    <2>1. actor[a] = Idle
      BY DEF Init
    <2> QED
      BY <2>1 DEF ActorInv, LockInv, DeleteInv, FenceInv, Idle, LiveWriter, Sealing, Purging
  <1>7. OneHolder
    BY <1>6 DEF OneHolder, Writing
  <1>8. ReplacedHasSuccessor
    BY DEF Init, ReplacedHasSuccessor, NotRetired
  <1> QED  BY <1>4, <1>5, <1>6, <1>7, <1>8 DEF RemovalInv

\* Every step of an actor is one of the steps above.
LEMMA ActorStep ==
  ASSUME RemovalInv, NEW a \in Actor, UNCHANGED calm,
         \/ \E r \in Requirement, e \in 0 .. MaxSeq,
               cmd \in {"create", "work", "close", "restart", "delete"} : Begin(a, cmd, r, e)
         \/ \E r, r2 \in Requirement : BeginReplace(a, r, r2)
         \/ \E phase \in Phase : Advance(a, phase)
         \/ CommandStep(a) \/ DeleteStep(a) \/ PurgeStep(a) \/ Crash(a)
  PROVE  StepOK(a)
  <1>1. CASE \/ \E r \in Requirement, e \in 0 .. MaxSeq,
                   cmd \in {"create", "work", "close", "restart", "delete"} : Begin(a, cmd, r, e)
             \/ \E r, r2 \in Requirement : BeginReplace(a, r, r2)
    BY <1>1, BeginStep
  <1>2. CASE \E phase \in Phase : Advance(a, phase)
    BY <1>2, AdvanceStep
  <1>3. CASE CommandStep(a)
    <2>1. CASE Return(a)
      BY <2>1, RefuseStep DEF Return
    <2> QED
      BY <1>3, <2>1, AcquireStep, CreateStep, ReadStep, CloseStep, SettleStep, LastAppendStep,
         IntakeStep, PrepareStep, ReplaceRetiresStep DEF CommandStep
  <1>4. CASE DeleteStep(a)
    <2>1. CASE RmdirFails(a)
      BY <2>1, RefuseStep DEF RmdirFails, Refuse
    <2> QED
      BY <1>4, <2>1, DeleteAgainStep, DeleteReadStep, RetireStep, DeleteChecksStep, SettleStep,
         SealStep DEF DeleteStep
  <1>5. CASE PurgeStep(a)
    BY <1>5, PurgeStartsStep, PurgeRowsStep, PurgeFilesStep, PurgePublishesStep, PurgeEndsStep
       DEF PurgeStep
  <1>6. CASE Crash(a)
    BY <1>6, RefuseStep DEF Crash
  <1> QED  BY <1>1, <1>2, <1>3, <1>4, <1>5, <1>6

\* A retired journal is never extended by a step.
Frozen == \A r \in Requirement :
    retired[r] # NotRetired => journal'[r].seq <= journal[r].seq

\* The invariant is inductive, and every step leaves the retired journals alone.
LEMMA NextOK ==
  ASSUME RemovalInv, [Next \/ CalmsDown]_vars
  PROVE  RemovalInv' /\ Frozen
  <1>0. TypeOK /\ \A r \in Requirement : journal[r].seq \in Nat
    BY DEF RemovalInv, TypeOK
  <1>1. ASSUME NEW a \in Actor, StepOK(a)
        PROVE  RemovalInv' /\ Frozen
    <2>1. RemovalInv'
      BY <1>1, StepKeeps
    <2>2. Frozen
      BY <1>0, <1>1 DEF StepOK, Guarantee, Frozen, IsRetired
    <2> QED  BY <2>1, <2>2
  <1>2. CASE Next
    <2>1. CASE \E a \in Actor :
             \/ \E r \in Requirement, e \in 0 .. MaxSeq,
                   cmd \in {"create", "work", "close", "restart", "delete"} :
                      Begin(a, cmd, r, e)
             \/ \E r, r2 \in Requirement : BeginReplace(a, r, r2)
             \/ \E phase \in Phase : Advance(a, phase)
             \/ CommandStep(a) \/ DeleteStep(a) \/ PurgeStep(a) \/ Crash(a)
      BY <1>1, <1>2, <2>1, ActorStep DEF Next
    <2>2. CASE \E r \in Requirement : WorkerClaims(r) \/ WorkerLeaves(r)
      BY <1>0, <1>2, <2>2, WorkerStep DEF Next, Frozen
    <2> QED  BY <1>2, <2>1, <2>2 DEF Next
  <1>3. CASE CalmsDown \/ UNCHANGED vars
    <2>1. UNCHANGED <<journal, tasks, receipt, plan, retired, purged, lock, purging, actor>>
          /\ calm' \in BOOLEAN
      BY <1>0, <1>3 DEF CalmsDown, vars, UnchangedDisk, UnchangedLocks, TypeOK
    <2>2. TypeOK'
      BY <1>0, <2>1 DEF TypeOK
    <2>3. \A r \in Requirement : RowInv(r)'
      BY <2>1 DEF RemovalInv, RowInv, JournalInv, TaskInv, IsRetired, Recorded
    <2>4. \A a \in Actor : ActorInv(a)'
      BY <2>1 DEF RemovalInv, ActorInv, LockInv, DeleteInv, FenceInv, IsRetired, Recorded,
         Evicted, Req
    <2>5. OneHolder' /\ ReplacedHasSuccessor'
      BY <2>1 DEF RemovalInv, OneHolder, ReplacedHasSuccessor, Req, Recorded
    <2> QED  BY <1>0, <2>1, <2>2, <2>3, <2>4, <2>5 DEF RemovalInv, Frozen
  <1> QED  BY <1>2, <1>3

\* The invariant holds whenever the commands, the workers and the crashes behave as
\* the model says.
THEOREM RemovalCorrect == Init /\ [][Next \/ CalmsDown]_vars => []RemovalInv
  <1>1. RemovalInv /\ [Next \/ CalmsDown]_vars => RemovalInv'
    BY NextOK
  <1> QED  BY InitOK, <1>1, PTL

\* Spec and FairSpec are both covered: fairness only restricts the behaviours.
LEMMA BothSpecs ==
  /\ Spec => []RemovalInv
  /\ FairSpec => []RemovalInv
  <1>1. Spec => []RemovalInv
    <2>1. [Next]_vars => [Next \/ CalmsDown]_vars
      OBVIOUS
    <2> QED  BY <2>1, RemovalCorrect, PTL DEF Spec
  <1>2. FairSpec => []RemovalInv
    BY RemovalCorrect, PTL DEF FairSpec
  <1> QED  BY <1>1, <1>2

\* At most one command acts on the checkpoint of a Requirement, although a purge
\* unlinks the lock file under a command that holds it.
THEOREM OneWriterHolds == (Spec => []OneWriter) /\ (FairSpec => []OneWriter)
  <1>1. RemovalInv => OneWriter
    <2> SUFFICES ASSUME RemovalInv, NEW a \in Actor, NEW b \in Actor, a # b,
                        actor[a].pc \in Writing, actor[b].pc \in Writing
                 PROVE  WritesTo(a) \cap WritesTo(b) = {}
      BY DEF OneWriter
    <2>1. Req(a) # Req(b)
      BY DEF RemovalInv, OneHolder
    <2>2. ASSUME NEW c \in {a, b}, NEW d \in {a, b}, c # d,
                 actor[c].pc \in {"prepare", "replace"}
          PROVE  /\ lock[actor[c].by] = c /\ ~IsRetired(actor[c].by)
                 /\ actor[c].by # Req(d)
      <3>1. lock[actor[c].by] = c /\ ~IsRetired(actor[c].by)
        BY <2>2 DEF RemovalInv, ActorInv, LockInv
      <3>2. lock[Req(d)] = d \/ Evicted(Req(d))
        BY <2>2 DEF RemovalInv, ActorInv, LockInv, Writing, LiveWriter, Sealing
      <3>3. Evicted(Req(d)) => IsRetired(Req(d))
        BY DEF Evicted, IsRetired, NotRetired
      <3> QED  BY <2>2, <3>1, <3>2, <3>3
    <2> QED  BY <2>1, <2>2 DEF WritesTo
  <1> QED  BY <1>1, BothSpecs, PTL

\* The purge destroys only what a durable deletion of the very checkpoint decided.
THEOREM DestroyedAsDecidedHolds ==
  (Spec => []DestroyedAsDecided) /\ (FairSpec => []DestroyedAsDecided)
  <1>1. RemovalInv => DestroyedAsDecided
    BY DEF RemovalInv, RowInv, TaskInv, DestroyedAsDecided
  <1> QED  BY <1>1, BothSpecs, PTL

\* Close and delete leave no Task open and take none from under a worker.
THEOREM NoTaskAdriftHolds == (Spec => []NoTaskAdrift) /\ (FairSpec => []NoTaskAdrift)
  <1>1. RemovalInv => NoTaskAdrift
    BY DEF RemovalInv, RowInv, TaskInv, ActorInv, FenceInv, NoTaskAdrift, IsRetired
  <1> QED  BY <1>1, BothSpecs, PTL

\* A draft that was replaced has a successor.
THEOREM ReplacedHasSuccessorHolds ==
  (Spec => []ReplacedHasSuccessor) /\ (FairSpec => []ReplacedHasSuccessor)
  <1>1. RemovalInv => ReplacedHasSuccessor
    BY DEF RemovalInv
  <1> QED  BY <1>1, BothSpecs, PTL

\* Nothing is appended to the journal of a deleted or replaced Requirement.
THEOREM RetiredIsFrozenHolds == (Spec => RetiredIsFrozen) /\ (FairSpec => RetiredIsFrozen)
  <1>1. RemovalInv /\ [Next \/ CalmsDown]_vars => [Frozen]_vars
    BY NextOK
  <1>2. [Next]_vars => [Next \/ CalmsDown]_vars
    OBVIOUS
  <1>3. Spec => RetiredIsFrozen
    BY <1>1, <1>2, BothSpecs, PTL DEF Spec, RetiredIsFrozen, Frozen
  <1>4. FairSpec => RetiredIsFrozen
    BY <1>1, BothSpecs, PTL DEF FairSpec, RetiredIsFrozen, Frozen
  <1> QED  BY <1>3, <1>4

=============================================================================
