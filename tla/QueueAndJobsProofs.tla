------------------------- MODULE QueueAndJobsProofs --------------------------
(***************************************************************************)
(* What the main process does one after the other: the state mutations,    *)
(* the restores and the scheduled tasks in their queue, with the tab       *)
(* workspace as a renderer whose saves wait there; and what it does at the *)
(* same time, the source builds.  For any number of restores, saves, runs, *)
(* tasks, edits, jobs and misfortunes.                                     *)
(***************************************************************************)
EXTENDS MutationQueue, WorkspaceDraft, SourceJobs, FiniteSetTheorems, SequenceTheorems,
        TLAPS

(***************************************************************************)
(* MutationQueue                                                           *)
(***************************************************************************)

(* What is between the awaits of the head tells what the head is.          *)
StepInv ==
    /\ step # "ready" => queue # <<>>
    /\ step = "closing" => Doing("restore")
    /\ step \in {"working", "saving"} => Doing("run")
    /\ step = "reloading" => Doing("reload") \/ Doing("restore")

(* From m on there are restores, before m there are none.                  *)
Waiting(m) ==
    /\ \A i \in 1..Len(queue) : queue[i].op = "restore" <=> i >= m
    /\ fence = Len(queue) + 1 - m
    /\ barrier <=> m <= Len(queue)
ShapeInv == \E m \in 1..(Len(queue) + 1) : Waiting(m)

(* Each restore has a token of its own, the last one that of the barrier:  *)
(* only its end lifts it.                                                  *)
TokensInv ==
    \A i \in 1..Len(queue) : queue[i].op = "restore" =>
        /\ queue[i].by <= token
        /\ i = Len(queue) => queue[i].by = token
        /\ \A j \in (i + 1)..Len(queue) : queue[i].by < queue[j].by

BarrierInv == QueueTypeOK /\ StepInv /\ ShapeInv /\ TokensInv
QueueInv == BarrierInv /\ RunsAreCurrent

(* Entries are what the constructors make. *)
LEMMA EntriesMade ==
    ASSUME NEW op \in Ops, NEW task \in Tasks \cup {NoTask}, NEW by \in Nat,
           QueueTypeOK
    PROVE  Entry(op, task, by) \in Entries /\ Entry(op, task, by).op = op
           /\ Entry(op, task, by).by = by
<1>1. (task \in Tasks /\ running[task]) \in BOOLEAN
  BY DEF QueueTypeOK
<1> QED
  BY <1>1 DEF Entry, Entries

(* What is in the queue. *)
LEMMA EntriesTyped ==
    ASSUME QueueTypeOK, NEW i \in 1..Len(queue)
    PROVE  /\ queue[i] \in Entries
           /\ queue[i].op \in Ops /\ queue[i].by \in Nat
           /\ queue[i].task \in Tasks \cup {NoTask}
<1>1. queue[i] \in Entries
  BY ElementOfSeq DEF QueueTypeOK
<1> QED
  BY <1>1 DEF Entries

(* A submission at the end leaves the head, and adds no restore. *)
LEMMA SubmitKeeps ==
    ASSUME BarrierInv,
           NEW entries \in Seq(Entries),
           \A i \in 1..Len(entries) : entries[i].op # "restore",
           Submit(entries),
           UNCHANGED <<step, barrier, token, fence>>
    PROVE  /\ queue' \in Seq(Entries)
           /\ StepInv' /\ ShapeInv' /\ TokensInv'
           /\ queue # <<>> => queue' # <<>> /\ Head(queue') = Head(queue)
<1> USE DEF BarrierInv, QueueTypeOK
<1>1. CASE barrier
  <2>1. queue' = queue
    BY <1>1 DEF Submit
  <2> QED
    BY <2>1 DEF StepInv, ShapeInv, TokensInv, Waiting, Doing, Current
<1>2. CASE ~barrier
  <2>1. queue' = queue \o entries
    BY <1>2 DEF Submit
  <2>2. /\ queue' \in Seq(Entries)
        /\ Len(queue') = Len(queue) + Len(entries)
        /\ \A i \in 1..Len(queue') :
              queue'[i] = IF i <= Len(queue) THEN queue[i]
                          ELSE entries[i - Len(queue)]
    BY <2>1, ConcatProperties
  <2>3. Len(queue) \in Nat /\ Len(entries) \in Nat
    BY LenProperties
  <2>4. queue # <<>> => queue' # <<>> /\ Head(queue') = Head(queue)
    <3>1. ASSUME queue # <<>> PROVE Len(queue) >= 1
      BY <3>1, <2>3
    <3>2. ASSUME queue # <<>> PROVE queue' # <<>> /\ queue'[1] = queue[1]
      BY <3>1, <3>2, <2>2, <2>3
    <3> QED
      BY <3>2, <2>2
  <2>5. PICK m \in 1..(Len(queue) + 1) : Waiting(m)
    BY DEF ShapeInv
  <2>6. m = Len(queue) + 1 /\ fence = 0
    BY <1>2, <2>3, <2>5 DEF Waiting
  <2>7. \A i \in 1..Len(queue') : queue'[i].op # "restore"
    <3> SUFFICES ASSUME NEW i \in 1..Len(queue') PROVE queue'[i].op # "restore"
      OBVIOUS
    <3>1. CASE i <= Len(queue)
      BY <3>1, <2>2, <2>3, <2>5, <2>6 DEF Waiting
    <3>2. CASE i > Len(queue)
      <4>1. i - Len(queue) \in 1..Len(entries)
        BY <3>2, <2>2, <2>3
      <4> QED
        BY <3>2, <4>1, <2>2, <2>3
    <3> QED
      BY <3>1, <3>2, <2>3
  <2>8. ShapeInv'
    <3>1. Len(queue') \in Nat /\ Len(queue') + 1 \in 1..(Len(queue') + 1)
      BY <2>2, <2>3
    <3>2. Waiting(Len(queue) + 1)
      BY <2>5, <2>6
    <3>3. /\ \A i \in 1..Len(queue') : queue'[i].op = "restore" <=> i >= Len(queue') + 1
          /\ fence' = Len(queue') + 1 - (Len(queue') + 1)
          /\ barrier' <=> Len(queue') + 1 <= Len(queue')
      BY <1>2, <2>6, <2>7, <3>1
    <3> QED
      BY <3>1, <3>3 DEF ShapeInv, Waiting
  <2>9. TokensInv'
    BY <2>7 DEF TokensInv
  <2> QED
    BY <2>2, <2>4, <2>8, <2>9 DEF StepInv, Doing, Current
<1> QED
  BY <1>1, <1>2

(* The end of the head; the end of the last restore lifts the barrier.     *)
LEMMA DequeueKeeps ==
    ASSUME BarrierInv, queue # <<>>, Dequeue, UNCHANGED token,
           \/ Current.op # "restore" /\ UNCHANGED <<barrier, fence>>
           \/ /\ Current.op = "restore"
              /\ barrier' = (barrier /\ Current.by # token)
              /\ Unfence
    PROVE  /\ queue' \in Seq(Entries) /\ fence' \in Nat /\ barrier' \in BOOLEAN
           /\ StepInv' /\ ShapeInv' /\ TokensInv'
<1> USE DEF BarrierInv, QueueTypeOK
<1>1. /\ queue' \in Seq(Entries)
      /\ Len(queue') = Len(queue) - 1
      /\ \A i \in 1..Len(queue') : queue'[i] = queue[i + 1]
  BY HeadTailProperties DEF Dequeue
<1>2. Len(queue) \in Nat /\ Len(queue) >= 1 /\ Len(queue') \in Nat
  BY <1>1, EmptySeq, LenProperties
<1>3. Current = queue[1]
  BY DEF Current
<1>4. PICK m \in 1..(Len(queue) + 1) : Waiting(m)
  BY DEF ShapeInv
<1>5. StepInv'
  BY DEF StepInv, Dequeue
<1>6. TokensInv'
  <2> SUFFICES ASSUME NEW i \in 1..Len(queue'), queue'[i].op = "restore"
               PROVE  /\ queue'[i].by <= token'
                      /\ i = Len(queue') => queue'[i].by = token'
                      /\ \A j \in (i + 1)..Len(queue') : queue'[i].by < queue'[j].by
    BY DEF TokensInv
  <2>1. i + 1 \in 1..Len(queue) /\ queue'[i] = queue[i + 1]
    BY <1>1, <1>2
  <2>2. /\ queue[i + 1].by <= token
        /\ i + 1 = Len(queue) => queue[i + 1].by = token
        /\ \A j \in ((i + 1) + 1)..Len(queue) : queue[i + 1].by < queue[j].by
    BY <2>1 DEF TokensInv
  <2>3. ASSUME NEW j \in (i + 1)..Len(queue') PROVE queue'[i].by < queue'[j].by
    <3>1. j \in 1..Len(queue') /\ j + 1 \in ((i + 1) + 1)..Len(queue)
      BY <1>1, <1>2
    <3>2. queue'[j] = queue[j + 1]
      BY <3>1, <1>1
    <3> QED
      BY <3>1, <3>2, <2>1, <2>2
  <2>4. token' = token /\ (i = Len(queue') => i + 1 = Len(queue))
    BY <1>1, <1>2
  <2>5. queue'[i].by <= token' /\ (i = Len(queue') => queue'[i].by = token')
    BY <2>1, <2>2, <2>4
  <2> QED
    BY <2>3, <2>5
<1>7. CASE Current.op # "restore" /\ UNCHANGED <<barrier, fence>>
  <2>1. m > 1
    BY <1>2, <1>3, <1>4, <1>7 DEF Waiting
  <2>2. m - 1 \in 1..(Len(queue') + 1)
    BY <1>1, <1>2, <2>1
  <2>3. ASSUME NEW i \in 1..Len(queue')
        PROVE  queue'[i].op = "restore" <=> i >= m - 1
    <3>1. i + 1 \in 1..Len(queue) /\ queue'[i] = queue[i + 1]
      BY <1>1, <1>2
    <3> QED
      BY <3>1, <1>4, <2>1 DEF Waiting
  <2>4. fence' = Len(queue') + 1 - (m - 1) /\ (barrier' <=> m - 1 <= Len(queue'))
    BY <1>1, <1>2, <1>4, <1>7 DEF Waiting
  <2>5. ShapeInv'
    BY <2>2, <2>3, <2>4 DEF ShapeInv, Waiting
  <2> QED
    BY <1>1, <1>5, <1>6, <1>7, <2>5
<1>8. CASE /\ Current.op = "restore"
           /\ barrier' = (barrier /\ Current.by # token)
           /\ Unfence
  <2>1. m = 1 /\ fence = Len(queue) /\ barrier
    BY <1>2, <1>3, <1>4, <1>8 DEF Waiting
  <2>2. fence' = Len(queue')
    BY <1>1, <1>2, <1>8, <2>1 DEF Unfence
  <2>3. ASSUME NEW i \in 1..Len(queue') PROVE queue'[i].op = "restore"
    <3>1. i + 1 \in 1..Len(queue) /\ queue'[i] = queue[i + 1]
      BY <1>1, <1>2
    <3> QED
      BY <3>1, <1>4, <2>1 DEF Waiting
  <2>4. barrier' <=> 1 <= Len(queue')
    <3>1. CASE Len(queue) = 1
      <4>1. queue[1].by = token
        BY <3>1, <1>2, <1>3, <1>8 DEF TokensInv
      <4>2. barrier' = FALSE
        BY <4>1, <1>3, <1>8
      <4> QED
        BY <3>1, <4>2, <1>1
    <3>2. CASE Len(queue) > 1
      <4>1. 2 \in (1 + 1)..Len(queue) /\ 1 \in 1..Len(queue) /\ 2 \in 1..Len(queue)
        BY <3>2, <1>2
      <4>2. queue[1].by < queue[2].by /\ queue[2].op = "restore"
        BY <4>1, <1>3, <1>4, <1>8, <2>1 DEF TokensInv, Waiting
      <4>3. queue[2].by <= token
        BY <4>1, <4>2 DEF TokensInv
      <4>4. queue[1].by \in Nat /\ queue[2].by \in Nat /\ token \in Nat
        BY <4>1, EntriesTyped
      <4>5. queue[1].by # token
        BY <4>2, <4>3, <4>4
      <4>6. barrier' = TRUE
        BY <4>5, <1>3, <1>8, <2>1
      <4>7. 1 <= Len(queue')
        BY <3>2, <1>1, <1>2
      <4> QED
        BY <4>6, <4>7
    <3>3. Len(queue) = 1 \/ Len(queue) > 1
      <4>1. \A n \in Nat : n >= 1 => n = 1 \/ n > 1
        OBVIOUS
      <4> QED
        BY ONLY <4>1, <1>2, Zenon
    <3> QED
      BY <3>1, <3>2, <3>3
  <2>5. ShapeInv'
    <3>1. 1 \in 1..(Len(queue') + 1) /\ \A i \in 1..Len(queue') : i >= 1
      BY <1>2
    <3>2. fence' = Len(queue') + 1 - 1
      BY <1>2, <2>2
    <3> QED
      BY <3>1, <3>2, <2>3, <2>4 DEF ShapeInv, Waiting
  <2>6. barrier' \in BOOLEAN
    <3>1. CASE Current.by = token
      BY <3>1, <1>8
    <3>2. CASE Current.by # token
      BY <3>2, <1>8, <2>1
    <3> QED
      BY <3>1, <3>2
  <2> QED
    BY <1>1, <1>2, <1>5, <1>6, <2>2, <2>5, <2>6
<1> QED
  BY <1>7, <1>8

(* A request for a restore: the last of the queue, with the newest token.  *)
LEMMA RequestKeeps ==
    ASSUME BarrierInv, RequestRestore
    PROVE  /\ queue' \in Seq(Entries) /\ token' \in Nat /\ fence' \in Nat
           /\ StepInv' /\ ShapeInv' /\ TokensInv'
           /\ queue # <<>> => queue' # <<>> /\ Head(queue') = Head(queue)
<1> USE DEF BarrierInv, QueueTypeOK
<1> DEFINE request == Entry("restore", NoTask, token')
<1>1. token' = token + 1 /\ fence' = fence + 1 /\ barrier' = TRUE /\ step' = step
  BY DEF RequestRestore
<1>2. request \in Entries /\ request.op = "restore" /\ request.by = token + 1
  <2>1. "restore" \in Ops /\ NoTask \in Tasks \cup {NoTask} /\ token' \in Nat
    BY <1>1 DEF Ops
  <2>2. request = [op |-> "restore", task |-> NoTask, by |-> token', during |-> FALSE]
    BY SelfUpdateAssumption DEF Entry
  <2> HIDE DEF request
  <2>3. request.op = "restore" /\ request.by = token + 1
    BY <2>2, <1>1
  <2> QED
    BY ONLY <2>1, <2>2, <2>3 DEF Entries
<1>3. queue' = Append(queue, request)
  BY DEF RequestRestore
<1> HIDE DEF request
<1>4. /\ queue' \in Seq(Entries)
      /\ Len(queue') = Len(queue) + 1
      /\ queue'[Len(queue) + 1] = request
      /\ \A i \in 1..Len(queue) : queue'[i] = queue[i]
  BY <1>2, <1>3, AppendProperties
<1>5. Len(queue) \in Nat /\ token \in Nat
  BY LenProperties
<1>6. PICK m \in 1..(Len(queue) + 1) : Waiting(m)
  BY DEF ShapeInv
<1>7. queue # <<>> => queue' # <<>> /\ Head(queue') = Head(queue)
  <2>1. ASSUME queue # <<>> PROVE 1 \in 1..Len(queue)
    BY <2>1, EmptySeq
  <2>2. queue' # <<>>
    BY <1>4, <1>5, EmptySeq
  <2> QED
    BY <2>1, <2>2, <1>4
<1>8. StepInv'
  BY <1>1, <1>7 DEF StepInv, Doing, Current
<1>9. ShapeInv'
  <2>1. m \in 1..(Len(queue') + 1) /\ m <= Len(queue')
    BY <1>4, <1>5
  <2>2. ASSUME NEW i \in 1..Len(queue')
        PROVE  queue'[i].op = "restore" <=> i >= m
    <3>1. CASE i \in 1..Len(queue)
      BY <3>1, <1>4, <1>6 DEF Waiting
    <3>2. CASE i = Len(queue) + 1
      BY <3>2, <2>1, <1>2, <1>4
    <3> QED
      BY <3>1, <3>2, <1>4, <1>5
  <2>3. fence' = Len(queue') + 1 - m
    BY <1>1, <1>4, <1>5, <1>6 DEF Waiting
  <2> QED
    BY <1>1, <2>1, <2>2, <2>3 DEF ShapeInv, Waiting
<1>10. TokensInv'
  <2> SUFFICES ASSUME NEW i \in 1..Len(queue'), queue'[i].op = "restore"
               PROVE  /\ queue'[i].by <= token'
                      /\ i = Len(queue') => queue'[i].by = token'
                      /\ \A j \in (i + 1)..Len(queue') : queue'[i].by < queue'[j].by
    BY DEF TokensInv
  <2>1. CASE i = Len(queue) + 1
    BY <2>1, <1>1, <1>2, <1>4, <1>5
  <2>2. CASE i \in 1..Len(queue)
    <3>1. queue'[i] = queue[i] /\ i # Len(queue')
      BY <2>2, <1>4, <1>5
    <3>2. queue[i].by \in Nat /\ queue[i].by <= token
      BY <2>2, <3>1, EntriesTyped DEF TokensInv
    <3>3. ASSUME NEW j \in (i + 1)..Len(queue') PROVE queue'[i].by < queue'[j].by
      <4>1. CASE j = Len(queue) + 1
        BY <4>1, <3>1, <3>2, <1>2, <1>4, <1>5
      <4>2. CASE j \in (i + 1)..Len(queue)
        <5>1. j \in 1..Len(queue)
          BY <2>2, <4>2
        <5> QED
          BY <2>2, <3>1, <4>2, <5>1, <1>4 DEF TokensInv
      <4>3. j \in (i + 1)..Len(queue) \/ j = Len(queue) + 1
        BY <1>4, <1>5
      <4> QED
        BY <4>1, <4>2, <4>3
    <3> QED
      BY <3>1, <3>2, <3>3, <1>1, <1>5
  <2> QED
    BY <2>1, <2>2, <1>4, <1>5
<1> QED
  BY <1>1, <1>4, <1>7, <1>8, <1>9, <1>10

(* The tasks that are armed, and the others. *)
LEMMA ArmedByConfig ==
    ASSUME QueueTypeOK, NEW schedule, NEW tasks, ArmUnder(schedule, tasks)
    PROVE  /\ timer' \in [Tasks -> {"none", "armed", "fired"}]
           /\ next' \in [Tasks -> {"null", "future", "past"}]
           /\ \A t \in Tasks :
                 timer'[t] = IF t \notin tasks THEN timer[t]
                             ELSE IF t \in schedule THEN "armed" ELSE "none"
BY DEF ArmUnder, QueueTypeOK

(* Nothing is marked running except under the run at the head. *)
LEMMA IdleMeansArmed ==
    ASSUME RunsAreCurrent, step # "working" \/ ~Doing("run"), NEW t \in Tasks
    PROVE  ~running[t] /\ (t \in enabled <=> timer[t] # "none")
BY DEF RunsAreCurrent

(* A step that leaves the head and the runs alone. *)
LEMMA RunsKept ==
    ASSUME StepInv, RunsAreCurrent, UNCHANGED <<step, reloads, enabled, running>>,
           queue # <<>> => queue' # <<>> /\ Head(queue') = Head(queue),
           \A t \in Tasks : timer'[t] = "none" <=> timer[t] = "none"
    PROVE  RunsAreCurrent'
<1>1. step = "ready" \/ (Current' = Current /\ (Doing("run")' <=> Doing("run")))
  BY DEF StepInv, Doing, Current
<1> QED
  BY <1>1 DEF RunsAreCurrent

(* A step after which nothing runs, and what is repeated has a timer. *)
LEMMA NothingRuns ==
    ASSUME step' \notin {"working", "saving"},
           \A t \in Tasks : /\ ~running'[t]
                            /\ t \in enabled' <=> timer'[t] # "none"
    PROVE  RunsAreCurrent'
BY DEF RunsAreCurrent

-----------------------------------------------------------------------------
(* The first state. *)
LEMMA QueueInitially == QueueInit => QueueInv
<1> SUFFICES ASSUME QueueInit PROVE QueueInv
  OBVIOUS
<1> USE DEF QueueInit
<1>1. queue \in Seq(Entries) /\ Len(queue) = 0
  BY EmptySeq
<1>2. QueueTypeOK
  BY <1>1 DEF QueueTypeOK
<1>3. Waiting(1) /\ 1 \in 1..(Len(queue) + 1) /\ TokensInv
  BY <1>1 DEF Waiting, TokensInv
<1> QED
  BY <1>2, <1>3 DEF QueueInv, BarrierInv, StepInv, ShapeInv, RunsAreCurrent

(* Requests, runs and timers: what they submit is no restore. *)
LEMMA OneSubmitted ==
    ASSUME BarrierInv, NEW op \in Ops \ {"restore"},
           NEW task \in Tasks \cup {NoTask}, NEW by \in Nat,
           Submit(<<Entry(op, task, by)>>), UNCHANGED <<step, barrier, token, fence>>
    PROVE  /\ queue' \in Seq(Entries)
           /\ StepInv' /\ ShapeInv' /\ TokensInv'
           /\ queue # <<>> => queue' # <<>> /\ Head(queue') = Head(queue)
<1> DEFINE entries == <<Entry(op, task, by)>>
<1>1. Entry(op, task, by) \in Entries /\ Entry(op, task, by).op = op
  BY EntriesMade DEF BarrierInv
<1>2. entries \in Seq(Entries) /\ \A i \in 1..Len(entries) : entries[i].op # "restore"
  BY <1>1
<1>3. Submit(entries)
  OBVIOUS
<1> HIDE DEF entries
<1> QED
  BY <1>2, <1>3, SubmitKeeps

(* What Wake submits: one run for each task that is due. *)
LEMMA DueSubmitted ==
    ASSUME BarrierInv, NEW due \in SUBSET Tasks,
           NEW order \in [1..Cardinality(due) -> due],
           Submit([i \in 1..Cardinality(due) |-> Run(order[i], reloads)]),
           UNCHANGED <<step, barrier, token, fence>>
    PROVE  /\ queue' \in Seq(Entries)
           /\ StepInv' /\ ShapeInv' /\ TokensInv'
           /\ queue # <<>> => queue' # <<>> /\ Head(queue') = Head(queue)
<1> DEFINE entries == [i \in 1..Cardinality(due) |-> Run(order[i], reloads)]
<1>1. Cardinality(due) \in Nat
  BY TasksAssumption, FS_Subset, FS_CardinalityType
<1>2. ASSUME NEW i \in 1..Cardinality(due)
      PROVE  entries[i] \in Entries /\ entries[i].op # "restore"
  <2>1. order[i] \in Tasks \cup {NoTask} /\ reloads \in Nat /\ "run" \in Ops
    BY DEF BarrierInv, QueueTypeOK, Ops
  <2>2. /\ Entry("run", order[i], reloads) \in Entries
        /\ Entry("run", order[i], reloads).op = "run"
    BY <2>1, EntriesMade DEF BarrierInv
  <2>3. entries[i] = Entry("run", order[i], reloads)
    BY DEF Run
  <2> QED
    BY <2>2, <2>3
<1>3. entries \in [1..Cardinality(due) -> Entries]
  BY <1>2
<1>4. entries \in Seq(Entries)
  BY <1>1, <1>3, SeqDef
<1>5. \A i \in 1..Len(entries) : entries[i].op # "restore"
  <2>1. Len(entries) = Cardinality(due)
    BY <1>1, <1>3
  <2> QED
    BY <1>2, <2>1
<1>6. Submit(entries)
  OBVIOUS
<1> HIDE DEF entries
<1> QED
  BY <1>4, <1>5, <1>6, SubmitKeeps

(***************************************************************************)
(* Each step.  What is submitted leaves the head and its stage; what ends  *)
(* takes the head away.                                                    *)
(***************************************************************************)
LEMMA QueueStep == QueueInv /\ [QueueNext]_queueVars => QueueInv'
<1> SUFFICES ASSUME QueueInv, [QueueNext]_queueVars PROVE QueueInv'
  OBVIOUS
<1>1. BarrierInv /\ QueueTypeOK /\ StepInv /\ ShapeInv /\ TokensInv /\ RunsAreCurrent
  BY DEF QueueInv, BarrierInv
<1> USE <1>1
<1>2. CASE Mutate
  <2>1. PICK op \in {"mutation", "dialog", "save-schedule", "reload"} :
           Submit(<<Entry(op, NoTask, 0)>>)
    BY <1>2 DEF Mutate
  <2>2. op \in Ops \ {"restore"} /\ UNCHANGED <<step, barrier, token, fence>>
    BY <1>2 DEF Mutate, Ops, barrierVars
  <2>3. /\ queue' \in Seq(Entries)
        /\ StepInv' /\ ShapeInv' /\ TokensInv'
        /\ queue # <<>> => queue' # <<>> /\ Head(queue') = Head(queue)
    BY <2>1, <2>2, OneSubmitted
  <2>4. QueueTypeOK'
    BY <1>2, <2>3, MaxDemandsAssumption
    DEF QueueTypeOK, Mutate, Demand, barrierVars, scheduler
  <2>5. RunsAreCurrent'
    BY <1>2, <2>3, RunsKept DEF Mutate, scheduler
  <2> QED
    BY <2>3, <2>4, <2>5 DEF QueueInv, BarrierInv
<1>3. ASSUME NEW t \in Tasks, RunNow(t) PROVE QueueInv'
  <2>1. /\ Submit(<<Entry("run", t, 0)>>) /\ "run" \in Ops \ {"restore"}
        /\ UNCHANGED <<step, barrier, token, fence>>
    BY <1>3 DEF RunNow, Run, Ops, barrierVars
  <2>2. /\ queue' \in Seq(Entries)
        /\ StepInv' /\ ShapeInv' /\ TokensInv'
        /\ queue # <<>> => queue' # <<>> /\ Head(queue') = Head(queue)
    BY <2>1, OneSubmitted
  <2>3. QueueTypeOK'
    BY <1>3, <2>2, MaxDemandsAssumption
    DEF QueueTypeOK, RunNow, Demand, barrierVars, scheduler
  <2>4. RunsAreCurrent'
    BY <1>3, <2>2, RunsKept DEF RunNow, scheduler
  <2> QED
    BY <2>2, <2>3, <2>4 DEF QueueInv, BarrierInv
<1>4. CASE RequestRestore
  <2>1. /\ queue' \in Seq(Entries) /\ token' \in Nat /\ fence' \in Nat
        /\ StepInv' /\ ShapeInv' /\ TokensInv'
        /\ queue # <<>> => queue' # <<>> /\ Head(queue') = Head(queue)
    BY <1>4, RequestKeeps
  <2>2. QueueTypeOK'
    BY <1>4, <2>1 DEF QueueTypeOK, RequestRestore, Demand, scheduler
  <2>3. RunsAreCurrent'
    BY <1>4, <2>1, RunsKept DEF RequestRestore, scheduler
  <2> QED
    BY <2>1, <2>2, <2>3 DEF QueueInv, BarrierInv
<1>5. CASE Wake
  <2> DEFINE due == {t \in enabled : next[t] = "past"}
  <2>1. due \in SUBSET Tasks
    BY DEF QueueTypeOK
  <2>2. PICK order \in [1..Cardinality(due) -> due] :
           Submit([i \in 1..Cardinality(due) |-> Run(order[i], reloads)])
    BY <1>5 DEF Wake
  <2>3. ArmUnder(enabled, Tasks \ due) /\ UNCHANGED <<step, barrier, token, fence>>
    BY <1>5 DEF Wake, barrierVars
  <2> HIDE DEF due
  <2>4. /\ queue' \in Seq(Entries)
        /\ StepInv' /\ ShapeInv' /\ TokensInv'
        /\ queue # <<>> => queue' # <<>> /\ Head(queue') = Head(queue)
    BY <2>1, <2>2, <2>3, DueSubmitted
  <2>5. /\ timer' \in [Tasks -> {"none", "armed", "fired"}]
        /\ next' \in [Tasks -> {"null", "future", "past"}]
        /\ \A t \in Tasks :
              timer'[t] = IF t \notin Tasks \ due THEN timer[t]
                          ELSE IF t \in enabled THEN "armed" ELSE "none"
    BY <2>3, ArmedByConfig
  <2>6. QueueTypeOK'
    BY <1>5, <2>4, <2>5 DEF QueueTypeOK, Wake, Demand, barrierVars
  <2>7. RunsAreCurrent'
    <3>1. step = "ready" \/ (Current' = Current /\ (Doing("run")' <=> Doing("run")))
      BY <2>4 DEF StepInv, Doing, Current
    <3>2. UNCHANGED <<step, reloads, enabled, running>>
      BY <1>5 DEF Wake
    <3>3. ASSUME NEW t \in Tasks
          PROVE  IF t \in enabled THEN timer'[t] = "none" => running[t]
                 ELSE timer'[t] = "none"
      BY <2>5 DEF RunsAreCurrent
    <3> QED
      BY <3>1, <3>2, <3>3 DEF RunsAreCurrent
  <2> QED
    BY <2>4, <2>6, <2>7 DEF QueueInv, BarrierInv
<1>6. ASSUME NEW t \in Tasks, TimePasses(t) PROVE QueueInv'
  <2>1. StepInv' /\ ShapeInv' /\ TokensInv'
    BY <1>6 DEF TimePasses, StepInv, ShapeInv, Waiting, TokensInv, Doing, Current,
                barrierVars
  <2>2. QueueTypeOK'
    BY <1>6 DEF QueueTypeOK, TimePasses, barrierVars
  <2>3. RunsAreCurrent'
    BY <1>6, RunsKept DEF TimePasses
  <2> QED
    BY <2>1, <2>2, <2>3 DEF QueueInv, BarrierInv
<1>7. ASSUME NEW t \in Tasks, Fire(t) PROVE QueueInv'
  <2>1. /\ Submit(<<Entry("run", t, reloads)>>) /\ "run" \in Ops \ {"restore"}
        /\ reloads \in Nat /\ UNCHANGED <<step, barrier, token, fence>>
    BY <1>7 DEF Fire, Run, Ops, barrierVars, QueueTypeOK
  <2>2. /\ queue' \in Seq(Entries)
        /\ StepInv' /\ ShapeInv' /\ TokensInv'
        /\ queue # <<>> => queue' # <<>> /\ Head(queue') = Head(queue)
    BY <2>1, OneSubmitted
  <2>3. QueueTypeOK'
    BY <1>7, <2>2 DEF QueueTypeOK, Fire, barrierVars
  <2>4. \A u \in Tasks : timer'[u] = "none" <=> timer[u] = "none"
    BY <1>7 DEF Fire, QueueTypeOK
  <2>5. RunsAreCurrent'
    BY <1>7, <2>2, <2>4, RunsKept DEF Fire
  <2> QED
    BY <2>2, <2>3, <2>5 DEF QueueInv, BarrierInv
<1>8. CASE StartupTimer
  <2>1. /\ Submit(<<Entry("run", SelfUpdate, 0)>>) /\ "run" \in Ops \ {"restore"}
        /\ SelfUpdate \in Tasks /\ UNCHANGED <<step, barrier, token, fence>>
    BY <1>8, SelfUpdateAssumption DEF StartupTimer, Run, Ops, barrierVars
  <2>2. /\ queue' \in Seq(Entries)
        /\ StepInv' /\ ShapeInv' /\ TokensInv'
        /\ queue # <<>> => queue' # <<>> /\ Head(queue') = Head(queue)
    BY <2>1, OneSubmitted
  <2>3. QueueTypeOK'
    BY <1>8, <2>2 DEF QueueTypeOK, StartupTimer, barrierVars, scheduler
  <2>4. RunsAreCurrent'
    BY <1>8, <2>2, RunsKept DEF StartupTimer, scheduler
  <2> QED
    BY <2>2, <2>3, <2>4 DEF QueueInv, BarrierInv
<1>9. CASE FinishMutation \/ AnswerDialog \/ ApplySchedule \/ SaveRuns \/ DropRun
  <2>1. /\ queue # <<>> /\ Dequeue /\ Current.op # "restore"
        /\ UNCHANGED <<barrier, token, fence, reloads, running, demands, startup>>
        /\ step # "working" \/ ~Doing("run")
    BY <1>9 DEF FinishMutation, AnswerDialog, ApplySchedule, SaveRuns, DropRun, StepInv, Doing,
                barrierVars, scheduler
  <2>2. queue' \in Seq(Entries) /\ StepInv' /\ ShapeInv' /\ TokensInv'
    BY <2>1, DequeueKeeps
  <2>3. /\ enabled' \subseteq Tasks
        /\ timer' \in [Tasks -> {"none", "armed", "fired"}]
        /\ next' \in [Tasks -> {"null", "future", "past"}]
        /\ \A t \in Tasks : t \in enabled' <=> timer'[t] # "none"
    <3>1. CASE UNCHANGED <<enabled, timer, next>>
      BY <3>1, <2>1, IdleMeansArmed DEF QueueTypeOK
    <3>2. ASSUME NEW schedule \in SUBSET Tasks, enabled' = schedule,
                 ArmUnder(schedule, Tasks)
          PROVE  <2>3!1 /\ <2>3!2 /\ <2>3!3 /\ <2>3!4
      BY <3>2, ArmedByConfig
    <3>3. ASSUME ArmUnder(enabled, {Current.task}), enabled' = enabled
          PROVE  <2>3!1 /\ <2>3!2 /\ <2>3!3 /\ <2>3!4
      BY <3>3, <2>1, ArmedByConfig, IdleMeansArmed DEF QueueTypeOK
    <3> QED
      BY <1>9, <3>1, <3>2, <3>3
      DEF FinishMutation, AnswerDialog, ApplySchedule, SaveRuns, DropRun, scheduler
  <2>4. QueueTypeOK'
    BY <2>1, <2>2, <2>3 DEF QueueTypeOK, Dequeue
  <2>5. RunsAreCurrent'
    BY <2>1, <2>3, IdleMeansArmed, NothingRuns DEF Dequeue
  <2> QED
    BY <2>2, <2>4, <2>5 DEF QueueInv, BarrierInv
<1>10. CASE BeginReload \/ ApplyRestore
  <2>1. /\ Doing("reload") \/ Doing("restore")
        /\ step = "ready" /\ step' \in {"reloading", "closing"}
        /\ step' = "closing" => Doing("restore")
        /\ reloads' \in Nat
        /\ UNCHANGED <<queue, barrier, token, fence, enabled, timer, next, running,
                       startup, demands>>
    BY <1>10 DEF BeginReload, ApplyRestore, barrierVars, QueueTypeOK
  <2>2. StepInv' /\ ShapeInv' /\ TokensInv'
    BY <2>1 DEF StepInv, ShapeInv, Waiting, TokensInv, Doing, Current
  <2>3. QueueTypeOK'
    BY <2>1 DEF QueueTypeOK
  <2>4. RunsAreCurrent'
    BY <2>1, IdleMeansArmed, NothingRuns
  <2> QED
    BY <2>2, <2>3, <2>4 DEF QueueInv, BarrierInv
<1>11. CASE FinishReload
  <2>1. PICK schedule \in SUBSET Tasks : enabled' = schedule /\ ArmUnder(schedule, Tasks)
    BY <1>11 DEF FinishReload, QueueTypeOK
  <2>2. /\ timer' \in [Tasks -> {"none", "armed", "fired"}]
        /\ next' \in [Tasks -> {"null", "future", "past"}]
        /\ \A t \in Tasks : ~running'[t] /\ (t \in enabled' <=> timer'[t] # "none")
        /\ running' \in [Tasks -> BOOLEAN]
        /\ UNCHANGED <<barrier, token, fence, reloads, startup, demands>>
    BY <1>11, <2>1, ArmedByConfig DEF FinishReload, barrierVars
  <2>3. /\ queue' \in Seq(Entries) /\ StepInv' /\ ShapeInv' /\ TokensInv'
        /\ step' \in {"ready", "closing"}
    <3>1. CASE Doing("restore")
      <4>1. step' = "closing" /\ queue' = queue
        BY <1>11, <3>1 DEF FinishReload
      <4>2. UNCHANGED <<queue, barrier, token, fence>>
        BY <4>1, <2>2
      <4> QED
        BY <3>1, <4>1, <4>2
        DEF StepInv, ShapeInv, Waiting, TokensInv, Doing, Current, QueueTypeOK
    <3>2. CASE ~Doing("restore")
      <4>1. Dequeue /\ queue # <<>> /\ Current.op # "restore"
        BY <1>11, <3>2 DEF FinishReload, StepInv, Doing
      <4> QED
        BY <4>1, <2>2, DequeueKeeps DEF Dequeue
    <3> QED
      BY <3>1, <3>2
  <2>4. QueueTypeOK'
    BY <2>1, <2>2, <2>3 DEF QueueTypeOK
  <2>5. RunsAreCurrent'
    BY <2>2, <2>3, NothingRuns
  <2> QED
    BY <2>3, <2>4, <2>5 DEF QueueInv, BarrierInv
<1>12. CASE CloseRestore
  <2>1. /\ queue # <<>> /\ Dequeue /\ Current.op = "restore" /\ ~Doing("run")
        /\ barrier' = (barrier /\ Current.by # token) /\ Unfence
        /\ UNCHANGED <<token, reloads, enabled, timer, next, running, startup, demands>>
    BY <1>12 DEF CloseRestore, Doing, scheduler
  <2>2. /\ queue' \in Seq(Entries) /\ fence' \in Nat /\ barrier' \in BOOLEAN
        /\ StepInv' /\ ShapeInv' /\ TokensInv'
    BY <2>1, DequeueKeeps
  <2>3. QueueTypeOK'
    BY <2>1, <2>2 DEF QueueTypeOK, Dequeue
  <2>4. RunsAreCurrent'
    BY <2>1, IdleMeansArmed, NothingRuns DEF Dequeue
  <2> QED
    BY <2>2, <2>3, <2>4 DEF QueueInv, BarrierInv
<1>13. CASE BeginRun \/ FinishTask
  <2>1. /\ Doing("run") /\ step' \in {"working", "saving"}
        /\ UNCHANGED <<queue, barrier, token, fence, reloads, enabled, demands>>
    BY <1>13 DEF BeginRun, FinishTask, StepInv, barrierVars
  <2>2. StepInv' /\ ShapeInv' /\ TokensInv'
    BY <2>1 DEF StepInv, ShapeInv, Waiting, TokensInv, Doing, Current
  <2>3. CASE BeginRun
    <3>1. QueueTypeOK'
      BY <2>1, <2>3 DEF QueueTypeOK, BeginRun
    <3>2. RunsAreCurrent'
      BY <2>1, <2>3, IdleMeansArmed
      DEF RunsAreCurrent, BeginRun, Stale, Doing, Current, QueueTypeOK
    <3> QED
      BY <2>2, <3>1, <3>2 DEF QueueInv, BarrierInv
  <2>4. CASE FinishTask
    <3>1. /\ timer' \in [Tasks -> {"none", "armed", "fired"}]
          /\ next' \in [Tasks -> {"null", "future", "past"}]
          /\ \A t \in Tasks :
                timer'[t] = IF t \notin {Current.task} THEN timer[t]
                            ELSE IF t \in enabled THEN "armed" ELSE "none"
      BY <2>4, ArmedByConfig DEF FinishTask
    <3>2. QueueTypeOK'
      BY <2>1, <2>4, <3>1 DEF QueueTypeOK, FinishTask
    <3>3. RunsAreCurrent'
      BY <2>1, <2>4, <3>1
      DEF RunsAreCurrent, FinishTask, Doing, Current, QueueTypeOK
    <3> QED
      BY <2>2, <3>2, <3>3 DEF QueueInv, BarrierInv
  <2> QED
    BY <1>13, <2>3, <2>4
<1>14. CASE UNCHANGED queueVars
  <2>1. UNCHANGED <<queue, step, barrier, token, fence, reloads, enabled, timer, next,
                    running, startup, demands>>
    BY <1>14 DEF queueVars
  <2> QED
    BY <2>1 DEF QueueInv, BarrierInv, QueueTypeOK, StepInv, ShapeInv, Waiting, TokensInv,
                RunsAreCurrent, Doing, Current
<1> QED
  BY <1>2, <1>3, <1>4, <1>5, <1>6, <1>7, <1>8, <1>9, <1>10, <1>11, <1>12, <1>13, <1>14
  DEF QueueNext, Operation, Timers, QueueUser

-----------------------------------------------------------------------------
(* The restores are the end of the queue, and the fence counts them. *)
LEMMA NothingBehind == BarrierInv => NothingBehindRestore
<1> SUFFICES ASSUME BarrierInv PROVE NothingBehindRestore
  OBVIOUS
<1>1. Len(queue) \in Nat /\ DOMAIN queue = 1..Len(queue)
  BY LenProperties DEF BarrierInv, QueueTypeOK
<1>2. PICK m \in 1..(Len(queue) + 1) : Waiting(m)
  BY DEF BarrierInv, ShapeInv
<1>3. Restores = m..Len(queue)
  BY <1>1, <1>2 DEF Restores, Waiting
<1>4. Cardinality(Restores) = Len(queue) + 1 - m /\ (m <= Len(queue) <=> Restores # {})
  <2>1. m \in Int /\ Len(queue) \in Int
    BY <1>1, <1>2
  <2>2. Cardinality(m..Len(queue)) = IF m > Len(queue) THEN 0 ELSE Len(queue) - m + 1
    BY <2>1, FS_Interval
  <2> QED
    BY <2>1, <2>2, <1>1, <1>2, <1>3
<1>5. \A i \in Restores : \A j \in DOMAIN queue : j > i => j \in Restores
  BY <1>1, <1>2, <1>3
<1> QED
  BY <1>2, <1>4, <1>5 DEF NothingBehindRestore, BarrierInv, Waiting

(* The inductive invariant, in every run of the queue. *)
THEOREM QueueInvariant == QueueSpec => []QueueInv
BY QueueInitially, QueueStep, PTL DEF QueueSpec

(* However many restores are requested while others wait or run, with      *)
(* however many saves, runs and timers between them: nothing but a restore *)
(* waits behind a restore, and the barrier and the authenticator fence are *)
(* up exactly while there is one (state-mutation-queue.ts:12-37).          *)
THEOREM NothingSlipsBehind == QueueSpec => []NothingBehindRestore
<1>1. QueueInv => NothingBehindRestore
  BY NothingBehind DEF QueueInv
<1> QED
  BY <1>1, QueueInvariant, PTL

(* Whatever reloads, saves and restores of the schedule come between, and  *)
(* however many tasks there are: a timed run works only in the generation  *)
(* that its timer fired in, a task is marked running only under the run at *)
(* the head, and no repeated task is left without a timer.                 *)
THEOREM RunsStayCurrent == QueueSpec => []RunsAreCurrent
<1>1. QueueInv => RunsAreCurrent
  BY DEF QueueInv
<1> QED
  BY <1>1, QueueInvariant, PTL

(***************************************************************************)
(* WorkspaceDraft                                                          *)
(***************************************************************************)

WorkspaceTyped ==
    /\ WorkspaceTypeOK
    /\ requestId > 0
    /\ replies \in Seq([kind : CallKinds \cup {"load", "restore"}, ok : BOOLEAN,
                        value : Every, id : Nat])
    /\ spent \in [{"edit", "replaced", "fault"} -> Nat]

SaveCalled == \E i \in DOMAIN calls : calls[i].kind = "save"
SaveReplied == \E i \in DOMAIN replies : replies[i].kind = "save"

(* What the timer will save is what is shown, under the request that       *)
(* counts.                                                                 *)
TimerInv ==
    autosave # Idle => /\ ready
                       /\ autosave.value = workspace /\ workspace \in Workspaces
                       /\ autosave.id = requestId

(* The load whose answer counts is under way.                              *)
LoadPending == \/ requestId \in reading
               \/ \E i \in DOMAIN replies :
                     replies[i].kind = "load" /\ replies[i].id = requestId

(* Replies whose value the renderer takes, or asks for again.              *)
Replaces(r) == r.kind # "save" /\ (r.kind \in {"reset", "import"} => r.ok)
Counts(r) == r.ok /\ (r.kind \in {"load", "save"} => r.id = requestId)

(* No save was sent beside an unanswered replacement.                      *)
OrderInv ==
    /\ \A i \in DOMAIN calls : calls[i].kind = "save" => calls[i].id = requestId
    /\ \A i \in DOMAIN replies : replies[i].kind = "save" => replies[i].id = requestId
    /\ reading # {} => ~SaveCalled /\ ~SaveReplied
    /\ \A i, j \in DOMAIN calls :
          i < j /\ calls[i].kind # "save" => calls[j].kind # "save"
    /\ \A i \in DOMAIN replies : Replaces(replies[i]) =>
          /\ ~SaveCalled
          /\ \A j \in DOMAIN replies : i < j => replies[j].kind # "save"

(* The last value that the renderer takes is the one in the file.          *)
LastTaken ==
    requestId \notin reading =>
       \/ /\ lastGood = onDisk
          /\ \A i \in DOMAIN replies : ~Counts(replies[i])
       \/ \E i \in DOMAIN replies :
             /\ Counts(replies[i]) /\ replies[i].value = onDisk
             /\ \A j \in DOMAIN replies : i < j => ~Counts(replies[j])

(* A refused save that another one follows: the two will cross.            *)
Doomed == \E i \in DOMAIN replies :
             /\ replies[i].kind = "save" /\ ~replies[i].ok
             /\ SaveCalled \/ \E j \in DOMAIN replies : i < j /\ replies[j].kind = "save"

(* The last save under way has what is shown.                              *)
LastSave ==
    IF SaveCalled
    THEN \E i \in DOMAIN calls :
            /\ calls[i].kind = "save" /\ calls[i].value = workspace
            /\ \A j \in DOMAIN calls : i < j => calls[j].kind # "save"
    ELSE \E i \in DOMAIN replies :
            /\ replies[i].kind = "save" /\ replies[i].value = workspace
            /\ \A j \in DOMAIN replies : i < j => replies[j].kind # "save"

ShownInv ==
    autosave = Idle /\ ~LoadPending =>
       IF SaveCalled \/ SaveReplied THEN Doomed \/ LastSave ELSE workspace = lastGood

WorkspaceInv ==
    /\ WorkspaceTyped /\ TimerInv
    /\ ~ready => LoadPending
    /\ ~crossed => OrderInv /\ LastTaken /\ ShownInv
-----------------------------------------------------------------------------
RequestSet == [kind : CallKinds, value : Every, id : Nat]
ReplySet == [kind : CallKinds \cup {"load", "restore"}, ok : BOOLEAN,
             value : Every, id : Nat]

LEMMA SpendingTyped ==
  ASSUME WorkspaceTyped, NEW kind \in {"edit", "replaced", "fault"}, NEW most,
         Spending(kind, most)
  PROVE  spent' \in [{"edit", "replaced", "fault"} -> Nat]
  BY DEF WorkspaceTyped, Spending

(* Main answers: the reply is the last one. *)
LEMMA SaidShape ==
  ASSUME WorkspaceTyped, NEW kind \in CallKinds \cup {"load", "restore"},
         NEW ok \in BOOLEAN, NEW value \in Every, NEW id \in Nat,
         Say(kind, ok, value, id)
  PROVE  /\ replies' \in Seq(ReplySet)
         /\ Len(replies) \in Nat /\ DOMAIN replies = 1..Len(replies)
         /\ DOMAIN replies' = 1..(Len(replies) + 1)
         /\ \A i \in DOMAIN replies : replies'[i] = replies[i]
         /\ replies'[Len(replies) + 1] =
               [kind |-> kind, ok |-> ok, value |-> value, id |-> id]
<1> DEFINE reply == [kind |-> kind, ok |-> ok, value |-> value, id |-> id]
<1>1. replies \in Seq(ReplySet)
  BY DEF WorkspaceTyped, ReplySet
<1>2. reply \in ReplySet
  BY DEF ReplySet
<1>3. replies' = Append(replies, reply)
  BY DEF Say
<1> HIDE DEF reply, ReplySet
<1>4. /\ replies' \in Seq(ReplySet)
      /\ Len(replies) \in Nat /\ DOMAIN replies = 1..Len(replies)
      /\ DOMAIN replies' = 1..(Len(replies) + 1)
      /\ \A i \in DOMAIN replies : replies'[i] = replies[i]
      /\ replies'[Len(replies) + 1] = reply
  BY <1>1, <1>2, <1>3, AppendProperties
<1> QED
  BY <1>4 DEF reply

(* The renderer takes the first reply. *)
LEMMA TookShape ==
  ASSUME WorkspaceTyped, NEW kind, NEW ok, Took(kind, ok)
  PROVE  /\ replies' \in Seq(ReplySet) /\ Reply = replies[1] /\ Reply \in ReplySet
         /\ Reply.kind = kind /\ Reply.ok = ok
         /\ Len(replies) \in Nat /\ Len(replies) > 0
         /\ DOMAIN replies = 1..Len(replies)
         /\ DOMAIN replies' = 1..(Len(replies) - 1)
         /\ \A i \in DOMAIN replies' : replies'[i] = replies[i + 1]
         /\ \A i \in DOMAIN replies :
               i # 1 => i - 1 \in DOMAIN replies' /\ replies'[i - 1] = replies[i]
         /\ 1 \in DOMAIN replies
         /\ UNCHANGED <<onDisk, calls, restore, spent>>
<1>1. replies \in Seq(ReplySet) /\ replies # << >> /\ replies' = Tail(replies)
  BY DEF WorkspaceTyped, ReplySet, Took
<1> HIDE DEF ReplySet
<1>2. /\ replies' \in Seq(ReplySet)
      /\ Head(replies) = replies[1] /\ Head(replies) \in ReplySet
      /\ Len(replies) \in Nat /\ Len(replies) > 0
      /\ DOMAIN replies = 1..Len(replies)
      /\ DOMAIN replies' = 1..(Len(replies) - 1)
      /\ \A i \in DOMAIN replies' : replies'[i] = replies[i + 1]
  BY <1>1, HeadTailProperties
<1>3. ASSUME NEW i \in DOMAIN replies, i # 1
      PROVE  i - 1 \in DOMAIN replies' /\ replies'[i - 1] = replies[i]
  <2>1. i - 1 \in DOMAIN replies' /\ (i - 1) + 1 = i
    BY <1>2, <1>3
  <2> QED
    BY <1>2, <2>1
<1>4. 1 \in DOMAIN replies
  BY <1>2
<1> QED
  BY <1>2, <1>3, <1>4 DEF Took, Reply

(* A request joins the queue of main. *)
LEMMA SentShape ==
  ASSUME WorkspaceTyped, NEW kind \in CallKinds, NEW value \in Every, NEW id \in Nat,
         calls' = Append(calls, [kind |-> kind, value |-> value, id |-> id])
  PROVE  /\ calls' \in Seq(RequestSet)
         /\ Len(calls) \in Nat /\ DOMAIN calls = 1..Len(calls)
         /\ DOMAIN calls' = 1..(Len(calls) + 1)
         /\ \A i \in DOMAIN calls : calls'[i] = calls[i]
         /\ calls'[Len(calls) + 1] = [kind |-> kind, value |-> value, id |-> id]
<1> DEFINE request == [kind |-> kind, value |-> value, id |-> id]
<1>1. calls \in Seq(RequestSet)
  BY DEF WorkspaceTyped, WorkspaceTypeOK, RequestSet
<1>2. request \in RequestSet
  BY DEF RequestSet
<1>3. calls' = Append(calls, request)
  OBVIOUS
<1> HIDE DEF request, RequestSet
<1>4. /\ calls' \in Seq(RequestSet)
      /\ Len(calls) \in Nat /\ DOMAIN calls = 1..Len(calls)
      /\ DOMAIN calls' = 1..(Len(calls) + 1)
      /\ \A i \in DOMAIN calls : calls'[i] = calls[i]
      /\ calls'[Len(calls) + 1] = request
  BY <1>1, <1>2, <1>3, AppendProperties
<1> QED
  BY <1>4 DEF request

(* Main serves the first request of its queue. *)
LEMMA ServedShape ==
  ASSUME WorkspaceTyped, calls # << >>, calls' = Tail(calls)
  PROVE  /\ calls' \in Seq(RequestSet) /\ Head(calls) = calls[1]
         /\ calls[1] \in RequestSet
         /\ Len(calls) \in Nat /\ Len(calls) > 0 /\ DOMAIN calls = 1..Len(calls)
         /\ DOMAIN calls' = 1..(Len(calls) - 1)
         /\ \A i \in DOMAIN calls' : calls'[i] = calls[i + 1]
         /\ \A i \in DOMAIN calls :
               i # 1 => i - 1 \in DOMAIN calls' /\ calls'[i - 1] = calls[i]
<1>1. calls \in Seq(RequestSet)
  BY DEF WorkspaceTyped, WorkspaceTypeOK, RequestSet
<1> HIDE DEF RequestSet
<1>2. /\ calls' \in Seq(RequestSet)
      /\ Head(calls) = calls[1] /\ calls[1] \in RequestSet
      /\ Len(calls) \in Nat /\ Len(calls) > 0
      /\ DOMAIN calls = 1..Len(calls)
      /\ DOMAIN calls' = 1..(Len(calls) - 1)
      /\ \A i \in DOMAIN calls' : calls'[i] = calls[i + 1]
  BY <1>1, HeadTailProperties
<1>3. ASSUME NEW i \in DOMAIN calls, i # 1
      PROVE  i - 1 \in DOMAIN calls' /\ calls'[i - 1] = calls[i]
  <2>1. i - 1 \in DOMAIN calls' /\ (i - 1) + 1 = i
    BY <1>2, <1>3
  <2> QED
    BY <1>2, <2>1
<1> QED
  BY <1>2, <1>3
-----------------------------------------------------------------------------
(* A reply that is not about a save, and comes in an order that is kept.   *)
LEMMA SaidOrdered ==
  ASSUME WorkspaceTyped, OrderInv,
         NEW kind \in {"load", "restore", "reset", "import"},
         NEW ok \in BOOLEAN, NEW value \in Every, NEW id \in Nat,
         Say(kind, ok, value, id),
         (kind \in {"reset", "import"} => ok) => ~SaveCalled,
         calls' = calls, requestId' = requestId, reading' \subseteq reading
  PROVE  OrderInv'
<1>1. /\ Len(replies) \in Nat /\ DOMAIN replies = 1..Len(replies)
      /\ DOMAIN replies' = 1..(Len(replies) + 1)
      /\ \A i \in DOMAIN replies : replies'[i] = replies[i]
      /\ replies'[Len(replies) + 1] =
               [kind |-> kind, ok |-> ok, value |-> value, id |-> id]
  BY SaidShape DEF CallKinds
<1>2. SaveCalled' = SaveCalled
  BY DEF SaveCalled
<1>3. SaveReplied' => SaveReplied
  BY <1>1 DEF SaveReplied
<1>4. \A i \in DOMAIN replies' :
         replies'[i].kind = "save" => i \in DOMAIN replies /\ replies'[i] = replies[i]
  BY <1>1
<1>5. \A i \in DOMAIN replies' :
         replies'[i].kind = "save" => replies'[i].id = requestId'
  BY <1>4 DEF OrderInv
<1>6. reading' # {} => ~SaveCalled' /\ ~SaveReplied'
  BY <1>2, <1>3 DEF OrderInv
<1>7. ASSUME NEW i \in DOMAIN replies', Replaces(replies'[i])
      PROVE  /\ ~SaveCalled
             /\ \A j \in DOMAIN replies' : i < j => replies'[j].kind # "save"
  <2>1. CASE i \in DOMAIN replies
    <3>1. Replaces(replies[i])
      BY <1>1, <1>7, <2>1
    <3> QED
      BY <1>4, <2>1, <3>1 DEF OrderInv
  <2>2. CASE i = Len(replies) + 1
    <3>1. ~SaveCalled
      BY <1>1, <1>7, <2>2 DEF Replaces
    <3> QED
      BY <1>1, <2>2, <3>1
  <2> QED
    BY <1>1, <2>1, <2>2
<1> QED
  BY <1>2, <1>5, <1>6, <1>7 DEF OrderInv, Replaces

(* It says nothing about the saves. *)
LEMMA SaidSaves ==
  ASSUME WorkspaceTyped, NEW kind \in {"load", "restore", "reset", "import"},
         NEW ok \in BOOLEAN, NEW value \in Every, NEW id \in Nat,
         Say(kind, ok, value, id), calls' = calls, workspace' = workspace
  PROVE  /\ SaveCalled' = SaveCalled /\ (SaveReplied' <=> SaveReplied)
         /\ Doomed => Doomed'
         /\ LastSave => LastSave'
<1>1. /\ Len(replies) \in Nat /\ DOMAIN replies = 1..Len(replies)
      /\ DOMAIN replies' = 1..(Len(replies) + 1)
      /\ \A i \in DOMAIN replies : replies'[i] = replies[i]
      /\ replies'[Len(replies) + 1] =
               [kind |-> kind, ok |-> ok, value |-> value, id |-> id]
  BY SaidShape DEF CallKinds
<1>2. SaveCalled' = SaveCalled
  BY DEF SaveCalled
<1>3. SaveReplied' <=> SaveReplied
  BY <1>1 DEF SaveReplied
<1>4. \A i \in DOMAIN replies : i \in DOMAIN replies' /\ replies'[i] = replies[i]
  BY <1>1
<1>5. \A j \in DOMAIN replies' :
         replies'[j].kind = "save" => j \in DOMAIN replies /\ replies[j].kind = "save"
  BY <1>1
<1>6. Doomed => Doomed'
  BY <1>2, <1>4 DEF Doomed
<1>7. LastSave => LastSave'
  BY <1>2, <1>4, <1>5 DEF LastSave
<1> QED
  BY <1>2, <1>3, <1>6, <1>7

(* A reply that the renderer does not take. *)
LEMMA SaidInVain ==
  ASSUME WorkspaceTyped, NEW kind \in CallKinds \cup {"load", "restore"},
         NEW ok \in BOOLEAN, NEW value \in Every, NEW id \in Nat,
         Say(kind, ok, value, id), ok => kind = "load" /\ id # requestId,
         LastTaken, requestId \notin reading,
         UNCHANGED <<onDisk, lastGood, requestId>>
  PROVE  LastTaken'
<1>1. /\ Len(replies) \in Nat /\ DOMAIN replies = 1..Len(replies)
      /\ DOMAIN replies' = 1..(Len(replies) + 1)
      /\ \A i \in DOMAIN replies : replies'[i] = replies[i]
      /\ replies'[Len(replies) + 1] =
               [kind |-> kind, ok |-> ok, value |-> value, id |-> id]
  BY SaidShape
<1>2. ASSUME NEW j \in DOMAIN replies', Counts(replies'[j])
      PROVE  j \in DOMAIN replies /\ Counts(replies[j])
  <2>1. j # Len(replies) + 1
    BY <1>1, <1>2 DEF Counts
  <2> QED
    BY <1>1, <1>2, <2>1
<1>3. CASE lastGood = onDisk /\ \A i \in DOMAIN replies : ~Counts(replies[i])
  BY <1>2, <1>3 DEF LastTaken, Counts
<1>4. ASSUME NEW i \in DOMAIN replies, Counts(replies[i]), replies[i].value = onDisk,
             \A j \in DOMAIN replies : i < j => ~Counts(replies[j])
      PROVE  LastTaken'
  <2>1. i \in DOMAIN replies' /\ replies'[i] = replies[i]
    BY <1>1
  <2>2. \A j \in DOMAIN replies' : i < j => ~Counts(replies'[j])
    BY <1>2, <1>4
  <2> QED
    BY <1>4, <2>1, <2>2 DEF LastTaken, Counts
<1> QED
  BY <1>3, <1>4 DEF LastTaken

(* One that it takes, with what is in the file. *)
LEMMA SaidToStay ==
  ASSUME WorkspaceTyped, NEW kind \in CallKinds \cup {"load", "restore"},
         NEW value \in Every, NEW id \in Nat,
         Say(kind, TRUE, value, id), kind \in {"load", "save"} => id = requestId,
         onDisk' = value, requestId' = requestId
  PROVE  LastTaken'
<1>1. /\ Len(replies) \in Nat /\ DOMAIN replies' = 1..(Len(replies) + 1)
      /\ replies'[Len(replies) + 1] =
               [kind |-> kind, ok |-> TRUE, value |-> value, id |-> id]
  BY SaidShape
<1>2. PICK n \in DOMAIN replies' : n = Len(replies) + 1
  BY <1>1
<1>3. /\ replies'[n].ok /\ replies'[n].value = onDisk'
      /\ replies'[n].kind = kind /\ replies'[n].id = id
      /\ \A j \in DOMAIN replies' : ~(n < j)
  BY <1>1, <1>2
<1> QED
  BY <1>3 DEF LastTaken, Counts

(* What is awaited stays so. *)
LEMMA SaidPending ==
  ASSUME WorkspaceTyped, NEW kind \in CallKinds \cup {"load", "restore"},
         NEW ok \in BOOLEAN, NEW value \in Every, NEW id \in Nat,
         Say(kind, ok, value, id), kind # "load", UNCHANGED <<reading, requestId>>
  PROVE  LoadPending' <=> LoadPending
<1>1. /\ Len(replies) \in Nat /\ DOMAIN replies = 1..Len(replies)
      /\ DOMAIN replies' = 1..(Len(replies) + 1)
      /\ \A i \in DOMAIN replies : replies'[i] = replies[i]
      /\ replies'[Len(replies) + 1] =
               [kind |-> kind, ok |-> ok, value |-> value, id |-> id]
  BY SaidShape
<1>2. \A i \in DOMAIN replies : i \in DOMAIN replies' /\ replies'[i] = replies[i]
  BY <1>1
<1>3. \A i \in DOMAIN replies' :
         replies'[i].kind = "load" => i \in DOMAIN replies /\ replies'[i] = replies[i]
  BY <1>1
<1> QED
  BY <1>2, <1>3 DEF LoadPending
-----------------------------------------------------------------------------
(* Taking a reply keeps the order. *)
LEMMA TookOrdered ==
  ASSUME WorkspaceTyped, OrderInv, NEW kind, NEW ok, Took(kind, ok),
         UNCHANGED <<requestId, reading>>
  PROVE  OrderInv'
<1>1. /\ Len(replies) \in Nat /\ DOMAIN replies = 1..Len(replies)
      /\ DOMAIN replies' = 1..(Len(replies) - 1)
      /\ \A i \in DOMAIN replies' : replies'[i] = replies[i + 1]
      /\ calls' = calls
  BY TookShape
<1>2. \A i \in DOMAIN replies' : i + 1 \in DOMAIN replies
  BY <1>1
<1>3. SaveCalled' = SaveCalled
  BY <1>1 DEF SaveCalled
<1>4. SaveReplied' => SaveReplied
  BY <1>1, <1>2 DEF SaveReplied
<1>5. \A i \in DOMAIN replies' :
         replies'[i].kind = "save" => replies'[i].id = requestId'
  BY <1>1, <1>2 DEF OrderInv
<1>6. ASSUME NEW i \in DOMAIN replies', Replaces(replies'[i])
      PROVE  /\ ~SaveCalled
             /\ \A j \in DOMAIN replies' : i < j => replies'[j].kind # "save"
  <2>1. i + 1 \in DOMAIN replies /\ Replaces(replies[i + 1])
    BY <1>1, <1>2, <1>6
  <2>2. /\ ~SaveCalled
        /\ \A j \in DOMAIN replies : i + 1 < j => replies[j].kind # "save"
    BY <2>1 DEF OrderInv
  <2>3. ASSUME NEW j \in DOMAIN replies', i < j
        PROVE  replies'[j].kind # "save"
    <3>1. j + 1 \in DOMAIN replies /\ i + 1 < j + 1 /\ replies'[j] = replies[j + 1]
      BY <1>1, <1>2, <2>3
    <3> QED
      BY <2>2, <3>1
  <2> QED
    BY <2>2, <2>3
<1>7. reading' # {} => ~SaveCalled' /\ ~SaveReplied'
  BY <1>3, <1>4 DEF OrderInv
<1> QED
  BY <1>1, <1>3, <1>5, <1>6, <1>7 DEF OrderInv, Replaces

(* Nothing about a save is under way behind what replaces the layout. *)
LEMMA NoSaveBehind ==
  ASSUME WorkspaceTyped, OrderInv, NEW kind, NEW ok, Took(kind, ok), Replaces(Reply)
  PROVE  ~SaveCalled /\ ~SaveReplied /\ ~SaveCalled' /\ ~SaveReplied'
<1>1. /\ Reply = replies[1] /\ Len(replies) \in Nat /\ Len(replies) > 0
      /\ DOMAIN replies = 1..Len(replies)
      /\ DOMAIN replies' = 1..(Len(replies) - 1)
      /\ \A i \in DOMAIN replies' : replies'[i] = replies[i + 1]
      /\ calls' = calls
  BY TookShape
<1>2. /\ ~SaveCalled
      /\ \A j \in DOMAIN replies : 1 < j => replies[j].kind # "save"
  BY <1>1 DEF OrderInv
<1>3. replies[1].kind # "save"
  BY <1>1 DEF Replaces
<1>4. \A j \in DOMAIN replies : replies[j].kind # "save"
  BY <1>1, <1>2, <1>3
<1>5. \A j \in DOMAIN replies' : j + 1 \in DOMAIN replies
  BY <1>1
<1> QED
  BY <1>1, <1>2, <1>4, <1>5 DEF SaveCalled, SaveReplied

(* A reply that is passed over leaves the last value to be taken. *)
LEMMA TookInVain ==
  ASSUME WorkspaceTyped, NEW kind, NEW ok, Took(kind, ok), ~Counts(Reply),
         LastTaken, UNCHANGED <<lastGood, requestId, reading>>
  PROVE  LastTaken'
<1>1. /\ Reply = replies[1] /\ Len(replies) \in Nat /\ Len(replies) > 0
      /\ DOMAIN replies = 1..Len(replies)
      /\ DOMAIN replies' = 1..(Len(replies) - 1)
      /\ \A i \in DOMAIN replies' : replies'[i] = replies[i + 1]
      /\ \A i \in DOMAIN replies :
            i # 1 => i - 1 \in DOMAIN replies' /\ replies'[i - 1] = replies[i]
      /\ onDisk' = onDisk
  BY TookShape
<1>2. \A i \in DOMAIN replies' : i + 1 \in DOMAIN replies
  BY <1>1
<1> SUFFICES ASSUME requestId \notin reading PROVE LastTaken'
  BY DEF LastTaken
<1>3. CASE lastGood = onDisk /\ \A i \in DOMAIN replies : ~Counts(replies[i])
  BY <1>1, <1>2, <1>3 DEF LastTaken, Counts
<1>4. ASSUME NEW i \in DOMAIN replies, Counts(replies[i]), replies[i].value = onDisk,
             \A j \in DOMAIN replies : i < j => ~Counts(replies[j])
      PROVE  LastTaken'
  <2>1. i # 1
    BY <1>1, <1>4
  <2>2. PICK k \in DOMAIN replies' : k = i - 1
    BY <1>1, <2>1
  <2>3. replies'[k] = replies[i]
    BY <1>1, <2>1, <2>2
  <2>4. ASSUME NEW j \in DOMAIN replies', k < j
        PROVE  ~Counts(replies'[j])
    <3>1. j + 1 \in DOMAIN replies /\ i < j + 1 /\ replies'[j] = replies[j + 1]
      BY <1>1, <1>2, <2>2, <2>4
    <3> QED
      BY <1>4, <3>1
  <2> QED
    BY <1>1, <1>4, <2>3, <2>4 DEF LastTaken, Counts
<1> QED
  BY <1>3, <1>4 DEF LastTaken

(* So does one that is taken. *)
LEMMA TookToStay ==
  ASSUME WorkspaceTyped, NEW kind, NEW ok, Took(kind, ok),
         requestId \notin reading => Counts(Reply),
         LastTaken, lastGood' = Reply.value, UNCHANGED <<requestId, reading>>
  PROVE  LastTaken'
<1>1. /\ Reply = replies[1] /\ Len(replies) \in Nat /\ Len(replies) > 0
      /\ DOMAIN replies = 1..Len(replies)
      /\ DOMAIN replies' = 1..(Len(replies) - 1)
      /\ \A i \in DOMAIN replies' : replies'[i] = replies[i + 1]
      /\ \A i \in DOMAIN replies :
            i # 1 => i - 1 \in DOMAIN replies' /\ replies'[i - 1] = replies[i]
      /\ onDisk' = onDisk
  BY TookShape
<1>2. \A i \in DOMAIN replies' : i + 1 \in DOMAIN replies
  BY <1>1
<1> SUFFICES ASSUME requestId \notin reading PROVE LastTaken'
  BY DEF LastTaken
<1>3. PICK i \in DOMAIN replies :
         /\ Counts(replies[i]) /\ replies[i].value = onDisk
         /\ \A j \in DOMAIN replies : i < j => ~Counts(replies[j])
  BY <1>1 DEF LastTaken
<1>4. CASE i = 1
  <2>1. \A j \in DOMAIN replies' : ~Counts(replies'[j])
    <3> SUFFICES ASSUME NEW j \in DOMAIN replies' PROVE ~Counts(replies'[j])
      OBVIOUS
    <3>1. j + 1 \in DOMAIN replies /\ 1 < j + 1 /\ replies'[j] = replies[j + 1]
      BY <1>1, <1>2
    <3> QED
      BY <1>3, <1>4, <3>1
  <2> QED
    BY <1>1, <1>3, <1>4, <2>1 DEF LastTaken, Counts
<1>5. CASE i # 1
  <2>1. PICK k \in DOMAIN replies' : k = i - 1
    BY <1>1, <1>5
  <2>2. replies'[k] = replies[i]
    BY <1>1, <1>5, <2>1
  <2>3. ASSUME NEW j \in DOMAIN replies', k < j
        PROVE  ~Counts(replies'[j])
    <3>1. j + 1 \in DOMAIN replies /\ i < j + 1 /\ replies'[j] = replies[j + 1]
      BY <1>1, <1>2, <2>1, <2>3
    <3> QED
      BY <1>3, <3>1
  <2> QED
    BY <1>1, <1>3, <2>2, <2>3 DEF LastTaken, Counts
<1> QED
  BY <1>4, <1>5

(* Any reply but the awaited load leaves it awaited. *)
LEMMA TookPending ==
  ASSUME WorkspaceTyped, NEW kind, NEW ok, Took(kind, ok),
         kind = "load" => Reply.id # requestId, UNCHANGED <<requestId, reading>>
  PROVE  LoadPending' <=> LoadPending
<1>1. /\ Reply = replies[1] /\ Reply.kind = kind
      /\ Len(replies) \in Nat /\ DOMAIN replies = 1..Len(replies)
      /\ DOMAIN replies' = 1..(Len(replies) - 1)
      /\ \A i \in DOMAIN replies' : replies'[i] = replies[i + 1]
      /\ \A i \in DOMAIN replies :
            i # 1 => i - 1 \in DOMAIN replies' /\ replies'[i - 1] = replies[i]
  BY TookShape
<1>2. \A i \in DOMAIN replies' : i + 1 \in DOMAIN replies
  BY <1>1
<1>3. LoadPending' => LoadPending
  BY <1>1, <1>2 DEF LoadPending
<1>4. ASSUME NEW i \in DOMAIN replies, replies[i].kind = "load",
             replies[i].id = requestId
      PROVE  LoadPending'
  <2>1. i # 1
    BY <1>1, <1>4
  <2> QED
    BY <1>1, <1>4, <2>1 DEF LoadPending
<1> QED
  BY <1>3, <1>4 DEF LoadPending

(* A reply about something else leaves the saves as they were. *)
LEMMA TookSaves ==
  ASSUME WorkspaceTyped, NEW kind, NEW ok, Took(kind, ok), kind # "save" \/ ok = TRUE,
         workspace' = workspace
  PROVE  /\ SaveCalled' = SaveCalled
         /\ kind # "save" => (SaveReplied' <=> SaveReplied)
         /\ Doomed => Doomed'
         /\ LastSave => LastSave' \/ /\ ~SaveCalled' /\ ~SaveReplied'
                                     /\ Reply.value = workspace
<1>1. /\ Reply = replies[1] /\ Reply.kind = kind /\ Reply.ok = ok
      /\ Len(replies) \in Nat /\ Len(replies) > 0
      /\ DOMAIN replies = 1..Len(replies)
      /\ DOMAIN replies' = 1..(Len(replies) - 1)
      /\ \A i \in DOMAIN replies' : replies'[i] = replies[i + 1]
      /\ \A i \in DOMAIN replies :
            i # 1 => i - 1 \in DOMAIN replies' /\ replies'[i - 1] = replies[i]
      /\ calls' = calls
  BY TookShape
<1>2. \A i \in DOMAIN replies' : i + 1 \in DOMAIN replies
  BY <1>1
<1>3. SaveCalled' = SaveCalled
  BY <1>1 DEF SaveCalled
<1>4. SaveReplied' => SaveReplied
  BY <1>1, <1>2 DEF SaveReplied
<1>5. kind # "save" => (SaveReplied => SaveReplied')
  <2> SUFFICES ASSUME kind # "save", NEW i \in DOMAIN replies, replies[i].kind = "save"
               PROVE  SaveReplied'
    BY DEF SaveReplied
  <2>1. i # 1
    BY <1>1
  <2> QED
    BY <1>1, <2>1 DEF SaveReplied
<1>6. Doomed => Doomed'
  <2> SUFFICES ASSUME NEW i \in DOMAIN replies,
                      replies[i].kind = "save", ~replies[i].ok,
                      SaveCalled \/ \E j \in DOMAIN replies :
                                       i < j /\ replies[j].kind = "save"
               PROVE  Doomed'
    BY DEF Doomed
  <2>1. i # 1
    BY <1>1
  <2>2. PICK k \in DOMAIN replies' : k = i - 1
    BY <1>1, <2>1
  <2>3. replies'[k] = replies[i]
    BY <1>1, <2>1, <2>2
  <2>4. CASE SaveCalled
    BY <1>3, <2>3, <2>4 DEF Doomed
  <2>5. ASSUME NEW j \in DOMAIN replies, i < j, replies[j].kind = "save"
        PROVE  Doomed'
    <3>1. j # 1
      BY <1>1, <2>5
    <3>2. PICK l \in DOMAIN replies' : l = j - 1
      BY <1>1, <3>1
    <3>3. replies'[l] = replies[j] /\ k < l
      BY <1>1, <2>2, <2>5, <3>1, <3>2
    <3> QED
      BY <2>3, <2>5, <3>3 DEF Doomed
  <2> QED
    BY <2>4, <2>5
<1>7. ASSUME LastSave
      PROVE  \/ LastSave'
             \/ ~SaveCalled' /\ ~SaveReplied' /\ Reply.value = workspace
  <2>1. CASE SaveCalled
    BY <1>1, <1>3, <1>7, <2>1 DEF LastSave
  <2>2. CASE ~SaveCalled
    <3>1. PICK i \in DOMAIN replies :
            /\ replies[i].kind = "save" /\ replies[i].value = workspace
            /\ \A j \in DOMAIN replies : i < j => replies[j].kind # "save"
      BY <1>7, <2>2 DEF LastSave
    <3>2. CASE i = 1
      <4>1. ~SaveReplied'
        <5> SUFFICES ASSUME NEW j \in DOMAIN replies' PROVE replies'[j].kind # "save"
          BY DEF SaveReplied
        <5>1. j + 1 \in DOMAIN replies /\ 1 < j + 1 /\ replies'[j] = replies[j + 1]
          BY <1>1, <1>2
        <5> QED
          BY <3>1, <3>2, <5>1
      <4> QED
        BY <1>1, <1>3, <2>2, <3>1, <3>2, <4>1
    <3>3. CASE i # 1
      <4>1. PICK k \in DOMAIN replies' : k = i - 1
        BY <1>1, <3>3
      <4>2. replies'[k] = replies[i]
        BY <1>1, <3>3, <4>1
      <4>3. ASSUME NEW j \in DOMAIN replies', k < j
            PROVE  replies'[j].kind # "save"
        <5>1. j + 1 \in DOMAIN replies /\ i < j + 1 /\ replies'[j] = replies[j + 1]
          BY <1>1, <1>2, <4>1, <4>3
        <5> QED
          BY <3>1, <5>1
      <4> QED
        BY <1>3, <2>2, <3>1, <4>2, <4>3 DEF LastSave
    <3> QED
      BY <3>2, <3>3
  <2> QED
    BY <2>1, <2>2
<1> QED
  BY <1>3, <1>4, <1>5, <1>6, <1>7
-----------------------------------------------------------------------------
LEMMA EditStep ==
  ASSUME WorkspaceInv, NEW value \in Workspaces, EditLayout(value)
  PROVE  WorkspaceInv'
<1>1. /\ WorkspaceTyped /\ TimerInv /\ (~ready => LoadPending)
      /\ requestId \in Nat /\ requestId > 0 /\ ready \in BOOLEAN
  BY DEF WorkspaceInv, WorkspaceTyped, WorkspaceTypeOK
<1>2. /\ workspace' = value /\ value \in Every
      /\ autosave' = IF ready THEN [value |-> value, id |-> requestId] ELSE autosave
      /\ UNCHANGED <<onDisk, lastGood, ready, requestId, calls, reading, replies,
                     restore, crossed>>
  BY DEF EditLayout, Every
<1>3. spent' \in [{"edit", "replaced", "fault"} -> Nat]
  BY <1>1, SpendingTyped DEF EditLayout
<1>4. autosave' \in [value : Every \cup {NoDraft}, id : Nat]
  BY <1>1, <1>2 DEF WorkspaceTyped, WorkspaceTypeOK
<1>5. WorkspaceTyped'
  BY <1>1, <1>2, <1>3, <1>4 DEF WorkspaceTyped, WorkspaceTypeOK
<1>6. TimerInv' /\ (ready => autosave' # Idle)
  <2>1. CASE ready
    <3>1. /\ autosave'.value = value /\ autosave'.id = requestId
          /\ autosave' # Idle
      BY <1>1, <1>2, <2>1 DEF Idle
    <3> QED
      BY <1>2, <2>1, <3>1 DEF TimerInv
  <2>2. CASE ~ready
    BY <1>1, <1>2, <2>2 DEF TimerInv, Idle
  <2> QED
    BY <2>1, <2>2
<1>7. LoadPending' <=> LoadPending
  BY <1>2 DEF LoadPending
<1>8. ShownInv'
  BY <1>1, <1>6, <1>7 DEF ShownInv, Idle
<1>9. (OrderInv => OrderInv') /\ (LastTaken => LastTaken')
  BY <1>2 DEF OrderInv, LastTaken, SaveCalled, SaveReplied, Replaces, Counts
<1> QED
  BY <1>1, <1>2, <1>5, <1>6, <1>7, <1>8, <1>9 DEF WorkspaceInv

(* Main answers something that is not about a save.                        *)
LEMMA SaidShown ==
  ASSUME WorkspaceTyped, NEW kind \in {"restore", "reset", "import"},
         NEW ok \in BOOLEAN, NEW value \in Every, NEW id \in Nat,
         Say(kind, ok, value, id), ShownInv,
         UNCHANGED <<calls, reading, rendererVars>>
  PROVE  ShownInv'
<1>1. /\ SaveCalled' = SaveCalled /\ (SaveReplied' <=> SaveReplied)
      /\ Doomed => Doomed'
      /\ LastSave => LastSave'
  BY SaidSaves DEF rendererVars
<1>2. LoadPending' <=> LoadPending
  BY SaidPending DEF CallKinds, rendererVars
<1>3. UNCHANGED <<autosave, workspace, lastGood>>
  BY DEF rendererVars
<1> QED
  BY <1>1, <1>2, <1>3 DEF ShownInv, Idle

LEMMA ReplaceSentStep ==
  ASSUME WorkspaceInv, NEW kind \in {"reset", "import"}, NEW value \in Every,
         Spending("replaced", MaxReplaced), Send(kind, value, 0),
         UNCHANGED <<rendererVars, onDisk, reading, restore>>
  PROVE  WorkspaceInv'
<1>1. WorkspaceTyped /\ TimerInv /\ (~ready => LoadPending)
  BY DEF WorkspaceInv
<1>2. UNCHANGED <<workspace, lastGood, ready, autosave, requestId, crossed, onDisk,
                  reading, restore>>
  BY DEF rendererVars
<1>3. spent' \in [{"edit", "replaced", "fault"} -> Nat] /\ kind \in CallKinds
  BY <1>1, SpendingTyped DEF CallKinds
<1>4. TimerInv'
  BY <1>1, <1>2 DEF TimerInv, Idle
<1>5. CASE restore = "barred"
  <2>1. Say(kind, FALSE, value, 0) /\ calls' = calls
    BY <1>5 DEF Send
  <2>2. replies' \in Seq(ReplySet)
    BY <1>1, <1>3, <2>1, SaidShape
  <2>3. WorkspaceTyped'
    BY <1>1, <1>2, <1>3, <2>1, <2>2 DEF WorkspaceTyped, WorkspaceTypeOK, ReplySet
  <2>4. LoadPending' <=> LoadPending
    BY <1>1, <1>2, <1>3, <2>1, SaidPending
  <2>5. OrderInv => OrderInv'
    BY <1>1, <1>2, <2>1, SaidOrdered
  <2>6. ShownInv => ShownInv'
    BY <1>1, <2>1, SaidShown
  <2>7. LastTaken => LastTaken'
    <3>1. CASE requestId \in reading
      BY <1>2, <3>1 DEF LastTaken
    <3>2. CASE requestId \notin reading
      BY <1>1, <1>2, <1>3, <2>1, <3>2, SaidInVain
    <3> QED
      BY <3>1, <3>2
  <2> QED
    BY <1>1, <1>2, <1>4, <2>3, <2>4, <2>5, <2>6, <2>7 DEF WorkspaceInv
<1>6. CASE restore # "barred"
  <2>1. /\ calls' = Append(calls, [kind |-> kind, value |-> value, id |-> 0])
        /\ replies' = replies
    BY <1>6 DEF Send
  <2>2. /\ calls' \in Seq(RequestSet)
        /\ Len(calls) \in Nat /\ DOMAIN calls = 1..Len(calls)
        /\ DOMAIN calls' = 1..(Len(calls) + 1)
        /\ \A i \in DOMAIN calls : calls'[i] = calls[i]
        /\ calls'[Len(calls) + 1].kind = kind
    BY <1>1, <1>3, <2>1, SentShape
  <2>3. WorkspaceTyped'
    BY <1>1, <1>2, <1>3, <2>1, <2>2 DEF WorkspaceTyped, WorkspaceTypeOK, RequestSet
  <2>4. \A i \in DOMAIN calls : i \in DOMAIN calls' /\ calls'[i] = calls[i]
    BY <2>2
  <2>5. \A i \in DOMAIN calls' :
           calls'[i].kind = "save" => i \in DOMAIN calls /\ calls'[i] = calls[i]
    BY <2>2
  <2>6. SaveCalled' <=> SaveCalled
    BY <2>4, <2>5 DEF SaveCalled
  <2>7. (LoadPending' <=> LoadPending) /\ (SaveReplied' <=> SaveReplied)
    BY <1>2, <2>1 DEF LoadPending, SaveReplied
  <2>8. OrderInv => OrderInv'
    <3> SUFFICES ASSUME OrderInv PROVE OrderInv'
      OBVIOUS
    <3>1. \A i \in DOMAIN calls' : calls'[i].kind = "save" => calls'[i].id = requestId'
      BY <1>2, <2>5 DEF OrderInv
    <3>2. ASSUME NEW i \in DOMAIN calls', NEW j \in DOMAIN calls',
                 i < j, calls'[i].kind # "save"
          PROVE  calls'[j].kind # "save"
      <4>1. CASE j \in DOMAIN calls
        <5>1. i \in DOMAIN calls
          BY <2>2, <3>2, <4>1
        <5> QED
          BY <2>2, <3>2, <4>1, <5>1 DEF OrderInv
      <4>2. CASE j \notin DOMAIN calls
        BY <2>5, <4>2
      <4> QED
        BY <4>1, <4>2
    <3> QED
      BY <1>2, <2>1, <2>6, <2>7, <3>1, <3>2 DEF OrderInv, Replaces
  <2>9. LastTaken => LastTaken'
    BY <1>2, <2>1 DEF LastTaken, Counts
  <2>10. (Doomed => Doomed') /\ (LastSave => LastSave')
    <3>1. Doomed => Doomed'
      BY <2>1, <2>6 DEF Doomed
    <3>2. CASE SaveCalled
      BY <1>2, <2>4, <2>5, <2>6, <3>1, <3>2 DEF LastSave
    <3>3. CASE ~SaveCalled
      BY <1>2, <2>1, <2>6, <3>1, <3>3 DEF LastSave
    <3> QED
      BY <3>2, <3>3
  <2>11. ShownInv => ShownInv'
    BY <1>2, <2>6, <2>7, <2>10 DEF ShownInv, Idle
  <2> QED
    BY <1>1, <1>2, <1>4, <2>3, <2>7, <2>8, <2>9, <2>11 DEF WorkspaceInv
<1> QED
  BY <1>5, <1>6

(* The timer fires while nothing but saves is under way, or the saves      *)
(* cross with it.                                                          *)
LEMMA AutosaveStep ==
  ASSUME WorkspaceInv, AutosaveFires
  PROVE  WorkspaceInv'
<1>1. /\ WorkspaceTyped /\ TimerInv /\ autosave # Idle /\ autosave' = Idle
      /\ UNCHANGED <<onDisk, workspace, lastGood, ready, requestId, reading, restore,
                     spent>>
  BY DEF WorkspaceInv, AutosaveFires
<1>2. /\ ready /\ autosave.value = workspace /\ autosave.id = requestId
      /\ workspace \in Every /\ requestId \in Nat
  BY <1>1 DEF TimerInv, WorkspaceTyped, WorkspaceTypeOK
<1>3. /\ Send("save", workspace, requestId)
      /\ crossed' = (crossed \/ Unanswered \cap {"reset", "import", "load", "restore"} # {})
  BY <1>2 DEF AutosaveFires
<1>4. TimerInv' /\ crossed' \in BOOLEAN /\ "save" \in CallKinds
  BY <1>1, <1>3 DEF TimerInv, CallKinds, WorkspaceTyped, WorkspaceTypeOK
<1>5. autosave' \in [value : Every \cup {NoDraft}, id : Nat]
  BY <1>1 DEF Idle
<1>6. ASSUME ~crossed'
      PROVE  /\ reading = {}
             /\ \A i \in DOMAIN calls : calls[i].kind = "save"
             /\ \A i \in DOMAIN replies : replies[i].kind = "save"
             /\ OrderInv /\ LastTaken /\ ~crossed
  <2>1. ~crossed /\ Unanswered \cap {"reset", "import", "load", "restore"} = {}
    BY <1>3, <1>6
  <2>2. reading = {}
    BY <2>1 DEF Unanswered
  <2>3. ASSUME NEW i \in DOMAIN calls PROVE calls[i].kind = "save"
    <3>1. calls \in Seq(RequestSet)
      BY <1>1 DEF WorkspaceTyped, WorkspaceTypeOK, RequestSet
    <3>2. i \in 1..Len(calls) /\ calls[i] \in RequestSet
      <4> HIDE DEF RequestSet
      <4> QED
        BY <3>1, LenProperties, ElementOfSeq
    <3>3. calls[i].kind \in Unanswered
      BY <3>2 DEF Unanswered
    <3> QED
      BY <2>1, <3>2, <3>3 DEF CallKinds, RequestSet
  <2>4. ASSUME NEW i \in DOMAIN replies PROVE replies[i].kind = "save"
    <3>1. replies \in Seq(ReplySet)
      BY <1>1 DEF WorkspaceTyped, ReplySet
    <3>2. i \in 1..Len(replies) /\ replies[i] \in ReplySet
      <4> HIDE DEF ReplySet
      <4> QED
        BY <3>1, LenProperties, ElementOfSeq
    <3>3. replies[i].kind \in Unanswered
      BY <3>2 DEF Unanswered
    <3> QED
      BY <2>1, <3>2, <3>3 DEF CallKinds, ReplySet
  <2> QED
    BY <2>1, <2>2, <2>3, <2>4 DEF WorkspaceInv
<1>7. CASE restore = "barred"
  <2>1. Say("save", FALSE, workspace, requestId) /\ calls' = calls
    BY <1>3, <1>7 DEF Send
  <2>2. /\ replies' \in Seq(ReplySet)
        /\ Len(replies) \in Nat /\ DOMAIN replies = 1..Len(replies)
        /\ DOMAIN replies' = 1..(Len(replies) + 1)
        /\ \A i \in DOMAIN replies : replies'[i] = replies[i]
        /\ replies'[Len(replies) + 1] =
              [kind |-> "save", ok |-> FALSE, value |-> workspace, id |-> requestId]
    BY <1>1, <1>2, <1>4, <2>1, SaidShape
  <2>3. WorkspaceTyped'
    BY <1>1, <1>4, <1>5, <2>1, <2>2 DEF WorkspaceTyped, WorkspaceTypeOK, ReplySet
  <2>4. ASSUME ~crossed' PROVE OrderInv'
    <3>1. \A i \in DOMAIN replies' : replies'[i].kind = "save"
      BY <1>6, <2>2, <2>4
    <3>2. \A i \in DOMAIN replies' : replies'[i].id = requestId'
      BY <1>1, <1>6, <2>2, <2>4 DEF OrderInv
    <3>3. reading' = {}
      BY <1>1, <1>6, <2>4
    <3> QED
      BY <1>1, <1>6, <2>1, <2>4, <3>1, <3>2, <3>3 DEF OrderInv, Replaces
  <2>5. ASSUME ~crossed' PROVE LastTaken'
    BY <1>1, <1>2, <1>4, <1>6, <2>1, <2>5, SaidInVain
  <2>6. PICK n \in DOMAIN replies' : n = Len(replies) + 1
    BY <2>2
  <2>7. /\ replies'[n].kind = "save" /\ replies'[n].value = workspace'
        /\ ~replies'[n].ok
        /\ \A j \in DOMAIN replies' : ~(n < j)
    BY <1>1, <2>2, <2>6
  <2>8. ShownInv'
    <3>1. SaveReplied'
      BY <2>7 DEF SaveReplied
    <3>2. CASE SaveCalled'
      BY <2>7, <3>2 DEF Doomed, ShownInv
    <3>3. CASE ~SaveCalled'
      BY <2>7, <3>1, <3>3 DEF LastSave, ShownInv
    <3> QED
      BY <3>2, <3>3
  <2> QED
    BY <1>1, <1>2, <1>4, <2>3, <2>4, <2>5, <2>8 DEF WorkspaceInv
<1>8. CASE restore # "barred"
  <2>1. /\ calls' = Append(calls, [kind |-> "save", value |-> workspace, id |-> requestId])
        /\ replies' = replies
    BY <1>3, <1>8 DEF Send
  <2>2. /\ calls' \in Seq(RequestSet)
        /\ Len(calls) \in Nat /\ DOMAIN calls = 1..Len(calls)
        /\ DOMAIN calls' = 1..(Len(calls) + 1)
        /\ \A i \in DOMAIN calls : calls'[i] = calls[i]
        /\ calls'[Len(calls) + 1] =
              [kind |-> "save", value |-> workspace, id |-> requestId]
    BY <1>1, <1>2, <1>4, <2>1, SentShape
  <2>3. WorkspaceTyped'
    BY <1>1, <1>4, <1>5, <2>1, <2>2 DEF WorkspaceTyped, WorkspaceTypeOK, RequestSet
  <2>4. ASSUME ~crossed' PROVE OrderInv'
    <3>1. \A i \in DOMAIN calls' : calls'[i].kind = "save"
      BY <1>6, <2>2, <2>4
    <3>2. \A i \in DOMAIN calls' : calls'[i].id = requestId'
      BY <1>1, <1>6, <2>2, <2>4 DEF OrderInv
    <3>3. reading' = {}
      BY <1>1, <1>6, <2>4
    <3> QED
      BY <1>1, <1>6, <2>1, <2>4, <3>1, <3>2, <3>3 DEF OrderInv, Replaces
  <2>5. ASSUME ~crossed' PROVE LastTaken'
    BY <1>1, <1>6, <2>1, <2>5 DEF LastTaken, Counts
  <2>6. PICK n \in DOMAIN calls' : n = Len(calls) + 1
    BY <2>2
  <2>7. /\ calls'[n].kind = "save" /\ calls'[n].value = workspace'
        /\ \A j \in DOMAIN calls' : ~(n < j)
    BY <1>1, <2>2, <2>6
  <2>8. ShownInv'
    BY <2>7 DEF LastSave, ShownInv, SaveCalled
  <2> QED
    BY <1>1, <1>2, <1>4, <2>3, <2>4, <2>5, <2>8 DEF WorkspaceInv
<1> QED
  BY <1>7, <1>8

(* Main serves a request. *)
LEMMA ServedStep ==
  ASSUME WorkspaceInv, NEW ok \in BOOLEAN, Served(ok),
         spent' \in [{"edit", "replaced", "fault"} -> Nat]
  PROVE  WorkspaceInv'
<1> DEFINE request == calls[1]
<1>1. /\ WorkspaceTyped /\ TimerInv /\ (~ready => LoadPending)
      /\ calls # << >> /\ calls' = Tail(calls)
  BY DEF WorkspaceInv, Served
<1>2. /\ UNCHANGED <<workspace, lastGood, ready, autosave, requestId, crossed,
                     reading, restore>>
  BY DEF Served, rendererVars
<1>3. /\ calls' \in Seq(RequestSet) /\ Head(calls) = request
      /\ request \in RequestSet
      /\ Len(calls) \in Nat /\ Len(calls) > 0 /\ DOMAIN calls = 1..Len(calls)
      /\ 1 \in DOMAIN calls
      /\ DOMAIN calls' = 1..(Len(calls) - 1)
      /\ \A i \in DOMAIN calls' : calls'[i] = calls[i + 1]
      /\ \A i \in DOMAIN calls :
            i # 1 => i - 1 \in DOMAIN calls' /\ calls'[i - 1] = calls[i]
  BY <1>1, ServedShape
<1>4. /\ request.kind \in CallKinds /\ request.value \in Every /\ request.id \in Nat
  BY <1>3 DEF RequestSet
<1>5. /\ onDisk' = IF ok THEN request.value ELSE onDisk
      /\ Say(request.kind, ok, request.value, request.id)
  BY <1>3 DEF Served
<1>6. /\ replies' \in Seq(ReplySet)
      /\ Len(replies) \in Nat /\ DOMAIN replies = 1..Len(replies)
      /\ DOMAIN replies' = 1..(Len(replies) + 1)
      /\ \A i \in DOMAIN replies : replies'[i] = replies[i]
      /\ replies'[Len(replies) + 1] =
            [kind |-> request.kind, ok |-> ok, value |-> request.value, id |-> request.id]
  BY <1>1, <1>4, <1>5, SaidShape
<1>7. PICK n \in DOMAIN replies' : n = Len(replies) + 1
  BY <1>6
<1>8. /\ replies'[n].kind = request.kind /\ replies'[n].ok = ok
      /\ replies'[n].value = request.value /\ replies'[n].id = request.id
      /\ \A j \in DOMAIN replies' : ~(n < j)
      /\ \A i \in DOMAIN replies : i \in DOMAIN replies' /\ replies'[i] = replies[i]
                                   /\ i < n
      /\ \A i \in DOMAIN replies' : i = n \/ i \in DOMAIN replies
  BY <1>6, <1>7
<1>9. \A i \in DOMAIN calls' : i + 1 \in DOMAIN calls
  BY <1>3
<1>10. onDisk' \in Every
  BY <1>1, <1>4, <1>5 DEF WorkspaceTyped, WorkspaceTypeOK
<1>11. WorkspaceTyped' /\ TimerInv'
  <2>1. WorkspaceTyped'
    BY <1>1, <1>2, <1>3, <1>6, <1>10
       DEF WorkspaceTyped, WorkspaceTypeOK, RequestSet, ReplySet
  <2> QED
    BY <1>1, <1>2, <2>1 DEF TimerInv, Idle
<1>12. LoadPending' <=> LoadPending
  BY <1>1, <1>2, <1>4, <1>5, SaidPending DEF CallKinds
<1> HIDE DEF request
<1>13. SaveCalled' => SaveCalled
  BY <1>3, <1>9 DEF SaveCalled
<1>14. SaveCalled => SaveCalled' \/ request.kind = "save"
  <2> SUFFICES ASSUME NEW i \in DOMAIN calls, calls[i].kind = "save", request.kind # "save"
               PROVE  SaveCalled'
    BY DEF SaveCalled
  <2>1. i # 1
    BY DEF request
  <2> QED
    BY <1>3, <2>1 DEF SaveCalled
<1>15. (SaveReplied => SaveReplied') /\ (request.kind = "save" => SaveReplied' /\ SaveCalled)
  BY <1>3, <1>8 DEF SaveReplied, SaveCalled, request
<1>16. SaveReplied' => SaveReplied \/ request.kind = "save"
  BY <1>8 DEF SaveReplied
<1>17. ASSUME OrderInv PROVE OrderInv'
  <2>1. \A i \in DOMAIN calls' : calls'[i].kind = "save" => calls'[i].id = requestId'
    BY <1>2, <1>3, <1>9, <1>17 DEF OrderInv
  <2>2. request.kind = "save" => request.id = requestId
    BY <1>3, <1>17 DEF OrderInv, request
  <2>3. \A i \in DOMAIN replies' :
           replies'[i].kind = "save" => replies'[i].id = requestId'
    BY <1>2, <1>8, <1>17, <2>2 DEF OrderInv
  <2>4. reading' # {} => ~SaveCalled' /\ ~SaveReplied'
    BY <1>2, <1>13, <1>15, <1>16, <1>17 DEF OrderInv
  <2>5. ASSUME NEW i \in DOMAIN calls', NEW j \in DOMAIN calls',
               i < j, calls'[i].kind # "save"
        PROVE  calls'[j].kind # "save"
    <3>1. /\ i + 1 \in DOMAIN calls /\ j + 1 \in DOMAIN calls /\ i + 1 < j + 1
          /\ calls[i + 1] = calls'[i] /\ calls[j + 1] = calls'[j]
      BY <1>3, <1>9, <2>5
    <3> QED
      BY <1>17, <2>5, <3>1 DEF OrderInv
  <2>6. ASSUME NEW i \in DOMAIN replies', Replaces(replies'[i])
        PROVE  /\ ~SaveCalled'
               /\ \A j \in DOMAIN replies' : i < j => replies'[j].kind # "save"
    <3>1. CASE i \in DOMAIN replies
      <4>1. /\ ~SaveCalled
            /\ \A j \in DOMAIN replies : i < j => replies[j].kind # "save"
        BY <1>8, <1>17, <2>6, <3>1 DEF OrderInv
      <4>2. request.kind # "save"
        BY <1>15, <4>1
      <4> QED
        BY <1>8, <1>13, <4>1, <4>2
    <3>2. CASE i = n
      <4>1. request.kind # "save"
        BY <1>8, <2>6, <3>2 DEF Replaces
      <4>2. ~SaveCalled'
        <5> SUFFICES ASSUME NEW k \in DOMAIN calls' PROVE calls'[k].kind # "save"
          BY DEF SaveCalled
        <5>1. k + 1 \in DOMAIN calls /\ 1 < k + 1 /\ calls'[k] = calls[k + 1]
          BY <1>3, <1>9
        <5> QED
          BY <1>3, <1>17, <4>1, <5>1 DEF OrderInv, request
      <4> QED
        BY <1>8, <3>2, <4>2
    <3> QED
      BY <1>8, <3>1, <3>2
  <2> QED
    BY <2>1, <2>3, <2>4, <2>5, <2>6 DEF OrderInv, Replaces
<1>18. ASSUME OrderInv, LastTaken PROVE LastTaken'
  <2>1. CASE ok
    <3>1. request.kind \in {"load", "save"} => request.id = requestId
      BY <1>3, <1>4, <1>18 DEF CallKinds, OrderInv, request
    <3>2. Say(request.kind, TRUE, request.value, request.id) /\ onDisk' = request.value
      BY <1>5, <2>1
    <3> QED
      BY <1>1, <1>2, <1>4, <3>1, <3>2, SaidToStay
  <2>2. CASE ~ok
    <3>1. CASE requestId \in reading
      BY <1>2, <3>1 DEF LastTaken
    <3>2. CASE requestId \notin reading
      BY <1>1, <1>2, <1>4, <1>5, <1>18, <2>2, <3>2, SaidInVain
    <3> QED
      BY <3>1, <3>2
  <2> QED
    BY <2>1, <2>2
<1>19. Doomed => Doomed'
  <2> SUFFICES ASSUME NEW i \in DOMAIN replies,
                      replies[i].kind = "save", ~replies[i].ok,
                      SaveCalled \/ \E j \in DOMAIN replies :
                                       i < j /\ replies[j].kind = "save"
               PROVE  Doomed'
    BY DEF Doomed
  <2>1. CASE SaveCalled
    <3>1. CASE SaveCalled'
      BY <1>8, <3>1 DEF Doomed
    <3>2. CASE request.kind = "save"
      BY <1>8, <3>2 DEF Doomed
    <3> QED
      BY <1>14, <2>1, <3>1, <3>2
  <2>2. CASE \E j \in DOMAIN replies : i < j /\ replies[j].kind = "save"
    BY <1>8, <2>2 DEF Doomed
  <2> QED
    BY <2>1, <2>2
<1>20. LastSave => LastSave'
  <2> SUFFICES ASSUME LastSave PROVE LastSave'
    OBVIOUS
  <2>1. CASE SaveCalled
    <3>1. PICK i \in DOMAIN calls :
            /\ calls[i].kind = "save" /\ calls[i].value = workspace
            /\ \A j \in DOMAIN calls : i < j => calls[j].kind # "save"
      BY <2>1 DEF LastSave
    <3>2. CASE i = 1
      <4>1. ~SaveCalled'
        <5> SUFFICES ASSUME NEW k \in DOMAIN calls' PROVE calls'[k].kind # "save"
          BY DEF SaveCalled
        <5>1. k + 1 \in DOMAIN calls /\ 1 < k + 1 /\ calls'[k] = calls[k + 1]
          BY <1>3, <1>9
        <5> QED
          BY <3>1, <3>2, <5>1
      <4>2. request.kind = "save" /\ request.value = workspace
        BY <3>1, <3>2 DEF request
      <4> QED
        BY <1>2, <1>8, <4>1, <4>2 DEF LastSave
    <3>3. CASE i # 1
      <4>1. PICK k \in DOMAIN calls' : k = i - 1
        BY <1>3, <3>3
      <4>2. calls'[k] = calls[i]
        BY <1>3, <3>3, <4>1
      <4>3. ASSUME NEW j \in DOMAIN calls', k < j
            PROVE  calls'[j].kind # "save"
        <5>1. j + 1 \in DOMAIN calls /\ i < j + 1 /\ calls'[j] = calls[j + 1]
          BY <1>3, <1>9, <4>1, <4>3
        <5> QED
          BY <3>1, <5>1
      <4>4. SaveCalled'
        BY <3>1, <4>2 DEF SaveCalled
      <4> QED
        BY <1>2, <3>1, <4>2, <4>3, <4>4 DEF LastSave
    <3> QED
      BY <3>2, <3>3
  <2>2. CASE ~SaveCalled
    <3>1. PICK i \in DOMAIN replies :
            /\ replies[i].kind = "save" /\ replies[i].value = workspace
            /\ \A j \in DOMAIN replies : i < j => replies[j].kind # "save"
      BY <2>2 DEF LastSave
    <3>2. request.kind # "save" /\ ~SaveCalled'
      BY <1>13, <1>15, <2>2
    <3>3. \A j \in DOMAIN replies' : i < j => replies'[j].kind # "save"
      BY <1>8, <3>1, <3>2
    <3> QED
      BY <1>2, <1>8, <3>1, <3>2, <3>3 DEF LastSave
  <2> QED
    BY <2>1, <2>2
<1>21. ShownInv => ShownInv'
  <2>1. (SaveCalled \/ SaveReplied) <=> (SaveCalled' \/ SaveReplied')
    BY <1>13, <1>14, <1>15, <1>16
  <2> QED
    BY <1>2, <1>12, <1>19, <1>20, <2>1 DEF ShownInv, Idle
<1> QED
  BY <1>1, <1>2, <1>11, <1>12, <1>17, <1>18, <1>21 DEF WorkspaceInv

(* Main reads the file for a load. *)
LEMMA ReadStep ==
  ASSUME WorkspaceInv, NEW id \in reading, ReadLayout(id)
  PROVE  WorkspaceInv'
<1>1. /\ WorkspaceTyped /\ TimerInv /\ (~ready => LoadPending)
      /\ onDisk \in Every /\ requestId \in Nat /\ reading \subseteq 1..requestId
  BY DEF WorkspaceInv, WorkspaceTyped, WorkspaceTypeOK
<1>2. /\ UNCHANGED <<workspace, lastGood, ready, autosave, requestId, crossed,
                     onDisk, calls, restore, spent>>
      /\ reading' = reading \ {id} /\ Say("load", TRUE, onDisk, id)
  BY DEF ReadLayout, rendererVars
<1>3. id \in Nat
  BY <1>1
<1>4. /\ replies' \in Seq(ReplySet)
      /\ Len(replies) \in Nat /\ DOMAIN replies = 1..Len(replies)
      /\ DOMAIN replies' = 1..(Len(replies) + 1)
      /\ \A i \in DOMAIN replies : replies'[i] = replies[i]
      /\ replies'[Len(replies) + 1] =
            [kind |-> "load", ok |-> TRUE, value |-> onDisk, id |-> id]
  BY <1>1, <1>2, <1>3, SaidShape
<1>5. PICK n \in DOMAIN replies' : n = Len(replies) + 1
  BY <1>4
<1>6. /\ replies'[n].kind = "load" /\ replies'[n].id = id
      /\ \A i \in DOMAIN replies : i \in DOMAIN replies' /\ replies'[i] = replies[i]
  BY <1>4, <1>5
<1>7. WorkspaceTyped' /\ TimerInv'
  <2>1. WorkspaceTyped'
    BY <1>1, <1>2, <1>4 DEF WorkspaceTyped, WorkspaceTypeOK, ReplySet
  <2> QED
    BY <1>1, <1>2, <2>1 DEF TimerInv, Idle
<1>8. LoadPending => LoadPending'
  <2>1. CASE requestId = id
    BY <1>2, <1>6, <2>1 DEF LoadPending
  <2>2. CASE requestId # id
    BY <1>2, <1>6, <2>2 DEF LoadPending
  <2> QED
    BY <2>1, <2>2
<1>9. ASSUME OrderInv PROVE OrderInv' /\ ~SaveCalled /\ ~SaveReplied
  <2>1. ~SaveCalled /\ ~SaveReplied
    BY <1>9 DEF OrderInv
  <2> QED
    BY <1>1, <1>2, <1>3, <1>9, <2>1, SaidOrdered
<1>10. LastTaken => LastTaken'
  <2>1. CASE id = requestId
    BY <1>1, <1>2, <1>3, <2>1, SaidToStay
  <2>2. CASE id # requestId
    <3>1. CASE requestId \in reading
      BY <1>2, <2>2, <3>1 DEF LastTaken
    <3>2. CASE requestId \notin reading
      BY <1>1, <1>2, <1>3, <2>2, <3>2, SaidInVain
    <3> QED
      BY <3>1, <3>2
  <2> QED
    BY <2>1, <2>2
<1>11. OrderInv /\ ShownInv => ShownInv'
  <2>1. /\ SaveCalled' = SaveCalled /\ (SaveReplied' <=> SaveReplied)
    BY <1>1, <1>2, <1>3, SaidSaves
  <2> QED
    BY <1>2, <1>8, <1>9, <2>1 DEF ShownInv, Idle
<1> QED
  BY <1>1, <1>2, <1>7, <1>8, <1>9, <1>10, <1>11 DEF WorkspaceInv

LEMMA BarStep ==
  ASSUME WorkspaceInv, BarQueue
  PROVE  WorkspaceInv'
<1>1. /\ UNCHANGED <<workspace, lastGood, ready, autosave, requestId, crossed,
                     onDisk, calls, reading, replies, spent>>
      /\ restore' = "barred"
  BY DEF BarQueue, rendererVars
<1>2. WorkspaceTyped'
  BY <1>1 DEF WorkspaceInv, WorkspaceTyped, WorkspaceTypeOK
<1> QED
  BY <1>1, <1>2
     DEF WorkspaceInv, TimerInv, LoadPending, OrderInv, LastTaken, ShownInv, Idle,
         SaveCalled, SaveReplied, Replaces, Counts, Doomed, LastSave

(* The restore, or its refusal, comes when no call waits. *)
LEMMA RestoreStep ==
  ASSUME WorkspaceInv, RestoreLayout \/ RestoreRefused
  PROVE  WorkspaceInv'
<1>1. /\ WorkspaceTyped /\ TimerInv /\ (~ready => LoadPending)
      /\ UNCHANGED <<workspace, lastGood, ready, autosave, requestId, crossed,
                     calls, reading, spent>>
      /\ UNCHANGED rendererVars
      /\ calls = << >> /\ restore' = "over"
  BY DEF WorkspaceInv, RestoreLayout, RestoreRefused, rendererVars
<1>2. PICK ok \in BOOLEAN : /\ Say("restore", ok, Former, 0)
                            /\ onDisk' = IF ok THEN Former ELSE onDisk
  BY DEF RestoreLayout, RestoreRefused
<1>3. Former \in Every /\ onDisk' \in Every
  BY <1>1, <1>2 DEF Every, WorkspaceTyped, WorkspaceTypeOK
<1>4. ~SaveCalled
  BY <1>1 DEF SaveCalled
<1>5. replies' \in Seq(ReplySet)
  BY <1>1, <1>2, <1>3, SaidShape
<1>6. WorkspaceTyped' /\ TimerInv'
  <2>1. WorkspaceTyped'
    BY <1>1, <1>3, <1>5 DEF WorkspaceTyped, WorkspaceTypeOK, ReplySet
  <2> QED
    BY <1>1, <2>1 DEF TimerInv, Idle
<1>7. LoadPending' <=> LoadPending
  BY <1>1, <1>2, <1>3, SaidPending
<1>8. OrderInv => OrderInv'
  BY <1>1, <1>2, <1>3, <1>4, SaidOrdered
<1>9. LastTaken => LastTaken'
  <2>1. CASE ok
    <3>1. Say("restore", TRUE, Former, 0) /\ onDisk' = Former
      BY <1>2, <2>1
    <3> QED
      BY <1>1, <1>3, <3>1, SaidToStay
  <2>2. CASE ~ok
    <3>1. CASE requestId \in reading
      BY <1>1, <3>1 DEF LastTaken
    <3>2. CASE requestId \notin reading
      BY <1>1, <1>2, <1>3, <2>2, <3>2, SaidInVain
    <3> QED
      BY <3>1, <3>2
  <2> QED
    BY <2>1, <2>2
<1>10. ShownInv => ShownInv'
  BY <1>1, <1>2, <1>3, SaidShown
<1> QED
  BY <1>1, <1>6, <1>7, <1>8, <1>9, <1>10 DEF WorkspaceInv
-----------------------------------------------------------------------------
(* What is shown is the last good value, and no save is under way.         *)
LEMMA ShownAgain ==
  ASSUME ~SaveCalled', ~SaveReplied', workspace' = lastGood'
  PROVE  ShownInv'
  BY DEF ShownInv

LEMMA LoadAnsweredStep ==
  ASSUME WorkspaceInv, LoadAnswered
  PROVE  WorkspaceInv'
<1>1. /\ WorkspaceTyped /\ TimerInv /\ (~ready => LoadPending)
      /\ Took("load", TRUE) /\ UNCHANGED <<requestId, reading, crossed>>
  BY DEF WorkspaceInv, LoadAnswered
<1>2. /\ replies' \in Seq(ReplySet) /\ Reply \in ReplySet
      /\ Reply.kind = "load" /\ Reply.ok
      /\ UNCHANGED <<onDisk, calls, restore, spent>>
  BY <1>1, TookShape
<1>3. Reply.value \in Every /\ Replaces(Reply)
  BY <1>2 DEF ReplySet, Replaces
<1>4. OrderInv => OrderInv' /\ ~SaveCalled' /\ ~SaveReplied' /\ ~SaveCalled /\ ~SaveReplied
  BY <1>1, <1>3, TookOrdered, NoSaveBehind
<1>5. CASE Reply.id = requestId
  <2>1. /\ workspace' = Reply.value /\ lastGood' = Reply.value /\ autosave' = Idle
        /\ ready' = TRUE
    BY <1>5 DEF LoadAnswered, ShowSaved
  <2>2. autosave' \in [value : Every \cup {NoDraft}, id : Nat] /\ ready' \in BOOLEAN
    BY <2>1 DEF Idle
  <2>3. WorkspaceTyped' /\ TimerInv'
    <3>1. WorkspaceTyped'
      BY <1>1, <1>2, <1>3, <2>1, <2>2 DEF WorkspaceTyped, WorkspaceTypeOK, ReplySet
    <3> QED
      BY <2>1, <3>1 DEF TimerInv, Idle
  <2>4. Counts(Reply)
    BY <1>2, <1>5 DEF Counts
  <2>5. LastTaken => LastTaken'
    BY <1>1, <2>1, <2>4, TookToStay
  <2>6. OrderInv => ShownInv'
    BY <1>4, <2>1, ShownAgain
  <2> QED
    BY <1>1, <1>4, <2>1, <2>3, <2>5, <2>6 DEF WorkspaceInv
<1>6. CASE Reply.id # requestId
  <2>1. UNCHANGED <<workspace, autosave, lastGood, ready>>
    BY <1>6 DEF LoadAnswered
  <2>2. WorkspaceTyped' /\ TimerInv'
    <3>1. WorkspaceTyped'
      BY <1>1, <1>2, <2>1 DEF WorkspaceTyped, WorkspaceTypeOK, ReplySet
    <3> QED
      BY <1>1, <2>1, <3>1 DEF TimerInv, Idle
  <2>3. ~Counts(Reply)
    BY <1>2, <1>6 DEF Counts
  <2>4. LastTaken => LastTaken'
    BY <1>1, <2>1, <2>3, TookInVain
  <2>5. LoadPending' <=> LoadPending
    BY <1>1, <1>6, TookPending
  <2>6. OrderInv /\ ShownInv => ShownInv'
    BY <1>4, <2>1, <2>5 DEF ShownInv, Idle
  <2> QED
    BY <1>1, <1>4, <2>1, <2>2, <2>4, <2>5, <2>6 DEF WorkspaceInv
<1> QED
  BY <1>5, <1>6

LEMMA SaveAnsweredStep ==
  ASSUME WorkspaceInv, SaveAnswered
  PROVE  WorkspaceInv'
<1>1. /\ WorkspaceTyped /\ TimerInv /\ (~ready => LoadPending)
      /\ Took("save", TRUE)
      /\ lastGood' = IF Reply.id = requestId THEN Reply.value ELSE lastGood
      /\ UNCHANGED <<workspace, ready, autosave, requestId, reading, crossed>>
  BY DEF WorkspaceInv, SaveAnswered
<1>2. /\ replies' \in Seq(ReplySet) /\ Reply \in ReplySet /\ Reply = replies[1]
      /\ Reply.kind = "save" /\ Reply.ok /\ 1 \in DOMAIN replies
      /\ UNCHANGED <<onDisk, calls, restore, spent>>
  BY <1>1, TookShape
<1>3. Reply.value \in Every /\ lastGood' \in Every
  BY <1>1, <1>2 DEF ReplySet, WorkspaceTyped, WorkspaceTypeOK
<1>4. WorkspaceTyped' /\ TimerInv'
  <2>1. WorkspaceTyped'
    BY <1>1, <1>2, <1>3 DEF WorkspaceTyped, WorkspaceTypeOK, ReplySet
  <2> QED
    BY <1>1, <2>1 DEF TimerInv, Idle
<1>5. LoadPending' <=> LoadPending
  BY <1>1, TookPending
<1>6. ASSUME OrderInv
      PROVE  /\ OrderInv' /\ Reply.id = requestId /\ Counts(Reply)
             /\ lastGood' = Reply.value
  <2>1. OrderInv'
    BY <1>1, <1>6, TookOrdered
  <2>2. Reply.id = requestId
    BY <1>2, <1>6 DEF OrderInv
  <2> QED
    BY <1>1, <1>2, <2>1, <2>2 DEF Counts
<1>7. OrderInv /\ LastTaken => LastTaken'
  BY <1>1, <1>6, TookToStay
<1>8. ASSUME OrderInv, ShownInv PROVE ShownInv'
  <2> SUFFICES ASSUME autosave = Idle, ~LoadPending
               PROVE  ShownInv'
    BY <1>1, <1>5 DEF ShownInv, Idle
  <2>1. SaveReplied
    BY <1>2 DEF SaveReplied
  <2>2. Doomed \/ LastSave
    BY <1>8, <2>1 DEF ShownInv
  <2>3. /\ Doomed => Doomed'
        /\ LastSave => \/ LastSave'
                       \/ /\ ~SaveCalled' /\ ~SaveReplied'
                          /\ Reply.value = workspace
    BY <1>1, TookSaves
  <2>4. CASE Doomed'
    <3>1. SaveReplied'
      BY <2>4 DEF Doomed, SaveReplied
    <3> QED
      BY <2>4, <3>1 DEF ShownInv
  <2>5. CASE LastSave'
    <3>1. SaveCalled' \/ SaveReplied'
      BY <2>5 DEF LastSave, SaveReplied
    <3> QED
      BY <2>5, <3>1 DEF ShownInv
  <2>6. CASE ~SaveCalled' /\ ~SaveReplied' /\ Reply.value = workspace
    BY <1>1, <1>6, <1>8, <2>6, ShownAgain
  <2> QED
    BY <2>2, <2>3, <2>4, <2>5, <2>6
<1> QED
  BY <1>1, <1>4, <1>5, <1>6, <1>7, <1>8 DEF WorkspaceInv

(* A refused save that no other one follows. *)
LEMMA SaveRefusedStep ==
  ASSUME WorkspaceInv, SaveRefused
  PROVE  WorkspaceInv'
<1>1. /\ WorkspaceTyped /\ TimerInv /\ (~ready => LoadPending)
      /\ Took("save", FALSE) /\ UNCHANGED <<lastGood, ready, requestId, reading>>
  BY DEF WorkspaceInv, SaveRefused
<1>2. /\ replies' \in Seq(ReplySet) /\ Reply = replies[1]
      /\ Reply.kind = "save" /\ Reply.ok = FALSE
      /\ UNCHANGED <<onDisk, calls, restore, spent>>
  BY <1>1, TookShape
<1>3. 1 \in DOMAIN replies
  BY <1>1, TookShape
<1>4. LoadPending' <=> LoadPending
  BY <1>1, TookPending
<1>5. /\ OrderInv => OrderInv'
      /\ LastTaken => LastTaken'
  <2>1. ~Counts(Reply)
    BY <1>2 DEF Counts
  <2> QED
    BY <1>1, <2>1, TookOrdered, TookInVain
<1>6. OrderInv => Reply.id = requestId
  BY <1>2, <1>3 DEF OrderInv
<1>7. CASE Reply.id = requestId
  <2>1. /\ workspace' = lastGood /\ autosave' = Idle
        /\ crossed' = (crossed \/ "save" \in Unanswered')
    BY <1>7 DEF SaveRefused, ShowSaved
  <2>2. /\ autosave' \in [value : Every \cup {NoDraft}, id : Nat]
        /\ workspace' \in Every /\ crossed' \in BOOLEAN
    BY <1>1, <2>1 DEF Idle, WorkspaceTyped, WorkspaceTypeOK
  <2>3. WorkspaceTyped' /\ TimerInv'
    <3>1. WorkspaceTyped'
      BY <1>1, <1>2, <2>2 DEF WorkspaceTyped, WorkspaceTypeOK, ReplySet
    <3> QED
      BY <2>1, <3>1 DEF TimerInv, Idle
  <2>4. ASSUME ~crossed' PROVE ShownInv' /\ ~crossed
    <3>1. ~crossed /\ "save" \notin Unanswered'
      BY <2>1, <2>4
    <3>2. ~SaveCalled'
      <4> SUFFICES ASSUME NEW i \in DOMAIN calls', calls'[i].kind = "save" PROVE FALSE
        BY DEF SaveCalled
      <4>1. i \in 1..Len(calls')
        <5>1. calls' \in Seq(RequestSet)
          BY <2>3 DEF WorkspaceTyped, WorkspaceTypeOK, RequestSet
        <5> HIDE DEF RequestSet
        <5> QED
          BY <5>1, LenProperties
      <4> QED
        BY <3>1, <4>1 DEF Unanswered
    <3>3. ~SaveReplied'
      <4> SUFFICES ASSUME NEW i \in DOMAIN replies', replies'[i].kind = "save"
                   PROVE  FALSE
        BY DEF SaveReplied
      <4>1. i \in 1..Len(replies')
        <5> HIDE DEF ReplySet
        <5> QED
          BY <1>2, LenProperties
      <4> QED
        BY <3>1, <4>1 DEF Unanswered
    <3> QED
      BY <1>1, <2>1, <3>1, <3>2, <3>3, ShownAgain
  <2> QED
    BY <1>1, <1>4, <1>5, <2>3, <2>4 DEF WorkspaceInv
<1>8. CASE Reply.id # requestId
  <2>1. UNCHANGED <<workspace, autosave, crossed>>
    BY <1>8 DEF SaveRefused
  <2>2. WorkspaceTyped' /\ TimerInv'
    <3>1. WorkspaceTyped'
      BY <1>1, <1>2, <2>1 DEF WorkspaceTyped, WorkspaceTypeOK, ReplySet
    <3> QED
      BY <1>1, <2>1, <3>1 DEF TimerInv, Idle
  <2>3. crossed
    BY <1>6, <1>8 DEF WorkspaceInv
  <2> QED
    BY <1>1, <1>4, <2>1, <2>2, <2>3 DEF WorkspaceInv
<1> QED
  BY <1>7, <1>8

LEMMA ReplaceAnsweredStep ==
  ASSUME WorkspaceInv, ReplaceAnswered
  PROVE  WorkspaceInv'
<1>1. /\ WorkspaceTyped /\ TimerInv /\ (~ready => LoadPending)
      /\ lastGood' = Reply.value /\ workspace' = Reply.value /\ autosave' = Idle
      /\ UNCHANGED <<ready, requestId, reading, crossed>>
  BY DEF WorkspaceInv, ReplaceAnswered, ShowSaved
<1>2. PICK kind \in {"reset", "import"} : Took(kind, TRUE)
  BY DEF ReplaceAnswered
<1>3. /\ replies' \in Seq(ReplySet) /\ Reply \in ReplySet
      /\ Reply.kind = kind /\ Reply.ok = TRUE
      /\ UNCHANGED <<onDisk, calls, restore, spent>>
  BY <1>1, <1>2, TookShape
<1>4. Reply.value \in Every /\ Replaces(Reply) /\ Counts(Reply)
  BY <1>3 DEF ReplySet, Replaces, Counts
<1>5. autosave' \in [value : Every \cup {NoDraft}, id : Nat]
  BY <1>1 DEF Idle
<1>6. WorkspaceTyped' /\ TimerInv'
  <2>1. WorkspaceTyped'
    BY <1>1, <1>3, <1>4, <1>5 DEF WorkspaceTyped, WorkspaceTypeOK, ReplySet
  <2> QED
    BY <1>1, <2>1 DEF TimerInv, Idle
<1>7. LoadPending' <=> LoadPending
  BY <1>1, <1>2, TookPending
<1>8. OrderInv => OrderInv' /\ ShownInv'
  <2> SUFFICES ASSUME OrderInv PROVE OrderInv' /\ ShownInv'
    OBVIOUS
  <2>1. OrderInv'
    BY <1>1, <1>2, TookOrdered
  <2>2. ~SaveCalled' /\ ~SaveReplied'
    BY <1>1, <1>2, <1>4, NoSaveBehind
  <2> QED
    BY <1>1, <2>1, <2>2, ShownAgain
<1>9. LastTaken => LastTaken'
  BY <1>1, <1>2, <1>4, TookToStay
<1> QED
  BY <1>1, <1>6, <1>7, <1>8, <1>9 DEF WorkspaceInv

LEMMA RefusalStep ==
  ASSUME WorkspaceInv, ReplaceRefused \/ RestoreRefusalAnswered
  PROVE  WorkspaceInv'
<1>1. /\ WorkspaceTyped /\ TimerInv /\ (~ready => LoadPending)
      /\ UNCHANGED <<workspace, lastGood, ready, autosave, requestId, reading, crossed>>
  BY DEF WorkspaceInv, ReplaceRefused, RestoreRefusalAnswered
<1>2. PICK kind \in {"reset", "import", "restore"} : Took(kind, FALSE)
  BY DEF ReplaceRefused, RestoreRefusalAnswered
<1>3. /\ replies' \in Seq(ReplySet) /\ Reply.ok = FALSE
      /\ UNCHANGED <<onDisk, calls, restore, spent>>
  BY <1>1, <1>2, TookShape
<1>4. ~Counts(Reply)
  BY <1>3 DEF Counts
<1>5. WorkspaceTyped' /\ TimerInv'
  <2>1. WorkspaceTyped'
    BY <1>1, <1>3 DEF WorkspaceTyped, WorkspaceTypeOK, ReplySet
  <2> QED
    BY <1>1, <2>1 DEF TimerInv, Idle
<1>6. LoadPending' <=> LoadPending
  BY <1>1, <1>2, TookPending
<1>7. OrderInv => OrderInv'
  BY <1>1, <1>2, TookOrdered
<1>8. LastTaken => LastTaken'
  BY <1>1, <1>2, <1>4, TookInVain
<1>9. ShownInv => ShownInv'
  <2>1. /\ SaveCalled' = SaveCalled /\ (SaveReplied' <=> SaveReplied)
        /\ Doomed => Doomed'
        /\ LastSave => \/ LastSave'
                       \/ /\ ~SaveCalled' /\ ~SaveReplied'
                          /\ Reply.value = workspace
    BY <1>1, <1>2, TookSaves
  <2> QED
    BY <1>1, <1>6, <2>1 DEF ShownInv, Idle
<1> QED
  BY <1>1, <1>5, <1>6, <1>7, <1>8, <1>9 DEF WorkspaceInv

(* After a restore a new load is awaited, and nothing before it counts.    *)
LEMMA RestoreAnsweredStep ==
  ASSUME WorkspaceInv, RestoreAnswered
  PROVE  WorkspaceInv'
<1>1. /\ WorkspaceTyped /\ TimerInv
      /\ Took("restore", TRUE) /\ UNCHANGED <<workspace, lastGood, ready, crossed>>
      /\ requestId' = requestId + 1 /\ autosave' = Idle
      /\ reading' = reading \cup {requestId + 1}
  BY DEF WorkspaceInv, RestoreAnswered, Reload
<1>2. /\ replies' \in Seq(ReplySet)
      /\ Reply.kind = "restore"
      /\ DOMAIN replies = 1..Len(replies) /\ Len(replies) \in Nat
      /\ DOMAIN replies' = 1..(Len(replies) - 1)
      /\ \A i \in DOMAIN replies' : replies'[i] = replies[i + 1]
      /\ UNCHANGED <<onDisk, calls, restore, spent>>
  BY <1>1, TookShape
<1>3. requestId \in Nat /\ requestId > 0 /\ reading \subseteq 1..requestId
  BY <1>1 DEF WorkspaceTyped, WorkspaceTypeOK
<1>4. /\ requestId' \in Nat /\ requestId' > 0 /\ requestId' \in reading'
      /\ reading' \subseteq 1..requestId'
  BY <1>1, <1>3
<1>5. autosave' \in [value : Every \cup {NoDraft}, id : Nat]
  BY <1>1 DEF Idle
<1>6. WorkspaceTyped' /\ TimerInv'
  <2>1. WorkspaceTyped'
    BY <1>1, <1>2, <1>4, <1>5 DEF WorkspaceTyped, WorkspaceTypeOK, ReplySet
  <2> QED
    BY <1>1, <2>1 DEF TimerInv, Idle
<1>7. LoadPending' /\ LastTaken' /\ ShownInv'
  BY <1>4 DEF LoadPending, LastTaken, ShownInv
<1>8. ASSUME OrderInv PROVE OrderInv'
  <2>1. Replaces(Reply)
    BY <1>2 DEF Replaces
  <2>2. ~SaveCalled /\ ~SaveReplied /\ ~SaveCalled' /\ ~SaveReplied'
    BY <1>1, <1>8, <2>1, NoSaveBehind
  <2>3. /\ \A i \in DOMAIN calls' : calls'[i].kind # "save"
        /\ \A i \in DOMAIN replies' : replies'[i].kind # "save"
    BY <2>2 DEF SaveCalled, SaveReplied
  <2> QED
    BY <2>2, <2>3 DEF OrderInv
<1> QED
  BY <1>1, <1>6, <1>7, <1>8 DEF WorkspaceInv
-----------------------------------------------------------------------------
LEMMA WorkspaceStart == WorkspaceInit => WorkspaceInv
<1> SUFFICES ASSUME WorkspaceInit PROVE WorkspaceInv
  OBVIOUS
<1>1. /\ onDisk \in Every /\ workspace = Original /\ lastGood = Original
      /\ ready = FALSE /\ autosave = Idle /\ requestId = 1 /\ reading = {1}
      /\ calls = << >> /\ replies = << >> /\ restore = "none" /\ crossed = FALSE
      /\ spent = [edit |-> 0, replaced |-> 0, fault |-> 0]
  BY DEF WorkspaceInit
<1>2. calls \in Seq(RequestSet) /\ replies \in Seq(ReplySet)
  BY <1>1
<1>3. DOMAIN calls = {} /\ DOMAIN replies = {}
  BY <1>1
<1>4. spent \in [{"edit", "replaced", "fault"} -> Nat]
  BY <1>1
<1>5. autosave \in [value : Every \cup {NoDraft}, id : Nat] /\ Original \in Every
  BY <1>1 DEF Idle, Every
<1>6. WorkspaceTyped
  <2>1. /\ requestId \in Nat /\ requestId > 0 /\ reading \subseteq 1..requestId
    <3>1. 1 \in 1..1
      OBVIOUS
    <3> QED
      BY <1>1, <3>1
  <2>2. ready \in BOOLEAN /\ crossed \in BOOLEAN
    BY <1>1
  <2>3. {onDisk, workspace, lastGood} \subseteq Every /\ restore \in {"none", "barred", "over"}
    BY <1>1, <1>5
  <2> QED
    BY <1>2, <1>4, <1>5, <2>1, <2>2, <2>3
       DEF WorkspaceTyped, WorkspaceTypeOK, RequestSet, ReplySet
<1>7. OrderInv /\ ~SaveCalled /\ ~SaveReplied
  BY <1>3 DEF OrderInv, SaveCalled, SaveReplied
<1> QED
  BY <1>1, <1>6, <1>7 DEF WorkspaceInv, TimerInv, LoadPending, LastTaken, ShownInv

LEMMA WorkspaceStep ==
  ASSUME WorkspaceInv, [WorkspaceNext]_workspaceVars
  PROVE  WorkspaceInv'
<1>1. CASE \E value \in Workspaces : EditLayout(value)
  BY <1>1, EditStep
<1>2. CASE (\E value \in Workspaces : ImportLayout(value)) \/ ResetLayout
  BY <1>2, ReplaceSentStep DEF ImportLayout, ResetLayout, Every
<1>3. CASE AutosaveFires
  BY <1>3, AutosaveStep
<1>4. CASE ServeCall \/ CallFails
  <2>1. PICK ok \in BOOLEAN : Served(ok)
    BY <1>4 DEF ServeCall, CallFails
  <2>2. spent' \in [{"edit", "replaced", "fault"} -> Nat]
    <3>1. CASE ServeCall
      BY <3>1 DEF ServeCall, WorkspaceInv, WorkspaceTyped
    <3>2. CASE CallFails
      BY <3>2, SpendingTyped DEF CallFails, WorkspaceInv
    <3> QED
      BY <1>4, <3>1, <3>2
  <2> QED
    BY <2>1, <2>2, ServedStep
<1>5. CASE \E id \in reading : ReadLayout(id)
  BY <1>5, ReadStep
<1>6. CASE BarQueue
  BY <1>6, BarStep
<1>7. CASE RestoreLayout \/ RestoreRefused
  BY <1>7, RestoreStep
<1>8. CASE LoadAnswered
  BY <1>8, LoadAnsweredStep
<1>9. CASE SaveAnswered
  BY <1>9, SaveAnsweredStep
<1>10. CASE SaveRefused
  BY <1>10, SaveRefusedStep
<1>11. CASE ReplaceAnswered
  BY <1>11, ReplaceAnsweredStep
<1>12. CASE ReplaceRefused \/ RestoreRefusalAnswered
  BY <1>12, RefusalStep
<1>13. CASE RestoreAnswered
  BY <1>13, RestoreAnsweredStep
<1>14. CASE UNCHANGED workspaceVars
  <2>1. UNCHANGED <<onDisk, workspace, lastGood, ready, autosave, requestId,
                    calls, reading, replies, restore, crossed, spent>>
    BY <1>14 DEF workspaceVars
  <2>2. WorkspaceTyped'
    BY <2>1 DEF WorkspaceInv, WorkspaceTyped, WorkspaceTypeOK
  <2> QED
    BY <2>1, <2>2
       DEF WorkspaceInv, TimerInv, LoadPending, OrderInv, LastTaken, ShownInv, Idle,
           SaveCalled, SaveReplied, Replaces, Counts, Doomed, LastSave
<1> QED
  BY <1>1, <1>2, <1>3, <1>4, <1>5, <1>6, <1>7, <1>8, <1>9, <1>10, <1>11, <1>12, <1>13,
     <1>14 DEF WorkspaceNext

LEMMA QuietIsStored == WorkspaceInv => QuietShowsStored
<1> SUFFICES ASSUME WorkspaceInv, ready, ~crossed, autosave = Idle, restore # "barred",
                    calls = << >>, replies = << >>, reading = {}
             PROVE  workspace = onDisk
  BY DEF QuietShowsStored, WorkspaceInv, WorkspaceTyped
<1>1. DOMAIN calls = {} /\ DOMAIN replies = {} /\ requestId \notin reading
  OBVIOUS
<1>2. ~LoadPending /\ ~SaveCalled /\ ~SaveReplied
  BY <1>1 DEF LoadPending, SaveCalled, SaveReplied
<1>3. workspace = lastGood
  BY <1>2 DEF WorkspaceInv, ShownInv
<1>4. lastGood = onDisk
  BY <1>1 DEF WorkspaceInv, LastTaken
<1> QED
  BY <1>3, <1>4

(* For any number of edits, resets, imports, restores and failing writes:  *)
(* once the renderer has nothing under way it shows what the file holds,   *)
(* except after the crossings that use-workspace.ts and main.ts do not     *)
(* order.                                                                  *)
THEOREM LayoutShownIsStored == WorkspaceSpec => []QuietShowsStored
<1>1. WorkspaceSpec => []WorkspaceInv
  BY WorkspaceStart, WorkspaceStep, PTL DEF WorkspaceSpec
<1> QED
  BY <1>1, QuietIsStored, PTL

(***************************************************************************)
(* SourceJobs                                                              *)
(***************************************************************************)

(* A job's threads.  Nobody has a guest before it is admitted, or after    *)
(* the process that ran it ended; an attest that may still start a sandbox *)
(* has no guest that somebody ends; and as long as no signal was raised    *)
(* execute still waits for it.                                             *)
CallOk(j) ==
    /\ phase[j] \notin Active \cup {"done"} =>
          call[j] = "none" /\ signal[j] = {} /\ ~leased[j] /\ j \notin guests
    /\ phase[j] \in Active => call[j] # "none"
    /\ phase[j] \in {"unused", "refused"} \cup Beginning => proc[j] = "none"
    /\ call[j] = "none" => \A who \in Enders : ending[j][who] = "none"
    /\ call[j] \in {"launching", "spawning"} => proc[j] = "none" /\ j \notin guests
    /\ call[j] = "halting" => j \notin guests
    /\ call[j] = "hello" => signal[j] = {}
    /\ call[j] \in {"launching", "spawning", "hello"} /\ signal[j] = {} =>
          phase[j] = "attesting" /\ ending[j]["service"] = "none"
    /\ call[j] \in {"launching", "spawning", "halting", "hello", "answered"}
          => ending[j]["transport"] = "none"
    /\ call[j] \in {"launching", "spawning", "halting"}
          => ending[j]["service"] \notin {"stop", "remove"}
    /\ leased[j] => call[j] = "answered"

(* The .wsb file is written before the sandbox starts, and removed only    *)
(* after it has stopped.                                                   *)
HandleOk(j) ==
    /\ call[j] = "spawning" \/ proc[j] = "running" => j \in config
    /\ \A who \in Enders : ending[j][who] = "remove" => proc[j] = "exited"

(* What a result of "succeeded" stands for, at each step of the job's end. *)
SuccessOk(j) ==
    /\ phase[j] = "executing" => leased[j] /\ ending[j]["service"] = "none"
    /\ leased[j] /\ ending[j]["service"] = "done"
          => proc[j] = "exited" /\ j \notin config \cup guests
    /\ result[j] = "succeeded"
          => /\ leased[j] /\ phase[j] \in {"ending", "cleaning", "recording", "done"}
             /\ phase[j] # "ending" => ending[j]["service"] = "done"
             /\ phase[j] \in {"recording", "done"} => dir[j] = "none"

(* A workspace that was left behind is on the list of every recovery pass, *)
(* and nobody was admitted since.                                          *)
SweepInv ==
    used["io"] = 0 => \A k \in In({"lost"}) : dir[k] = "marked" =>
        /\ Slot = {}
        /\ \A j \in In({"sweeping"}) : k \in sweep[j] \cup {victim[j]}

ThreadsInv == \A j \in Jobs : CallOk(j) /\ HandleOk(j) /\ SuccessOk(j)
JobsInv == TypeOK /\ OneJob /\ ThreadsInv /\ SweepInv
-----------------------------------------------------------------------------
(* What is done for one job. *)
JobSteps(j) == \/ Start(j) \/ Cancel(j) \/ Hello(j) \/ GuestExits(j) \/ Work(j)
               \/ \E k \in Jobs : Retry(j, k)

LEMMA NextIs == Next <=> Crash \/ \E j \in Jobs : JobSteps(j)
BY DEF Next, JobSteps

LEMMA SpendTyped ==
    ASSUME TypeOK, NEW kind \in Kinds, Spend(kind)
    PROVE  /\ used' \in [Kinds -> Nat] /\ used'[kind] > 0
           /\ \A other \in Kinds \ {kind} : used'[other] = used[other]
BY DEF Spend, TypeOK

LEMMA FirstStepTyped == ASSUME NEW j PROVE FirstStep(j) \in Steps \ {"none", "remove"}
BY DEF FirstStep, Steps

LEMMA TornTyped ==
    ASSUME TypeOK, NEW j \in Jobs
    PROVE  /\ Torn(j) \in [Enders -> Steps]
           /\ Torn(j)["transport"] = ending[j]["transport"]
           /\ Torn(j)["service"] = IF ending[j]["service"] = "none" THEN FirstStep(j)
                                   ELSE ending[j]["service"]
BY FirstStepTyped DEF Torn, TypeOK, Enders

LEMMA AbortTyped ==
    ASSUME TypeOK, NEW j \in Jobs, NEW by \in SUBSET {"aborted", "timedOut"}, AbortSignal(j, by)
    PROVE  /\ signal' \in [Jobs -> SUBSET {"aborted", "timedOut"}]
           /\ call' \in [Jobs -> Calls] /\ ending' \in [Jobs -> [Enders -> Steps]]
           /\ signal'[j] = signal[j] \cup by
           /\ call'[j] = IF call[j] = "hello" THEN "reaping" ELSE call[j]
           /\ ending'[j]["service"] = IF ending[j]["service"] = "none" THEN FirstStep(j)
                                      ELSE ending[j]["service"]
           /\ ending'[j]["transport"] = IF call[j] = "hello" THEN FirstStep(j)
                                        ELSE ending[j]["transport"]
           /\ \A k \in Jobs \ {j} : /\ signal'[k] = signal[k] /\ call'[k] = call[k]
                                    /\ ending'[k] = ending[k]
<1> DEFINE steps == [Torn(j) EXCEPT !["transport"] = IF call[j] = "hello" THEN FirstStep(j) ELSE @]
<1>1. /\ steps \in [Enders -> Steps] /\ steps["service"] = Torn(j)["service"]
      /\ steps["transport"] = IF call[j] = "hello" THEN FirstStep(j) ELSE ending[j]["transport"]
  BY TornTyped, FirstStepTyped DEF Enders
<1>2. ending' = [ending EXCEPT ![j] = steps]
  BY DEF AbortSignal
<1> HIDE DEF steps
<1>3. ending' \in [Jobs -> [Enders -> Steps]] /\ ending'[j] = steps
      /\ \A k \in Jobs \ {j} : ending'[k] = ending[k]
  BY <1>1, <1>2 DEF TypeOK
<1>4. /\ signal' \in [Jobs -> SUBSET {"aborted", "timedOut"}] /\ call' \in [Jobs -> Calls]
      /\ signal'[j] = signal[j] \cup by
      /\ call'[j] = IF call[j] = "hello" THEN "reaping" ELSE call[j]
      /\ \A k \in Jobs \ {j} : signal'[k] = signal[k] /\ call'[k] = call[k]
  BY DEF AbortSignal, TypeOK, Calls
<1> QED
  BY <1>1, <1>3, <1>4, TornTyped

(* One step of one of a guest's enders. *)
LEMMA EndingTyped ==
    ASSUME TypeOK, NEW j \in Jobs, NEW who \in Enders, NEW to \in Steps,
           ending' = [ending EXCEPT ![j][who] = to]
    PROVE  /\ ending' \in [Jobs -> [Enders -> Steps]]
           /\ ending'[j][who] = to
           /\ \A other \in Enders \ {who} : ending'[j][other] = ending[j][other]
           /\ \A k \in Jobs \ {j} : ending'[k] = ending[k]
BY DEF TypeOK

(* A job's end, as AttestRejected, Hello and Executed begin it. *)
LEMMA TearTyped ==
    ASSUME TypeOK, NEW j \in Jobs, ending' = [ending EXCEPT ![j] = Torn(j)]
    PROVE  /\ ending' \in [Jobs -> [Enders -> Steps]]
           /\ ending'[j]["transport"] = ending[j]["transport"]
           /\ ending'[j]["service"] = IF ending[j]["service"] = "none" THEN FirstStep(j)
                                      ELSE ending[j]["service"]
           /\ \A k \in Jobs \ {j} : ending'[k] = ending[k]
<1>1. /\ ending' \in [Jobs -> [Enders -> Steps]] /\ ending'[j] = Torn(j)
      /\ \A k \in Jobs \ {j} : ending'[k] = ending[k]
  BY TornTyped DEF TypeOK
<1> QED
  BY <1>1, TornTyped

-----------------------------------------------------------------------------
LEMMA GoTyped ==
    ASSUME TypeOK, NEW j \in Jobs, NEW p \in Phases, phase' = [phase EXCEPT ![j] = p]
    PROVE  /\ phase' \in [Jobs -> Phases] /\ phase'[j] = p
           /\ \A k \in Jobs \ {j} : phase'[k] = phase[k]
BY DEF TypeOK

LEMMA ConcludeTyped ==
    ASSUME TypeOK, NEW j \in Jobs, NEW final \in {"succeeded", "failed", "cancelled"},
           Conclude(j, final)
    PROVE  /\ phase' \in [Jobs -> Phases] /\ phase'[j] = "ending"
           /\ result' \in [Jobs -> {"none", "succeeded", "failed", "cancelled"}]
           /\ result'[j] = final
           /\ \A k \in Jobs \ {j} : phase'[k] = phase[k] /\ result'[k] = result[k]
BY DEF Conclude, Go, TypeOK, Phases

LEMMA TypeInitially == Init => TypeOK
BY DEF Init, TypeOK, Phases, Calls, Steps, MaxRetries, NoJob, Kinds

LEMMA TypeStep == TypeOK /\ [Next]_vars => TypeOK'
<1> SUFFICES ASSUME TypeOK, [Next]_vars PROVE TypeOK'
  OBVIOUS
<1> USE DEF starting, outcome, sandbox
<1>0. Active \cup Beginning \subseteq Phases /\ {"io", "stop", "crash"} \subseteq Kinds
  BY DEF Active, Beginning, Phases, Kinds
<1>1. ASSUME NEW j \in Jobs, NEW tries \in 0..MaxRetries, Begin(j, tries) PROVE TypeOK'
  BY <1>1 DEF Begin, Go, TypeOK, Phases
<1>2. ASSUME NEW j \in Jobs, Start(j) PROVE TypeOK'
  BY <1>1, <1>2 DEF Start, MaxRetries
<1>3. ASSUME NEW j \in Jobs, NEW k \in Jobs, Retry(j, k) PROVE TypeOK'
  <2>1. retries[k] + 1 \in 0..MaxRetries
    BY <1>3 DEF Retry, TypeOK, MaxRetries
  <2> QED
    BY <1>1, <1>3, <2>1 DEF Retry
<1>4. ASSUME NEW j \in Jobs, Starting(j) PROVE TypeOK'
  <2>1. ASSUME NEW k \in Jobs, SweepPick(j, k) PROVE TypeOK'
    BY <2>1 DEF SweepPick, TypeOK
  <2>2. CASE SweepRemove(j)
    <3>1. victim[j] \in Jobs /\ victim' \in [Jobs -> Jobs \cup {NoJob}]
      BY <2>2 DEF SweepRemove, TypeOK
    <3>2. dir' \in [Jobs -> {"none", "bare", "marked"}] /\ used' \in [Kinds -> Nat]
      BY <1>0, <2>2, <3>1, SpendTyped DEF SweepRemove, TypeOK
    <3> QED
      BY <2>2, <3>1, <3>2 DEF SweepRemove, TypeOK
  <2>3. CASE Admit(j)
    BY <2>3 DEF Admit, Go, TypeOK, Phases
  <2>4. CASE Refuse(j)
    BY <1>0, <2>4, SpendTyped DEF Refuse, Go, TypeOK, Phases
  <2>5. CASE MakeWorkspace(j) \/ MarkWorkspace(j)
    <3>1. phase' \in [Jobs -> Phases]
      BY <2>5, GoTyped DEF MakeWorkspace, MarkWorkspace, Go, Phases
    <3> QED
      BY <2>5, <3>1 DEF MakeWorkspace, MarkWorkspace, TypeOK
  <2>6. CASE Activate(j)
    BY <2>6 DEF Activate, Go, TypeOK, Phases, Calls
  <2> QED
    BY <1>4, <2>1, <2>2, <2>3, <2>4, <2>5, <2>6 DEF Starting
<1>5. ASSUME NEW j \in Jobs, Attesting(j) PROVE TypeOK'
  <2>1. CASE LaunchRefused(j) \/ WriteConfig(j) \/ Reaped(j)
    <3>1. call' \in [Jobs -> Calls]
      BY <2>1 DEF LaunchRefused, WriteConfig, Reaped, TypeOK, Calls
    <3>2. config' \subseteq Jobs
      BY <2>1 DEF LaunchRefused, WriteConfig, Reaped, TypeOK
    <3>3. UNCHANGED <<starting, dir, signal, leased, outcome, ending, proc, guests, used>>
      BY <2>1 DEF LaunchRefused, WriteConfig, Reaped
    <3> QED
      BY <3>1, <3>2, <3>3 DEF TypeOK, starting, outcome
  <2>4. CASE Spawn(j)
    <3>1. call' \in [Jobs -> Calls] /\ proc' \in [Jobs -> {"none", "running", "exited"}]
      BY <2>4 DEF Spawn, TypeOK, Calls
    <3> QED
      BY <2>4, <3>1 DEF Spawn, TypeOK, starting, outcome
  <2>2. CASE SpawnFails(j)
    BY <1>0, <2>2, SpendTyped DEF SpawnFails, TypeOK, Calls
  <2>3. CASE Halt(j) \/ HelloExpires(j)
    <3>1. ending' \in [Jobs -> [Enders -> Steps]]
      <4>1. "transport" \in Enders /\ "stop" \in Steps /\ FirstStep(j) \in Steps
        BY FirstStepTyped DEF Enders, Steps
      <4> QED
        BY <2>3, <4>1, EndingTyped DEF Halt, HelloExpires
    <3>2. used' \in [Kinds -> Nat]
      BY <1>0, <2>3, SpendTyped DEF Halt, HelloExpires, TypeOK
    <3> QED
      BY <2>3, <3>1, <3>2 DEF Halt, HelloExpires, TypeOK, Calls
  <2> QED
    BY <1>5, <2>1, <2>2, <2>3, <2>4 DEF Attesting
<1>6. ASSUME NEW j \in Jobs, Executing(j) PROVE TypeOK'
  <2>1. CASE AttestRejected(j) \/ Executed(j)
    <3>1. \E final \in {"succeeded", "failed", "cancelled"} : Conclude(j, final)
      BY <2>1 DEF AttestRejected, Executed
    <3>2. ending' \in [Jobs -> [Enders -> Steps]]
      BY <2>1, TearTyped DEF AttestRejected, Executed
    <3> QED
      BY <2>1, <3>1, <3>2, ConcludeTyped DEF AttestRejected, Executed, TypeOK
  <2>2. CASE Deadline(j)
    BY <2>2, AbortTyped DEF Deadline, Conclude, Go, TypeOK, Phases
  <2>3. CASE TornDown(j) \/ Clean(j) \/ Finish(j)
    <3>1. used' \in [Kinds -> Nat]
      BY <1>0, <2>3, SpendTyped DEF TornDown, Clean, Finish, TypeOK
    <3>2. CASE TornDown(j)
      BY <3>1, <3>2 DEF TornDown, Go, TypeOK, Phases
    <3>3. CASE Clean(j)
      BY <3>1, <3>3 DEF Clean, Go, TypeOK, Phases
    <3>4. CASE Finish(j)
      BY <3>1, <3>4 DEF Finish, Go, TypeOK, Phases
    <3> QED
      BY <2>3, <3>2, <3>3, <3>4
  <2> QED
    BY <1>6, <2>1, <2>2, <2>3 DEF Executing
<1>7. ASSUME NEW j \in Jobs, NEW who \in Enders, Stop(j, who) \/ RemoveConfig(j, who)
      PROVE  TypeOK'
  <2>1. ending' \in [Jobs -> [Enders -> Steps]]
    BY <1>7, EndingTyped DEF Stop, RemoveConfig, Steps
  <2>2. used' \in [Kinds -> Nat]
    BY <1>0, <1>7, SpendTyped DEF Stop, RemoveConfig, TypeOK
  <2> QED
    BY <1>7, <2>1, <2>2 DEF Stop, RemoveConfig, TypeOK
<1>8. ASSUME NEW j \in Jobs, Cancel(j) \/ Hello(j) \/ GuestExits(j) PROVE TypeOK'
  <2>1. CASE Cancel(j)
    <3>1. Conclude(j, "cancelled") \/ UNCHANGED <<phase, result>>
      BY <2>1 DEF Cancel
    <3>2. /\ phase' \in [Jobs -> Phases]
          /\ result' \in [Jobs -> {"none", "succeeded", "failed", "cancelled"}]
      BY <3>1, ConcludeTyped DEF TypeOK
    <3>3. /\ signal' \in [Jobs -> SUBSET {"aborted", "timedOut"}]
          /\ call' \in [Jobs -> Calls] /\ ending' \in [Jobs -> [Enders -> Steps]]
      BY <2>1, AbortTyped DEF Cancel
    <3> QED
      BY <2>1, <3>2, <3>3 DEF Cancel, TypeOK
  <2>2. CASE Hello(j)
    <3>1. ending' \in [Jobs -> [Enders -> Steps]]
      BY <2>2, TearTyped DEF Hello, TypeOK
    <3>2. /\ phase' \in [Jobs -> Phases]
          /\ result' \in [Jobs -> {"none", "succeeded", "failed", "cancelled"}]
      <4>1. CASE Go(j, "executing") /\ UNCHANGED result
        BY <4>1, GoTyped DEF Go, TypeOK, Phases
      <4> QED
        BY <2>2, <4>1, ConcludeTyped DEF Hello
    <3>3. call' \in [Jobs -> Calls] /\ leased' \in [Jobs -> BOOLEAN]
      BY <2>2 DEF Hello, TypeOK, Calls
    <3> QED
      BY <2>2, <3>1, <3>2, <3>3 DEF Hello, TypeOK
  <2>3. CASE GuestExits(j)
    BY <2>3 DEF GuestExits, TypeOK
  <2> QED
    BY <1>8, <2>1, <2>2, <2>3
<1>9. CASE Crash
  BY <1>0, <1>9, SpendTyped DEF Crash, TypeOK, Phases, Calls, Steps, MaxRetries, In
<1>10. CASE UNCHANGED vars
  BY <1>10 DEF vars, TypeOK
<1> QED
  BY <1>2, <1>3, <1>4, <1>5, <1>6, <1>7, <1>8, <1>9, <1>10, NextIs DEF JobSteps, Work

-----------------------------------------------------------------------------
(* A step for one job leaves the others alone, except that a recovery may  *)
(* remove their workspaces.                                                *)
LEMMA OthersKept ==
    ASSUME TypeOK, NEW j \in Jobs, JobSteps(j), NEW k \in Jobs, k # j
    PROVE  /\ phase'[k] = phase[k] /\ signal'[k] = signal[k] /\ leased'[k] = leased[k]
           /\ result'[k] = result[k] /\ call'[k] = call[k] /\ ending'[k] = ending[k]
           /\ proc'[k] = proc[k] /\ dir'[k] \in {dir[k], "none"}
           /\ (k \in config' <=> k \in config) /\ (k \in guests' <=> k \in guests)
<1> USE DEF starting, outcome, sandbox
<1>1. CASE Start(j) \/ \E i \in Jobs : Retry(j, i)
  BY <1>1 DEF Start, Retry, Begin, Go, TypeOK
<1>2. CASE Starting(j)
  <2>1. dir'[k] \in {dir[k], "none"}
    BY <1>2 DEF Starting, SweepPick, SweepRemove, Admit, Refuse, MakeWorkspace, MarkWorkspace,
                Activate, TypeOK
  <2>2. /\ phase'[k] = phase[k] /\ call'[k] = call[k]
        /\ UNCHANGED <<signal, leased, result, ending, proc, config, guests>>
    BY <1>2 DEF Starting, SweepPick, SweepRemove, Admit, Refuse, MakeWorkspace, MarkWorkspace,
                Activate, Go, TypeOK
  <2> QED
    BY <2>1, <2>2
<1>3. CASE Attesting(j)
  <2>1. CASE Halt(j) \/ HelloExpires(j)
    <3>1. ending'[k] = ending[k] /\ call'[k] = call[k] /\ proc'[k] = proc[k]
      BY <2>1 DEF Halt, HelloExpires, TypeOK
    <3> QED
      BY <2>1, <3>1 DEF Halt, HelloExpires
  <2>2. CASE LaunchRefused(j) \/ WriteConfig(j) \/ SpawnFails(j) \/ Spawn(j) \/ Reaped(j)
    <3>1. call'[k] = call[k] /\ proc'[k] = proc[k]
      BY <2>2 DEF LaunchRefused, WriteConfig, SpawnFails, Spawn, Reaped, TypeOK
    <3> QED
      BY <2>2, <3>1 DEF LaunchRefused, WriteConfig, SpawnFails, Spawn, Reaped
  <2> QED
    BY <1>3, <2>1, <2>2 DEF Attesting
<1>4. CASE Executing(j)
  <2>1. CASE AttestRejected(j) \/ Executed(j)
    <3>1. \E final \in {"succeeded", "failed", "cancelled"} : Conclude(j, final)
      BY <2>1 DEF AttestRejected, Executed
    <3>2. ending'[k] = ending[k]
      BY <2>1, TearTyped DEF AttestRejected, Executed
    <3> QED
      BY <2>1, <3>1, <3>2, ConcludeTyped DEF AttestRejected, Executed
  <2>2. CASE Deadline(j)
    BY <2>2, AbortTyped, ConcludeTyped DEF Deadline
  <2>3. CASE TornDown(j) \/ Clean(j) \/ Finish(j)
    <3>1. phase'[k] = phase[k] /\ result'[k] = result[k] /\ dir'[k] = dir[k]
      BY <2>3 DEF TornDown, Clean, Finish, Go, TypeOK
    <3> QED
      BY <2>3, <3>1 DEF TornDown, Clean, Finish
  <2> QED
    BY <1>4, <2>1, <2>2, <2>3 DEF Executing
<1>5. ASSUME NEW who \in Enders, Stop(j, who) \/ RemoveConfig(j, who)
      PROVE  /\ ending'[k] = ending[k] /\ proc'[k] = proc[k]
             /\ UNCHANGED <<phase, signal, leased, result, call, dir>>
             /\ (k \in config' <=> k \in config) /\ (k \in guests' <=> k \in guests)
  BY <1>5 DEF Stop, RemoveConfig, TypeOK
<1>6. CASE Cancel(j)
  <2>1. Conclude(j, "cancelled") \/ UNCHANGED <<phase, result>>
    BY <1>6 DEF Cancel
  <2> QED
    BY <1>6, <2>1, AbortTyped, ConcludeTyped DEF Cancel
<1>7. CASE Hello(j)
  <2>1. CASE Go(j, "executing") /\ UNCHANGED <<result, ending>>
    BY <1>7, <2>1 DEF Hello, Go, TypeOK
  <2>2. CASE Conclude(j, "failed") /\ ending' = [ending EXCEPT ![j] = Torn(j)] /\ UNCHANGED leased
    <3>1. call'[k] = call[k]
      BY <1>7 DEF Hello, TypeOK
    <3> QED
      BY <1>7, <2>2, <3>1, ConcludeTyped, TearTyped DEF Hello
  <2> QED
    BY <1>7, <2>1, <2>2 DEF Hello
<1>8. CASE GuestExits(j)
  BY <1>8 DEF GuestExits, TypeOK
<1> QED
  BY <1>1, <1>2, <1>3, <1>4, <1>5, <1>6, <1>7, <1>8 DEF JobSteps, Work

(* What holds of a job goes on to hold while nothing happens to it. *)
LEMMA StillOk ==
    ASSUME NEW k \in Jobs, CallOk(k), HandleOk(k), SuccessOk(k),
           phase'[k] = phase[k], signal'[k] = signal[k], leased'[k] = leased[k],
           result'[k] = result[k], call'[k] = call[k], ending'[k] = ending[k],
           proc'[k] = proc[k], dir'[k] \in {dir[k], "none"},
           k \in config' <=> k \in config, k \in guests' <=> k \in guests
    PROVE  CallOk(k)' /\ HandleOk(k)' /\ SuccessOk(k)'
<1>1. CallOk(k)'
  BY DEF CallOk
<1>2. HandleOk(k)'
  BY DEF HandleOk
<1>3. SuccessOk(k)'
  BY DEF SuccessOk
<1> QED
  BY <1>1, <1>2, <1>3

(* An abort leaves a guest that may still start to its launch. *)
LEMMA AbortStep ==
    ASSUME TypeOK, NEW j \in Jobs, CallOk(j), HandleOk(j), SuccessOk(j),
           phase[j] \in Active, NEW by \in SUBSET {"aborted", "timedOut"}, by # {},
           AbortSignal(j, by), UNCHANGED <<dir, leased, proc, config, guests>>,
           \/ phase[j] # "executing" /\ phase'[j] = phase[j] /\ result'[j] = result[j]
           \/ /\ phase[j] \in {"attesting", "executing"} /\ phase'[j] = "ending"
              /\ result'[j] # "succeeded"
    PROVE  CallOk(j)' /\ HandleOk(j)' /\ SuccessOk(j)'
<1>0. /\ call[j] \in Calls /\ \A who \in Enders : who \in {"service", "transport"}
      /\ {"service", "transport"} \subseteq Enders
      /\ ending[j]["service"] \in Steps /\ ending[j]["transport"] \in Steps
  BY DEF TypeOK, Enders
<1>1. /\ signal'[j] # {}
      /\ call'[j] = IF call[j] = "hello" THEN "reaping" ELSE call[j]
      /\ ending'[j]["service"] = IF ending[j]["service"] = "none" THEN FirstStep(j)
                                 ELSE ending[j]["service"]
      /\ ending'[j]["transport"] = IF call[j] = "hello" THEN FirstStep(j)
                                   ELSE ending[j]["transport"]
  BY AbortTyped
<1>2. /\ FirstStep(j) \notin {"none", "remove"}
      /\ j \notin guests => FirstStep(j) # "stop"
      /\ leased[j] => FirstStep(j) # "done"
  BY DEF FirstStep
<1>3. CallOk(j)'
  BY <1>0, <1>1, <1>2 DEF CallOk, Active, Beginning
<1>4. HandleOk(j)'
  BY <1>0, <1>1, <1>2 DEF HandleOk
<1>5. SuccessOk(j)'
  BY <1>0, <1>1, <1>2 DEF SuccessOk, CallOk
<1> QED
  BY <1>3, <1>4, <1>5

(* What one step does to the job it belongs to. *)
LEMMA ThreadStep ==
    ASSUME TypeOK, NEW j \in Jobs, CallOk(j), HandleOk(j), SuccessOk(j), JobSteps(j)
    PROVE  CallOk(j)' /\ HandleOk(j)' /\ SuccessOk(j)'
<1> USE DEF starting, outcome, sandbox
<1>0. /\ phase[j] \in Phases /\ call[j] \in Calls /\ "service" \in Enders
      /\ "transport" \in Enders /\ \A who \in Enders : who \in {"service", "transport"}
      /\ ending[j]["service"] \in Steps /\ ending[j]["transport"] \in Steps
      /\ proc[j] \in {"none", "running", "exited"} /\ dir[j] \in {"none", "bare", "marked"}
      /\ leased[j] \in BOOLEAN /\ result[j] \in {"none", "succeeded", "failed", "cancelled"}
  BY DEF TypeOK, Enders
<1>1. CASE Start(j) \/ \E i \in Jobs : Retry(j, i)
  <2>1. /\ phase[j] = "unused" /\ phase'[j] = "sweeping"
        /\ UNCHANGED <<dir, signal, leased, result, call, ending, proc, config, guests>>
    BY <1>1 DEF Start, Retry, Begin, Go, TypeOK
  <2> QED
    BY <2>1 DEF CallOk, HandleOk, SuccessOk, Active, Beginning
<1>2. CASE Starting(j)
  <2>1. CASE (\E k \in Jobs : SweepPick(j, k)) \/ SweepRemove(j)
    <3>1. /\ UNCHANGED <<phase, signal, leased, result, call, ending, proc, config, guests>>
          /\ dir'[j] \in {dir[j], "none"}
      BY <2>1 DEF SweepPick, SweepRemove, TypeOK
    <3> QED
      BY <3>1, StillOk
  <2>2. CASE Admit(j) \/ Refuse(j) \/ MakeWorkspace(j) \/ MarkWorkspace(j)
    <3>1. /\ phase[j] \in Beginning /\ phase'[j] \in Beginning \cup {"refused"}
          /\ UNCHANGED <<signal, leased, result, call, ending, proc, config, guests>>
      BY <2>2 DEF Admit, Refuse, MakeWorkspace, MarkWorkspace, Go, TypeOK, Beginning
    <3> QED
      BY <3>1 DEF CallOk, HandleOk, SuccessOk, Active, Beginning
  <2>3. CASE Activate(j)
    <3>1. /\ phase[j] = "marked" /\ phase'[j] = "attesting"
          /\ call'[j] \in {"launching", "rejected"}
          /\ UNCHANGED <<dir, signal, leased, result, ending, proc, config, guests>>
      BY <2>3 DEF Activate, Go, TypeOK
    <3> QED
      BY <1>0, <3>1 DEF CallOk, HandleOk, SuccessOk, Active, Beginning
  <2> QED
    BY <1>2, <2>1, <2>2, <2>3 DEF Starting
<1>3. CASE Attesting(j)
  <2>0. phase' = phase /\ UNCHANGED <<dir, signal, leased, result>>
    BY <1>3 DEF Attesting, LaunchRefused, WriteConfig, SpawnFails, Spawn, Halt, HelloExpires, Reaped
  <2>1. CASE LaunchRefused(j) \/ Reaped(j)
    <3>1. /\ call[j] \in {"launching", "reaping"} /\ call'[j] = "rejected"
          /\ UNCHANGED <<ending, proc, config, guests>>
      BY <2>1 DEF LaunchRefused, Reaped, TypeOK
    <3> QED
      BY <1>0, <2>0, <3>1 DEF CallOk, HandleOk, SuccessOk
  <2>2. CASE WriteConfig(j)
    <3>1. /\ call[j] = "launching" /\ call'[j] = "spawning" /\ j \in config'
          /\ UNCHANGED <<ending, proc, guests>>
      BY <2>2 DEF WriteConfig, TypeOK
    <3> QED
      BY <1>0, <2>0, <3>1 DEF CallOk, HandleOk, SuccessOk
  <2>3. CASE SpawnFails(j)
    <3>1. /\ call[j] = "spawning" /\ call'[j] = "rejected" /\ j \notin config'
          /\ UNCHANGED <<ending, proc, guests>>
      BY <2>3 DEF SpawnFails, TypeOK
    <3> QED
      BY <1>0, <2>0, <3>1 DEF CallOk, HandleOk, SuccessOk
  <2>4. CASE Spawn(j)
    <3>1. /\ call[j] = "spawning" /\ proc'[j] = "running" /\ UNCHANGED <<ending, config>>
          /\ \/ signal[j] = {} /\ call'[j] = "hello"
             \/ signal[j] # {} /\ call'[j] = "halting" /\ UNCHANGED guests
      BY <2>4 DEF Spawn, TypeOK
    <3> QED
      BY <1>0, <2>0, <3>1 DEF CallOk, HandleOk, SuccessOk, Active, Beginning
  <2>5. CASE Halt(j)
    <3>1. /\ call[j] = "halting" /\ call'[j] = "reaping" /\ UNCHANGED config
          /\ ending'[j]["transport"] = "stop" /\ ending'[j]["service"] = ending[j]["service"]
          /\ proc'[j] \in {"exited", proc[j]}
      BY <1>0, <2>5, EndingTyped DEF Halt, TypeOK, Steps
    <3> QED
      BY <1>0, <2>0, <3>1 DEF CallOk, HandleOk, SuccessOk, Active, Beginning
  <2>6. CASE HelloExpires(j)
    <3>1. /\ call[j] = "hello" /\ call'[j] = "reaping" /\ UNCHANGED <<config, proc, guests>>
          /\ ending'[j]["transport"] # "remove" /\ ending'[j]["service"] = ending[j]["service"]
      BY <1>0, <2>6, FirstStepTyped, EndingTyped DEF HelloExpires, TypeOK
    <3> QED
      BY <1>0, <2>0, <3>1 DEF CallOk, HandleOk, SuccessOk, Active, Beginning
  <2> QED
    BY <1>3, <2>1, <2>2, <2>3, <2>4, <2>5, <2>6 DEF Attesting
<1>4. CASE Executing(j)
  <2>1. CASE AttestRejected(j)
    <3>1. /\ phase[j] = "attesting" /\ call[j] = "rejected"
          /\ phase'[j] = "ending" /\ result'[j] \in {"cancelled", "failed"}
          /\ UNCHANGED <<dir, signal, leased, call, proc, config, guests>>
      BY <2>1, ConcludeTyped DEF AttestRejected
    <3>2. /\ ending'[j]["transport"] = ending[j]["transport"]
          /\ ending'[j]["service"] \in Steps \ {"none"}
          /\ ending'[j]["service"] = "remove" => ending[j]["service"] = "remove"
      <4>1. FirstStep(j) \in Steps \ {"none", "remove"}
        BY FirstStepTyped
      <4>2. ending' = [ending EXCEPT ![j] = Torn(j)]
        BY <2>1 DEF AttestRejected
      <4> QED
        BY <1>0, <4>1, <4>2, TearTyped
    <3> QED
      BY <1>0, <3>1, <3>2 DEF CallOk, HandleOk, SuccessOk, Active, Beginning
  <2>2. CASE Executed(j)
    <3>1. /\ phase[j] = "executing" /\ leased[j]
          /\ phase'[j] = "ending" /\ result'[j] \in {"succeeded", "failed"}
          /\ UNCHANGED <<dir, signal, leased, call, proc, config, guests>>
      BY <2>2, ConcludeTyped DEF Executed, SuccessOk
    <3>2. /\ ending'[j]["transport"] = ending[j]["transport"]
          /\ ending'[j]["service"] \in {"stop", "failed"}
      <4>1. FirstStep(j) \in {"stop", "failed"} /\ ending[j]["service"] = "none"
        BY <3>1 DEF FirstStep, SuccessOk
      <4>2. ending' = [ending EXCEPT ![j] = Torn(j)]
        BY <2>2 DEF Executed
      <4> QED
        BY <4>1, <4>2, TearTyped
    <3> QED
      BY <1>0, <3>1, <3>2 DEF CallOk, HandleOk, SuccessOk, Active, Beginning
  <2>3. CASE Deadline(j)
    <3>1. /\ phase[j] \in {"attesting", "executing"}
          /\ phase'[j] = "ending" /\ result'[j] = "failed"
          /\ UNCHANGED <<dir, leased, proc, config, guests>>
      BY <2>3, ConcludeTyped DEF Deadline
    <3>2. AbortSignal(j, {"aborted", "timedOut"})
      BY <2>3 DEF Deadline
    <3> QED
      BY <3>1, <3>2, AbortStep DEF Active
  <2>4. CASE TornDown(j)
    <3>1. /\ phase[j] = "ending" /\ phase'[j] = "cleaning"
          /\ result'[j] = "succeeded" => result[j] = "succeeded" /\ ending[j]["service"] = "done"
          /\ UNCHANGED <<dir, signal, leased, call, ending, proc, config, guests>>
      BY <1>0, <2>4 DEF TornDown, Ends, Go, TypeOK
    <3> QED
      BY <1>0, <3>1 DEF CallOk, HandleOk, SuccessOk, Active, Beginning
  <2>5. CASE Clean(j)
    <3>1. /\ phase[j] = "cleaning" /\ phase'[j] = "recording"
          /\ result'[j] = "succeeded" => result[j] = "succeeded" /\ dir'[j] = "none"
          /\ UNCHANGED <<signal, leased, call, ending, proc, config, guests>>
      BY <1>0, <2>5 DEF Clean, Go, TypeOK
    <3> QED
      BY <1>0, <3>1 DEF CallOk, HandleOk, SuccessOk, Active, Beginning
  <2>6. CASE Finish(j)
    <3>1. /\ phase[j] = "recording" /\ phase'[j] = "done"
          /\ UNCHANGED <<dir, signal, leased, result, call, ending, proc, config, guests>>
      BY <2>6 DEF Finish, Go, TypeOK
    <3> QED
      BY <1>0, <3>1 DEF CallOk, HandleOk, SuccessOk, Active, Beginning
  <2> QED
    BY <1>4, <2>1, <2>2, <2>3, <2>4, <2>5, <2>6 DEF Executing
<1>5. ASSUME NEW who \in Enders, Stop(j, who)
      PROVE  CallOk(j)' /\ HandleOk(j)' /\ SuccessOk(j)'
  <2>1. /\ ending[j][who] = "stop" /\ ending'[j][who] \in {"remove", "failed"}
        /\ \A other \in Enders \ {who} : ending'[j][other] = ending[j][other]
        /\ proc'[j] \in {proc[j], "exited"}
        /\ ending'[j][who] = "remove" => proc'[j] = "exited"
        /\ UNCHANGED <<dir, phase, signal, leased, result, call, config, guests>>
    BY <1>5, EndingTyped DEF Stop, TypeOK, Steps
  <2> QED
    BY <1>0, <2>1 DEF CallOk, HandleOk, SuccessOk, Active, Beginning
<1>6. ASSUME NEW who \in Enders, RemoveConfig(j, who)
      PROVE  CallOk(j)' /\ HandleOk(j)' /\ SuccessOk(j)'
  <2>1. /\ ending[j][who] = "remove" /\ ending'[j][who] \in {"done", "failed"}
        /\ \A other \in Enders \ {who} : ending'[j][other] = ending[j][other]
        /\ ending'[j][who] = "done" => j \notin config' \cup guests'
        /\ j \in config' => j \in config
        /\ j \in guests' => j \in guests
        /\ UNCHANGED <<dir, phase, signal, leased, result, call, proc>>
    BY <1>6, EndingTyped DEF RemoveConfig, Steps
  <2> QED
    BY <1>0, <2>1 DEF CallOk, HandleOk, SuccessOk, Active, Beginning
<1>7. CASE Cancel(j)
  <2>1. /\ phase[j] \in Active /\ AbortSignal(j, {"aborted"})
        /\ UNCHANGED <<dir, leased, proc, config, guests>>
        /\ \/ phase[j] = "executing" /\ Conclude(j, "cancelled")
           \/ phase[j] # "executing" /\ UNCHANGED <<phase, result>>
    BY <1>7 DEF Cancel
  <2> QED
    BY <2>1, ConcludeTyped, AbortStep
<1>8. CASE Hello(j)
  <2>1. /\ call[j] = "hello" /\ phase[j] = "attesting" /\ call'[j] = "answered"
        /\ UNCHANGED <<dir, signal, proc, config, guests>>
    BY <1>8 DEF Hello, TypeOK
  <2>2. CASE Go(j, "executing") /\ leased' = [leased EXCEPT ![j] = TRUE] /\ UNCHANGED <<result, ending>>
    <3>1. phase'[j] = "executing" /\ leased'[j] = TRUE
      BY <2>2 DEF Go, TypeOK
    <3> QED
      BY <1>0, <2>1, <2>2, <3>1 DEF CallOk, HandleOk, SuccessOk, Active, Beginning
  <2>3. CASE Conclude(j, "failed") /\ ending' = [ending EXCEPT ![j] = Torn(j)] /\ UNCHANGED leased
    <3>1. phase'[j] = "ending" /\ result'[j] = "failed"
      BY <2>3, ConcludeTyped
    <3>2. /\ ending'[j]["transport"] = ending[j]["transport"]
          /\ ending'[j]["service"] # "remove" /\ ending'[j]["service"] # "none"
      <4>1. FirstStep(j) \notin {"none", "remove"} /\ ending[j]["service"] = "none"
        BY <2>1, FirstStepTyped DEF CallOk
      <4> QED
        BY <2>3, <4>1, TearTyped
    <3> QED
      BY <1>0, <2>1, <2>3, <3>1, <3>2 DEF CallOk, HandleOk, SuccessOk, Active, Beginning
  <2> QED
    BY <1>8, <2>2, <2>3 DEF Hello
<1>9. CASE GuestExits(j)
  <2>1. /\ proc[j] = "running" /\ proc'[j] = "exited"
        /\ UNCHANGED <<dir, phase, signal, leased, result, call, ending, config, guests>>
    BY <1>9 DEF GuestExits, TypeOK
  <2> QED
    BY <1>0, <2>1 DEF CallOk, HandleOk, SuccessOk, Active, Beginning
<1> QED
  BY <1>1, <1>2, <1>3, <1>4, <1>5, <1>6, <1>7, <1>8, <1>9 DEF JobSteps, Work

LEMMA ThreadsStep == TypeOK /\ ThreadsInv /\ [Next]_vars => ThreadsInv'
<1> SUFFICES ASSUME TypeOK, ThreadsInv, [Next]_vars PROVE ThreadsInv'
  OBVIOUS
<1>1. ASSUME NEW j \in Jobs, JobSteps(j) PROVE ThreadsInv'
  <2>1. ASSUME NEW k \in Jobs, k # j PROVE CallOk(k)' /\ HandleOk(k)' /\ SuccessOk(k)'
    BY <1>1, <2>1, OthersKept, StillOk DEF ThreadsInv
  <2>2. CallOk(j)' /\ HandleOk(j)' /\ SuccessOk(j)'
    BY <1>1, ThreadStep DEF ThreadsInv
  <2> QED
    BY <2>1, <2>2 DEF ThreadsInv
<1>2. CASE Crash
  <2> SUFFICES ASSUME NEW k \in Jobs PROVE CallOk(k)' /\ HandleOk(k)' /\ SuccessOk(k)'
    BY DEF ThreadsInv
  <2>1. /\ phase'[k] = IF phase[k] \in Beginning \cup Active THEN "lost" ELSE phase[k]
        /\ signal'[k] = {} /\ leased'[k] = FALSE /\ result'[k] = "none" /\ call'[k] = "none"
        /\ \A who \in Enders : ending'[k][who] = "none"
        /\ guests' = {} /\ UNCHANGED <<proc, config>>
    BY <1>2 DEF Crash, In
  <2>2. CallOk(k)'
    BY <2>1 DEF ThreadsInv, CallOk, Active, Beginning
  <2>3. HandleOk(k)'
    BY <2>1 DEF ThreadsInv, HandleOk
  <2>4. SuccessOk(k)'
    BY <2>1 DEF SuccessOk, Active
  <2> QED
    BY <2>2, <2>3, <2>4
<1>3. CASE UNCHANGED vars
  BY <1>3, StillOk DEF vars, ThreadsInv
<1> QED
  BY <1>1, <1>2, <1>3, NextIs

-----------------------------------------------------------------------------
(* Who is admitted finds nobody else. *)
LEMMA SlotStep ==
    ASSUME TypeOK, NEW j \in Jobs, JobSteps(j)
    PROVE  Slot' \subseteq Slot \/ (Admit(j) /\ Slot = {} /\ Slot' = {j})
<1>1. \A k \in Jobs \ {j} : phase'[k] = phase[k]
  BY OthersKept
<1>2. CASE Admit(j)
  <2>1. Slot' \subseteq Slot \cup {j}
    BY <1>1 DEF Slot, In
  <2>2. Slot # {} => j \notin Slot'
    BY <1>2 DEF Admit, Go, Slot, In, TypeOK, Active
  <2> QED
    BY <1>2, <2>1, <2>2
<1>3. CASE ~Admit(j)
  <2> USE DEF starting, outcome, sandbox
  <2> SUFFICES phase'[j] \in Active \cup {"starting", "making", "marked"}
                  => phase[j] \in Active \cup {"starting", "making", "marked"}
    BY <1>1 DEF Slot, In
  <2>1. CASE Start(j) \/ \E i \in Jobs : Retry(j, i)
    BY <2>1 DEF Start, Retry, Begin, Go, TypeOK, Active
  <2>2. CASE Starting(j)
    <3>1. CASE (\E k \in Jobs : SweepPick(j, k)) \/ SweepRemove(j)
      BY <3>1 DEF SweepPick, SweepRemove
    <3>2. CASE Refuse(j) \/ MakeWorkspace(j) \/ MarkWorkspace(j) \/ Activate(j)
      BY <3>2 DEF Refuse, MakeWorkspace, MarkWorkspace, Activate
    <3> QED
      BY <1>3, <2>2, <3>1, <3>2 DEF Starting
  <2>3. CASE Attesting(j)
    BY <2>3 DEF Attesting, LaunchRefused, WriteConfig, SpawnFails, Spawn, Halt, HelloExpires, Reaped
  <2>4. CASE Executing(j)
    BY <2>4 DEF Executing, AttestRejected, Executed, Deadline, TornDown, Clean, Finish, Active
  <2>5. CASE \E who \in Enders : Stop(j, who) \/ RemoveConfig(j, who)
    BY <2>5 DEF Stop, RemoveConfig
  <2>6. CASE Cancel(j) \/ Hello(j) \/ GuestExits(j)
    BY <2>6 DEF Cancel, Hello, GuestExits, Active
  <2> QED
    BY <2>1, <2>2, <2>3, <2>4, <2>5, <2>6 DEF JobSteps, Work
<1> QED
  BY <1>2, <1>3

LEMMA OneStep == TypeOK /\ OneJob /\ [Next]_vars => OneJob'
<1> SUFFICES ASSUME TypeOK, OneJob, [Next]_vars PROVE OneJob'
  OBVIOUS
<1>1. CASE Crash
  BY <1>1 DEF Crash, OneJob, Slot, In, Active, Beginning
<1>2. CASE UNCHANGED vars
  BY <1>2 DEF vars, OneJob, Slot, In
<1>3. ASSUME NEW j \in Jobs, JobSteps(j) PROVE OneJob'
  BY <1>3, SlotStep DEF OneJob
<1> QED
  BY <1>1, <1>2, <1>3, NextIs

-----------------------------------------------------------------------------
LEMMA UsedGrows ==
    ASSUME NEW j \in Jobs, JobSteps(j)
    PROVE  UNCHANGED used \/ \E kind \in Kinds : Spend(kind)
<1> USE DEF starting, outcome, sandbox
<1>0. {"stop", "io", "crash"} \subseteq Kinds
  BY DEF Kinds
<1>1. CASE Start(j) \/ Cancel(j) \/ Hello(j) \/ GuestExits(j) \/ \E k \in Jobs : Retry(j, k)
  BY <1>1 DEF Start, Cancel, Hello, GuestExits, Retry, Begin
<1>2. CASE Starting(j)
  BY <1>0, <1>2 DEF Starting, SweepPick, SweepRemove, Admit, Refuse, MakeWorkspace,
                    MarkWorkspace, Activate
<1>3. CASE Attesting(j)
  BY <1>0, <1>3 DEF Attesting, LaunchRefused, WriteConfig, SpawnFails, Spawn, Halt,
                    HelloExpires, Reaped
<1>4. CASE Executing(j)
  BY <1>0, <1>4 DEF Executing, AttestRejected, Executed, Deadline, TornDown, Clean, Finish
<1>5. CASE \E who \in Enders : Stop(j, who) \/ RemoveConfig(j, who)
  BY <1>0, <1>5 DEF Stop, RemoveConfig
<1> QED
  BY <1>1, <1>2, <1>3, <1>4, <1>5 DEF JobSteps, Work

(* What the steps of one job do to phases and lists. *)
LEMMA Moves ==
    ASSUME TypeOK, NEW j \in Jobs, JobSteps(j)
    PROVE  \/ Start(j) \/ SweepRemove(j) \/ \E i \in Jobs : Retry(j, i) \/ SweepPick(j, i)
           \/ /\ UNCHANGED <<sweep, victim>>
              /\ phase'[j] = phase[j] \/ phase'[j] \notin {"sweeping", "lost"}
<1> USE DEF starting, outcome, sandbox
<1> DEFINE moved == /\ UNCHANGED <<sweep, victim>>
                    /\ phase'[j] = phase[j] \/ phase'[j] \notin {"sweeping", "lost"}
<1>1. CASE Cancel(j) \/ Hello(j) \/ GuestExits(j)
  <2>1. UNCHANGED <<sweep, victim>> /\ (UNCHANGED phase \/ Go(j, "executing") \/ Go(j, "ending"))
    BY <1>1 DEF Cancel, Hello, GuestExits, Conclude
  <2> QED
    BY <2>1 DEF Go, TypeOK
<1>2. CASE Admit(j) \/ Refuse(j) \/ MakeWorkspace(j) \/ MarkWorkspace(j) \/ Activate(j)
  <2>1. /\ UNCHANGED <<sweep, victim>>
        /\ \E p \in {"starting", "refused", "making", "marked", "attesting"} : Go(j, p)
    BY <1>2 DEF Admit, Refuse, MakeWorkspace, MarkWorkspace, Activate
  <2> QED
    BY <2>1 DEF Go, TypeOK
<1>3. CASE Attesting(j) \/ \E who \in Enders : Stop(j, who) \/ RemoveConfig(j, who)
  BY <1>3 DEF Attesting, LaunchRefused, WriteConfig, SpawnFails, Spawn, Halt, HelloExpires,
              Reaped, Stop, RemoveConfig
<1>4. CASE Executing(j)
  <2>1. /\ UNCHANGED <<sweep, victim>>
        /\ \E p \in {"ending", "cleaning", "recording", "done"} : Go(j, p)
    BY <1>4 DEF Executing, AttestRejected, Executed, Deadline, TornDown, Clean, Finish, Conclude
  <2> QED
    BY <2>1 DEF Go, TypeOK
<1> QED
  BY <1>1, <1>2, <1>3, <1>4 DEF JobSteps, Work, Starting

(* Nobody marks a workspace again whose job was lost. *)
LEMMA LostKept ==
    ASSUME TypeOK, NEW j \in Jobs, JobSteps(j), phase'[j] = "lost", phase[j] = "lost"
    PROVE  dir'[j] \in {dir[j], "none"}
<1>1. CASE MakeWorkspace(j) \/ MarkWorkspace(j)
  BY <1>1 DEF MakeWorkspace, MarkWorkspace
<1>2. CASE SweepRemove(j) \/ Clean(j)
  BY <1>2 DEF SweepRemove, Clean, TypeOK
<1>3. CASE ~(MakeWorkspace(j) \/ MarkWorkspace(j) \/ SweepRemove(j) \/ Clean(j))
  <2>1. UNCHANGED dir
    BY <1>3 DEF JobSteps, Work, Start, Retry, Begin, Cancel, Hello, GuestExits, Starting, SweepPick,
                Admit, Refuse, Activate, Attesting, LaunchRefused, WriteConfig, SpawnFails, Spawn,
                Halt, HelloExpires, Reaped, Executing, AttestRejected, Executed, Deadline,
                TornDown, Finish, Stop, RemoveConfig
  <2> QED
    BY <2>1
<1> QED
  BY <1>1, <1>2, <1>3

(* Nothing is admitted past a workspace that was left behind. *)
LEMMA SweepStep == TypeOK /\ SweepInv /\ [Next]_vars => SweepInv'
<1> SUFFICES ASSUME TypeOK, SweepInv, [Next]_vars, used'["io"] = 0,
                    NEW k \in Jobs, phase'[k] = "lost", dir'[k] = "marked"
             PROVE  /\ Slot' = {}
                    /\ \A i \in Jobs : phase'[i] = "sweeping" => k \in sweep'[i] \cup {victim'[i]}
  BY DEF SweepInv, In
<1> USE DEF starting, outcome, sandbox
<1>1. CASE Crash
  BY <1>1 DEF Crash, Slot, In, Active, Beginning
<1>2. CASE UNCHANGED vars
  BY <1>2 DEF vars, SweepInv, Slot, In
<1>3. ASSUME NEW j \in Jobs, JobSteps(j)
      PROVE  /\ Slot' = {}
             /\ \A i \in Jobs : phase'[i] = "sweeping" => k \in sweep'[i] \cup {victim'[i]}
  <2>1. used["io"] = 0
    <3>1. ASSUME NEW kind \in Kinds, Spend(kind) PROVE used["io"] = 0
      BY <3>1 DEF Spend, TypeOK, Kinds
    <3> QED
      BY <1>3, <3>1, UsedGrows
  <2>2. phase[k] = "lost" /\ dir[k] = "marked"
    <3>1. CASE k # j
      BY <1>3, <3>1, OthersKept
    <3>2. CASE k = j
      <4>1. phase'[j] = "lost" => phase[j] = "lost"
        BY <1>3, Moves DEF Start, Retry, Begin, Go, SweepRemove, SweepPick, TypeOK, starting
      <4>2. dir'[j] \in {dir[j], "none"}
        BY <1>3, <3>2, <4>1, LostKept
      <4> QED
        BY <3>2, <4>1, <4>2
    <3> QED
      BY <3>1, <3>2
  <2>3. Slot = {} /\ \A i \in Jobs : phase[i] = "sweeping" => k \in sweep[i] \cup {victim[i]}
    BY <2>1, <2>2 DEF SweepInv, In
  <2>4. ~Admit(j)
    BY <2>3 DEF Admit, NoJob, Jobs
  <2>5. Slot' = {}
    BY <1>3, <2>3, <2>4, SlotStep
  <2>6. ASSUME NEW i \in Jobs, i # j, phase'[i] = "sweeping"
        PROVE  k \in sweep'[i] \cup {victim'[i]}
    <3>1. phase[i] = "sweeping"
      BY <1>3, <2>6, OthersKept
    <3>2. sweep'[i] = sweep[i] /\ victim'[i] = victim[i]
      BY <1>3, <2>6, Moves DEF Start, Retry, Begin, SweepRemove, SweepPick, TypeOK
    <3> QED
      BY <2>3, <3>1, <3>2
  <2>7. ASSUME phase'[j] = "sweeping" PROVE k \in sweep'[j] \cup {victim'[j]}
    <3>1. CASE Start(j) \/ \E i \in Jobs : Retry(j, i)
      BY <2>2, <3>1 DEF Start, Retry, Begin, TypeOK
    <3>2. ASSUME NEW i \in Jobs, SweepPick(j, i) PROVE k \in sweep'[j] \cup {victim'[j]}
      <4>1. /\ phase[j] = "sweeping" /\ victim[j] = NoJob /\ sweep'[j] = sweep[j] \ {i}
            /\ victim'[j] = IF i \in In(Active) THEN NoJob ELSE i
        BY <3>2 DEF SweepPick, TypeOK
      <4>2. k \in sweep[j]
        BY <2>3, <4>1 DEF NoJob, Jobs
      <4>3. k \notin In(Active)
        BY <2>2 DEF In, Active
      <4> QED
        BY <4>1, <4>2, <4>3
    <3>3. CASE SweepRemove(j)
      <4>1. phase[j] = "sweeping" /\ sweep'[j] = sweep[j]
        BY <2>7, <3>3 DEF SweepRemove
      <4>2. victim[j] # k
        <5>1. ~Spend("io")
          BY SpendTyped DEF Kinds
        <5> QED
          BY <2>2, <3>3, <5>1 DEF SweepRemove, TypeOK
      <4> QED
        BY <2>3, <4>1, <4>2
    <3>4. CASE ~(Start(j) \/ SweepRemove(j) \/ \E i \in Jobs : Retry(j, i) \/ SweepPick(j, i))
      <4>1. phase[j] = "sweeping" /\ sweep'[j] = sweep[j] /\ victim'[j] = victim[j]
        BY <1>3, <2>7, <3>4, Moves
      <4> QED
        BY <2>3, <4>1
    <3> QED
      BY <3>1, <3>2, <3>3, <3>4
  <2> QED
    BY <2>5, <2>6, <2>7
<1> QED
  BY <1>1, <1>2, <1>3, NextIs

-----------------------------------------------------------------------------
(* The inductive invariant of the source builds: where the threads of each *)
(* job are with its guest, its files and its result, that one job at most  *)
(* is admitted, and that recoveries know of every workspace left behind.   *)
THEOREM JobsInvariant == Spec => []JobsInv
<1>1. Init => JobsInv
  <2> SUFFICES ASSUME Init PROVE JobsInv
    OBVIOUS
  <2>1. TypeOK
    BY TypeInitially
  <2>2. OneJob /\ SweepInv
    BY DEF Init, OneJob, SweepInv, Slot, In, Active
  <2>3. ThreadsInv
    BY DEF Init, ThreadsInv, CallOk, HandleOk, SuccessOk, Active, Beginning
  <2> QED
    BY <2>1, <2>2, <2>3 DEF JobsInv
<1>2. JobsInv /\ [Next]_vars => JobsInv'
  BY TypeStep, OneStep, ThreadsStep, SweepStep DEF JobsInv
<1> QED
  BY <1>1, <1>2, PTL DEF Spec

(* One job at a time, and no sandbox that may run without its .wsb file:   *)
(* abort and dispose both stop the process tree before they remove it, and *)
(* a launch that fails removes it only when nothing was started.           *)
THEOREM HandlesAreKept == Spec => []HandleIsKept
<1>1. JobsInv => HandleIsKept
  BY DEF JobsInv, ThreadsInv, HandleOk, HandleIsKept
<1> QED
  BY <1>1, JobsInvariant, PTL

(* A job that ends as succeeded had its lease, and its teardown proved     *)
(* that the guest is gone, whoever else raised the signal meanwhile.       *)
THEOREM SuccessStaysClean == Spec => []SuccessIsClean
<1>1. JobsInv => SuccessIsClean
  BY DEF JobsInv, ThreadsInv, SuccessOk, SuccessIsClean
<1> QED
  BY <1>1, JobsInvariant, PTL

(* start awaits its recovery pass before the capacity check, so nothing is *)
(* admitted while a workspace of an ended process is left, if none failed  *)
(* to be removed.                                                          *)
THEOREM OrphansStaySwept == Spec => []OrphansAreSwept
<1>1. JobsInv => OrphansAreSwept
  BY DEF JobsInv, SweepInv, OrphansAreSwept
<1> QED
  BY <1>1, JobsInvariant, PTL
==============================================================================
