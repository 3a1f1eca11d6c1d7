------------------------- MODULE ThreadedTimerProofs -------------------------
(***************************************************************************)
(* Proofs about ThreadedTimer, for any number of nodes, workers and tasks, *)
(* any wait times and delays: as long as clients only remove tasks that    *)
(* are not scheduled, and callbacks throw nothing unknown, the pool never  *)
(* holds a node that is gone, nor one twice, a single shot runs once and a *)
(* removed task no more.                                                   *)
(***************************************************************************)
EXTENDS ThreadedTimer, SequenceTheorems, TLAPS

(* The queue of the pool *)

\* A queue that loses its head
LEMMA TailIs ==
  ASSUME NEW S, NEW s \in Seq(S), s # <<>>
  PROVE  /\ Tail(s) \in Seq(S) /\ Len(s) \in Nat \ {0} /\ Len(Tail(s)) = Len(s) - 1
         /\ Head(s) = s[1] /\ Head(s) \in S
         /\ \A i \in 1 .. Len(s) - 1 : Tail(s)[i] = s[i + 1]
<1>1. Len(s) \in Nat \ {0}
  BY EmptySeq
<1> QED BY <1>1, HeadTailProperties, ElementOfSeq

\* A queue that gains an end
LEMMA AppendIs ==
  ASSUME NEW S, NEW s \in Seq(S), NEW x \in S
  PROVE  /\ Append(s, x) \in Seq(S) /\ Len(s) \in Nat
         /\ Len(Append(s, x)) = Len(s) + 1
         /\ \A i \in 1 .. Len(s) : Append(s, x)[i] = s[i]
         /\ Append(s, x)[Len(s) + 1] = x
BY AppendProperties

-----------------------------------------------------------------------------
(* The inductive invariant *)

\* Worker threads know a node exactly while they call its callback.
Busy ==
    /\ \A w \in Workers : at[w] \in {"idle", "callback"}
    /\ \A w \in Workers : at[w] = "idle" <=> on[w] = NoNode
    /\ \A w \in Workers : on[w] # NoNode => runs[w] = id[on[w]]

\* A task that the pool holds is not stopped, and ids are given out once.
HeldGoesOn == \A n \in Nodes : Held(n) => ~stop[n]
IdsDiffer == \A m, n \in listed : id[m] = id[n] => m = n

\* What has run once, or was removed, is stopped; ids to come have done neither.
Stopped ==
    /\ \A n \in listed : id[n] \in SingleShot \cap ran => stop[n]
    /\ \A n \in listed : removed[id[n]] # "no" => stop[n]
    /\ ran \subseteq 1 .. nextId - 1
    /\ \A i \in Ids : i >= nextId => removed[i] = "no"

TimerInv ==
    /\ TypeOK /\ Busy
    /\ HeldIsListed /\ HeldOnce /\ HeldGoesOn
    /\ IdsDiffer /\ Stopped

LEMMA TimerInvInit == Init => TimerInv
<1> SUFFICES ASSUME Init PROVE TimerInv
  OBVIOUS
<1> USE TimerAssumption DEF Init
<1>1. pool \in Seq(Nodes) /\ DOMAIN pool = {}
  OBVIOUS
<1>2. \A n \in Nodes : ~Held(n)
  BY <1>1 DEF Held, Queued, Running
<1>3. TypeOK
  <2>1. nextId \in 1 .. MaxTasks + 1 /\ \A n \in listed : id[n] \in 1 .. nextId - 1
    OBVIOUS
  <2>2. id \in [Nodes -> 0 .. MaxTasks] /\ left \in [Nodes -> Int]
    OBVIOUS
  <2>3. stop \in [Nodes -> BOOLEAN] /\ scheduled \in [Nodes -> BOOLEAN]
    OBVIOUS
  <2>4. /\ at \in [Workers -> {"idle", "callback", "thrown", "stopped"}]
        /\ on \in [Workers -> Nodes \cup {NoNode}]
        /\ runs \in [Workers -> 0 .. MaxTasks]
        /\ removed \in [Ids -> {"no", "true", "false"}]
    OBVIOUS
  <2> QED BY <1>1, <2>1, <2>2, <2>3, <2>4 DEF TypeOK
<1>4. Busy
  BY DEF Busy
<1>5. HeldOnce
  BY <1>1, <1>2 DEF HeldOnce, Held
<1>6. HeldIsListed /\ HeldGoesOn /\ IdsDiffer
  BY <1>2 DEF HeldIsListed, HeldGoesOn, IdsDiffer
<1>7. Stopped
  BY DEF Stopped, Ids
<1> QED BY <1>3, <1>4, <1>5, <1>6, <1>7 DEF TimerInv

\* What the pool holds after its queue has lost its head
LEMMA QueueLoses ==
  ASSUME pool \in Seq(Nodes), pool # <<>>, pool' = Tail(pool),
         \A i, j \in DOMAIN pool : pool[i] = pool[j] => i = j
  PROVE  /\ pool' \in Seq(Nodes) /\ Head(pool) \in Nodes /\ Queued(Head(pool))
         /\ \A n \in Nodes : Queued(n)' <=> Queued(n) /\ n # Head(pool)
         /\ \A i, j \in DOMAIN pool' : pool'[i] = pool'[j] => i = j
<1> DEFINE L == Len(pool)
<1>1. /\ pool' \in Seq(Nodes) /\ L \in Nat \ {0} /\ Len(pool') = L - 1
      /\ Head(pool) = pool[1] /\ Head(pool) \in Nodes
      /\ \A i \in 1 .. L - 1 : pool'[i] = pool[i + 1]
  BY TailIs
<1>2. DOMAIN pool = 1 .. L /\ DOMAIN pool' = 1 .. L - 1
  BY <1>1
<1> HIDE DEF L
<1>3. Queued(Head(pool))
  BY <1>1, <1>2 DEF Queued
<1>4. ASSUME NEW n \in Nodes PROVE Queued(n)' <=> Queued(n) /\ n # Head(pool)
  <2>1. ASSUME Queued(n)' PROVE Queued(n) /\ n # Head(pool)
    <3>1. PICK i \in 1 .. L - 1 : pool'[i] = n
      BY <1>2, <2>1 DEF Queued
    <3>2. i + 1 \in 1 .. L /\ 1 \in 1 .. L /\ i + 1 # 1 /\ pool[i + 1] = n
      BY <1>1, <3>1
    <3> QED BY <1>1, <1>2, <3>2 DEF Queued
  <2>2. ASSUME Queued(n), n # Head(pool) PROVE Queued(n)'
    <3>1. PICK i \in 1 .. L : pool[i] = n
      BY <1>2, <2>2 DEF Queued
    <3>2. i # 1
      BY <1>1, <2>2, <3>1
    <3>3. i - 1 \in 1 .. L - 1 /\ (i - 1) + 1 = i
      BY <1>1, <3>2
    <3>4. pool'[i - 1] = n
      BY <1>1, <3>1, <3>3
    <3> QED BY <1>2, <3>3, <3>4 DEF Queued
  <2> QED BY <2>1, <2>2
<1>5. ASSUME NEW i \in 1 .. L - 1, NEW j \in 1 .. L - 1, pool'[i] = pool'[j]
      PROVE  i = j
  <2>1. i + 1 \in 1 .. L /\ j + 1 \in 1 .. L
    BY <1>1
  <2>2. pool[i + 1] = pool[j + 1]
    BY <1>1, <1>5
  <2>3. i + 1 = j + 1
    BY <1>2, <2>1, <2>2
  <2> QED BY <2>3
<1> QED BY <1>1, <1>2, <1>3, <1>4, <1>5

\* What the pool holds after a node was queued that was not
LEMMA QueueGains ==
  ASSUME pool \in Seq(Nodes), NEW x \in Nodes, ~Queued(x), pool' = Append(pool, x),
         \A i, j \in DOMAIN pool : pool[i] = pool[j] => i = j
  PROVE  /\ pool' \in Seq(Nodes)
         /\ \A n \in Nodes : Queued(n)' <=> Queued(n) \/ n = x
         /\ \A i, j \in DOMAIN pool' : pool'[i] = pool'[j] => i = j
<1> DEFINE L == Len(pool)
<1>1. /\ pool' \in Seq(Nodes) /\ L \in Nat /\ Len(pool') = L + 1
      /\ \A i \in 1 .. L : pool'[i] = pool[i]
      /\ pool'[L + 1] = x
  BY AppendIs
<1>2. DOMAIN pool = 1 .. L /\ DOMAIN pool' = 1 .. L + 1
  BY <1>1
<1> HIDE DEF L
<1>3. \A i \in 1 .. L + 1 : i \in 1 .. L \/ i = L + 1
  BY <1>1
<1>4. L + 1 \in 1 .. L + 1 /\ \A i \in 1 .. L : i \in 1 .. L + 1
  BY <1>1
<1>5. \A n \in Nodes : Queued(n)' <=> Queued(n) \/ n = x
  BY <1>1, <1>2, <1>3, <1>4 DEF Queued
<1>6. \A i \in 1 .. L : pool[i] # x
  BY <1>2 DEF Queued
<1>7. ASSUME NEW i \in 1 .. L + 1, NEW j \in 1 .. L + 1, pool'[i] = pool'[j]
      PROVE  i = j
  BY <1>1, <1>2, <1>3, <1>6, <1>7
<1> QED BY <1>1, <1>2, <1>5, <1>7

-----------------------------------------------------------------------------
(* The steps *)

\* Steps that neither touch the list, the pool nor a flag of a task
LEMMA FrameKeeps ==
  ASSUME TimerInv, TypeOK',
         UNCHANGED <<listed, id, stop, scheduled, nextId, pool, workerVars,
                     removed, ran>>,
         state' \in {"up", "terminating"} => state \in {"up", "terminating"}
  PROVE  TimerInv'
<1>1. Busy' /\ HeldIsListed' /\ HeldOnce' /\ HeldGoesOn' /\ IdsDiffer' /\ Stopped'
  BY DEF TimerInv, Busy, HeldIsListed, HeldOnce, HeldGoesOn, IdsDiffer, Stopped,
         workerVars, Held, Queued, Running
<1> QED BY <1>1 DEF TimerInv

\* A node that is put into the list is held by nobody, and its id is new.
LEMMA AddTaskKeeps ==
  ASSUME TimerInv, NEW n \in Nodes, AddTask(n)
  PROVE  TimerInv'
<1>1. /\ nextId \in Ids /\ nextId \in Nat /\ nextId' = nextId + 1
      /\ nextId' - 1 = nextId /\ nextId \in 1 .. nextId
  BY TimerAssumption DEF AddTask, NextId, Ids
<1>2. ~Held(n)
  BY DEF AddTask, TimerInv, HeldIsListed
<1>3. \A m \in Nodes : (Queued(m)' <=> Queued(m)) /\ (Running(m)' <=> Running(m))
  BY DEF AddTask, Queued, Running, workerVars
<1>4. \A m \in listed : m \in Nodes /\ m # n /\ id'[m] = id[m] /\ stop'[m] = stop[m]
                         /\ scheduled'[m] = scheduled[m] /\ id[m] \in 1 .. nextId - 1
  BY DEF AddTask, TimerInv, TypeOK
<1>5. id'[n] = nextId /\ ~stop'[n] /\ ~scheduled'[n] /\ listed' = listed \cup {n}
  BY DEF AddTask, TimerInv, TypeOK
<1>6. \A m \in listed : id[m] \in 1 .. nextId /\ id[m] # nextId
  BY <1>1, <1>4
<1>7. TypeOK'
  <2>1. \A m \in listed' : id'[m] \in 1 .. nextId' - 1
    BY <1>1, <1>4, <1>5, <1>6
  <2>2. id' \in [Nodes -> 0 .. MaxTasks] /\ nextId' \in 1 .. MaxTasks + 1
    BY <1>1, TimerAssumption DEF AddTask, TimerInv, TypeOK, Ids
  <2>3. left' \in [Nodes -> Int] /\ fresh' \subseteq Nodes
        /\ stop' \in [Nodes -> BOOLEAN] /\ scheduled' \in [Nodes -> BOOLEAN]
    BY DEF AddTask, TimerInv, TypeOK
  <2> QED BY <1>5, <2>1, <2>2, <2>3 DEF AddTask, workerVars, TimerInv, TypeOK
<1>8. Busy'
  <2>1. \A w \in Workers : on[w] # NoNode => on[w] \in listed
    BY DEF TimerInv, TypeOK, HeldIsListed, Held, Running
  <2> QED BY <1>4, <2>1 DEF AddTask, workerVars, TimerInv, Busy
<1>9. HeldIsListed'
  BY <1>3, <1>5 DEF TimerInv, HeldIsListed, Held
<1>10. HeldOnce'
  <2>1. state' = state /\ pool' = pool /\ on' = on
    BY DEF AddTask, workerVars
  <2>2. ASSUME state \in {"up", "terminating"}, NEW m \in listed'
        PROVE  scheduled'[m] <=> Held(m)'
    <3>1. CASE m = n
      BY <1>2, <1>3, <1>5, <3>1 DEF Held
    <3>2. CASE m # n
      <4>1. m \in listed
        BY <1>5, <3>2
      <4>2. scheduled[m] <=> Held(m)
        BY <2>2, <4>1 DEF TimerInv, HeldOnce
      <4> QED BY <1>3, <1>4, <4>1, <4>2 DEF Held
    <3> QED BY <3>1, <3>2
  <2> QED BY <1>3, <2>1, <2>2 DEF TimerInv, HeldOnce
<1>11. HeldGoesOn'
  BY <1>2, <1>3, <1>4 DEF TimerInv, HeldGoesOn, HeldIsListed, Held
<1>12. IdsDiffer'
  <2> SUFFICES ASSUME NEW m \in listed', NEW k \in listed', id'[m] = id'[k]
               PROVE  m = k
    BY DEF IdsDiffer
  <2>1. CASE m = n \/ k = n
    BY <1>4, <1>5, <1>6, <2>1
  <2>2. CASE m # n /\ k # n
    BY <1>4, <1>5, <2>2 DEF TimerInv, IdsDiffer
  <2> QED BY <2>1, <2>2
<1>13. Stopped'
  <2>1. nextId \notin ran /\ removed[nextId] = "no" /\ ran \subseteq 1 .. nextId' - 1
    BY <1>1 DEF TimerInv, Stopped
  <2>2. \A i \in Ids : i >= nextId' => i >= nextId
    BY <1>1, TimerAssumption DEF Ids
  <2>3. ran' = ran /\ removed' = removed
    BY DEF AddTask
  <2> QED BY <1>4, <1>5, <2>1, <2>2, <2>3 DEF TimerInv, Stopped
<1> QED BY <1>7, <1>8, <1>9, <1>10, <1>11, <1>12, <1>13 DEF TimerInv

\* A task that is removed is not scheduled, so that it is not in the queue.
LEMMA RemoveTaskKeeps ==
  ASSUME ~RemoveAnyTime, TimerInv, NEW n \in Nodes, RemoveTask(n)
  PROVE  TimerInv'
<1> USE DEF RemoveTask, MarkStopped, ClientMayCall, workerVars
<1>1. ~Held(n) /\ ~Queued(n)
  BY DEF TimerInv, HeldOnce, Held
<1>2. pool' = pool
  BY <1>1 DEF MovedToFront
<1>3. id[n] \in Ids /\ id[n] < nextId
  BY TimerAssumption DEF TimerInv, TypeOK, Ids
<1>4. TypeOK'
  <2>1. stop' \in [Nodes -> BOOLEAN]
    BY DEF TimerInv, TypeOK
  <2>2. removed' \in [Ids -> {"no", "true", "false"}]
    BY <1>3 DEF TimerInv, TypeOK
  <2> QED BY <1>2, <2>1, <2>2 DEF TimerInv, TypeOK
<1> HIDE DEF RemoveTask, MarkStopped, ClientMayCall, workerVars
<1>5. /\ state' = state /\ on' = on /\ listed' = listed /\ scheduled' = scheduled
      /\ id' = id /\ at' = at /\ runs' = runs /\ ran' = ran /\ nextId' = nextId
  BY DEF RemoveTask, workerVars
<1>6. \A m \in Nodes : (Queued(m)' <=> Queued(m)) /\ (Running(m)' <=> Running(m))
  BY <1>2, <1>5 DEF Queued, Running
<1>7. \A m \in Nodes : Held(m)' <=> Held(m)
  BY <1>6 DEF Held
<1>8. stop'[n] /\ \A m \in Nodes : m # n => stop'[m] = stop[m]
  BY DEF RemoveTask, MarkStopped, TimerInv, TypeOK
<1>9. \A i \in Ids : i # id[n] => removed'[i] = removed[i]
  BY <1>3 DEF RemoveTask, TimerInv, TypeOK
<1>10. Busy' /\ HeldIsListed' /\ IdsDiffer'
  <2>1. Busy'
    BY <1>5 DEF TimerInv, Busy
  <2>2. HeldIsListed' /\ IdsDiffer'
    BY <1>7, <1>5 DEF TimerInv, HeldIsListed, IdsDiffer
  <2> QED BY <2>1, <2>2
<1>11. HeldOnce'
  <2>1. listed \subseteq Nodes
    BY DEF TimerInv, TypeOK
  <2> QED BY <1>2, <1>7, <1>6, <1>5, <2>1 DEF TimerInv, HeldOnce
<1>12. HeldGoesOn'
  BY <1>1, <1>7, <1>8 DEF TimerInv, HeldGoesOn
<1>13. Stopped'
  <2>1. ASSUME NEW m \in listed PROVE m \in Nodes /\ id[m] \in Ids
    <3>1. m \in Nodes /\ id[m] \in 1 .. nextId - 1 /\ nextId \in 1 .. MaxTasks + 1
      BY DEF TimerInv, TypeOK
    <3> QED BY <3>1, TimerAssumption DEF Ids
  <2>2. \A m \in listed : m # n => id[m] # id[n]
    BY DEF RemoveTask, TimerInv, IdsDiffer
  <2>3. \A i \in Ids : i >= nextId => i # id[n]
    BY <1>3, TimerAssumption DEF TimerInv, TypeOK, Ids
  <2> QED BY <1>3, <1>8, <1>9, <1>5, <2>1, <2>2, <2>3 DEF TimerInv, Stopped
<1> QED BY <1>4, <1>10, <1>11, <1>12, <1>13 DEF TimerInv

\* A task that is due and not scheduled is queued for the first time.
LEMMA VisitKeeps ==
  ASSUME TimerInv, NEW n \in Nodes, Visit(n)
  PROVE  TimerInv'
<1>1. /\ UNCHANGED <<listed, id, stop, nextId, removed, ran, state>>
      /\ UNCHANGED <<on, at, runs, fresh, ticking, looping>>
      /\ state = "up" /\ n \in todo /\ todo' = todo \ {n}
  BY DEF Visit, workerVars
<1>2. n \in listed /\ n \in Nodes /\ listed \subseteq Nodes
  BY <1>1 DEF TimerInv, TypeOK
<1>3. CASE ~Due(n)
  <2>1. UNCHANGED <<scheduled, left, pool>>
    BY <1>3 DEF Visit
  <2>2. TypeOK'
    BY <1>1, <2>1 DEF TimerInv, TypeOK
  <2> QED BY <1>1, <2>1, <2>2, FrameKeeps DEF workerVars
<1>4. CASE Due(n)
  <2>1. /\ scheduled' = [scheduled EXCEPT ![n] = TRUE]
        /\ left' = [left EXCEPT ![n] = @ + Wait[id[n]]]
        /\ pool' = Append(pool, n)
    BY <1>4 DEF Visit, Pushed
  <2>2. ~scheduled[n] /\ ~stop[n]
    BY <1>4 DEF Due
  <2>3. ~Held(n)
    BY <1>1, <1>2, <2>2 DEF TimerInv, HeldOnce
  <2>4. /\ pool' \in Seq(Nodes)
        /\ \A m \in Nodes : Queued(m)' <=> Queued(m) \/ m = n
        /\ \A i, j \in DOMAIN pool' : pool'[i] = pool'[j] => i = j
    BY <2>1, <2>3, QueueGains DEF TimerInv, TypeOK, HeldOnce, Held
  <2>5. \A m \in Nodes : Running(m)' <=> Running(m)
    BY <1>1 DEF Running
  <2>6. scheduled'[n] /\ \A m \in Nodes : m # n => scheduled'[m] = scheduled[m]
    BY <2>1 DEF TimerInv, TypeOK
  <2>7. TypeOK'
    <3>1. scheduled' \in [Nodes -> BOOLEAN]
      BY <2>1 DEF TimerInv, TypeOK
    <3>2. Wait[id[n]] \in Int
      <4>1. id[n] \in 1 .. nextId - 1 /\ nextId \in 1 .. MaxTasks + 1
        BY <1>2 DEF TimerInv, TypeOK
      <4>2. id[n] \in Ids
        BY <4>1, TimerAssumption DEF Ids
      <4> QED BY <4>2, TimerAssumption
    <3>3. left' \in [Nodes -> Int]
      BY <2>1, <3>2 DEF TimerInv, TypeOK
    <3> QED BY <1>1, <2>4, <3>1, <3>3 DEF TimerInv, TypeOK
  <2>8. Busy' /\ IdsDiffer'
    BY <1>1 DEF TimerInv, Busy, IdsDiffer
  <2>9. HeldIsListed' /\ HeldGoesOn'
    BY <1>1, <1>2, <2>2, <2>4, <2>5 DEF TimerInv, HeldIsListed, HeldGoesOn, Held
  <2>10. HeldOnce'
    <3>1. \A m \in Nodes : ~(Queued(m) /\ Running(m))'
      BY <2>3, <2>4, <2>5 DEF TimerInv, HeldOnce, Held
    <3>2. \A m \in listed' : scheduled'[m] <=> Held(m)'
      BY <1>1, <1>2, <2>4, <2>5, <2>6 DEF TimerInv, HeldOnce, Held
    <3> QED BY <1>1, <2>4, <3>1, <3>2 DEF TimerInv, HeldOnce
  <2>11. Stopped'
    BY <1>1 DEF TimerInv, Stopped
  <2> QED BY <2>7, <2>8, <2>9, <2>10, <2>11 DEF TimerInv
<1> QED BY <1>3, <1>4

\* remove_if erases stopped tasks, and so none that the pool holds.
LEMMA TickEndKeeps ==
  ASSUME TimerInv, TickEnd
  PROVE  TimerInv'
<1>1. /\ UNCHANGED <<id, left, fresh, stop, scheduled, nextId, removed, ran, state>>
      /\ UNCHANGED <<on, at, runs, pool, looping>>
      /\ listed' = {n \in listed : ~stop[n]}
      /\ todo' = {} /\ ticking' = FALSE
  BY DEF TickEnd, IsStopped, taskVars, workerVars
<1>2. \A m \in Nodes : (Queued(m)' <=> Queued(m)) /\ (Running(m)' <=> Running(m))
  BY <1>1 DEF Queued, Running
<1>3. TypeOK'
  BY <1>1 DEF TimerInv, TypeOK
<1>4. HeldIsListed' /\ HeldGoesOn'
  BY <1>1, <1>2 DEF TimerInv, HeldIsListed, HeldGoesOn, Held
<1>5. HeldOnce'
  <2>1. listed \subseteq Nodes /\ listed' \subseteq listed
    BY <1>1 DEF TimerInv, TypeOK
  <2> QED BY <1>1, <1>2, <2>1 DEF TimerInv, HeldOnce, Held
<1>6. Busy' /\ IdsDiffer' /\ Stopped'
  <2>1. Busy'
    BY <1>1 DEF TimerInv, Busy
  <2>2. IdsDiffer' /\ Stopped'
    BY <1>1 DEF TimerInv, IdsDiffer, Stopped
  <2> QED BY <2>1, <2>2
<1> QED BY <1>3, <1>4, <1>5, <1>6 DEF TimerInv

\* The head of the queue goes to a worker.
LEMMA TakeItemKeeps ==
  ASSUME TimerInv, NEW w \in Workers, TakeItem(w)
  PROVE  TimerInv'
<1> DEFINE h == Head(pool)
<1>1. /\ UNCHANGED <<listed, id, left, fresh, stop, scheduled, nextId, removed, ran>>
      /\ UNCHANGED <<state, ticking, todo, looping>>
      /\ at[w] = "idle" /\ pool # <<>> /\ pool' = Tail(pool)
      /\ at' = [at EXCEPT ![w] = "callback"]
      /\ on' = [on EXCEPT ![w] = h]
      /\ runs' = [runs EXCEPT ![w] = id[h]]
  BY DEF TakeItem, taskVars
<1>2. /\ pool' \in Seq(Nodes) /\ h \in Nodes /\ Queued(h)
      /\ \A n \in Nodes : Queued(n)' <=> Queued(n) /\ n # h
      /\ \A i, j \in DOMAIN pool' : pool'[i] = pool'[j] => i = j
  BY <1>1, QueueLoses DEF TimerInv, TypeOK, HeldOnce
<1> HIDE DEF h
<1>3. on[w] = NoNode /\ h # NoNode
  BY <1>1, <1>2, TimerAssumption DEF TimerInv, Busy
<1>4. /\ on'[w] = h /\ at'[w] = "callback" /\ runs'[w] = id[h]
      /\ \A v \in Workers : v # w => on'[v] = on[v] /\ at'[v] = at[v] /\ runs'[v] = runs[v]
  BY <1>1 DEF TimerInv, TypeOK
<1>5. \A v \in Workers : on[v] # h
  BY <1>2 DEF TimerInv, HeldOnce, Running
<1>6. \A n \in Nodes : Running(n)' <=> Running(n) \/ n = h
  BY <1>3, <1>4, TimerAssumption DEF Running
<1>7. \A n \in Nodes : Held(n)' <=> Held(n)
  BY <1>2, <1>6 DEF Held
<1>8. TypeOK'
  BY <1>1, <1>2 DEF TimerInv, TypeOK
<1>9. Busy'
  BY <1>1, <1>3, <1>4 DEF TimerInv, Busy
<1>10. HeldIsListed' /\ HeldGoesOn' /\ IdsDiffer' /\ Stopped'
  BY <1>1, <1>7 DEF TimerInv, HeldIsListed, HeldGoesOn, IdsDiffer, Stopped
<1>11. HeldOnce'
  <2>1. \A u, v \in Workers : on'[u] = on'[v] /\ on'[u] # NoNode => u = v
    BY <1>4, <1>5 DEF TimerInv, HeldOnce
  <2>2. \A n \in Nodes : ~(Queued(n)' /\ Running(n)')
    BY <1>2, <1>6 DEF TimerInv, HeldOnce
  <2>3. state' \in {"up", "terminating"} => \A n \in listed' : scheduled'[n] <=> Held(n)'
    BY <1>1, <1>7 DEF TimerInv, HeldOnce, TypeOK
  <2> QED BY <1>2, <2>1, <2>2, <2>3 DEF HeldOnce
<1> QED BY <1>8, <1>9, <1>10, <1>11 DEF TimerInv

\* A worker that is done with a task lets go of it, and stops a single shot.
LEMMA FinishKeeps ==
  ASSUME TimerInv, NEW w \in Workers, Finish(w)
  PROVE  TimerInv'
<1> DEFINE m == on[w]
<1>1. /\ UNCHANGED <<listed, id, left, fresh, nextId, removed, pool>>
      /\ UNCHANGED <<state, ticking, todo, looping>>
      /\ at[w] = "callback"
      /\ scheduled' = [scheduled EXCEPT ![m] = FALSE]
      /\ at' = [at EXCEPT ![w] = "idle"]
      /\ on' = [on EXCEPT ![w] = NoNode]
      /\ runs' = [runs EXCEPT ![w] = 0]
      /\ ran' = ran \cup {runs[w]}
  BY DEF Finish, Unschedule, Leave
<1>2. PICK doStop \in BOOLEAN : stop' = [stop EXCEPT ![m] = StopFlag(m, doStop)]
  BY DEF Finish
<1>3. m # NoNode /\ m \in Nodes /\ runs[w] = id[m]
  BY <1>1 DEF TimerInv, TypeOK, Busy
<1>4. Held(m) /\ Running(m)
  BY DEF Held, Running
<1> HIDE DEF m
<1>5. m \in listed /\ ~stop[m] /\ ~Queued(m)
  BY <1>3, <1>4 DEF TimerInv, HeldIsListed, HeldGoesOn, HeldOnce
<1>6. StopFlag(m, doStop) \in BOOLEAN
  BY <1>2 DEF StopFlag
<1>7. /\ stop'[m] = StopFlag(m, doStop) /\ ~scheduled'[m]
      /\ \A n \in Nodes : n # m => stop'[n] = stop[n] /\ scheduled'[n] = scheduled[n]
  BY <1>1, <1>2, <1>3 DEF TimerInv, TypeOK
<1>8. /\ on'[w] = NoNode /\ at'[w] = "idle" /\ runs'[w] = 0
      /\ \A v \in Workers : v # w => on'[v] = on[v] /\ at'[v] = at[v] /\ runs'[v] = runs[v]
  BY <1>1 DEF TimerInv, TypeOK
<1>9. \A v \in Workers : v # w => on[v] # m
  BY <1>3 DEF m, TimerInv, HeldOnce
<1>10. \A n \in Nodes : (Queued(n)' <=> Queued(n)) /\ (Running(n)' <=> Running(n) /\ n # m)
  <2>1. \A n \in Nodes : Queued(n)' <=> Queued(n)
    BY <1>1 DEF Queued
  <2>2. ASSUME NEW n \in Nodes PROVE Running(n)' <=> Running(n) /\ n # m
    <3>1. n # NoNode
      BY TimerAssumption
    <3> QED BY <1>8, <1>9, <3>1 DEF Running, m
  <2> QED BY <2>1, <2>2
<1>11. id[m] \in 1 .. nextId - 1 /\ nextId \in 1 .. MaxTasks + 1
  BY <1>5 DEF TimerInv, TypeOK
<1>12. TypeOK'
  <2>1. stop' \in [Nodes -> BOOLEAN] /\ scheduled' \in [Nodes -> BOOLEAN]
    BY <1>1, <1>2, <1>6 DEF TimerInv, TypeOK
  <2>2. ran' \subseteq Ids
    <3>1. runs[w] \in Ids
      BY <1>3, <1>11, TimerAssumption DEF Ids
    <3>2. ran \subseteq Ids /\ ran' = ran \cup {runs[w]}
      BY <1>1 DEF TimerInv, TypeOK
    <3> QED BY <3>1, <3>2
  <2>3. /\ on' \in [Workers -> Nodes \cup {NoNode}]
        /\ at' \in [Workers -> {"idle", "callback", "thrown", "stopped"}]
        /\ runs' \in [Workers -> 0 .. MaxTasks]
    BY <1>1, TimerAssumption DEF TimerInv, TypeOK
  <2> QED BY <1>1, <2>1, <2>2, <2>3 DEF TimerInv, TypeOK
<1>13. Busy'
  BY <1>1, <1>8 DEF TimerInv, Busy
<1>14. HeldIsListed' /\ HeldGoesOn'
  BY <1>1, <1>5, <1>7, <1>10 DEF TimerInv, HeldIsListed, HeldGoesOn, Held
<1>15. HeldOnce'
  <2>1. \A u, v \in Workers : on'[u] = on'[v] /\ on'[u] # NoNode => u = v
    BY <1>8 DEF TimerInv, HeldOnce
  <2>2. \A n \in Nodes : ~(Queued(n)' /\ Running(n)')
    BY <1>10 DEF TimerInv, HeldOnce
  <2>3. ASSUME state \in {"up", "terminating"}, NEW n \in listed
        PROVE  scheduled'[n] <=> Held(n)'
    <3>1. n \in Nodes /\ (scheduled[n] <=> Held(n))
      BY <2>3 DEF TimerInv, HeldOnce, TypeOK
    <3> QED BY <1>5, <1>7, <1>10, <3>1 DEF Held
  <2> QED BY <1>1, <2>1, <2>2, <2>3 DEF TimerInv, HeldOnce
<1>16. IdsDiffer'
  BY <1>1 DEF TimerInv, IdsDiffer
<1>17. Stopped'
  <2>1. ASSUME NEW n \in listed, id[n] \in SingleShot \cap ran' PROVE stop'[n]
    <3>1. n \in Nodes
      BY DEF TimerInv, TypeOK
    <3>2. CASE n = m
      BY <1>7, <2>1, <3>2 DEF StopFlag
    <3>3. CASE n # m
      <4>1. id[n] # id[m]
        BY <1>5, <3>3 DEF TimerInv, IdsDiffer
      <4>2. id[n] \in ran
        BY <1>1, <1>3, <2>1, <4>1
      <4> QED BY <1>7, <2>1, <3>1, <3>3, <4>2 DEF TimerInv, Stopped
    <3> QED BY <3>2, <3>3
  <2>2. ASSUME NEW n \in listed, removed[id[n]] # "no" PROVE stop'[n]
    <3>1. n \in Nodes /\ stop[n]
      BY <2>2 DEF TimerInv, TypeOK, Stopped
    <3>2. n # m
      BY <1>5, <3>1
    <3> QED BY <1>7, <3>1, <3>2
  <2>3. ran' \subseteq 1 .. nextId - 1
    BY <1>1, <1>3, <1>11 DEF TimerInv, Stopped
  <2> QED BY <1>1, <2>1, <2>2, <2>3 DEF TimerInv, Stopped
<1> QED BY <1>12, <1>13, <1>14, <1>15, <1>16, <1>17 DEF TimerInv

\* The destructor discards the queue.
LEMMA DiscardKeeps ==
  ASSUME TimerInv, Discard
  PROVE  TimerInv'
<1>1. /\ UNCHANGED <<listed, id, left, fresh, stop, scheduled, nextId, removed, ran>>
      /\ UNCHANGED <<on, at, runs, ticking, todo, looping>>
      /\ state' = "draining" /\ pool' = <<>>
  BY DEF Discard, taskVars, workerVars
<1>2. DOMAIN pool' = {} /\ pool' \in Seq(Nodes)
  BY <1>1
<1>3. \A n \in Nodes : ~Queued(n)' /\ (Running(n)' <=> Running(n))
  BY <1>1, <1>2 DEF Queued, Running
<1>4. TypeOK'
  BY <1>1, <1>2 DEF TimerInv, TypeOK
<1>5. Busy' /\ IdsDiffer' /\ Stopped'
  BY <1>1 DEF TimerInv, Busy, IdsDiffer, Stopped
<1>6. HeldIsListed' /\ HeldGoesOn'
  BY <1>1, <1>3 DEF TimerInv, HeldIsListed, HeldGoesOn, Held
<1>7. HeldOnce'
  BY <1>1, <1>2, <1>3 DEF TimerInv, HeldOnce
<1> QED BY <1>4, <1>5, <1>6, <1>7 DEF TimerInv

\* Every step keeps the invariant.
LEMMA TimerInvStep ==
  ASSUME ~RemoveAnyTime, ~UnknownErrors, TimerInv, [Next]_vars
  PROVE  TimerInv'
<1>1. ASSUME NEW n \in Nodes, AddTask(n) \/ RemoveTask(n) \/ Visit(n)
      PROVE  TimerInv'
  BY <1>1, AddTaskKeeps, RemoveTaskKeeps, VisitKeeps
<1>2. ASSUME TickBegin PROVE TimerInv'
  <2>1. /\ UNCHANGED <<listed, id, stop, scheduled, nextId, pool, removed, ran, state>>
        /\ UNCHANGED <<on, at, runs, looping>>
        /\ ticking' = TRUE /\ todo' = listed /\ fresh' = {}
    BY <1>2 DEF TickBegin, workerVars
  <2>2. PICK sleep \in 1 .. MaxSleep :
            left' = [n \in Nodes |->
                        IF n \notin listed THEN left[n]
                        ELSE IF n \in fresh THEN Wait[id[n]]
                        ELSE Later(left[n] - sleep, -MaxLate)]
    BY <1>2 DEF TickBegin
  <2>3. left' \in [Nodes -> Int]
    <3>1. sleep \in Int /\ -MaxLate \in Int
      BY TimerAssumption
    <3>2. ASSUME NEW n \in Nodes
          PROVE  /\ left[n] \in Int /\ Later(left[n] - sleep, -MaxLate) \in Int
                 /\ n \in listed => Wait[id[n]] \in Int
      <4>1. left[n] \in Int
        BY DEF TimerInv, TypeOK
      <4>2. ASSUME n \in listed PROVE Wait[id[n]] \in Int
        <5>1. id[n] \in 1 .. nextId - 1 /\ nextId \in 1 .. MaxTasks + 1
          BY <4>2 DEF TimerInv, TypeOK
        <5>2. id[n] \in Ids
          BY <5>1, TimerAssumption DEF Ids
        <5> QED BY <5>2, TimerAssumption
      <4> QED BY <3>1, <4>1, <4>2 DEF Later
    <3> QED BY <2>2, <3>2
  <2>4. TypeOK'
    BY <2>1, <2>3 DEF TimerInv, TypeOK
  <2> QED BY <2>1, <2>4, FrameKeeps DEF workerVars
<1>3. ASSUME LoopExit \/ Stop \/ Free PROVE TimerInv'
  <2>1. TypeOK'
    BY <1>3 DEF LoopExit, Stop, Free, taskVars, workerVars, TimerInv, TypeOK
  <2> QED BY <1>3, <2>1, FrameKeeps DEF LoopExit, Stop, Free, taskVars
<1>4. ASSUME NEW w \in Workers, Worker(w) PROVE TimerInv'
  <2>1. ~Throw(w) /\ ~ThrownStops(w) /\ ~ThrownLeaves(w)
    BY DEF Throw, ThrownStops, ThrownLeaves, TimerInv, Busy
  <2> QED BY <1>4, <2>1, TakeItemKeeps, FinishKeeps DEF Worker
<1>5. CASE UNCHANGED vars
  <2>1. TypeOK'
    BY <1>5 DEF vars, taskVars, workerVars, TimerInv, TypeOK
  <2> QED BY <1>5, <2>1, FrameKeeps DEF vars, taskVars
<1> QED BY <1>1, <1>2, <1>3, <1>4, <1>5, TickEndKeeps, DiscardKeeps
        DEF Next, MainLoop, Destructor

\* A task that is removed while the pool does not hold it is not queued again.
LEMMA RemovedStaysOut ==
  ASSUME ~RemoveAnyTime, ~UnknownErrors, TimerInv, [Next]_vars,
         NEW n \in listed, removed[id[n]] # "no", ~Held(n)
  PROVE  ~Held(n)'
<1>1. n \in Nodes /\ stop[n] /\ ~Queued(n) /\ ~Running(n)
  BY DEF TimerInv, TypeOK, Stopped, Held
<1>2. CASE UNCHANGED <<pool, on>>
  BY <1>1, <1>2 DEF Held, Queued, Running
<1>3. ASSUME NEW m \in Nodes, RemoveTask(m) PROVE ~Held(n)'
  <2>1. ~Queued(m)
    BY <1>3 DEF RemoveTask, ClientMayCall, TimerInv, HeldOnce, Held
  <2> QED BY <1>2, <1>3, <2>1 DEF RemoveTask, MovedToFront, workerVars
<1>4. ASSUME NEW m \in Nodes, Visit(m) PROVE ~Held(n)'
  <2>1. CASE Due(m)
    <3>1. m # n /\ pool' = Append(pool, m) /\ on' = on /\ state = "up" /\ m \in listed
      BY <1>1, <1>4, <2>1 DEF Visit, Due, Pushed, workerVars, TimerInv, TypeOK
    <3>2. ~Queued(m)
      BY <2>1, <3>1 DEF Due, TimerInv, HeldOnce, Held
    <3>3. Queued(n)' <=> Queued(n) \/ n = m
      BY <1>1, <3>1, <3>2, QueueGains DEF TimerInv, TypeOK, HeldOnce
    <3> QED BY <1>1, <3>1, <3>3 DEF Held, Running
  <2>2. CASE ~Due(m)
    BY <1>2, <1>4, <2>2 DEF Visit, workerVars
  <2> QED BY <2>1, <2>2
<1>5. ASSUME NEW w \in Workers, TakeItem(w) PROVE ~Held(n)'
  <2>1. pool # <<>> /\ pool' = Tail(pool) /\ on' = [on EXCEPT ![w] = Head(pool)]
    BY <1>5 DEF TakeItem
  <2>2. /\ Queued(Head(pool))
        /\ Queued(n)' <=> Queued(n) /\ n # Head(pool)
    BY <1>1, <2>1, QueueLoses DEF TimerInv, TypeOK, HeldOnce
  <2>3. n # Head(pool)
    BY <1>1, <2>2
  <2>4. \A v \in Workers : on'[v] = on[v] \/ on'[v] = Head(pool)
    BY <2>1 DEF TimerInv, TypeOK
  <2> QED BY <1>1, <2>2, <2>3, <2>4 DEF Held, Running
<1>6. ASSUME NEW w \in Workers, Finish(w) PROVE ~Held(n)'
  <2>1. pool' = pool /\ on' = [on EXCEPT ![w] = NoNode]
    BY <1>6 DEF Finish, Leave
  <2>2. \A v \in Workers : on'[v] = on[v] \/ on'[v] = NoNode
    BY <2>1 DEF TimerInv, TypeOK
  <2>3. n # NoNode
    BY <1>1, TimerAssumption
  <2> QED BY <1>1, <2>1, <2>2, <2>3 DEF Held, Queued, Running
<1>7. ASSUME Discard PROVE ~Held(n)'
  <2>1. pool' = <<>> /\ on' = on
    BY <1>7 DEF Discard, workerVars
  <2>2. DOMAIN pool' = {}
    BY <2>1
  <2> QED BY <1>1, <2>1, <2>2 DEF Held, Queued, Running
<1>8. ASSUME NEW w \in Workers, Worker(w) PROVE ~Held(n)'
  <2>1. ~Throw(w) /\ ~ThrownStops(w) /\ ~ThrownLeaves(w)
    BY DEF Throw, ThrownStops, ThrownLeaves, TimerInv, Busy
  <2> QED BY <1>5, <1>6, <1>8, <2>1 DEF Worker
<1>9. ASSUME \/ \E m \in Nodes : AddTask(m)
             \/ TickBegin \/ TickEnd \/ LoopExit \/ Stop \/ Free
             \/ UNCHANGED vars
      PROVE  ~Held(n)'
  BY <1>2, <1>9
  DEF AddTask, TickBegin, TickEnd, LoopExit, Stop, Free, vars, workerVars
<1> QED BY <1>3, <1>4, <1>7, <1>8, <1>9 DEF Next, MainLoop, Destructor

-----------------------------------------------------------------------------
(* Theorems                                                                  *)

\* The types of the timer, as long as clients only remove what is not scheduled
\* and callbacks throw only std::exceptions.
THEOREM TimerTypeCorrect ==
  ASSUME ~RemoveAnyTime, ~UnknownErrors
  PROVE  Spec => []TypeOK
<1>1. TimerInv => TypeOK
  BY DEF TimerInv
<1>2. TimerInv /\ [Next]_vars => TimerInv'
  BY TimerInvStep
<1> QED BY TimerInvInit, <1>1, <1>2, PTL DEF Spec

\* Under the same conditions no node of _tasks is erased while the pool knows its
\* address (remove_if of main_loop against pool_function).
THEOREM HeldAlwaysListed ==
  ASSUME ~RemoveAnyTime, ~UnknownErrors
  PROVE  Spec => []HeldIsListed
<1>1. TimerInv => HeldIsListed
  BY DEF TimerInv
<1>2. TimerInv /\ [Next]_vars => TimerInv'
  BY TimerInvStep
<1> QED BY TimerInvInit, <1>1, <1>2, PTL DEF Spec

\* A task is handed to the pool once at a time, whatever its wait time and however
\* long its callback runs.
THEOREM HeldAlwaysOnce ==
  ASSUME ~RemoveAnyTime, ~UnknownErrors
  PROVE  Spec => []HeldOnce
<1>1. TimerInv => HeldOnce
  BY DEF TimerInv
<1>2. TimerInv /\ [Next]_vars => TimerInv'
  BY TimerInvStep
<1> QED BY TimerInvInit, <1>1, <1>2, PTL DEF Spec

\* A single shot whose callback has returned is not handed out again.
THEOREM SingleShotOnce ==
  ASSUME ~RemoveAnyTime, ~UnknownErrors
  PROVE  Spec => []SingleShotRunsOnce
<1>1. TimerInv => SingleShotRunsOnce
  BY DEF TimerInv, SingleShotRunsOnce, HeldIsListed, HeldGoesOn, Stopped
<1>2. TimerInv /\ [Next]_vars => TimerInv'
  BY TimerInvStep
<1> QED BY TimerInvInit, <1>1, <1>2, PTL DEF Spec

\* A task that was removed while the pool did not hold it is never handed out again.
THEOREM RemovedStaysQuiet ==
  ASSUME ~RemoveAnyTime, ~UnknownErrors
  PROVE  Spec => RemovedNeverRuns
<1>1. TimerInv /\ [Next]_vars
        => [\A n \in listed : removed[id[n]] # "no" /\ ~Held(n) => ~Held(n)']_vars
  BY RemovedStaysOut
<1>2. TimerInv /\ [Next]_vars => TimerInv'
  BY TimerInvStep
<1> QED BY TimerInvInit, <1>1, <1>2, PTL DEF Spec, RemovedNeverRuns

=============================================================================
