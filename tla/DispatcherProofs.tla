-------------------------- MODULE DispatcherProofs --------------------------
(***************************************************************************)
(* Safety of Dispatcher for every set of tasks and every value of the      *)
(* other constants: type correctness and its five safety properties.       *)
(*                                                                         *)
(* The first inductive invariant, IInv, follows the "finished" callback of *)
(* each task, its token: it exists exactly while the task is in phase      *)
(* "finishing", once, in the callback queue or as a frame of a thread.     *)
(* NoLostCallback, BusyCountsExecution and FinishedAfterExecution rest on  *)
(* it.                                                                     *)
(*                                                                         *)
(* The second, OrderInv, says where the executing tasks are on the stacks  *)
(* (Nest), which of them have a message handler (HandlerInv) and what the  *)
(* client of each has heard or will hear (LifeInv).  CallbacksInOrder and  *)
(* HandlersMirrorExecution rest on it.                                     *)
(***************************************************************************)
EXTENDS Dispatcher, FiniteSetTheorems, TLAPS

Token(t) == [kind |-> "finished", task |-> t]
TokenFrame(t) == [at |-> "finished", task |-> t]

InQueue(cq, t) == \E i \in 1 .. Len(cq) : cq[i] = Token(t)
OnStack(st, t) == \E th \in Threads : \E i \in 1 .. Len(st[th]) :
                      st[th][i] = TokenFrame(t)

\* What a callback of kind k says about the phase of its task.
PhaseOf(ph, k, t) ==
    /\ k \in {"finished", "failed"} => t \in Tasks
    /\ k = "finished" => ph[t] = "finishing"
    /\ k = "failed" => ph[t] \in {"leaving", "ended"}

QueuePhases(cq, ph) == \A i \in 1 .. Len(cq) : PhaseOf(ph, cq[i].kind, cq[i].task)
StackPhases(st, ph) == \A th \in Threads : \A i \in 1 .. Len(st[th]) :
                           PhaseOf(ph, st[th][i].at, st[th][i].task)
UniqueInQueue(cq) ==
    \A i, j \in 1 .. Len(cq) :
        cq[i].kind = "finished" /\ cq[i] = cq[j] => i = j
UniqueOnStack(st) ==
    \A th, uh \in Threads : \A i \in 1 .. Len(st[th]), j \in 1 .. Len(st[uh]) :
        st[th][i].at = "finished" /\ st[th][i] = st[uh][j] => th = uh /\ i = j
Disjoint(cq, st) == \A t : ~(InQueue(cq, t) /\ OnStack(st, t))
NoneLost(cq, st, ph) ==
    \A t \in Tasks : ph[t] = "finishing" => InQueue(cq, t) \/ OnStack(st, t)

Sound(cq, st, ph) ==
    /\ QueuePhases(cq, ph)
    /\ StackPhases(st, ph)
    /\ UniqueInQueue(cq)
    /\ UniqueOnStack(st)
    /\ Disjoint(cq, st)

Tokens(cq, st, ph) == Sound(cq, st, ph) /\ NoneLost(cq, st, ph)

TaskQueueInv ==
    /\ \A i \in 1 .. Len(taskQueue) :
           taskQueue[i] # NullTask => phase[taskQueue[i]] = "queued"
    /\ \A i, j \in 1 .. Len(taskQueue) :
           taskQueue[i] # NullTask /\ taskQueue[i] = taskQueue[j] => i = j

IInv ==
    /\ TypeOK
    /\ TaskQueueInv
    /\ Tokens(callbackQueue, stack, phase)
    /\ FinishedAfterExecution
    /\ BusyCountsExecution
-----------------------------------------------------------------------------
(* Sequences: a queue loses its head or gains an element at its end, a stack *)
(* loses or gains its head.                                                  *)

LEMMA TailElements ==
    ASSUME NEW S, NEW s \in Seq(S), s # <<>>
    PROVE  /\ Tail(s) \in Seq(S)
           /\ Len(s) \in Nat \ {0}
           /\ Len(Tail(s)) = Len(s) - 1
           /\ Head(s) = s[1]
           /\ Head(s) \in S
           /\ \A i \in 1 .. Len(Tail(s)) : i + 1 \in 1 .. Len(s) /\ Tail(s)[i] = s[i + 1]
           /\ \A i \in 2 .. Len(s) : i - 1 \in 1 .. Len(Tail(s)) /\ Tail(s)[i - 1] = s[i]
  OBVIOUS

LEMMA ConsElements ==
    ASSUME NEW S, NEW s \in Seq(S), NEW e \in S
    PROVE  /\ <<e>> \o s \in Seq(S)
           /\ Len(<<e>> \o s) = Len(s) + 1
           /\ (<<e>> \o s)[1] = e
           /\ Len(s) \in Nat
           /\ \A i \in 1 .. Len(s) : (<<e>> \o s)[i + 1] = s[i]
           /\ \A i \in 1 .. Len(<<e>> \o s) :
                  i # 1 => i - 1 \in 1 .. Len(s) /\ (<<e>> \o s)[i] = s[i - 1]
  OBVIOUS

LEMMA AppendElements ==
    ASSUME NEW S, NEW s \in Seq(S), NEW e \in S
    PROVE  /\ Append(s, e) \in Seq(S)
           /\ Len(s) \in Nat
           /\ Len(Append(s, e)) = Len(s) + 1
           /\ Append(s, e)[Len(s) + 1] = e
           /\ \A i \in 1 .. Len(s) : Append(s, e)[i] = s[i]
  OBVIOUS

-----------------------------------------------------------------------------
(* How the queue, the stacks and the phases may change *)

Pushed(st, th, f) == [st EXCEPT ![th] = <<f>> \o @]
Popped(st, th) == [st EXCEPT ![th] = Tail(@)]
Changed(ph, t, q) == [ph EXCEPT ![t] = q]

\* A thread enters a frame: a token only of a task that has none.
LEMMA PushFrame ==
    ASSUME NEW cq \in Seq(Callback), NEW st \in [Threads -> Seq(Frame)],
           NEW ph \in [Tasks -> Phases], Sound(cq, st, ph),
           NEW th \in Threads, NEW f \in Frame, PhaseOf(ph, f.at, f.task),
           f.at = "finished" => ~InQueue(cq, f.task) /\ ~OnStack(st, f.task)
    PROVE  /\ Pushed(st, th, f) \in [Threads -> Seq(Frame)]
           /\ Sound(cq, Pushed(st, th, f), ph)
           /\ \A t : OnStack(Pushed(st, th, f), t)
                         <=> OnStack(st, t) \/ f = TokenFrame(t)
  <1> DEFINE st2 == Pushed(st, th, f)
  <1>0. st2 = [st EXCEPT ![th] = <<f>> \o @]
    BY DEF Pushed
  <1> HIDE DEF st2
  <1>1. st2 \in [Threads -> Seq(Frame)]
    BY <1>0, ConsElements
  <1>2. /\ Len(st2[th]) = Len(st[th]) + 1
        /\ st2[th][1] = f
        /\ \A i \in 1 .. Len(st[th]) : st2[th][i + 1] = st[th][i]
        /\ \A i \in 1 .. Len(st2[th]) :
               i # 1 => i - 1 \in 1 .. Len(st[th]) /\ st2[th][i] = st[th][i - 1]
        /\ Len(st[th]) \in Nat
    BY <1>0, ConsElements
  <1>3. \A uh \in Threads : uh # th => st2[uh] = st[uh]
    BY <1>0
  <1>4. ASSUME NEW t PROVE OnStack(st2, t) <=> OnStack(st, t) \/ f = TokenFrame(t)
    <2>1. ASSUME OnStack(st2, t) PROVE OnStack(st, t) \/ f = TokenFrame(t)
      <3>0. PICK uh \in Threads : \E i \in 1 .. Len(st2[uh]) : st2[uh][i] = TokenFrame(t)
        BY <2>1 DEF OnStack
      <3>1. PICK i \in 1 .. Len(st2[uh]) : st2[uh][i] = TokenFrame(t)
        BY <3>0
      <3>2. CASE uh = th /\ i = 1
        BY <3>1, <3>2, <1>2
      <3>3. CASE uh = th /\ i # 1
        BY <3>1, <3>3, <1>2 DEF OnStack
      <3>4. CASE uh # th
        BY <3>1, <3>4, <1>3 DEF OnStack
      <3> QED BY <3>2, <3>3, <3>4
    <2>2. ASSUME OnStack(st, t) PROVE OnStack(st2, t)
      <3>0. PICK uh \in Threads : \E i \in 1 .. Len(st[uh]) : st[uh][i] = TokenFrame(t)
        BY <2>2 DEF OnStack
      <3>1. PICK i \in 1 .. Len(st[uh]) : st[uh][i] = TokenFrame(t)
        BY <3>0
      <3>2. CASE uh = th
        <4>1. i + 1 \in 1 .. Len(st2[th]) /\ st2[th][i + 1] = TokenFrame(t)
          BY <3>1, <3>2, <1>2
        <4> QED BY <4>1 DEF OnStack
      <3>3. CASE uh # th
        BY <3>1, <3>3, <1>3 DEF OnStack
      <3> QED BY <3>2, <3>3
    <2>3. ASSUME f = TokenFrame(t) PROVE OnStack(st2, t)
      <3>1. 1 \in 1 .. Len(st2[th]) /\ st2[th][1] = TokenFrame(t)
        BY <2>3, <1>2
      <3> QED BY <3>1 DEF OnStack
    <2> QED BY <2>1, <2>2, <2>3
  <1>5. StackPhases(st2, ph)
    <2> SUFFICES ASSUME NEW a \in Threads, NEW i \in 1 .. Len(st2[a])
                 PROVE  PhaseOf(ph, st2[a][i].at, st2[a][i].task)
      BY DEF StackPhases
    <2>1. \A b \in Threads : \A j \in 1 .. Len(st[b]) :
              PhaseOf(ph, st[b][j].at, st[b][j].task)
      BY DEF Sound, StackPhases
    <2>2. CASE a = th /\ i = 1
      BY <2>2, <1>2
    <2>3. CASE a = th /\ i # 1
      BY <2>1, <2>3, <1>2
    <2>4. CASE a # th
      BY <2>1, <2>4, <1>3
    <2> QED BY <2>2, <2>3, <2>4
  <1>6. \A a \in Threads : \A i \in 1 .. Len(st[a]) :
            st[a][i].at = "finished" => st[a][i] # f
    <2> SUFFICES ASSUME NEW a \in Threads, NEW i \in 1 .. Len(st[a]),
                        st[a][i].at = "finished", st[a][i] = f
                 PROVE  FALSE
      OBVIOUS
    <2>1. f = TokenFrame(f.task)
      BY DEF Frame, TokenFrame
    <2> QED BY <2>1 DEF OnStack
  <1>7. UniqueOnStack(st2)
    <2> SUFFICES \A a, b \in Threads : \A i \in 1 .. Len(st2[a]), j \in 1 .. Len(st2[b]) :
                     st2[a][i].at = "finished" /\ st2[a][i] = st2[b][j] => a = b /\ i = j
      BY Zenon DEF UniqueOnStack
    <2> TAKE a, b \in Threads
    <2> TAKE i \in 1 .. Len(st2[a]), j \in 1 .. Len(st2[b])
    <2> HAVE st2[a][i].at = "finished" /\ st2[a][i] = st2[b][j]
    <2>1. UniqueOnStack(st)
      BY DEF Sound
    <2>2. CASE a = th /\ i = 1
      <3>1. CASE b = th
        <4> SUFFICES ASSUME j # 1 PROVE FALSE
          BY <2>2, <3>1
        <4>1. j - 1 \in 1 .. Len(st[th]) /\ st[th][j - 1] = f /\ f.at = "finished"
          BY <2>2, <3>1, <1>2
        <4> QED BY <4>1, <1>6
      <3>2. CASE b # th
        BY <2>2, <3>2, <1>2, <1>3, <1>6
      <3> QED BY <3>1, <3>2
    <2>3. CASE b = th /\ j = 1
      <3>1. CASE a = th
        <4> SUFFICES ASSUME i # 1 PROVE FALSE
          BY <2>3, <3>1
        <4>1. i - 1 \in 1 .. Len(st[th]) /\ st[th][i - 1] = f /\ f.at = "finished"
          BY <2>3, <3>1, <1>2
        <4> QED BY <4>1, <1>6
      <3>2. CASE a # th
        BY <2>3, <3>2, <1>2, <1>3, <1>6
      <3> QED BY <3>1, <3>2
    <2>4. CASE a = th /\ b = th /\ i # 1 /\ j # 1
      <3>1. /\ i - 1 \in 1 .. Len(st[th]) /\ j - 1 \in 1 .. Len(st[th])
            /\ st[th][i - 1].at = "finished" /\ st[th][i - 1] = st[th][j - 1]
        BY <2>4, <1>2
      <3>2. i - 1 = j - 1
        BY <3>1, <2>1 DEF UniqueOnStack
      <3> QED BY <3>2, <2>4
    <2>5. CASE a = th /\ b # th /\ i # 1
      <3>1. /\ i - 1 \in 1 .. Len(st[th]) /\ j \in 1 .. Len(st[b])
            /\ st[th][i - 1].at = "finished" /\ st[th][i - 1] = st[b][j]
        BY <2>5, <1>2, <1>3
      <3> QED BY <3>1, <2>1, <2>5 DEF UniqueOnStack
    <2>6. CASE a # th /\ b = th /\ j # 1
      <3>1. /\ i \in 1 .. Len(st[a]) /\ j - 1 \in 1 .. Len(st[th])
            /\ st[a][i].at = "finished" /\ st[a][i] = st[th][j - 1]
        BY <2>6, <1>2, <1>3
      <3> QED BY <3>1, <2>1, <2>6 DEF UniqueOnStack
    <2>7. CASE a # th /\ b # th
      BY <2>1, <2>7, <1>3 DEF UniqueOnStack
    <2> QED BY <2>2, <2>3, <2>4, <2>5, <2>6, <2>7
  <1>8. Disjoint(cq, st2)
    <2>1. \A t : f = TokenFrame(t) => ~InQueue(cq, t)
      BY DEF TokenFrame
    <2> QED BY <1>4, <2>1 DEF Disjoint, Sound
  <1>9. Sound(cq, st2, ph)
    BY <1>5, <1>7, <1>8 DEF Sound
  <1> QED BY <1>1, <1>4, <1>9 DEF st2

\* A thread leaves a frame.
LEMMA PopFrame ==
    ASSUME NEW cq \in Seq(Callback), NEW st \in [Threads -> Seq(Frame)],
           NEW ph \in [Tasks -> Phases], Sound(cq, st, ph),
           NEW th \in Threads, st[th] # <<>>
    PROVE  /\ Popped(st, th) \in [Threads -> Seq(Frame)]
           /\ Sound(cq, Popped(st, th), ph)
           /\ \A t : OnStack(Popped(st, th), t)
                         <=> OnStack(st, t) /\ Head(st[th]) # TokenFrame(t)
  <1> DEFINE st2 == Popped(st, th)
  <1>0. st2 = [st EXCEPT ![th] = Tail(@)]
    BY DEF Popped
  <1> HIDE DEF st2
  <1>1. st2 \in [Threads -> Seq(Frame)]
    BY <1>0, TailElements
  <1>2. /\ Len(st[th]) \in Nat \ {0}
        /\ Len(st2[th]) = Len(st[th]) - 1
        /\ Head(st[th]) = st[th][1]
        /\ \A i \in 1 .. Len(st2[th]) :
               i + 1 \in 1 .. Len(st[th]) /\ st2[th][i] = st[th][i + 1]
        /\ \A i \in 2 .. Len(st[th]) :
               i - 1 \in 1 .. Len(st2[th]) /\ st2[th][i - 1] = st[th][i]
    BY <1>0, TailElements
  <1>3. \A uh \in Threads : uh # th => st2[uh] = st[uh]
    BY <1>0
  <1>4. UniqueOnStack(st)
    BY DEF Sound
  <1>5. ASSUME NEW t
        PROVE  OnStack(st2, t) <=> OnStack(st, t) /\ Head(st[th]) # TokenFrame(t)
    <2>1. ASSUME OnStack(st2, t)
          PROVE  OnStack(st, t) /\ Head(st[th]) # TokenFrame(t)
      <3>0. PICK uh \in Threads : \E i \in 1 .. Len(st2[uh]) : st2[uh][i] = TokenFrame(t)
        BY <2>1 DEF OnStack
      <3>1. PICK i \in 1 .. Len(st2[uh]) : st2[uh][i] = TokenFrame(t)
        BY <3>0
      <3>2. TokenFrame(t).at = "finished"
        BY DEF TokenFrame
      <3>3. CASE uh = th
        <4>1. i + 1 \in 1 .. Len(st[th]) /\ st[th][i + 1] = TokenFrame(t)
          BY <3>1, <3>3, <1>2
        <4>2. st[th][1] # TokenFrame(t)
          <5> SUFFICES ASSUME st[th][1] = TokenFrame(t) PROVE FALSE
            OBVIOUS
          <5>1. 1 \in 1 .. Len(st[th])
            BY <1>2
          <5>2. 1 = i + 1
            BY <5>1, <4>1, <3>2, <1>4 DEF UniqueOnStack
          <5> QED BY <5>2
        <4> QED BY <4>1, <4>2, <1>2 DEF OnStack
      <3>4. CASE uh # th
        <4>1. i \in 1 .. Len(st[uh]) /\ st[uh][i] = TokenFrame(t)
          BY <3>1, <3>4, <1>3
        <4>2. st[th][1] # TokenFrame(t)
          <5> SUFFICES ASSUME st[th][1] = TokenFrame(t) PROVE FALSE
            OBVIOUS
          <5>1. 1 \in 1 .. Len(st[th])
            BY <1>2
          <5> QED BY <5>1, <4>1, <3>2, <3>4, <1>4 DEF UniqueOnStack
        <4> QED BY <4>1, <4>2, <1>2 DEF OnStack
      <3> QED BY <3>3, <3>4
    <2>2. ASSUME OnStack(st, t), Head(st[th]) # TokenFrame(t) PROVE OnStack(st2, t)
      <3>0. PICK uh \in Threads : \E i \in 1 .. Len(st[uh]) : st[uh][i] = TokenFrame(t)
        BY <2>2 DEF OnStack
      <3>1. PICK i \in 1 .. Len(st[uh]) : st[uh][i] = TokenFrame(t)
        BY <3>0
      <3>2. CASE uh = th
        <4>1. i \in 2 .. Len(st[th])
          BY <2>2, <3>1, <3>2, <1>2
        <4>2. i - 1 \in 1 .. Len(st2[th]) /\ st2[th][i - 1] = TokenFrame(t)
          BY <3>1, <3>2, <4>1, <1>2
        <4> QED BY <4>2 DEF OnStack
      <3>3. CASE uh # th
        BY <3>1, <3>3, <1>3 DEF OnStack
      <3> QED BY <3>2, <3>3
    <2> QED BY <2>1, <2>2
  <1>6. StackPhases(st2, ph)
    <2> SUFFICES ASSUME NEW a \in Threads, NEW i \in 1 .. Len(st2[a])
                 PROVE  PhaseOf(ph, st2[a][i].at, st2[a][i].task)
      BY DEF StackPhases
    <2>1. \A b \in Threads : \A j \in 1 .. Len(st[b]) :
              PhaseOf(ph, st[b][j].at, st[b][j].task)
      BY DEF Sound, StackPhases
    <2>2. CASE a = th
      BY <2>1, <2>2, <1>2
    <2>3. CASE a # th
      BY <2>1, <2>3, <1>3
    <2> QED BY <2>2, <2>3
  <1>7. UniqueOnStack(st2)
    <2> SUFFICES \A a, b \in Threads : \A i \in 1 .. Len(st2[a]), j \in 1 .. Len(st2[b]) :
                     st2[a][i].at = "finished" /\ st2[a][i] = st2[b][j] => a = b /\ i = j
      BY Zenon DEF UniqueOnStack
    <2> TAKE a, b \in Threads
    <2> TAKE i \in 1 .. Len(st2[a]), j \in 1 .. Len(st2[b])
    <2> HAVE st2[a][i].at = "finished" /\ st2[a][i] = st2[b][j]
    <2>1. CASE a = th /\ b = th
      <3>1. /\ i + 1 \in 1 .. Len(st[th]) /\ j + 1 \in 1 .. Len(st[th])
            /\ st[th][i + 1].at = "finished" /\ st[th][i + 1] = st[th][j + 1]
        BY <2>1, <1>2
      <3>2. i + 1 = j + 1
        BY <3>1, <1>4 DEF UniqueOnStack
      <3> QED BY <3>2, <2>1
    <2>2. CASE a = th /\ b # th
      BY <2>2, <1>2, <1>3, <1>4 DEF UniqueOnStack
    <2>3. CASE a # th /\ b = th
      BY <2>3, <1>2, <1>3, <1>4 DEF UniqueOnStack
    <2>4. CASE a # th /\ b # th
      BY <2>4, <1>3, <1>4 DEF UniqueOnStack
    <2> QED BY <2>1, <2>2, <2>3, <2>4
  <1>8. Sound(cq, st2, ph)
    BY <1>5, <1>6, <1>7 DEF Sound, Disjoint
  <1> QED BY <1>1, <1>5, <1>8 DEF st2

\* A callback enters the queue: a token only of a task that has none.
LEMMA AppendCallback ==
    ASSUME NEW cq \in Seq(Callback), NEW st \in [Threads -> Seq(Frame)],
           NEW ph \in [Tasks -> Phases], Sound(cq, st, ph),
           NEW c \in Callback, PhaseOf(ph, c.kind, c.task),
           c.kind = "finished" => ~InQueue(cq, c.task) /\ ~OnStack(st, c.task)
    PROVE  /\ Append(cq, c) \in Seq(Callback)
           /\ Sound(Append(cq, c), st, ph)
           /\ \A t : InQueue(Append(cq, c), t) <=> InQueue(cq, t) \/ c = Token(t)
  <1> DEFINE cq2 == Append(cq, c)
  <1>1. /\ cq2 \in Seq(Callback)
        /\ Len(cq) \in Nat
        /\ Len(cq2) = Len(cq) + 1
        /\ cq2[Len(cq) + 1] = c
        /\ \A i \in 1 .. Len(cq) : cq2[i] = cq[i]
    BY AppendElements
  <1> HIDE DEF cq2
  <1>2. \A t : InQueue(cq2, t) <=> InQueue(cq, t) \/ c = Token(t)
    BY <1>1 DEF InQueue
  <1>3. QueuePhases(cq2, ph)
    BY <1>1 DEF QueuePhases, Sound
  <1>4. UniqueInQueue(cq2)
    <2>1. \A i \in 1 .. Len(cq) : cq[i].kind = "finished" => cq[i] # c
      <3> SUFFICES ASSUME NEW i \in 1 .. Len(cq), cq[i].kind = "finished", cq[i] = c
                   PROVE  FALSE
        OBVIOUS
      <3>1. c = Token(c.task)
        BY DEF Callback, Token
      <3> QED BY <3>1 DEF InQueue
    <2> QED BY <2>1, <1>1 DEF UniqueInQueue, Sound
  <1>5. Disjoint(cq2, st)
    <2>1. \A t : c = Token(t) => ~OnStack(st, t)
      BY DEF Token
    <2> QED BY <1>2, <2>1 DEF Disjoint, Sound
  <1>6. Sound(cq2, st, ph)
    BY <1>3, <1>4, <1>5 DEF Sound
  <1> QED BY <1>1, <1>2, <1>6 DEF cq2

\* A callback leaves the queue.
LEMMA PopCallback ==
    ASSUME NEW cq \in Seq(Callback), NEW st \in [Threads -> Seq(Frame)],
           NEW ph \in [Tasks -> Phases], Sound(cq, st, ph), cq # <<>>
    PROVE  /\ Tail(cq) \in Seq(Callback)
           /\ Head(cq) \in Callback
           /\ PhaseOf(ph, Head(cq).kind, Head(cq).task)
           /\ Sound(Tail(cq), st, ph)
           /\ \A t : InQueue(Tail(cq), t) <=> InQueue(cq, t) /\ Head(cq) # Token(t)
           /\ \A t : Head(cq) = Token(t) => ~OnStack(st, t)
  <1> DEFINE cq2 == Tail(cq)
  <1>1. /\ cq2 \in Seq(Callback)
        /\ Len(cq) \in Nat \ {0}
        /\ Len(cq2) = Len(cq) - 1
        /\ Head(cq) = cq[1]
        /\ Head(cq) \in Callback
        /\ \A i \in 1 .. Len(cq2) : i + 1 \in 1 .. Len(cq) /\ cq2[i] = cq[i + 1]
        /\ \A i \in 2 .. Len(cq) : i - 1 \in 1 .. Len(cq2) /\ cq2[i - 1] = cq[i]
    BY TailElements
  <1> HIDE DEF cq2
  <1>2. PhaseOf(ph, Head(cq).kind, Head(cq).task)
    BY <1>1 DEF Sound, QueuePhases
  <1>3. ASSUME NEW t PROVE InQueue(cq2, t) <=> InQueue(cq, t) /\ Head(cq) # Token(t)
    <2>1. ASSUME InQueue(cq2, t) PROVE InQueue(cq, t) /\ Head(cq) # Token(t)
      <3>1. PICK i \in 1 .. Len(cq2) : cq2[i] = Token(t)
        BY <2>1 DEF InQueue
      <3>2. i + 1 \in 1 .. Len(cq) /\ cq[i + 1] = Token(t)
        BY <3>1, <1>1
      <3>3. cq[1] # Token(t)
        <4> SUFFICES ASSUME cq[1] = Token(t) PROVE FALSE
          OBVIOUS
        <4>1. 1 = i + 1
          BY <3>2, <1>1 DEF Sound, UniqueInQueue, Token
        <4> QED BY <4>1
      <3> QED BY <3>2, <3>3, <1>1 DEF InQueue
    <2>2. ASSUME InQueue(cq, t), Head(cq) # Token(t) PROVE InQueue(cq2, t)
      <3>1. PICK i \in 1 .. Len(cq) : cq[i] = Token(t)
        BY <2>2 DEF InQueue
      <3>2. i \in 2 .. Len(cq)
        BY <2>2, <3>1, <1>1
      <3>3. i - 1 \in 1 .. Len(cq2) /\ cq2[i - 1] = Token(t)
        BY <3>1, <3>2, <1>1
      <3> QED BY <3>3 DEF InQueue
    <2> QED BY <2>1, <2>2
  <1>4. QueuePhases(cq2, ph)
    BY <1>1 DEF QueuePhases, Sound
  <1>5. UniqueInQueue(cq2)
    <2> SUFFICES ASSUME NEW i \in 1 .. Len(cq2), NEW j \in 1 .. Len(cq2),
                        cq2[i].kind = "finished", cq2[i] = cq2[j]
                 PROVE  i = j
      BY DEF UniqueInQueue
    <2>1. /\ i + 1 \in 1 .. Len(cq) /\ j + 1 \in 1 .. Len(cq)
          /\ cq[i + 1].kind = "finished" /\ cq[i + 1] = cq[j + 1]
      BY <1>1
    <2>2. i + 1 = j + 1
      BY <2>1 DEF UniqueInQueue, Sound
    <2> QED BY <2>2
  <1>6. \A t : Head(cq) = Token(t) => ~OnStack(st, t)
    <2>1. \A t : Head(cq) = Token(t) => InQueue(cq, t)
      BY <1>1 DEF InQueue
    <2> QED BY <2>1 DEF Sound, Disjoint
  <1>7. Sound(cq2, st, ph)
    BY <1>3, <1>4, <1>5 DEF Sound, Disjoint
  <1> QED BY <1>1, <1>2, <1>3, <1>6, <1>7 DEF cq2

\* A task changes its phase: it leaves "finishing" only without a token, and
\* never goes back from its end.
LEMMA ChangePhase ==
    ASSUME NEW cq \in Seq(Callback), NEW st \in [Threads -> Seq(Frame)],
           NEW ph \in [Tasks -> Phases], Sound(cq, st, ph),
           NEW t \in Tasks, NEW q \in Phases,
           ph[t] = "finishing" => ~InQueue(cq, t) /\ ~OnStack(st, t),
           ph[t] \in {"leaving", "ended"} => q \in {"leaving", "ended"}
    PROVE  Sound(cq, st, Changed(ph, t, q))
  <1> DEFINE ph2 == Changed(ph, t, q)
  <1>1. ph2[t] = q /\ \A u \in Tasks : u # t => ph2[u] = ph[u]
    BY DEF Changed
  <1> HIDE DEF ph2
  <1>2. QueuePhases(cq, ph2)
    <2> SUFFICES ASSUME NEW i \in 1 .. Len(cq)
                 PROVE  PhaseOf(ph2, cq[i].kind, cq[i].task)
      BY DEF QueuePhases
    <2>1. cq[i] \in Callback /\ PhaseOf(ph, cq[i].kind, cq[i].task)
      BY DEF Sound, QueuePhases
    <2>2. cq[i].kind = "finished" => cq[i] = Token(cq[i].task)
      BY <2>1 DEF Callback, Token
    <2>3. cq[i].kind = "finished" => cq[i].task # t
      BY <2>1, <2>2 DEF InQueue, PhaseOf
    <2> QED BY <2>1, <2>3, <1>1 DEF PhaseOf
  <1>3. StackPhases(st, ph2)
    <2> SUFFICES ASSUME NEW th \in Threads, NEW i \in 1 .. Len(st[th])
                 PROVE  PhaseOf(ph2, st[th][i].at, st[th][i].task)
      BY DEF StackPhases
    <2>1. st[th][i] \in Frame /\ PhaseOf(ph, st[th][i].at, st[th][i].task)
      BY DEF Sound, StackPhases
    <2>2. st[th][i].at = "finished" => st[th][i] = TokenFrame(st[th][i].task)
      BY <2>1 DEF Frame, TokenFrame
    <2>3. st[th][i].at = "finished" => st[th][i].task # t
      BY <2>1, <2>2 DEF OnStack, PhaseOf
    <2> QED BY <2>1, <2>3, <1>1 DEF PhaseOf
  <1>4. Sound(cq, st, ph2)
    BY <1>2, <1>3 DEF Sound
  <1> QED BY <1>4 DEF ph2

-----------------------------------------------------------------------------
(* The number of running tasks *)

RunningIn(ph) == {t \in Tasks : ph[t] \in Running}

LEMMA RunningCount ==
    ASSUME NEW ph \in [Tasks -> Phases], NEW t \in Tasks, NEW q \in Phases
    PROVE  LET ph2 == [ph EXCEPT ![t] = q] IN
           /\ Cardinality(RunningIn(ph)) \in Nat
           /\ Cardinality(RunningIn(ph2)) \in Nat
           /\ (ph[t] \in Running <=> q \in Running) =>
                  Cardinality(RunningIn(ph2)) = Cardinality(RunningIn(ph))
           /\ ph[t] \notin Running /\ q \in Running =>
                  Cardinality(RunningIn(ph2)) = Cardinality(RunningIn(ph)) + 1
           /\ ph[t] \in Running /\ q \notin Running =>
                  Cardinality(RunningIn(ph2)) = Cardinality(RunningIn(ph)) - 1
  <1> DEFINE ph2 == [ph EXCEPT ![t] = q]
  <1>1. IsFiniteSet(RunningIn(ph)) /\ IsFiniteSet(RunningIn(ph2))
    BY DispatcherAssumption, FS_Subset DEF RunningIn
  <1>2. Cardinality(RunningIn(ph)) \in Nat /\ Cardinality(RunningIn(ph2)) \in Nat
    BY <1>1, FS_CardinalityType
  <1>3. ASSUME ph[t] \in Running <=> q \in Running PROVE RunningIn(ph2) = RunningIn(ph)
    BY <1>3 DEF RunningIn
  <1>4. ASSUME ph[t] \notin Running, q \in Running
        PROVE  Cardinality(RunningIn(ph2)) = Cardinality(RunningIn(ph)) + 1
    <2>1. RunningIn(ph2) = RunningIn(ph) \cup {t} /\ t \notin RunningIn(ph)
      BY <1>4 DEF RunningIn
    <2> QED BY <2>1, <1>1, FS_AddElement
  <1>5. ASSUME ph[t] \in Running, q \notin Running
        PROVE  Cardinality(RunningIn(ph2)) = Cardinality(RunningIn(ph)) - 1
    <2>1. RunningIn(ph2) = RunningIn(ph) \ {t} /\ t \in RunningIn(ph)
      BY <1>5 DEF RunningIn
    <2> QED BY <2>1, <1>1, FS_RemoveElement
  <1> QED BY <1>2, <1>3, <1>4, <1>5

\* The conjuncts of IInv that speak of the phases only, for one task that
\* moves from its phase to q.
LEMMA BusyStep ==
    ASSUME TypeOK, BusyCountsExecution, NEW t \in Tasks, NEW q \in Phases,
           SetPhase(t, q),
           \/ (phase[t] \in Running <=> q \in Running) /\ busy' = busy
           \/ phase[t] \notin Running /\ q \in Running /\ busy' = busy + 1
           \/ phase[t] \in Running /\ q \notin Running /\ busy' = busy - 1
    PROVE  /\ phase' \in [Tasks -> Phases]
           /\ busy' \in Nat
           /\ BusyCountsExecution'
  <1>1. phase \in [Tasks -> Phases] /\ phase' = [phase EXCEPT ![t] = q]
    BY DEF TypeOK, SetPhase
  <1>2. busy = Cardinality(RunningIn(phase))
    BY DEF BusyCountsExecution, RunningIn
  <1>3. busy' = Cardinality(RunningIn(phase')) /\ busy' \in Nat
    BY <1>1, <1>2, RunningCount
  <1> QED BY <1>1, <1>3 DEF BusyCountsExecution, RunningIn

\* A task that is not in the queue changes its phase, the queue being the same.
LEMMA QueueStep ==
    ASSUME TypeOK, TaskQueueInv, taskQueue' = taskQueue, NEW t \in Tasks, NEW q,
           SetPhase(t, q), phase[t] # "queued"
    PROVE  TaskQueueInv'
  BY DEF TaskQueueInv, SetPhase, TypeOK

\* A callback is begun or queued once the phases are ph.
LEMMA CallbackSent ==
    ASSUME TypeOK, NEW ph \in [Tasks -> Phases], Sound(callbackQueue, stack, ph),
           NEW th \in Threads, NEW k \in Kinds, NEW t \in Tasks, PhaseOf(ph, k, t),
           k = "finished" => ~InQueue(callbackQueue, t) /\ ~OnStack(stack, t),
           CallFromMainThread(th, k, t)
    PROVE  /\ callbackQueue' \in Seq(Callback)
           /\ stack' \in [Threads -> Seq(Frame)]
           /\ finished' \in [Tasks -> BOOLEAN]
           /\ delivered' \in [Tasks -> Seq(Kinds)]
           /\ Sound(callbackQueue', stack', ph)
           /\ \A u : InQueue(callbackQueue', u) \/ OnStack(stack', u)
                         <=> \/ InQueue(callbackQueue, u) \/ OnStack(stack, u)
                             \/ k = "finished" /\ u = t
           /\ \A u \in Tasks : finished'[u] => finished[u] \/ (k = "failed" /\ u = t)
  <1>1. CASE Inline(th)
    <2> DEFINE f == [at |-> k, task |-> t]
    <2>1. /\ callbackQueue' = callbackQueue
          /\ stack' = Pushed(stack, th, f)
          /\ delivered' = [delivered EXCEPT ![t] = Append(@, k)]
          /\ finished' = [finished EXCEPT ![t] = @ \/ k = "failed"]
      BY <1>1 DEF CallFromMainThread, BeginCallback, Enter, Entered, FinishesFirst, Pushed
    <2>2. f \in Frame /\ f.at = k /\ f.task = t
      BY DEF Frame
    <2> HIDE DEF f
    <2>3. /\ stack' \in [Threads -> Seq(Frame)]
          /\ Sound(callbackQueue, stack', ph)
          /\ \A u : OnStack(stack', u) <=> OnStack(stack, u) \/ f = TokenFrame(u)
      <3>1. /\ callbackQueue \in Seq(Callback)
            /\ stack \in [Threads -> Seq(Frame)]
        BY DEF TypeOK
      <3>2. /\ PhaseOf(ph, f.at, f.task)
            /\ f.at = "finished" => ~InQueue(callbackQueue, f.task) /\ ~OnStack(stack, f.task)
        BY <2>2
      <3>3. stack' = Pushed(stack, th, f)
        BY <2>1
      <3>4. f \in Frame
        BY <2>2
      <3> QED BY ONLY <3>1, <3>2, <3>3, <3>4, PushFrame, ph \in [Tasks -> Phases],
                      Sound(callbackQueue, stack, ph), th \in Threads
    <2>4. \A u : f = TokenFrame(u) <=> k = "finished" /\ u = t
      BY DEF TokenFrame, f
    <2>5. delivered' \in [Tasks -> Seq(Kinds)]
      BY <2>1, AppendElements DEF TypeOK
    <2>6. finished' \in [Tasks -> BOOLEAN]
      BY <2>1 DEF TypeOK
    <2>7. \A u \in Tasks : finished'[u] => finished[u] \/ (k = "failed" /\ u = t)
      <3>1. finished \in [Tasks -> BOOLEAN]
        BY DEF TypeOK
      <3>2. /\ finished'[t] = (finished[t] \/ k = "failed")
            /\ \A u \in Tasks : u # t => finished'[u] = finished[u]
        BY <3>1, <2>1
      <3> QED BY Zenon, <3>2
    <2>8. callbackQueue' = callbackQueue /\ callbackQueue \in Seq(Callback)
      BY <2>1 DEF TypeOK
    <2>9. Sound(callbackQueue', stack', ph)
      BY Zenon, <2>3, <2>8
    <2>10. \A u : InQueue(callbackQueue', u) \/ OnStack(stack', u)
                     <=> \/ InQueue(callbackQueue, u) \/ OnStack(stack, u)
                         \/ k = "finished" /\ u = t
      BY Zenon, <2>3, <2>4, <2>8
    <2> QED BY Zenon, <2>3, <2>5, <2>6, <2>7, <2>8, <2>9, <2>10
  <1>2. CASE ~Inline(th)
    <2> DEFINE c == [kind |-> k, task |-> t]
    <2>1. callbackQueue' = Append(callbackQueue, c) /\ UNCHANGED <<stack, delivered, finished>>
      BY <1>2 DEF CallFromMainThread, QueuedCallback
    <2>2. c \in Callback /\ c.kind = k /\ c.task = t
      BY DEF Callback
    <2> HIDE DEF c
    <2>3. /\ callbackQueue' \in Seq(Callback)
          /\ Sound(callbackQueue', stack, ph)
          /\ \A u : InQueue(callbackQueue', u) <=> InQueue(callbackQueue, u) \/ c = Token(u)
      <3>1. /\ callbackQueue \in Seq(Callback)
            /\ stack \in [Threads -> Seq(Frame)]
        BY DEF TypeOK
      <3>2. /\ PhaseOf(ph, c.kind, c.task)
            /\ c.kind = "finished" => ~InQueue(callbackQueue, c.task) /\ ~OnStack(stack, c.task)
        BY <2>2
      <3> QED BY ONLY <3>1, <3>2, <2>1, <2>2, AppendCallback, ph \in [Tasks -> Phases],
                      Sound(callbackQueue, stack, ph)
    <2>4. \A u : c = Token(u) <=> k = "finished" /\ u = t
      BY DEF Token, c
    <2>5. /\ stack' = stack /\ finished' = finished /\ delivered' = delivered
          /\ stack' \in [Threads -> Seq(Frame)]
          /\ finished' \in [Tasks -> BOOLEAN]
          /\ delivered' \in [Tasks -> Seq(Kinds)]
      BY <2>1 DEF TypeOK
    <2>6. Sound(callbackQueue', stack', ph)
      BY Zenon, <2>3, <2>5
    <2>7. \A u : InQueue(callbackQueue', u) \/ OnStack(stack', u)
                    <=> \/ InQueue(callbackQueue, u) \/ OnStack(stack, u)
                        \/ k = "finished" /\ u = t
      BY Zenon, <2>3, <2>4, <2>5
    <2> QED BY Zenon, <2>3, <2>5, <2>6, <2>7
  <1> QED BY <1>1, <1>2

-----------------------------------------------------------------------------
(* The steps of a thread on its stack, and the phases *)

\* A task changes its phase, the callbacks staying where they are.
LEMMA PhaseStep ==
    ASSUME TypeOK, Sound(callbackQueue, stack, phase), NEW t \in Tasks,
           NEW q \in Phases, SetPhase(t, q),
           phase[t] = "finishing" => ~InQueue(callbackQueue, t) /\ ~OnStack(stack, t),
           phase[t] \in {"leaving", "ended"} => q \in {"leaving", "ended"}
    PROVE  /\ Sound(callbackQueue, stack, phase')
           /\ phase' \in [Tasks -> Phases]
           /\ phase'[t] = q
           /\ \A u \in Tasks : u # t => phase'[u] = phase[u]
  <1>1. phase' = Changed(phase, t, q)
    BY DEF SetPhase, Changed
  <1>2. /\ callbackQueue \in Seq(Callback)
        /\ stack \in [Threads -> Seq(Frame)]
        /\ phase \in [Tasks -> Phases]
    BY DEF TypeOK
  <1>3. Sound(callbackQueue, stack, Changed(phase, t, q))
    BY ONLY <1>2, ChangePhase, Sound(callbackQueue, stack, phase), t \in Tasks, q \in Phases,
            phase[t] = "finishing" => ~InQueue(callbackQueue, t) /\ ~OnStack(stack, t),
            phase[t] \in {"leaving", "ended"} => q \in {"leaving", "ended"}
  <1>4. /\ phase' \in [Tasks -> Phases]
        /\ phase'[t] = q
        /\ \A u \in Tasks : u # t => phase'[u] = phase[u]
    BY <1>2 DEF SetPhase
  <1> QED BY <1>1, <1>3, <1>4

\* A thread leaves its innermost frame, the phases being ph.
LEMMA ReturnStep ==
    ASSUME TypeOK, NEW ph \in [Tasks -> Phases], Sound(callbackQueue, stack, ph),
           NEW th \in Threads, stack[th] # <<>>, Return(th)
    PROVE  /\ stack' \in [Threads -> Seq(Frame)]
           /\ Sound(callbackQueue, stack', ph)
           /\ \A u : OnStack(stack', u) <=> OnStack(stack, u) /\ Head(stack[th]) # TokenFrame(u)
  <1>1. stack' = Popped(stack, th)
    BY DEF Return, Popped
  <1>2. callbackQueue \in Seq(Callback) /\ stack \in [Threads -> Seq(Frame)]
    BY DEF TypeOK
  <1> QED BY ONLY <1>1, <1>2, PopFrame, ph \in [Tasks -> Phases],
                  Sound(callbackQueue, stack, ph), th \in Threads, stack[th] # <<>>

\* A thread enters a frame that is no callback, the phases being ph.
LEMMA EnterStep ==
    ASSUME TypeOK, NEW ph \in [Tasks -> Phases], Sound(callbackQueue, stack, ph),
           NEW th \in Threads, NEW f \in Frame, f.at \notin Kinds,
           stack' = Pushed(stack, th, f)
    PROVE  /\ stack' \in [Threads -> Seq(Frame)]
           /\ Sound(callbackQueue, stack', ph)
           /\ \A u : OnStack(stack', u) <=> OnStack(stack, u)
  <1>1. f.at # "finished" /\ PhaseOf(ph, f.at, f.task)
    BY DEF Kinds, PhaseOf
  <1>2. callbackQueue \in Seq(Callback) /\ stack \in [Threads -> Seq(Frame)]
    BY DEF TypeOK
  <1>3. \A u : f # TokenFrame(u)
    BY <1>1 DEF TokenFrame
  <1>4. /\ Pushed(stack, th, f) \in [Threads -> Seq(Frame)]
        /\ Sound(callbackQueue, Pushed(stack, th, f), ph)
        /\ \A t : OnStack(Pushed(stack, th, f), t) <=> OnStack(stack, t) \/ f = TokenFrame(t)
    BY ONLY <1>1, <1>2, PushFrame, ph \in [Tasks -> Phases], f \in Frame,
            Sound(callbackQueue, stack, ph), th \in Threads
  <1> QED BY <1>3, <1>4

-----------------------------------------------------------------------------
(* The actions preserve the invariant *)

LEMMA FlushBeginInv ==
    ASSUME IInv, NEW th \in Threads, FlushBegin(th)
    PROVE  IInv'
  <1> DEFINE f == [at |-> "flush", task |-> NullTask]
  <1>1. /\ stack' = Pushed(stack, th, f)
        /\ UNCHANGED <<taskQueue, callbackQueue, busy, shutDown, wRuning, alive,
                       phase, finished, cancelled, error, handlers, count, delivered>>
    BY DEF FlushBegin, Enter, Entered, Pushed, taskVars
  <1>2. f \in Frame /\ f.at \notin Kinds
    BY DEF Frame, Kinds
  <1> HIDE DEF f
  <1>3. TypeOK /\ phase \in [Tasks -> Phases] /\ Sound(callbackQueue, stack, phase)
    BY DEF IInv, TypeOK, Tokens
  <1>4. /\ stack' \in [Threads -> Seq(Frame)]
        /\ Sound(callbackQueue, stack', phase)
        /\ \A u : OnStack(stack', u) <=> OnStack(stack, u)
    BY <1>1, <1>2, <1>3, EnterStep
  <1>5. TypeOK'
    BY <1>1, <1>3, <1>4 DEF TypeOK
  <1>6. Tokens(callbackQueue', stack', phase')
    BY <1>1, <1>4 DEF IInv, Tokens, NoneLost
  <1>7. TaskQueueInv' /\ FinishedAfterExecution' /\ BusyCountsExecution'
    BY <1>1 DEF IInv, TaskQueueInv, FinishedAfterExecution, BusyCountsExecution
  <1> QED BY <1>5, <1>6, <1>7 DEF IInv

LEMMA ReturnInv ==
    ASSUME IInv, NEW th \in Threads, ~Idle(th), ~At(th, "finished"), Return(th),
           UNCHANGED <<taskQueue, callbackQueue, busy, shutDown, alive, phase, finished,
                       cancelled, error, handlers, count, delivered>>,
           wRuning' \in Nat
    PROVE  IInv'
  <1>1. TypeOK /\ phase \in [Tasks -> Phases] /\ Sound(callbackQueue, stack, phase)
    BY DEF IInv, TypeOK, Tokens
  <1>2. stack[th] # <<>> /\ \A u : Head(stack[th]) # TokenFrame(u)
    BY DEF Idle, At, TokenFrame
  <1>3. /\ stack' \in [Threads -> Seq(Frame)]
        /\ Sound(callbackQueue, stack', phase)
        /\ \A u : OnStack(stack', u) <=> OnStack(stack, u)
    BY <1>1, <1>2, ReturnStep
  <1>4. TypeOK'
    BY <1>1, <1>3 DEF TypeOK
  <1>5. Tokens(callbackQueue', stack', phase')
    BY <1>3 DEF IInv, Tokens, NoneLost
  <1>6. TaskQueueInv' /\ FinishedAfterExecution' /\ BusyCountsExecution'
    BY DEF IInv, TaskQueueInv, FinishedAfterExecution, BusyCountsExecution
  <1> QED BY <1>4, <1>5, <1>6 DEF IInv

LEMMA LeaveLoopInv ==
    ASSUME IInv, NEW th \in Threads,
           FlushEnd(th) \/ WaitReturn(th) \/ (th = "main" /\ ShutdownReturns)
    PROVE  IInv'
  <1>1. ~Idle(th) /\ ~At(th, "finished")
    BY DEF FlushEnd, WaitReturn, ShutdownReturns, At
  <1>2. /\ Return(th)
        /\ UNCHANGED <<taskQueue, callbackQueue, busy, shutDown, alive, phase, finished,
                       cancelled, error, handlers, count, delivered>>
    BY DEF FlushEnd, WaitReturn, ShutdownReturns, taskVars
  <1>3. wRuning' \in Nat
    BY DEF FlushEnd, WaitReturn, ShutdownReturns, IInv, TypeOK
  <1> QED BY <1>1, <1>2, <1>3, ReturnInv

LEMMA FlushStepInv ==
    ASSUME IInv, NEW th \in Threads, FlushStep(th)
    PROVE  IInv'
  <1> DEFINE c == Head(callbackQueue)
             t == c.task
             cq == Tail(callbackQueue)
  <1>1. /\ callbackQueue # <<>>
        /\ callbackQueue' = cq
        /\ UNCHANGED <<taskQueue, busy, shutDown, wRuning, alive, cancelled,
                       error, handlers, count>>
    BY DEF FlushStep
  <1>2. /\ TypeOK
        /\ callbackQueue \in Seq(Callback)
        /\ stack \in [Threads -> Seq(Frame)]
        /\ phase \in [Tasks -> Phases]
        /\ Sound(callbackQueue, stack, phase)
    BY DEF IInv, TypeOK, Tokens
  <1>3. /\ cq \in Seq(Callback)
        /\ c \in Callback
        /\ PhaseOf(phase, c.kind, t)
        /\ Sound(cq, stack, phase)
        /\ \A u : InQueue(cq, u) <=> InQueue(callbackQueue, u) /\ c # Token(u)
        /\ \A u : c = Token(u) => ~OnStack(stack, u)
    BY <1>1, <1>2, PopCallback
  <1>4. /\ t \in Tasks
        /\ c.kind \in Kinds
        /\ \A u : c = Token(u) <=> c.kind = "finished" /\ u = t
    BY <1>3 DEF Callback, Token
  <1> HIDE DEF c, t, cq
  <1>5. CASE shutDown /\ c.kind = "finished"
    <2>1. SetPhase(t, "leaving") /\ UNCHANGED <<stack, delivered, finished>>
      BY <1>5 DEF FlushStep, Signal, c, t
    <2>2. phase[t] = "finishing"
      BY <1>3, <1>5 DEF PhaseOf
    <2>3. ~InQueue(cq, t) /\ ~OnStack(stack, t)
      BY <1>3, <1>4, <1>5
    <2>4. phase' = Changed(phase, t, "leaving")
      BY <2>1 DEF SetPhase, Changed
    <2>5. Sound(cq, stack, phase')
      <3>1. "leaving" \in Phases /\ (phase[t] \in {"leaving", "ended"} =>
                "leaving" \in {"leaving", "ended"})
        BY DEF Phases
      <3>2. Sound(cq, stack, Changed(phase, t, "leaving"))
        BY <3>1, <2>3, <1>2, <1>3, <1>4, ChangePhase
      <3> QED BY <3>2, <2>4
    <2>6. /\ phase'[t] = "leaving"
          /\ \A u \in Tasks : u # t => phase'[u] = phase[u]
      BY <2>4, <1>2, <1>4 DEF Changed
    <2>7. Tokens(callbackQueue', stack', phase')
      <3>1. NoneLost(cq, stack, phase')
        <4> SUFFICES ASSUME NEW u \in Tasks, phase'[u] = "finishing"
                     PROVE  InQueue(cq, u) \/ OnStack(stack, u)
          BY DEF NoneLost
        <4>1. u # t /\ phase[u] = "finishing"
          BY <2>6
        <4>2. InQueue(callbackQueue, u) \/ OnStack(stack, u)
          BY <4>1 DEF IInv, Tokens, NoneLost
        <4> QED BY <4>1, <4>2, <1>3, <1>4
      <3> QED BY <3>1, <2>5, <2>1, <1>1 DEF Tokens
    <2>8. phase' \in [Tasks -> Phases] /\ BusyCountsExecution'
      <3>1. "leaving" \in Phases /\ "leaving" \in Running /\ phase[t] \in Running
        BY <2>2 DEF Phases, Running
      <3> QED BY <3>1, <2>1, <1>1, <1>2, <1>4, BusyStep DEF IInv
    <2>9. TypeOK'
      BY <2>1, <2>8, <1>1, <1>2, <1>3 DEF TypeOK
    <2>10. TaskQueueInv'
      BY <2>1, <2>2, <1>1, <1>2, <1>4, QueueStep DEF IInv
    <2>11. FinishedAfterExecution'
      BY <2>1, <2>6, <1>4 DEF IInv, FinishedAfterExecution
    <2> QED BY <2>7, <2>8, <2>9, <2>10, <2>11 DEF IInv
  <1>6. CASE shutDown /\ c.kind # "finished"
    <2>1. UNCHANGED <<stack, delivered, finished, phase>>
      BY <1>6 DEF FlushStep, c
    <2>2. Tokens(callbackQueue', stack', phase')
      BY <2>1, <1>1, <1>3, <1>4, <1>6 DEF IInv, Tokens, NoneLost
    <2>3. TypeOK'
      BY <2>1, <1>1, <1>2, <1>3 DEF TypeOK
    <2>4. TaskQueueInv' /\ FinishedAfterExecution' /\ BusyCountsExecution'
      BY <2>1, <1>1 DEF IInv, TaskQueueInv, FinishedAfterExecution, BusyCountsExecution
    <2> QED BY <2>2, <2>3, <2>4 DEF IInv
  <1>7. CASE ~shutDown
    <2> DEFINE f == [at |-> c.kind, task |-> t]
    <2>1. /\ stack' = Pushed(stack, th, f)
          /\ delivered' = [delivered EXCEPT ![t] = Append(@, c.kind)]
          /\ finished' = [finished EXCEPT ![t] = @ \/ c.kind = "failed"]
          /\ phase' = phase
      BY <1>7 DEF FlushStep, BeginCallback, Enter, Entered, Pushed, FinishesFirst, c, t
    <2>2. f \in Frame /\ f.at = c.kind /\ f.task = t
      BY <1>4 DEF Frame
    <2>3. \A u : f = TokenFrame(u) <=> c = Token(u)
      BY <1>4 DEF TokenFrame
    <2> HIDE DEF f
    <2>4. /\ stack' \in [Threads -> Seq(Frame)]
          /\ Sound(cq, stack', phase)
          /\ \A u : OnStack(stack', u) <=> OnStack(stack, u) \/ f = TokenFrame(u)
      <3>1. /\ PhaseOf(phase, f.at, f.task)
            /\ f.at = "finished" => ~InQueue(cq, f.task) /\ ~OnStack(stack, f.task)
        BY <2>2, <1>3, <1>4
      <3>2. stack' = Pushed(stack, th, f)
        BY <2>1
      <3> QED BY ONLY <3>1, <3>2, <2>2, <1>2, <1>3, PushFrame, th \in Threads
    <2>5. Tokens(callbackQueue', stack', phase')
      <3>1. NoneLost(cq, stack', phase)
        BY <2>3, <2>4, <1>3 DEF IInv, Tokens, NoneLost
      <3> QED BY <3>1, <2>1, <2>4, <1>1 DEF Tokens
    <2>6. TypeOK'
      <3>1. delivered' \in [Tasks -> Seq(Kinds)]
        BY <2>1, <1>2, <1>4, AppendElements DEF TypeOK
      <3>2. finished' \in [Tasks -> BOOLEAN]
        BY <2>1, <1>2 DEF TypeOK
      <3> QED BY <3>1, <3>2, <2>1, <2>4, <1>1, <1>2, <1>3 DEF TypeOK
    <2>7. FinishedAfterExecution'
      <3>1. \A u \in Tasks : finished'[u] => finished[u] \/ (c.kind = "failed" /\ u = t)
        <4>1. finished \in [Tasks -> BOOLEAN]
          BY <1>2 DEF TypeOK
        <4>2. /\ finished'[t] = (finished[t] \/ c.kind = "failed")
              /\ \A u \in Tasks : u # t => finished'[u] = finished[u]
          BY <4>1, <2>1, <1>4
        <4> QED BY Zenon, <4>2
      <3>2. c.kind = "failed" => phase[t] \in {"leaving", "ended"}
        BY <1>3 DEF PhaseOf
      <3> QED BY <3>1, <3>2, <2>1 DEF IInv, FinishedAfterExecution
    <2>8. TaskQueueInv' /\ BusyCountsExecution'
      BY <2>1, <1>1 DEF IInv, TaskQueueInv, BusyCountsExecution
    <2> QED BY <2>5, <2>6, <2>7, <2>8 DEF IInv
  <1> QED BY <1>5, <1>6, <1>7

LEMMA EndCallbackInv ==
    ASSUME IInv, NEW th \in Threads, EndCallback(th)
    PROVE  IInv'
  <1>1. ~Idle(th) /\ stack[th] # <<>>
    BY DEF EndCallback, InHandler, At, Idle
  <1>2. CASE ~At(th, "finished")
    <2>1. wRuning' \in Nat
      BY DEF EndCallback, IInv, TypeOK
    <2> QED BY <2>1, <1>1, <1>2, ReturnInv DEF EndCallback
  <1>3. CASE At(th, "finished")
    <2> DEFINE t == TopTask(th)
    <2>1. /\ Return(th)
          /\ finished' = [finished EXCEPT ![t] = TRUE]
          /\ SetPhase(t, "leaving")
          /\ UNCHANGED <<taskQueue, callbackQueue, busy, shutDown, wRuning, alive,
                         cancelled, error, handlers, count, delivered>>
      BY <1>3 DEF EndCallback, Signal
    <2>2. /\ TypeOK
          /\ callbackQueue \in Seq(Callback)
          /\ stack \in [Threads -> Seq(Frame)]
          /\ phase \in [Tasks -> Phases]
          /\ finished \in [Tasks -> BOOLEAN]
          /\ Sound(callbackQueue, stack, phase)
      BY DEF IInv, TypeOK, Tokens
    <2>3. /\ Head(stack[th]) = stack[th][1]
          /\ 1 \in 1 .. Len(stack[th])
          /\ Head(stack[th]) \in Frame
      BY <1>1, <2>2, TailElements
    <2>4. Head(stack[th]) = TokenFrame(t)
      BY <2>3, <1>3 DEF At, TopTask, TokenFrame, Frame
    <2> HIDE DEF t
    <2>5. t \in Tasks /\ phase[t] = "finishing" /\ OnStack(stack, t)
      <3>1. PhaseOf(phase, stack[th][1].at, stack[th][1].task)
        BY <2>2, <2>3 DEF Sound, StackPhases
      <3>2. PhaseOf(phase, "finished", t)
        BY <3>1, <2>3, <2>4 DEF TokenFrame
      <3>3. OnStack(stack, t)
        BY <2>3, <2>4 DEF OnStack
      <3> QED BY <3>2, <3>3 DEF PhaseOf
    <2>6. ~InQueue(callbackQueue, t)
      BY <2>2, <2>5 DEF Sound, Disjoint
    <2>7. /\ stack' \in [Threads -> Seq(Frame)]
          /\ Sound(callbackQueue, stack', phase)
          /\ \A u : OnStack(stack', u) <=> OnStack(stack, u) /\ Head(stack[th]) # TokenFrame(u)
      BY <2>1, <2>2, <1>1, ReturnStep
    <2>8. phase' = Changed(phase, t, "leaving")
      BY <2>1 DEF SetPhase, Changed
    <2>9. Sound(callbackQueue, stack', phase')
      <3>1. "leaving" \in Phases /\ (phase[t] \in {"leaving", "ended"} =>
                "leaving" \in {"leaving", "ended"})
        BY DEF Phases
      <3>2. phase[t] = "finishing" => ~InQueue(callbackQueue, t) /\ ~OnStack(stack', t)
        BY <2>4, <2>6, <2>7
      <3>3. Sound(callbackQueue, stack', Changed(phase, t, "leaving"))
        BY ONLY <3>1, <3>2, <2>2, <2>5, <2>7, ChangePhase
      <3> QED BY <3>3, <2>8
    <2>10. /\ phase'[t] = "leaving"
           /\ \A u \in Tasks : u # t => phase'[u] = phase[u]
      BY <2>8, <2>2, <2>5 DEF Changed
    <2>11. NoneLost(callbackQueue, stack', phase')
      <3> SUFFICES ASSUME NEW u \in Tasks, phase'[u] = "finishing"
                   PROVE  InQueue(callbackQueue, u) \/ OnStack(stack', u)
        BY DEF NoneLost
      <3>1. u # t /\ phase[u] = "finishing"
        BY <2>10
      <3>2. InQueue(callbackQueue, u) \/ OnStack(stack, u)
        BY <3>1 DEF IInv, Tokens, NoneLost
      <3>3. TokenFrame(t) # TokenFrame(u)
        BY <3>1 DEF TokenFrame
      <3> QED BY <3>2, <3>3, <2>4, <2>7
    <2>12. Tokens(callbackQueue', stack', phase')
      BY <2>1, <2>9, <2>11 DEF Tokens
    <2>13. phase' \in [Tasks -> Phases] /\ BusyCountsExecution'
      <3>1. "leaving" \in Phases /\ "leaving" \in Running /\ phase[t] \in Running
        BY <2>5 DEF Phases, Running
      <3> QED BY <3>1, <2>1, <2>2, <2>5, BusyStep DEF IInv
    <2>14. TypeOK'
      BY <2>1, <2>2, <2>5, <2>7, <2>13 DEF TypeOK
    <2>15. TaskQueueInv'
      BY <2>1, <2>2, <2>5, QueueStep DEF IInv
    <2>16. FinishedAfterExecution'
      <3>1. \A u \in Tasks : finished'[u] => finished[u] \/ u = t
        BY <2>1, <2>2
      <3> QED BY <3>1, <2>10 DEF IInv, FinishedAfterExecution
    <2> QED BY <2>12, <2>13, <2>14, <2>15, <2>16 DEF IInv
  <1> QED BY <1>2, <1>3

\* A task moves to a phase without token, nothing being sent; its thread may
\* leave its frame.
LEMMA PlainPhaseInv ==
    ASSUME IInv, NEW th \in Threads, NEW t \in Tasks, NEW q \in Phases,
           phase[t] \in {"picked", "prepared", "body", "leaving"},
           q \in {"prepared", "body", "leaving", "ended", "skipped"},
           phase[t] = "leaving" => q = "ended",
           SetPhase(t, q),
           \/ (phase[t] \in Running <=> q \in Running) /\ busy' = busy
           \/ phase[t] \notin Running /\ q \in Running /\ busy' = busy + 1
           \/ phase[t] \in Running /\ q \notin Running /\ busy' = busy - 1,
           stack' = stack \/ (At(th, "exec") /\ Return(th)),
           finished' = finished
               \/ (finished' = [finished EXCEPT ![t] = TRUE] /\ q = "leaving"),
           UNCHANGED <<taskQueue, callbackQueue, shutDown, wRuning, alive, cancelled,
                       delivered>>,
           error' \in [Tasks -> BOOLEAN], count' \in Nat,
           handlers' \in Seq(Tasks \cup {NullTask})
    PROVE  IInv'
  <1>1. /\ TypeOK
        /\ phase \in [Tasks -> Phases]
        /\ finished \in [Tasks -> BOOLEAN]
        /\ Sound(callbackQueue, stack, phase)
    BY DEF IInv, TypeOK, Tokens
  <1>2. /\ Sound(callbackQueue, stack, phase')
        /\ phase' \in [Tasks -> Phases]
        /\ phase'[t] = q
        /\ \A u \in Tasks : u # t => phase'[u] = phase[u]
    <2>1. /\ phase[t] # "finishing"
          /\ phase[t] \in {"leaving", "ended"} => q \in {"leaving", "ended"}
      OBVIOUS
    <2> QED BY <1>1, <2>1, PhaseStep
  <1>3. /\ stack' \in [Threads -> Seq(Frame)]
        /\ Sound(callbackQueue, stack', phase')
        /\ \A u : OnStack(stack', u) <=> OnStack(stack, u)
    <2>1. CASE stack' = stack
      BY <2>1, <1>1, <1>2 DEF TypeOK
    <2>2. CASE At(th, "exec") /\ Return(th)
      <3>1. stack[th] # <<>> /\ \A u : Head(stack[th]) # TokenFrame(u)
        BY <2>2 DEF Idle, At, TokenFrame
      <3> QED BY <3>1, <2>2, <1>1, <1>2, ReturnStep
    <2> QED BY <2>1, <2>2
  <1>4. Tokens(callbackQueue', stack', phase')
    <2>1. NoneLost(callbackQueue, stack', phase')
      BY <1>2, <1>3 DEF IInv, Tokens, NoneLost
    <2> QED BY <2>1, <1>3 DEF Tokens
  <1>5. BusyCountsExecution' /\ busy' \in Nat
    BY <1>1, BusyStep DEF IInv
  <1>6. TypeOK'
    BY <1>1, <1>2, <1>3, <1>5 DEF TypeOK
  <1>7. TaskQueueInv'
    BY <1>1, QueueStep DEF IInv
  <1>8. FinishedAfterExecution'
    <2>1. \A u \in Tasks : finished'[u] => finished[u] \/ (u = t /\ q = "leaving")
      BY <1>1
    <2>2. \A u \in Tasks : finished[u] => phase[u] \in {"leaving", "ended"}
      BY DEF IInv, FinishedAfterExecution
    <2> QED BY <2>1, <2>2, <1>2 DEF FinishedAfterExecution
  <1> QED BY <1>4, <1>5, <1>6, <1>7, <1>8 DEF IInv

\* A task that executes moves to another phase of its execution and sends a
\* callback.
LEMMA SendInv ==
    ASSUME IInv, NEW th \in Threads, NEW t \in Tasks, NEW k \in Kinds,
           NEW q \in Phases, phase[t] \in {"prepared", "body"},
           SetPhase(t, q), CallFromMainThread(th, k, t),
           \/ k = "started" /\ q = "body"
           \/ k = "finished" /\ q = "finishing"
           \/ k = "failed" /\ q = "leaving",
           UNCHANGED <<taskQueue, busy, shutDown, wRuning, alive, cancelled, count>>,
           error' \in [Tasks -> BOOLEAN],
           handlers' \in Seq(Tasks \cup {NullTask})
    PROVE  IInv'
  <1>1. /\ TypeOK
        /\ phase \in [Tasks -> Phases]
        /\ Sound(callbackQueue, stack, phase)
    BY DEF IInv, TypeOK, Tokens
  <1>2. /\ Sound(callbackQueue, stack, phase')
        /\ phase' \in [Tasks -> Phases]
        /\ phase'[t] = q
        /\ \A u \in Tasks : u # t => phase'[u] = phase[u]
    <2>1. phase[t] # "finishing" /\ phase[t] \notin {"leaving", "ended"}
      OBVIOUS
    <2> QED BY <1>1, <2>1, PhaseStep
  <1>3. ~InQueue(callbackQueue, t) /\ ~OnStack(stack, t)
    <2>1. ASSUME InQueue(callbackQueue, t) PROVE FALSE
      <3>1. PICK i \in 1 .. Len(callbackQueue) : callbackQueue[i] = Token(t)
        BY <2>1 DEF InQueue
      <3>2. PhaseOf(phase, "finished", t)
        BY <3>1, <1>1 DEF Sound, QueuePhases, Token
      <3> QED BY <3>2 DEF PhaseOf
    <2>2. ASSUME OnStack(stack, t) PROVE FALSE
      <3>1. PICK uh \in Threads : \E i \in 1 .. Len(stack[uh]) : stack[uh][i] = TokenFrame(t)
        BY <2>2 DEF OnStack
      <3>2. PICK i \in 1 .. Len(stack[uh]) : stack[uh][i] = TokenFrame(t)
        BY <3>1
      <3>3. PhaseOf(phase, "finished", t)
        BY <3>2, <1>1 DEF Sound, StackPhases, TokenFrame
      <3> QED BY <3>3 DEF PhaseOf
    <2> QED BY <2>1, <2>2
  <1>4. PhaseOf(phase', k, t)
    BY <1>2 DEF PhaseOf
  <1>5. /\ callbackQueue' \in Seq(Callback)
        /\ stack' \in [Threads -> Seq(Frame)]
        /\ finished' \in [Tasks -> BOOLEAN]
        /\ delivered' \in [Tasks -> Seq(Kinds)]
        /\ Sound(callbackQueue', stack', phase')
        /\ \A u : InQueue(callbackQueue', u) \/ OnStack(stack', u)
                      <=> \/ InQueue(callbackQueue, u) \/ OnStack(stack, u)
                          \/ k = "finished" /\ u = t
        /\ \A u \in Tasks : finished'[u] => finished[u] \/ (k = "failed" /\ u = t)
    BY ONLY <1>1, <1>2, <1>3, <1>4, CallbackSent, CallFromMainThread(th, k, t),
            th \in Threads, t \in Tasks, k \in Kinds
  <1>6. Tokens(callbackQueue', stack', phase')
    <2>1. NoneLost(callbackQueue', stack', phase')
      <3> SUFFICES ASSUME NEW u \in Tasks, phase'[u] = "finishing"
                   PROVE  InQueue(callbackQueue', u) \/ OnStack(stack', u)
        BY DEF NoneLost
      <3>1. CASE u = t
        BY <3>1, <1>2, <1>5
      <3>2. CASE u # t
        <4>1. InQueue(callbackQueue, u) \/ OnStack(stack, u)
          BY <3>2, <1>2 DEF IInv, Tokens, NoneLost
        <4> QED BY <4>1, <1>5
      <3> QED BY <3>1, <3>2
    <2> QED BY <2>1, <1>5 DEF Tokens
  <1>7. BusyCountsExecution' /\ busy' \in Nat
    <2>1. phase[t] \in Running /\ q \in Running
      BY DEF Running
    <2> QED BY <2>1, <1>1, BusyStep DEF IInv
  <1>8. TypeOK'
    BY <1>1, <1>2, <1>5, <1>7 DEF TypeOK
  <1>9. TaskQueueInv'
    BY <1>1, QueueStep DEF IInv
  <1>10. FinishedAfterExecution'
    <2>1. \A u \in Tasks : finished[u] => phase[u] \in {"leaving", "ended"}
      BY DEF IInv, FinishedAfterExecution
    <2> QED BY <2>1, <1>2, <1>5 DEF FinishedAfterExecution
  <1> QED BY <1>6, <1>7, <1>8, <1>9, <1>10 DEF IInv

LEMMA HandlersType ==
    ASSUME handlers \in Seq(Tasks \cup {NullTask})
    PROVE  /\ PopHandler => handlers' \in Seq(Tasks \cup {NullTask})
           /\ \A t \in Tasks : PushHandler(t) => handlers' \in Seq(Tasks \cup {NullTask})
           /\ Len(handlers) \in Nat
  <1>1. PopHandler => handlers' \in Seq(Tasks \cup {NullTask})
    BY DEF PopHandler
  <1>2. ASSUME NEW t \in Tasks, PushHandler(t) PROVE handlers' \in Seq(Tasks \cup {NullTask})
    BY <1>2, ConsElements DEF PushHandler
  <1> QED BY <1>1, <1>2

LEMMA WorkerTaskInv ==
    ASSUME IInv, NEW t \in Tasks, SkipTask(t) \/ PrepareTask(t)
    PROVE  IInv'
  <1>1. phase[t] = "picked" /\ At("worker", "exec") /\ "worker" \in Threads
    BY DEF SkipTask, PrepareTask, Executing, Threads
  <1>2. TypeOK /\ handlers \in Seq(Tasks \cup {NullTask}) /\ error \in [Tasks -> BOOLEAN]
    BY DEF IInv, TypeOK
  <1>3. CASE SkipTask(t)
    <2>1. /\ "skipped" \in Phases
          /\ phase[t] \notin Running /\ "skipped" \notin Running
      BY <1>1 DEF Phases, Running
    <2>2. /\ Return("worker") /\ SetPhase(t, "skipped")
          /\ UNCHANGED <<taskQueue, callbackQueue, busy, shutDown, wRuning, alive,
                         finished, cancelled, error, handlers, count, delivered>>
      BY <1>3 DEF SkipTask
    <2>3. count' \in Nat
      BY <2>2 DEF IInv, TypeOK
    <2> QED BY <2>1, <2>2, <2>3, <1>1, <1>2, PlainPhaseInv
  <1>4. CASE PrepareTask(t)
    <2>1. /\ "prepared" \in Phases
          /\ phase[t] \notin Running /\ "prepared" \in Running
      BY <1>1 DEF Phases, Running
    <2>2. /\ SetPhase(t, "prepared") /\ busy' = busy + 1 /\ count' = Len(handlers)
          /\ PushHandler(t)
          /\ UNCHANGED <<taskQueue, callbackQueue, shutDown, wRuning, alive, stack,
                         finished, cancelled, error, delivered>>
      BY <1>4 DEF PrepareTask, CountBusy
    <2>3. handlers' \in Seq(Tasks \cup {NullTask}) /\ count' \in Nat
      BY <2>2, <1>2, HandlersType
    <2> QED BY <2>1, <2>2, <2>3, <1>1, <1>2, PlainPhaseInv
  <1> QED BY <1>3, <1>4

LEMMA ExecuteInv ==
    ASSUME IInv, NEW th \in Threads, NEW t \in Tasks, Execute(th, t)
    PROVE  IInv'
  <1>1. /\ TypeOK
        /\ handlers \in Seq(Tasks \cup {NullTask})
        /\ error \in [Tasks -> BOOLEAN]
        /\ count \in Nat
    BY DEF IInv, TypeOK
  <1>2. {"body", "finishing", "leaving", "ended"} \subseteq Phases /\ "ended" \notin Running
        /\ {"prepared", "body", "finishing", "leaving"} \subseteq Running
        /\ {"started", "finished", "failed"} \subseteq Kinds
    BY DEF Phases, Running, Kinds
  <1>3. CASE Started(th, t)
    <2>1. /\ phase[t] = "prepared" /\ SetPhase(t, "body")
          /\ UNCHANGED <<taskQueue, busy, shutDown, wRuning, alive, cancelled,
                         error, handlers, count>>
      BY <1>3 DEF Started, Executing
    <2>2. CASE t \in SimpleTasks
      <3>1. UNCHANGED <<callbackQueue, stack, delivered, finished>>
        BY <2>2, <1>3 DEF Started
      <3> QED BY <3>1, <2>1, <1>1, <1>2, PlainPhaseInv
    <2>3. CASE t \notin SimpleTasks
      <3>1. CallFromMainThread(th, "started", t)
        BY <2>3, <1>3 DEF Started
      <3> QED BY <3>1, <2>1, <1>1, <1>2, SendInv
    <2> QED BY <2>2, <2>3
  <1>4. ASSUME NEW failure \in BOOLEAN, ExecuteReturns(th, t, failure) PROVE IInv'
    <2>1. /\ phase[t] = "body"
          /\ PopHandler
          /\ error' = [error EXCEPT ![t] = failure]
          /\ UNCHANGED <<taskQueue, busy, shutDown, wRuning, alive, cancelled, count>>
      BY <1>4 DEF ExecuteReturns, Executing
    <2>2. handlers' \in Seq(Tasks \cup {NullTask}) /\ error' \in [Tasks -> BOOLEAN]
      BY <2>1, <1>1, HandlersType
    <2>3. CASE t \in SimpleTasks
      <3>1. /\ SetPhase(t, "leaving")
            /\ finished' = [finished EXCEPT ![t] = TRUE]
            /\ UNCHANGED <<callbackQueue, stack, delivered>>
        BY <2>3, <1>4 DEF ExecuteReturns
      <3> QED BY <3>1, <2>1, <2>2, <1>1, <1>2, PlainPhaseInv
    <2>4. CASE t \notin SimpleTasks
      <3>1. CallFromMainThread(th, "finished", t) /\ SetPhase(t, "finishing")
        BY <2>4, <1>4 DEF ExecuteReturns
      <3> QED BY <3>1, <2>1, <2>2, <1>1, <1>2, SendInv
    <2> QED BY <2>3, <2>4
  <1>5. CASE ExecuteThrows(th, t)
    <2>1. /\ phase[t] = "body" /\ SetPhase(t, "leaving")
          /\ PopHandler
          /\ error' = [error EXCEPT ![t] = TRUE]
          /\ UNCHANGED <<taskQueue, busy, shutDown, wRuning, alive, cancelled, count>>
      BY <1>5 DEF ExecuteThrows, Executing
    <2>2. handlers' \in Seq(Tasks \cup {NullTask}) /\ error' \in [Tasks -> BOOLEAN]
      BY <2>1, <1>1, HandlersType
    <2>3. CASE t \in SimpleTasks
      <3>1. UNCHANGED <<callbackQueue, stack, delivered, finished>>
        BY <2>3, <1>5 DEF ExecuteThrows
      <3> QED BY <3>1, <2>1, <2>2, <1>1, <1>2, PlainPhaseInv
    <2>4. CASE t \notin SimpleTasks
      <3>1. CallFromMainThread(th, "failed", t)
        BY <2>4, <1>5 DEF ExecuteThrows
      <3> QED BY <3>1, <2>1, <2>2, <1>1, <1>2, SendInv
    <2> QED BY <2>3, <2>4
  <1>6. CASE LeaveTask(th, t)
    <2>1. /\ phase[t] = "leaving" /\ SetPhase(t, "ended")
          /\ busy' = busy - 1
          /\ At(th, "exec") /\ Return(th)
          /\ UNCHANGED <<taskQueue, callbackQueue, shutDown, wRuning, alive,
                         finished, cancelled, error, handlers, count, delivered>>
      BY <1>6 DEF LeaveTask, Executing, UncountBusy
    <2> QED BY <2>1, <1>1, <1>2, PlainPhaseInv
  <1> QED BY <1>3, <1>4, <1>5, <1>6 DEF Execute

-----------------------------------------------------------------------------
(* Messages, submissions and the queue of tasks *)

LEMMA SendMessageInv ==
    ASSUME IInv, NEW th \in Threads, NEW t \in Tasks, SendMessage(th, t)
    PROVE  IInv'
  <1> DEFINE r == Head(handlers)
  <1>1. /\ r \in Tasks
        /\ CallFromMainThread(th, "message", r)
        /\ UNCHANGED <<taskQueue, busy, shutDown, wRuning, alive, phase,
                       cancelled, error, handlers, count>>
    BY DEF SendMessage
  <1> HIDE DEF r
  <1>2. TypeOK /\ phase \in [Tasks -> Phases] /\ Sound(callbackQueue, stack, phase)
    BY DEF IInv, TypeOK, Tokens
  <1>3. "message" \in Kinds /\ PhaseOf(phase, "message", r)
    BY DEF Kinds, PhaseOf
  <1>4. /\ callbackQueue' \in Seq(Callback)
        /\ stack' \in [Threads -> Seq(Frame)]
        /\ finished' \in [Tasks -> BOOLEAN]
        /\ delivered' \in [Tasks -> Seq(Kinds)]
        /\ Sound(callbackQueue', stack', phase)
        /\ \A u : InQueue(callbackQueue', u) \/ OnStack(stack', u)
                      <=> InQueue(callbackQueue, u) \/ OnStack(stack, u)
        /\ \A u \in Tasks : finished'[u] => finished[u]
    <2>1. "message" # "finished" /\ "message" # "failed"
      OBVIOUS
    <2>2. /\ callbackQueue' \in Seq(Callback)
          /\ stack' \in [Threads -> Seq(Frame)]
          /\ finished' \in [Tasks -> BOOLEAN]
          /\ delivered' \in [Tasks -> Seq(Kinds)]
          /\ Sound(callbackQueue', stack', phase)
          /\ \A u : InQueue(callbackQueue', u) \/ OnStack(stack', u)
                        <=> \/ InQueue(callbackQueue, u) \/ OnStack(stack, u)
                            \/ "message" = "finished" /\ u = r
          /\ \A u \in Tasks : finished'[u] => finished[u] \/ ("message" = "failed" /\ u = r)
      BY ONLY <1>1, <1>2, <1>3, <2>1, CallbackSent, th \in Threads
    <2> QED BY <2>1, <2>2
  <1>5. Tokens(callbackQueue', stack', phase')
    BY <1>1, <1>4 DEF IInv, Tokens, NoneLost
  <1>6. TypeOK'
    BY <1>1, <1>2, <1>4 DEF TypeOK
  <1>7. TaskQueueInv' /\ FinishedAfterExecution' /\ BusyCountsExecution'
    BY <1>1, <1>4 DEF IInv, TaskQueueInv, FinishedAfterExecution, BusyCountsExecution
  <1> QED BY <1>5, <1>6, <1>7 DEF IInv

LEMMA CancelTaskInv ==
    ASSUME IInv, NEW th \in Threads, NEW t \in Tasks, CancelTask(th, t)
    PROVE  IInv'
  <1>1. /\ cancelled' = [cancelled EXCEPT ![t] = TRUE]
        /\ UNCHANGED <<taskQueue, callbackQueue, busy, shutDown, wRuning, alive, stack,
                       phase, finished, error, handlers, count, delivered>>
    BY DEF CancelTask
  <1>2. TypeOK'
    BY <1>1 DEF IInv, TypeOK
  <1> QED BY <1>1, <1>2 DEF IInv, Tokens, TaskQueueInv, FinishedAfterExecution,
                            BusyCountsExecution

\* A frame that is no callback is pushed on any stack st.
LEMMA PushPlain ==
    ASSUME NEW cq \in Seq(Callback), NEW st \in [Threads -> Seq(Frame)],
           NEW ph \in [Tasks -> Phases], Sound(cq, st, ph),
           NEW th \in Threads, NEW f \in Frame, f.at \notin Kinds
    PROVE  /\ Pushed(st, th, f) \in [Threads -> Seq(Frame)]
           /\ Sound(cq, Pushed(st, th, f), ph)
           /\ \A u : OnStack(Pushed(st, th, f), u) <=> OnStack(st, u)
  <1>1. f.at # "finished" /\ PhaseOf(ph, f.at, f.task) /\ \A u : f # TokenFrame(u)
    BY DEF Kinds, PhaseOf, TokenFrame
  <1>2. /\ Pushed(st, th, f) \in [Threads -> Seq(Frame)]
        /\ Sound(cq, Pushed(st, th, f), ph)
        /\ \A t : OnStack(Pushed(st, th, f), t) <=> OnStack(st, t) \/ f = TokenFrame(t)
    BY <1>1, PushFrame
  <1> QED BY <1>1, <1>2

\* A task that has not begun moves on, its thread entering plain frames.
LEMMA StartInv ==
    ASSUME IInv, NEW t \in Tasks, NEW q \in {"queued", "picked", "prepared"},
           phase[t] \in {"new", "queued"}, SetPhase(t, q),
           \/ q # "prepared" /\ busy' = busy
           \/ q = "prepared" /\ busy' = busy + 1,
           taskQueue' \in Seq(Tasks \cup {NullTask}), TaskQueueInv',
           handlers' \in Seq(Tasks \cup {NullTask}),
           stack' \in [Threads -> Seq(Frame)],
           Sound(callbackQueue, stack', phase'),
           \A u : OnStack(stack', u) <=> OnStack(stack, u),
           UNCHANGED <<callbackQueue, shutDown, wRuning, alive, finished, cancelled,
                       error, count, delivered>>
    PROVE  IInv'
  <1>1. TypeOK /\ phase \in [Tasks -> Phases]
    BY DEF IInv, TypeOK
  <1>2. /\ phase'[t] = q
        /\ \A u \in Tasks : u # t => phase'[u] = phase[u]
    BY <1>1 DEF SetPhase
  <1>3. phase' \in [Tasks -> Phases] /\ busy' \in Nat /\ BusyCountsExecution'
    <2>1. /\ q \in Phases /\ phase[t] \notin Running
          /\ q \in Running <=> q = "prepared"
      BY DEF Phases, Running
    <2> QED BY <2>1, <1>1, BusyStep DEF IInv
  <1>4. TypeOK'
    BY <1>1, <1>3 DEF TypeOK
  <1>5. Tokens(callbackQueue', stack', phase')
    <2>1. NoneLost(callbackQueue, stack', phase')
      BY <1>2 DEF IInv, Tokens, NoneLost
    <2> QED BY <2>1 DEF Tokens
  <1>6. FinishedAfterExecution'
    BY <1>2 DEF IInv, FinishedAfterExecution
  <1> QED BY <1>3, <1>4, <1>5, <1>6 DEF IInv

\* A new task enters the queue.
LEMMA QueueTask ==
    ASSUME TypeOK, TaskQueueInv, NEW t \in Tasks, phase[t] = "new",
           PushTask(t), SetPhase(t, "queued")
    PROVE  taskQueue' \in Seq(Tasks \cup {NullTask}) /\ TaskQueueInv'
  <1>1. /\ taskQueue' \in Seq(Tasks \cup {NullTask})
        /\ Len(taskQueue) \in Nat
        /\ Len(taskQueue') = Len(taskQueue) + 1
        /\ taskQueue'[Len(taskQueue) + 1] = t
        /\ \A i \in 1 .. Len(taskQueue) : taskQueue'[i] = taskQueue[i]
    BY AppendElements DEF PushTask, TypeOK
  <1>2. /\ phase'[t] = "queued"
        /\ \A u : u \in Tasks /\ u # t => phase'[u] = phase[u]
    BY DEF SetPhase, TypeOK
  <1>3. \A i \in 1 .. Len(taskQueue) : taskQueue[i] # t /\ taskQueue[i] \in Tasks \cup {NullTask}
    BY DispatcherAssumption DEF TaskQueueInv, TypeOK
  <1>4. \A i \in 1 .. Len(taskQueue') :
            taskQueue'[i] # NullTask => phase'[taskQueue'[i]] = "queued"
    BY <1>1, <1>2, <1>3 DEF TaskQueueInv
  <1>5. \A i, j \in 1 .. Len(taskQueue') :
            taskQueue'[i] # NullTask /\ taskQueue'[i] = taskQueue'[j] => i = j
    BY <1>1, <1>3 DEF TaskQueueInv
  <1> QED BY <1>1, <1>4, <1>5 DEF TaskQueueInv

\* The head leaves the queue: with it the only place of its task.
LEMMA UnqueueTask ==
    ASSUME TypeOK, TaskQueueInv, taskQueue # <<>>, taskQueue' = Tail(taskQueue),
           \/ Head(taskQueue) # NullTask /\ SetPhase(Head(taskQueue), "picked")
           \/ phase' = phase
    PROVE  taskQueue' \in Seq(Tasks \cup {NullTask}) /\ TaskQueueInv'
  <1> DEFINE h == Head(taskQueue)
  <1>1. /\ taskQueue' \in Seq(Tasks \cup {NullTask})
        /\ Len(taskQueue) \in Nat \ {0}
        /\ Len(taskQueue') = Len(taskQueue) - 1
        /\ h = taskQueue[1]
        /\ \A i \in 1 .. Len(taskQueue') :
               i + 1 \in 1 .. Len(taskQueue) /\ taskQueue'[i] = taskQueue[i + 1]
    BY TailElements DEF TypeOK
  <1> HIDE DEF h
  <1>2. \A i \in 1 .. Len(taskQueue') : taskQueue'[i] # NullTask => taskQueue'[i] # h
    <2> SUFFICES ASSUME NEW i \in 1 .. Len(taskQueue'), taskQueue'[i] # NullTask,
                        taskQueue'[i] = h
                 PROVE  FALSE
      OBVIOUS
    <2>1. 1 \in 1 .. Len(taskQueue) /\ i + 1 \in 1 .. Len(taskQueue)
          /\ taskQueue[i + 1] # NullTask /\ taskQueue[i + 1] = taskQueue[1]
      BY <1>1
    <2>2. i + 1 = 1
      BY <2>1 DEF TaskQueueInv
    <2> QED BY <2>2
  <1>3. \A u : u \in Tasks /\ u # h => phase'[u] = phase[u]
    BY DEF SetPhase, TypeOK, h
  <1>4. \A i \in 1 .. Len(taskQueue') :
            taskQueue'[i] # NullTask => phase'[taskQueue'[i]] = "queued"
    <2> SUFFICES ASSUME NEW i \in 1 .. Len(taskQueue'), taskQueue'[i] # NullTask
                 PROVE  phase'[taskQueue'[i]] = "queued"
      OBVIOUS
    <2>1. taskQueue'[i] \in Tasks /\ phase[taskQueue'[i]] = "queued"
      BY <1>1 DEF TaskQueueInv
    <2> QED BY <2>1, <1>2, <1>3
  <1>5. \A i, j \in 1 .. Len(taskQueue') :
            taskQueue'[i] # NullTask /\ taskQueue'[i] = taskQueue'[j] => i = j
    <2> SUFFICES ASSUME NEW i \in 1 .. Len(taskQueue'), NEW j \in 1 .. Len(taskQueue'),
                        taskQueue'[i] # NullTask, taskQueue'[i] = taskQueue'[j]
                 PROVE  i = j
      OBVIOUS
    <2>1. i + 1 \in 1 .. Len(taskQueue) /\ j + 1 \in 1 .. Len(taskQueue)
          /\ taskQueue[i + 1] # NullTask /\ taskQueue[i + 1] = taskQueue[j + 1]
      BY <1>1
    <2>2. i + 1 = j + 1
      BY <2>1 DEF TaskQueueInv
    <2> QED BY <2>2
  <1> QED BY <1>1, <1>4, <1>5 DEF TaskQueueInv

\* The frames of a submission: the wait of add_task_and_wait, if it is one.
WaitFrame(t) == [at |-> "wait", task |-> t]
ExecFrame(t) == [at |-> "exec", task |-> t]

LEMMA ConcatCons ==
    ASSUME NEW S, NEW s \in Seq(S), NEW e \in S, NEW w \in S
    PROVE  /\ (<<e>> \o <<>>) \o s = <<e>> \o (<<>> \o s)
           /\ (<<e>> \o <<w>>) \o s = <<e>> \o (<<w>> \o s)
  OBVIOUS

LEMMA SubmitInv ==
    ASSUME IInv, NEW th \in Threads, NEW t \in Tasks,
           NEW below \in {<<>>, <<WaitFrame(t)>>}, Submit(th, t, below)
    PROVE  IInv'
  <1>1. /\ TypeOK
        /\ callbackQueue \in Seq(Callback)
        /\ phase \in [Tasks -> Phases]
        /\ stack \in [Threads -> Seq(Frame)]
        /\ handlers \in Seq(Tasks \cup {NullTask})
        /\ taskQueue \in Seq(Tasks \cup {NullTask})
        /\ Sound(callbackQueue, stack, phase)
        /\ TaskQueueInv
    BY DEF IInv, TypeOK, Tokens
  <1>2. /\ phase[t] = "new"
        /\ UNCHANGED <<callbackQueue, shutDown, wRuning, alive, finished,
                       cancelled, error, count, delivered>>
    BY DEF Submit
  <1>3. /\ WaitFrame(t) \in Frame /\ WaitFrame(t).at \notin Kinds
        /\ ExecFrame(t) \in Frame /\ ExecFrame(t).at \notin Kinds
    BY DEF Frame, Kinds, WaitFrame, ExecFrame
  <1> DEFINE st == [stack EXCEPT ![th] = below \o @]
  <1>4. ASSUME NEW q \in {"queued", "prepared"}, SetPhase(t, q)
        PROVE  /\ phase' \in [Tasks -> Phases]
               /\ Sound(callbackQueue, stack, phase')
               /\ st \in [Threads -> Seq(Frame)]
               /\ Sound(callbackQueue, st, phase')
               /\ \A u : OnStack(st, u) <=> OnStack(stack, u)
    <2>1. phase' \in [Tasks -> Phases] /\ Sound(callbackQueue, stack, phase')
      <3>1. q \in Phases
        BY DEF Phases
      <3> QED BY <3>1, <1>1, <1>2, <1>4, PhaseStep
    <2>2. CASE below = <<>>
      <3>1. stack[th] \in Seq(Frame) /\ below \o stack[th] = stack[th]
        BY <2>2, <1>1
      <3>2. st = stack
        BY <3>1, <1>1
      <3> QED BY <3>2, <2>1, <1>1
    <2>3. CASE below = <<WaitFrame(t)>>
      <3>1. st = Pushed(stack, th, WaitFrame(t))
        BY <2>3 DEF Pushed
      <3> HIDE DEF st
      <3> QED BY ONLY <3>1, <2>1, <1>1, <1>3, PushPlain, th \in Threads
    <2> QED BY <2>1, <2>2, <2>3
  <1>5. CASE Threaded /\ th = "main"
    <2>1. /\ PushTask(t) /\ SetPhase(t, "queued") /\ stack' = st
          /\ busy' = busy /\ handlers' = handlers
      BY <1>5 DEF Submit
    <2>2. taskQueue' \in Seq(Tasks \cup {NullTask}) /\ TaskQueueInv'
      BY <2>1, <1>1, <1>2, QueueTask
    <2>3. /\ stack' \in [Threads -> Seq(Frame)]
          /\ Sound(callbackQueue, stack', phase')
          /\ \A u : OnStack(stack', u) <=> OnStack(stack, u)
      BY <2>1, <1>4
    <2> HIDE DEF st
    <2> QED BY <2>1, <2>2, <2>3, <1>1, <1>2, StartInv
  <1>6. CASE ~(Threaded /\ th = "main")
    <2>1. /\ busy' = busy + 1 /\ PushHandler(t) /\ SetPhase(t, "prepared")
          /\ stack' = [stack EXCEPT ![th] = <<[at |-> "exec", task |-> t]>> \o below \o @]
          /\ taskQueue' = taskQueue
      BY <1>6 DEF Submit, CountBusy
    <2>2. stack' = Pushed(st, th, ExecFrame(t))
      <3>1. stack[th] \in Seq(Frame) /\ ExecFrame(t) \in Frame /\ WaitFrame(t) \in Frame
        BY <1>1, <1>3
      <3>2. (<<ExecFrame(t)>> \o below) \o stack[th] = <<ExecFrame(t)>> \o (below \o stack[th])
        <4>1. CASE below = <<>>
          BY <4>1, <3>1, ConcatCons
        <4>2. CASE below = <<WaitFrame(t)>>
          BY <4>2, <3>1, ConcatCons
        <4> QED BY <4>1, <4>2
      <3>3. /\ stack' = [stack EXCEPT ![th] = (<<ExecFrame(t)>> \o below) \o @]
            /\ st[th] = below \o stack[th]
        BY <2>1, <1>1 DEF ExecFrame
      <3>4. stack' = [stack EXCEPT ![th] = <<ExecFrame(t)>> \o (below \o stack[th])]
        BY <3>2, <3>3
      <3>5. Pushed(st, th, ExecFrame(t)) = [st EXCEPT ![th] = <<ExecFrame(t)>> \o st[th]]
        BY DEF Pushed
      <3> QED BY <3>3, <3>4, <3>5, <1>1
    <2>3. /\ phase' \in [Tasks -> Phases]
          /\ st \in [Threads -> Seq(Frame)]
          /\ Sound(callbackQueue, st, phase')
          /\ \A u : OnStack(st, u) <=> OnStack(stack, u)
      BY <2>1, <1>4
    <2> HIDE DEF st
    <2>4. /\ stack' \in [Threads -> Seq(Frame)]
          /\ Sound(callbackQueue, stack', phase')
          /\ \A u : OnStack(stack', u) <=> OnStack(st, u)
      BY ONLY <2>2, <2>3, <1>1, <1>3, PushPlain, th \in Threads
    <2>5. handlers' \in Seq(Tasks \cup {NullTask})
      BY <2>1, <1>1, HandlersType
    <2>6. TaskQueueInv'
      BY <2>1, <1>1, <1>2, QueueStep
    <2> QED BY <2>1, <2>3, <2>4, <2>5, <2>6, <1>1, <1>2, StartInv
  <1> QED BY <1>5, <1>6

LEMMA ClientInv ==
    ASSUME IInv, NEW th \in Threads, NEW t \in Tasks, Client(th, t)
    PROVE  IInv'
  <1>1. CASE AddTask(th, t)
    <2>1. Submit(th, t, <<>>)
      BY <1>1 DEF AddTask
    <2> QED BY <2>1, SubmitInv
  <1>2. CASE AddTaskAndWait(th, t)
    <2>1. Submit(th, t, <<WaitFrame(t)>>)
      BY <1>2 DEF AddTaskAndWait, WaitFrame
    <2> QED BY <2>1, SubmitInv
  <1>3. CASE CancelTask(th, t)
    BY <1>3, CancelTaskInv
  <1> QED BY <1>1, <1>2, <1>3 DEF Client

LEMMA PickTaskInv ==
    ASSUME IInv, PickTask
    PROVE  IInv'
  <1> DEFINE t == Head(taskQueue)
  <1>1. /\ TypeOK
        /\ callbackQueue \in Seq(Callback)
        /\ phase \in [Tasks -> Phases]
        /\ stack \in [Threads -> Seq(Frame)]
        /\ handlers \in Seq(Tasks \cup {NullTask})
        /\ taskQueue \in Seq(Tasks \cup {NullTask})
        /\ Sound(callbackQueue, stack, phase)
        /\ TaskQueueInv
    BY DEF IInv, TypeOK, Tokens
  <1>2. /\ taskQueue # <<>> /\ t # NullTask
        /\ taskQueue' = Tail(taskQueue)
        /\ stack' = Pushed(stack, "worker", ExecFrame(t))
        /\ SetPhase(t, "picked")
        /\ UNCHANGED <<callbackQueue, busy, shutDown, wRuning, alive, finished,
                       cancelled, error, handlers, count, delivered>>
    BY DEF PickTask, Enter, Entered, Pushed, ExecFrame
  <1>3. t \in Tasks /\ phase[t] = "queued"
    <2>1. t = taskQueue[1] /\ 1 \in 1 .. Len(taskQueue) /\ t \in Tasks \cup {NullTask}
      BY <1>1, <1>2, TailElements
    <2> QED BY <2>1, <1>1, <1>2 DEF TaskQueueInv
  <1>4. taskQueue' \in Seq(Tasks \cup {NullTask}) /\ TaskQueueInv'
    BY <1>1, <1>2, UnqueueTask
  <1> HIDE DEF t
  <1>5. phase' \in [Tasks -> Phases] /\ Sound(callbackQueue, stack, phase')
    <2>1. "picked" \in Phases
      BY DEF Phases
    <2> QED BY <2>1, <1>1, <1>2, <1>3, PhaseStep
  <1>6. ExecFrame(t) \in Frame /\ ExecFrame(t).at \notin Kinds /\ "worker" \in Threads
    BY <1>3 DEF Frame, Kinds, ExecFrame, Threads
  <1>7. /\ stack' \in [Threads -> Seq(Frame)]
        /\ Sound(callbackQueue, stack', phase')
        /\ \A u : OnStack(stack', u) <=> OnStack(stack, u)
    BY ONLY <1>1, <1>2, <1>5, <1>6, PushPlain
  <1> QED BY <1>1, <1>2, <1>3, <1>4, <1>7, StartInv

LEMMA PickNullTaskInv ==
    ASSUME IInv, PickNullTask
    PROVE  IInv'
  <1>1. /\ taskQueue # <<>> /\ taskQueue' = Tail(taskQueue)
        /\ alive' = FALSE /\ wRuning' = wRuning + 1
        /\ UNCHANGED <<callbackQueue, busy, shutDown, stack, phase, finished, cancelled,
                       error, handlers, count, delivered>>
    BY DEF PickNullTask, PostRuning, taskVars
  <1>2. taskQueue' \in Seq(Tasks \cup {NullTask}) /\ TaskQueueInv'
    BY <1>1, UnqueueTask DEF IInv
  <1>3. TypeOK'
    <2>1. TypeOK
      BY DEF IInv
    <2>2. wRuning' \in Nat
      BY <1>1, <2>1 DEF TypeOK
    <2>3. alive' \in BOOLEAN
      BY <1>1, Zenon
    <2> QED BY <1>1, <1>2, <2>1, <2>2, <2>3 DEF TypeOK
  <1> QED BY <1>1, <1>2, <1>3 DEF IInv, Tokens, FinishedAfterExecution, BusyCountsExecution

LEMMA ShutdownInv ==
    ASSUME IInv, Shutdown
    PROVE  IInv'
  <1> DEFINE f == [at |-> "join", task |-> NullTask]
  <1>1. /\ TypeOK
        /\ callbackQueue \in Seq(Callback)
        /\ phase \in [Tasks -> Phases]
        /\ stack \in [Threads -> Seq(Frame)]
        /\ taskQueue \in Seq(Tasks \cup {NullTask})
        /\ handlers \in Seq(Tasks \cup {NullTask})
        /\ Sound(callbackQueue, stack, phase)
        /\ TaskQueueInv
    BY DEF IInv, TypeOK, Tokens
  <1>2. /\ shutDown' = TRUE
        /\ PopHandler
        /\ UNCHANGED <<callbackQueue, busy, wRuning, alive, phase, finished, cancelled,
                       error, count, delivered>>
    BY DEF Shutdown, taskVars
  <1>3. handlers' \in Seq(Tasks \cup {NullTask})
    BY <1>1, <1>2, HandlersType
  <1>4. /\ taskQueue' \in Seq(Tasks \cup {NullTask})
        /\ TaskQueueInv'
        /\ stack' \in [Threads -> Seq(Frame)]
        /\ Sound(callbackQueue, stack', phase)
        /\ \A u : OnStack(stack', u) <=> OnStack(stack, u)
    <2>1. CASE Threaded
      <3>1. taskQueue' = Append(taskQueue, NullTask) /\ stack' = Pushed(stack, "main", f)
        BY <2>1 DEF Shutdown, PushTask, Enter, Entered, Pushed
      <3>2. /\ taskQueue' \in Seq(Tasks \cup {NullTask})
            /\ Len(taskQueue) \in Nat
            /\ Len(taskQueue') = Len(taskQueue) + 1
            /\ taskQueue'[Len(taskQueue) + 1] = NullTask
            /\ \A i \in 1 .. Len(taskQueue) : taskQueue'[i] = taskQueue[i]
        BY <3>1, <1>1, AppendElements
      <3>3. TaskQueueInv'
        <4>1. \A i \in 1 .. Len(taskQueue') : taskQueue'[i] # NullTask =>
                  i \in 1 .. Len(taskQueue) /\ taskQueue'[i] = taskQueue[i]
          BY <3>2
        <4>2. phase' = phase
          BY <1>2
        <4> QED BY <4>1, <4>2, <1>1 DEF TaskQueueInv
      <3>4. f \in Frame /\ f.at \notin Kinds /\ "main" \in Threads
        BY DEF Frame, Kinds, Threads
      <3> HIDE DEF f
      <3>5. /\ stack' \in [Threads -> Seq(Frame)]
            /\ Sound(callbackQueue, stack', phase)
            /\ \A u : OnStack(stack', u) <=> OnStack(stack, u)
        BY ONLY <3>1, <3>4, <1>1, PushPlain
      <3> QED BY <3>2, <3>3, <3>5
    <2>2. CASE ~Threaded
      <3>1. UNCHANGED <<taskQueue, stack>>
        BY <2>2 DEF Shutdown
      <3> QED BY <3>1, <1>1, <1>2 DEF TaskQueueInv
    <2> QED BY <2>1, <2>2
  <1>5. TypeOK'
    BY <1>1, <1>2, <1>3, <1>4 DEF TypeOK
  <1>6. Tokens(callbackQueue', stack', phase')
    BY <1>2, <1>4 DEF IInv, Tokens, NoneLost
  <1> QED BY <1>2, <1>4, <1>5, <1>6 DEF IInv, FinishedAfterExecution, BusyCountsExecution

-----------------------------------------------------------------------------
(* The invariant is inductive *)

LEMMA InitInv == Init => IInv
  <1> SUFFICES ASSUME Init PROVE IInv
    OBVIOUS
  <1>1. /\ stack = [th \in Threads |-> <<>>]
        /\ \A th \in Threads : Len(stack[th]) = 0
        /\ Len(callbackQueue) = 0 /\ Len(taskQueue) = 0
        /\ \A t \in Tasks : phase[t] = "new" /\ ~finished[t]
    BY DEF Init
  <1>2. TypeOK
    <2>1. handlers \in Seq(Tasks \cup {NullTask})
      <3>1. handlers = <<NullTask>> \/ handlers = <<>>
        BY DEF Init
      <3>2. <<>> \in Seq(Tasks \cup {NullTask}) /\ <<NullTask>> \in Seq(Tasks \cup {NullTask})
        OBVIOUS
      <3> QED BY <3>1, <3>2
    <2>2. /\ taskQueue \in Seq(Tasks \cup {NullTask})
          /\ callbackQueue \in Seq(Callback)
          /\ stack \in [Threads -> Seq(Frame)]
          /\ delivered \in [Tasks -> Seq(Kinds)]
      BY DEF Init
    <2>3. /\ phase \in [Tasks -> Phases]
          /\ finished \in [Tasks -> BOOLEAN]
          /\ cancelled \in [Tasks -> BOOLEAN]
          /\ error \in [Tasks -> BOOLEAN]
      BY DEF Init, Phases
    <2>4. busy \in Nat /\ wRuning \in Nat /\ count \in Nat
      BY DEF Init
    <2>5. shutDown \in BOOLEAN
      BY Zenon DEF Init
    <2>6. alive \in BOOLEAN
      <3>1. alive = Threaded
        BY DEF Init
      <3> QED BY <3>1, Zenon, DispatcherAssumption
    <2> QED BY <2>1, <2>2, <2>3, <2>4, <2>5, <2>6 DEF TypeOK
  <1>3. TaskQueueInv
    BY <1>1 DEF TaskQueueInv
  <1>4. Tokens(callbackQueue, stack, phase)
    BY <1>1 DEF Tokens, Sound, NoneLost, QueuePhases, StackPhases, UniqueInQueue,
                UniqueOnStack, Disjoint, InQueue, OnStack
  <1>5. FinishedAfterExecution
    BY <1>1 DEF FinishedAfterExecution
  <1>6. BusyCountsExecution
    <2>1. RunningIn(phase) = {}
      BY <1>1 DEF RunningIn, Running
    <2>2. busy = 0
      BY DEF Init
    <2> QED BY <2>1, <2>2, FS_EmptySet DEF BusyCountsExecution, RunningIn
  <1> QED BY <1>2, <1>3, <1>4, <1>5, <1>6 DEF IInv

LEMMA NextInv == IInv /\ [Next]_vars => IInv'
  <1> SUFFICES ASSUME IInv, [Next]_vars PROVE IInv'
    OBVIOUS
  <1>1. ASSUME NEW th \in Threads, Step(th) PROVE IInv'
    <2>1. CASE Flush(th)
      BY <2>1, FlushBeginInv, FlushStepInv, LeaveLoopInv DEF Flush
    <2>2. CASE EndCallback(th)
      BY <2>2, EndCallbackInv
    <2>3. CASE WaitReturn(th)
      BY <2>3, LeaveLoopInv
    <2>4. ASSUME NEW t \in Tasks, Execute(th, t) PROVE IInv'
      BY <2>4, ExecuteInv
    <2> QED BY <1>1, <2>1, <2>2, <2>3, <2>4 DEF Step
  <1>2. ASSUME NEW th \in Threads, NEW t \in Tasks, Client(th, t) \/ SendMessage(th, t)
        PROVE  IInv'
    BY <1>2, ClientInv, SendMessageInv
  <1>3. CASE Worker
    BY <1>3, PickTaskInv, PickNullTaskInv, WorkerTaskInv DEF Worker
  <1>4. CASE Shutdown
    BY <1>4, ShutdownInv
  <1>5. CASE ShutdownReturns
    BY <1>5, LeaveLoopInv DEF Threads
  <1>6. CASE UNCHANGED vars
    BY <1>6 DEF vars, taskVars, IInv, TypeOK, TaskQueueInv, Tokens, FinishedAfterExecution,
                BusyCountsExecution
  <1> QED BY <1>1, <1>2, <1>3, <1>4, <1>5, <1>6 DEF Next

LEMMA Invariant == Spec => []IInv
  BY InitInv, NextInv, PTL DEF Spec

-----------------------------------------------------------------------------
(* The theorems *)

\* Every variable keeps its type, whatever tasks are submitted, cancelled and
\* nested: in particular get_busy's counter (_busy) never becomes negative.
THEOREM TypeCorrect == Spec => []TypeOK
  <1>1. IInv => TypeOK
    BY DEF IInv
  <1> QED BY <1>1, Invariant, PTL

\* The counter behind get_busy (_busy) is at every moment the number of tasks
\* whose function, prologue or epilogue is on some thread's stack.
THEOREM BusyExact == Spec => []BusyCountsExecution
  <1>1. IInv => BusyCountsExecution
    BY DEF IInv
  <1> QED BY <1>1, Invariant, PTL

\* A task is marked as finished (set_finished) only when its function has
\* returned or thrown, so wait_task of a task nobody cancelled returns with a
\* final result.
THEOREM FinishedIsFinal == Spec => []FinishedAfterExecution
  <1>1. IInv => FinishedAfterExecution
    BY DEF IInv
  <1> QED BY <1>1, Invariant, PTL

\* A thread blocked in call_from_main_thread for the "finished" callback of its
\* task can always be released: the callback is in _callback_queue or running.
THEOREM FinishedCallbackExists == Spec => []NoLostCallback
  <1>1. IInv => NoLostCallback
    <2> SUFFICES ASSUME IInv, NEW t \in Tasks, phase[t] = "finishing"
                 PROVE  Pending("finished", t) \/ \E th \in Threads : InCallback(th, "finished", t)
      BY DEF NoLostCallback
    <2>0. callbackQueue \in Seq(Callback) /\ stack \in [Threads -> Seq(Frame)]
      BY DEF IInv, TypeOK
    <2>1. InQueue(callbackQueue, t) \/ OnStack(stack, t)
      BY DEF IInv, Tokens, NoneLost
    <2>2. ASSUME InQueue(callbackQueue, t) PROVE Pending("finished", t)
      BY <2>0, <2>2 DEF InQueue, Pending, Token
    <2>3. ASSUME OnStack(stack, t)
          PROVE  \E th \in Threads : InCallback(th, "finished", t)
      <3>1. PICK th \in Threads : \E i \in 1 .. Len(stack[th]) : stack[th][i] = TokenFrame(t)
        BY <2>3 DEF OnStack
      <3>2. DOMAIN stack[th] = 1 .. Len(stack[th])
        BY <2>0
      <3> QED BY <3>1, <3>2 DEF InCallback, TokenFrame
    <2> QED BY <2>1, <2>2, <2>3
  <1> QED BY <1>1, Invariant, PTL

-----------------------------------------------------------------------------
(* The nest of executing tasks: where their frames are.  s stands for the  *)
(* stack of the thread that executes and ph for the phases.                *)

Executor == IF Threaded THEN "worker" ELSE "main"
ExecPhases == {"picked", "prepared", "body", "finishing", "leaving"}
Live == {"prepared", "body"}

FramesAreOf(s, ph) ==
    \A i \in 1 .. Len(s) :
        s[i].at = "exec" => s[i].task \in Tasks /\ ph[s[i].task] \in ExecPhases
FramesOnce(s) ==
    \A i, j \in 1 .. Len(s) : s[i].at = "exec" /\ s[i] = s[j] => i = j
HaveFrames(s, ph) ==
    \A t \in Tasks : ph[t] \in ExecPhases => \E i \in 1 .. Len(s) : s[i] = ExecFrame(t)
\* A task about to be executed is where nothing else was executed since.
Beginners(s, ph) ==
    /\ \A t \in Tasks : ph[t] = "picked" => Threaded /\ Len(s) = 1
    /\ \A t \in Tasks : ph[t] = "prepared" => s[1] = ExecFrame(t)
\* The worker does nothing but execute tasks.
Bottom(s) == Threaded /\ s # <<>> => s[Len(s)].at = "exec"

Nest(s, ph) ==
    FramesAreOf(s, ph) /\ FramesOnce(s) /\ HaveFrames(s, ph) /\ Beginners(s, ph) /\ Bottom(s)

\* t is nested in u.
Above(s, t, u) == \E p, q \in 1 .. Len(s) : p < q /\ s[p] = ExecFrame(t) /\ s[q] = ExecFrame(u)

NoBeginner(ph) == \A t \in Tasks : ph[t] \notin {"picked", "prepared"}

LEMMA ExecFrames ==
    /\ \A t : ExecFrame(t).at = "exec" /\ ExecFrame(t).task = t
    /\ \A t, u : ExecFrame(t) = ExecFrame(u) => t = u
    /\ \A t \in Tasks : ExecFrame(t) \in Frame
    /\ \A f \in Frame : f.at = "exec" => f = ExecFrame(f.task)
<1>1. \A t : ExecFrame(t).at = "exec" /\ ExecFrame(t).task = t
  BY DEF ExecFrame
<1>2. \A t \in Tasks : ExecFrame(t) \in Frame
  BY DEF ExecFrame, Frame
<1>3. \A f \in Frame : f.at = "exec" => f = ExecFrame(f.task)
  BY DEF ExecFrame, Frame
<1>4. \A t, u : ExecFrame(t) = ExecFrame(u) => t = u
  BY <1>1
<1> QED  BY <1>1, <1>2, <1>3, <1>4

\* While something else than a task is innermost, none is about to be executed.
LEMMA OthersOnTop ==
    ASSUME NEW s \in Seq(Frame), NEW ph \in [Tasks -> Phases], Nest(s, ph),
           s = <<>> \/ s[1].at # "exec" \/ ph[s[1].task] \notin {"picked", "prepared"}
    PROVE  NoBeginner(ph)
<1> SUFFICES ASSUME NEW t \in Tasks, ph[t] \in {"picked", "prepared"} PROVE FALSE
  BY DEF NoBeginner
<1>1. PICK i \in 1 .. Len(s) : s[i] = ExecFrame(t)
  BY DEF Nest, HaveFrames, ExecPhases
<1>2. s[1] = ExecFrame(t)
  BY <1>1 DEF Nest, Beginners
<1>3. s # <<>>
  BY <1>1
<1> QED  BY <1>2, <1>3 DEF ExecFrame

\* A frame that is no task's is pushed.
LEMMA NestPushed ==
    ASSUME NEW s \in Seq(Frame), NEW ph \in [Tasks -> Phases], Nest(s, ph),
           NEW f \in Frame, f.at # "exec", NoBeginner(ph), s # <<>> \/ ~Threaded
    PROVE  /\ Nest(<<f>> \o s, ph)
           /\ \A t, u : Above(s, t, u) => Above(<<f>> \o s, t, u)
<1> DEFINE r == <<f>> \o s
<1>1. /\ r \in Seq(Frame) /\ Len(s) \in Nat /\ Len(r) = Len(s) + 1 /\ r[1] = f
      /\ \A i \in 1 .. Len(s) : i + 1 \in 1 .. Len(r) /\ r[i + 1] = s[i]
      /\ \A i \in 1 .. Len(r) : i # 1 => i - 1 \in 1 .. Len(s) /\ r[i] = s[i - 1]
  BY ConsElements
<1> HIDE DEF r
<1>2. FramesAreOf(r, ph)
  BY <1>1 DEF Nest, FramesAreOf
<1>3. FramesOnce(r)
  <2> SUFFICES ASSUME NEW i \in 1 .. Len(r), NEW j \in 1 .. Len(r),
                      r[i].at = "exec", r[i] = r[j]
               PROVE  i = j
    BY DEF FramesOnce
  <2>1. /\ i - 1 \in 1 .. Len(s) /\ r[i] = s[i - 1]
        /\ j - 1 \in 1 .. Len(s) /\ r[j] = s[j - 1]
    BY <1>1
  <2>2. i - 1 = j - 1
    BY <2>1 DEF Nest, FramesOnce
  <2> QED  BY <2>2
<1>4. HaveFrames(r, ph)
  BY <1>1 DEF Nest, HaveFrames
<1>5. Beginners(r, ph)
  BY DEF NoBeginner, Beginners
<1>6. Bottom(r)
  <2> SUFFICES ASSUME Threaded PROVE r[Len(r)].at = "exec"
    BY DEF Bottom
  <2>1. s # <<>> /\ Len(s) \in 1 .. Len(s)
    BY <1>1
  <2> QED  BY <1>1, <2>1 DEF Nest, Bottom
<1>7. ASSUME NEW t, NEW u, Above(s, t, u) PROVE Above(r, t, u)
  <2>1. PICK p \in 1 .. Len(s), q \in 1 .. Len(s) :
            p < q /\ s[p] = ExecFrame(t) /\ s[q] = ExecFrame(u)
    BY <1>7 DEF Above
  <2>2. /\ p + 1 \in 1 .. Len(r) /\ q + 1 \in 1 .. Len(r) /\ p + 1 < q + 1
        /\ r[p + 1] = ExecFrame(t) /\ r[q + 1] = ExecFrame(u)
    BY <1>1, <2>1
  <2> QED  BY <2>2 DEF Above
<1> QED  BY <1>2, <1>3, <1>4, <1>5, <1>6, <1>7 DEF Nest, r

\* The innermost frame is popped: no task's, or that of a task that ends.
LEMMA NestPopped ==
    ASSUME NEW s \in Seq(Frame), NEW ph \in [Tasks -> Phases], Nest(s, ph), s # <<>>,
           NEW ph2 \in [Tasks -> Phases],
           \/ s[1].at # "exec" /\ ph2 = ph
           \/ \E t \in Tasks : /\ s[1] = ExecFrame(t) /\ ph2[t] \notin ExecPhases
                               /\ \A u \in Tasks : u # t => ph2[u] = ph[u]
                               /\ ph[t] # "prepared"
    PROVE  /\ Nest(Tail(s), ph2)
           /\ \A t, u \in Tasks : Above(s, t, u) /\ ph2[t] \in Live => Above(Tail(s), t, u)
<1> DEFINE r == Tail(s)
<1>1. /\ r \in Seq(Frame) /\ Len(s) \in Nat \ {0} /\ Len(r) = Len(s) - 1
      /\ \A i \in 1 .. Len(r) : i + 1 \in 1 .. Len(s) /\ r[i] = s[i + 1]
      /\ \A i \in 2 .. Len(s) : i - 1 \in 1 .. Len(r) /\ r[i - 1] = s[i]
  BY TailElements
<1>0. r = <<>> \/ Len(r) \in 1 .. Len(r)
  BY <1>1
<1> HIDE DEF r
\* The frames that stay are of tasks that do not change.
<1>2. \A u \in Tasks : s[1] # ExecFrame(u) => ph2[u] = ph[u]
  BY DEF ExecFrame
<1>3. \A u \in Tasks : s[1] = ExecFrame(u) => ph2[u] \notin ExecPhases
  BY ExecFrames
<1>4. \A i \in 1 .. Len(r) : r[i].at = "exec" =>
          /\ i + 1 \in 1 .. Len(s) /\ r[i] = s[i + 1]
          /\ r[i] # s[1] /\ r[i] = ExecFrame(r[i].task)
  <2> SUFFICES ASSUME NEW i \in 1 .. Len(r), r[i].at = "exec"
               PROVE  /\ i + 1 \in 1 .. Len(s) /\ r[i] = s[i + 1]
                      /\ r[i] # s[1] /\ r[i] = ExecFrame(r[i].task)
    OBVIOUS
  <2>1. i + 1 \in 1 .. Len(s) /\ r[i] = s[i + 1] /\ 1 \in 1 .. Len(s)
    BY <1>1
  <2>2. r[i] # s[1]
    <3>1. r[i] = s[1] => i + 1 = 1
      BY <2>1 DEF Nest, FramesOnce
    <3> QED  BY <3>1
  <2>3. r[i] \in Frame
    BY <1>1
  <2> QED  BY <2>1, <2>2, <2>3 DEF Frame, ExecFrame
<1>5. FramesAreOf(r, ph2)
  BY <1>2, <1>4 DEF Nest, FramesAreOf
<1>6. FramesOnce(r)
  <2> SUFFICES ASSUME NEW i \in 1 .. Len(r), NEW j \in 1 .. Len(r),
                      r[i].at = "exec", r[i] = r[j]
               PROVE  i = j
    BY DEF FramesOnce
  <2>1. i + 1 \in 1 .. Len(s) /\ j + 1 \in 1 .. Len(s) /\ r[i] = s[i + 1] /\ r[j] = s[j + 1]
    BY <1>1
  <2>2. i + 1 = j + 1
    BY <2>1 DEF Nest, FramesOnce
  <2> QED  BY <2>2
<1>7. HaveFrames(r, ph2)
  <2> SUFFICES ASSUME NEW u \in Tasks, ph2[u] \in ExecPhases
               PROVE  \E i \in 1 .. Len(r) : r[i] = ExecFrame(u)
    BY DEF HaveFrames
  <2>1. s[1] # ExecFrame(u) /\ ph[u] \in ExecPhases
    BY <1>2, <1>3
  <2>2. PICK i \in 1 .. Len(s) : s[i] = ExecFrame(u)
    BY <2>1 DEF Nest, HaveFrames
  <2>3. i \in 2 .. Len(s)
    BY <2>1, <2>2, <1>1
  <2> QED  BY <1>1, <2>2, <2>3
<1>8. Beginners(r, ph2)
  <2> SUFFICES ASSUME NEW u \in Tasks, ph2[u] \in {"picked", "prepared"} PROVE FALSE
    BY DEF Beginners
  <2>1. s[1] # ExecFrame(u) /\ ph[u] \in {"picked", "prepared"}
    BY <1>2, <1>3 DEF ExecPhases
  <2>2. ph[u] = "picked"
    BY <2>1 DEF Nest, Beginners
  <2>3. PICK i \in 1 .. Len(s) : s[i] = ExecFrame(u)
    BY <2>2 DEF Nest, HaveFrames, ExecPhases
  <2>4. i = 1
    BY <2>2, <2>3 DEF Nest, Beginners
  <2> QED  BY <2>1, <2>3, <2>4
<1>9. Bottom(r)
  <2> SUFFICES ASSUME Threaded, r # <<>> PROVE r[Len(r)].at = "exec"
    BY DEF Bottom
  <2>1. Len(r) \in 1 .. Len(r) /\ Len(r) + 1 = Len(s)
    BY <1>0, <1>1
  <2>2. r[Len(r)] = s[Len(s)]
    BY <1>1, <2>1
  <2> QED  BY <2>2 DEF Nest, Bottom
<1>10. ASSUME NEW t \in Tasks, NEW u \in Tasks, Above(s, t, u), ph2[t] \in Live
       PROVE  Above(r, t, u)
  <2>1. PICK p \in 1 .. Len(s), q \in 1 .. Len(s) :
            p < q /\ s[p] = ExecFrame(t) /\ s[q] = ExecFrame(u)
    BY <1>10 DEF Above
  <2>2. s[1] # ExecFrame(t)
    BY <1>3, <1>10 DEF Live, ExecPhases
  <2>3. p \in 2 .. Len(s) /\ q \in 2 .. Len(s)
    BY <1>1, <2>1, <2>2
  <2>4. /\ p - 1 \in 1 .. Len(r) /\ q - 1 \in 1 .. Len(r) /\ p - 1 < q - 1
        /\ r[p - 1] = ExecFrame(t) /\ r[q - 1] = ExecFrame(u)
    BY <1>1, <2>1, <2>3
  <2> QED  BY <2>4 DEF Above
<1> QED  BY <1>5, <1>6, <1>7, <1>8, <1>9, <1>10 DEF Nest, r

\* A task begins: it is picked by the idle worker, or nested.
LEMMA NestEntered ==
    ASSUME NEW s \in Seq(Frame), NEW ph \in [Tasks -> Phases], Nest(s, ph), NoBeginner(ph),
           NEW t \in Tasks, ph[t] \notin ExecPhases,
           NEW q \in {"picked", "prepared"}, q = "picked" => Threaded /\ s = <<>>,
           NEW ph2 \in [Tasks -> Phases], ph2[t] = q,
           \A u \in Tasks : u # t => ph2[u] = ph[u]
    PROVE  /\ Nest(<<ExecFrame(t)>> \o s, ph2)
           /\ \A v, u : Above(s, v, u) => Above(<<ExecFrame(t)>> \o s, v, u)
<1> DEFINE r == <<ExecFrame(t)>> \o s
<1>1. /\ r \in Seq(Frame) /\ Len(s) \in Nat /\ Len(r) = Len(s) + 1 /\ r[1] = ExecFrame(t)
      /\ \A i \in 1 .. Len(s) : i + 1 \in 1 .. Len(r) /\ r[i + 1] = s[i]
      /\ \A i \in 1 .. Len(r) : i # 1 => i - 1 \in 1 .. Len(s) /\ r[i] = s[i - 1]
  BY ConsElements, ExecFrames
<1>2. Len(r) \in 1 .. Len(r)
  BY <1>1
<1> HIDE DEF r
<1>3. \A i \in 1 .. Len(s) : s[i] # ExecFrame(t)
  BY ExecFrames DEF Nest, FramesAreOf
<1>4. FramesAreOf(r, ph2)
  <2> SUFFICES ASSUME NEW i \in 1 .. Len(r), r[i].at = "exec"
               PROVE  r[i].task \in Tasks /\ ph2[r[i].task] \in ExecPhases
    BY DEF FramesAreOf
  <2>1. CASE i = 1
    BY <1>1, <2>1, ExecFrames DEF ExecPhases
  <2>2. CASE i # 1
    <3>1. i - 1 \in 1 .. Len(s) /\ r[i] = s[i - 1]
      BY <1>1, <2>2
    <3>2. r[i].task \in Tasks /\ ph[r[i].task] \in ExecPhases
      BY <3>1 DEF Nest, FramesAreOf
    <3> QED  BY <3>2
  <2> QED  BY <2>1, <2>2
<1>5. FramesOnce(r)
  <2> SUFFICES ASSUME NEW i \in 1 .. Len(r), NEW j \in 1 .. Len(r),
                      r[i].at = "exec", r[i] = r[j]
               PROVE  i = j
    BY DEF FramesOnce
  <2>1. i = 1 <=> j = 1
    <3>1. \A k \in 1 .. Len(r) : k # 1 => r[k] # ExecFrame(t)
      BY <1>1, <1>3
    <3>2. r[1] = ExecFrame(t)
      BY <1>1
    <3> QED  BY <3>1, <3>2
  <2>2. CASE i # 1
    <3>1. /\ i - 1 \in 1 .. Len(s) /\ r[i] = s[i - 1]
          /\ j - 1 \in 1 .. Len(s) /\ r[j] = s[j - 1]
      BY <1>1, <2>1, <2>2
    <3>2. i - 1 = j - 1
      BY <3>1 DEF Nest, FramesOnce
    <3> QED  BY <3>2
  <2> QED  BY <2>1, <2>2
<1>6. HaveFrames(r, ph2)
  <2> SUFFICES ASSUME NEW u \in Tasks, ph2[u] \in ExecPhases
               PROVE  \E i \in 1 .. Len(r) : r[i] = ExecFrame(u)
    BY DEF HaveFrames
  <2>1. CASE u = t
    BY <1>1, <1>2, <2>1
  <2>2. CASE u # t
    <3>1. PICK i \in 1 .. Len(s) : s[i] = ExecFrame(u)
      BY <2>2 DEF Nest, HaveFrames
    <3> QED  BY <1>1, <3>1
  <2> QED  BY <2>1, <2>2
<1>7. Beginners(r, ph2)
  <2>1. \A u \in Tasks : ph2[u] \in {"picked", "prepared"} => u = t
    BY DEF NoBeginner
  <2>2. q = "picked" => Len(r) = 1
    BY <1>1
  <2> QED  BY <1>1, <2>1, <2>2 DEF Beginners
<1>8. Bottom(r)
  <2>1. CASE s = <<>>
    BY <1>1, <2>1, ExecFrames DEF Bottom
  <2>2. CASE s # <<>>
    <3>1. Len(s) \in 1 .. Len(s)
      BY <1>1, <2>2
    <3>2. r[Len(r)] = s[Len(s)]
      BY <1>1, <3>1
    <3> QED  BY <2>2, <3>2 DEF Nest, Bottom
  <2> QED  BY <2>1, <2>2
<1>9. ASSUME NEW v, NEW u, Above(s, v, u) PROVE Above(r, v, u)
  <2>1. PICK p \in 1 .. Len(s), k \in 1 .. Len(s) :
            p < k /\ s[p] = ExecFrame(v) /\ s[k] = ExecFrame(u)
    BY <1>9 DEF Above
  <2>2. /\ p + 1 \in 1 .. Len(r) /\ k + 1 \in 1 .. Len(r) /\ p + 1 < k + 1
        /\ r[p + 1] = ExecFrame(v) /\ r[k + 1] = ExecFrame(u)
    BY <1>1, <2>1
  <2> QED  BY <2>2 DEF Above
<1> QED  BY <1>4, <1>5, <1>6, <1>7, <1>8, <1>9 DEF Nest, r

\* A task goes on where it is.
LEMMA NestContinued ==
    ASSUME NEW s \in Seq(Frame), NEW ph \in [Tasks -> Phases], Nest(s, ph),
           NEW t \in Tasks, NEW ph2 \in [Tasks -> Phases],
           \A u \in Tasks : u # t => ph2[u] = ph[u],
           ph[t] \in ExecPhases <=> ph2[t] \in ExecPhases,
           ph2[t] # "picked",
           ph2[t] = "prepared" => s[1] = ExecFrame(t)
    PROVE  Nest(s, ph2)
<1>1. \A u \in Tasks : ph[u] \in ExecPhases <=> ph2[u] \in ExecPhases
  OBVIOUS
<1>2. FramesAreOf(s, ph2) /\ FramesOnce(s) /\ HaveFrames(s, ph2) /\ Bottom(s)
  BY <1>1 DEF Nest, FramesAreOf, HaveFrames
<1>3. Beginners(s, ph2)
  BY DEF Nest, Beginners
<1> QED  BY <1>2, <1>3 DEF Nest

-----------------------------------------------------------------------------
(* The message handlers: hs stands for the stack of them *)

Handled(hs, s, ph) ==
    /\ \A i \in 1 .. Len(hs) : hs[i] # NullTask => ph[hs[i]] \in Live
    /\ \A i, j \in 1 .. Len(hs) :
          i < j /\ hs[j] # NullTask => hs[i] # NullTask /\ Above(s, hs[i], hs[j])

\* Every executing task has its handler, and the dispatcher's own is the last.
Mirrored(hs, ph) ==
    /\ hs # <<>>
    /\ hs[Len(hs)] = NullTask
    /\ \A i \in 1 .. Len(hs) - 1 : hs[i] # NullTask
    /\ \A t \in Tasks : ph[t] \in Live => \E i \in 1 .. Len(hs) : hs[i] = t

HandlersOf == Seq(Tasks \cup {NullTask})

LEMMA HandledKept ==
    ASSUME NEW hs \in HandlersOf, NEW s, NEW s2, NEW ph, NEW ph2, Handled(hs, s, ph),
           \A i \in 1 .. Len(hs) : hs[i] # NullTask => ph2[hs[i]] \in Live,
           \A t, u \in Tasks : Above(s, t, u) /\ ph2[t] \in Live => Above(s2, t, u)
    PROVE  Handled(hs, s2, ph2)
<1>1. \A i \in 1 .. Len(hs) : hs[i] # NullTask => hs[i] \in Tasks
  BY DEF HandlersOf
<1> QED  BY <1>1 DEF Handled

LEMMA HandlerPushed ==
    ASSUME NEW hs \in HandlersOf, NEW s \in Seq(Frame), NEW ph \in [Tasks -> Phases],
           Handled(hs, s, ph), Nest(s, ph), NEW t \in Tasks, s # <<>>, s[1] = ExecFrame(t),
           ph[t] \in Live, \A i \in 1 .. Len(hs) : hs[i] # t
    PROVE  Handled(<<t>> \o hs, s, ph)
<1> DEFINE r == <<t>> \o hs
<1>1. /\ Len(hs) \in Nat /\ Len(r) = Len(hs) + 1 /\ r[1] = t
      /\ \A i \in 1 .. Len(r) : i # 1 => i - 1 \in 1 .. Len(hs) /\ r[i] = hs[i - 1]
  BY ConsElements DEF HandlersOf
<1> HIDE DEF r
<1>2. t # NullTask
  BY DispatcherAssumption
<1>3. \A i \in 1 .. Len(r) : r[i] # NullTask => ph[r[i]] \in Live
  BY <1>1 DEF Handled
<1>4. ASSUME NEW i \in 1 .. Len(r), NEW j \in 1 .. Len(r), i < j, r[j] # NullTask
      PROVE  r[i] # NullTask /\ Above(s, r[i], r[j])
  <2>1. j - 1 \in 1 .. Len(hs) /\ r[j] = hs[j - 1] /\ r[j] # t
    BY <1>1, <1>4
  <2>2. CASE i = 1
    <3>1. r[j] \in Tasks /\ ph[r[j]] \in ExecPhases
      BY <2>1, <1>3, <1>4 DEF Live, ExecPhases, HandlersOf
    <3>2. PICK k \in 1 .. Len(s) : s[k] = ExecFrame(r[j])
      BY <3>1 DEF Nest, HaveFrames
    <3>3. ExecFrame(r[j]) # ExecFrame(t)
      BY <2>1, ExecFrames
    <3>4. 1 < k /\ 1 \in 1 .. Len(s)
      BY <3>2, <3>3
    <3> QED  BY <1>1, <1>2, <2>2, <3>2, <3>4 DEF Above
  <2>3. CASE i # 1
    <3>1. i - 1 \in 1 .. Len(hs) /\ r[i] = hs[i - 1] /\ i - 1 < j - 1
      BY <1>1, <1>4, <2>3
    <3> QED  BY <1>4, <2>1, <3>1 DEF Handled
  <2> QED  BY <2>2, <2>3
<1> QED  BY <1>3, <1>4 DEF Handled, r

\* What the handler of the innermost task is, if it still has one.
LEMMA InnermostHandler ==
    ASSUME NEW hs \in HandlersOf, NEW s \in Seq(Frame), NEW ph \in [Tasks -> Phases],
           Handled(hs, s, ph), Nest(s, ph), NEW t \in Tasks, s # <<>>, s[1] = ExecFrame(t)
    PROVE  \A i \in 1 .. Len(hs) : hs[i] = t => i = 1
<1> SUFFICES ASSUME NEW i \in 1 .. Len(hs), hs[i] = t, i # 1 PROVE FALSE
  OBVIOUS
<1>1. 1 \in 1 .. Len(hs) /\ 1 < i /\ t # NullTask
  BY DispatcherAssumption DEF HandlersOf
<1>2. Above(s, hs[1], t)
  BY <1>1 DEF Handled
<1>3. PICK p \in 1 .. Len(s), q \in 1 .. Len(s) : p < q /\ s[q] = ExecFrame(t)
  BY <1>2 DEF Above
<1>4. s[q].at = "exec" /\ s[q] = s[1] /\ 1 \in 1 .. Len(s)
  BY <1>3, ExecFrames
<1>5. q = 1
  BY <1>4 DEF Nest, FramesOnce
<1> QED  BY <1>3, <1>5

\* The innermost handler is popped.
LEMMA HandlerPopped ==
    ASSUME NEW hs \in HandlersOf, hs # <<>>, NEW s, NEW ph, Handled(hs, s, ph)
    PROVE  /\ Handled(Tail(hs), s, ph)
           /\ \A i \in 1 .. Len(Tail(hs)) : i + 1 \in 1 .. Len(hs) /\ Tail(hs)[i] = hs[i + 1]
<1> DEFINE r == Tail(hs)
<1>1. /\ Len(hs) \in Nat \ {0} /\ Len(r) = Len(hs) - 1
      /\ \A i \in 1 .. Len(r) : i + 1 \in 1 .. Len(hs) /\ r[i] = hs[i + 1]
  BY TailElements DEF HandlersOf
<1> HIDE DEF r
<1>2. \A i \in 1 .. Len(r) : r[i] # NullTask => ph[r[i]] \in Live
  BY <1>1 DEF Handled
<1>3. ASSUME NEW i \in 1 .. Len(r), NEW j \in 1 .. Len(r), i < j, r[j] # NullTask
      PROVE  r[i] # NullTask /\ Above(s, r[i], r[j])
  <2>1. /\ i + 1 \in 1 .. Len(hs) /\ j + 1 \in 1 .. Len(hs) /\ i + 1 < j + 1
        /\ r[i] = hs[i + 1] /\ r[j] = hs[j + 1]
    BY <1>1, <1>3
  <2> QED  BY <1>3, <2>1 DEF Handled
<1> QED  BY <1>1, <1>2, <1>3 DEF Handled, r

LEMMA MirrorPushed ==
    ASSUME NEW hs \in HandlersOf, NEW ph, Mirrored(hs, ph), NEW t \in Tasks, NEW ph2,
           \A u \in Tasks : u # t /\ ph2[u] \in Live => ph[u] \in Live
    PROVE  Mirrored(<<t>> \o hs, ph2)
<1> DEFINE r == <<t>> \o hs
<1>1. /\ Len(hs) \in Nat \ {0} /\ Len(r) = Len(hs) + 1 /\ r[1] = t
      /\ \A i \in 1 .. Len(hs) : i + 1 \in 1 .. Len(r) /\ r[i + 1] = hs[i]
      /\ \A i \in 1 .. Len(r) : i # 1 => i - 1 \in 1 .. Len(hs) /\ r[i] = hs[i - 1]
  BY ConsElements DEF HandlersOf, Mirrored
<1>2. r # <<>>
  BY <1>1
<1> HIDE DEF r
<1>3. t # NullTask /\ Len(r) # 1 /\ Len(r) - 1 = Len(hs)
  BY <1>1, DispatcherAssumption
<1>4. r[Len(r)] = NullTask
  BY <1>1, <1>3 DEF Mirrored
<1>5. \A i \in 1 .. Len(r) - 1 : r[i] # NullTask
  <2> SUFFICES ASSUME NEW i \in 1 .. Len(r) - 1, i # 1 PROVE r[i] # NullTask
    BY <1>1, <1>3
  <2>1. i - 1 \in 1 .. Len(hs) - 1 /\ r[i] = hs[i - 1]
    BY <1>1
  <2> QED  BY <2>1 DEF Mirrored
<1>6. \A u \in Tasks : ph2[u] \in Live => \E i \in 1 .. Len(r) : r[i] = u
  <2> SUFFICES ASSUME NEW u \in Tasks, ph2[u] \in Live PROVE \E i \in 1 .. Len(r) : r[i] = u
    OBVIOUS
  <2>1. CASE u = t
    BY <1>1, <2>1
  <2>2. CASE u # t
    <3>1. PICK i \in 1 .. Len(hs) : hs[i] = u
      BY <2>2 DEF Mirrored
    <3> QED  BY <1>1, <3>1
  <2> QED  BY <2>1, <2>2
<1> QED  BY <1>2, <1>4, <1>5, <1>6 DEF Mirrored, r

LEMMA MirrorPopped ==
    ASSUME NEW hs \in HandlersOf, NEW ph, Mirrored(hs, ph), NEW t \in Tasks, NEW ph2,
           \E i \in 1 .. Len(hs) : hs[i] = t,
           \A i \in 1 .. Len(hs) : hs[i] = t => i = 1,
           ph2[t] \notin Live, \A u \in Tasks : u # t => ph2[u] = ph[u]
    PROVE  Mirrored(Tail(hs), ph2)
<1> DEFINE r == Tail(hs)
<1>1. /\ Len(hs) \in Nat \ {0} /\ Len(r) = Len(hs) - 1
      /\ \A i \in 1 .. Len(r) : i + 1 \in 1 .. Len(hs) /\ r[i] = hs[i + 1]
      /\ \A i \in 2 .. Len(hs) : i - 1 \in 1 .. Len(r) /\ r[i - 1] = hs[i]
  BY TailElements DEF HandlersOf, Mirrored
<1>2. hs[1] = t /\ t # NullTask
  BY DispatcherAssumption
<1>3. Len(hs) # 1
  BY <1>2 DEF Mirrored
<1> HIDE DEF r
<1>4. r # <<>>
  <2>1. Len(r) # 0
    BY <1>1, <1>3
  <2> QED  BY <2>1
<1>5. Len(r) \in 1 .. Len(r) /\ Len(r) + 1 = Len(hs)
  BY <1>1, <1>3
<1>6. r[Len(r)] = NullTask
  BY <1>1, <1>5 DEF Mirrored
<1>7. \A i \in 1 .. Len(r) - 1 : r[i] # NullTask
  <2> SUFFICES ASSUME NEW i \in 1 .. Len(r) - 1 PROVE r[i] # NullTask
    OBVIOUS
  <2>1. i + 1 \in 1 .. Len(hs) - 1 /\ r[i] = hs[i + 1]
    BY <1>1, <1>5
  <2> QED  BY <2>1 DEF Mirrored
<1>8. \A u \in Tasks : ph2[u] \in Live => \E i \in 1 .. Len(r) : r[i] = u
  <2> SUFFICES ASSUME NEW u \in Tasks, ph2[u] \in Live PROVE \E i \in 1 .. Len(r) : r[i] = u
    OBVIOUS
  <2>1. u # t /\ ph[u] \in Live
    OBVIOUS
  <2>2. PICK i \in 1 .. Len(hs) : hs[i] = u
    BY <2>1 DEF Mirrored
  <2>3. i \in 2 .. Len(hs)
    BY <1>2, <2>1, <2>2
  <2> QED  BY <1>1, <2>2, <2>3
<1> QED  BY <1>4, <1>6, <1>7, <1>8 DEF Mirrored, r

-----------------------------------------------------------------------------
(* The life of a task as its client hears of it: cq stands for the queue of *)
(* callbacks and del for what was delivered.                               *)

Finals == {"finished", "failed"}
Beginning(t) == [kind |-> "started", task |-> t]
NoFinal(d) == \A i \in 1 .. Len(d) : d[i] \notin Finals

InOrder(del) ==
    \A t \in Tasks : \A i \in 1 .. Len(del[t]) :
        /\ del[t][i] = "started" <=> i = 1
        /\ del[t][i] \in Finals => i = Len(del[t])

\* What waits in the queue goes on from what was delivered.
GoesOnWell(cq, del) ==
    /\ \A i \in 1 .. Len(cq) :
          /\ NoFinal(del[cq[i].task])
          /\ cq[i].kind = "started" => del[cq[i].task] = <<>>
          /\ cq[i].kind # "started" /\ del[cq[i].task] = <<>> =>
                 \E j \in 1 .. Len(cq) : j < i /\ cq[j] = Beginning(cq[i].task)
    /\ \A i, j \in 1 .. Len(cq) :
          i < j /\ cq[i].task = cq[j].task =>
              cq[i].kind \notin Finals /\ cq[j].kind # "started"

Unheard(cq, del, t) == del[t] = <<>> /\ \A i \in 1 .. Len(cq) : cq[i].task # t
Speaking(cq, del, t) ==
    /\ NoFinal(del[t])
    /\ \A i \in 1 .. Len(cq) : cq[i].task = t => cq[i].kind \notin Finals
    /\ del[t] = <<>> => \E j \in 1 .. Len(cq) : cq[j] = Beginning(t)

Deliveries == [Tasks -> Seq(Kinds)]

\* A callback enters the queue: the first one of its task, or a later one.
LEMMA CallbackQueued ==
    ASSUME NEW cq \in Seq(Callback), NEW del \in Deliveries, GoesOnWell(cq, del),
           NEW c \in Callback,
           \/ c.kind = "started" /\ Unheard(cq, del, c.task)
           \/ c.kind # "started" /\ Speaking(cq, del, c.task)
    PROVE  /\ GoesOnWell(Append(cq, c), del)
           /\ \A u \in Tasks : u # c.task /\ Unheard(cq, del, u) => Unheard(Append(cq, c), del, u)
           /\ \A u \in Tasks : u # c.task /\ Speaking(cq, del, u) => Speaking(Append(cq, c), del, u)
           /\ c.kind \notin Finals => Speaking(Append(cq, c), del, c.task)
<1> DEFINE r == Append(cq, c)
           t == c.task
<1>1. /\ r \in Seq(Callback) /\ Len(cq) \in Nat /\ Len(r) = Len(cq) + 1
      /\ r[Len(cq) + 1] = c
      /\ \A i \in 1 .. Len(cq) : r[i] = cq[i]
  BY AppendElements
<1>2. /\ \A i \in 1 .. Len(r) : i \in 1 .. Len(cq) \/ (i = Len(cq) + 1 /\ r[i] = c)
      /\ \A i \in 1 .. Len(cq) : i \in 1 .. Len(r)
      /\ Len(r) \in 1 .. Len(r)
  BY <1>1
<1>3. t \in Tasks /\ c.kind \in Kinds /\ (c.kind = "started" => c = Beginning(t))
  BY DEF Callback, Beginning
<1> HIDE DEF r, t
<1>4. ASSUME NEW i \in 1 .. Len(r)
      PROVE  /\ NoFinal(del[r[i].task])
             /\ r[i].kind = "started" => del[r[i].task] = <<>>
             /\ r[i].kind # "started" /\ del[r[i].task] = <<>> =>
                    \E j \in 1 .. Len(r) : j < i /\ r[j] = Beginning(r[i].task)
  <2>1. CASE i \in 1 .. Len(cq)
    <3>1. r[i] = cq[i]
      BY <1>1, <2>1
    <3>2. /\ NoFinal(del[r[i].task])
          /\ r[i].kind = "started" => del[r[i].task] = <<>>
          /\ r[i].kind # "started" /\ del[r[i].task] = <<>> =>
                 \E j \in 1 .. Len(cq) : j < i /\ cq[j] = Beginning(r[i].task)
      BY <2>1, <3>1 DEF GoesOnWell
    <3> QED  BY <1>1, <1>2, <3>2
  <2>2. CASE i = Len(cq) + 1
    <3>1. r[i] = c /\ r[i].task = t
      BY <1>1, <2>2 DEF t
    <3>2. CASE c.kind = "started"
      <4>1. del[t] = <<>>
        BY <3>2 DEF Unheard, t
      <4>2. NoFinal(<<>>)
        BY DEF NoFinal
      <4> QED  BY <3>1, <3>2, <4>1, <4>2
    <3>3. CASE c.kind # "started"
      <4>1. /\ NoFinal(del[t])
            /\ del[t] = <<>> => \E j \in 1 .. Len(cq) : cq[j] = Beginning(t)
        BY <3>3 DEF Speaking, t
      <4>2. \A j \in 1 .. Len(cq) : j < i /\ j \in 1 .. Len(r) /\ r[j] = cq[j]
        BY <1>1, <1>2, <2>2
      <4> QED  BY <3>1, <3>3, <4>1, <4>2
    <3> QED  BY <3>2, <3>3
  <2> QED  BY <1>2, <2>1, <2>2
<1>5. ASSUME NEW i \in 1 .. Len(r), NEW j \in 1 .. Len(r), i < j, r[i].task = r[j].task
      PROVE  r[i].kind \notin Finals /\ r[j].kind # "started"
  <2>1. i \in 1 .. Len(cq) /\ r[i] = cq[i]
    BY <1>1, <1>2, <1>5
  <2>2. CASE j \in 1 .. Len(cq)
    BY <1>1, <1>5, <2>1, <2>2 DEF GoesOnWell
  <2>3. CASE j = Len(cq) + 1
    <3>1. r[j] = c /\ cq[i].task = t
      BY <1>1, <1>5, <2>1, <2>3 DEF t
    <3>2. ~Unheard(cq, del, t)
      BY <2>1, <3>1 DEF Unheard
    <3>3. c.kind # "started" /\ Speaking(cq, del, t)
      BY <3>2 DEF t
    <3> QED  BY <2>1, <3>1, <3>3 DEF Speaking
  <2> QED  BY <1>2, <2>2, <2>3
<1>6. GoesOnWell(r, del)
  BY <1>4, <1>5 DEF GoesOnWell
<1>7. ASSUME NEW u \in Tasks, u # t, Unheard(cq, del, u) PROVE Unheard(r, del, u)
  BY <1>1, <1>2, <1>7 DEF Unheard, t
<1>8. ASSUME NEW u \in Tasks, u # t, Speaking(cq, del, u) PROVE Speaking(r, del, u)
  BY <1>1, <1>2, <1>8 DEF Speaking, t
<1>9. ASSUME c.kind \notin Finals PROVE Speaking(r, del, t)
  <2>1. CASE c.kind = "started"
    <3>1. del[t] = <<>> /\ \A i \in 1 .. Len(cq) : cq[i].task # t
      BY <2>1 DEF Unheard, t
    <3>2. NoFinal(del[t])
      BY <3>1 DEF NoFinal
    <3>3. \A i \in 1 .. Len(r) : r[i].task = t => r[i] = c
      BY <1>1, <1>2, <3>1
    <3>4. r[Len(r)] = Beginning(t)
      BY <1>1, <1>3, <2>1
    <3> QED  BY <1>2, <1>9, <3>2, <3>3, <3>4 DEF Speaking
  <2>2. CASE c.kind # "started"
    <3>1. Speaking(cq, del, t)
      BY <2>2 DEF t
    <3> QED  BY <1>1, <1>2, <1>9, <3>1 DEF Speaking
  <2> QED  BY <2>1, <2>2
<1> QED  BY <1>6, <1>7, <1>8, <1>9 DEF r, t

Delivery(del, c) == [del EXCEPT ![c.task] = Append(@, c.kind)]

\* The first callback in the queue is run.
LEMMA CallbackDelivered ==
    ASSUME NEW cq \in Seq(Callback), NEW del \in Deliveries, GoesOnWell(cq, del),
           InOrder(del), cq # <<>>
    PROVE  /\ GoesOnWell(Tail(cq), Delivery(del, Head(cq)))
           /\ InOrder(Delivery(del, Head(cq)))
           /\ \A u \in Tasks : Unheard(cq, del, u) =>
                                   Unheard(Tail(cq), Delivery(del, Head(cq)), u)
           /\ \A u \in Tasks : Speaking(cq, del, u) =>
                                   Speaking(Tail(cq), Delivery(del, Head(cq)), u)
<1> DEFINE r == Tail(cq)
           c == Head(cq)
           t == c.task
           d == del[t]
           del2 == Delivery(del, c)
<1>1. /\ r \in Seq(Callback) /\ Len(cq) \in Nat \ {0} /\ Len(r) = Len(cq) - 1
      /\ c = cq[1] /\ c \in Callback
      /\ \A i \in 1 .. Len(r) : i + 1 \in 1 .. Len(cq) /\ r[i] = cq[i + 1]
      /\ \A i \in 2 .. Len(cq) : i - 1 \in 1 .. Len(r) /\ r[i - 1] = cq[i]
  BY TailElements
<1>2. t \in Tasks /\ c.kind \in Kinds /\ 1 \in 1 .. Len(cq)
  BY <1>1 DEF Callback
<1>3. /\ del2[t] = Append(d, c.kind)
      /\ \A u \in Tasks : u # t => del2[u] = del[u]
      /\ d \in Seq(Kinds)
  BY <1>2 DEF Delivery, Deliveries
<1> HIDE DEF r, c, del2
<1>4. /\ Len(d) \in Nat /\ Len(del2[t]) = Len(d) + 1
      /\ del2[t][Len(d) + 1] = c.kind
      /\ \A i \in 1 .. Len(d) : del2[t][i] = d[i]
      /\ del2[t] # <<>>
  <2>1. /\ Len(d) \in Nat /\ Len(del2[t]) = Len(d) + 1
        /\ del2[t][Len(d) + 1] = c.kind
        /\ \A i \in 1 .. Len(d) : del2[t][i] = d[i]
    BY <1>2, <1>3, AppendElements
  <2> QED  BY <2>1
\* The callback is the right one.
<1>5. /\ NoFinal(d)
      /\ c.kind = "started" => d = <<>>
      /\ c.kind # "started" => d # <<>>
  <2>1. /\ NoFinal(del[cq[1].task])
        /\ cq[1].kind = "started" => del[cq[1].task] = <<>>
        /\ cq[1].kind # "started" /\ del[cq[1].task] = <<>> =>
               \E j \in 1 .. Len(cq) : j < 1 /\ cq[j] = Beginning(cq[1].task)
    BY <1>2 DEF GoesOnWell
  <2>2. ~ \E j \in 1 .. Len(cq) : j < 1
    OBVIOUS
  <2> QED  BY <1>1, <2>1, <2>2
<1>6. InOrder(del2)
  <2> SUFFICES ASSUME NEW u \in Tasks, NEW i \in 1 .. Len(del2[u])
               PROVE  /\ del2[u][i] = "started" <=> i = 1
                      /\ del2[u][i] \in Finals => i = Len(del2[u])
    BY DEF InOrder
  <2>1. CASE u # t
    BY <1>3, <2>1 DEF InOrder
  <2>2. CASE u = t /\ i \in 1 .. Len(d)
    <3>1. del2[u][i] = d[i] /\ d[i] \notin Finals
      BY <1>4, <1>5, <2>2 DEF NoFinal
    <3>2. d[i] = "started" <=> i = 1
      BY <1>2, <2>2 DEF InOrder
    <3> QED  BY <3>1, <3>2
  <2>3. CASE u = t /\ i = Len(d) + 1
    <3>1. del2[u][i] = c.kind /\ i = Len(del2[u])
      BY <1>4, <2>3
    <3>2. c.kind = "started" => Len(d) = 0
      BY <1>5
    <3>3. c.kind # "started" => Len(d) # 0
      BY <1>3, <1>5
    <3> QED  BY <1>4, <2>3, <3>1, <3>2, <3>3
  <2> QED  BY <1>4, <2>1, <2>2, <2>3
\* What is behind it in the queue.
<1>7. ASSUME NEW i \in 1 .. Len(r), r[i].task = t
      PROVE  c.kind \notin Finals /\ r[i].kind # "started"
  <2>1. /\ i + 1 \in 1 .. Len(cq) /\ r[i] = cq[i + 1] /\ 1 < i + 1
        /\ cq[1].task = cq[i + 1].task
    BY <1>1, <1>7
  <2>2. cq[1].kind \notin Finals /\ cq[i + 1].kind # "started"
    BY <1>2, <2>1 DEF GoesOnWell
  <2> QED  BY <1>1, <2>1, <2>2
<1>8. c.kind \notin Finals => NoFinal(del2[t])
  <2> SUFFICES ASSUME c.kind \notin Finals, NEW i \in 1 .. Len(del2[t])
               PROVE  del2[t][i] \notin Finals
    BY DEF NoFinal
  <2>1. CASE i \in 1 .. Len(d)
    BY <1>4, <1>5, <2>1 DEF NoFinal
  <2>2. CASE i = Len(d) + 1
    BY <1>4, <2>2
  <2> QED  BY <1>4, <2>1, <2>2
<1>9. ASSUME NEW i \in 1 .. Len(r)
      PROVE  /\ NoFinal(del2[r[i].task])
             /\ r[i].kind = "started" => del2[r[i].task] = <<>>
             /\ r[i].kind # "started" /\ del2[r[i].task] = <<>> =>
                    \E j \in 1 .. Len(r) : j < i /\ r[j] = Beginning(r[i].task)
  <2>1. CASE r[i].task = t
    BY <1>4, <1>7, <1>8, <2>1
  <2>2. CASE r[i].task # t
    <3> DEFINE u == r[i].task
    <3>1. i + 1 \in 1 .. Len(cq) /\ r[i] = cq[i + 1] /\ r[i] \in Callback
      BY <1>1
    <3>2. u \in Tasks /\ del2[u] = del[u]
      BY <1>3, <2>2, <3>1 DEF Callback
    <3>3. /\ NoFinal(del[u])
          /\ r[i].kind = "started" => del[u] = <<>>
          /\ r[i].kind # "started" /\ del[u] = <<>> =>
                 \E j \in 1 .. Len(cq) : j < i + 1 /\ cq[j] = Beginning(u)
      BY <3>1 DEF GoesOnWell
    <3>4. ASSUME NEW j \in 1 .. Len(cq), j < i + 1, cq[j] = Beginning(u)
          PROVE  \E k \in 1 .. Len(r) : k < i /\ r[k] = Beginning(u)
      <4>1. cq[j].task = u
        BY <3>4 DEF Beginning
      <4>2. j \in 2 .. Len(cq)
        BY <1>1, <2>2, <4>1
      <4>3. j - 1 \in 1 .. Len(r) /\ j - 1 < i /\ r[j - 1] = Beginning(u)
        BY <1>1, <3>4, <4>2
      <4> QED  BY <4>3
    <3> QED  BY <3>2, <3>3, <3>4
  <2> QED  BY <2>1, <2>2
<1>10. ASSUME NEW i \in 1 .. Len(r), NEW j \in 1 .. Len(r), i < j, r[i].task = r[j].task
       PROVE  r[i].kind \notin Finals /\ r[j].kind # "started"
  <2>1. /\ i + 1 \in 1 .. Len(cq) /\ r[i] = cq[i + 1]
        /\ j + 1 \in 1 .. Len(cq) /\ r[j] = cq[j + 1]
        /\ i + 1 < j + 1
    BY <1>1, <1>10
  <2> QED  BY <1>10, <2>1 DEF GoesOnWell
<1>11. GoesOnWell(r, del2)
  BY <1>9, <1>10 DEF GoesOnWell
<1>12. ASSUME NEW u \in Tasks, Unheard(cq, del, u) PROVE Unheard(r, del2, u)
  <2>1. u # t
    BY <1>1, <1>2, <1>12 DEF Unheard
  <2> QED  BY <1>1, <1>3, <1>12, <2>1 DEF Unheard
<1>13. ASSUME NEW u \in Tasks, Speaking(cq, del, u) PROVE Speaking(r, del2, u)
  <2>1. \A i \in 1 .. Len(r) : r[i].task = u => r[i].kind \notin Finals
    BY <1>1, <1>13 DEF Speaking
  <2>2. CASE u = t
    <3>1. c.kind \notin Finals
      BY <1>1, <1>2, <1>13, <2>2 DEF Speaking
    <3> QED  BY <1>4, <1>8, <2>1, <2>2, <3>1 DEF Speaking
  <2>3. CASE u # t
    <3>1. del2[u] = del[u]
      BY <1>3, <2>3
    <3>2. ASSUME NEW j \in 1 .. Len(cq), cq[j] = Beginning(u)
          PROVE  \E k \in 1 .. Len(r) : r[k] = Beginning(u)
      <4>1. cq[j].task = u
        BY <3>2 DEF Beginning
      <4>2. j \in 2 .. Len(cq)
        BY <1>1, <2>3, <4>1
      <4> QED  BY <1>1, <3>2, <4>2
    <3> QED  BY <1>13, <2>1, <3>1, <3>2 DEF Speaking
  <2> QED  BY <2>2, <2>3
<1> QED  BY <1>6, <1>11, <1>12, <1>13 DEF r, c, del2

-----------------------------------------------------------------------------
(* The second invariant: the nest, the handlers and the callbacks *)

NestAt(st, ph) ==
    /\ \A th \in Threads : th # Executor =>
          \A i \in 1 .. Len(st[th]) : st[th][i].at # "exec"
    /\ Nest(st[Executor], ph)

Serving == Threaded => ~shutDown

HandlerInv ==
    /\ Handled(handlers, stack[Executor], phase)
    /\ ~IsMainDispatcher => handlers = <<>>
    /\ IsMainDispatcher /\ ~shutDown =>
          /\ Mirrored(handlers, phase)
          /\ Threaded /\ (\E t \in Tasks : phase[t] \in Running) => count = 1

Early == {"new", "queued", "picked", "prepared", "skipped"}

\* After shutdown() nothing is delivered any more.
LifeInv ==
    /\ InOrder(delivered)
    /\ ~Threaded => callbackQueue = <<>>
    /\ Serving =>
          /\ GoesOnWell(callbackQueue, delivered)
          /\ \A t \in Tasks : phase[t] \in Early \/ t \in SimpleTasks =>
                                  Unheard(callbackQueue, delivered, t)
          /\ \A t \in Tasks \ SimpleTasks : phase[t] = "body" =>
                                  Speaking(callbackQueue, delivered, t)

OrderInv == NestAt(stack, phase) /\ HandlerInv /\ LifeInv /\ (alive => Threaded)

\* A step that keeps the nest.
NestStep ==
    /\ NestAt(stack', phase')
    /\ \A t, u \in Tasks : Above(stack[Executor], t, u) /\ phase'[t] \in Live =>
                               Above(stack'[Executor], t, u)

LEMMA Types ==
    ASSUME TypeOK
    PROVE  /\ callbackQueue \in Seq(Callback) /\ delivered \in Deliveries
           /\ stack \in [Threads -> Seq(Frame)] /\ phase \in [Tasks -> Phases]
           /\ handlers \in HandlersOf
           /\ Executor \in Threads /\ stack[Executor] \in Seq(Frame)
<1>1. Executor \in Threads
  BY DEF Executor, Threads
<1> QED  BY <1>1 DEF TypeOK, Deliveries, HandlersOf

\* The thread that executes, and where.
LEMMA Innermost ==
    ASSUME TypeOK, NestAt(stack, phase), NEW th \in Threads, NEW t \in Tasks, NEW p,
           Executing(th, t, p)
    PROVE  /\ th = Executor /\ stack[Executor] # <<>> /\ stack[Executor][1] = ExecFrame(t)
           /\ phase[t] = p
           /\ Inline(th) <=> ~Threaded
<1>1. stack[th] \in Seq(Frame) /\ stack[th] # <<>>
  BY Types DEF Executing, At, Idle
<1>2. Head(stack[th]) = stack[th][1] /\ 1 \in 1 .. Len(stack[th]) /\ stack[th][1] \in Frame
  BY <1>1, TailElements
<1>3. stack[th][1].at = "exec" /\ stack[th][1].task = t
  BY <1>2 DEF Executing, At, TopTask
<1>4. th = Executor
  BY <1>2, <1>3 DEF NestAt
<1>5. Inline(th) <=> ~Threaded
  BY <1>4 DEF Inline, Executor
<1> QED  BY <1>1, <1>2, <1>3, <1>4, <1>5, ExecFrames DEF Executing

\* A thread enters a frame that is no task's.
LEMMA PushedNests ==
    ASSUME TypeOK, NEW ph \in [Tasks -> Phases], NestAt(stack, ph), NEW th \in Threads,
           NEW f \in Frame, f.at # "exec", stack' = Pushed(stack, th, f),
           th = Executor => NoBeginner(ph) /\ (stack[th] # <<>> \/ ~Threaded)
    PROVE  /\ NestAt(stack', ph)
           /\ \A t, u : Above(stack[Executor], t, u) => Above(stack'[Executor], t, u)
<1>1. /\ stack \in [Threads -> Seq(Frame)] /\ Executor \in Threads
      /\ stack[Executor] \in Seq(Frame) /\ stack[th] \in Seq(Frame)
  BY Types
<1>2. /\ stack'[th] = <<f>> \o stack[th]
      /\ \A uh \in Threads : uh # th => stack'[uh] = stack[uh]
  BY <1>1 DEF Pushed
<1>3. CASE th = Executor
  <2> DEFINE s == stack[th]
             r == <<f>> \o s
  <2>1. s \in Seq(Frame) /\ Nest(s, ph) /\ NoBeginner(ph) /\ (s # <<>> \/ ~Threaded)
    BY <1>1, <1>3 DEF NestAt
  <2>2. stack[Executor] = s /\ stack'[Executor] = r
    BY <1>2, <1>3
  <2> HIDE DEF s
  <2>3. Nest(r, ph) /\ \A t, u : Above(s, t, u) => Above(r, t, u)
    BY <2>1, NestPushed
  <2> HIDE DEF r
  <2>4. \A uh \in Threads : uh # Executor => stack'[uh] = stack[uh]
    BY <1>2, <1>3
  <2> QED  BY <2>2, <2>3, <2>4 DEF NestAt
<1>4. CASE th # Executor
  <2>1. stack'[Executor] = stack[Executor]
    BY <1>1, <1>2, <1>4
  <2>2. ASSUME NEW uh \in Threads, uh # Executor, NEW i \in 1 .. Len(stack'[uh])
        PROVE  stack'[uh][i].at # "exec"
    <3>1. CASE uh = th /\ i = 1
      BY <1>1, <1>2, <3>1, ConsElements
    <3>2. CASE uh = th /\ i # 1
      <4>1. i - 1 \in 1 .. Len(stack[th]) /\ stack'[th][i] = stack[th][i - 1]
        BY <1>1, <1>2, <2>2, <3>2, ConsElements
      <4> QED  BY <1>4, <3>2, <4>1 DEF NestAt
    <3>3. CASE uh # th
      BY <1>2, <2>2, <3>3 DEF NestAt
    <3> QED  BY <3>1, <3>2, <3>3
  <2> QED  BY <2>1, <2>2 DEF NestAt
<1> QED  BY <1>3, <1>4

\* A thread leaves a frame that is no task's.
LEMMA PoppedNests ==
    ASSUME TypeOK, NEW ph \in [Tasks -> Phases], NestAt(stack, ph), NEW th \in Threads,
           ~Idle(th), ~At(th, "exec"), Return(th)
    PROVE  /\ NestAt(stack', ph)
           /\ \A t, u \in Tasks : Above(stack[Executor], t, u) /\ ph[t] \in Live =>
                                      Above(stack'[Executor], t, u)
<1>1. /\ stack \in [Threads -> Seq(Frame)] /\ Executor \in Threads
      /\ stack[Executor] \in Seq(Frame) /\ stack[th] \in Seq(Frame) /\ stack[th] # <<>>
  BY Types DEF Idle
<1>2. /\ stack'[th] = Tail(stack[th])
      /\ \A uh \in Threads : uh # th => stack'[uh] = stack[uh]
  BY <1>1 DEF Return
<1>3. /\ stack[th][1].at # "exec"
      /\ \A i \in 1 .. Len(Tail(stack[th])) :
            i + 1 \in 1 .. Len(stack[th]) /\ Tail(stack[th])[i] = stack[th][i + 1]
  BY <1>1, TailElements DEF At
<1>4. CASE th = Executor
  <2> DEFINE s == stack[th]
  <2>1. s \in Seq(Frame) /\ s # <<>> /\ s[1].at # "exec" /\ Nest(s, ph)
    BY <1>1, <1>3, <1>4 DEF NestAt
  <2> HIDE DEF s
  <2>2. /\ Nest(Tail(s), ph)
        /\ \A t, u \in Tasks : Above(s, t, u) /\ ph[t] \in Live => Above(Tail(s), t, u)
    BY <2>1, NestPopped
  <2> QED  BY <1>2, <1>4, <2>2 DEF NestAt, s
<1>5. CASE th # Executor
  <2>1. stack'[Executor] = stack[Executor]
    BY <1>1, <1>2, <1>5
  <2>2. ASSUME NEW uh \in Threads, uh # Executor, NEW i \in 1 .. Len(stack'[uh])
        PROVE  stack'[uh][i].at # "exec"
    <3>0. \A j \in 1 .. Len(stack[uh]) : stack[uh][j].at # "exec"
      BY <2>2 DEF NestAt
    <3>1. CASE uh = th
      <4>1. i + 1 \in 1 .. Len(stack[th]) /\ stack'[th][i] = stack[th][i + 1]
        BY <1>2, <1>3, <3>1
      <4> QED  BY <3>0, <3>1, <4>1
    <3>2. CASE uh # th
      <4>1. stack'[uh] = stack[uh]
        BY <1>2, <3>2
      <4> QED  BY <3>0, <4>1
    <3> QED  BY <3>1, <3>2
  <2> QED  BY <2>1, <2>2 DEF NestAt
<1> QED  BY <1>4, <1>5

\* The executing thread sends a callback or begins it.
LEMMA SpeakerNests ==
    ASSUME TypeOK, NEW ph \in [Tasks -> Phases], NestAt(stack, ph), NoBeginner(ph),
           NEW k \in Kinds, NEW t \in Tasks, stack[Executor] # <<>>,
           CallFromMainThread(Executor, k, t)
    PROVE  /\ NestAt(stack', ph)
           /\ \A v, u : Above(stack[Executor], v, u) => Above(stack'[Executor], v, u)
<1>1. CASE Inline(Executor)
  <2> DEFINE f == [at |-> k, task |-> t]
  <2>1. stack' = Pushed(stack, Executor, f)
    BY <1>1 DEF CallFromMainThread, BeginCallback, Enter, Entered, Pushed
  <2>2. f \in Frame /\ f.at # "exec"
    BY DEF Frame, Kinds
  <2>3. Executor \in Threads
    BY Types
  <2> HIDE DEF f
  <2> QED  BY <2>1, <2>2, <2>3, PushedNests
<1>2. CASE ~Inline(Executor)
  <2>1. stack' = stack
    BY <1>2 DEF CallFromMainThread
  <2> QED  BY <2>1
<1> QED  BY <1>1, <1>2

\* Such a callback goes on with the life of its task.
LEMMA SpokenInOrder ==
    ASSUME TypeOK, LifeInv, NEW th \in Threads, NEW k \in Kinds, NEW t \in Tasks,
           Inline(th) <=> ~Threaded, CallFromMainThread(th, k, t),
           Serving => \/ k = "started" /\ Unheard(callbackQueue, delivered, t)
                      \/ k # "started" /\ Speaking(callbackQueue, delivered, t)
    PROVE  /\ InOrder(delivered')
           /\ ~Threaded => callbackQueue' = <<>>
           /\ Serving =>
                /\ GoesOnWell(callbackQueue', delivered')
                /\ \A u \in Tasks : u # t /\ Unheard(callbackQueue, delivered, u) =>
                                        Unheard(callbackQueue', delivered', u)
                /\ \A u \in Tasks : u # t /\ Speaking(callbackQueue, delivered, u) =>
                                        Speaking(callbackQueue', delivered', u)
                /\ k \notin Finals => Speaking(callbackQueue', delivered', t)
<1> DEFINE c == [kind |-> k, task |-> t]
           cq == callbackQueue
           r == Append(cq, c)
<1>1. c \in Callback /\ c.kind = k /\ c.task = t
  BY DEF Callback
<1>2. cq \in Seq(Callback) /\ delivered \in Deliveries
  BY Types
<1>3. r \in Seq(Callback)
  BY <1>1, <1>2, AppendElements
<1>4. ~Inline(th) => callbackQueue' = r /\ delivered' = delivered
  BY DEF CallFromMainThread, QueuedCallback
<1>5. Inline(th) => /\ callbackQueue' = cq /\ cq = <<>>
                    /\ delivered' = Delivery(delivered, c)
  BY DEF CallFromMainThread, BeginCallback, Delivery, LifeInv
<1>6. cq = <<>> => r # <<>> /\ Head(r) = c /\ Tail(r) = <<>>
  BY <1>1
<1> HIDE DEF c, r
<1>7. ASSUME Serving
      PROVE  /\ GoesOnWell(r, delivered)
             /\ \A u \in Tasks : u # t /\ Unheard(cq, delivered, u) => Unheard(r, delivered, u)
             /\ \A u \in Tasks : u # t /\ Speaking(cq, delivered, u) => Speaking(r, delivered, u)
             /\ k \notin Finals => Speaking(r, delivered, t)
  <2>1. GoesOnWell(cq, delivered)
    BY <1>7 DEF LifeInv
  <2> QED  BY <1>1, <1>2, <1>7, <2>1, CallbackQueued DEF r
<1>8. CASE ~Inline(th)
  BY <1>4, <1>7, <1>8 DEF LifeInv
<1>9. CASE Inline(th)
  <2>1. ~Threaded /\ Serving
    BY <1>9 DEF Serving
  <2>2. GoesOnWell(r, delivered) /\ InOrder(delivered) /\ r # <<>>
    BY <1>5, <1>6, <1>7, <1>9, <2>1 DEF LifeInv
  <2>3. /\ GoesOnWell(Tail(r), Delivery(delivered, Head(r)))
        /\ InOrder(Delivery(delivered, Head(r)))
        /\ \A u \in Tasks : Unheard(r, delivered, u) =>
                                Unheard(Tail(r), Delivery(delivered, Head(r)), u)
        /\ \A u \in Tasks : Speaking(r, delivered, u) =>
                                Speaking(Tail(r), Delivery(delivered, Head(r)), u)
    BY <1>2, <1>3, <2>2, CallbackDelivered
  <2>4. /\ callbackQueue' = Tail(r) /\ delivered' = Delivery(delivered, Head(r))
        /\ callbackQueue' = <<>>
    BY <1>5, <1>6, <1>9
  <2> QED  BY <1>7, <2>1, <2>3, <2>4
<1> QED  BY <1>8, <1>9

\* What a step keeps of the handlers when it leaves them alone.
LEMMA HandlersStay ==
    ASSUME TypeOK, HandlerInv, NestStep, handlers' = handlers, count' = count,
           shutDown' = shutDown,
           \A t \in Tasks : phase[t] \in Live <=> phase'[t] \in Live,
           \A t \in Tasks : phase'[t] \in Running => phase[t] \in Running
    PROVE  HandlerInv'
<1>1. Handled(handlers, stack'[Executor], phase')
  <2>1. handlers \in HandlersOf
    BY Types
  <2>2. \A i \in 1 .. Len(handlers) : handlers[i] # NullTask => phase'[handlers[i]] \in Live
    BY <2>1 DEF HandlerInv, Handled, HandlersOf
  <2> QED  BY <2>1, <2>2, HandledKept DEF HandlerInv, NestStep
<1>2. Mirrored(handlers, phase) => Mirrored(handlers, phase')
  BY DEF Mirrored
<1>3. Executor' = Executor
  BY DEF Executor
<1> QED  BY <1>1, <1>2, <1>3 DEF HandlerInv

\* What a step keeps of the callbacks when it leaves them alone.
LEMMA LifeStays ==
    ASSUME LifeInv, callbackQueue' = callbackQueue, delivered' = delivered,
           shutDown \/ ~shutDown, shutDown => shutDown',
           \A t \in Tasks : phase'[t] \in Early => phase[t] \in Early,
           \A t \in Tasks \ SimpleTasks : phase'[t] = "body" => phase[t] = "body"
    PROVE  LifeInv'
<1>1. Serving' => Serving
  BY DEF Serving
<1> QED  BY <1>1 DEF LifeInv

-----------------------------------------------------------------------------
(* The actions preserve the second invariant *)

LEMMA NewPhase ==
    ASSUME TypeOK, NEW t \in Tasks, NEW q \in Phases, SetPhase(t, q)
    PROVE  /\ phase' \in [Tasks -> Phases] /\ phase'[t] = q
           /\ \A u \in Tasks : u # t => phase'[u] = phase[u]
  BY DEF TypeOK, SetPhase

\* Something else than a task is innermost.
LEMMA NoBeginnerThen ==
    ASSUME TypeOK, NestAt(stack, phase), ~At(Executor, "exec")
    PROVE  NoBeginner(phase)
<1> DEFINE s == stack[Executor]
<1>1. s \in Seq(Frame) /\ phase \in [Tasks -> Phases] /\ Nest(s, phase)
  BY Types DEF NestAt
<1>2. s = <<>> \/ s[1].at # "exec"
  BY <1>1, TailElements DEF At, Idle
<1> HIDE DEF s
<1> QED  BY <1>1, <1>2, OthersOnTop

\* The innermost task goes on.
LEMMA GoesOnNested ==
    ASSUME TypeOK, NestAt(stack, phase), NEW t \in Tasks, stack[Executor][1] = ExecFrame(t),
           phase[t] \in ExecPhases, NEW q \in ExecPhases \ {"picked"}, SetPhase(t, q)
    PROVE  /\ NestAt(stack, phase')
           /\ q # "prepared" => NoBeginner(phase')
<1> DEFINE s == stack[Executor]
<1>1. s \in Seq(Frame) /\ phase \in [Tasks -> Phases] /\ Nest(s, phase)
  BY Types DEF NestAt
<1>2. q \in Phases
  BY DEF ExecPhases, Phases
<1>3. /\ phase' \in [Tasks -> Phases] /\ phase'[t] = q
      /\ \A u \in Tasks : u # t => phase'[u] = phase[u]
  BY <1>2, NewPhase
<1>4. s[1] = ExecFrame(t) /\ s[1].at = "exec" /\ s[1].task = t
  BY ExecFrames
<1> HIDE DEF s
<1>5. Nest(s, phase')
  BY <1>1, <1>3, <1>4, NestContinued
<1>6. q # "prepared" => NoBeginner(phase')
  BY <1>1, <1>3, <1>4, <1>5, OthersOnTop
<1> QED  BY <1>5, <1>6 DEF NestAt, s

\* A task's outcome has been told.
LEMMA Signalled ==
    ASSUME TypeOK, NestAt(stack, phase), NEW t \in Tasks, phase[t] = "finishing",
           SetPhase(t, "leaving")
    PROVE  /\ NestAt(stack, phase') /\ phase' \in [Tasks -> Phases]
           /\ \A u \in Tasks : phase[u] \in Live <=> phase'[u] \in Live
           /\ \A u \in Tasks : phase'[u] \in Running => phase[u] \in Running
           /\ \A u \in Tasks : phase'[u] \in Early => phase[u] \in Early
           /\ \A u \in Tasks : phase'[u] = "body" => phase[u] = "body"
<1> DEFINE s == stack[Executor]
<1>1. s \in Seq(Frame) /\ phase \in [Tasks -> Phases] /\ Nest(s, phase)
  BY Types DEF NestAt
<1>2. /\ phase' \in [Tasks -> Phases] /\ phase'[t] = "leaving"
      /\ \A u \in Tasks : u # t => phase'[u] = phase[u]
  BY NewPhase DEF Phases
<1> HIDE DEF s
<1>3. Nest(s, phase')
  <2>1. phase[t] \in ExecPhases /\ phase'[t] \in ExecPhases
    BY <1>2 DEF ExecPhases
  <2> QED  BY <1>1, <1>2, <2>1, NestContinued
<1> QED  BY <1>2, <1>3 DEF NestAt, s, Live, Running, Early

\* The innermost task leaves.
LEMMA LeavesNest ==
    ASSUME TypeOK, NestAt(stack, phase), NEW th \in Threads, NEW t \in Tasks,
           Executing(th, t, phase[t]), phase[t] # "prepared",
           NEW q \in Phases \ ExecPhases, SetPhase(t, q), Return(th)
    PROVE  NestStep
<1> DEFINE s == stack[Executor]
<1>1. s \in Seq(Frame) /\ phase \in [Tasks -> Phases] /\ Nest(s, phase)
  BY Types DEF NestAt
<1>2. /\ phase' \in [Tasks -> Phases] /\ phase'[t] = q
      /\ \A u \in Tasks : u # t => phase'[u] = phase[u]
  BY NewPhase
<1>3. th = Executor /\ s # <<>> /\ s[1] = ExecFrame(t)
  BY Innermost
<1>4. /\ stack'[Executor] = Tail(s)
      /\ \A uh \in Threads : uh # Executor => stack'[uh] = stack[uh]
  BY <1>3, Types DEF Return
<1> HIDE DEF s
<1>5. /\ Nest(Tail(s), phase')
      /\ \A v, u \in Tasks : Above(s, v, u) /\ phase'[v] \in Live => Above(Tail(s), v, u)
  BY <1>1, <1>2, <1>3, NestPopped
<1> QED  BY <1>4, <1>5 DEF NestStep, NestAt, s

LEMMA FlushBeginOrder ==
    ASSUME IInv, OrderInv, NEW th \in Threads, FlushBegin(th)
    PROVE  OrderInv'
<1> DEFINE f == [at |-> "flush", task |-> NullTask]
<1>1. /\ stack' = Pushed(stack, th, f)
      /\ UNCHANGED <<callbackQueue, shutDown, alive, phase, handlers, count, delivered>>
  BY DEF FlushBegin, Enter, Entered, Pushed, taskVars
<1>2. f \in Frame /\ f.at # "exec"
  BY DEF Frame
<1>3. TypeOK /\ NestAt(stack, phase) /\ HandlerInv /\ LifeInv /\ phase \in [Tasks -> Phases]
  BY DEF IInv, OrderInv, TypeOK
<1>4. /\ ~At(th, "exec")
      /\ stack[th] # <<>> \/ th = "main"
  BY DEF FlushBegin, At, Idle
<1>5. th = Executor => NoBeginner(phase) /\ (stack[th] # <<>> \/ ~Threaded)
  BY <1>3, <1>4, NoBeginnerThen DEF Executor
<1> HIDE DEF f
<1>6. NestStep
  BY <1>1, <1>2, <1>3, <1>5, PushedNests DEF NestStep
<1>7. HandlerInv'
  BY <1>1, <1>3, <1>6, HandlersStay
<1>8. LifeInv'
  BY <1>1, <1>3, LifeStays
<1> QED  BY <1>1, <1>6, <1>7, <1>8 DEF OrderInv, NestStep

LEMMA FlushStepOrder ==
    ASSUME IInv, OrderInv, NEW th \in Threads, FlushStep(th)
    PROVE  OrderInv'
<1> DEFINE c == Head(callbackQueue)
           cq == callbackQueue
<1>1. /\ callbackQueue # <<>> /\ callbackQueue' = Tail(callbackQueue)
      /\ UNCHANGED <<shutDown, alive, handlers, count>>
      /\ At(th, "flush")
  BY DEF FlushStep
<1>2. TypeOK /\ NestAt(stack, phase) /\ HandlerInv /\ LifeInv
  BY DEF IInv, OrderInv
<1>3. phase \in [Tasks -> Phases] /\ cq \in Seq(Callback) /\ delivered \in Deliveries
  BY <1>2, Types
<1>4. c \in Callback /\ PhaseOf(phase, c.kind, c.task)
  <2>1. /\ stack \in [Threads -> Seq(Frame)]
        /\ Sound(callbackQueue, stack, phase)
    BY <1>2, Types DEF IInv, Tokens
  <2> QED  BY <1>1, <1>3, <2>1, PopCallback
<1>5. c.task \in Tasks /\ c.kind \in Kinds
  BY <1>4 DEF Callback
<1>6. Threaded
  BY <1>1, <1>2 DEF LifeInv
<1>7. CASE shutDown
  <2>1. /\ stack' = stack /\ delivered' = delivered
        /\ IF c.kind = "finished" THEN SetPhase(c.task, "leaving") ELSE phase' = phase
    BY <1>7 DEF FlushStep, Signal
  <2>2. /\ NestAt(stack, phase')
        /\ \A u \in Tasks : phase[u] \in Live <=> phase'[u] \in Live
        /\ \A u \in Tasks : phase'[u] \in Running => phase[u] \in Running
    <3>1. CASE c.kind = "finished"
      <4>1. phase[c.task] = "finishing"
        BY <1>4, <3>1 DEF PhaseOf
      <4> HIDE DEF c
      <4> QED  BY <1>2, <1>5, <2>1, <3>1, <4>1, Signalled
    <3>2. CASE c.kind # "finished"
      BY <1>2, <2>1, <3>2
    <3> QED  BY <3>1, <3>2
  <2>3. NestStep
    BY <2>1, <2>2 DEF NestStep
  <2>4. HandlerInv'
    BY <1>1, <1>2, <2>2, <2>3, HandlersStay
  <2>5. LifeInv'
    BY <1>1, <1>2, <1>6, <1>7, <2>1 DEF LifeInv, Serving
  <2> QED  BY <1>1, <2>3, <2>4, <2>5 DEF OrderInv, NestStep
<1>8. CASE ~shutDown
  <2> DEFINE f == [at |-> c.kind, task |-> c.task]
  <2>1. /\ stack' = Pushed(stack, th, f)
        /\ delivered' = Delivery(delivered, c)
        /\ phase' = phase
    BY <1>8 DEF FlushStep, BeginCallback, Enter, Entered, Pushed, Delivery
  <2>2. f \in Frame /\ f.at # "exec"
    BY <1>5 DEF Frame, Kinds
  <2>3. th = Executor => NoBeginner(phase) /\ (stack[th] # <<>> \/ ~Threaded)
    BY <1>1, <1>2, NoBeginnerThen DEF At, Idle
  <2> HIDE DEF f, c
  <2>4. NestStep
    BY <1>2, <1>3, <2>1, <2>2, <2>3, PushedNests DEF NestStep
  <2>5. HandlerInv'
    BY <1>1, <1>2, <2>1, <2>4, HandlersStay
  <2>6. LifeInv'
    <3>1. Serving /\ GoesOnWell(cq, delivered) /\ InOrder(delivered)
      BY <1>2, <1>8 DEF LifeInv, Serving
    <3>2. /\ GoesOnWell(Tail(cq), Delivery(delivered, Head(cq)))
          /\ InOrder(Delivery(delivered, Head(cq)))
          /\ \A u \in Tasks : Unheard(cq, delivered, u) =>
                                  Unheard(Tail(cq), Delivery(delivered, Head(cq)), u)
          /\ \A u \in Tasks : Speaking(cq, delivered, u) =>
                                  Speaking(Tail(cq), Delivery(delivered, Head(cq)), u)
      BY <1>1, <1>3, <3>1, CallbackDelivered
    <3>3. callbackQueue' = Tail(cq) /\ delivered' = Delivery(delivered, Head(cq))
      BY <1>1, <2>1 DEF c
    <3> QED  BY <1>2, <1>6, <2>1, <3>1, <3>2, <3>3 DEF LifeInv
  <2> QED  BY <1>1, <2>4, <2>5, <2>6 DEF OrderInv, NestStep
<1> QED  BY <1>7, <1>8

LEMMA LeaveLoopOrder ==
    ASSUME IInv, OrderInv, NEW th \in Threads,
           FlushEnd(th) \/ WaitReturn(th) \/ (th = "main" /\ ShutdownReturns)
    PROVE  OrderInv'
<1>1. /\ ~Idle(th) /\ ~At(th, "exec") /\ Return(th)
      /\ UNCHANGED <<callbackQueue, shutDown, alive, phase, handlers, count, delivered>>
  BY DEF FlushEnd, WaitReturn, ShutdownReturns, At, taskVars
<1>2. TypeOK /\ NestAt(stack, phase) /\ HandlerInv /\ LifeInv /\ phase \in [Tasks -> Phases]
  BY DEF IInv, OrderInv, TypeOK
<1>3. NestStep
  BY <1>1, <1>2, PoppedNests DEF NestStep
<1>4. HandlerInv'
  BY <1>1, <1>2, <1>3, HandlersStay
<1>5. LifeInv'
  BY <1>1, <1>2, LifeStays
<1> QED  BY <1>1, <1>3, <1>4, <1>5 DEF OrderInv, NestStep

LEMMA EndCallbackOrder ==
    ASSUME IInv, OrderInv, NEW th \in Threads, EndCallback(th)
    PROVE  OrderInv'
<1> DEFINE t == TopTask(th)
<1>1. /\ ~Idle(th) /\ ~At(th, "exec") /\ Return(th)
      /\ UNCHANGED <<callbackQueue, shutDown, alive, handlers, count, delivered>>
      /\ IF At(th, "finished") THEN SetPhase(t, "leaving") ELSE phase' = phase
  BY DEF EndCallback, InHandler, At, Kinds, Signal
<1>2. TypeOK /\ NestAt(stack, phase) /\ HandlerInv /\ LifeInv /\ phase \in [Tasks -> Phases]
  BY DEF IInv, OrderInv, TypeOK
<1>3. At(th, "finished") => t \in Tasks /\ phase[t] = "finishing"
  <2> SUFFICES ASSUME At(th, "finished") PROVE t \in Tasks /\ phase[t] = "finishing"
    OBVIOUS
  <2>1. /\ stack[th] \in Seq(Frame) /\ stack[th] # <<>>
        /\ StackPhases(stack, phase)
    BY <1>1, <1>2, Types DEF Idle, IInv, Tokens, Sound
  <2>2. Head(stack[th]) = stack[th][1] /\ 1 \in 1 .. Len(stack[th])
    BY <2>1, TailElements
  <2>3. PhaseOf(phase, stack[th][1].at, stack[th][1].task)
    BY <2>1, <2>2 DEF StackPhases
  <2> QED  BY <2>2, <2>3 DEF At, TopTask, PhaseOf
<1> HIDE DEF t
<1>4. /\ NestAt(stack, phase') /\ phase' \in [Tasks -> Phases]
      /\ \A u \in Tasks : phase[u] \in Live <=> phase'[u] \in Live
      /\ \A u \in Tasks : phase'[u] \in Running => phase[u] \in Running
      /\ \A u \in Tasks : phase'[u] \in Early => phase[u] \in Early
      /\ \A u \in Tasks : phase'[u] = "body" => phase[u] = "body"
  <2>1. CASE At(th, "finished")
    BY <1>1, <1>2, <1>3, <2>1, Signalled
  <2>2. CASE ~At(th, "finished")
    BY <1>1, <1>2, <2>2
  <2> QED  BY <2>1, <2>2
<1>5. NestStep
  BY <1>1, <1>2, <1>4, PoppedNests DEF NestStep
<1>6. HandlerInv'
  BY <1>1, <1>2, <1>4, <1>5, HandlersStay
<1>7. LifeInv'
  BY <1>1, <1>2, <1>4, LifeStays
<1> QED  BY <1>1, <1>5, <1>6, <1>7 DEF OrderInv, NestStep

\* Nothing of all this changes.
LEMMA StillOrder ==
    ASSUME IInv, OrderInv, (\E th \in Threads, t \in Tasks : CancelTask(th, t)) \/ PickNullTask
    PROVE  OrderInv'
<1>1. /\ UNCHANGED <<callbackQueue, shutDown, stack, phase, handlers, count, delivered>>
      /\ alive' => alive
  BY DEF CancelTask, PickNullTask, taskVars
<1>2. NestAt(stack', phase')
  BY <1>1 DEF OrderInv
<1>3. HandlerInv'
  BY <1>1 DEF OrderInv, HandlerInv, Executor
<1>4. LifeInv'
  BY <1>1 DEF OrderInv, LifeInv, Serving
<1> QED  BY <1>1, <1>2, <1>3, <1>4 DEF OrderInv

LEMMA LeaveOrder ==
    ASSUME IInv, OrderInv, NEW th \in Threads, NEW t \in Tasks,
           LeaveTask(th, t) \/ (th = "worker" /\ SkipTask(t))
    PROVE  OrderInv'
<1>1. TypeOK /\ NestAt(stack, phase) /\ HandlerInv /\ LifeInv /\ phase \in [Tasks -> Phases]
  BY DEF IInv, OrderInv, TypeOK
<1>2. PICK q \in {"ended", "skipped"} :
          /\ Executing(th, t, phase[t]) /\ phase[t] \in {"picked", "leaving"}
          /\ q = "ended" <=> phase[t] = "leaving"
          /\ SetPhase(t, q) /\ Return(th)
          /\ UNCHANGED <<callbackQueue, shutDown, alive, handlers, count, delivered>>
  BY DEF LeaveTask, SkipTask, Executing
<1>3. q \in Phases \ ExecPhases
  BY DEF Phases, ExecPhases
<1>4. NestStep
  BY <1>1, <1>2, <1>3, LeavesNest
<1>5. /\ phase' \in [Tasks -> Phases] /\ phase'[t] = q
      /\ \A u \in Tasks : u # t => phase'[u] = phase[u]
  BY <1>1, <1>2, <1>3, NewPhase
<1>6. HandlerInv'
  BY <1>1, <1>2, <1>4, <1>5, HandlersStay DEF Live, Running
<1>7. LifeInv'
  BY <1>1, <1>2, <1>5, LifeStays DEF Early
<1> QED  BY <1>2, <1>4, <1>6, <1>7 DEF OrderInv, NestStep

\* The worker takes a task from the queue.
LEMMA PickTaskOrder ==
    ASSUME IInv, OrderInv, PickTask
    PROVE  OrderInv'
<1> DEFINE t == Head(taskQueue)
           s == stack[Executor]
<1>1. TypeOK /\ NestAt(stack, phase) /\ HandlerInv /\ LifeInv /\ phase \in [Tasks -> Phases]
      /\ taskQueue \in Seq(Tasks \cup {NullTask}) /\ TaskQueueInv
  BY DEF IInv, OrderInv, TypeOK
<1>2. /\ taskQueue # <<>> /\ t # NullTask /\ stack["worker"] = <<>>
      /\ stack' = Pushed(stack, "worker", ExecFrame(t))
      /\ SetPhase(t, "picked")
      /\ Threaded
      /\ UNCHANGED <<callbackQueue, shutDown, alive, handlers, count, delivered>>
  BY DEF PickTask, Enter, Entered, Pushed, ExecFrame, OrderInv, Idle
<1>3. t \in Tasks /\ phase[t] = "queued"
  <2>1. t = taskQueue[1] /\ 1 \in 1 .. Len(taskQueue) /\ t \in Tasks \cup {NullTask}
    BY <1>1, <1>2, TailElements
  <2> QED BY <2>1, <1>1, <1>2 DEF TaskQueueInv
<1>4. Executor = "worker" /\ s = <<>> /\ s \in Seq(Frame) /\ Nest(s, phase)
  BY <1>1, <1>2, Types DEF Executor, NestAt
<1>5. NoBeginner(phase)
  BY <1>1, <1>4, OthersOnTop
<1> HIDE DEF t
<1>6. /\ phase' \in [Tasks -> Phases] /\ phase'[t] = "picked"
      /\ \A u \in Tasks : u # t => phase'[u] = phase[u]
  BY <1>1, <1>2, <1>3, NewPhase DEF Phases
<1>7. /\ stack'[Executor] = <<ExecFrame(t)>> \o s
      /\ \A uh \in Threads : uh # Executor => stack'[uh] = stack[uh]
  BY <1>1, <1>2, <1>4, Types DEF Pushed
<1> HIDE DEF s
<1>8. /\ Nest(<<ExecFrame(t)>> \o s, phase')
      /\ \A v, u : Above(s, v, u) => Above(<<ExecFrame(t)>> \o s, v, u)
  <2>1. phase[t] \notin ExecPhases
    BY <1>3 DEF ExecPhases
  <2> QED  BY <1>1, <1>2, <1>3, <1>4, <1>5, <1>6, <2>1, NestEntered
<1>9. NestStep
  BY <1>1, <1>7, <1>8 DEF NestStep, NestAt, s
<1>10. HandlerInv'
  BY <1>1, <1>2, <1>3, <1>6, <1>9, HandlersStay DEF Live, Running
<1>11. LifeInv'
  BY <1>1, <1>2, <1>3, <1>6, LifeStays DEF Early
<1> QED  BY <1>2, <1>9, <1>10, <1>11 DEF OrderInv, NestStep

\* What becomes of the handlers when a task begins to execute,
LEMMA HandlersEnter ==
    ASSUME TypeOK, HandlerInv, NestStep, NEW t \in Tasks, phase[t] \notin Live,
           SetPhase(t, "prepared"), PushHandler(t), shutDown' = shutDown,
           stack'[Executor] \in Seq(Frame), stack'[Executor] # <<>>,
           stack'[Executor][1] = ExecFrame(t),
           IsMainDispatcher /\ ~shutDown /\ Threaded => count' = 1
    PROVE  HandlerInv'
<1> DEFINE hs == handlers
           r == <<t>> \o hs
           s == stack[Executor]
           s2 == stack'[Executor]
<1>1. /\ phase' \in [Tasks -> Phases] /\ phase'[t] = "prepared"
      /\ \A u \in Tasks : u # t => phase'[u] = phase[u]
  BY NewPhase DEF Phases
<1>2. /\ hs \in HandlersOf /\ Handled(hs, s, phase)
      /\ ~IsMainDispatcher => hs = <<>>
      /\ Executor' = Executor
  BY Types DEF HandlerInv, Executor
<1>3. \A i \in 1 .. Len(hs) : hs[i] # t /\ (hs[i] # NullTask => hs[i] \in Tasks)
  <2> SUFFICES ASSUME NEW i \in 1 .. Len(hs)
               PROVE  hs[i] # t /\ (hs[i] # NullTask => hs[i] \in Tasks)
    OBVIOUS
  <2>1. hs[i] # NullTask => hs[i] \in Tasks /\ phase[hs[i]] \in Live
    BY <1>2 DEF Handled, HandlersOf
  <2> QED  BY <2>1, DispatcherAssumption
<1>4. Handled(hs, s2, phase')
  <2>1. \A i \in 1 .. Len(hs) : hs[i] # NullTask => phase'[hs[i]] \in Live
    BY <1>1, <1>2, <1>3 DEF Handled
  <2>2. \A v, u \in Tasks : Above(s, v, u) /\ phase'[v] \in Live => Above(s2, v, u)
    BY DEF NestStep
  <2> HIDE DEF hs, s, s2
  <2> QED  BY <1>2, <2>1, <2>2, HandledKept
<1>5. s2 \in Seq(Frame) /\ s2 # <<>> /\ s2[1] = ExecFrame(t) /\ Nest(s2, phase')
  BY <1>2 DEF NestStep, NestAt
<1>6. CASE IsMainDispatcher
  <2>1. handlers' = r
    BY <1>6 DEF PushHandler
  <2> HIDE DEF hs, s, s2
  <2>2. Handled(r, s2, phase')
    BY <1>1, <1>2, <1>3, <1>4, <1>5, HandlerPushed DEF Live
  <2>3. ASSUME Mirrored(hs, phase) PROVE Mirrored(r, phase')
    BY <1>1, <1>2, <2>3, MirrorPushed
  <2> HIDE DEF r
  <2> QED  BY <1>2, <1>6, <2>1, <2>2, <2>3 DEF HandlerInv, hs, s, s2
<1>7. CASE ~IsMainDispatcher
  <2>1. handlers' = hs
    BY <1>7 DEF PushHandler
  <2> QED  BY <1>2, <1>4, <1>7, <2>1 DEF HandlerInv
<1> QED  BY <1>6, <1>7

\* and to them when the innermost task's function has returned.
LEMMA HandlersReturn ==
    ASSUME TypeOK, NestAt(stack, phase), HandlerInv, NestStep, NEW t \in Tasks,
           stack[Executor] # <<>>, stack[Executor][1] = ExecFrame(t), phase[t] = "body",
           NEW q \in {"finishing", "leaving"}, SetPhase(t, q), PopHandler,
           shutDown' = shutDown, count' = count
    PROVE  HandlerInv'
<1> DEFINE hs == handlers
           r == Tail(hs)
           s == stack[Executor]
           s2 == stack'[Executor]
<1>1. /\ phase' \in [Tasks -> Phases] /\ phase'[t] = q
      /\ \A u \in Tasks : u # t => phase'[u] = phase[u]
  BY NewPhase DEF Phases
<1>2. /\ hs \in HandlersOf /\ Handled(hs, s, phase) /\ phase \in [Tasks -> Phases]
      /\ ~IsMainDispatcher => hs = <<>>
      /\ Executor' = Executor
      /\ s \in Seq(Frame) /\ s # <<>> /\ s[1] = ExecFrame(t) /\ Nest(s, phase)
  BY Types DEF HandlerInv, Executor, NestAt
<1>3. \A v, u \in Tasks : Above(s, v, u) /\ phase'[v] \in Live => Above(s2, v, u)
  BY DEF NestStep
<1>4. (\E u \in Tasks : phase'[u] \in Running) => \E u \in Tasks : phase[u] \in Running
  BY DEF Running
<1> HIDE DEF s, s2
<1>5. CASE hs = <<>>
  <2>1. handlers' = <<>>
    BY <1>5 DEF PopHandler
  <2>2. ~Mirrored(handlers, phase)
    BY <1>5 DEF Mirrored
  <2>3. Handled(<<>>, s2, phase')
    BY DEF Handled
  <2> QED  BY <1>2, <2>1, <2>2, <2>3 DEF HandlerInv, s2
<1>6. CASE hs # <<>>
  <2>1. IsMainDispatcher /\ handlers' = r
    BY <1>2, <1>6 DEF PopHandler
  <2> HIDE DEF hs
  <2>2. /\ Handled(r, s, phase)
        /\ \A i \in 1 .. Len(r) : i + 1 \in 1 .. Len(hs) /\ r[i] = hs[i + 1]
    BY <1>2, <1>6, HandlerPopped
  <2>3. \A i \in 1 .. Len(hs) : hs[i] = t => i = 1
    BY <1>2, InnermostHandler
  <2>4. r \in HandlersOf
    BY <1>2, <1>6, TailElements DEF HandlersOf
  <2>5. \A i \in 1 .. Len(r) : r[i] # NullTask => phase'[r[i]] \in Live
    <3> SUFFICES ASSUME NEW i \in 1 .. Len(r), r[i] # NullTask PROVE phase'[r[i]] \in Live
      OBVIOUS
    <3>1. i + 1 \in 1 .. Len(hs) /\ r[i] = hs[i + 1] /\ i + 1 # 1
      BY <2>2
    <3>2. r[i] # t /\ r[i] \in Tasks /\ phase[r[i]] \in Live
      BY <2>2, <2>3, <2>4, <3>1 DEF Handled, HandlersOf
    <3> QED  BY <1>1, <3>2
  <2>6. Handled(r, s2, phase')
    BY <1>3, <2>2, <2>4, <2>5, HandledKept
  <2>7. ASSUME Mirrored(hs, phase) PROVE Mirrored(r, phase')
    <3>1. \E i \in 1 .. Len(hs) : hs[i] = t
      BY <2>7 DEF Mirrored, Live
    <3>2. phase'[t] \notin Live
      BY <1>1 DEF Live
    <3> QED  BY <1>1, <1>2, <2>3, <2>7, <3>1, <3>2, MirrorPopped
  <2> HIDE DEF r
  <2> QED  BY <1>2, <1>4, <2>1, <2>6, <2>7 DEF HandlerInv, hs, s2
<1> QED  BY <1>5, <1>6

\* What a step keeps of the callbacks that sends one.
LEMMA LifeSpoken ==
    ASSUME TypeOK, LifeInv, NEW th \in Threads, NEW k \in Kinds, NEW t \in Tasks \ SimpleTasks,
           Inline(th) <=> ~Threaded, CallFromMainThread(th, k, t),
           \/ k = "started" /\ phase[t] \in Early
           \/ k # "started" /\ phase[t] = "body",
           phase'[t] \notin Early, phase'[t] = "body" => k \notin Finals,
           \A u \in Tasks : u # t => phase'[u] = phase[u],
           shutDown' = shutDown
    PROVE  LifeInv'
<1>1. Serving => \/ k = "started" /\ Unheard(callbackQueue, delivered, t)
                 \/ k # "started" /\ Speaking(callbackQueue, delivered, t)
  BY DEF LifeInv
<1>2. /\ InOrder(delivered')
      /\ ~Threaded => callbackQueue' = <<>>
      /\ Serving =>
           /\ GoesOnWell(callbackQueue', delivered')
           /\ \A u \in Tasks : u # t /\ Unheard(callbackQueue, delivered, u) =>
                                   Unheard(callbackQueue', delivered', u)
           /\ \A u \in Tasks : u # t /\ Speaking(callbackQueue, delivered, u) =>
                                   Speaking(callbackQueue', delivered', u)
           /\ k \notin Finals => Speaking(callbackQueue', delivered', t)
  BY <1>1, SpokenInOrder
<1>3. Serving' <=> Serving
  BY DEF Serving
<1> QED  BY <1>2, <1>3 DEF LifeInv

LEMMA PrepareTaskOrder ==
    ASSUME IInv, OrderInv, NEW t \in Tasks, PrepareTask(t)
    PROVE  OrderInv'
<1> DEFINE hs == handlers
           s == stack[Executor]
<1>1. TypeOK /\ NestAt(stack, phase) /\ HandlerInv /\ LifeInv /\ phase \in [Tasks -> Phases]
  BY DEF IInv, OrderInv, TypeOK
<1>2. /\ Executing("worker", t, "picked") /\ "worker" \in Threads
      /\ SetPhase(t, "prepared") /\ PushHandler(t) /\ count' = Len(handlers)
      /\ UNCHANGED <<callbackQueue, shutDown, alive, stack, delivered>>
  BY DEF PrepareTask, Threads
<1>3. /\ "worker" = Executor /\ s # <<>> /\ s[1] = ExecFrame(t) /\ phase[t] = "picked"
      /\ Executor' = Executor
  BY <1>1, <1>2, Innermost DEF Executor
<1>4. hs \in HandlersOf /\ s \in Seq(Frame) /\ Nest(s, phase) /\ Handled(hs, s, phase)
  BY <1>1, Types DEF NestAt, HandlerInv
<1>5. /\ phase' \in [Tasks -> Phases] /\ phase'[t] = "prepared"
      /\ \A u \in Tasks : u # t => phase'[u] = phase[u]
  BY <1>1, <1>2, NewPhase DEF Phases
<1>6. NestStep
  <2>1. NestAt(stack, phase')
    BY <1>1, <1>2, <1>3, GoesOnNested DEF ExecPhases
  <2> QED  BY <1>2, <2>1 DEF NestStep
\* The worker's own task is the only one: no other has a handler.
<1>7. IsMainDispatcher /\ ~shutDown /\ Threaded => count' = 1
  <2> SUFFICES ASSUME IsMainDispatcher, ~shutDown PROVE Len(hs) = 1
    BY <1>2, Zenon
  <2> SUFFICES ASSUME Len(hs) # 1 PROVE FALSE
    OBVIOUS
  <2>1. Mirrored(hs, phase)
    BY <1>1 DEF HandlerInv
  <2>2. 1 \in 1 .. Len(hs) /\ hs[1] # NullTask
    <3>1. Len(hs) \in Nat \ {0}
      BY <1>4, <2>1, TailElements DEF Mirrored, HandlersOf
    <3>2. PICK n \in Nat : n = Len(hs) /\ n # 0 /\ n # 1
      BY <3>1
    <3>3. 1 \in 1 .. n - 1 /\ 1 \in 1 .. n
      BY <3>2
    <3> QED  BY <2>1, <3>2, <3>3 DEF Mirrored
  <2>3. hs[1] \in Tasks /\ phase[hs[1]] \in Live
    BY <1>4, <2>2 DEF Handled, HandlersOf
  <2>4. PICK i \in 1 .. Len(s) : s[i] = ExecFrame(hs[1])
    BY <1>4, <2>3 DEF Nest, HaveFrames, Live, ExecPhases
  <2>5. i = 1
    BY <1>3, <1>4, <2>4 DEF Nest, Beginners
  <2>6. hs[1] = t
    BY <1>3, <2>4, <2>5, ExecFrames
  <2> QED  BY <1>3, <2>3, <2>6 DEF Live
<1>8. HandlerInv'
  <2>1. phase[t] \notin Live
    BY <1>3 DEF Live
  <2>2. stack'[Executor] \in Seq(Frame) /\ stack'[Executor] # <<>> /\ stack'[Executor][1] = ExecFrame(t)
    BY <1>2, <1>3, <1>4
  <2> QED  BY <1>1, <1>2, <1>6, <1>7, <2>1, <2>2, HandlersEnter
<1>9. LifeInv'
  BY <1>1, <1>2, <1>3, <1>5, LifeStays DEF Early
<1> QED  BY <1>2, <1>6, <1>8, <1>9, <1>1 DEF OrderInv, NestStep

\* The innermost task goes on and may send a callback.
LEMMA SpeaksNested ==
    ASSUME TypeOK, NestAt(stack, phase), NEW th \in Threads, NEW t \in Tasks, NEW p \in ExecPhases,
           Executing(th, t, p), NEW q \in ExecPhases \ {"picked", "prepared"}, SetPhase(t, q),
           stack' = stack \/ \E k \in Kinds, u \in Tasks : CallFromMainThread(th, k, u)
    PROVE  NestStep
<1>1. th = Executor /\ stack[Executor] # <<>> /\ stack[Executor][1] = ExecFrame(t)
      /\ phase[t] = p
  BY Innermost
<1>2. NestAt(stack, phase') /\ NoBeginner(phase')
  BY <1>1, GoesOnNested
<1>3. phase' \in [Tasks -> Phases]
  BY NewPhase DEF ExecPhases, Phases
<1>4. CASE stack' = stack
  BY <1>2, <1>4 DEF NestStep
<1>5. ASSUME NEW k \in Kinds, NEW u \in Tasks, CallFromMainThread(th, k, u) PROVE NestStep
  BY <1>1, <1>2, <1>3, <1>5, SpeakerNests DEF NestStep
<1> QED  BY <1>4, <1>5

LEMMA StartedOrder ==
    ASSUME IInv, OrderInv, NEW th \in Threads, NEW t \in Tasks, Started(th, t)
    PROVE  OrderInv'
<1>1. TypeOK /\ NestAt(stack, phase) /\ HandlerInv /\ LifeInv /\ phase \in [Tasks -> Phases]
  BY DEF IInv, OrderInv, TypeOK
<1>2. /\ Executing(th, t, "prepared") /\ phase[t] = "prepared" /\ SetPhase(t, "body")
      /\ UNCHANGED <<shutDown, alive, handlers, count>>
      /\ IF t \in SimpleTasks THEN UNCHANGED <<callbackQueue, stack, delivered>>
                              ELSE CallFromMainThread(th, "started", t)
  BY DEF Started, Executing
<1>3. /\ phase' \in [Tasks -> Phases] /\ phase'[t] = "body"
      /\ \A u \in Tasks : u # t => phase'[u] = phase[u]
  BY <1>1, <1>2, NewPhase DEF Phases
<1>4. NestStep
  <2>1. "started" \in Kinds /\ "prepared" \in ExecPhases
        /\ "body" \in ExecPhases \ {"picked", "prepared"}
    BY DEF Kinds, ExecPhases
  <2> QED  BY <1>1, <1>2, <2>1, SpeaksNested
<1>5. HandlerInv'
  BY <1>1, <1>2, <1>3, <1>4, HandlersStay DEF Live, Running
<1>6. LifeInv'
  <2>1. CASE t \in SimpleTasks
    BY <1>1, <1>2, <1>3, <2>1, LifeStays DEF Early
  <2>2. CASE t \notin SimpleTasks
    <3>1. "started" \in Kinds /\ phase[t] \in Early /\ phase'[t] \notin Early
          /\ "started" \notin Finals
      BY <1>2, <1>3 DEF Kinds, Early, Finals
    <3>2. Inline(th) <=> ~Threaded
      BY <1>1, <1>2, Innermost
    <3> QED  BY <1>1, <1>2, <1>3, <2>2, <3>1, <3>2, LifeSpoken
  <2> QED  BY <2>1, <2>2
<1> QED  BY <1>2, <1>4, <1>5, <1>6 DEF OrderInv, NestStep

LEMMA SendMessageOrder ==
    ASSUME IInv, OrderInv, NEW th \in Threads, NEW t \in Tasks, SendMessage(th, t)
    PROVE  OrderInv'
<1> DEFINE hs == handlers
           r == Head(hs)
           s == stack[Executor]
<1>1. TypeOK /\ NestAt(stack, phase) /\ HandlerInv /\ LifeInv /\ phase \in [Tasks -> Phases]
  BY DEF IInv, OrderInv, TypeOK
<1>2. /\ Executing(th, t, "body") /\ phase[t] = "body" /\ hs # <<>> /\ r \in Tasks \ SimpleTasks
      /\ CallFromMainThread(th, "message", r)
      /\ UNCHANGED <<shutDown, alive, phase, handlers, count>>
  BY DEF SendMessage, Executing
<1>3. th = Executor /\ s # <<>> /\ s[1] = ExecFrame(t) /\ (Inline(th) <=> ~Threaded)
  BY <1>1, <1>2, Innermost
<1>4. hs \in HandlersOf /\ s \in Seq(Frame) /\ Nest(s, phase) /\ Handled(hs, s, phase)
  BY <1>1, Types DEF NestAt, HandlerInv
<1>5. "message" \in Kinds /\ "message" \notin Finals
  BY DEF Kinds, Finals
\* The receiver's function is being executed.
<1>6. phase[r] = "body"
  <2>1. r = hs[1] /\ 1 \in 1 .. Len(hs) /\ r # NullTask
    BY <1>2, <1>4, DispatcherAssumption, TailElements DEF HandlersOf
  <2>2. phase[r] \in Live
    BY <1>4, <2>1 DEF Handled
  <2>3. ASSUME phase[r] = "prepared" PROVE FALSE
    <3>1. s[1] = ExecFrame(r)
      BY <1>2, <1>4, <2>3 DEF Nest, Beginners
    <3>2. r = t
      BY <1>3, <3>1, ExecFrames
    <3> QED  BY <1>2, <2>3, <3>2
  <2> QED  BY <2>2, <2>3 DEF Live
<1>7. NestStep
  <2>1. NoBeginner(phase)
    <3>1. s[1].task = t
      BY <1>3, ExecFrames
    <3> HIDE DEF s
    <3> QED  BY <1>1, <1>2, <1>4, <3>1, OthersOnTop
  <2> HIDE DEF r
  <2>2. stack[Executor] # <<>>
    BY <1>3
  <2> QED  BY <1>1, <1>2, <1>3, <1>5, <2>1, <2>2, SpeakerNests DEF NestStep
<1>8. HandlerInv'
  BY <1>1, <1>2, <1>7, HandlersStay
<1>9. LifeInv'
  <2>1. phase'[r] \notin Early
    BY <1>2, <1>6 DEF Early
  <2> HIDE DEF r
  <2> QED  BY <1>1, <1>2, <1>3, <1>5, <1>6, <2>1, LifeSpoken
<1> QED  BY <1>2, <1>7, <1>8, <1>9, <1>1 DEF OrderInv, NestStep

LEMMA ExecuteEndsOrder ==
    ASSUME IInv, OrderInv, NEW th \in Threads, NEW t \in Tasks,
           (\E failure \in BOOLEAN : ExecuteReturns(th, t, failure)) \/ ExecuteThrows(th, t)
    PROVE  OrderInv'
<1>1. TypeOK /\ NestAt(stack, phase) /\ HandlerInv /\ LifeInv /\ phase \in [Tasks -> Phases]
  BY DEF IInv, OrderInv, TypeOK
<1>2. PICK q \in {"finishing", "leaving"}, k \in Finals :
          /\ Executing(th, t, "body") /\ phase[t] = "body" /\ SetPhase(t, q) /\ PopHandler
          /\ UNCHANGED <<shutDown, alive, count>>
          /\ IF t \in SimpleTasks THEN UNCHANGED <<callbackQueue, stack, delivered>>
                                  ELSE CallFromMainThread(th, k, t)
  BY DEF ExecuteReturns, ExecuteThrows, Executing, Finals
<1>3. /\ phase' \in [Tasks -> Phases] /\ phase'[t] = q
      /\ \A u \in Tasks : u # t => phase'[u] = phase[u]
  BY <1>1, <1>2, NewPhase DEF Phases
<1>4. /\ k \in Kinds /\ k # "started" /\ "body" \in ExecPhases
      /\ q \in ExecPhases \ {"picked", "prepared"}
  BY DEF Kinds, Finals, ExecPhases
<1>5. NestStep
  BY <1>1, <1>2, <1>4, SpeaksNested
<1>6. HandlerInv'
  <2>1. stack[Executor] # <<>> /\ stack[Executor][1] = ExecFrame(t)
    BY <1>1, <1>2, Innermost
  <2> QED  BY <1>1, <1>2, <1>5, <2>1, HandlersReturn
<1>7. LifeInv'
  <2>1. CASE t \in SimpleTasks
    BY <1>1, <1>2, <1>3, <2>1, LifeStays DEF Early
  <2>2. CASE t \notin SimpleTasks
    <3>1. phase'[t] \notin Early /\ phase'[t] # "body"
      BY <1>3 DEF Early
    <3>2. Inline(th) <=> ~Threaded
      BY <1>1, <1>2, Innermost
    <3> QED  BY <1>1, <1>2, <1>3, <1>4, <2>2, <3>1, <3>2, LifeSpoken
  <2> QED  BY <2>1, <2>2
<1> QED  BY <1>2, <1>5, <1>6, <1>7, <1>1 DEF OrderInv, NestStep

LEMMA ShutdownOrder ==
    ASSUME IInv, OrderInv, Shutdown
    PROVE  OrderInv'
<1> DEFINE hs == handlers
           f == [at |-> "join", task |-> NullTask]
<1>1. TypeOK /\ NestAt(stack, phase) /\ HandlerInv /\ LifeInv /\ phase \in [Tasks -> Phases]
  BY DEF IInv, OrderInv, TypeOK
<1>2. /\ shutDown' = TRUE /\ ~shutDown /\ PopHandler
      /\ IF Threaded THEN stack' = Pushed(stack, "main", f) ELSE stack' = stack
      /\ UNCHANGED <<callbackQueue, alive, phase, count, delivered>>
  BY DEF Shutdown, taskVars, Enter, Entered, Pushed
<1>3. NestStep
  <2>1. CASE Threaded
    <3>1. f \in Frame /\ f.at # "exec" /\ "main" \in Threads /\ "main" # Executor
      BY <2>1 DEF Frame, Threads, Executor
    <3> HIDE DEF f
    <3> QED  BY <1>1, <1>2, <2>1, <3>1, PushedNests DEF NestStep
  <2>2. CASE ~Threaded
    BY <1>1, <1>2, <2>2 DEF NestStep
  <2> QED  BY <2>1, <2>2
<1>4. HandlerInv'
  <2>1. hs \in HandlersOf /\ Handled(hs, stack[Executor], phase)
    BY <1>1, Types DEF HandlerInv
  <2>2. \A v, u \in Tasks : Above(stack[Executor], v, u) /\ phase'[v] \in Live =>
                                Above(stack'[Executor], v, u)
    BY <1>3 DEF NestStep
  <2>3. Handled(hs, stack'[Executor], phase')
    <3>1. \A i \in 1 .. Len(hs) : hs[i] # NullTask => phase'[hs[i]] \in Live
      BY <1>2, <2>1 DEF Handled
    <3> HIDE DEF hs
    <3> QED  BY <2>1, <2>2, <3>1, HandledKept
  <2>4. Handled(handlers', stack'[Executor], phase')
    <3>1. CASE handlers' = hs
      BY <2>3, <3>1
    <3>2. CASE handlers' # hs
      <4>1. hs # <<>> /\ handlers' = Tail(hs)
        BY <1>2, <3>2 DEF PopHandler
      <4> HIDE DEF hs
      <4> QED  BY <2>1, <2>3, <4>1, HandlerPopped
    <3> QED  BY <3>1, <3>2
  <2>5. ~IsMainDispatcher => handlers' = <<>>
    BY <1>1, <1>2 DEF HandlerInv, PopHandler
  <2>6. Executor' = Executor
    BY DEF Executor
  <2> QED  BY <1>2, <2>4, <2>5, <2>6 DEF HandlerInv
<1>5. LifeInv'
  BY <1>1, <1>2, LifeStays
<1> QED  BY <1>1, <1>2, <1>3, <1>4, <1>5 DEF OrderInv, NestStep

\* A client queues a task for the worker.
LEMMA QueuedOrder ==
    ASSUME IInv, OrderInv, NEW t \in Tasks, NEW below \in {<<>>, <<WaitFrame(t)>>},
           Threaded, Submit("main", t, below)
    PROVE  OrderInv'
<1>1. TypeOK /\ NestAt(stack, phase) /\ HandlerInv /\ LifeInv /\ phase \in [Tasks -> Phases]
      /\ stack \in [Threads -> Seq(Frame)]
  BY DEF IInv, OrderInv, TypeOK
<1>2. /\ phase[t] = "new" /\ SetPhase(t, "queued")
      /\ stack' = [stack EXCEPT !["main"] = below \o @]
      /\ UNCHANGED <<callbackQueue, shutDown, alive, handlers, count, delivered>>
  BY DEF Submit
<1>3. /\ phase' \in [Tasks -> Phases] /\ phase'[t] = "queued"
      /\ \A u \in Tasks : u # t => phase'[u] = phase[u]
  BY <1>1, <1>2, NewPhase DEF Phases
<1>4. "main" \in Threads /\ "main" # Executor
  BY DEF Threads, Executor
<1>5. NestAt(stack, phase')
  <2> DEFINE s == stack[Executor]
  <2>1. s \in Seq(Frame) /\ Nest(s, phase)
    BY <1>1, Types DEF NestAt
  <2>2. /\ phase[t] \in ExecPhases <=> phase'[t] \in ExecPhases
        /\ phase'[t] # "picked" /\ phase'[t] # "prepared"
    BY <1>2, <1>3 DEF ExecPhases
  <2> HIDE DEF s
  <2>3. Nest(s, phase')
    BY <1>1, <1>3, <2>1, <2>2, NestContinued
  <2> QED  BY <1>1, <2>3 DEF NestAt, s
<1>6. NestStep
  <2>1. CASE below = <<>>
    <3>1. below \o stack["main"] = stack["main"]
      BY <1>1, <1>4, <2>1
    <3>2. stack' = stack
      BY <1>1, <1>2, <3>1
    <3> QED  BY <1>5, <3>2 DEF NestStep
  <2>2. CASE below = <<WaitFrame(t)>>
    <3>1. stack' = Pushed(stack, "main", WaitFrame(t))
      BY <1>2, <2>2 DEF Pushed
    <3>2. WaitFrame(t) \in Frame /\ WaitFrame(t).at # "exec"
      BY DEF WaitFrame, Frame
    <3> QED  BY <1>1, <1>3, <1>4, <1>5, <3>1, <3>2, PushedNests DEF NestStep
  <2> QED  BY <2>1, <2>2
<1>7. HandlerInv'
  BY <1>1, <1>2, <1>3, <1>6, HandlersStay DEF Live, Running
<1>8. LifeInv'
  BY <1>1, <1>2, <1>3, LifeStays DEF Early
<1> QED  BY <1>1, <1>2, <1>6, <1>7, <1>8 DEF OrderInv, NestStep

\* The worker's stack in a dispatcher without threads.
NoWorker == ~Threaded => stack["worker"] = <<>>

\* A client executes a task at once.
LEMMA NestedOrder ==
    ASSUME IInv, OrderInv, NoWorker, NEW th \in Threads, NEW t \in Tasks,
           NEW below \in {<<>>, <<WaitFrame(t)>>}, ClientOn(th, Kinds),
           ~(Threaded /\ th = "main"), Submit(th, t, below)
    PROVE  OrderInv'
<1> DEFINE s == stack[Executor]
           s1 == below \o s
           s2 == <<ExecFrame(t)>> \o s1
<1>1. TypeOK /\ NestAt(stack, phase) /\ HandlerInv /\ LifeInv /\ phase \in [Tasks -> Phases]
      /\ stack \in [Threads -> Seq(Frame)]
  BY DEF IInv, OrderInv, TypeOK
<1>2. /\ phase[t] = "new" /\ SetPhase(t, "prepared") /\ PushHandler(t)
      /\ stack' = [stack EXCEPT ![th] = <<[at |-> "exec", task |-> t]>> \o below \o @]
      /\ UNCHANGED <<callbackQueue, shutDown, alive, count, delivered>>
  BY DEF Submit
<1>3. /\ (th = "main" /\ Idle(th)) \/ InBody(th) \/ InHandler(th, Kinds)
      /\ ~shutDown
  BY DEF ClientOn
<1>4. stack[th] # <<>> \/ th = "main"
  BY <1>3 DEF InBody, InHandler, At, Idle
<1>5. th = Executor /\ (s # <<>> \/ ~Threaded) /\ s \in Seq(Frame) /\ Nest(s, phase)
  BY <1>1, <1>4, Types DEF NoWorker, Threads, Executor, NestAt
<1>6. NoBeginner(phase)
  <2>1. s # <<>> => Head(s) = s[1]
    BY <1>5, TailElements
  <2>2. s = <<>> \/ s[1].at # "exec" \/ phase[s[1].task] = "body"
    BY <1>3, <1>5, <2>1 DEF InBody, InHandler, At, Idle, TopTask, Kinds
  <2> HIDE DEF s
  <2> QED  BY <1>1, <1>5, <2>2, OthersOnTop
<1>7. /\ phase' \in [Tasks -> Phases] /\ phase'[t] = "prepared"
      /\ \A u \in Tasks : u # t => phase'[u] = phase[u]
  BY <1>1, <1>2, NewPhase DEF Phases
<1>8. WaitFrame(t) \in Frame /\ WaitFrame(t).at # "exec" /\ ExecFrame(t) \in Frame
  BY DEF WaitFrame, ExecFrame, Frame
<1>9. /\ stack'[Executor] = s2
      /\ \A uh \in Threads : uh # Executor => stack'[uh] = stack[uh]
  <2>1. (<<ExecFrame(t)>> \o below) \o s = <<ExecFrame(t)>> \o (below \o s)
    <3> HIDE DEF s
    <3>1. CASE below = <<>>
      BY <1>5, <1>8, <3>1, ConcatCons
    <3>2. CASE below = <<WaitFrame(t)>>
      BY <1>5, <1>8, <3>2, ConcatCons
    <3> QED  BY <3>1, <3>2
  <2>2. /\ stack'[th] = (<<ExecFrame(t)>> \o below) \o stack[th]
        /\ \A uh \in Threads : uh # th => stack'[uh] = stack[uh]
    BY <1>1, <1>2 DEF ExecFrame
  <2> QED  BY <1>5, <2>1, <2>2
<1>10. /\ s1 \in Seq(Frame) /\ Nest(s1, phase)
       /\ \A v, u : Above(s, v, u) => Above(s1, v, u)
  <2> HIDE DEF s
  <2>1. CASE below = <<>>
    <3>1. s1 = s
      BY <1>5, <2>1
    <3> QED  BY <1>5, <3>1
  <2>2. CASE below = <<WaitFrame(t)>>
    <3>1. <<WaitFrame(t)>> \o s \in Seq(Frame)
      BY <1>5, <1>8, ConsElements
    <3> QED  BY <1>1, <1>5, <1>6, <1>8, <2>2, <3>1, NestPushed
  <2> QED  BY <2>1, <2>2
<1> HIDE DEF s1
<1>11. /\ Nest(s2, phase')
       /\ \A v, u : Above(s1, v, u) => Above(s2, v, u)
  <2>1. phase[t] \notin ExecPhases
    BY <1>2 DEF ExecPhases
  <2> QED  BY <1>1, <1>6, <1>7, <1>10, <2>1, NestEntered
<1>12. s2 \in Seq(Frame) /\ s2 # <<>> /\ s2[1] = ExecFrame(t)
  <2>1. s2 \in Seq(Frame) /\ Len(s2) # 0 /\ s2[1] = ExecFrame(t)
    BY <1>8, <1>10, ConsElements
  <2> QED  BY <2>1
<1> HIDE DEF s2
<1>13. NestStep
  <2>1. NestAt(stack', phase')
    BY <1>1, <1>9, <1>11 DEF NestAt
  <2> QED  BY <1>9, <1>10, <1>11, <2>1 DEF NestStep
\* The task at the bottom of the worker's stack is running already.
<1>14. IsMainDispatcher /\ ~shutDown /\ Threaded => count' = 1
  <2> SUFFICES ASSUME IsMainDispatcher, ~shutDown, Threaded PROVE count = 1
    BY <1>2, Zenon
  <2>1. s # <<>>
    BY <1>5
  <2> HIDE DEF s
  <2>2. Len(s) \in 1 .. Len(s) /\ s[Len(s)].at = "exec"
    BY <1>5, <2>1 DEF Nest, Bottom
  <2>3. s[Len(s)].task \in Tasks /\ phase[s[Len(s)].task] \in ExecPhases
    BY <1>5, <2>2 DEF Nest, FramesAreOf
  <2>4. phase[s[Len(s)].task] \in Running
    BY <1>6, <2>3 DEF NoBeginner, ExecPhases, Running
  <2> QED  BY <1>1, <2>3, <2>4 DEF HandlerInv
<1>15. HandlerInv'
  <2>1. phase[t] \notin Live
    BY <1>2 DEF Live
  <2> QED  BY <1>1, <1>2, <1>9, <1>12, <1>13, <1>14, <2>1, HandlersEnter
<1>16. LifeInv'
  BY <1>1, <1>2, <1>7, LifeStays DEF Early
<1> QED  BY <1>1, <1>2, <1>13, <1>15, <1>16 DEF OrderInv, NestStep

LEMMA ClientOrder ==
    ASSUME IInv, OrderInv, NoWorker, NEW th \in Threads, NEW t \in Tasks, Client(th, t)
    PROVE  OrderInv'
<1>1. ASSUME NEW below \in {<<>>, <<WaitFrame(t)>>}, ClientOn(th, Kinds), Submit(th, t, below)
      PROVE  OrderInv'
  <2>1. CASE Threaded /\ th = "main"
    BY <1>1, <2>1, QueuedOrder
  <2>2. CASE ~(Threaded /\ th = "main")
    BY <1>1, <2>2, NestedOrder
  <2> QED  BY <2>1, <2>2
<1>2. CASE AddTask(th, t)
  BY <1>1, <1>2 DEF AddTask
<1>3. CASE AddTaskAndWait(th, t)
  <2>1. ClientOn(th, Kinds)
    BY <1>3, DispatcherAssumption DEF AddTaskAndWait, ClientOn, InHandler
  <2> QED  BY <1>1, <1>3, <2>1 DEF AddTaskAndWait, WaitFrame
<1>4. CASE CancelTask(th, t)
  BY <1>4, StillOrder
<1> QED  BY <1>2, <1>3, <1>4 DEF Client

\* A thread changes its own stack only, and must be somewhere to act unless
\* it is the main thread.
LEMMA OwnStack ==
    ASSUME TypeOK, NEW th \in Threads,
           Step(th) \/ \E t \in Tasks : Client(th, t) \/ SendMessage(th, t)
    PROVE  /\ \A uh \in Threads : uh # th => stack'[uh] = stack[uh]
           /\ th = "main" \/ stack[th] # <<>>
<1>1. stack \in [Threads -> Seq(Frame)]
  BY Types
<1>2. ASSUME NEW k, NEW t, CallFromMainThread(th, k, t) PROVE \A uh \in Threads : uh # th => stack'[uh] = stack[uh]
  BY <1>1, <1>2 DEF CallFromMainThread, BeginCallback, Enter
<1>3. CASE Step(th)
  <2>1. CASE Flush(th)
    BY <1>1, <2>1 DEF Flush, FlushBegin, FlushStep, FlushEnd, BeginCallback, Enter, Return, At, Idle
  <2>2. CASE EndCallback(th) \/ WaitReturn(th)
    BY <1>1, <2>2 DEF EndCallback, WaitReturn, InHandler, Return, At, Idle
  <2>3. ASSUME NEW t \in Tasks, Execute(th, t)
        PROVE  /\ \A uh \in Threads : uh # th => stack'[uh] = stack[uh]
               /\ th = "main" \/ stack[th] # <<>>
    <3>1. stack[th] # <<>>
      BY <2>3 DEF Execute, Started, ExecuteReturns, ExecuteThrows, LeaveTask, Executing, At, Idle
    <3>2. \/ stack' = stack \/ Return(th)
          \/ \E k \in Kinds : CallFromMainThread(th, k, t)
      BY <2>3 DEF Execute, Started, ExecuteReturns, ExecuteThrows, LeaveTask, Kinds
    <3> QED  BY <1>1, <1>2, <3>1, <3>2 DEF Return
  <2> QED  BY <1>3, <2>1, <2>2, <2>3 DEF Step
<1>4. ASSUME NEW t \in Tasks, Client(th, t)
      PROVE  /\ \A uh \in Threads : uh # th => stack'[uh] = stack[uh]
             /\ th = "main" \/ stack[th] # <<>>
  <2>1. \E kinds \in {Kinds, SyncHandlers} : ClientOn(th, kinds)
    BY <1>4 DEF Client, AddTask, AddTaskAndWait, CancelTask
  <2>2. th = "main" \/ stack[th] # <<>>
    BY <2>1 DEF ClientOn, InBody, InHandler, At, Idle
  <2>3. \A uh \in Threads : uh # th => stack'[uh] = stack[uh]
    BY <1>1, <1>4 DEF Client, AddTask, AddTaskAndWait, CancelTask, Submit
  <2> QED  BY <2>2, <2>3
<1>5. ASSUME NEW t \in Tasks, SendMessage(th, t)
      PROVE  /\ \A uh \in Threads : uh # th => stack'[uh] = stack[uh]
             /\ th = "main" \/ stack[th] # <<>>
  <2>1. CallFromMainThread(th, "message", Head(handlers))
    BY <1>5 DEF SendMessage
  <2>2. stack[th] # <<>>
    BY <1>5 DEF SendMessage, Executing, At, Idle
  <2> QED  BY <1>2, <2>1, <2>2
<1> QED  BY <1>3, <1>4, <1>5

LEMMA NoWorkerNext ==
    ASSUME IInv, OrderInv, NoWorker, [Next]_vars
    PROVE  NoWorker'
<1> SUFFICES ASSUME ~Threaded PROVE stack'["worker"] = <<>>
  BY DEF NoWorker
<1>1. TypeOK /\ stack["worker"] = <<>> /\ ~alive /\ "worker" \in Threads
      /\ stack \in [Threads -> Seq(Frame)]
  BY DEF IInv, OrderInv, NoWorker, TypeOK, Threads
<1>2. ASSUME NEW th \in Threads,
             Step(th) \/ \E t \in Tasks : Client(th, t) \/ SendMessage(th, t)
      PROVE  stack'["worker"] = <<>>
  <2>1. th # "worker"
    BY <1>1, <1>2, OwnStack
  <2> QED  BY <1>1, <1>2, <2>1, OwnStack
<1>3. ~Worker
  BY <1>1 DEF Worker, PickTask, PickNullTask, SkipTask, PrepareTask, Executing, At, Idle
<1>4. CASE Shutdown
  BY <1>1, <1>4 DEF Shutdown
<1>5. CASE ShutdownReturns
  BY <1>1, <1>5 DEF ShutdownReturns, Return
<1>6. CASE UNCHANGED vars
  BY <1>1, <1>6 DEF vars
<1> QED  BY <1>2, <1>3, <1>4, <1>5, <1>6 DEF Next

LEMMA InitOrder == Init => OrderInv /\ NoWorker
<1> SUFFICES ASSUME Init PROVE OrderInv /\ NoWorker
  OBVIOUS
<1>1. /\ \A th \in Threads : stack[th] = <<>>
      /\ callbackQueue = <<>>
      /\ \A t \in Tasks : phase[t] = "new" /\ delivered[t] = <<>>
      /\ alive = Threaded /\ ~shutDown
      /\ handlers = IF IsMainDispatcher THEN <<NullTask>> ELSE <<>>
      /\ Executor \in Threads /\ "worker" \in Threads
  BY DEF Init, Executor, Threads
<1>2. NestAt(stack, phase)
  BY <1>1 DEF NestAt, Nest, FramesAreOf, FramesOnce, HaveFrames, Beginners, Bottom, ExecPhases
<1>3. HandlerInv
  <2>1. Handled(handlers, stack[Executor], phase)
    BY <1>1 DEF Handled
  <2>2. IsMainDispatcher => Mirrored(handlers, phase)
    BY <1>1 DEF Mirrored, Live
  <2> QED  BY <1>1, <2>1, <2>2 DEF HandlerInv, Running
<1>4. LifeInv
  <2>1. \A t \in Tasks : Unheard(callbackQueue, delivered, t)
    BY <1>1 DEF Unheard
  <2>2. InOrder(delivered)
    BY <1>1 DEF InOrder
  <2>3. GoesOnWell(callbackQueue, delivered)
    BY <1>1 DEF GoesOnWell
  <2> QED  BY <1>1, <2>1, <2>2, <2>3 DEF LifeInv
<1> QED  BY <1>1, <1>2, <1>3, <1>4 DEF OrderInv, NoWorker

LEMMA NextOrder == IInv /\ OrderInv /\ NoWorker /\ [Next]_vars => (OrderInv /\ NoWorker)'
<1> SUFFICES ASSUME IInv, OrderInv, NoWorker, [Next]_vars PROVE OrderInv'
  BY NoWorkerNext
<1>1. ASSUME NEW th \in Threads, Step(th) PROVE OrderInv'
  <2>1. CASE Flush(th)
    BY <2>1, FlushBeginOrder, FlushStepOrder, LeaveLoopOrder DEF Flush
  <2>2. CASE EndCallback(th)
    BY <2>2, EndCallbackOrder
  <2>3. CASE WaitReturn(th)
    BY <2>3, LeaveLoopOrder
  <2>4. ASSUME NEW t \in Tasks, Execute(th, t) PROVE OrderInv'
    BY <2>4, StartedOrder, ExecuteEndsOrder, LeaveOrder DEF Execute
  <2> QED BY <1>1, <2>1, <2>2, <2>3, <2>4 DEF Step
<1>2. ASSUME NEW th \in Threads, NEW t \in Tasks, Client(th, t) \/ SendMessage(th, t)
      PROVE  OrderInv'
  BY <1>2, ClientOrder, SendMessageOrder
<1>3. CASE Worker
  BY <1>3, PickTaskOrder, StillOrder, LeaveOrder, PrepareTaskOrder DEF Worker, Threads
<1>4. CASE Shutdown
  BY <1>4, ShutdownOrder
<1>5. CASE ShutdownReturns
  BY <1>5, LeaveLoopOrder DEF Threads
<1>6. CASE UNCHANGED vars
  <2>1. UNCHANGED <<callbackQueue, shutDown, alive, stack, phase, handlers, count, delivered>>
    BY <1>6 DEF vars, taskVars
  <2>2. NestAt(stack', phase')
    BY <2>1 DEF OrderInv
  <2> QED  BY <2>1, <2>2 DEF OrderInv, HandlerInv, LifeInv, Serving, Executor
<1> QED  BY <1>1, <1>2, <1>3, <1>4, <1>5, <1>6 DEF Next

LEMMA OrderInvariant == Spec => []OrderInv
  BY Invariant, InitOrder, NextOrder, PTL DEF Spec

\* The client of a task hears "started" once and first, and nothing after
\* "finished" or "failed", of which it hears one, once: whether the callbacks
\* went through _callback_queue, were run by a nested flush or at once by the
\* executing thread, and whatever the slots themselves submit.
THEOREM CallbacksStayInOrder == Spec => []CallbacksInOrder
<1>1. IInv /\ OrderInv => CallbacksInOrder
  <2> SUFFICES ASSUME IInv, OrderInv, NEW t \in Tasks, NEW i \in DOMAIN delivered[t]
               PROVE  /\ (delivered[t][i] = "started") <=> (i = 1)
                      /\ delivered[t][i] \in {"finished", "failed"} => i = Len(delivered[t])
    BY DEF CallbacksInOrder
  <2>1. delivered[t] \in Seq(Kinds)
    BY DEF IInv, TypeOK
  <2>2. i \in 1 .. Len(delivered[t])
    BY <2>1
  <2> QED  BY <2>2 DEF OrderInv, LifeInv, InOrder, Finals
<1> QED  BY <1>1, Invariant, OrderInvariant, PTL

\* While the main dispatcher is up, the GRT's handler stack is the nest of the
\* executing tasks, innermost first, with the dispatcher's own handler last
\* (prepare_task, restore_callbacks); the worker finds as many handlers after
\* a task as it counted before it.
THEOREM HandlersAlwaysMirror == Spec => []HandlersMirrorExecution
<1>1. IInv /\ OrderInv => HandlersMirrorExecution
  <2> SUFFICES ASSUME IInv, OrderInv, IsMainDispatcher, ~shutDown
               PROVE  /\ handlers # <<>> /\ handlers[Len(handlers)] = NullTask
                      /\ {handlers[i] : i \in 1 .. Len(handlers) - 1}
                             = {t \in Tasks : phase[t] \in {"prepared", "body"}}
                      /\ \A i, j \in 1 .. Len(handlers) - 1 :
                            i < j => Inside(handlers[i], handlers[j])
                      /\ \A t \in Tasks :
                            Len(stack["worker"]) = 1 /\ Executing("worker", t, "leaving")
                                => count = Len(handlers)
    BY DEF HandlersMirrorExecution
  <2> DEFINE hs == handlers
             s == stack[Executor]
  <2>1. /\ TypeOK /\ NestAt(stack, phase) /\ HandlerInv /\ phase \in [Tasks -> Phases]
        /\ hs \in HandlersOf /\ s \in Seq(Frame) /\ Executor \in Threads
    BY Types DEF IInv, OrderInv
  <2>2. Handled(hs, s, phase) /\ Mirrored(hs, phase) /\ Nest(s, phase)
    BY <2>1 DEF HandlerInv, NestAt
  <2>3. PICK n \in Nat : n = Len(hs) /\ n # 0
    BY <2>1, <2>2, TailElements DEF Mirrored, HandlersOf
  <2>4. \A i \in 1 .. n - 1 : i \in 1 .. n
    OBVIOUS
  <2>5. \A i \in 1 .. n - 1 : hs[i] # NullTask /\ hs[i] \in Tasks /\ phase[hs[i]] \in Live
    BY <2>1, <2>2, <2>3, <2>4 DEF Mirrored, Handled, HandlersOf
  <2>6. {hs[i] : i \in 1 .. n - 1} = {t \in Tasks : phase[t] \in {"prepared", "body"}}
    <3>1. ASSUME NEW t \in Tasks, phase[t] \in Live PROVE \E i \in 1 .. n - 1 : hs[i] = t
      <4>1. PICK i \in 1 .. n : hs[i] = t
        BY <2>2, <2>3, <3>1 DEF Mirrored
      <4>2. i # n
        BY <2>2, <2>3, <4>1, DispatcherAssumption DEF Mirrored
      <4> QED  BY <2>3, <4>1, <4>2
    <3> HIDE DEF hs
    <3> QED  BY <2>5, <3>1 DEF Live
  <2>7. ASSUME NEW i \in 1 .. n - 1, NEW j \in 1 .. n - 1, i < j PROVE Inside(hs[i], hs[j])
    <3>1. Above(s, hs[i], hs[j])
      BY <2>2, <2>3, <2>4, <2>5, <2>7 DEF Handled
    <3>2. DOMAIN s = 1 .. Len(s)
      BY <2>1
    <3> HIDE DEF hs
    <3> QED  BY <2>1, <3>1, <3>2 DEF Above, Inside, ExecFrame
  <2>8. ASSUME NEW t \in Tasks, Len(stack["worker"]) = 1, Executing("worker", t, "leaving")
        PROVE  count = n
    <3>1. /\ "worker" = Executor /\ s[1] = ExecFrame(t) /\ phase[t] = "leaving"
          /\ Threaded
      BY <2>1, <2>8, Innermost DEF Threads, Executor
    <3>2. count = 1
      BY <2>1, <3>1 DEF HandlerInv, Running
    <3>3. ASSUME n # 1 PROVE FALSE
      <4>1. 1 \in 1 .. n - 1
        BY <2>3, <3>3
      <4>2. hs[1] \in Tasks /\ phase[hs[1]] \in Live
        BY <2>5, <4>1
      <4>3. PICK i \in 1 .. Len(s) : s[i] = ExecFrame(hs[1])
        BY <2>2, <4>2 DEF Nest, HaveFrames, Live, ExecPhases
      <4>4. i = 1
        BY <2>8, <3>1, <4>3
      <4>5. hs[1] = t
        BY <3>1, <4>3, <4>4, ExecFrames
      <4> QED  BY <3>1, <4>2, <4>5 DEF Live
    <3> QED  BY <3>2, <3>3
  <2> QED  BY <2>2, <2>3, <2>6, <2>7, <2>8 DEF Mirrored
<1> QED  BY <1>1, Invariant, OrderInvariant, PTL
=============================================================================
