---------------------------- MODULE SSHTunnelsProofs ----------------------------
(***************************************************************************)
(* Proofs about SSHTunnels, for any callers, configurations and number of  *)
(* tunnels: a configuration has one tunnel, each port is counted as often  *)
(* as it is used, and a tunnel in use stays open.                          *)
(***************************************************************************)
EXTENDS SSHTunnels, FiniteSetTheorems, SequenceTheorems, TLAPS

(* The sequences of accepted connections *)

LEMMA FrontIs ==
  ASSUME NEW S, NEW s \in Seq(S), s # <<>>
  PROVE  /\ Front(s) \in Seq(S) /\ Len(Front(s)) = Len(s) - 1
         /\ \A i \in 1 .. Len(s) - 1 : Front(s)[i] = s[i]
         /\ Last(s) = s[Len(s)] /\ Len(s) \in Nat \ {0} /\ Last(s) \in S
<1>1. Len(s) \in Nat \ {0}
  BY EmptySeq
<1>2. \A i \in 1 .. Len(s) - 1 : s[i] \in S
  BY <1>1, ElementOfSeq
<1> DEFINE f == SubSeq(s, 1, Len(s) - 1)
<1>3. /\ f \in Seq(S)
      /\ Len(f) = IF 1 <= Len(s) - 1 THEN Len(s) - 1 - 1 + 1 ELSE 0
      /\ \A i \in 1 .. Len(s) - 1 - 1 + 1 : f[i] = s[1 + i - 1]
  BY <1>1, <1>2, SubSeqProperties
<1> HIDE DEF f
<1>4. Len(f) = Len(s) - 1
  <2>1. \A n \in Nat : (IF 1 <= n THEN n - 1 + 1 ELSE 0) = n
    OBVIOUS
  <2>2. Len(s) - 1 \in Nat
    BY <1>1
  <2> QED BY <1>3, <2>1, <2>2
<1>5. ASSUME NEW i \in 1 .. Len(s) - 1 PROVE f[i] = s[i]
  <2>1. i \in 1 .. Len(s) - 1 - 1 + 1 /\ 1 + i - 1 = i
    BY <1>1
  <2>2. f[i] = s[1 + i - 1]
    BY <1>3, <2>1
  <2> QED BY <2>1, <2>2
<1> QED BY <1>1, <1>3, <1>4, <1>5, ElementOfSeq DEF f, Front, Last

LEMMA RemoveAtIs ==
  ASSUME NEW S, NEW s \in Seq(S), NEW i \in 1 .. Len(s)
  PROVE  /\ RemoveAt(s, i) \in Seq(S) /\ Len(RemoveAt(s, i)) = Len(s) - 1
         /\ \A j \in 1 .. Len(s) - 1 :
                RemoveAt(s, i)[j] = IF j < i THEN s[j] ELSE s[j + 1]
<1> DEFINE a == SubSeq(s, 1, i - 1)
           b == SubSeq(s, i + 1, Len(s))
<1>1. a \in Seq(S) /\ Len(a) = i - 1 /\ \A j \in 1 .. i - 1 : a[j] = s[j]
  OBVIOUS
<1>2. b \in Seq(S) /\ Len(b) = Len(s) - i /\ \A j \in 1 .. Len(s) - i : b[j] = s[j + i]
  OBVIOUS
<1> HIDE DEF a, b
<1>3. /\ a \o b \in Seq(S) /\ Len(a \o b) = Len(s) - 1
      /\ \A j \in 1 .. Len(s) - 1 :
             (a \o b)[j] = IF j < i THEN s[j] ELSE s[j + 1]
  <2>1. /\ a \o b \in Seq(S) /\ Len(a \o b) = Len(a) + Len(b)
        /\ \A j \in 1 .. Len(a) + Len(b) :
               (a \o b)[j] = IF j <= Len(a) THEN a[j] ELSE b[j - Len(a)]
    BY <1>1, <1>2, ConcatProperties
  <2> DEFINE ab == a \o b
  <2> HIDE DEF ab
  <2>2. Len(ab) = Len(s) - 1
    BY <1>1, <1>2, <2>1 DEF ab
  <2>3. ASSUME NEW j \in 1 .. Len(s) - 1
        PROVE  ab[j] = IF j < i THEN s[j] ELSE s[j + 1]
    <3>1. CASE j < i
      BY <1>1, <1>2, <2>1, <3>1 DEF ab
    <3>2. CASE ~(j < i)
      <4>1. ab[j] = b[j - (i - 1)]
        BY <1>1, <1>2, <2>1, <3>2 DEF ab
      <4>2. j - (i - 1) \in 1 .. Len(s) - i /\ (j - (i - 1)) + i = j + 1
        BY <3>2
      <4> QED BY <1>2, <3>2, <4>1, <4>2
    <3> QED BY <3>1, <3>2
  <2> QED BY <2>1, <2>2, <2>3 DEF ab
<1> QED BY <1>3 DEF a, b, RemoveAt

-----------------------------------------------------------------------------
(* The inductive invariant *)

\* What is made is in the list or was; a caller has a port from the time it is
\* given a tunnel until it gives it back.
Made ==
    /\ list \subseteq 1 .. made
    /\ stopping \subseteq 1 .. made
    /\ \A t \in Tunnels : thread[t] = "none" <=> t > made
    /\ \A c \in Callers : port[c] \in 0 .. made
    /\ \A c \in Callers : pc[c] \in {"idle", "connecting"} <=> port[c] = NoTunnel
    /\ Wakeup \in ready => pokes > 0

\* A client is in one place of one tunnel while it waits.
Waits ==
    \A t \in Tunnels :
        /\ \A c \in incoming[t] : pc[c] = "waiting" /\ port[c] = t
        /\ \A i \in 1 .. Len(accepted[t]) :
               LET c == accepted[t][i]
               IN  pc[c] = "waiting" /\ port[c] = t /\ c \notin incoming[t]
        /\ \A i, j \in 1 .. Len(accepted[t]) :
               accepted[t][i] = accepted[t][j] => i = j

Locks(c) == pc[c] \in {"closing", "clearing"}

\* A tunnel in the list is being stopped only while a thread that holds the
\* socket's mutex joins its handler; nobody uses tunnels after shutdown().
Stopping ==
    /\ \A c \in Callers : Locks(c) => port[c] \in list \cap stopping
    /\ \A c, d \in Callers : Locks(c) /\ Locks(d) => c = d
    /\ \A t \in list \cap stopping : \E c \in Callers : Locks(c) /\ port[c] = t
    /\ manager \in {"ending", "ended"} => stop
    /\ stop => \A c \in Callers : pc[c] = "idle"

Open ==
    /\ \A t \in Tunnels : thread[t] = "ended" /\ t \notin stopping => mishaps # {}
    /\ \A c \in Callers :
           (pc[c] = "found" \/ InUse(c)) /\ port[c] \notin list \ stopping => mishaps # {}

Wanted ==
    \A t \in list : \E c \in Callers :
        port[c] # NoTunnel /\ config[port[c]] = config[t]

Inv ==
    /\ TypeOK /\ Made /\ Waits /\ UsageIsCounted
    /\ OneTunnelPerConfig /\ Stopping /\ Open /\ Wanted

\* Types.
LEMMA TypeStep ==
  ASSUME TypeOK, Made, Waits, UsageIsCounted, [Next]_vars
  PROVE  TypeOK'
<1> USE SSHAssumption DEF TypeOK, Made, Waits, Mishaps, Notes, Goes,
     handlerVars, managerVars, callerVars, Tunnels, Configs, TunnelsFor,
     Refused, Close, NoTunnel, Wakeup
<1>1. ASSUME NEW c \in Callers, FindTunnel(c) PROVE TypeOK'
  <2>1. PICK t \in list : port' = [port EXCEPT ![c] = t]
    BY <1>1 DEF FindTunnel
  <2>2. port' \in [Callers -> {NoTunnel} \cup Tunnels]
    BY <2>1
  <2>3. pc' = [pc EXCEPT ![c] = "found"]
    BY <1>1 DEF FindTunnel
  <2>4. UNCHANGED <<made, config, list, thread, stopping, incoming, accepted,
                    usage, manager, polled, ready, pokes, stop, mishaps>>
    BY <1>1 DEF FindTunnel
  <2> QED BY <2>2, <2>3, <2>4
<1>2. ASSUME NEW c \in Callers, FindNone(c) PROVE TypeOK'
  BY <1>2 DEF FindNone
<1>3. ASSUME NEW c \in Callers, FindDead(c) PROVE TypeOK'
  <2>1. PICK t \in list : /\ port' = [port EXCEPT ![c] = t]
                         /\ stopping' = stopping \cup {t}
    BY <1>3 DEF FindDead
  <2>2. mishaps' \subseteq Mishaps
    BY <1>3 DEF FindDead
  <2>3. port' \in [Callers -> {NoTunnel} \cup Tunnels] /\ stopping' \subseteq Tunnels
    BY <2>1
  <2>4. pc' = [pc EXCEPT ![c] = "clearing"]
    BY <1>3 DEF FindDead
  <2>5. UNCHANGED <<made, config, list, thread, incoming, accepted,
                    usage, manager, polled, ready, pokes, stop>>
    BY <1>3 DEF FindDead
  <2> QED BY <2>2, <2>3, <2>4, <2>5
<1>4. ASSUME NEW c \in Callers, ClearDead(c) PROVE TypeOK'
  BY <1>4 DEF ClearDead
<1>5. ASSUME NEW c \in Callers, ConnectFails(c) PROVE TypeOK'
  BY <1>5 DEF ConnectFails
<1>6. ASSUME NEW c \in Callers, CreateTunnel(c) PROVE TypeOK'
  <2>1. CASE Existing(Wants[c]) # {}
    <3>1. PICK t \in list : port' = [port EXCEPT ![c] = t]
      BY <1>6, <2>1 DEF CreateTunnel, Existing
    <3>2. port' \in [Callers -> {NoTunnel} \cup Tunnels]
      BY <3>1
    <3>3. pc' = [pc EXCEPT ![c] = "found"]
      BY <1>6 DEF CreateTunnel
    <3>4. UNCHANGED <<made, config, list, thread, stopping, incoming, accepted,
                      usage, manager, polled, ready, pokes, stop, mishaps>>
      BY <1>6, <2>1 DEF CreateTunnel
    <3> QED BY <3>2, <3>3, <3>4
  <2>2. CASE Existing(Wants[c]) = {}
    <3>1. made' = made + 1 /\ made' \in Tunnels
      BY <1>6, <2>2 DEF CreateTunnel
    <3>2. /\ config' = Append(config, Wants[c])
          /\ thread' = [thread EXCEPT ![made'] = "starting"]
          /\ port' = [port EXCEPT ![c] = made']
          /\ list' = list \cup {made'}
      BY <1>6, <2>2 DEF CreateTunnel
    <3>3. Wants[c] \in Configs
      OBVIOUS
    <3>4. config' \in Seq(Configs) /\ Len(config') = made'
      <4>1. config \in Seq(Configs) /\ Len(config) = made
        OBVIOUS
      <4>2. /\ Append(config, Wants[c]) \in Seq(Configs)
            /\ Len(Append(config, Wants[c])) = Len(config) + 1
        BY ONLY <3>3, <4>1, AppendProperties
      <4>3. config' = Append(config, Wants[c]) /\ made' = made + 1
        BY <3>1, <3>2
      <4> QED BY ONLY <4>1, <4>2, <4>3
    <3>5. thread' \in [Tunnels -> {"none", "starting", "running", "ended"}]
      BY <3>1, <3>2
    <3>6. port' \in [Callers -> {NoTunnel} \cup Tunnels]
      BY <3>1, <3>2
    <3>7. list' \subseteq 1 .. made' /\ made' \in 0 .. MaxTunnels
      BY <3>1, <3>2
    <3>8. pc' = [pc EXCEPT ![c] = "found"] /\ pokes' \in Nat
      BY <1>6, <2>2 DEF CreateTunnel, Poke
    <3>9. UNCHANGED <<stopping, incoming, accepted, usage, manager, polled,
                      ready, stop, mishaps>>
      BY <1>6 DEF CreateTunnel
    <3> QED BY <3>4, <3>5, <3>6, <3>7, <3>8, <3>9
  <2> QED BY <2>1, <2>2
<1>7. ASSUME NEW c \in Callers, Increment(c) PROVE TypeOK'
  <2>1. usage' \in [Tunnels -> Nat]
    BY <1>7 DEF Increment, Counted
  <2>2. pc' = [pc EXCEPT ![c] = "using"]
    BY <1>7 DEF Increment
  <2>3. UNCHANGED <<made, config, list, thread, stopping, incoming, accepted, port,
                    manager, polled, ready, pokes, stop, mishaps>>
    BY <1>7 DEF Increment
  <2> QED BY <2>1, <2>2, <2>3
<1>8. ASSUME NEW c \in Callers, Connect(c) PROVE TypeOK'
  <2>1. port[c] \in Tunnels
    BY <1>8 DEF Connect
  <2>2. incoming' \in [Tunnels -> SUBSET Callers]
    BY <1>8, <2>1 DEF Connect
  <2> QED BY <1>8, <2>2 DEF Connect
<1>9. ASSUME NEW c \in Callers, Timeout(c) PROVE TypeOK'
  <2>1. port[c] \in Tunnels
    BY <1>9 DEF Timeout
  <2>2. CASE c \in incoming[port[c]] /\ UNCHANGED accepted
    <3>1. incoming' \in [Tunnels -> SUBSET Callers]
      <4>1. \/ incoming' = incoming
            \/ incoming' = [incoming EXCEPT ![port[c]] = @ \ {c}]
        BY <1>9, <2>2 DEF Timeout
      <4>2. incoming[port[c]] \ {c} \in SUBSET Callers
        BY <2>1
      <4>3. incoming \in [Tunnels -> SUBSET Callers]
        OBVIOUS
      <4> QED BY ONLY <2>1, <4>1, <4>2, <4>3
    <3>2. pc' = [pc EXCEPT ![c] = "using"]
      BY <1>9 DEF Timeout
    <3> QED BY <1>9, <2>2, <3>1, <3>2 DEF Timeout
  <2>3. CASE UNCHANGED incoming
    <3>1. accepted' \in [Tunnels -> Seq(Callers)]
      <4>1. CASE UNCHANGED accepted
        BY <4>1
      <4>2. CASE \E i \in DOMAIN accepted[port[c]] :
                     accepted' = [accepted EXCEPT ![port[c]] = RemoveAt(@, i)]
        <5>1. PICK i \in DOMAIN accepted[port[c]] :
                     accepted' = [accepted EXCEPT ![port[c]] = RemoveAt(@, i)]
          BY <4>2
        <5>2. RemoveAt(accepted[port[c]], i) \in Seq(Callers)
          BY <2>1, RemoveAtIs
        <5> QED BY <5>1, <5>2
      <4> QED BY <1>9, <4>1, <4>2 DEF Timeout
    <3>2. pc' = [pc EXCEPT ![c] = "using"]
      BY <1>9 DEF Timeout
    <3> QED BY <1>9, <2>3, <3>1, <3>2 DEF Timeout
  <2> QED BY <1>9, <2>2, <2>3 DEF Timeout
<1>10. ASSUME NEW c \in Callers, Decrement(c) PROVE TypeOK'
  <2>1. usage' \in [Tunnels -> Nat]
    <3>1. \A n \in Nat : (IF n = 0 THEN 0 ELSE n - 1) \in Nat
      OBVIOUS
    <3>2. usage' = [usage EXCEPT ![port[c]] = IF @ = 0 THEN 0 ELSE @ - 1]
      BY <1>10 DEF Decrement
    <3>3. usage \in [Tunnels -> Nat]
      OBVIOUS
    <3> QED BY ONLY <3>1, <3>2, <3>3
  <2>2. stopping' \subseteq Tunnels
    <3>1. TunnelsFor(config[port[c]]) \subseteq Tunnels
      <4>1. list \subseteq Tunnels
        OBVIOUS
      <4> QED BY ONLY <4>1 DEF TunnelsFor
    <3> HIDE DEF TunnelsFor
    <3> QED BY <1>10, <3>1 DEF Decrement
  <2>5. mishaps' \subseteq Mishaps
    BY <1>10 DEF Decrement
  <2>3. pc' = [pc EXCEPT ![c] = "idle"] \/ pc' = [pc EXCEPT ![c] = "closing"]
    BY <1>10 DEF Decrement
  <2>4. \E u \in 0 .. made : port' = [port EXCEPT ![c] = u]
    BY <1>10 DEF Decrement
  <2>6. port' \in [Callers -> {NoTunnel} \cup Tunnels]
    BY <2>4
  <2> QED BY <1>10, <2>1, <2>2, <2>3, <2>5, <2>6 DEF Decrement
<1>11. ASSUME NEW c \in Callers, Disconnected(c) PROVE TypeOK'
  BY <1>11 DEF Disconnected
<1>12. ASSUME NEW t \in Tunnels, HandlerRuns(t) PROVE TypeOK'
  BY <1>12 DEF HandlerRuns
<1>13. ASSUME NEW t \in Tunnels, PrepareTunnel(t) PROVE TypeOK'
  <2>1. /\ Front(accepted[t]) \in Seq(Callers)
        /\ Last(accepted[t]) \in Callers
    BY <1>13, FrontIs DEF PrepareTunnel
  <2>2. accepted' \in [Tunnels -> Seq(Callers)]
    BY <1>13, <2>1 DEF PrepareTunnel
  <2>3. PICK o \in {"connected", "using"} : pc' = [pc EXCEPT ![Last(accepted[t])] = o]
    BY <1>13 DEF PrepareTunnel
  <2> QED BY <1>13, <2>1, <2>2, <2>3 DEF PrepareTunnel
<1>14. ASSUME NEW t \in Tunnels, HandlerEnds(t) PROVE TypeOK'
  BY <1>14 DEF HandlerEnds
<1>15. ASSUME Poll PROVE TypeOK'
  BY <1>15 DEF Poll, Reported
<1>16. ASSUME ServeWakeup PROVE TypeOK'
  <2>1. pokes' \in Nat
    <3>1. pokes' = pokes - 1
      BY <1>16 DEF ServeWakeup
    <3>2. Wakeup \in ready
      BY <1>16 DEF ServeWakeup
    <3>3. pokes \in Nat /\ pokes > 0
      BY <3>2
    <3> QED BY <3>1, <3>3
  <2>3. list \subseteq Tunnels
    OBVIOUS
  <2>4. polled' = {} \/ polled' = list
    BY <1>16 DEF ServeWakeup
  <2>2. polled' \subseteq Tunnels
    BY <2>3, <2>4
  <2> QED BY <1>16, <2>1, <2>2 DEF ServeWakeup
<1>17. ASSUME RoundEnds PROVE TypeOK'
  BY <1>17 DEF RoundEnds
<1>18. ASSUME ManagerEnds PROVE TypeOK'
  BY <1>18 DEF ManagerEnds
<1>19. ASSUME Shutdown PROVE TypeOK'
  BY <1>19 DEF Shutdown, Poke
<1>20. ASSUME NEW t \in Tunnels, ServeSocket(t) PROVE TypeOK'
  <2>1. list \subseteq Tunnels
    OBVIOUS
  <2>2. ready' \subseteq {Wakeup} \cup Tunnels /\ polled' \subseteq Tunnels
    BY <1>20, <2>1 DEF ServeSocket
  <2>3. /\ incoming' \in [Tunnels -> SUBSET Callers]
        /\ accepted' \in [Tunnels -> Seq(Callers)]
    <3>1. CASE UNCHANGED <<incoming, accepted>>
      BY <3>1
    <3>2. CASE \E c \in incoming[t] :
                   /\ incoming' = [incoming EXCEPT ![t] = @ \ {c}]
                   /\ accepted' = [accepted EXCEPT ![t] = Append(@, c)]
      <4>1. PICK c \in incoming[t] :
                   /\ incoming' = [incoming EXCEPT ![t] = @ \ {c}]
                   /\ accepted' = [accepted EXCEPT ![t] = Append(@, c)]
        BY <3>2
      <4>2. Append(accepted[t], c) \in Seq(Callers)
        OBVIOUS
      <4> QED BY <4>1, <4>2
    <3> QED BY <1>20, <3>1, <3>2 DEF ServeSocket
  <2>4. UNCHANGED <<made, config, list, thread, stopping, usage, pc, port,
                    manager, pokes, stop, mishaps>>
    BY <1>20 DEF ServeSocket
  <2> QED BY <2>2, <2>3, <2>4
<1>21. CASE UNCHANGED vars
  BY <1>21 DEF vars
<1> QED BY <1>1, <1>2, <1>3, <1>4, <1>5, <1>6, <1>7, <1>8, <1>9, <1>10, <1>11,
     <1>12, <1>13, <1>14, <1>15, <1>16, <1>17, <1>18, <1>19, <1>20, <1>21
  DEF Next, Caller, Handler, Manager

-----------------------------------------------------------------------------
\* What most steps need of the types.
Shapes ==
    /\ made \in Nat /\ pokes \in Nat /\ Tunnels \subseteq Nat
    /\ DOMAIN pc = Callers /\ DOMAIN port = Callers
    /\ DOMAIN thread = Tunnels /\ usage \in [Tunnels -> Nat]
    /\ incoming \in [Tunnels -> SUBSET Callers]
    /\ accepted \in [Tunnels -> Seq(Callers)]

LEMMA HasShapes == TypeOK => Shapes
BY SSHAssumption DEF TypeOK, Shapes, Tunnels

(* What the larger steps do, in the terms of the invariant *)

\* A closed socket refuses those who wait at it.
Closes(c) ==
    /\ Locks(c) /\ port[c] \in Tunnels /\ thread[port[c]] = "ended"
    /\ list' = list \ {port[c]}
    /\ port' = [port EXCEPT ![c] = NoTunnel]
    /\ incoming' = [incoming EXCEPT ![port[c]] = {}]
    /\ pc'[c] \in {"idle", "connecting"}
    /\ \A d \in Callers \ {c} :
           pc'[d] = IF d \in incoming[port[c]] THEN "using" ELSE pc[d]
    /\ UNCHANGED <<made, config, thread, stopping, accepted, usage, manager,
                   polled, ready, pokes, stop, mishaps>>

LEMMA CloseDoes ==
  ASSUME TypeOK, Made, Waits, NEW c \in Callers, ClearDead(c) \/ Disconnected(c)
  PROVE  Closes(c)
<1>1. pc[c] \in {"closing", "clearing"}
  BY DEF ClearDead, Disconnected
<1>2. port[c] \in Tunnels
  BY <1>1 DEF TypeOK, Made, NoTunnel
<1>3. c \notin incoming[port[c]]
  BY <1>1, <1>2 DEF Waits
<1>4. \E o \in {"idle", "connecting"} : pc' = Refused(port[c], [pc EXCEPT ![c] = o])
  BY DEF ClearDead, Disconnected
<1>5. DOMAIN pc = Callers
  BY DEF TypeOK
<1>6. /\ pc'[c] \in {"idle", "connecting"}
      /\ \A d \in Callers \ {c} :
             pc'[d] = IF d \in incoming[port[c]] THEN "using" ELSE pc[d]
  BY <1>3, <1>4, <1>5 DEF Refused
<1> QED BY <1>1, <1>2, <1>6 DEF ClearDead, Disconnected, Close, Locks,
   managerVars, Closes

\* Either an existing tunnel is taken or a new one made.
Creates(c) ==
    /\ pc[c] = "connecting" /\ pc' = [pc EXCEPT ![c] = "found"]
    /\ \A d \in Callers : ~Locks(d)
    /\ UNCHANGED <<stopping, incoming, accepted, usage, manager, polled,
                   ready, stop, mishaps>>
    /\ \/ /\ \E t \in list : /\ config[t] = Wants[c]
                             /\ port' = [port EXCEPT ![c] = t]
          /\ UNCHANGED <<made, config, list, thread, pokes>>
       \/ /\ \A t \in list : config[t] # Wants[c]
          /\ made' = made + 1 /\ made' \in Tunnels
          /\ Len(config') = made'
          /\ \A t \in 1 .. made : config'[t] = config[t]
          /\ config'[made'] = Wants[c]
          /\ list' = list \cup {made'}
          /\ thread' = [thread EXCEPT ![made'] = "starting"]
          /\ pokes' = pokes + 1
          /\ port' = [port EXCEPT ![c] = made']

LEMMA CreateDoes ==
  ASSUME TypeOK, Made, NEW c \in Callers, CreateTunnel(c)
  PROVE  Creates(c)
<1>1. /\ pc[c] = "connecting" /\ pc' = [pc EXCEPT ![c] = "found"]
      /\ \A d \in Callers : ~Locks(d)
      /\ UNCHANGED <<stopping, incoming, accepted, usage, manager, polled,
                     ready, stop, mishaps>>
  BY DEF CreateTunnel, SocketMutexFree, Goes, Locks
<1>2. CASE Existing(Wants[c]) # {}
  BY <1>1, <1>2 DEF CreateTunnel, Existing, TunnelsFor, Creates
<1>3. CASE Existing(Wants[c]) = {}
  <2>1. \A t \in list : config[t] # Wants[c]
    BY <1>3 DEF Existing, TunnelsFor
  <2>2. /\ made < MaxTunnels /\ made' = made + 1
        /\ config' = Append(config, Wants[c])
        /\ list' = list \cup {made'}
        /\ thread' = [thread EXCEPT ![made'] = "starting"]
        /\ pokes' = pokes + 1
        /\ port' = [port EXCEPT ![c] = made']
    BY <1>3 DEF CreateTunnel, Poke
  <2>3. made' \in Tunnels /\ made \in Nat
    BY <2>2, SSHAssumption DEF TypeOK, Tunnels
  <2>4. config \in Seq(Configs) /\ Len(config) = made /\ Wants[c] \in Configs
    BY DEF TypeOK, Configs
  <2>5. /\ Len(config') = made' /\ config'[made'] = Wants[c]
        /\ \A t \in 1 .. made : config'[t] = config[t]
    BY <2>2, <2>3, <2>4, AppendProperties
  <2> QED BY <1>1, <2>1, <2>2, <2>3, <2>5 DEF Creates
<1> QED BY <1>2, <1>3

\* The user goes; the tunnels of the configuration are closed or there are none.
Decrements(c) ==
    /\ pc[c] \in {"using", "connected"} /\ port[c] \in 1 .. made
    /\ \A d \in Callers : ~Locks(d)
    /\ usage' = [usage EXCEPT ![port[c]] = IF @ = 0 THEN 0 ELSE @ - 1]
    /\ UNCHANGED <<made, config, list, thread, incoming, accepted, manager,
                   polled, ready, pokes, stop>>
    /\ \/ /\ \/ usage[port[c]] # 1
             \/ \A u \in list : config[u] # config[port[c]]
          /\ stopping' = stopping /\ mishaps' = mishaps
          /\ pc' = [pc EXCEPT ![c] = "idle"]
          /\ port' = [port EXCEPT ![c] = NoTunnel]
       \/ /\ usage[port[c]] = 1
          /\ \E u \in list : /\ config[u] = config[port[c]]
                             /\ port' = [port EXCEPT ![c] = u]
          /\ stopping' = stopping \cup {u \in list : config[u] = config[port[c]]}
          /\ pc' = [pc EXCEPT ![c] = "closing"]
          /\ mishaps \subseteq mishaps'
          /\ (\E d \in Callers : /\ pc[d] = "found" /\ port[d] \in list
                                 /\ config[port[d]] = config[port[c]])
                => "missed" \in mishaps'

LEMMA DecrementDoes ==
  ASSUME TypeOK, Made, NEW c \in Callers, Decrement(c)
  PROVE  Decrements(c)
<1>1. /\ pc[c] \in {"using", "connected"}
      /\ \A d \in Callers : ~Locks(d)
      /\ usage' = [usage EXCEPT ![port[c]] = IF @ = 0 THEN 0 ELSE @ - 1]
      /\ UNCHANGED <<made, config, list, thread, incoming, accepted, manager,
                     polled, ready, pokes, stop>>
  BY DEF Decrement, SocketMutexFree, Locks, managerVars
<1>2. port[c] \in 1 .. made
  BY <1>1 DEF TypeOK, Made, NoTunnel
<1> DEFINE closed == IF usage[port[c]] = 1 THEN TunnelsFor(config[port[c]]) ELSE {}
<1>3. /\ stopping' = stopping \cup closed
      /\ mishaps' = mishaps \cup (IF \E d \in Callers : pc[d] = "found" /\ port[d] \in closed
                                    THEN {"missed"} ELSE {})
      /\ closed = {} => /\ pc' = [pc EXCEPT ![c] = "idle"]
                        /\ port' = [port EXCEPT ![c] = NoTunnel]
      /\ closed # {} => /\ pc' = [pc EXCEPT ![c] = "closing"]
                        /\ \E u \in closed : port' = [port EXCEPT ![c] = u]
  BY DEF Decrement, LastUser, Notes
<1>4. closed = IF usage[port[c]] = 1 THEN {u \in list : config[u] = config[port[c]]} ELSE {}
  BY DEF TunnelsFor
<1> HIDE DEF closed
<1> QED BY <1>1, <1>2, <1>3, <1>4 DEF Decrements

\* The connection accepted last is prepared.
Prepares(t) ==
    /\ accepted[t] \in Seq(Callers) /\ Len(accepted[t]) \in Nat \ {0}
    /\ accepted[t][Len(accepted[t])] \in Callers
    /\ accepted' = [accepted EXCEPT ![t] = Front(@)]
    /\ Len(Front(accepted[t])) = Len(accepted[t]) - 1
    /\ \A i \in 1 .. Len(accepted[t]) - 1 : Front(accepted[t])[i] = accepted[t][i]
    /\ \E o \in {"connected", "using"} :
           pc' = [pc EXCEPT ![accepted[t][Len(accepted[t])]] = o]
    /\ thread[t] = "running"
    /\ UNCHANGED <<made, config, list, thread, stopping, incoming, usage,
                   port, manager, polled, ready, pokes, stop, mishaps>>

LEMMA PrepareDoes ==
  ASSUME TypeOK, NEW t \in Tunnels, PrepareTunnel(t)
  PROVE  Prepares(t)
<1>1. accepted[t] \in Seq(Callers) /\ accepted[t] # <<>>
  BY DEF TypeOK, PrepareTunnel
<1>2. PICK o \in {"connected", "using"} : pc' = [pc EXCEPT ![Last(accepted[t])] = o]
  BY DEF PrepareTunnel
<1>3. /\ Len(Front(accepted[t])) = Len(accepted[t]) - 1
      /\ \A i \in 1 .. Len(accepted[t]) - 1 : Front(accepted[t])[i] = accepted[t][i]
      /\ Last(accepted[t]) = accepted[t][Len(accepted[t])]
      /\ Len(accepted[t]) \in Nat \ {0} /\ Last(accepted[t]) \in Callers
  BY <1>1, FrontIs
<1> QED BY <1>1, <1>2, <1>3 DEF PrepareTunnel, managerVars, TypeOK, Prepares

-----------------------------------------------------------------------------
\* What was made, and who has a port.
LEMMA MadeStep ==
  ASSUME TypeOK, Made, Waits, [Next]_vars
  PROVE  Made'
<1>1. ASSUME NEW c \in Callers, FindTunnel(c) PROVE Made'
  BY <1>1 DEF FindTunnel, TunnelsFor, TypeOK, Made, Goes, Tunnels, NoTunnel,
     Wakeup, handlerVars, managerVars, callerVars
<1>2. ASSUME NEW c \in Callers, FindNone(c) PROVE Made'
  BY <1>2 DEF FindNone, TypeOK, Made, Goes, Tunnels, NoTunnel, Wakeup,
     handlerVars, managerVars, callerVars
<1>3. ASSUME NEW c \in Callers, FindDead(c) PROVE Made'
  BY <1>3 DEF FindDead, TunnelsFor, TypeOK, Made, Goes, Tunnels, NoTunnel,
     Wakeup, handlerVars, managerVars, callerVars
<1>4. ASSUME NEW c \in Callers, ClearDead(c) PROVE Made'
  <2>1. Closes(c) /\ Shapes
    BY <1>4, CloseDoes, HasShapes
  <2>2. list' \subseteq 1 .. made' /\ stopping' \subseteq 1 .. made'
    BY <2>1 DEF Closes, Shapes, Made, NoTunnel, Waits, Locks
  <2>3. \A t \in Tunnels : thread'[t] = "none" <=> t > made'
    BY <2>1 DEF Closes, Shapes, Made, NoTunnel, Waits, Locks
  <2>4. \A d \in Callers : port'[d] \in 0 .. made'
    BY <2>1 DEF Closes, Shapes, Made, NoTunnel, Waits, Locks
  <2>5. \A d \in Callers : pc'[d] \in {"idle", "connecting"} <=> port'[d] = NoTunnel
    BY <2>1 DEF Closes, Shapes, Made, NoTunnel, Waits, Locks
  <2>6. Wakeup \in ready' => pokes' > 0
    BY <2>1 DEF Closes, Shapes, Made, NoTunnel, Waits, Locks
  <2> QED BY <2>2, <2>3, <2>4, <2>5, <2>6 DEF Made
<1>5. ASSUME NEW c \in Callers, ConnectFails(c) PROVE Made'
  BY <1>5 DEF ConnectFails, TypeOK, Made, Goes, Tunnels, NoTunnel, Wakeup,
     handlerVars, managerVars, callerVars
<1>6. ASSUME NEW c \in Callers, CreateTunnel(c) PROVE Made'
  <2>1. Creates(c) /\ Shapes
    BY <1>6, CreateDoes, HasShapes
  <2>2. list' \subseteq 1 .. made' /\ stopping' \subseteq 1 .. made'
    <3>1. CASE UNCHANGED <<list, made>>
      BY <2>1, <3>1 DEF Creates, Made
    <3>2. CASE made' = made + 1 /\ list' = list \cup {made'}
      BY <2>1, <3>2 DEF Creates, Made, Shapes
    <3> QED BY <2>1, <3>1, <3>2 DEF Creates
  <2>3. \A t \in Tunnels : thread'[t] = "none" <=> t > made'
    BY <2>1 DEF Creates, Shapes, Made, NoTunnel, Waits, Locks
  <2>4. \A d \in Callers : port'[d] \in 0 .. made'
    BY <2>1 DEF Creates, Shapes, Made, NoTunnel, Waits, Locks
  <2>5. \A d \in Callers : pc'[d] \in {"idle", "connecting"} <=> port'[d] = NoTunnel
    BY <2>1 DEF Creates, Shapes, Made, NoTunnel, Waits, Locks
  <2>6. Wakeup \in ready' => pokes' > 0
    BY <2>1 DEF Creates, Shapes, Made, NoTunnel, Waits, Locks
  <2> QED BY <2>2, <2>3, <2>4, <2>5, <2>6 DEF Made
<1>7. ASSUME NEW c \in Callers, Increment(c) PROVE Made'
  BY <1>7 DEF Increment, TypeOK, Made, Goes, Tunnels, NoTunnel, Wakeup,
     handlerVars, managerVars, callerVars
<1>8. ASSUME NEW c \in Callers, Connect(c) PROVE Made'
  BY <1>8 DEF Connect, TypeOK, Made, Goes, Tunnels, NoTunnel, Wakeup,
     handlerVars, managerVars, callerVars
<1>9. ASSUME NEW c \in Callers, Timeout(c) PROVE Made'
  <2>1. port[c] \in Tunnels
    BY <1>9 DEF TypeOK, Made, Timeout, Goes, NoTunnel
  <2> QED BY <1>9, <2>1, RemoveAtIs DEF Timeout, TypeOK, Made, Goes,
     Tunnels, NoTunnel, Wakeup, handlerVars, managerVars, callerVars
<1>10. ASSUME NEW c \in Callers, Decrement(c) PROVE Made'
  <2>1. Decrements(c) /\ Shapes
    BY <1>10, DecrementDoes, HasShapes
  <2>2. list' \subseteq 1 .. made' /\ stopping' \subseteq 1 .. made'
    BY <2>1 DEF Decrements, Shapes, Made, NoTunnel, Waits, Locks
  <2>3. \A t \in Tunnels : thread'[t] = "none" <=> t > made'
    BY <2>1 DEF Decrements, Shapes, Made, NoTunnel, Waits, Locks
  <2>4. \A d \in Callers : port'[d] \in 0 .. made'
    BY <2>1 DEF Decrements, Shapes, Made, NoTunnel, Waits, Locks
  <2>5. \A d \in Callers : pc'[d] \in {"idle", "connecting"} <=> port'[d] = NoTunnel
    BY <2>1 DEF Decrements, Shapes, Made, NoTunnel, Waits, Locks
  <2>6. Wakeup \in ready' => pokes' > 0
    BY <2>1 DEF Decrements, Shapes, Made, NoTunnel, Waits, Locks
  <2> QED BY <2>2, <2>3, <2>4, <2>5, <2>6 DEF Made
<1>11. ASSUME NEW c \in Callers, Disconnected(c) PROVE Made'
  <2>1. Closes(c) /\ Shapes
    BY <1>11, CloseDoes, HasShapes
  <2>2. list' \subseteq 1 .. made' /\ stopping' \subseteq 1 .. made'
    BY <2>1 DEF Closes, Shapes, Made, NoTunnel, Waits, Locks
  <2>3. \A t \in Tunnels : thread'[t] = "none" <=> t > made'
    BY <2>1 DEF Closes, Shapes, Made, NoTunnel, Waits, Locks
  <2>4. \A d \in Callers : port'[d] \in 0 .. made'
    BY <2>1 DEF Closes, Shapes, Made, NoTunnel, Waits, Locks
  <2>5. \A d \in Callers : pc'[d] \in {"idle", "connecting"} <=> port'[d] = NoTunnel
    BY <2>1 DEF Closes, Shapes, Made, NoTunnel, Waits, Locks
  <2>6. Wakeup \in ready' => pokes' > 0
    BY <2>1 DEF Closes, Shapes, Made, NoTunnel, Waits, Locks
  <2> QED BY <2>2, <2>3, <2>4, <2>5, <2>6 DEF Made
<1>12. ASSUME NEW t \in Tunnels, HandlerRuns(t) PROVE Made'
  BY <1>12 DEF HandlerRuns, TypeOK, Made, Goes, Tunnels, NoTunnel, Wakeup,
     handlerVars, managerVars, callerVars
<1>13. ASSUME NEW t \in Tunnels, PrepareTunnel(t) PROVE Made'
  <2>1. Prepares(t)
    BY <1>13, PrepareDoes
  <2> QED BY <2>1 DEF Prepares, TypeOK, Made, Goes, Tunnels, NoTunnel,
     Wakeup, handlerVars, managerVars, callerVars, Waits
<1>14. ASSUME NEW t \in Tunnels, HandlerEnds(t) PROVE Made'
  BY <1>14 DEF HandlerEnds, TypeOK, Made, Goes, Tunnels, NoTunnel, Wakeup,
     handlerVars, managerVars, callerVars
<1>15. ASSUME Poll PROVE Made'
  BY <1>15 DEF Poll, Reported, TypeOK, Made, Goes, Tunnels, NoTunnel,
     Wakeup, handlerVars, managerVars, callerVars
<1>16. ASSUME ServeWakeup PROVE Made'
  BY <1>16 DEF ServeWakeup, TypeOK, Made, Goes, Tunnels, NoTunnel, Wakeup,
     handlerVars, managerVars, callerVars
<1>17. ASSUME RoundEnds PROVE Made'
  BY <1>17 DEF RoundEnds, TypeOK, Made, Goes, Tunnels, NoTunnel, Wakeup,
     handlerVars, managerVars, callerVars
<1>18. ASSUME ManagerEnds PROVE Made'
  BY <1>18 DEF ManagerEnds, TypeOK, Made, Goes, Tunnels, NoTunnel, Wakeup,
     handlerVars, managerVars, callerVars
<1>19. ASSUME Shutdown PROVE Made'
  BY <1>19 DEF Shutdown, Poke, TypeOK, Made, Goes, Tunnels, NoTunnel,
     Wakeup, handlerVars, managerVars, callerVars
<1>20. ASSUME NEW t \in Tunnels, ServeSocket(t) PROVE Made'
  BY <1>20 DEF ServeSocket, TypeOK, Made, Goes, Tunnels, NoTunnel, Wakeup,
     handlerVars, managerVars, callerVars
<1>21. CASE UNCHANGED vars
  BY <1>21 DEF vars, TypeOK, Made, Goes, Tunnels, NoTunnel, Wakeup,
     handlerVars, managerVars, callerVars
<1> QED BY <1>1, <1>2, <1>3, <1>4, <1>5, <1>6, <1>7, <1>8, <1>9, <1>10, <1>11,
     <1>12, <1>13, <1>14, <1>15, <1>16, <1>17, <1>18, <1>19, <1>20, <1>21
  DEF Next, Caller, Handler, Manager

\* Who waits goes on waiting, unless his socket is closed.
LEMMA WaitsFrame ==
  ASSUME Waits, Shapes, UNCHANGED accepted,
         \A t \in Tunnels : incoming'[t] \subseteq incoming[t],
         \A d \in Callers : pc[d] = "waiting" =>
             \/ pc'[d] = "waiting" /\ port'[d] = port[d]
             \/ d \in incoming[port[d]] /\ d \notin incoming'[port[d]]
  PROVE  Waits'
<1>1. ASSUME NEW t \in Tunnels, NEW d \in incoming'[t]
      PROVE  pc'[d] = "waiting" /\ port'[d] = t
  BY <1>1 DEF Waits, Shapes
<1>2. ASSUME NEW t \in Tunnels, NEW i \in 1 .. Len(accepted[t])
      PROVE  LET d == accepted[t][i]
             IN  pc'[d] = "waiting" /\ port'[d] = t /\ d \notin incoming'[t]
  <2>1. accepted[t][i] \in Callers
    BY DEF Shapes
  <2>2. LET d == accepted[t][i]
        IN  pc[d] = "waiting" /\ port[d] = t /\ d \notin incoming[t]
    BY DEF Waits
  <2> QED BY <2>1, <2>2
<1> QED BY <1>1, <1>2 DEF Waits

\* A client is in one place.
LEMMA WaitsStep ==
  ASSUME TypeOK, Made, Waits, [Next]_vars
  PROVE  Waits'
<1>1. ASSUME NEW c \in Callers, FindTunnel(c) PROVE Waits'
  BY <1>1 DEF FindTunnel, TunnelsFor, Shapes, Made, Waits, Goes, Tunnels,
     NoTunnel, handlerVars, managerVars, callerVars
<1>2. ASSUME NEW c \in Callers, FindNone(c) PROVE Waits'
  BY <1>2 DEF FindNone, Shapes, Made, Waits, Goes, Tunnels, NoTunnel,
     handlerVars, managerVars, callerVars
<1>3. ASSUME NEW c \in Callers, FindDead(c) PROVE Waits'
  BY <1>3 DEF FindDead, TunnelsFor, Shapes, Made, Waits, Goes, Tunnels,
     NoTunnel, handlerVars, managerVars, callerVars
<1>4. ASSUME NEW c \in Callers, ClearDead(c) PROVE Waits'
  <2>1. Closes(c) /\ Shapes
    BY <1>4, CloseDoes, HasShapes
  <2>2. /\ \A u \in Tunnels : incoming'[u] \subseteq incoming[u]
        /\ UNCHANGED accepted /\ incoming'[port[c]] = {}
    BY <2>1 DEF Closes, Shapes
  <2>3. ASSUME NEW d \in Callers, pc[d] = "waiting"
        PROVE  \/ pc'[d] = "waiting" /\ port'[d] = port[d]
               \/ d \in incoming[port[d]] /\ d \notin incoming'[port[d]]
    <3>1. d \in Callers \ {c}
      BY <2>1, <2>3 DEF Closes, Locks
    <3>2. port'[d] = port[d]
      BY <2>1, <3>1 DEF Closes, Shapes
    <3>3. CASE d \in incoming[port[c]]
      BY <2>1, <2>2, <3>3 DEF Waits, Closes
    <3>4. CASE d \notin incoming[port[c]]
      BY <2>1, <2>3, <3>1, <3>2, <3>4 DEF Closes
    <3> QED BY <3>3, <3>4
  <2> QED BY <2>1, <2>2, <2>3, WaitsFrame
<1>5. ASSUME NEW c \in Callers, ConnectFails(c) PROVE Waits'
  BY <1>5 DEF ConnectFails, Shapes, Made, Waits, Goes, Tunnels, NoTunnel,
     handlerVars, managerVars, callerVars
<1>6. ASSUME NEW c \in Callers, CreateTunnel(c) PROVE Waits'
  <2>1. Creates(c) /\ Shapes
    BY <1>6, CreateDoes, HasShapes
  <2>2. /\ \A u \in Tunnels : incoming'[u] \subseteq incoming[u]
        /\ UNCHANGED accepted
    BY <2>1 DEF Creates, Shapes
  <2>3. \A d \in Callers : pc[d] = "waiting" =>
            \/ pc'[d] = "waiting" /\ port'[d] = port[d]
            \/ d \in incoming[port[d]] /\ d \notin incoming'[port[d]]
    BY <2>1 DEF Creates, Shapes, Waits, Locks, Goes
  <2> QED BY <2>1, <2>2, <2>3, WaitsFrame
<1>7. ASSUME NEW c \in Callers, Increment(c) PROVE Waits'
  BY <1>7 DEF Increment, Shapes, Made, Waits, Goes, Tunnels, NoTunnel,
     handlerVars, managerVars, callerVars
<1>8. ASSUME NEW c \in Callers, Connect(c) PROVE Waits'
  <2>1. Shapes
    BY HasShapes
  <2>2. /\ pc[c] = "using" /\ pc' = [pc EXCEPT ![c] = "waiting"]
        /\ port[c] \in Tunnels /\ port' = port /\ accepted' = accepted
        /\ incoming' = [incoming EXCEPT ![port[c]] = @ \cup {c}]
    BY <1>8 DEF Connect, Goes, TypeOK, NoTunnel, Made
  <2>3. \A d \in Callers \ {c} : pc'[d] = pc[d]
    BY <2>1, <2>2 DEF Shapes
  <2>4. pc'[c] = "waiting"
    BY <2>1, <2>2 DEF Shapes
  <2>5. \A u \in Tunnels : incoming'[u] = IF u = port[c] THEN incoming[u] \cup {c} ELSE incoming[u]
    BY <2>1, <2>2 DEF Shapes
  <2>6. ASSUME NEW u \in Tunnels, NEW i \in 1 .. Len(accepted[u])
        PROVE  accepted[u][i] \in Callers \ {c}
    BY <2>1, <2>2 DEF Shapes, Waits
  <2>7. ASSUME NEW u \in Tunnels, NEW d \in incoming'[u]
        PROVE  pc'[d] = "waiting" /\ port'[d] = u
    BY <2>1, <2>2, <2>3, <2>4, <2>5, <2>7 DEF Shapes, Waits
  <2>8. ASSUME NEW u \in Tunnels, NEW i \in 1 .. Len(accepted[u])
        PROVE  LET d == accepted[u][i]
               IN  pc'[d] = "waiting" /\ port'[d] = u /\ d \notin incoming'[u]
    BY <2>2, <2>3, <2>5, <2>6 DEF Waits
  <2> QED BY <2>2, <2>7, <2>8 DEF Waits
<1>9. ASSUME NEW c \in Callers, Timeout(c) PROVE Waits'
  <2>1. Shapes
    BY HasShapes
  <2>2. /\ pc[c] = "waiting" /\ pc' = [pc EXCEPT ![c] = "using"]
        /\ port[c] \in Tunnels /\ port' = port
    BY <1>9 DEF Timeout, Goes, TypeOK, NoTunnel, Made
  <2>3. \A d \in Callers \ {c} : pc'[d] = pc[d]
    BY <2>1, <2>2 DEF Shapes
  <2>4. CASE c \in incoming[port[c]] /\ accepted' = accepted
                /\ incoming' = [incoming EXCEPT ![port[c]] = @ \ {c}]
    <3>1. \A u \in Tunnels : incoming'[u] \subseteq incoming[u]
      BY <2>1, <2>4 DEF Shapes
    <3>2. c \notin incoming'[port[c]]
      BY <2>1, <2>2, <2>4 DEF Shapes
    <3> QED BY <2>1, <2>2, <2>3, <2>4, <3>1, <3>2, WaitsFrame
  <2>5. CASE incoming' = incoming /\ \E i \in DOMAIN accepted[port[c]] :
                 /\ accepted[port[c]][i] = c
                 /\ accepted' = [accepted EXCEPT ![port[c]] = RemoveAt(@, i)]
    <3> DEFINE t == port[c]
               s == accepted[t]
    <3>1. PICK i \in DOMAIN s : s[i] = c /\ accepted' = [accepted EXCEPT ![t] = RemoveAt(s, i)]
      BY <2>5
    <3> DEFINE r == RemoveAt(s, i)
    <3>2. s \in Seq(Callers) /\ Len(s) \in Nat /\ i \in 1 .. Len(s)
      BY <2>1, <2>2, <3>1 DEF Shapes
    <3>3. /\ Len(r) = Len(s) - 1
          /\ \A j \in 1 .. Len(s) - 1 : r[j] = IF j < i THEN s[j] ELSE s[j + 1]
      BY <3>2, RemoveAtIs
    <3>4. c \notin incoming[t] /\ \A j \in 1 .. Len(s) : j # i => s[j] # c
      BY <2>2, <3>1, <3>2 DEF Waits
    <3>5. \A u \in Tunnels : accepted'[u] = IF u = t THEN r ELSE accepted[u]
      BY <2>1, <3>1 DEF Shapes
    <3> HIDE DEF r
    <3>6. \A j \in 1 .. Len(r) : \E k \in 1 .. Len(s) : k # i /\ r[j] = s[k] /\ k = IF j < i THEN j ELSE j + 1
      BY <3>2, <3>3
    <3>7. ASSUME NEW u \in Tunnels, NEW d \in incoming'[u]
          PROVE  pc'[d] = "waiting" /\ port'[d] = u
      BY <2>1, <2>2, <2>3, <2>5, <3>4 DEF Waits, Shapes
    <3>8. ASSUME NEW u \in Tunnels, NEW k \in 1 .. Len(accepted[u]), accepted[u][k] # c
          PROVE  LET d == accepted[u][k]
                 IN  pc'[d] = "waiting" /\ port'[d] = u /\ d \notin incoming'[u]
      <4>1. accepted[u][k] \in Callers \ {c}
        BY <2>1, <3>8 DEF Shapes
      <4> QED BY <2>2, <2>3, <2>5, <4>1 DEF Waits
    <3>9. ASSUME NEW u \in Tunnels, u # t, NEW k \in 1 .. Len(accepted[u])
          PROVE  accepted[u][k] # c
      BY <3>9 DEF Waits
    <3>10. \A u \in Tunnels : \A j \in 1 .. Len(accepted'[u]) :
               LET d == accepted'[u][j]
               IN  pc'[d] = "waiting" /\ port'[d] = u /\ d \notin incoming'[u]
      <4>1. \A u \in Tunnels \ {t} : \A j \in 1 .. Len(accepted'[u]) :
               LET d == accepted'[u][j]
               IN  pc'[d] = "waiting" /\ port'[d] = u /\ d \notin incoming'[u]
        BY <3>5, <3>8, <3>9
      <4>2. \A j \in 1 .. Len(r) :
               pc'[r[j]] = "waiting" /\ port'[r[j]] = t /\ r[j] \notin incoming'[t]
        <5>1. ASSUME NEW j \in 1 .. Len(r)
              PROVE  pc'[r[j]] = "waiting" /\ port'[r[j]] = t /\ r[j] \notin incoming'[t]
          <6>1. PICK k \in 1 .. Len(accepted[t]) : k # i /\ r[j] = accepted[t][k]
            BY <3>6
          <6>2. accepted[t][k] # c
            BY <3>4, <6>1
          <6> QED BY <2>2, <3>8, <6>1, <6>2
        <5> QED BY <5>1
      <4> QED BY <2>2, <3>5, <4>1, <4>2
    <3>11. \A j, k \in 1 .. Len(r) : r[j] = r[k] => j = k
      <4>1. \A j, k \in 1 .. Len(s) : s[j] = s[k] => j = k
        BY <2>2 DEF Waits
      <4> HIDE DEF s
      <4> QED BY <3>2, <3>3, <4>1
    <3> QED BY <2>2, <3>5, <3>7, <3>10, <3>11 DEF Waits
  <2> QED BY <1>9, <2>4, <2>5 DEF Timeout
<1>10. ASSUME NEW c \in Callers, Decrement(c) PROVE Waits'
  <2>1. Decrements(c) /\ Shapes
    BY <1>10, DecrementDoes, HasShapes
  <2>2. /\ \A u \in Tunnels : incoming'[u] \subseteq incoming[u]
        /\ UNCHANGED accepted
    BY <2>1 DEF Decrements, Shapes
  <2>3. \A d \in Callers : pc[d] = "waiting" =>
            \/ pc'[d] = "waiting" /\ port'[d] = port[d]
            \/ d \in incoming[port[d]] /\ d \notin incoming'[port[d]]
    BY <2>1 DEF Decrements, Shapes, Waits, Locks, Goes
  <2> QED BY <2>1, <2>2, <2>3, WaitsFrame
<1>11. ASSUME NEW c \in Callers, Disconnected(c) PROVE Waits'
  <2>1. Closes(c) /\ Shapes
    BY <1>11, CloseDoes, HasShapes
  <2>2. /\ \A u \in Tunnels : incoming'[u] \subseteq incoming[u]
        /\ UNCHANGED accepted /\ incoming'[port[c]] = {}
    BY <2>1 DEF Closes, Shapes
  <2>3. ASSUME NEW d \in Callers, pc[d] = "waiting"
        PROVE  \/ pc'[d] = "waiting" /\ port'[d] = port[d]
               \/ d \in incoming[port[d]] /\ d \notin incoming'[port[d]]
    <3>1. d \in Callers \ {c}
      BY <2>1, <2>3 DEF Closes, Locks
    <3>2. port'[d] = port[d]
      BY <2>1, <3>1 DEF Closes, Shapes
    <3>3. CASE d \in incoming[port[c]]
      BY <2>1, <2>2, <3>3 DEF Waits, Closes
    <3>4. CASE d \notin incoming[port[c]]
      BY <2>1, <2>3, <3>1, <3>2, <3>4 DEF Closes
    <3> QED BY <3>3, <3>4
  <2> QED BY <2>1, <2>2, <2>3, WaitsFrame
<1>12. ASSUME NEW t \in Tunnels, HandlerRuns(t) PROVE Waits'
  BY <1>12 DEF HandlerRuns, Shapes, Made, Waits, Goes, Tunnels, NoTunnel,
     handlerVars, managerVars, callerVars
<1>13. ASSUME NEW t \in Tunnels, PrepareTunnel(t) PROVE Waits'
  <2>1. Prepares(t) /\ Shapes
    BY <1>13, PrepareDoes, HasShapes
  <2> DEFINE s == accepted[t]
             n == Len(accepted[t])
             f == Front(accepted[t])
  <2>2. PICK o \in {"connected", "using"} : pc' = [pc EXCEPT ![s[n]] = o]
    BY <2>1 DEF Prepares
  <2>3. /\ n \in Nat \ {0} /\ s[n] \in Callers /\ Len(f) = n - 1
        /\ \A i \in 1 .. n - 1 : f[i] = s[i]
        /\ accepted' = [accepted EXCEPT ![t] = f]
        /\ incoming' = incoming /\ port' = port
    BY <2>1 DEF Prepares
  <2>4. \A d \in Callers \ {s[n]} : pc'[d] = pc[d]
    BY <2>1, <2>2 DEF Shapes
  <2>5. port[s[n]] = t /\ s[n] \notin incoming[t] /\ \A i \in 1 .. n - 1 : s[i] # s[n]
    BY <2>3 DEF Waits
  <2> HIDE DEF n, s, f
  <2>6. ASSUME NEW u \in Tunnels, NEW d \in incoming'[u]
        PROVE  pc'[d] = "waiting" /\ port'[d] = u
    BY <2>1, <2>3, <2>4, <2>5 DEF Waits, Shapes
  <2>7. ASSUME NEW u \in Tunnels, u # t
        PROVE  /\ accepted'[u] = accepted[u]
               /\ \A i \in 1 .. Len(accepted[u]) : s[n] # accepted[u][i]
    BY <2>1, <2>3, <2>5, <2>7 DEF Waits, Shapes
  <2>8. ASSUME NEW u \in Tunnels, u # t, NEW i \in 1 .. Len(accepted[u])
        PROVE  LET d == accepted[u][i]
               IN  pc'[d] = "waiting" /\ port'[d] = u /\ d \notin incoming'[u]
    <3>1. accepted[u][i] \in Callers
      BY <2>1 DEF Shapes
    <3>2. accepted[u][i] # s[n]
      BY <2>7, <2>8
    <3> QED BY <2>3, <2>4, <3>1, <3>2 DEF Waits
  <2>9. accepted'[t] = f
    BY <2>1, <2>3 DEF Shapes
  <2>10. ASSUME NEW i \in 1 .. n - 1
         PROVE  pc'[s[i]] = "waiting" /\ port'[s[i]] = t /\ s[i] \notin incoming'[t]
    <3>1. i \in 1 .. Len(accepted[t]) /\ s[i] = accepted[t][i]
      BY <2>3 DEF n, s
    <3>2. s[i] \in Callers \ {s[n]}
      BY <2>1, <2>5, <3>1 DEF Shapes
    <3> QED BY <2>3, <2>4, <3>1, <3>2 DEF Waits
  <2>11. \A i, j \in 1 .. n - 1 : s[i] = s[j] => i = j
    BY <2>3 DEF n, s, Waits
  <2>12. \A u \in Tunnels : \A i \in 1 .. Len(accepted'[u]) :
             LET d == accepted'[u][i]
             IN  pc'[d] = "waiting" /\ port'[d] = u /\ d \notin incoming'[u]
    BY <2>3, <2>7, <2>8, <2>9, <2>10
  <2>13. \A u \in Tunnels : \A i, j \in 1 .. Len(accepted'[u]) :
             accepted'[u][i] = accepted'[u][j] => i = j
    BY <2>3, <2>7, <2>9, <2>11 DEF Waits
  <2> QED BY <2>6, <2>12, <2>13 DEF Waits
<1>14. ASSUME NEW t \in Tunnels, HandlerEnds(t) PROVE Waits'
  BY <1>14 DEF HandlerEnds, Shapes, Made, Waits, Goes, Tunnels, NoTunnel,
     handlerVars, managerVars, callerVars
<1>15. ASSUME Poll PROVE Waits'
  BY <1>15 DEF Poll, Reported, Shapes, Made, Waits, Goes, Tunnels, NoTunnel,
     handlerVars, managerVars, callerVars
<1>16. ASSUME ServeWakeup PROVE Waits'
  BY <1>16 DEF ServeWakeup, Shapes, Made, Waits, Goes, Tunnels, NoTunnel,
     handlerVars, managerVars, callerVars
<1>17. ASSUME RoundEnds PROVE Waits'
  BY <1>17 DEF RoundEnds, Shapes, Made, Waits, Goes, Tunnels, NoTunnel,
     handlerVars, managerVars, callerVars
<1>18. ASSUME ManagerEnds PROVE Waits'
  BY <1>18 DEF ManagerEnds, Shapes, Made, Waits, Goes, Tunnels, NoTunnel,
     handlerVars, managerVars, callerVars
<1>19. ASSUME Shutdown PROVE Waits'
  BY <1>19 DEF Shutdown, Poke, Shapes, Made, Waits, Goes, Tunnels, NoTunnel,
     handlerVars, managerVars, callerVars
<1>20. ASSUME NEW t \in Tunnels, ServeSocket(t) PROVE Waits'
  <2>1. Shapes
    BY HasShapes
  <2>2. pc' = pc /\ port' = port
    BY <1>20 DEF ServeSocket, callerVars
  <2>3. CASE UNCHANGED <<incoming, accepted>>
    BY <2>1, <2>2, <2>3, WaitsFrame
  <2>4. CASE \E c \in incoming[t] :
                 /\ incoming' = [incoming EXCEPT ![t] = @ \ {c}]
                 /\ accepted' = [accepted EXCEPT ![t] = Append(@, c)]
    <3> DEFINE s == accepted[t]
    <3>1. PICK c \in incoming[t] : /\ incoming' = [incoming EXCEPT ![t] = @ \ {c}]
                                   /\ accepted' = [accepted EXCEPT ![t] = Append(s, c)]
      BY <2>4
    <3>2. s \in Seq(Callers) /\ Len(s) \in Nat /\ c \in Callers
      BY <2>1 DEF Shapes
    <3>3. pc[c] = "waiting" /\ port[c] = t /\ \A i \in 1 .. Len(s) : s[i] # c
      BY DEF Waits
    <3>4. \A u \in Tunnels :
              /\ accepted'[u] = IF u = t THEN Append(s, c) ELSE accepted[u]
              /\ incoming'[u] = IF u = t THEN incoming[t] \ {c} ELSE incoming[u]
      BY <2>1, <3>1 DEF Shapes
    <3>5. \A u \in Tunnels, d \in Callers : d \in incoming'[u] => d \in incoming[u]
      BY <3>4
    <3>6. /\ Len(Append(s, c)) = Len(s) + 1 /\ Append(s, c)[Len(s) + 1] = c
          /\ \A i \in 1 .. Len(s) : Append(s, c)[i] = s[i]
      BY <3>2
    <3> DEFINE a == Append(s, c)
    <3> HIDE DEF a
    <3>7. ASSUME NEW u \in Tunnels, NEW d \in incoming'[u]
          PROVE  pc'[d] = "waiting" /\ port'[d] = u
      BY <2>2, <3>4 DEF Waits
    <3>8. ASSUME NEW u \in Tunnels, u # t
          PROVE  /\ \A i \in 1 .. Len(accepted'[u]) :
                        LET d == accepted'[u][i]
                        IN  pc'[d] = "waiting" /\ port'[d] = u /\ d \notin incoming'[u]
                 /\ \A i, j \in 1 .. Len(accepted'[u]) :
                        accepted'[u][i] = accepted'[u][j] => i = j
      BY <2>2, <3>4, <3>8 DEF Waits
    <3>9. \A i \in 1 .. Len(a) : i \in 1 .. Len(s) \/ i = Len(s) + 1
      BY <3>2, <3>6 DEF a
    <3>10. \A i \in 1 .. Len(s) : pc[s[i]] = "waiting" /\ port[s[i]] = t /\ s[i] \notin incoming[t]
      BY DEF Waits
    <3>11. \A i, j \in 1 .. Len(s) : s[i] = s[j] => i = j
      BY DEF Waits
    <3> HIDE DEF s
    <3>12. \A i \in 1 .. Len(a) :
               pc'[a[i]] = "waiting" /\ port'[a[i]] = t /\ a[i] \notin incoming'[t]
      BY <2>2, <3>3, <3>4, <3>6, <3>9, <3>10 DEF a
    <3>13. \A i, j \in 1 .. Len(a) : a[i] = a[j] => i = j
      BY <3>3, <3>6, <3>9, <3>11 DEF a
    <3> QED BY <3>4, <3>7, <3>8, <3>12, <3>13 DEF Waits, a
  <2> QED BY <1>20, <2>3, <2>4 DEF ServeSocket
<1>21. CASE UNCHANGED vars
  BY <1>21 DEF vars, Shapes, Made, Waits, Goes, Tunnels, NoTunnel,
     handlerVars, managerVars, callerVars
<1> QED BY <1>1, <1>2, <1>3, <1>4, <1>5, <1>6, <1>7, <1>8, <1>9, <1>10, <1>11,
     <1>12, <1>13, <1>14, <1>15, <1>16, <1>17, <1>18, <1>19, <1>20, <1>21
  DEF Next, Caller, Handler, Manager

-----------------------------------------------------------------------------
(* Users are counted *)

Users(t) == {c \in Callers : InUse(c) /\ port[c] = t}

LEMMA UsageFrame ==
  ASSUME UsageIsCounted, usage' = usage,
         \A d \in Callers, t \in Tunnels :
             InUse(d)' /\ port'[d] = t <=> InUse(d) /\ port[d] = t
  PROVE  UsageIsCounted'
<1>1. \A t \in Tunnels : Users(t)' = Users(t)
  BY DEF Users
<1> QED BY <1>1 DEF UsageIsCounted, Users

\* A user is the only one of its port just when the count is one.
LEMMA OtherUser ==
  ASSUME UsageIsCounted, NEW c \in Callers, InUse(c), port[c] \in Tunnels
  PROVE  usage[port[c]] # 1 <=>
             \E d \in Callers \ {c} : InUse(d) /\ port[d] = port[c]
<1> DEFINE U == Users(port[c])
<1>1. IsFiniteSet(U)
  BY SSHAssumption, FS_Subset DEF Users
<1>2. usage[port[c]] = Cardinality(U)
  BY DEF UsageIsCounted, Users
<1>3. c \in U
  BY DEF Users
<1>4. Cardinality(U) = 1 <=> \E x : U = {x}
  BY <1>1, FS_Singleton
<1>5. (\E x : U = {x}) <=> U = {c}
  BY <1>3
<1>6. U # {c} <=> \E d \in Callers \ {c} : d \in U
  BY <1>3 DEF Users
<1> QED BY <1>2, <1>4, <1>5, <1>6 DEF Users

\* Each port is counted as often as it is used.
LEMMA UsageStep ==
  ASSUME TypeOK, Made, Waits, UsageIsCounted, [Next]_vars
  PROVE  UsageIsCounted'
<1>1. ASSUME NEW c \in Callers, FindTunnel(c) PROVE UsageIsCounted'
  <2>1. Shapes
    BY HasShapes
  <2>2. /\ usage' = usage
        /\ \A d \in Callers, u \in Tunnels :
               InUse(d)' /\ port'[d] = u <=> InUse(d) /\ port[d] = u
    BY <1>1, <2>1 DEF FindTunnel, TunnelsFor, Shapes, Made, InUse,
       NoTunnel, Goes
  <2> QED BY <2>2, UsageFrame
<1>2. ASSUME NEW c \in Callers, FindNone(c) PROVE UsageIsCounted'
  <2>1. Shapes
    BY HasShapes
  <2>2. /\ usage' = usage
        /\ \A d \in Callers, u \in Tunnels :
               InUse(d)' /\ port'[d] = u <=> InUse(d) /\ port[d] = u
    BY <1>2, <2>1 DEF FindNone, callerVars, Shapes, Made, InUse, NoTunnel, Goes
  <2> QED BY <2>2, UsageFrame
<1>3. ASSUME NEW c \in Callers, FindDead(c) PROVE UsageIsCounted'
  <2>1. Shapes
    BY HasShapes
  <2>2. /\ usage' = usage
        /\ \A d \in Callers, u \in Tunnels :
               InUse(d)' /\ port'[d] = u <=> InUse(d) /\ port[d] = u
    BY <1>3, <2>1 DEF FindDead, TunnelsFor, Shapes, Made, InUse, NoTunnel, Goes
  <2> QED BY <2>2, UsageFrame
<1>4. ASSUME NEW c \in Callers, ClearDead(c) PROVE UsageIsCounted'
  <2>1. Closes(c) /\ Shapes
    BY <1>4, CloseDoes, HasShapes
  <2>2. ASSUME NEW d \in Callers, NEW u \in Tunnels
        PROVE  InUse(d)' /\ port'[d] = u <=> InUse(d) /\ port[d] = u
    <3>1. CASE d = c
      BY <2>1, <3>1 DEF Closes, InUse, Locks
    <3>2. CASE d # c /\ d \in incoming[port[c]]
      <4>1. pc[d] = "waiting" /\ port[d] = port[c]
        BY <2>1, <3>2 DEF Closes, Waits
      <4>2. pc'[d] = "using" /\ port'[d] = port[d]
        BY <2>1, <3>2 DEF Closes, Shapes
      <4> QED BY <4>1, <4>2 DEF InUse
    <3>3. CASE d # c /\ d \notin incoming[port[c]]
      BY <2>1, <3>3 DEF Closes, InUse, Shapes
    <3> QED BY <3>1, <3>2, <3>3
  <2> QED BY <2>1, <2>2, UsageFrame DEF Closes
<1>5. ASSUME NEW c \in Callers, ConnectFails(c) PROVE UsageIsCounted'
  <2>1. Shapes
    BY HasShapes
  <2>2. /\ usage' = usage
        /\ \A d \in Callers, u \in Tunnels :
               InUse(d)' /\ port'[d] = u <=> InUse(d) /\ port[d] = u
    BY <1>5, <2>1 DEF ConnectFails, callerVars, Shapes, Made, InUse,
       NoTunnel, Goes
  <2> QED BY <2>2, UsageFrame
<1>6. ASSUME NEW c \in Callers, CreateTunnel(c) PROVE UsageIsCounted'
  <2>1. Shapes /\ Creates(c)
    BY <1>6, CreateDoes, HasShapes
  <2>2. /\ usage' = usage
        /\ \A d \in Callers, u \in Tunnels :
               InUse(d)' /\ port'[d] = u <=> InUse(d) /\ port[d] = u
    BY <1>6, <2>1 DEF Creates, Shapes, Made, InUse, NoTunnel, Goes
  <2> QED BY <2>2, UsageFrame
<1>7. ASSUME NEW c \in Callers, Increment(c) PROVE UsageIsCounted'
  <2>1. Shapes
    BY HasShapes
  <2>0. PICK p \in Tunnels : p = port[c]
    BY <1>7 DEF Increment, Decrement, Goes, TypeOK, Made, NoTunnel
  <2>2. /\ pc[c] = "found" /\ pc' = [pc EXCEPT ![c] = "using"] /\ port' = port
        /\ p \in Tunnels /\ usage' = [usage EXCEPT ![p] = usage[p] + 1]
    BY <1>7, <2>0 DEF Increment, Counted, Goes
  <2>3. Users(p)' = Users(p) \cup {c} /\ c \notin Users(p)
    BY <2>0, <2>1, <2>2 DEF Users, InUse, Shapes
  <2>4. IsFiniteSet(Users(p))
    BY SSHAssumption, FS_Subset DEF Users
  <2>5. Cardinality(Users(p)') = usage[p] + 1
    BY <2>2, <2>3, <2>4, FS_AddElement DEF UsageIsCounted, Users
  <2>6. \A u \in Tunnels : u # p => Users(u)' = Users(u)
    BY <2>0, <2>1, <2>2 DEF Users, InUse, Shapes
  <2>7. \A u \in Tunnels : usage'[u] = IF u = p THEN usage[p] + 1 ELSE usage[u]
    BY <2>1, <2>2 DEF Shapes
  <2>8. \A u \in Tunnels : usage'[u] = Cardinality(Users(u)')
    <3>1. ASSUME NEW u \in Tunnels, u # p PROVE usage'[u] = Cardinality(Users(u)')
      BY <2>6, <2>7, <3>1 DEF UsageIsCounted, Users
    <3> QED BY <2>5, <2>7, <3>1
  <2> QED BY <2>8 DEF UsageIsCounted, Users
<1>8. ASSUME NEW c \in Callers, Connect(c) PROVE UsageIsCounted'
  <2>1. Shapes
    BY HasShapes
  <2>2. /\ usage' = usage
        /\ \A d \in Callers, u \in Tunnels :
               InUse(d)' /\ port'[d] = u <=> InUse(d) /\ port[d] = u
    BY <1>8, <2>1 DEF Connect, callerVars, Shapes, Made, InUse, NoTunnel, Goes
  <2> QED BY <2>2, UsageFrame
<1>9. ASSUME NEW c \in Callers, Timeout(c) PROVE UsageIsCounted'
  <2>1. Shapes
    BY HasShapes
  <2>2. /\ usage' = usage
        /\ \A d \in Callers, u \in Tunnels :
               InUse(d)' /\ port'[d] = u <=> InUse(d) /\ port[d] = u
    BY <1>9, <2>1 DEF Timeout, callerVars, Shapes, Made, InUse, NoTunnel, Goes
  <2> QED BY <2>2, UsageFrame
<1>10. ASSUME NEW c \in Callers, Decrement(c) PROVE UsageIsCounted'
  <2>1. Decrements(c) /\ Shapes
    BY <1>10, DecrementDoes, HasShapes
  <2>0. PICK p \in Tunnels : p = port[c]
    BY <1>10 DEF Increment, Decrement, Goes, TypeOK, Made, NoTunnel
  <2>2. /\ InUse(c) /\ p \in Tunnels /\ pc'[c] \in {"idle", "closing"}
        /\ \A d \in Callers \ {c} : pc'[d] = pc[d] /\ port'[d] = port[d]
        /\ usage' = [usage EXCEPT ![p] = IF @ = 0 THEN 0 ELSE @ - 1]
    BY <2>0, <2>1 DEF Decrements, Shapes, InUse
  <2>3. Users(p)' = Users(p) \ {c} /\ c \in Users(p)
    <3>1. ~InUse(c)'
      BY <2>2 DEF InUse
    <3>2. \A d \in Callers \ {c} : InUse(d)' = InUse(d) /\ port'[d] = port[d]
      BY <2>2 DEF InUse
    <3> QED BY <2>0, <2>2, <3>1, <3>2 DEF Users
  <2>4. IsFiniteSet(Users(p))
    BY SSHAssumption, FS_Subset DEF Users
  <2>5. usage[p] = Cardinality(Users(p)) /\ usage[p] \in Nat
    BY <2>1, <2>2 DEF UsageIsCounted, Users, Shapes
  <2>6. usage[p] # 0
    BY <2>3, <2>4, <2>5, FS_EmptySet
  <2>7. Cardinality(Users(p)') = usage[p] - 1
    BY <2>3, <2>4, <2>5, FS_RemoveElement
  <2>8. \A u \in Tunnels : u # p => Users(u)' = Users(u)
    BY <2>0, <2>2 DEF Users, InUse
  <2>9. \A u \in Tunnels : usage'[u] = IF u = p THEN usage[p] - 1 ELSE usage[u]
    BY <2>1, <2>2, <2>6 DEF Shapes
  <2>10. \A u \in Tunnels : usage'[u] = Cardinality(Users(u)')
    <3>1. ASSUME NEW u \in Tunnels, u # p PROVE usage'[u] = Cardinality(Users(u)')
      BY <2>8, <2>9, <3>1 DEF UsageIsCounted, Users
    <3> QED BY <2>7, <2>9, <3>1
  <2> QED BY <2>10 DEF UsageIsCounted, Users
<1>11. ASSUME NEW c \in Callers, Disconnected(c) PROVE UsageIsCounted'
  <2>1. Closes(c) /\ Shapes
    BY <1>11, CloseDoes, HasShapes
  <2>2. ASSUME NEW d \in Callers, NEW u \in Tunnels
        PROVE  InUse(d)' /\ port'[d] = u <=> InUse(d) /\ port[d] = u
    <3>1. CASE d = c
      BY <2>1, <3>1 DEF Closes, InUse, Locks
    <3>2. CASE d # c /\ d \in incoming[port[c]]
      <4>1. pc[d] = "waiting" /\ port[d] = port[c]
        BY <2>1, <3>2 DEF Closes, Waits
      <4>2. pc'[d] = "using" /\ port'[d] = port[d]
        BY <2>1, <3>2 DEF Closes, Shapes
      <4> QED BY <4>1, <4>2 DEF InUse
    <3>3. CASE d # c /\ d \notin incoming[port[c]]
      BY <2>1, <3>3 DEF Closes, InUse, Shapes
    <3> QED BY <3>1, <3>2, <3>3
  <2> QED BY <2>1, <2>2, UsageFrame DEF Closes
<1>12. ASSUME NEW t \in Tunnels, HandlerRuns(t) PROVE UsageIsCounted'
  BY <1>12, UsageFrame DEF HandlerRuns, callerVars, InUse
<1>13. ASSUME NEW t \in Tunnels, PrepareTunnel(t) PROVE UsageIsCounted'
  <2>1. Prepares(t) /\ Shapes
    BY <1>13, PrepareDoes, HasShapes
  <2> DEFINE n == Len(accepted[t])
             w == accepted[t][n]
  <2>2. pc[w] = "waiting" /\ w \in Callers /\ n \in 1 .. n
    BY <2>1 DEF Prepares, Waits
  <2>3. PICK o \in {"connected", "using"} : pc' = [pc EXCEPT ![w] = o]
    BY <2>1 DEF Prepares
  <2> HIDE DEF w
  <2>4. usage' = usage /\ port' = port
    BY <2>1 DEF Prepares
  <2>5. \A d \in Callers, u \in Tunnels :
            InUse(d)' /\ port'[d] = u <=> InUse(d) /\ port[d] = u
    BY <2>1, <2>2, <2>3, <2>4 DEF InUse, Shapes
  <2> QED BY <2>4, <2>5, UsageFrame
<1>14. ASSUME NEW t \in Tunnels, HandlerEnds(t) PROVE UsageIsCounted'
  BY <1>14, UsageFrame DEF HandlerEnds, callerVars, InUse
<1>15. ASSUME Poll PROVE UsageIsCounted'
  BY <1>15, UsageFrame DEF Poll, callerVars, InUse
<1>16. ASSUME ServeWakeup PROVE UsageIsCounted'
  BY <1>16, UsageFrame DEF ServeWakeup, callerVars, InUse
<1>17. ASSUME RoundEnds PROVE UsageIsCounted'
  BY <1>17, UsageFrame DEF RoundEnds, callerVars, InUse
<1>18. ASSUME ManagerEnds PROVE UsageIsCounted'
  BY <1>18, UsageFrame DEF ManagerEnds, callerVars, InUse
<1>19. ASSUME Shutdown PROVE UsageIsCounted'
  BY <1>19, UsageFrame DEF Shutdown, callerVars, InUse
<1>20. ASSUME NEW t \in Tunnels, ServeSocket(t) PROVE UsageIsCounted'
  BY <1>20, UsageFrame DEF ServeSocket, callerVars, InUse
<1>21. CASE UNCHANGED vars
  BY <1>21, UsageFrame DEF vars, callerVars, InUse
<1> QED BY <1>1, <1>2, <1>3, <1>4, <1>5, <1>6, <1>7, <1>8, <1>9, <1>10, <1>11,
     <1>12, <1>13, <1>14, <1>15, <1>16, <1>17, <1>18, <1>19, <1>20, <1>21
  DEF Next, Caller, Handler, Manager

-----------------------------------------------------------------------------
(* Tunnels in use *)

\* A configuration has one tunnel.
LEMMA OneStep ==
  ASSUME TypeOK, Made, Waits, OneTunnelPerConfig, [Next]_vars
  PROVE  OneTunnelPerConfig'
<1>1. ASSUME NEW c \in Callers, FindTunnel(c) PROVE OneTunnelPerConfig'
  BY <1>1, HasShapes DEF FindTunnel, TunnelsFor, Goes, Locks,
     SocketMutexFree, callerVars, handlerVars, managerVars, Shapes,
     OneTunnelPerConfig, Made
<1>2. ASSUME NEW c \in Callers, FindNone(c) PROVE OneTunnelPerConfig'
  BY <1>2, HasShapes DEF FindNone, Goes, Locks, SocketMutexFree, callerVars,
     handlerVars, managerVars, Shapes, OneTunnelPerConfig, Made
<1>3. ASSUME NEW c \in Callers, FindDead(c) PROVE OneTunnelPerConfig'
  BY <1>3, HasShapes DEF FindDead, TunnelsFor, Goes, Locks, SocketMutexFree,
     callerVars, handlerVars, managerVars, Shapes, OneTunnelPerConfig, Made
<1>4. ASSUME NEW c \in Callers, ClearDead(c) PROVE OneTunnelPerConfig'
  <2>1. Closes(c) /\ Shapes
    BY <1>4, CloseDoes, HasShapes
  <2> QED BY <2>1 DEF Closes, Shapes, OneTunnelPerConfig, Made
<1>5. ASSUME NEW c \in Callers, ConnectFails(c) PROVE OneTunnelPerConfig'
  BY <1>5, HasShapes DEF ConnectFails, Goes, Locks, SocketMutexFree,
     callerVars, handlerVars, managerVars, Shapes, OneTunnelPerConfig, Made
<1>6. ASSUME NEW c \in Callers, CreateTunnel(c) PROVE OneTunnelPerConfig'
  <2>1. Creates(c) /\ Shapes
    BY <1>6, CreateDoes, HasShapes
  <2>2. CASE UNCHANGED <<config, list>>
    BY <2>2 DEF OneTunnelPerConfig
  <2>3. CASE /\ \A t \in list : config[t] # Wants[c]
             /\ \A t \in 1 .. made : config'[t] = config[t]
             /\ made' = made + 1 /\ config'[made'] = Wants[c]
             /\ list' = list \cup {made'}
    <3>1. \A t \in list : t # made' /\ config'[t] = config[t]
      BY <2>1, <2>3 DEF Made, Shapes
    <3> QED BY <2>3, <3>1 DEF OneTunnelPerConfig
  <2> QED BY <2>1, <2>2, <2>3 DEF Creates
<1>7. ASSUME NEW c \in Callers, Increment(c) PROVE OneTunnelPerConfig'
  BY <1>7, HasShapes DEF Increment, Goes, Locks, SocketMutexFree,
     callerVars, handlerVars, managerVars, Shapes, OneTunnelPerConfig, Made
<1>8. ASSUME NEW c \in Callers, Connect(c) PROVE OneTunnelPerConfig'
  BY <1>8, HasShapes DEF Connect, Goes, Locks, SocketMutexFree, callerVars,
     handlerVars, managerVars, Shapes, OneTunnelPerConfig, Made
<1>9. ASSUME NEW c \in Callers, Timeout(c) PROVE OneTunnelPerConfig'
  BY <1>9, HasShapes DEF Timeout, Goes, Locks, SocketMutexFree, callerVars,
     handlerVars, managerVars, Shapes, OneTunnelPerConfig, Made
<1>10. ASSUME NEW c \in Callers, Decrement(c) PROVE OneTunnelPerConfig'
  <2>1. Decrements(c) /\ Shapes
    BY <1>10, DecrementDoes, HasShapes
  <2> QED BY <2>1 DEF Decrements, Shapes, OneTunnelPerConfig, Made
<1>11. ASSUME NEW c \in Callers, Disconnected(c) PROVE OneTunnelPerConfig'
  <2>1. Closes(c) /\ Shapes
    BY <1>11, CloseDoes, HasShapes
  <2> QED BY <2>1 DEF Closes, Shapes, OneTunnelPerConfig, Made
<1>12. ASSUME NEW t \in Tunnels, HandlerRuns(t) PROVE OneTunnelPerConfig'
  BY <1>12, HasShapes DEF HandlerRuns, Goes, Locks, SocketMutexFree,
     callerVars, handlerVars, managerVars, Shapes, OneTunnelPerConfig, Made
<1>13. ASSUME NEW t \in Tunnels, PrepareTunnel(t) PROVE OneTunnelPerConfig'
  <2>1. Prepares(t) /\ Shapes
    BY <1>13, PrepareDoes, HasShapes
  <2> QED BY <2>1 DEF Prepares, Shapes, OneTunnelPerConfig, Made
<1>14. ASSUME NEW t \in Tunnels, HandlerEnds(t) PROVE OneTunnelPerConfig'
  BY <1>14, HasShapes DEF HandlerEnds, Goes, Locks, SocketMutexFree,
     callerVars, handlerVars, managerVars, Shapes, OneTunnelPerConfig, Made
<1>15. ASSUME Poll PROVE OneTunnelPerConfig'
  BY <1>15, HasShapes DEF Poll, Reported, Goes, Locks, SocketMutexFree,
     callerVars, handlerVars, managerVars, Shapes, OneTunnelPerConfig, Made
<1>16. ASSUME ServeWakeup PROVE OneTunnelPerConfig'
  BY <1>16, HasShapes DEF ServeWakeup, Goes, Locks, SocketMutexFree,
     callerVars, handlerVars, managerVars, Shapes, OneTunnelPerConfig, Made
<1>17. ASSUME RoundEnds PROVE OneTunnelPerConfig'
  BY <1>17, HasShapes DEF RoundEnds, Goes, Locks, SocketMutexFree,
     callerVars, handlerVars, managerVars, Shapes, OneTunnelPerConfig, Made
<1>18. ASSUME ManagerEnds PROVE OneTunnelPerConfig'
  BY <1>18, HasShapes DEF ManagerEnds, Goes, Locks, SocketMutexFree,
     callerVars, handlerVars, managerVars, Shapes, OneTunnelPerConfig, Made
<1>19. ASSUME Shutdown PROVE OneTunnelPerConfig'
  BY <1>19, HasShapes DEF Shutdown, Poke, Goes, Locks, SocketMutexFree,
     callerVars, handlerVars, managerVars, Shapes, OneTunnelPerConfig, Made
<1>20. ASSUME NEW t \in Tunnels, ServeSocket(t) PROVE OneTunnelPerConfig'
  BY <1>20, HasShapes DEF ServeSocket, Goes, Locks, SocketMutexFree,
     callerVars, handlerVars, managerVars, Shapes, OneTunnelPerConfig, Made
<1>21. CASE UNCHANGED vars
  BY <1>21 DEF vars, handlerVars, managerVars, callerVars, Shapes,
     OneTunnelPerConfig, Made
<1> QED BY <1>1, <1>2, <1>3, <1>4, <1>5, <1>6, <1>7, <1>8, <1>9, <1>10, <1>11,
     <1>12, <1>13, <1>14, <1>15, <1>16, <1>17, <1>18, <1>19, <1>20, <1>21
  DEF Next, Caller, Handler, Manager

\* Who is stopped, and who holds the mutex.
LEMMA StoppingStep ==
  ASSUME TypeOK, Made, Waits, OneTunnelPerConfig, Stopping, [Next]_vars
  PROVE  Stopping'
<1>1. ASSUME NEW c \in Callers, FindTunnel(c) PROVE Stopping'
  BY <1>1, HasShapes DEF FindTunnel, TunnelsFor, Goes, Locks,
     SocketMutexFree, callerVars, handlerVars, managerVars, Shapes,
     Stopping, Made, Locks
<1>2. ASSUME NEW c \in Callers, FindNone(c) PROVE Stopping'
  BY <1>2, HasShapes DEF FindNone, Goes, Locks, SocketMutexFree, callerVars,
     handlerVars, managerVars, Shapes, Stopping, Made, Locks
<1>3. ASSUME NEW c \in Callers, FindDead(c) PROVE Stopping'
  BY <1>3, HasShapes DEF FindDead, TunnelsFor, Goes, Locks, SocketMutexFree,
     callerVars, handlerVars, managerVars, Shapes, Stopping, Made, Locks
<1>4. ASSUME NEW c \in Callers, ClearDead(c) PROVE Stopping'
  <2>1. Closes(c) /\ Shapes
    BY <1>4, CloseDoes, HasShapes
  <2> QED BY <2>1 DEF Closes, Shapes, Stopping, Made, Locks, Waits
<1>5. ASSUME NEW c \in Callers, ConnectFails(c) PROVE Stopping'
  BY <1>5, HasShapes DEF ConnectFails, Goes, Locks, SocketMutexFree,
     callerVars, handlerVars, managerVars, Shapes, Stopping, Made, Locks
<1>6. ASSUME NEW c \in Callers, CreateTunnel(c) PROVE Stopping'
  <2>1. Creates(c) /\ Shapes
    BY <1>6, CreateDoes, HasShapes
  <2>2. /\ \A d \in Callers : ~Locks(d)'
        /\ manager' = manager /\ stop' = stop /\ ~stop
    BY <2>1 DEF Creates, Shapes, Locks, Stopping
  <2>3. list' \cap stopping' = {}
    <3>1. list \cap stopping = {}
      BY <2>1 DEF Creates, Stopping
    <3>2. list' = list \/ (list' = list \cup {made'} /\ made' \notin stopping)
      BY <2>1 DEF Creates, Shapes, Made
    <3> QED BY <2>1, <3>1, <3>2 DEF Creates
  <2> QED BY <2>2, <2>3 DEF Stopping, Locks
<1>7. ASSUME NEW c \in Callers, Increment(c) PROVE Stopping'
  BY <1>7, HasShapes DEF Increment, Goes, Locks, SocketMutexFree,
     callerVars, handlerVars, managerVars, Shapes, Stopping, Made, Locks
<1>8. ASSUME NEW c \in Callers, Connect(c) PROVE Stopping'
  BY <1>8, HasShapes DEF Connect, Goes, Locks, SocketMutexFree, callerVars,
     handlerVars, managerVars, Shapes, Stopping, Made, Locks
<1>9. ASSUME NEW c \in Callers, Timeout(c) PROVE Stopping'
  BY <1>9, HasShapes DEF Timeout, Goes, Locks, SocketMutexFree, callerVars,
     handlerVars, managerVars, Shapes, Stopping, Made, Locks
<1>10. ASSUME NEW c \in Callers, Decrement(c) PROVE Stopping'
  <2>1. Decrements(c) /\ Shapes
    BY <1>10, DecrementDoes, HasShapes
  <2>2. manager' = manager /\ stop' = stop /\ ~stop /\ list' = list
    BY <2>1 DEF Decrements, Stopping
  <2>3. list \cap stopping = {}
    BY <2>1 DEF Decrements, Stopping
  <2>4. \A d \in Callers \ {c} : ~Locks(d)' /\ port'[d] = port[d]
    BY <2>1 DEF Decrements, Shapes, Locks
  <2>5. CASE stopping' = stopping /\ pc' = [pc EXCEPT ![c] = "idle"]
    BY <2>1, <2>2, <2>3, <2>4, <2>5 DEF Stopping, Locks, Shapes
  <2>6. CASE \E u \in list :
                 /\ config[u] = config[port[c]]
                 /\ port' = [port EXCEPT ![c] = u]
                 /\ pc' = [pc EXCEPT ![c] = "closing"]
                 /\ stopping' = stopping \cup {v \in list : config[v] = config[port[c]]}
    <3>1. PICK u \in list :
                 /\ config[u] = config[port[c]]
                 /\ port' = [port EXCEPT ![c] = u]
                 /\ pc' = [pc EXCEPT ![c] = "closing"]
                 /\ stopping' = stopping \cup {v \in list : config[v] = config[port[c]]}
      BY <2>6
    <3>2. port'[c] = u /\ pc'[c] = "closing"
      BY <2>1, <3>1 DEF Shapes
    <3>3. list' \cap stopping' = {u}
      BY <2>2, <2>3, <3>1 DEF OneTunnelPerConfig
    <3> QED BY <2>2, <2>4, <3>2, <3>3 DEF Stopping, Locks
  <2> QED BY <2>1, <2>5, <2>6 DEF Decrements
<1>11. ASSUME NEW c \in Callers, Disconnected(c) PROVE Stopping'
  <2>1. Closes(c) /\ Shapes
    BY <1>11, CloseDoes, HasShapes
  <2> QED BY <2>1 DEF Closes, Shapes, Stopping, Made, Locks, Waits
<1>12. ASSUME NEW t \in Tunnels, HandlerRuns(t) PROVE Stopping'
  BY <1>12, HasShapes DEF HandlerRuns, Goes, Locks, SocketMutexFree,
     callerVars, handlerVars, managerVars, Shapes, Stopping, Made, Locks
<1>13. ASSUME NEW t \in Tunnels, PrepareTunnel(t) PROVE Stopping'
  <2>1. Prepares(t) /\ Shapes
    BY <1>13, PrepareDoes, HasShapes
  <2> DEFINE w == accepted[t][Len(accepted[t])]
  <2>2. PICK o \in {"connected", "using"} : pc' = [pc EXCEPT ![w] = o]
    BY <2>1 DEF Prepares
  <2>3. pc[w] = "waiting" /\ w \in Callers
    BY <2>1 DEF Prepares, Waits
  <2> HIDE DEF w
  <2>4. \A d \in Callers : Locks(d)' = Locks(d)
    BY <2>1, <2>2, <2>3 DEF Locks, Shapes
  <2>5. ~stop
    BY <2>3 DEF Stopping
  <2> QED BY <2>1, <2>4, <2>5 DEF Prepares, Stopping
<1>14. ASSUME NEW t \in Tunnels, HandlerEnds(t) PROVE Stopping'
  BY <1>14, HasShapes DEF HandlerEnds, Goes, Locks, SocketMutexFree,
     callerVars, handlerVars, managerVars, Shapes, Stopping, Made, Locks
<1>15. ASSUME Poll PROVE Stopping'
  BY <1>15, HasShapes DEF Poll, Reported, Goes, Locks, SocketMutexFree,
     callerVars, handlerVars, managerVars, Shapes, Stopping, Made, Locks
<1>16. ASSUME ServeWakeup PROVE Stopping'
  BY <1>16, HasShapes DEF ServeWakeup, Goes, Locks, SocketMutexFree,
     callerVars, handlerVars, managerVars, Shapes, Stopping, Made, Locks
<1>17. ASSUME RoundEnds PROVE Stopping'
  BY <1>17, HasShapes DEF RoundEnds, Goes, Locks, SocketMutexFree,
     callerVars, handlerVars, managerVars, Shapes, Stopping, Made, Locks
<1>18. ASSUME ManagerEnds PROVE Stopping'
  BY <1>18, HasShapes DEF ManagerEnds, Goes, Locks, SocketMutexFree,
     callerVars, handlerVars, managerVars, Shapes, Stopping, Made, Locks
<1>19. ASSUME Shutdown PROVE Stopping'
  BY <1>19, HasShapes DEF Shutdown, Poke, Goes, Locks, SocketMutexFree,
     callerVars, handlerVars, managerVars, Shapes, Stopping, Made, Locks
<1>20. ASSUME NEW t \in Tunnels, ServeSocket(t) PROVE Stopping'
  BY <1>20, HasShapes DEF ServeSocket, Goes, Locks, SocketMutexFree,
     callerVars, handlerVars, managerVars, Shapes, Stopping, Made, Locks
<1>21. CASE UNCHANGED vars
  BY <1>21 DEF vars, handlerVars, managerVars, callerVars, Shapes, Stopping,
     Made, Locks
<1> QED BY <1>1, <1>2, <1>3, <1>4, <1>5, <1>6, <1>7, <1>8, <1>9, <1>10, <1>11,
     <1>12, <1>13, <1>14, <1>15, <1>16, <1>17, <1>18, <1>19, <1>20, <1>21
  DEF Next, Caller, Handler, Manager

\* No tunnel is left behind.
LEMMA WantedStep ==
  ASSUME TypeOK, Made, Waits, UsageIsCounted, OneTunnelPerConfig, Stopping,
         Wanted, [Next]_vars
  PROVE  Wanted'
<1>1. ASSUME NEW c \in Callers, FindTunnel(c) PROVE Wanted'
  <2>1. Shapes /\ pc[c] = "idle"
    BY <1>1, HasShapes DEF FindTunnel, Goes
  <2>2. \A d \in Callers : port[d] # NoTunnel => port'[d] = port[d]
    BY <1>1, <2>1 DEF FindTunnel, Shapes, Made
  <2>3. config' = config /\ list' = list
    BY <1>1 DEF FindTunnel
  <2>4. \A d \in Callers : port[d] # NoTunnel => port'[d] # NoTunnel
    BY <2>2
  <2> QED BY <2>2, <2>3, <2>4 DEF Wanted
<1>2. ASSUME NEW c \in Callers, FindNone(c) PROVE Wanted'
  BY <1>2, HasShapes DEF FindNone, Goes, Locks, SocketMutexFree, callerVars,
     handlerVars, managerVars, Shapes, Wanted, Made, NoTunnel
<1>3. ASSUME NEW c \in Callers, FindDead(c) PROVE Wanted'
  <2>1. Shapes /\ pc[c] = "idle"
    BY <1>3, HasShapes DEF FindDead, Goes
  <2>2. \A d \in Callers : port[d] # NoTunnel => port'[d] = port[d]
    BY <1>3, <2>1 DEF FindDead, Shapes, Made
  <2>3. config' = config /\ list' = list
    BY <1>3 DEF FindDead
  <2>4. \A d \in Callers : port[d] # NoTunnel => port'[d] # NoTunnel
    BY <2>2
  <2> QED BY <2>2, <2>3, <2>4 DEF Wanted
<1>4. ASSUME NEW c \in Callers, ClearDead(c) PROVE Wanted'
  <2>1. Closes(c) /\ Shapes
    BY <1>4, CloseDoes, HasShapes
  <2> QED BY <2>1 DEF Closes, Shapes, Wanted, Made, NoTunnel, Stopping,
     OneTunnelPerConfig
<1>5. ASSUME NEW c \in Callers, ConnectFails(c) PROVE Wanted'
  BY <1>5, HasShapes DEF ConnectFails, Goes, Locks, SocketMutexFree,
     callerVars, handlerVars, managerVars, Shapes, Wanted, Made, NoTunnel
<1>6. ASSUME NEW c \in Callers, CreateTunnel(c) PROVE Wanted'
  <2>1. Creates(c) /\ Shapes
    BY <1>6, CreateDoes, HasShapes
  <2>2. \A d \in Callers \ {c} : port'[d] = port[d]
    BY <2>1 DEF Creates, Shapes
  <2>3. port[c] = NoTunnel
    BY <2>1 DEF Creates, Made
  <2>4. \A t \in 1 .. made : config'[t] = config[t]
    BY <2>1 DEF Creates
  <2>5. ASSUME NEW t \in list
        PROVE  \E d \in Callers : port'[d] # NoTunnel /\ config'[port'[d]] = config'[t]
    <3>1. PICK d \in Callers : port[d] # NoTunnel /\ config[port[d]] = config[t]
      BY DEF Wanted
    <3>2. d # c /\ port[d] \in 1 .. made /\ t \in 1 .. made
      BY <2>3, <3>1 DEF Made, NoTunnel
    <3> QED BY <2>2, <2>4, <3>1, <3>2
  <2>6. CASE list' = list
    BY <2>5, <2>6 DEF Wanted
  <2>7. CASE /\ list' = list \cup {made'} /\ port' = [port EXCEPT ![c] = made']
             /\ made' = made + 1
    <3>1. port'[c] = made' /\ made' # NoTunnel
      BY <2>1, <2>7 DEF Shapes, NoTunnel
    <3> QED BY <2>5, <2>7, <3>1 DEF Wanted
  <2> QED BY <2>1, <2>6, <2>7 DEF Creates
<1>7. ASSUME NEW c \in Callers, Increment(c) PROVE Wanted'
  BY <1>7, HasShapes DEF Increment, Goes, Locks, SocketMutexFree,
     callerVars, handlerVars, managerVars, Shapes, Wanted, Made, NoTunnel
<1>8. ASSUME NEW c \in Callers, Connect(c) PROVE Wanted'
  BY <1>8, HasShapes DEF Connect, Goes, Locks, SocketMutexFree, callerVars,
     handlerVars, managerVars, Shapes, Wanted, Made, NoTunnel
<1>9. ASSUME NEW c \in Callers, Timeout(c) PROVE Wanted'
  BY <1>9, HasShapes DEF Timeout, Goes, Locks, SocketMutexFree, callerVars,
     handlerVars, managerVars, Shapes, Wanted, Made, NoTunnel
<1>10. ASSUME NEW c \in Callers, Decrement(c) PROVE Wanted'
  <2>1. Decrements(c) /\ Shapes
    BY <1>10, DecrementDoes, HasShapes
  <2>2. /\ \A d \in Callers \ {c} : port'[d] = port[d]
        /\ list' = list /\ config' = config
        /\ InUse(c) /\ port[c] \in Tunnels /\ port[c] \in 1 .. made
    BY <2>1 DEF Decrements, Shapes, InUse, TypeOK, NoTunnel
  <2>3. ASSUME NEW t \in list
        PROVE  \E d \in Callers : port'[d] # NoTunnel /\ config[port'[d]] = config[t]
    <3>1. PICK d \in Callers : port[d] # NoTunnel /\ config[port[d]] = config[t]
      BY DEF Wanted
    <3>2. CASE d # c
      BY <2>2, <3>1, <3>2
    <3>3. CASE d = c
      <4>1. CASE usage[port[c]] # 1
        <5>1. PICK e \in Callers \ {c} : port[e] = port[c]
          BY <2>2, <4>1, OtherUser
        <5> QED BY <2>2, <3>1, <3>3, <5>1
      <4>2. CASE usage[port[c]] = 1
        <5>1. PICK u \in list : /\ config[u] = config[port[c]]
                                /\ port' = [port EXCEPT ![c] = u]
          BY <2>1, <3>1, <3>3, <4>2 DEF Decrements
        <5>2. port'[c] = u /\ u # NoTunnel
          BY <2>1, <5>1 DEF Shapes, Made, NoTunnel
        <5> QED BY <3>1, <3>3, <5>1, <5>2
      <4> QED BY <4>1, <4>2
    <3> QED BY <3>2, <3>3
  <2> QED BY <2>2, <2>3 DEF Wanted
<1>11. ASSUME NEW c \in Callers, Disconnected(c) PROVE Wanted'
  <2>1. Closes(c) /\ Shapes
    BY <1>11, CloseDoes, HasShapes
  <2> QED BY <2>1 DEF Closes, Shapes, Wanted, Made, NoTunnel, Stopping,
     OneTunnelPerConfig
<1>12. ASSUME NEW t \in Tunnels, HandlerRuns(t) PROVE Wanted'
  BY <1>12, HasShapes DEF HandlerRuns, Goes, Locks, SocketMutexFree,
     callerVars, handlerVars, managerVars, Shapes, Wanted, Made, NoTunnel
<1>13. ASSUME NEW t \in Tunnels, PrepareTunnel(t) PROVE Wanted'
  <2>1. Prepares(t) /\ Shapes
    BY <1>13, PrepareDoes, HasShapes
  <2> QED BY <2>1 DEF Prepares, Shapes, Wanted, Made, NoTunnel
<1>14. ASSUME NEW t \in Tunnels, HandlerEnds(t) PROVE Wanted'
  BY <1>14, HasShapes DEF HandlerEnds, Goes, Locks, SocketMutexFree,
     callerVars, handlerVars, managerVars, Shapes, Wanted, Made, NoTunnel
<1>15. ASSUME Poll PROVE Wanted'
  BY <1>15, HasShapes DEF Poll, Reported, Goes, Locks, SocketMutexFree,
     callerVars, handlerVars, managerVars, Shapes, Wanted, Made, NoTunnel
<1>16. ASSUME ServeWakeup PROVE Wanted'
  BY <1>16, HasShapes DEF ServeWakeup, Goes, Locks, SocketMutexFree,
     callerVars, handlerVars, managerVars, Shapes, Wanted, Made, NoTunnel
<1>17. ASSUME RoundEnds PROVE Wanted'
  BY <1>17, HasShapes DEF RoundEnds, Goes, Locks, SocketMutexFree,
     callerVars, handlerVars, managerVars, Shapes, Wanted, Made, NoTunnel
<1>18. ASSUME ManagerEnds PROVE Wanted'
  BY <1>18, HasShapes DEF ManagerEnds, Goes, Locks, SocketMutexFree,
     callerVars, handlerVars, managerVars, Shapes, Wanted, Made, NoTunnel
<1>19. ASSUME Shutdown PROVE Wanted'
  BY <1>19, HasShapes DEF Shutdown, Poke, Goes, Locks, SocketMutexFree,
     callerVars, handlerVars, managerVars, Shapes, Wanted, Made, NoTunnel
<1>20. ASSUME NEW t \in Tunnels, ServeSocket(t) PROVE Wanted'
  BY <1>20, HasShapes DEF ServeSocket, Goes, Locks, SocketMutexFree,
     callerVars, handlerVars, managerVars, Shapes, Wanted, Made, NoTunnel
<1>21. CASE UNCHANGED vars
  BY <1>21 DEF vars, handlerVars, managerVars, callerVars, Shapes, Wanted,
     Made, NoTunnel
<1> QED BY <1>1, <1>2, <1>3, <1>4, <1>5, <1>6, <1>7, <1>8, <1>9, <1>10, <1>11,
     <1>12, <1>13, <1>14, <1>15, <1>16, <1>17, <1>18, <1>19, <1>20, <1>21
  DEF Next, Caller, Handler, Manager

\* A tunnel in use stays open.
LEMMA OpenStep ==
  ASSUME TypeOK, Made, Waits, UsageIsCounted, OneTunnelPerConfig, Stopping,
         Open, [Next]_vars
  PROVE  Open'
<1>1. ASSUME NEW c \in Callers, FindTunnel(c) PROVE Open'
  BY <1>1, HasShapes DEF FindTunnel, TunnelsFor, Goes, SocketMutexFree,
     Stopping, Locks, Shapes, Open, Made, NoTunnel, InUse, handlerVars,
     managerVars
<1>2. ASSUME NEW c \in Callers, FindNone(c) PROVE Open'
  BY <1>2, HasShapes DEF FindNone, Goes, Locks, SocketMutexFree, callerVars,
     handlerVars, managerVars, Shapes, Open, Made, NoTunnel, InUse
<1>3. ASSUME NEW c \in Callers, FindDead(c) PROVE Open'
  <2>1. Shapes
    BY HasShapes
  <2>2. PICK t \in list : /\ thread[t] # "running"
                          /\ stopping' = stopping \cup {t}
                          /\ port' = [port EXCEPT ![c] = t]
                          /\ mishaps' = Notes("early", thread[t] = "starting")
    BY <1>3 DEF FindDead, TunnelsFor
  <2>3. /\ list' = list /\ thread' = thread
        /\ pc[c] = "idle" /\ pc' = [pc EXCEPT ![c] = "clearing"]
        /\ \A d \in Callers : ~Locks(d)
    BY <1>3 DEF FindDead, Goes, SocketMutexFree, Locks
  <2>4. t \in Tunnels /\ thread[t] # "none" /\ t \notin stopping
    <3>1. t \in 1 .. made /\ made \in 0 .. MaxTunnels
      BY DEF Made, TypeOK
    <3>2. t \in Tunnels /\ ~(t > made)
      BY <3>1, SSHAssumption DEF Tunnels
    <3> QED BY <2>3, <3>2 DEF Made, Stopping
  <2>5. mishaps' # {}
    <3>1. CASE thread[t] = "starting"
      BY <2>2, <3>1 DEF Notes
    <3>2. CASE thread[t] = "ended"
      BY <2>2, <2>4, <3>2 DEF Notes, Open
    <3> QED BY <2>2, <2>4, <3>1, <3>2 DEF TypeOK
  <2> QED BY <2>5 DEF Open
<1>4. ASSUME NEW c \in Callers, ClearDead(c) PROVE Open'
  <2>1. Closes(c) /\ Shapes
    BY <1>4, CloseDoes, HasShapes
  <2> QED BY <2>1 DEF Closes, Shapes, Open, Made, NoTunnel, InUse, Waits,
     Stopping, Locks
<1>5. ASSUME NEW c \in Callers, ConnectFails(c) PROVE Open'
  BY <1>5, HasShapes DEF ConnectFails, Goes, Locks, SocketMutexFree,
     callerVars, handlerVars, managerVars, Shapes, Open, Made, NoTunnel,
     InUse
<1>6. ASSUME NEW c \in Callers, CreateTunnel(c) PROVE Open'
  <2>1. Creates(c) /\ Shapes
    BY <1>6, CreateDoes, HasShapes
  <2> QED BY <2>1 DEF Creates, Shapes, Open, Made, NoTunnel, InUse, Stopping
<1>7. ASSUME NEW c \in Callers, Increment(c) PROVE Open'
  BY <1>7, HasShapes DEF Increment, Goes, Locks, SocketMutexFree,
     callerVars, handlerVars, managerVars, Shapes, Open, Made, NoTunnel,
     InUse
<1>8. ASSUME NEW c \in Callers, Connect(c) PROVE Open'
  BY <1>8, HasShapes DEF Connect, Goes, Locks, SocketMutexFree, callerVars,
     handlerVars, managerVars, Shapes, Open, Made, NoTunnel, InUse
<1>9. ASSUME NEW c \in Callers, Timeout(c) PROVE Open'
  BY <1>9, HasShapes DEF Timeout, Goes, Locks, SocketMutexFree, callerVars,
     handlerVars, managerVars, Shapes, Open, Made, NoTunnel, InUse
<1>10. ASSUME NEW c \in Callers, Decrement(c) PROVE Open'
  <2>1. Decrements(c) /\ Shapes
    BY <1>10, DecrementDoes, HasShapes
  <2>2. /\ \A d \in Callers \ {c} : pc'[d] = pc[d] /\ port'[d] = port[d]
        /\ pc'[c] \in {"idle", "closing"}
        /\ list' = list /\ thread' = thread /\ stopping \subseteq stopping'
        /\ mishaps \subseteq mishaps'
        /\ InUse(c) /\ port[c] \in Tunnels
    BY <2>1 DEF Decrements, Shapes, InUse, TypeOK, NoTunnel, Made
  <2>3. CASE stopping' = stopping
    BY <2>2, <2>3 DEF Open, InUse
  <2>4. CASE /\ usage[port[c]] = 1
             /\ stopping' = stopping \cup {u \in list : config[u] = config[port[c]]}
    <3>1. ASSUME NEW d \in Callers \ {c}, pc[d] = "found" \/ InUse(d), mishaps' = {}
          PROVE  port[d] \in list \ stopping'
      <4>1. port[d] \in list \ stopping /\ port[c] \in list \ stopping
        BY <2>2, <3>1 DEF Open
      <4>2. CASE pc[d] = "found"
        <5>1. config[port[d]] # config[port[c]]
          BY <2>1, <2>4, <3>1, <4>1, <4>2 DEF Decrements, OneTunnelPerConfig
        <5> QED BY <2>4, <4>1, <5>1
      <4>3. CASE InUse(d)
        <5>1. port[d] # port[c]
          BY <2>2, <2>4, <4>3, OtherUser
        <5> QED BY <2>4, <4>1, <5>1 DEF OneTunnelPerConfig
      <4> QED BY <3>1, <4>2, <4>3
    <3> QED BY <2>2, <3>1 DEF Open, InUse
  <2> QED BY <2>1, <2>3, <2>4 DEF Decrements
<1>11. ASSUME NEW c \in Callers, Disconnected(c) PROVE Open'
  <2>1. Closes(c) /\ Shapes
    BY <1>11, CloseDoes, HasShapes
  <2> QED BY <2>1 DEF Closes, Shapes, Open, Made, NoTunnel, InUse, Waits,
     Stopping, Locks
<1>12. ASSUME NEW t \in Tunnels, HandlerRuns(t) PROVE Open'
  BY <1>12, HasShapes DEF HandlerRuns, Goes, Locks, SocketMutexFree,
     callerVars, handlerVars, managerVars, Shapes, Open, Made, NoTunnel,
     InUse
<1>13. ASSUME NEW t \in Tunnels, PrepareTunnel(t) PROVE Open'
  <2>1. Prepares(t) /\ Shapes
    BY <1>13, PrepareDoes, HasShapes
  <2> QED BY <2>1 DEF Prepares, Shapes, Open, Made, NoTunnel, InUse, Waits
<1>14. ASSUME NEW t \in Tunnels, HandlerEnds(t) PROVE Open'
  BY <1>14, HasShapes DEF HandlerEnds, Notes, callerVars, managerVars,
     Shapes, Open, Made, NoTunnel, InUse
<1>15. ASSUME Poll PROVE Open'
  BY <1>15, HasShapes DEF Poll, Reported, Goes, Locks, SocketMutexFree,
     callerVars, handlerVars, managerVars, Shapes, Open, Made, NoTunnel,
     InUse
<1>16. ASSUME ServeWakeup PROVE Open'
  BY <1>16, HasShapes DEF ServeWakeup, Goes, Locks, SocketMutexFree,
     callerVars, handlerVars, managerVars, Shapes, Open, Made, NoTunnel,
     InUse
<1>17. ASSUME RoundEnds PROVE Open'
  BY <1>17, HasShapes DEF RoundEnds, Goes, Locks, SocketMutexFree,
     callerVars, handlerVars, managerVars, Shapes, Open, Made, NoTunnel,
     InUse
<1>18. ASSUME ManagerEnds PROVE Open'
  BY <1>18, HasShapes DEF ManagerEnds, callerVars, handlerVars, Stopping,
     Shapes, Open, Made, NoTunnel, InUse
<1>19. ASSUME Shutdown PROVE Open'
  BY <1>19, HasShapes DEF Shutdown, Poke, Goes, Locks, SocketMutexFree,
     callerVars, handlerVars, managerVars, Shapes, Open, Made, NoTunnel,
     InUse
<1>20. ASSUME NEW t \in Tunnels, ServeSocket(t) PROVE Open'
  BY <1>20, HasShapes DEF ServeSocket, Goes, Locks, SocketMutexFree,
     callerVars, handlerVars, managerVars, Shapes, Open, Made, NoTunnel,
     InUse
<1>21. CASE UNCHANGED vars
  BY <1>21 DEF vars, handlerVars, managerVars, callerVars, Shapes, Open,
     Made, NoTunnel, InUse
<1> QED BY <1>1, <1>2, <1>3, <1>4, <1>5, <1>6, <1>7, <1>8, <1>9, <1>10, <1>11,
     <1>12, <1>13, <1>14, <1>15, <1>16, <1>17, <1>18, <1>19, <1>20, <1>21
  DEF Next, Caller, Handler, Manager

-----------------------------------------------------------------------------
LEMMA InvInit == Init => Inv
<1> SUFFICES ASSUME Init PROVE Inv
  OBVIOUS
<1> USE SSHAssumption DEF Init, NoTunnel
<1>1. TypeOK
  <2>1. <<>> \in Seq(Configs) /\ Len(<<>>) = 0 /\ <<>> \in Seq(Callers)
    OBVIOUS
  <2>2. config \in Seq(Configs) /\ Len(config) = made
    BY <2>1
  <2>3. accepted \in [Tunnels -> Seq(Callers)]
    BY <2>1
  <2>4. /\ thread \in [Tunnels -> {"none", "starting", "running", "ended"}]
        /\ incoming \in [Tunnels -> SUBSET Callers] /\ usage \in [Tunnels -> Nat]
    OBVIOUS
  <2>5. made \in 0 .. MaxTunnels /\ list \subseteq 1 .. made
    OBVIOUS
  <2> QED BY <2>2, <2>3, <2>4, <2>5 DEF TypeOK, Mishaps
<1>2. Made
  BY DEF Made, Tunnels
<1>3. Waits
  BY DEF Waits
<1>4. UsageIsCounted
  BY FS_EmptySet DEF UsageIsCounted, InUse
<1>5. OneTunnelPerConfig /\ Stopping /\ Open /\ Wanted
  BY DEF OneTunnelPerConfig, Stopping, Open, Wanted, Locks, InUse
<1> QED BY <1>1, <1>2, <1>3, <1>4, <1>5 DEF Inv

LEMMA InvNext == Inv /\ [Next]_vars => Inv'
BY TypeStep, MadeStep, WaitsStep, UsageStep, OneStep, StoppingStep, OpenStep,
   WantedStep DEF Inv

\* The variables have their types in every reachable state.
THEOREM SSHTypeCorrect == Spec => []TypeOK
<1>1. Inv => TypeOK
  BY DEF Inv
<1> QED BY <1>1, InvInit, InvNext, PTL DEF Spec

\* However many callers open a session at once, createTunnel makes one tunnel
\* for a configuration.
THEOREM OneTunnelAlways == Spec => []OneTunnelPerConfig
<1>1. Inv => OneTunnelPerConfig
  BY DEF Inv
<1> QED BY <1>1, InvInit, InvNext, PTL DEF Spec

\* portUsageIncrement and portUsageDecrement count the users of each port.
THEOREM UsageAlwaysCounted == Spec => []UsageIsCounted
<1>1. Inv => UsageIsCounted
  BY DEF Inv
<1> QED BY <1>1, InvInit, InvNext, PTL DEF Spec

\* A tunnel is open while it is used, unless one of the three mishaps has
\* happened, and none is left behind without a user.
THEOREM OpenAlways == Spec => []OpenWhileUsed
<1>1. Inv => OpenWhileUsed
  BY DEF Inv, Open, Wanted, OpenWhileUsed
<1> QED BY <1>1, InvInit, InvNext, PTL DEF Spec
=============================================================================
