----------------------------- MODULE SSHTunnels -----------------------------
(***************************************************************************)
(* The SSH tunnels: wb::TunnelManager (wb_tunnel.cpp), which counts the    *)
(* users of each port, ssh::SSHTunnelManager, whose thread polls the local *)
(* sockets and accepts connections, and ssh::SSHTunnelHandler, whose       *)
(* threads serve them.                                                     *)
(*                                                                         *)
(* The callers are the threads that open database connections: each asks   *)
(* for a tunnel, counts itself as a user of its port, connects to it and   *)
(* goes.  A tunnel is known by its port, which is never given out twice.   *)
(***************************************************************************)
EXTENDS Integers, Sequences, FiniteSets, SequencesExt, FiniteSetsExt

CONSTANTS
    Callers,        \* the threads that open connections
    Wants,          \* the configuration each asks for
    MaxTunnels      \* bound: tunnels made

ASSUME SSHAssumption ==
    /\ MaxTunnels \in Nat
    /\ IsFiniteSet(Callers)
    /\ DOMAIN Wants = Callers

Tunnels == 1 .. MaxTunnels
NoTunnel == 0
Configs == {Wants[c] : c \in Callers}

VARIABLES
    made,       \* the number of tunnels made
    config,     \* the configuration of each tunnel
    list,       \* SSHTunnelManager::_socketList
    thread,     \* each tunnel's handler thread: "none" before it is made
    stopping,   \* the handlers whose _stop is set
    incoming,   \* the clients that wait at each tunnel's socket
    accepted,   \* _newConnection of each handler
    usage,      \* TunnelManager::_portUsage
    pc,         \* what each caller is doing
    port,       \* the tunnel each caller was given
    manager,    \* the manager's thread
    polled,     \* the sockets it polls
    ready,      \* those the poll has reported and that are still to be handled
    pokes,      \* connections that wait at the wake-up socket
    stop,       \* SSHTunnelManager::_stop
    mishaps     \* history: how a tunnel may have been lost, see Mishaps

\* "died": a handler has given up its session.  "missed": a tunnel was closed
\* that a caller had found and not yet counted itself a user of.  "early": a
\* tunnel was taken for dead before its thread had said that it runs.
Mishaps == {"died", "missed", "early"}

Wakeup == 0

handlerVars == <<thread, stopping, incoming, accepted>>
managerVars == <<manager, polled, ready, pokes, stop>>
callerVars == <<usage, pc, port>>
vars == <<made, config, list, handlerVars, callerVars, managerVars, mishaps>>

TypeOK ==
    /\ made \in 0 .. MaxTunnels
    /\ config \in Seq(Configs) /\ Len(config) = made
    /\ list \subseteq 1 .. made
    /\ thread \in [Tunnels -> {"none", "starting", "running", "ended"}]
    /\ stopping \subseteq Tunnels
    /\ incoming \in [Tunnels -> SUBSET Callers]
    /\ accepted \in [Tunnels -> Seq(Callers)]
    /\ usage \in [Tunnels -> Nat]
    /\ pc \in [Callers -> {"idle", "clearing", "connecting", "found", "using",
                           "waiting", "connected", "closing"}]
    /\ port \in [Callers -> {NoTunnel} \cup Tunnels]
    /\ manager \in {"polling", "serving", "ending", "ended"}
    /\ polled \subseteq Tunnels
    /\ ready \subseteq {Wakeup} \cup Tunnels
    /\ pokes \in Nat
    /\ stop \in BOOLEAN
    /\ mishaps \subseteq Mishaps

Init ==
    /\ made = 0 /\ config = <<>> /\ list = {}
    /\ thread = [t \in Tunnels |-> "none"]
    /\ stopping = {}
    /\ incoming = [t \in Tunnels |-> {}]
    /\ accepted = [t \in Tunnels |-> <<>>]
    /\ usage = [t \in Tunnels |-> 0]
    /\ pc = [c \in Callers |-> "idle"]
    /\ port = [c \in Callers |-> NoTunnel]
    /\ manager = "polling" /\ polled = {} /\ ready = {}
    /\ pokes = 0 /\ stop = FALSE
    /\ mishaps = {}

-----------------------------------------------------------------------------
Goes(c, from, to) == pc[c] = from /\ pc' = [pc EXCEPT ![c] = to]

\* _socketMutex and _usageMapMtx are held while a handler's thread is joined,
\* else only within a step.
SocketMutexFree == \A c \in Callers : pc[c] \notin {"clearing", "closing"}
UsageMutexFree == \A c \in Callers : pc[c] # "closing"

\* The tunnels in the list with a configuration: none or one.
TunnelsFor(k) == {t \in list : config[t] = k}

Notes(mishap, happened) == mishaps \cup (IF happened THEN {mishap} ELSE {})

-----------------------------------------------------------------------------
(* The callers *)

\* createTunnel finds a tunnel whose thread runs.
FindTunnel(c) ==
    /\ ~stop /\ SocketMutexFree
    /\ Goes(c, "idle", "found")
    /\ \E t \in TunnelsFor(Wants[c]) :
           thread[t] = "running" /\ port' = [port EXCEPT ![c] = t]
    /\ UNCHANGED <<made, config, list, handlerVars, usage, managerVars, mishaps>>

FindNone(c) ==
    /\ ~stop /\ SocketMutexFree
    /\ TunnelsFor(Wants[c]) = {}
    /\ Goes(c, "idle", "connecting")
    /\ UNCHANGED <<made, config, list, handlerVars, usage, port, managerVars,
                   mishaps>>

\* lookupTunnel stops a handler that is not running and joins its thread.
FindDead(c) ==
    /\ ~stop /\ SocketMutexFree
    /\ Goes(c, "idle", "clearing")
    /\ \E t \in TunnelsFor(Wants[c]) :
           /\ thread[t] # "running"
           /\ stopping' = stopping \cup {t}
           /\ port' = [port EXCEPT ![c] = t]
           /\ mishaps' = Notes("early", thread[t] = "starting")
    /\ UNCHANGED <<made, config, list, thread, incoming, accepted, usage,
                   managerVars>>

\* The socket is shut down and leaves the list; who waits there is refused.
Close(t) ==
    /\ thread[t] = "ended"
    /\ list' = list \ {t}
    /\ incoming' = [incoming EXCEPT ![t] = {}]

Refused(t, pcs) ==
    [d \in Callers |-> IF d \in incoming[t] THEN "using" ELSE pcs[d]]

ClearDead(c) ==
    /\ pc[c] = "clearing"
    /\ Close(port[c])
    /\ pc' = Refused(port[c], [pc EXCEPT ![c] = "connecting"])
    /\ port' = [port EXCEPT ![c] = NoTunnel]
    /\ UNCHANGED <<made, config, thread, stopping, accepted, usage,
                   managerVars, mishaps>>

\* The session cannot be opened, or the user cancels.
ConnectFails(c) ==
    /\ Goes(c, "connecting", "idle")
    /\ UNCHANGED <<made, config, list, handlerVars, usage, port, managerVars,
                   mishaps>>

Existing_Overlooked(k) == {}
Existing(k) == TunnelsFor(k)

\* pokeWakeupSocket
Poke_Missing == pokes
Poke == pokes + 1

\* The session is open: SSHTunnelManager::createTunnel.  A tunnel that another
\* caller has made meanwhile is taken.
CreateTunnel(c) ==
    /\ SocketMutexFree
    /\ Goes(c, "connecting", "found")
    /\ IF Existing(Wants[c]) # {}
         THEN /\ \E t \in Existing(Wants[c]) : port' = [port EXCEPT ![c] = t]
              /\ UNCHANGED <<made, config, list, thread, pokes>>
         ELSE /\ made < MaxTunnels
              /\ made' = made + 1
              /\ config' = Append(config, Wants[c])
              /\ list' = list \cup {made'}
              /\ thread' = [thread EXCEPT ![made'] = "starting"]
              /\ pokes' = Poke
              /\ port' = [port EXCEPT ![c] = made']
    /\ UNCHANGED <<stopping, incoming, accepted, usage, manager, polled, ready,
                   stop, mishaps>>

Counted_Once(t) == 1
Counted(t) == usage[t] + 1

\* The constructor of SSHTunnel: portUsageIncrement.
Increment(c) ==
    /\ UsageMutexFree
    /\ Goes(c, "found", "using")
    /\ usage' = [usage EXCEPT ![port[c]] = Counted(port[c])]
    /\ UNCHANGED <<made, config, list, handlerVars, port, managerVars, mishaps>>

\* The database driver connects to the local port, unless it is closed.
Connect(c) ==
    /\ port[c] \in list
    /\ Goes(c, "using", "waiting")
    /\ incoming' = [incoming EXCEPT ![port[c]] = @ \cup {c}]
    /\ UNCHANGED <<made, config, list, thread, stopping, accepted, usage, port,
                   managerVars, mishaps>>

\* It gives up waiting.
Timeout(c) ==
    /\ Goes(c, "waiting", "using")
    /\ \/ /\ c \in incoming[port[c]]
          /\ incoming' = [incoming EXCEPT ![port[c]] = @ \ {c}]
          /\ UNCHANGED accepted
       \/ /\ \E i \in DOMAIN accepted[port[c]] :
                 /\ accepted[port[c]][i] = c
                 /\ accepted' = [accepted EXCEPT ![port[c]] = RemoveAt(@, i)]
          /\ UNCHANGED incoming
    /\ UNCHANGED <<made, config, list, thread, stopping, usage, port,
                   managerVars, mishaps>>

LastUser_Always(t) == TRUE
LastUser(t) == usage[t] = 1

\* The destructor of SSHTunnel: portUsageDecrement, which disconnects the
\* tunnel of that configuration when the last user of the port goes.
Decrement(c) ==
    LET t == port[c]
        closed == IF LastUser(t) THEN TunnelsFor(config[t]) ELSE {}
        idle == [port EXCEPT ![c] = NoTunnel]
    IN  /\ pc[c] \in {"using", "connected"}
        /\ UsageMutexFree /\ SocketMutexFree
        /\ usage' = [usage EXCEPT ![t] = IF @ = 0 THEN 0 ELSE @ - 1]
        /\ stopping' = stopping \cup closed
        /\ mishaps' =
               Notes("missed", \E d \in Callers : pc[d] = "found" /\ port[d] \in closed)
        /\ IF closed = {}
             THEN pc' = [pc EXCEPT ![c] = "idle"] /\ port' = idle
             ELSE /\ pc' = [pc EXCEPT ![c] = "closing"]
                  /\ \E u \in closed : port' = [port EXCEPT ![c] = u]
        /\ UNCHANGED <<made, config, list, thread, incoming, accepted,
                       managerVars>>

\* The handler's thread was joined.
Disconnected(c) ==
    /\ pc[c] = "closing"
    /\ Close(port[c])
    /\ pc' = Refused(port[c], [pc EXCEPT ![c] = "idle"])
    /\ port' = [port EXCEPT ![c] = NoTunnel]
    /\ UNCHANGED <<made, config, thread, stopping, accepted, usage,
                   managerVars, mishaps>>

\* ~WBContext: nobody uses tunnels any more.
Shutdown ==
    /\ ~stop
    /\ \A c \in Callers : pc[c] = "idle"
    /\ stop' = TRUE
    /\ pokes' = Poke
    /\ UNCHANGED <<made, config, list, handlerVars, callerVars, manager, polled,
                   ready, mishaps>>

-----------------------------------------------------------------------------
(* The handler's thread: handleConnection *)

HandlerRuns(t) ==
    /\ thread[t] = "starting"
    /\ thread' = [thread EXCEPT ![t] = "running"]
    /\ UNCHANGED <<made, config, list, stopping, incoming, accepted, callerVars,
                   managerVars, mishaps>>

\* prepareTunnel, of the connection accepted last; the channel may not open.
PrepareTunnel(t) ==
    /\ thread[t] = "running"
    /\ accepted[t] # <<>>
    /\ accepted' = [accepted EXCEPT ![t] = Front(@)]
    /\ \E outcome \in {"connected", "using"} :
           pc' = [pc EXCEPT ![Last(accepted[t])] = outcome]
    /\ UNCHANGED <<made, config, list, thread, stopping, incoming, usage, port,
                   managerVars, mishaps>>

\* The loop ends, because of _stop or of a session that cannot be opened
\* again.  Connections that were accepted and not prepared stay open.
HandlerEnds(t) ==
    /\ thread[t] = "running"
    /\ thread' = [thread EXCEPT ![t] = "ended"]
    /\ mishaps' = Notes("died", t \notin stopping)
    /\ UNCHANGED <<made, config, list, stopping, incoming, accepted, callerVars,
                   managerVars>>

-----------------------------------------------------------------------------
(* The manager's thread: localSocketHandler *)

\* Sockets that were shut down are reported, too.
Reported ==
    {t \in polled : incoming[t] # {} \/ t \notin list}
        \cup (IF pokes > 0 THEN {Wakeup} ELSE {})

Poll ==
    /\ manager = "polling"
    /\ Reported # {}
    /\ manager' = "serving"
    /\ ready' = Reported
    /\ UNCHANGED <<made, config, list, handlerVars, callerVars, polled, pokes,
                   stop, mishaps>>

\* The wake-up socket is the last one of the list.
ServeWakeup ==
    /\ ready = {Wakeup}
    /\ SocketMutexFree
    /\ pokes' = pokes - 1
    /\ ready' = {}
    /\ polled' = IF stop THEN {} ELSE list
    /\ UNCHANGED <<made, config, list, handlerVars, callerVars, manager, stop,
                   mishaps>>

\* handleNewConnection; or the list is read again after a socket has gone.
ServeSocket(t) ==
    /\ t \in ready
    /\ SocketMutexFree
    /\ ready' = ready \ {t}
    /\ IF t \in list
         THEN /\ IF incoming[t] = {}
                   THEN UNCHANGED <<incoming, accepted>>
                   ELSE \E c \in incoming[t] :
                            /\ incoming' = [incoming EXCEPT ![t] = @ \ {c}]
                            /\ accepted' = [accepted EXCEPT ![t] = Append(@, c)]
              /\ UNCHANGED polled
         ELSE polled' = list /\ UNCHANGED <<incoming, accepted>>
    /\ UNCHANGED <<made, config, list, thread, stopping, callerVars, manager,
                   pokes, stop, mishaps>>

RoundEnds ==
    /\ manager = "serving"
    /\ ready = {}
    /\ manager' = IF stop THEN "ending" ELSE "polling"
    /\ UNCHANGED <<made, config, list, handlerVars, callerVars, polled, ready,
                   pokes, stop, mishaps>>

\* The list is cleared; the handlers' threads are not stopped.
ManagerEnds ==
    /\ manager = "ending"
    /\ SocketMutexFree
    /\ manager' = "ended"
    /\ list' = {}
    /\ UNCHANGED <<made, config, handlerVars, callerVars, polled, ready, pokes,
                   stop, mishaps>>

-----------------------------------------------------------------------------
Caller(c) ==
    \/ FindTunnel(c) \/ FindNone(c) \/ FindDead(c) \/ ClearDead(c)
    \/ ConnectFails(c) \/ CreateTunnel(c) \/ Increment(c)
    \/ Connect(c) \/ Timeout(c) \/ Decrement(c) \/ Disconnected(c)

Handler(t) == HandlerRuns(t) \/ PrepareTunnel(t) \/ HandlerEnds(t)

Manager ==
    \/ Poll \/ ServeWakeup \/ RoundEnds \/ ManagerEnds
    \/ \E t \in Tunnels : ServeSocket(t)

Next ==
    \/ \E c \in Callers : Caller(c)
    \/ \E t \in Tunnels : Handler(t)
    \/ Manager \/ Shutdown

\* The threads run, and a handler whose _stop is set gets out of its loop;
\* that callers go, or connect, or that sessions die, is not assumed.  The
\* manager gets the mutex in the end, however often others take it.
Fairness ==
    /\ SF_vars(Manager)
    /\ \A t \in Tunnels :
           /\ WF_vars(HandlerRuns(t))
           /\ WF_vars(PrepareTunnel(t))
           /\ WF_vars(HandlerEnds(t) /\ t \in stopping)
    /\ \A c \in Callers : WF_vars(ClearDead(c) \/ Disconnected(c))

Spec == Init /\ [][Next]_vars /\ Fairness

-----------------------------------------------------------------------------
(* Properties *)

\* However many callers find none at once, a configuration has one tunnel.
OneTunnelPerConfig ==
    \A t, u \in list : config[t] = config[u] => t = u

InUse(c) == pc[c] \in {"using", "waiting", "connected"}

\* A tunnel with a user is in the list and is not being stopped, unless one of
\* the mishaps has happened.  (One is enough for the later users of the same
\* configuration, too: disconnect goes by the configuration, not by the port.)
\* And no tunnel is left behind: one in the list has a caller that was given a
\* tunnel of its configuration and will give it back.
OpenWhileUsed ==
    /\ mishaps = {} =>
           \A c \in Callers : InUse(c) => port[c] \in list \ stopping
    /\ \A t \in list : \E c \in Callers :
           port[c] # NoTunnel /\ config[port[c]] = config[t]

\* Each port is counted as often as it is used, whatever is closed meanwhile.
UsageIsCounted ==
    \A t \in Tunnels : usage[t] = Cardinality({c \in Callers : InUse(c) /\ port[c] = t})

\* Who waits at a tunnel is served, unless that tunnel is stopped or dies, or
\* others keep connecting, for the connection accepted last is prepared first:
\* the manager learns of new sockets, of several connections to one socket and
\* of sockets that have gone while it handles what a poll has reported.
WaitingIsServed ==
    \A t \in Tunnels, c \in Callers :
        \/ []<><<\E d \in Callers \ {c} : Connect(d)>>_vars
        \/ pc[c] = "waiting" /\ port[c] = t ~>
               pc[c] # "waiting" \/ thread[t] = "ended" \/ t \in stopping

\* Every join returns: the manager's thread ends after shutdown(), and whoever
\* closes a tunnel, with both mutexes held, gets its thread.
JoinsReturn ==
    /\ stop ~> manager = "ended"
    /\ \A c \in Callers :
           pc[c] \in {"closing", "clearing"} ~> pc[c] \notin {"closing", "clearing"}
=============================================================================
