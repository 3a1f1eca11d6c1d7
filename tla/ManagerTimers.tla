--------------------------- MODULE ManagerTimers ---------------------------
(***************************************************************************)
(* The timers of backend/wbpublic/grt/grt_manager.cpp, all of the main     *)
(* thread: run_every, cancel_timer and flush_timers.                       *)
(*                                                                         *)
(* A timer is known by the address of its object, which the next object    *)
(* may get once it is deleted.  A client keeps the address of its timer,   *)
(* cancels the old one when it starts anew, from slots too, and forgets it *)
(* in the slot that ends it; StaleClients do not (DBSearchPanel::update,   *)
(* WBContextModel::auto_save_document).                                    *)
(***************************************************************************)
EXTENDS Integers, Sequences, SequencesExt

CONSTANTS
    Addresses,      \* where timer objects may be
    NoAddress,      \* a null pointer
    Clients,        \* the owners of timers, each with one
    StaleClients,   \* those that keep the address of a timer that has ended
    Interval,       \* the interval each client asks for
    MaxTimers,      \* bound: timers made
    MaxLate         \* bound: how long a timer is overdue

TimersAssumption ==
    /\ NoAddress \notin Addresses
    /\ StaleClients \subseteq Clients
    /\ Interval \in [Clients -> Nat \ {0}]
    /\ MaxTimers \in Nat
    /\ MaxLate \in Nat

Numbers == 1 .. MaxTimers

VARIABLES
    timers,     \* _timers: addresses, the next to trigger first
    cancelled,  \* _cancelled_timers
    triggered,  \* the list of flush_timers that is still to be gone through
    calling,    \* the timer whose slot is called
    flushing,   \* flush_timers has not returned
    held,       \* the number of the timer at each address, 0 after its end
    left,       \* its next_trigger, relative to the clock
    handle,     \* the address each client keeps
    mine,       \* history: the number of the timer that address stood for
    owner,      \* the client of each timer, by number
    withdrawn,  \* history: the numbers of the timers that were cancelled
    astray      \* history: a client has cancelled what was not its timer

flushVars == <<triggered, calling, flushing>>
timerVars == <<timers, cancelled, flushVars, held, left, handle, mine, owner,
               withdrawn, astray>>

TimersTypeOK ==
    /\ timers \in Seq(Addresses)
    /\ cancelled \subseteq Addresses
    /\ triggered \in Seq(Addresses)
    /\ calling \in Addresses \cup {NoAddress}
    /\ flushing \in BOOLEAN
    /\ held \in [Addresses -> {0} \cup Numbers]
    /\ left \in [Addresses -> Int]
    /\ handle \in [Clients -> Addresses \cup {NoAddress}]
    /\ mine \in [Clients -> {0} \cup Numbers]
    /\ owner \in Seq(Clients) /\ Len(owner) <= MaxTimers
    /\ withdrawn \subseteq Numbers
    /\ astray \in BOOLEAN

Live == {a \in Addresses : held[a] # 0}

TimersInit ==
    /\ timers = <<>>
    /\ cancelled = {}
    /\ triggered = <<>>
    /\ calling = NoAddress
    /\ flushing = FALSE
    /\ held = [a \in Addresses |-> 0]
    /\ left = [a \in Addresses |-> 0]
    /\ handle = [c \in Clients |-> NoAddress]
    /\ mine = [c \in Clients |-> 0]
    /\ owner = <<>>
    /\ withdrawn = {}
    /\ astray = FALSE

\* Before the first one that triggers later.
Inserted(s, a, delays) ==
    LET later == {i \in DOMAIN s : delays[s[i]] > delays[a]}
        place == IF later = {} THEN Len(s) + 1
                 ELSE CHOOSE i \in later : \A j \in later : i <= j
    IN  InsertAt(s, place, a)

-----------------------------------------------------------------------------
(* The clients: from the main loop, or from the slot that is called *)

SlotsMayCall == flushing => calling # NoAddress

\* cancel_timer, of what the handle points to: a timer in the list goes at
\* once, any other address is noted down.
CancelledList(a) == RemoveFirst(timers, a)
CancelledHeld_Always(a) == [held EXCEPT ![a] = 0]
CancelledHeld(a) ==
    IF a \in ToSet(timers) THEN [held EXCEPT ![a] = 0] ELSE held
CancelledSet_Missing(a) == cancelled
CancelledSet(a) ==
    IF a \in ToSet(timers) \/ a = NoAddress THEN cancelled ELSE cancelled \cup {a}

\* The timer that the handle was the address of has ended.
IsStale(c) == handle[c] # NoAddress /\ held[handle[c]] # mine[c]

CancelTimer(c) ==
    /\ SlotsMayCall
    /\ handle[c] # NoAddress
    /\ timers' = CancelledList(handle[c])
    /\ held' = CancelledHeld(handle[c])
    /\ cancelled' = CancelledSet(handle[c])
    /\ withdrawn' = withdrawn \cup {mine[c]}
    /\ astray' = (astray \/ IsStale(c))
    /\ handle' = [handle EXCEPT ![c] = NoAddress]
    /\ mine' = [mine EXCEPT ![c] = 0]
    /\ UNCHANGED <<flushVars, left, owner>>

\* A client starts a timer, after it cancelled the one it had.
RunEvery(c, a) ==
    LET old == handle[c]
        delays == [left EXCEPT ![a] = Interval[c]]
        n == Len(owner) + 1
    IN  /\ SlotsMayCall
        /\ n \in Numbers
        /\ CancelledHeld(old)[a] = 0
        /\ timers' = Inserted(CancelledList(old), a, delays)
        /\ cancelled' = CancelledSet(old)
        /\ withdrawn' = withdrawn \cup ({mine[c]} \cap Numbers)
        /\ astray' = (astray \/ IsStale(c))
        /\ held' = [CancelledHeld(old) EXCEPT ![a] = n]
        /\ left' = delays
        /\ handle' = [handle EXCEPT ![c] = a]
        /\ mine' = [mine EXCEPT ![c] = n]
        /\ owner' = Append(owner, c)
        /\ UNCHANGED flushVars

-----------------------------------------------------------------------------
(* flush_timers *)

Tick ==
    /\ \A a \in ToSet(timers) : left[a] > -MaxLate
    /\ left' = [a \in Addresses |->
                   IF a \in ToSet(timers) THEN left[a] - 1 ELSE left[a]]
    /\ UNCHANGED <<timers, cancelled, flushVars, held, handle, mine, owner,
                   withdrawn, astray>>

\* The timers that are due leave the list.
DuePrefix ==
    CHOOSE n \in 0 .. Len(timers) :
        /\ \A i \in 1 .. n : left[timers[i]] <= 0
        /\ n < Len(timers) => left[timers[n + 1]] > 0

FlushBegin ==
    /\ ~flushing
    /\ DuePrefix > 0
    /\ flushing' = TRUE
    /\ triggered' = SubSeq(timers, 1, DuePrefix)
    /\ timers' = SubSeq(timers, DuePrefix + 1, Len(timers))
    /\ UNCHANGED <<cancelled, calling, held, left, handle, mine, owner,
                   withdrawn, astray>>

Trigger ==
    /\ calling = NoAddress
    /\ triggered # <<>>
    /\ calling' = Head(triggered)
    /\ triggered' = Tail(triggered)
    /\ UNCHANGED <<timers, cancelled, flushing, held, left, handle, mine,
                   owner, withdrawn, astray>>

\* The slot returns true: the timer goes back to the list unless it was
\* cancelled meanwhile.
SlotGoesOn ==
    LET delays == [left EXCEPT ![calling] = Interval[owner[held[calling]]]]
    IN  /\ calling # NoAddress
        /\ IF calling \in cancelled
             THEN /\ held' = [held EXCEPT ![calling] = 0]
                  /\ UNCHANGED <<timers, left>>
             ELSE /\ timers' = Inserted(timers, calling, delays)
                  /\ left' = delays
                  /\ UNCHANGED held
        /\ calling' = NoAddress
        /\ UNCHANGED <<cancelled, triggered, flushing, handle, mine, owner,
                       withdrawn, astray>>

\* The slot returns false, and its client forgets the address if it is the
\* one of this timer.
SlotEnds ==
    LET n == held[calling]
        c == owner[n]
        forgets == mine[c] = n /\ c \notin StaleClients
    IN  /\ calling # NoAddress
        /\ held' = [held EXCEPT ![calling] = 0]
        /\ handle' = IF forgets THEN [handle EXCEPT ![c] = NoAddress] ELSE handle
        /\ mine' = IF forgets THEN [mine EXCEPT ![c] = 0] ELSE mine
        /\ calling' = NoAddress
        /\ UNCHANGED <<timers, cancelled, triggered, flushing, left, owner,
                       withdrawn, astray>>

CancelledAfterFlush_Kept == cancelled
CancelledAfterFlush == {}

FlushEnd ==
    /\ flushing
    /\ calling = NoAddress
    /\ triggered = <<>>
    /\ cancelled' = CancelledAfterFlush
    /\ flushing' = FALSE
    /\ UNCHANGED <<timers, triggered, calling, held, left, handle, mine, owner,
                   withdrawn, astray>>

-----------------------------------------------------------------------------
Flush ==
    \/ FlushBegin \/ Trigger
    \/ SlotGoesOn \/ SlotEnds
    \/ FlushEnd

TimersNext ==
    \/ \E c \in Clients : CancelTimer(c) \/ \E a \in Addresses : RunEvery(c, a)
    \/ Tick \/ Flush

\* Time passes, and the frontend's timeout calls flush_timers when one is due.
TimersFairness == WF_timerVars(Tick) /\ WF_timerVars(Flush)

TimersSpec == TimersInit /\ [][TimersNext]_timerVars /\ TimersFairness

-----------------------------------------------------------------------------
(* Properties *)

\* Whatever the manager may still dereference is a live timer, and it has it
\* in one place only: in the list, in the list of a flush, or in its hands;
\* and the list is in the order in which the timers are due, for flush_timers
\* stops at the first that is not.
Reached == timers \o triggered \o (IF calling = NoAddress THEN <<>> ELSE <<calling>>)
ListIsSound ==
    /\ ToSet(Reached) = Live
    /\ IsInjective(Reached)
    /\ \A i, j \in DOMAIN timers : i < j => left[timers[i]] <= left[timers[j]]

\* A cancelled timer that is not in the hands of a flush is gone: it is not
\* put back after its slot has returned.
CancelledIsGone ==
    \A a \in ToSet(timers) : held[a] \notin withdrawn

\* A timer goes on until it is cancelled or its slot returns false, as long as
\* no client has cancelled a timer that had ended: an entry in
\* _cancelled_timers then never hits another timer at the same address.
GoesOn ==
    [][SlotGoesOn /\ held[calling] \notin withdrawn /\ ~astray =>
          calling \in ToSet(timers')]_timerVars

\* Every timer that is in the list is called or cancelled.
TimerComesUp ==
    \A a \in Addresses : a \in ToSet(timers) ~> a \notin ToSet(timers)
=============================================================================
