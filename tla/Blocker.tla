------------------------------- MODULE Blocker -------------------------------
(***************************************************************************)
(* The request gate of internal/upstream/wait.go, at the granularity of    *)
(* its loads and stores.  Reconnectors run TryBlock, reconnect, and run    *)
(* Unblock (upstream.go, ReconnectUpstreamServer); Waiters are requests    *)
(* that run WaitWithContext and, when it returns nil, make their call      *)
(* (api.go).  TryBlock and Unblock hold the mutex lo; WaitWithContext      *)
(* takes no lock: it loads state, and later evaluates bl.signal once.      *)
(*                                                                         *)
(* Channels are numbered in the order they are made; Nil is the nil        *)
(* channel the field holds before the first TryBlock.                      *)
(***************************************************************************)
EXTENDS Integers

CONSTANTS
  Reconnectors,  \* goroutines that call ReconnectUpstreamServer
  Waiters,       \* goroutines that make a request
  Cancellable,   \* the waiters whose context somebody may cancel
  NoThread,      \* the mutex lo is free
  MaxRounds      \* bound: how many times the gate is closed

ASSUME BlockerAssumption ==
  /\ Cancellable \subseteq Waiters
  /\ NoThread \notin Reconnectors
  /\ MaxRounds \in Nat

VARIABLES
  state,      \* bl.state
  signal,     \* bl.signal
  made,       \* the number of channels made
  closed,     \* the channels closed
  lo,         \* the holder of bl.lo
  rpc,        \* where each reconnector is
  wpc,        \* where each waiter is
  wch,        \* the channel each sleeping waiter selects on
  sawOpen,    \* history: the gate was open at some moment of the waiter's call
  early       \* history: the waiter took its channel while TryBlock was
              \* between its two assignments

gate    == <<state, signal, made, closed, lo, rpc>>
waiting == <<wpc, wch, sawOpen, early>>
vars    == <<state, signal, made, closed, lo, rpc, wpc, wch, sawOpen, early>>

Nil == 0

\* Some reconnector has stored state and not yet made the channel.
InWindow == \E b \in Reconnectors : rpc[b] = "making"

TypeOK ==
  /\ state \in BOOLEAN
  /\ made \in Nat
  /\ signal \in 0..made
  /\ closed \subseteq 1..made
  /\ lo \in Reconnectors \cup {NoThread}
  /\ rpc \in [Reconnectors -> {"idle", "making", "held", "closing"}]
  /\ wpc \in [Waiters -> {"idle", "checked", "asleep", "passed"}]
  /\ wch \in [Waiters -> 0..made]
  /\ sawOpen \in [Waiters -> BOOLEAN]
  /\ early \in [Waiters -> BOOLEAN]

Init ==
  /\ state = FALSE /\ signal = Nil /\ made = 0 /\ closed = {} /\ lo = NoThread
  /\ rpc = [b \in Reconnectors |-> "idle"]
  /\ wpc = [w \in Waiters |-> "idle"]
  /\ wch = [w \in Waiters |-> Nil]
  /\ sawOpen = [w \in Waiters |-> FALSE]
  /\ early = [w \in Waiters |-> FALSE]

-----------------------------------------------------------------------------
(* Plausible mistakes in TryBlock and Unblock; each breaks a property below. *)

TryBlockStoreNoCheck(b) ==   \* TryBlock without the test of state
  /\ rpc[b] = "idle" /\ lo = NoThread
  /\ made < MaxRounds
  /\ state' = TRUE /\ lo' = b
  /\ rpc' = [rpc EXCEPT ![b] = "making"]
  /\ UNCHANGED <<signal, made, closed, waiting>>

UnblockNoClose(b) ==         \* Unblock resets state and wakes nobody
  /\ rpc[b] = "closing"
  /\ lo' = NoThread
  /\ rpc' = [rpc EXCEPT ![b] = "idle"]
  /\ UNCHANGED <<state, signal, made, closed, waiting>>

UnblockNoStore(b) ==         \* Unblock wakes the waiters and leaves state set
  /\ rpc[b] = "held" /\ lo = NoThread /\ state
  /\ lo' = b
  /\ rpc' = [rpc EXCEPT ![b] = "closing"]
  /\ UNCHANGED <<state, signal, made, closed, waiting>>

-----------------------------------------------------------------------------
(* TryBlock *)

\* TryBlock finds the gate open and stores true; it holds lo from here on.
TryBlockStore(b) ==
  /\ rpc[b] = "idle" /\ lo = NoThread /\ ~state
  /\ made < MaxRounds
  /\ state' = TRUE /\ lo' = b
  /\ rpc' = [rpc EXCEPT ![b] = "making"]
  /\ UNCHANGED <<signal, made, closed, waiting>>

\* TryBlock makes the channel of this round, unlocks and returns true.
TryBlockMake(b) ==
  /\ rpc[b] = "making"
  /\ made' = made + 1 /\ signal' = made + 1 /\ lo' = NoThread
  /\ rpc' = [rpc EXCEPT ![b] = "held"]
  /\ UNCHANGED <<state, closed, waiting>>

\* TryBlock finds the gate closed and returns false: the caller returns nil.
TryBlockRefused(b) ==
  /\ rpc[b] = "idle" /\ lo = NoThread /\ state
  /\ UNCHANGED vars

-----------------------------------------------------------------------------
(* Unblock, which only the goroutine whose TryBlock returned true calls: its
   early return for an open gate is never taken (BlockedWhileHeld). *)

UnblockStore(b) ==
  /\ rpc[b] = "held" /\ lo = NoThread /\ state
  /\ state' = FALSE /\ lo' = b
  /\ rpc' = [rpc EXCEPT ![b] = "closing"]
  /\ sawOpen' = [w \in Waiters |-> TRUE]
  /\ UNCHANGED <<signal, made, closed, wpc, wch, early>>

\* The channel is closed, which wakes everyone who selects on it.
UnblockClose(b) ==
  /\ rpc[b] = "closing"
  /\ closed' = closed \cup {signal} /\ lo' = NoThread
  /\ rpc' = [rpc EXCEPT ![b] = "idle"]
  /\ UNCHANGED <<state, signal, made, waiting>>

-----------------------------------------------------------------------------
(* WaitWithContext *)

\* The gate is open: the call returns nil at once.
WaitOpen(w) ==
  /\ wpc[w] = "idle" /\ ~state
  /\ wpc' = [wpc EXCEPT ![w] = "passed"]
  /\ sawOpen' = [sawOpen EXCEPT ![w] = TRUE]
  /\ UNCHANGED <<gate, wch, early>>

\* The gate is closed: the call goes on to the select.
WaitBlocked(w) ==
  /\ wpc[w] = "idle" /\ state
  /\ wpc' = [wpc EXCEPT ![w] = "checked"]
  /\ sawOpen' = [sawOpen EXCEPT ![w] = FALSE]
  /\ UNCHANGED <<gate, wch, early>>

\* The select evaluates bl.signal, whatever it holds by now.
WaitSelect(w) ==
  /\ wpc[w] = "checked"
  /\ wpc' = [wpc EXCEPT ![w] = "asleep"]
  /\ wch' = [wch EXCEPT ![w] = signal]
  /\ early' = [early EXCEPT ![w] = InWindow]
  /\ UNCHANGED <<gate, sawOpen>>

\* The channel is closed: the call returns nil.
WaitWoken(w) ==
  /\ wpc[w] = "asleep" /\ wch[w] \in closed
  /\ wpc' = [wpc EXCEPT ![w] = "passed"]
  /\ wch' = [wch EXCEPT ![w] = Nil]
  /\ early' = [early EXCEPT ![w] = FALSE]
  /\ UNCHANGED <<gate, sawOpen>>

\* The context is done: the call returns an error and the request is not made.
WaitCancelled(w) ==
  /\ w \in Cancellable /\ wpc[w] = "asleep"
  /\ wpc' = [wpc EXCEPT ![w] = "idle"]
  /\ wch' = [wch EXCEPT ![w] = Nil]
  /\ early' = [early EXCEPT ![w] = FALSE]
  /\ UNCHANGED <<gate, sawOpen>>

\* The request is made with the client the upstream has by now.
Request(w) ==
  /\ wpc[w] = "passed"
  /\ wpc' = [wpc EXCEPT ![w] = "idle"]
  /\ UNCHANGED <<gate, wch, sawOpen, early>>

-----------------------------------------------------------------------------
Reconnect(b) ==
  TryBlockStore(b) \/ TryBlockMake(b) \/ UnblockStore(b) \/ UnblockClose(b)

Wait(w) == WaitOpen(w) \/ WaitBlocked(w) \/ WaitSelect(w) \/ WaitWoken(w)

Next ==
  \/ \E b \in Reconnectors : Reconnect(b) \/ TryBlockRefused(b)
  \/ \E w \in Waiters : Wait(w) \/ WaitCancelled(w) \/ Request(w)

Spec == Init /\ [][Next]_vars

-----------------------------------------------------------------------------
(* Properties *)

\* ReconnectUpstreamServer dials without any other lock: it relies on TryBlock
\* letting one goroutine at a time into the section that Unblock ends.
Holders == {b \in Reconnectors : rpc[b] \in {"making", "held"}}
OneReconnects == \A b, c \in Holders : b = c

\* Whoever holds the gate finds it blocked when it unblocks it, so Unblock does
\* not return early and leave the gate closed, and the channel it closes is
\* neither nil nor closed already (both would panic).
BlockedWhileHeld ==
  \A b \in Reconnectors :
    /\ rpc[b] = "held" => state
    /\ rpc[b] \in {"held", "closing"} => signal # Nil /\ signal \notin closed

\* No lost wake-up: a request asleep on a channel can go, or the reconnection
\* that will close that very channel is still under way.
NoLostWakeup ==
  \A w \in Waiters : wpc[w] = "asleep" /\ wch[w] # Nil =>
    \/ wch[w] \in closed
    \/ wch[w] = signal /\ \E b \in Reconnectors : rpc[b] \in {"held", "closing"}

\* "it will block all the requests ... so that these requests can use the new
\* connection" (upstream.go:40): a stopped request goes on only if the gate was
\* open at some moment of its wait.  The one way around it is to evaluate
\* bl.signal between the two assignments of TryBlock.
PassesEarlyOnlyInWindow ==
  \A w \in Waiters :
    wpc[w] = "asleep" /\ wch[w] \in closed => sawOpen[w] \/ early[w]

\* The gate implements the try-lock its caller relies on.
Owner == IF Holders = {} THEN NoThread ELSE CHOOSE b \in Reconnectors : b \in Holders
Lock == INSTANCE ReconnectLock WITH owner <- Owner
ImplementsLock == Lock!Spec

=============================================================================
