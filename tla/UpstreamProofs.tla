---------------------------- MODULE UpstreamProofs ---------------------------
(***************************************************************************)
(* Proofs about Blocker and Upstream.  The first part is about the gate    *)
(* alone (Spec of Blocker), for any set of reconnectors and waiters and    *)
(* any number of rounds: it is a lock for those who reconnect, no wake-up  *)
(* is lost, and a request passes a closed gate only by way of the window   *)
(* between the two assignments of TryBlock.  The second part is about the  *)
(* upstream client, which uses the gate as Blocker describes it, so        *)
(* everything proved there holds in it; on top of that, dial never leaks   *)
(* the connection it replaces and the balancer finds a reachable address,  *)
(* for any number of addresses.                                            *)
(***************************************************************************)
EXTENDS Upstream, TLAPS

Busy(b)    == rpc[b] \in {"making", "held", "closing"}
Closing(b) == rpc[b] \in {"held", "closing"}

\* One goroutine at a time is between its TryBlock and the end of its Unblock;
\* lo, state and the channels say where it is.
GateInv ==
  /\ \A b, c \in Reconnectors : Busy(b) /\ Busy(c) => b = c
  /\ \A b \in Reconnectors : lo = b <=> rpc[b] \in {"making", "closing"}
  /\ state <=> \E b \in Reconnectors : rpc[b] \in {"making", "held"}
  /\ signal = made
  /\ (\E b \in Reconnectors : Closing(b)) => made > 0 /\ closed = 1..(made - 1)
  /\ (\A b \in Reconnectors : ~Closing(b)) => closed = 1..made

\* A request that never saw the gate open waits for the round under way.
WaiterInv ==
  \A w \in Waiters :
    /\ wpc[w] \in {"checked", "asleep"} /\ ~sawOpen[w] => state
    /\ wpc[w] = "asleep" /\ ~sawOpen[w] /\ ~early[w] =>
         /\ wch[w] = made
         /\ \E b \in Reconnectors : rpc[b] = "held"

Inv == TypeOK /\ GateInv /\ WaiterInv

LEMMA InitInv == Init => Inv
<1>. SUFFICES ASSUME Init PROVE Inv
  OBVIOUS
<1>1. TypeOK
  <2>1. sawOpen \in [Waiters -> BOOLEAN] /\ early \in [Waiters -> BOOLEAN]
    BY Zenon DEF Init
  <2>2. wch \in [Waiters -> 0..made]
    BY DEF Init, Nil
  <2>3. /\ rpc \in [Reconnectors -> {"idle", "making", "held", "closing"}]
        /\ wpc \in [Waiters -> {"idle", "checked", "asleep", "passed"}]
    BY DEF Init
  <2>4. made \in Nat /\ signal \in 0..made
    BY DEF Init, Nil
  <2>5. state \in BOOLEAN /\ closed \subseteq 1..made /\ lo \in Reconnectors \cup {NoThread}
    BY Zenon DEF Init
  <2>. QED  BY <2>1, <2>2, <2>3, <2>4, <2>5 DEF TypeOK
<1>2. GateInv
  BY BlockerAssumption DEF Init, GateInv, Nil, Busy, Closing
<1>3. WaiterInv
  BY DEF Init, WaiterInv
<1>. QED  BY <1>1, <1>2, <1>3 DEF Inv

-----------------------------------------------------------------------------
(* One lemma per action of a reconnector; the waiters leave the gate alone. *)

LEMMA StoreInv ==
  ASSUME BlockerAssumption, Inv, NEW b \in Reconnectors, TryBlockStore(b)
  PROVE  Inv'
<1>. USE DEF Inv, Busy, Closing
<1>1. \A c \in Reconnectors : ~Busy(c)
  BY DEF GateInv, TypeOK, TryBlockStore
<1>2. TypeOK'
  BY DEF TypeOK, TryBlockStore, waiting
<1>3. GateInv'
  BY <1>1 DEF TypeOK, GateInv, TryBlockStore, BlockerAssumption
<1>4. WaiterInv'
  BY <1>1 DEF TypeOK, WaiterInv, TryBlockStore, waiting
<1>. QED  BY <1>2, <1>3, <1>4

LEMMA MakeInv ==
  ASSUME BlockerAssumption, Inv, NEW b \in Reconnectors, TryBlockMake(b)
  PROVE  Inv'
<1>. USE DEF Inv, Busy, Closing
<1>1. \A c \in Reconnectors : Busy(c) => c = b
  BY DEF GateInv, TryBlockMake
<1>2. closed = 1..made
  BY <1>1 DEF GateInv, TryBlockMake
<1>3. TypeOK'
  BY DEF TypeOK, TryBlockMake, waiting
<1>4. GateInv'
  BY <1>1, <1>2 DEF TypeOK, GateInv, TryBlockMake, BlockerAssumption
<1>5. WaiterInv'
  BY <1>1 DEF TypeOK, WaiterInv, TryBlockMake, waiting
<1>. QED  BY <1>3, <1>4, <1>5

LEMMA UnblockStoreInv ==
  ASSUME BlockerAssumption, Inv, NEW b \in Reconnectors, UnblockStore(b)
  PROVE  Inv'
<1>. USE DEF Inv, Busy, Closing
<1>1. \A c \in Reconnectors : Busy(c) => c = b
  BY DEF GateInv, UnblockStore
<1>2. TypeOK'
  BY DEF TypeOK, UnblockStore
<1>3. GateInv'
  BY <1>1 DEF TypeOK, GateInv, UnblockStore, BlockerAssumption
<1>4. WaiterInv'
  BY DEF TypeOK, WaiterInv, UnblockStore
<1>. QED  BY <1>2, <1>3, <1>4

LEMMA UnblockCloseInv ==
  ASSUME BlockerAssumption, Inv, NEW b \in Reconnectors, UnblockClose(b)
  PROVE  Inv'
<1>. USE DEF Inv, Busy, Closing
<1>1. \A c \in Reconnectors : Busy(c) => c = b
  BY DEF GateInv, UnblockClose
<1>2. closed' = 1..made
  BY DEF TypeOK, GateInv, UnblockClose
<1>3. TypeOK'
  BY <1>2 DEF TypeOK, UnblockClose, waiting
<1>4. GateInv'
  BY <1>1, <1>2 DEF TypeOK, GateInv, UnblockClose, BlockerAssumption
<1>5. WaiterInv'
  BY <1>1 DEF TypeOK, WaiterInv, UnblockClose, waiting
<1>. QED  BY <1>3, <1>4, <1>5

\* A waiter's step writes nothing the gate reads.
LEMMA WaiterStepInv ==
  ASSUME BlockerAssumption, Inv, NEW w \in Waiters,
         Wait(w) \/ WaitCancelled(w) \/ Request(w)
  PROVE  Inv'
<1>. USE DEF gate
<1>1. UNCHANGED gate
  BY DEF Wait, WaitOpen, WaitBlocked, WaitSelect, WaitWoken, WaitCancelled, Request
<1>2. GateInv'
  BY <1>1 DEF Inv, GateInv, Busy, Closing
<1>3. TypeOK'
  <2>1. early' \in [Waiters -> BOOLEAN] /\ sawOpen' \in [Waiters -> BOOLEAN]
    BY Zenon DEF Inv, TypeOK, Wait, WaitOpen, WaitBlocked, WaitSelect, WaitWoken,
                 WaitCancelled, Request, InWindow
  <2>2. wch' \in [Waiters -> 0..made]
    BY DEF Inv, TypeOK, Wait, WaitOpen, WaitBlocked, WaitSelect, WaitWoken,
           WaitCancelled, Request, Nil
  <2>3. wpc' \in [Waiters -> {"idle", "checked", "asleep", "passed"}]
    BY DEF Inv, TypeOK, Wait, WaitOpen, WaitBlocked, WaitSelect, WaitWoken,
           WaitCancelled, Request
  <2>. QED  BY <1>1, <2>1, <2>2, <2>3 DEF Inv, TypeOK
<1>4. WaiterInv'
  <2>1. CASE WaitSelect(w)
    <3>1. ~sawOpen[w] /\ ~InWindow => \E b \in Reconnectors : rpc[b] = "held"
      BY <2>1 DEF Inv, GateInv, WaiterInv, WaitSelect, InWindow
    <3>. QED  BY <1>1, <2>1, <3>1 DEF Inv, TypeOK, GateInv, WaiterInv, WaitSelect
  <2>2. CASE WaitOpen(w) \/ WaitBlocked(w)
    BY <1>1, <2>2 DEF Inv, TypeOK, WaiterInv, WaitOpen, WaitBlocked
  <2>3. CASE WaitWoken(w) \/ WaitCancelled(w) \/ Request(w)
    BY <1>1, <2>3 DEF Inv, TypeOK, WaiterInv, WaitWoken, WaitCancelled, Request
  <2>. QED  BY <2>1, <2>2, <2>3 DEF Wait
<1>. QED  BY <1>2, <1>3, <1>4 DEF Inv

LEMMA NextInv == ASSUME BlockerAssumption, Inv, [Next]_vars PROVE Inv'
<1>1. CASE UNCHANGED vars
  BY <1>1 DEF vars, Inv, TypeOK, GateInv, WaiterInv, Busy, Closing
<1>2. ASSUME NEW b \in Reconnectors, Reconnect(b) \/ TryBlockRefused(b)
      PROVE  Inv'
  BY <1>1, <1>2, StoreInv, MakeInv, UnblockStoreInv, UnblockCloseInv
     DEF Reconnect, TryBlockRefused
<1>3. ASSUME NEW w \in Waiters, Wait(w) \/ WaitCancelled(w) \/ Request(w)
      PROVE  Inv'
  BY <1>3, WaiterStepInv
<1>. QED  BY <1>1, <1>2, <1>3 DEF Next

\* The inductive invariant holds in every behaviour of the gate.
THEOREM Invariance == Spec => []Inv
<1>. USE BlockerAssumption
<1>1. Inv /\ [Next]_vars => Inv'
  BY NextInv
<1>. QED  BY InitInv, <1>1, PTL DEF Spec

\* The fields and the program counters of the gate have their types.
THEOREM TypeCorrect == Spec => []TypeOK
BY Invariance, PTL DEF Inv

\* ReconnectUpstreamServer may dial without a lock of its own: the goroutine
\* whose TryBlock returned true is alone until its Unblock.
THEOREM Exclusion == Spec => []OneReconnects
<1>1. Inv => OneReconnects
  BY DEF Inv, GateInv, OneReconnects, Holders, Busy
<1>. QED  BY Invariance, <1>1, PTL

\* Unblock never returns early for the goroutine that blocked the gate, and
\* never closes a nil channel or one that is closed already.
THEOREM UnblockSafe == Spec => []BlockedWhileHeld
<1>1. Inv => BlockedWhileHeld
  <2>. SUFFICES ASSUME Inv, NEW b \in Reconnectors, Closing(b)
                PROVE  (rpc[b] = "held" => state) /\ signal # Nil /\ signal \notin closed
    BY DEF BlockedWhileHeld, Closing
  <2>1. made > 0 /\ closed = 1..(made - 1) /\ signal = made
    BY DEF Inv, GateInv
  <2>2. made \notin 1..(made - 1)
    BY DEF Inv, TypeOK
  <2>. QED  BY <2>1, <2>2 DEF Inv, TypeOK, GateInv, Nil
<1>. QED  BY Invariance, <1>1, PTL

\* A request asleep on a channel can go, or the reconnection that closes this
\* very channel is under way.
THEOREM WakeupNotLost == Spec => []NoLostWakeup
<1>1. Inv => NoLostWakeup
  <2>. SUFFICES ASSUME Inv, NEW w \in Waiters, wpc[w] = "asleep", wch[w] # Nil,
                       wch[w] \notin closed
                PROVE  wch[w] = signal /\ \E b \in Reconnectors : rpc[b] \in {"held", "closing"}
    BY DEF NoLostWakeup
  <2>1. wch[w] \in 1..made
    BY DEF Inv, TypeOK, Nil
  <2>2. \E b \in Reconnectors : Closing(b)
    BY <2>1 DEF Inv, GateInv
  <2>. QED  BY <2>1, <2>2 DEF Inv, TypeOK, GateInv, Closing
<1>. QED  BY Invariance, <1>1, PTL

\* A stopped request goes on only if the gate was open at some moment of its
\* wait, or if it evaluated bl.signal inside the window of TryBlock.
THEOREM EarlyOnlyInWindow == Spec => []PassesEarlyOnlyInWindow
<1>1. Inv => PassesEarlyOnlyInWindow
  BY DEF Inv, TypeOK, GateInv, WaiterInv, PassesEarlyOnlyInWindow, Closing
<1>. QED  BY Invariance, <1>1, PTL

-----------------------------------------------------------------------------
(* Refinement of the try-lock *)

LEMMA OwnerIs ==
  ASSUME Inv, NEW b \in Reconnectors, rpc[b] \in {"making", "held"}
  PROVE  Owner = b
BY DEF Inv, GateInv, Busy, Owner, Holders

LEMMA OwnerNone ==
  ASSUME \A b \in Reconnectors : rpc[b] \notin {"making", "held"}
  PROVE  Owner = NoThread
BY DEF Owner, Holders

LEMMA StepRefines ==
  ASSUME BlockerAssumption, Inv, Inv', [Next]_vars
  PROVE  [Lock!Next]_Owner
<1>1. ASSUME rpc' = rpc PROVE Owner' = Owner
  BY <1>1 DEF Owner, Holders
<1>2. ASSUME NEW b \in Reconnectors, TryBlockStore(b) PROVE Lock!Acquire(b)
  <2>1. Owner = NoThread
    BY <1>2, OwnerNone DEF Inv, GateInv, TryBlockStore
  <2>2. rpc'[b] = "making"
    BY <1>2 DEF TryBlockStore, Inv, TypeOK
  <2>3. Owner' = b
    BY <2>2 DEF Inv, GateInv, Busy, Owner, Holders
  <2>. QED  BY <2>1, <2>3 DEF Lock!Acquire
<1>3. ASSUME NEW b \in Reconnectors, TryBlockMake(b) PROVE Owner' = Owner
  <2>1. rpc[b] = "making" /\ rpc'[b] = "held"
    BY <1>3 DEF TryBlockMake, Inv, TypeOK
  <2>2. Owner' = b
    BY <2>1 DEF Inv, GateInv, Busy, Owner, Holders
  <2>. QED  BY <2>1, <2>2, OwnerIs
<1>4. ASSUME NEW b \in Reconnectors, UnblockStore(b) PROVE Lock!Release(b)
  <2>1. Owner = b
    BY <1>4, OwnerIs DEF UnblockStore
  <2>2. \A c \in Reconnectors : rpc'[c] \notin {"making", "held"}
    BY <1>4 DEF UnblockStore, Inv, TypeOK, GateInv, Busy
  <2>3. Owner' = NoThread
    BY <2>2 DEF Owner, Holders
  <2>. QED  BY <2>1, <2>3 DEF Lock!Release
<1>5. ASSUME NEW b \in Reconnectors, UnblockClose(b) PROVE Owner' = Owner
  <2>1. Holders' = Holders
    BY <1>5 DEF UnblockClose, Inv, TypeOK, Holders
  <2>. QED  BY <2>1 DEF Owner
<1>6. ASSUME NEW w \in Waiters, Wait(w) \/ WaitCancelled(w) \/ Request(w) PROVE rpc' = rpc
  BY <1>6 DEF Wait, WaitOpen, WaitBlocked, WaitSelect, WaitWoken, WaitCancelled, Request, gate
<1>. QED
  BY <1>1, <1>2, <1>3, <1>4, <1>5, <1>6
     DEF Next, Reconnect, TryBlockRefused, vars, Lock!Next

\* TryBlock and Unblock implement the try-lock of ReconnectLock: one owner at a
\* time, the second caller turned away.
THEOREM Refinement == Spec => ImplementsLock
<1>. USE BlockerAssumption
<1>1. Init => Lock!Init
  BY OwnerNone DEF Init, Lock!Init
<1>2. Inv /\ Inv' /\ [Next]_vars => [Lock!Next]_Owner
  BY StepRefines
<1>. QED  BY Invariance, <1>1, <1>2, PTL DEF Spec, ImplementsLock, Lock!Spec

-----------------------------------------------------------------------------
(* The gate inside the upstream client *)

\* A step of the upstream client is a step of the gate or leaves it alone.
LEMMA StepIsGateStep == UpNext => [Next]_vars
<1>. SUFFICES ASSUME UpNext PROVE [Next]_vars
  OBVIOUS
<1>1. ASSUME NEW b \in Reconnectors, Enter(b) \/ Leave(b) PROVE Next
  BY <1>1 DEF Enter, Leave, Next, Reconnect
<1>2. ASSUME NEW b \in Reconnectors, Dial(b) PROVE UNCHANGED vars
  BY <1>2 DEF Dial, DialCheck, DialClose, DialConnect, DialTimeout
<1>3. ASSUME NEW w \in Waiters, Call(w) PROVE Next
  BY <1>3 DEF Call, Next
<1>4. ASSUME Close \/ StateWatchStart \/ StateWatchStop PROVE UNCHANGED vars
  BY <1>4 DEF Close, CloseStateWatch, CloseCancelCheck, CloseCancelCall, CloseConn,
              CloseForget, StateWatchStart, StateWatchStop
<1>. QED  BY <1>1, <1>2, <1>3, <1>4 DEF UpNext

\* The gate inside the upstream client behaves as Blocker says: its invariants
\* and the lock it implements carry over to every RPC and reconnection.
THEOREM UpstreamUsesGate == UpSpec => Spec
<1>1. UpInit => Init
  BY DEF UpInit
<1>2. [UpNext]_allVars => [Next]_vars
  BY StepIsGateStep DEF allVars
<1>. QED  BY <1>1, <1>2, PTL DEF UpSpec, Spec

\* One goroutine at a time is between TryBlock and Unblock in
\* ReconnectUpstreamServer, also while dials fail and Close runs.
THEOREM UpExclusion == UpSpec => []OneReconnects
BY UpstreamUsesGate, Exclusion, PTL

-----------------------------------------------------------------------------
(* One connection *)

NetType ==
  /\ dialed \in Nat \ {0} /\ conn \in 0..dialed
  /\ dpc \in [Reconnectors -> {"check", "close", "dial", "done"}]

\* Until Close is called conn is never nil, and while a goroutine dials its old
\* connection is closed already.
ConnInv ==
  cpc = "open" =>
    /\ conn # NoConn /\ client = conn /\ opened \subseteq {conn}
    /\ \A b \in Reconnectors : rpc[b] = "held" /\ dpc[b] = "dial" => opened = {}
    /\ \A b \in Reconnectors : rpc[b] # "held" => dpc[b] = "check"

UpInv == Inv /\ NetType /\ ConnInv

LEMMA UpNextInv == ASSUME BlockerAssumption, UpInv, Inv', [UpNext]_allVars PROVE UpInv'
<1>. USE DEF UpInv, NetType, ConnInv, NoConn
<1>1. CASE UNCHANGED allVars
  BY <1>1 DEF allVars, upVars, netVars, closeVars, vars
<1>2. ASSUME NEW b \in Reconnectors, Enter(b) PROVE UpInv'
  BY <1>2 DEF Enter, upVars, netVars, closeVars, TryBlockStore, TryBlockMake, TryBlockRefused,
              vars, Inv, TypeOK
<1>3. ASSUME NEW b \in Reconnectors, rpc[b] = "held", rpc' = rpc
      PROVE  \A c \in Reconnectors : rpc[c] = "held" => c = b
  BY <1>3 DEF Inv, GateInv, Busy
<1>4. ASSUME NEW b \in Reconnectors, DialCheck(b) PROVE UpInv'
  BY <1>3, <1>4 DEF DialCheck, netVars, closeVars, vars
<1>5. ASSUME NEW b \in Reconnectors, DialClose(b) PROVE UpInv'
  BY <1>3, <1>5 DEF DialClose, closeVars, vars
<1>6. ASSUME NEW b \in Reconnectors, DialConnect(b) PROVE UpInv'
  BY <1>3, <1>6 DEF DialConnect, closeVars, vars
<1>7. ASSUME NEW b \in Reconnectors, DialTimeout(b) PROVE UpInv'
  BY <1>3, <1>7 DEF DialTimeout, closeVars, vars
<1>8. ASSUME NEW b \in Reconnectors, Leave(b) PROVE UpInv'
  BY <1>8 DEF Leave, UnblockStore, UnblockClose, upVars, netVars, closeVars, Inv, TypeOK
<1>9. ASSUME NEW w \in Waiters, Call(w) PROVE UpInv'
  <2>1. rpc' = rpc
    BY <1>9 DEF Call, Wait, WaitOpen, WaitBlocked, WaitSelect, WaitWoken, WaitCancelled,
                Request, gate
  <2>. QED  BY <1>9, <2>1 DEF Call, upVars, netVars, closeVars
<1>10. ASSUME Close PROVE UpInv'
  BY <1>10 DEF Close, CloseStateWatch, CloseCancelCheck, CloseCancelCall, CloseConn,
               CloseForget, netVars, vars
<1>11. ASSUME StateWatchStart \/ StateWatchStop PROVE UpInv'
  BY <1>11 DEF StateWatchStart, StateWatchStop, netVars, vars
<1>. QED
  BY <1>1, <1>2, <1>4, <1>5, <1>6, <1>7, <1>8, <1>9, <1>10, <1>11 DEF UpNext, Dial

\* However often and by whomever it reconnects, the client holds no connection
\* but uc.conn until Close is called.
THEOREM NoConnectionLeak == UpSpec => []OneConnection
<1>. USE BlockerAssumption
<1>1. UpInit /\ Inv => UpInv
  BY DEF UpInit, UpInv, NetType, ConnInv, NoConn, Init
<1>2. Inv' /\ UpInv /\ [UpNext]_allVars => UpInv'
  BY UpNextInv
<1>3. UpInv => OneConnection
  BY DEF UpInv, ConnInv, OneConnection
<1>. QED  BY UpstreamUsesGate, Invariance, <1>1, <1>2, <1>3, PTL DEF UpSpec

-----------------------------------------------------------------------------
(* The connection that requests find *)

\* Unless a goroutine is between closing the old connection and the end of its
\* dial, or the last dial has failed, the connection of the stub is open.
LiveInv ==
  /\ failed \in Nat
  /\ cpc = "open" /\ failed = 0 /\ (\A b \in Reconnectors : rpc[b] = "held" => dpc[b] # "dial")
       => conn \in opened

LEMMA LiveNext ==
  ASSUME BlockerAssumption, UpInv, LiveInv, [UpNext]_allVars
  PROVE  LiveInv'
<1>. USE DEF LiveInv, UpInv, NetType, ConnInv
<1>1. CASE UNCHANGED allVars
  BY <1>1 DEF allVars, upVars, netVars, closeVars, vars
<1>2. ASSUME NEW b \in Reconnectors, Enter(b) PROVE LiveInv'
  BY <1>2 DEF Enter, upVars, netVars, closeVars, TryBlockStore, TryBlockMake, TryBlockRefused,
              vars, Inv, TypeOK
<1>3. ASSUME NEW b \in Reconnectors, DialCheck(b) PROVE LiveInv'
  <2>1. UNCHANGED <<conn, opened, failed, cpc, rpc>>
    BY <1>3 DEF DialCheck, netVars, closeVars, vars
  <2>2. cpc = "open" => dpc' = [dpc EXCEPT ![b] = "close"] /\ dpc[b] = "check"
    BY <1>3 DEF DialCheck
  <2>. QED  BY <2>1, <2>2
<1>4. ASSUME NEW b \in Reconnectors, DialClose(b) PROVE LiveInv'
  BY <1>4 DEF DialClose, closeVars, vars
<1>5. ASSUME NEW b \in Reconnectors, DialConnect(b) PROVE LiveInv'
  BY <1>5 DEF DialConnect, closeVars, vars
<1>6. ASSUME NEW b \in Reconnectors, DialTimeout(b) PROVE LiveInv'
  BY <1>6 DEF DialTimeout, closeVars, vars
<1>7. ASSUME NEW b \in Reconnectors, Leave(b) PROVE LiveInv'
  BY <1>7 DEF Leave, UnblockStore, UnblockClose, upVars, netVars, closeVars, Inv, TypeOK
<1>8. ASSUME NEW w \in Waiters, Call(w) PROVE LiveInv'
  <2>1. rpc' = rpc
    BY <1>8 DEF Call, Wait, WaitOpen, WaitBlocked, WaitSelect, WaitWoken, WaitCancelled,
                Request, gate
  <2>. QED  BY <1>8, <2>1 DEF Call, upVars, netVars, closeVars
<1>9. ASSUME Close PROVE LiveInv'
  BY <1>9 DEF Close, CloseStateWatch, CloseCancelCheck, CloseCancelCall, CloseConn,
              CloseForget, netVars, vars
<1>10. ASSUME StateWatchStart \/ StateWatchStop PROVE LiveInv'
  BY <1>10 DEF StateWatchStart, StateWatchStop, netVars, vars
<1>. QED
  BY <1>1, <1>2, <1>3, <1>4, <1>5, <1>6, <1>7, <1>8, <1>9, <1>10 DEF UpNext, Dial

\* A request that finds the gate open calls the stub of the connection that is
\* open, however many goroutines reconnect, unless the last dial has failed or
\* Close was called.
THEOREM OpenGateLive == UpSpec => []OpenGateHasLiveClient
<1>. USE BlockerAssumption
<1>1. UpInit /\ Inv => UpInv /\ LiveInv
  BY DEF UpInit, UpInv, NetType, ConnInv, LiveInv, NoConn, Init
<1>2. Inv' /\ UpInv /\ LiveInv /\ [UpNext]_allVars => UpInv' /\ LiveInv'
  BY UpNextInv, LiveNext
<1>3. UpInv /\ LiveInv => OpenGateHasLiveClient
  <2>. SUFFICES ASSUME UpInv, LiveInv, ~state, failed = 0, cpc = "open"
                PROVE  client = conn /\ client \in opened
    BY DEF OpenGateHasLiveClient
  <2>1. \A b \in Reconnectors : rpc[b] # "held"
    BY DEF UpInv, Inv, GateInv
  <2>. QED  BY <2>1 DEF UpInv, ConnInv, LiveInv
<1>. QED  BY UpstreamUsesGate, Invariance, <1>1, <1>2, <1>3, PTL DEF UpSpec

-----------------------------------------------------------------------------
(* The balancer *)

\* The addresses tried by the dials that failed since the last success lie
\* behind index, going round.
Tried ==
  IF failed <= index THEN (index - failed)..(index - 1)
  ELSE 0..(index - 1) \cup (Endpoints + index - failed)..(Endpoints - 1)

RoundInv ==
  /\ index \in 0..(Endpoints - 1) /\ failed \in Nat
  /\ Reachable # {} => failed < Endpoints
  /\ Tried \cap Reachable = {}

\* Picking round-robin, fewer dials than there are addresses fail in a row.
THEOREM BalancerFindsReachable == UpSpec => []SomeDialSucceeds
<1>. USE UpstreamAssumption DEF UpstreamAssumption
<1>1. UpInit => RoundInv
  BY DEF UpInit, RoundInv, Tried
<1>2. RoundInv /\ [UpNext]_allVars => RoundInv'
  <2>. SUFFICES ASSUME RoundInv, [UpNext]_allVars PROVE RoundInv'
    OBVIOUS
  <2>1. ASSUME NEW b \in Reconnectors, DialConnect(b) PROVE RoundInv'
    BY <2>1 DEF DialConnect, RoundInv, Tried, NextIndex
  <2>2. ASSUME NEW b \in Reconnectors, DialTimeout(b) PROVE RoundInv'
    <3>1. index' \in 0..(Endpoints - 1) /\ failed' = failed + 1 /\ failed' \in Nat
      BY <2>2 DEF DialTimeout, RoundInv, NextIndex
    <3>2. CASE Reachable = {}
      BY <3>1, <3>2 DEF RoundInv
    <3>3. CASE Reachable # {}
      <4>1. failed < Endpoints
        BY <3>3 DEF RoundInv
      <4>2. \A i \in Tried' : i \in Tried \/ i = index
        BY <2>2, <4>1 DEF DialTimeout, RoundInv, Tried, NextIndex
      <4>3. Tried' \cap Reachable = {}
        BY <2>2, <4>2 DEF DialTimeout, RoundInv
      <4>4. failed' = Endpoints => \A i \in 0..(Endpoints - 1) : i \in Tried'
        BY <2>2, <3>1, <4>1 DEF DialTimeout, RoundInv, Tried, NextIndex
      <4>5. failed' # Endpoints
        BY <3>3, <4>3, <4>4
      <4>. QED  BY <3>1, <4>1, <4>3, <4>5 DEF RoundInv
    <3>. QED  BY <3>2, <3>3
  <2>3. ASSUME UNCHANGED <<index, failed>> PROVE RoundInv'
    BY <2>3 DEF RoundInv, Tried
  <2>. QED
    BY <2>1, <2>2, <2>3
       DEF UpNext, Enter, Dial, DialCheck, DialClose, Leave, Call, Close, CloseStateWatch,
           CloseCancelCheck, CloseCancelCall, CloseConn, CloseForget, StateWatchStart,
           StateWatchStop, allVars, upVars, netVars
<1>3. RoundInv => SomeDialSucceeds
  BY DEF RoundInv, SomeDialSucceeds
<1>. QED  BY <1>1, <1>2, <1>3, PTL DEF UpSpec
=============================================================================
