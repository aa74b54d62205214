---------------------------- MODULE ReconnectLock ----------------------------
(***************************************************************************)
(* What TryBlock and Unblock (internal/upstream/wait.go) promise their     *)
(* caller ReconnectUpstreamServer: a try-lock.  At most one goroutine      *)
(* reconnects, a second one is turned away instead of being queued, and    *)
(* the reconnection ends by giving the lock back.                          *)
(***************************************************************************)
CONSTANTS Reconnectors, NoThread

VARIABLE owner

Init == owner = NoThread

Acquire(b) == owner = NoThread /\ owner' = b

Release(b) == owner = b /\ owner' = NoThread

Next == \E b \in Reconnectors : Acquire(b) \/ Release(b)

Spec == Init /\ [][Next]_owner
=============================================================================
