----------------------------- MODULE MCUpstream ------------------------------
(* Upstream for TLC.  Reconnectors: the watcher's reconnect goroutine and the *)
(* bounce loop.  The waiter is the watch stream, whose context StopWatch     *)
(* cancels; requests do not act on each other.  Two addresses, one down.     *)
EXTENDS Upstream

CONSTANTS watch, bounce, stream

MCReconnectors == {watch, bounce}
MCWaiters      == {stream}
MCCancellable  == {stream}
MCReachable    == {0}
=============================================================================
