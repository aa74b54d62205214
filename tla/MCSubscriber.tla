---------------------------- MODULE MCSubscriber -----------------------------
(* Subscriber for TLC: the reconnect goroutine and the user stop and start    *)
(* the watcher.                                                               *)
EXTENDS Subscriber

CONSTANTS reconnect, user

MCControllers == {reconnect, user}
=============================================================================
