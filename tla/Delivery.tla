------------------------------ MODULE Delivery -------------------------------
(***************************************************************************)
(* What enqueueLatestEvent and processEvents (client/watch.go) promise     *)
(* between them: callbacks "sequentially", and an event that waits is      *)
(* given up only by "replacing any pending event".  So an accepted event   *)
(* gets one callback, when no other runs, unless accepting another takes   *)
(* its place before that.  In which order they get it is left open: after  *)
(* a reconnection two processors compete.                                  *)
(***************************************************************************)
CONSTANT Events

VARIABLES
  waiting,  \* events accepted whose callback has not begun
  running,  \* the event whose callback runs
  settled   \* events that were called back or replaced

state == <<waiting, running, settled>>

Init == waiting = {} /\ running = {} /\ settled = {}

Fresh(e) == e \notin waiting \cup running \cup settled

Accept(e) == Fresh(e) /\ waiting' = waiting \cup {e} /\ UNCHANGED <<running, settled>>

Supersede(d, e) ==
  /\ d \in waiting /\ Fresh(e)
  /\ waiting' = (waiting \ {d}) \cup {e} /\ settled' = settled \cup {d}
  /\ UNCHANGED running

Begin(e) ==
  /\ e \in waiting /\ running = {}
  /\ waiting' = waiting \ {e} /\ running' = {e}
  /\ UNCHANGED settled

End(e) ==
  /\ running = {e} /\ running' = {} /\ settled' = settled \cup {e}
  /\ UNCHANGED waiting

Next == \E e \in Events :
  Accept(e) \/ Begin(e) \/ End(e) \/ \E d \in Events : Supersede(d, e)

Spec == Init /\ [][Next]_state
=============================================================================
