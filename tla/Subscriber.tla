------------------------------ MODULE Subscriber -----------------------------
(***************************************************************************)
(* One subscriber of the watcher (client/watch.go): how a release change   *)
(* event travels from the receive loop through the subscriber's queue to   *)
(* the user's callback, while the watcher is stopped and started again.    *)
(*                                                                         *)
(* The receive loop spawns a goroutine per event (OnReleaseChange), which  *)
(* enqueues it under enqueueMutex.  A processor goroutine (processEvents)  *)
(* ranges over the queue the field holds when it starts.  closeEventQueue  *)
(* does not take enqueueMutex; resetForReconnect does, and replaces the    *)
(* queue and spawns another processor.  StopWatch and StartWatch are       *)
(* called by the reconnect goroutine and by the user (client.go:220-239),  *)
(* with nothing between them.  The heartbeat reads the fields a handling   *)
(* writes, one after the other and without a lock.  Events are numbered in *)
(* the order they are received, queues and processors in the order they    *)
(* are made.  A send on a closed channel, or closing one twice, ends the   *)
(* process.                                                                *)
(***************************************************************************)
EXTENDS Integers

CONSTANTS
  Controllers,  \* goroutines that run StopWatch and StartWatch
  NoThread,     \* enqueueMutex is free
  MaxEvents,    \* bound: events received
  MaxQueues     \* bound: queues made, one by Subscribe and one per reset

ASSUME SubscriberAssumption ==
  /\ MaxEvents \in Nat /\ MaxQueues \in Nat \ {0}
  /\ Controllers \cap Nat = {} /\ NoThread \notin Nat /\ NoThread \notin Controllers

VARIABLES
  closed,      \* s.closed
  queue,       \* s.eventQueue
  buf,         \* the event in each queue's buffer
  shut,        \* the queues that are closed channels
  lock,        \* the goroutine that holds enqueueMutex
  found,       \* history: the event the holder of the lock found pending
  crossed,     \* history: two controllers have closed or reset at once
  processing,  \* the processor that holds s.processing
  ev,          \* where each event is
  ctl,         \* where each controller is
  proc,        \* where each processor is
  pq,          \* the queue each processor ranges over
  pev,         \* the event each processor holds
  current,     \* s.CurrentReleaseID, as the event that brought the release
  cursor,      \* s.CursorID, as the event it identifies
  status,      \* s.ReleaseChangeStatus
  seen,        \* the s.CursorID of the heartbeat that is being put together
  panic        \* what ended the process, if something did

qVars == <<queue, buf, shut>>
sVars == <<current, cursor, status, seen>>
pVars == <<processing, proc, pq, pev>>
cVars == <<closed, ctl, crossed>>
vars  == <<qVars, sVars, pVars, cVars, lock, found, ev, panic>>

Events == 1..MaxEvents
Queues == 1..MaxQueues
NoEvent == 0
NoQueue == 0
NotReading == -1

EventStates == {
  "coming",    \* not received yet
  "received",  \* its goroutine is spawned
  "checked",   \* enqueueMutex taken, the subscriber found open
  "full",      \* the queue was found full
  "drained",   \* the pending event was taken out to make room
  "queued",    \* in a queue
  "taken",     \* with a processor
  "handled",   \* its callback returned
  "replaced",  \* taken out of the queue for another event
  "dropped",   \* "unexpected: could not drain event"
  "skipped" }  \* the subscriber was closed

\* The processor that holds s.processing: the cursor is written, the callback
\* runs, or it has succeeded and CurrentReleaseID is not written yet.
HandlingStates == {"preparing", "handling", "succeeded"}

TypeOK ==
  /\ closed \in 0..1 /\ queue \in Queues
  /\ buf \in [Queues -> Events \cup {NoEvent}] /\ shut \subseteq Queues
  /\ lock \in Events \cup Controllers \cup {NoThread}
  /\ found \in Events \cup {NoEvent} /\ crossed \in BOOLEAN
  /\ processing \in Queues \cup {NoQueue}
  /\ ev \in [Events -> EventStates]
  /\ ctl \in [Controllers -> {"idle", "closing", "resetting"}]
  /\ proc \in [Queues -> {"none", "spawned", "ranging", "waiting", "exited"} \cup HandlingStates]
  /\ pq \in [Queues -> Queues \cup {NoQueue}]
  /\ pev \in [Queues -> Events \cup {NoEvent}]
  /\ {current, cursor} \subseteq Events \cup {NoEvent}
  /\ seen \in Events \cup {NoEvent, NotReading}
  /\ status \in {"none", "Processing", "Success", "Failed"}
  /\ panic \in {"no", "send", "close"}

\* Subscribe made the first queue and spawned its processor.
Init ==
  /\ closed = 0 /\ queue = 1 /\ shut = {} /\ lock = NoThread /\ processing = NoQueue
  /\ buf = [q \in Queues |-> NoEvent]
  /\ ev = [e \in Events |-> "coming"]
  /\ ctl = [c \in Controllers |-> "idle"]
  /\ proc = [k \in Queues |-> IF k = 1 THEN "spawned" ELSE "none"]
  /\ pq = [k \in Queues |-> NoQueue]
  /\ pev = [k \in Queues |-> NoEvent]
  /\ current = NoEvent /\ cursor = NoEvent /\ status = "none" /\ seen = NotReading
  /\ found = NoEvent /\ crossed = FALSE /\ panic = "no"

Move(e, from, to) == ev[e] = from /\ ev' = [ev EXCEPT ![e] = to]

-----------------------------------------------------------------------------
(* Plausible mistakes in the actions below *)

EnqueueDropNewest(e) ==      \* a full queue keeps what it has
  /\ panic = "no"
  /\ Move(e, "full", "dropped")
  /\ lock' = NoThread /\ found' = NoEvent
  /\ UNCHANGED <<qVars, pVars, cVars, sVars, panic>>

ProcessUnlocked(k) ==        \* handleReleaseChangeEvent without s.processing
  /\ panic = "no" /\ proc[k] = "waiting"
  /\ proc' = [proc EXCEPT ![k] = "preparing"]
  /\ processing' = k
  /\ cursor' = pev[k]
  /\ UNCHANGED <<qVars, cVars, lock, found, ev, pq, pev, current, status, seen, panic>>

ResetNoProcessor(c) ==       \* the new queue gets no processor
  /\ panic = "no" /\ ctl[c] = "resetting"
  /\ queue' = queue + 1
  /\ ctl' = [ctl EXCEPT ![c] = "idle"]
  /\ lock' = NoThread
  /\ UNCHANGED <<closed, crossed, found, buf, shut, pVars, ev, sVars, panic>>

ExitAtOnce(k) ==             \* a closed queue is left without being drained
  /\ panic = "no" /\ proc[k] = "ranging" /\ pq[k] \in shut
  /\ proc' = [proc EXCEPT ![k] = "exited"]
  /\ UNCHANGED <<qVars, cVars, lock, found, processing, pq, pev, ev, sVars, panic>>

-----------------------------------------------------------------------------
(* OnReleaseChange and enqueueLatestEvent, in the goroutine of event e *)

\* The receive loop gets the next event of the stream; it matches this
\* subscriber, and its goroutine is spawned.
Receive(e) ==
  /\ panic = "no"
  /\ \A f \in 1..(e - 1) : ev[f] # "coming"
  /\ Move(e, "coming", "received")
  /\ UNCHANGED <<qVars, cVars, lock, found, pVars, sVars, panic>>

EnqueueSkip(e) ==
  /\ panic = "no" /\ lock = NoThread /\ closed = 1
  /\ Move(e, "received", "skipped")
  /\ UNCHANGED <<qVars, cVars, lock, found, pVars, sVars, panic>>

EnqueueCheck(e) ==
  /\ panic = "no" /\ lock = NoThread /\ closed = 0
  /\ Move(e, "received", "checked")
  /\ lock' = e
  /\ UNCHANGED <<qVars, cVars, found, pVars, sVars, panic>>

\* The first select: a send on the queue, or it is full.
EnqueueSend(e) ==
  /\ panic = "no" /\ queue \notin shut /\ buf[queue] = NoEvent
  /\ Move(e, "checked", "queued")
  /\ buf' = [buf EXCEPT ![queue] = e]
  /\ lock' = NoThread
  /\ UNCHANGED <<cVars, queue, shut, found, pVars, sVars, panic>>

EnqueueFull(e) ==
  /\ panic = "no" /\ queue \notin shut /\ buf[queue] # NoEvent
  /\ Move(e, "checked", "full")
  /\ found' = buf[queue]
  /\ UNCHANGED <<qVars, cVars, lock, pVars, sVars, panic>>

\* The second select: the pending event is drained (also out of a channel that
\* was closed meanwhile), or a processor has just taken it.
EnqueueDrain(e) ==
  /\ panic = "no" /\ ev[e] = "full" /\ buf[queue] # NoEvent
  /\ ev' = [ev EXCEPT ![e] = "drained", ![buf[queue]] = "replaced"]
  /\ buf' = [buf EXCEPT ![queue] = NoEvent]
  /\ found' = NoEvent
  /\ UNCHANGED <<cVars, queue, shut, lock, pVars, sVars, panic>>

EnqueueDrop(e) ==
  /\ panic = "no" /\ buf[queue] = NoEvent /\ queue \notin shut
  /\ Move(e, "full", "dropped")
  /\ lock' = NoThread /\ found' = NoEvent
  /\ UNCHANGED <<qVars, cVars, pVars, sVars, panic>>

EnqueuePush(e) ==
  /\ panic = "no" /\ queue \notin shut /\ buf[queue] = NoEvent
  /\ Move(e, "drained", "queued")
  /\ buf' = [buf EXCEPT ![queue] = e]
  /\ lock' = NoThread
  /\ UNCHANGED <<cVars, queue, shut, found, pVars, sVars, panic>>

\* Both sends panic when the channel has been closed since the check.  A closed
\* empty channel lets the drain succeed with nil, and the send after it panics.
EnqueuePanic(e) ==
  /\ panic = "no" /\ queue \in shut
  /\ \/ ev[e] \in {"checked", "drained"}
     \/ ev[e] = "full" /\ buf[queue] = NoEvent
  /\ panic' = "send"
  /\ UNCHANGED <<qVars, cVars, lock, found, pVars, ev, sVars>>

Enqueue(e) ==
  \/ EnqueueSkip(e) \/ EnqueueCheck(e) \/ EnqueueSend(e) \/ EnqueueFull(e)
  \/ EnqueueDrain(e) \/ EnqueueDrop(e) \/ EnqueuePush(e) \/ EnqueuePanic(e)

-----------------------------------------------------------------------------
(* closeEventQueue (StopWatch) and resetForReconnect (StartWatch).  A call     *)
(* that finds the flag as it would leave it changes nothing.                   *)

Meets(c) == crossed' = (crossed \/ \E d \in Controllers \ {c} : ctl[d] # "idle")

\* The compare-and-swap ...
CloseFlag(c) ==
  /\ panic = "no" /\ ctl[c] = "idle" /\ closed = 0
  /\ closed' = 1
  /\ ctl' = [ctl EXCEPT ![c] = "closing"]
  /\ Meets(c)
  /\ UNCHANGED <<qVars, lock, found, pVars, ev, sVars, panic>>

\* ... and close, of the queue the field holds by then.
CloseQueue(c) ==
  /\ panic = "no" /\ ctl[c] = "closing"
  /\ ctl' = [ctl EXCEPT ![c] = "idle"]
  /\ shut' = shut \cup {queue}
  /\ panic' = IF queue \in shut THEN "close" ELSE "no"
  /\ UNCHANGED <<closed, crossed, queue, buf, lock, found, pVars, ev, sVars>>

\* Under enqueueMutex the flag is cleared ...
ResetFlag(c) ==
  /\ panic = "no" /\ ctl[c] = "idle" /\ lock = NoThread /\ closed = 1 /\ queue < MaxQueues
  /\ closed' = 0 /\ lock' = c
  /\ ctl' = [ctl EXCEPT ![c] = "resetting"]
  /\ Meets(c)
  /\ UNCHANGED <<qVars, found, pVars, ev, sVars, panic>>

\* ... before there is a new queue, and a processor for it.
ResetQueue(c) ==
  /\ panic = "no" /\ ctl[c] = "resetting"
  /\ queue' = queue + 1
  /\ proc' = [proc EXCEPT ![queue + 1] = "spawned"]
  /\ ctl' = [ctl EXCEPT ![c] = "idle"]
  /\ lock' = NoThread
  /\ UNCHANGED <<closed, crossed, buf, shut, found, processing, pq, pev, ev, sVars, panic>>

Control(c) == CloseFlag(c) \/ CloseQueue(c) \/ ResetFlag(c) \/ ResetQueue(c)

-----------------------------------------------------------------------------
(* processEvents and handleReleaseChangeEvent *)

\* range evaluates s.eventQueue once, when the goroutine gets to run.
ProcessStart(k) ==
  /\ panic = "no" /\ proc[k] = "spawned"
  /\ proc' = [proc EXCEPT ![k] = "ranging"]
  /\ pq' = [pq EXCEPT ![k] = queue]
  /\ UNCHANGED <<qVars, cVars, lock, found, processing, pev, ev, sVars, panic>>

\* A closed channel still yields what is in its buffer.
ProcessTake(k) ==
  /\ panic = "no" /\ proc[k] = "ranging" /\ buf[pq[k]] # NoEvent
  /\ pev' = [pev EXCEPT ![k] = buf[pq[k]]]
  /\ ev' = [ev EXCEPT ![buf[pq[k]]] = "taken"]
  /\ buf' = [buf EXCEPT ![pq[k]] = NoEvent]
  /\ proc' = [proc EXCEPT ![k] = "waiting"]
  /\ UNCHANGED <<cVars, queue, shut, lock, found, processing, pq, sVars, panic>>

ProcessExit(k) ==
  /\ panic = "no" /\ proc[k] = "ranging" /\ buf[pq[k]] = NoEvent /\ pq[k] \in shut
  /\ proc' = [proc EXCEPT ![k] = "exited"]
  /\ UNCHANGED <<qVars, cVars, lock, found, processing, pq, pev, ev, sVars, panic>>

\* s.processing is taken and the cursor written, long before ...
HandleBegin(k) ==
  /\ panic = "no" /\ proc[k] = "waiting" /\ processing = NoQueue
  /\ proc' = [proc EXCEPT ![k] = "preparing"]
  /\ processing' = k
  /\ cursor' = pev[k]
  /\ UNCHANGED <<qVars, cVars, lock, found, ev, pq, pev, current, status, seen, panic>>

\* ... the status, on which the callback is called.
HandleCall(k) ==
  /\ panic = "no" /\ proc[k] = "preparing"
  /\ proc' = [proc EXCEPT ![k] = "handling"]
  /\ status' = "Processing"
  /\ UNCHANGED <<qVars, cVars, lock, found, processing, ev, pq, pev, current, cursor, seen, panic>>

\* The event is done with and s.processing is released.
Release(k) ==
  /\ ev' = [ev EXCEPT ![pev[k]] = "handled"]
  /\ pev' = [pev EXCEPT ![k] = NoEvent]
  /\ proc' = [proc EXCEPT ![k] = "ranging"]
  /\ processing' = NoQueue
  /\ UNCHANGED <<qVars, cVars, lock, found, pq, cursor, seen, panic>>

HandleFail(k) ==
  /\ panic = "no" /\ proc[k] = "handling"
  /\ status' = "Failed"
  /\ Release(k)
  /\ UNCHANGED current

\* The callback has succeeded: the status is written before ...
HandleSucceed(k) ==
  /\ panic = "no" /\ proc[k] = "handling"
  /\ proc' = [proc EXCEPT ![k] = "succeeded"]
  /\ status' = "Success"
  /\ UNCHANGED <<qVars, cVars, lock, found, processing, ev, pq, pev, current, cursor, seen, panic>>

\* ... the release.
HandleEnd(k) ==
  /\ panic = "no" /\ proc[k] = "succeeded"
  /\ current' = pev[k]
  /\ Release(k)
  /\ UNCHANGED status

Process(k) ==
  \/ ProcessStart(k) \/ ProcessTake(k) \/ ProcessExit(k) \/ HandleBegin(k) \/ HandleCall(k)
  \/ HandleFail(k) \/ HandleSucceed(k) \/ HandleEnd(k)

-----------------------------------------------------------------------------
(* The heartbeat loop reads the cursor, and then the status *)

BeatCursor ==
  /\ panic = "no" /\ seen = NotReading
  /\ seen' = cursor
  /\ UNCHANGED <<qVars, cVars, lock, found, pVars, ev, current, cursor, status, panic>>

\* The report is <<seen, status>>.
BeatStatus ==
  /\ panic = "no" /\ seen # NotReading
  /\ seen' = NotReading
  /\ UNCHANGED <<qVars, cVars, lock, found, pVars, ev, current, cursor, status, panic>>

-----------------------------------------------------------------------------
Next ==
  \/ \E e \in Events : Receive(e) \/ Enqueue(e)
  \/ \E c \in Controllers : Control(c)
  \/ \E k \in Queues : Process(k)
  \/ BeatCursor \/ BeatStatus

Spec == Init /\ [][Next]_vars

\* Go runs some processor that can run, and the user's callback returns.  That is
\* enough also for a processor that others pass over at s.processing: they run
\* out of events first.  Nobody else has to run.
Fairness == WF_vars(\E k \in Queues : Process(k))

FairSpec == Spec /\ Fairness

-----------------------------------------------------------------------------
(* Properties *)

\* Whatever stops and restarts the watcher, the queues and processors that leaves
\* behind deliver as one queue would: callbacks do not overlap, although the
\* processors of the old queue and the new one both have events (only
\* s.processing keeps them apart), and an accepted event gets its callback once
\* or makes room for another one.  An event that has drained the queue counts as
\* accepted: its push cannot fail unless the process ends.
Calling == {pev[k] : k \in {j \in Queues : proc[j] \in HandlingStates}}
Mailbox == INSTANCE Delivery WITH
  waiting <- {e \in Events : ev[e] \in {"drained", "queued", "taken"}} \ Calling,
  running <- Calling,
  settled <- {e \in Events : ev[e] \in {"handled", "replaced"}}
ImplementsDelivery == Mailbox!Spec

\* A heartbeat says of an event what has become of it, Success only when its
\* release is, or is about to be, the one StartWatch tells the server of; with
\* one exception: CursorID (watch.go:484) is written long before the status
\* (547), so a heartbeat may fall in between, or have read a cursor that is
\* replaced when it reads the status, and it then gives one event the status
\* of another.
Is(k, e, pc) == proc[k] = pc /\ pev[k] = e
TrueOf(e, s) ==
  \/ e = NoEvent /\ s = "none"
  \/ s = "Processing" /\ \E k \in Queues : Is(k, e, "handling")
  \/ s = "Success" /\ \E k \in Queues : Is(k, e, "succeeded")
  \/ s = "Success" /\ e = current /\ e \in Events /\ ev[e] = "handled"
  \/ s = "Failed" /\ e # current /\ e \in Events /\ ev[e] = "handled"
Mixed == seen # cursor \/ \E k \in Queues : proc[k] = "preparing"
ReportConsistent ==
  [][seen # NotReading /\ seen' = NotReading => TrueOf(seen, status) \/ Mixed]_vars

\* An accepted event is never forgotten in a queue that nobody reads, through any
\* number of stops and restarts by several goroutines: the processor of its queue
\* ranges over it, and leaves it, closed or not, only when it is empty.  The one
\* exception: a processor evaluates s.eventQueue when it first runs (watch.go:426),
\* and when that is after yet another reset it ranges over the newer queue.
Served(q) == \/ \E k \in Queues : pq[k] = q /\ proc[k] # "exited"
             \/ q = queue /\ proc[q] = "spawned"
Overtaken(q) == proc[q] # "none" /\ IF proc[q] = "spawned" THEN q < queue ELSE pq[q] # q
AcceptedIsRead ==
  \A e \in Events :
    /\ ev[e] = "queued" => \E q \in Queues :
         buf[q] = e /\ (Served(q) \/ Overtaken(q))
    /\ ev[e] = "taken" => \E k \in Queues : pev[k] = e /\ proc[k] \in HandlingStates \cup {"waiting"}

\* "Uses atomic flag to prevent double-close panic" (watch.go:588): it does, unless
\* two goroutines close and reset at once (the flag is cleared before there is a
\* new queue).
NoDoubleClose == panic = "close" => crossed

\* An open subscriber can receive: the queue a sender finds under enqueueMutex is
\* not closed and somebody reads it or is about to, unless two goroutines close
\* and reset at once: a reset between the swap of the flag and close (watch.go:
\* 591-592) has the new queue closed.
OpenQueueIsRead ==
  closed = 0 /\ lock \notin Controllers /\ ~crossed =>
    /\ queue \notin shut
    /\ \E k \in Queues :
         \/ proc[k] = "spawned"
         \/ pq[k] = queue /\ proc[k] # "exited"

\* The one way an event is given up with "unexpected: could not drain" is that a
\* processor took the very event found pending between the two selects ("This
\* should not happen with capacity 1", watch.go:471: it does).
DropOnlyAfterTake ==
  [][\A e \in Events : ev[e] = "full" /\ ev'[e] = "dropped" =>
        found \in Events /\ ev[found] \in {"taken", "handled"}]_vars

\* An event in a queue that a processor reads gets its callback, or makes room
\* for another event: none stays there or with a processor for ever.  (An event
\* that has left does not come back, and there are finitely many.)
InReach(e) == ev[e] = "taken" \/ \E k \in Queues : pq[k] # NoQueue /\ buf[pq[k]] = e
QueuedIsHandled == []<>(panic # "no" \/ \A e \in Events : ~InReach(e))
=============================================================================
