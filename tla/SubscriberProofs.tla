--------------------------- MODULE SubscriberProofs --------------------------
(***************************************************************************)
(* Proofs about Subscriber, for any number of events, of reconnections and *)
(* of goroutines that stop and start the watcher: callbacks are serial, an *)
(* accepted event has a reader, heartbeats tell the truth but for one      *)
(* window, and no queue is closed twice until two of those goroutines run  *)
(* at once.  The last part is about Progress, for any number of files and  *)
(* releases: what the heartbeats of such a subscriber show of a download   *)
(* is what was saved.                                                      *)
(***************************************************************************)
EXTENDS Subscriber, Progress, FiniteSetTheorems, TLAPS

\* enqueueMutex is held by whoever is inside its section, nobody else fills the
\* buffer of the goroutine that drained it, and the event it found pending is
\* still there or with a processor.
LockInv ==
  /\ \A e \in Events : lock = e <=> ev[e] \in {"checked", "full", "drained"}
  /\ \A c \in Controllers : lock = c <=> ctl[c] = "resetting"
  /\ \A c \in Controllers : ctl[c] = "resetting" => queue < MaxQueues
  /\ \A e \in Events : ev[e] = "drained" => buf[queue] = NoEvent
  /\ \A e \in Events : ev[e] = "full" =>
       found \in Events /\ (buf[queue] = found \/ ev[found] \in {"taken", "handled"})

\* Buffers and processors partition the accepted events.
PlaceInv ==
  /\ \A q \in Queues : buf[q] # NoEvent => ev[buf[q]] = "queued"
  /\ \A k \in Queues : pev[k] # NoEvent => ev[pev[k]] = "taken"
  /\ \A q, r \in Queues : buf[q] = buf[r] /\ buf[q] # NoEvent => q = r
  /\ \A j, k \in Queues : pev[j] = pev[k] /\ pev[j] # NoEvent => j = k

\* No accepted event is missing.
KeptInv ==
  /\ \A e \in Events : ev[e] = "queued" => \E q \in Queues : buf[q] = e
  /\ \A e \in Events : ev[e] = "taken" => \E k \in Queues : pev[k] = e

\* A processor has a queue once it ranges, and an event while it is with it; each
\* queue made has had a processor spawned, and the others are empty.
ProcInv ==
  \A k \in Queues :
    /\ proc[k] \in HandlingStates \cup {"waiting"} <=> pev[k] # NoEvent
    /\ proc[k] \in {"none", "spawned"} \/ pq[k] # NoQueue
    /\ proc[k] = "none" <=> k > queue
    /\ buf[k] # NoEvent => k <= queue

\* A processor leaves a queue that is closed and empty, and stays so.
ExitInv ==
  \A k \in Queues : proc[k] = "exited" => pq[k] \in shut /\ buf[pq[k]] = NoEvent

\* s.processing is held by whoever handles an event, and the fields the heartbeat
\* reads are those of that event from HandleCall on.
HandleInv ==
  /\ \A k \in Queues : processing = k <=> proc[k] \in HandlingStates
  /\ \A k \in Queues : proc[k] \in HandlingStates => cursor = pev[k]
  /\ \A k \in Queues : proc[k] = "handling" => status = "Processing"
  /\ \A k \in Queues : proc[k] = "succeeded" => status = "Success"
  /\ current # NoEvent => ev[current] = "handled"
  /\ processing = NoQueue =>
       \/ cursor = NoEvent /\ status = "none"
       \/ /\ cursor # NoEvent /\ ev[cursor] = "handled"
          /\ status = IF cursor = current THEN "Success" ELSE "Failed"

Inv == TypeOK /\ LockInv /\ PlaceInv /\ KeptInv /\ ProcInv /\ ExitInv /\ HandleInv

\* What the proofs need to know of the constants.
Consts ==
  /\ Events \subseteq Nat \ {0} /\ Queues \subseteq Nat \ {0} /\ 1 \in Queues
  /\ NoThread \notin Events /\ NoThread \notin Controllers /\ Controllers \cap Events = {}

LEMMA ConstLemma == Consts
BY SubscriberAssumption DEF SubscriberAssumption, Consts, Events, Queues

LEMMA InitInv == Init => Inv
<1>. SUFFICES ASSUME Init PROVE Inv
  OBVIOUS
<1>. USE ConstLemma, SubscriberAssumption DEF Consts, NoEvent, NoQueue
<1>1. TypeOK
  <2>1. buf \in [Queues -> Events \cup {NoEvent}] /\ pq \in [Queues -> Queues \cup {NoQueue}]
        /\ pev \in [Queues -> Events \cup {NoEvent}] /\ ev \in [Events -> EventStates]
        /\ ctl \in [Controllers -> {"idle", "closing", "resetting"}]
        /\ proc \in [Queues -> {"none", "spawned", "ranging", "waiting", "exited"} \cup HandlingStates]
    BY DEF Init, EventStates
  <2>2. seen \in Events \cup {NoEvent, NotReading} /\ crossed \in BOOLEAN
    BY DEF Init
  <2>. QED  BY <2>1, <2>2 DEF Init, TypeOK
<1>2. LockInv /\ PlaceInv /\ KeptInv /\ ProcInv /\ ExitInv /\ HandleInv
  BY DEF Init, LockInv, PlaceInv, KeptInv, ProcInv, ExitInv, HandleInv, HandlingStates
<1>. QED  BY <1>1, <1>2 DEF Inv

-----------------------------------------------------------------------------
(* The steps of an event's goroutine *)

\* The pending event makes room.
LEMMA DrainInv == ASSUME Inv, NEW e \in Events, EnqueueDrain(e) PROVE Inv'
<1>. USE ConstLemma DEF Consts, NoEvent, NoQueue
<1>. DEFINE d == buf[queue]
<1>1. d \in Events /\ ev[d] = "queued" /\ ev[e] = "full" /\ d # e /\ queue \in Queues /\ lock = e
  BY DEF EnqueueDrain, Inv, TypeOK, PlaceInv, LockInv
<1>2. /\ ev'[e] = "drained" /\ ev'[d] = "replaced"
      /\ \A f \in Events \ {d, e} : ev'[f] = ev[f]
      /\ ev' \in [Events -> EventStates]
  BY <1>1 DEF EnqueueDrain, Inv, TypeOK, EventStates
<1>3. /\ buf'[queue] = NoEvent /\ \A q \in Queues \ {queue} : buf'[q] = buf[q]
      /\ buf' \in [Queues -> Events \cup {NoEvent}]
  BY <1>1 DEF EnqueueDrain, Inv, TypeOK
<1>4. found' = NoEvent /\ UNCHANGED <<cVars, queue, shut, lock, pVars, sVars, panic>>
  BY DEF EnqueueDrain
<1>5. TypeOK'
  BY <1>2, <1>3, <1>4 DEF Inv, TypeOK, cVars, pVars, sVars
<1>6. LockInv'
  BY <1>1, <1>2, <1>3, <1>4 DEF Inv, LockInv, cVars
<1>a. /\ \A q \in Queues : buf'[q] = IF q = queue THEN NoEvent ELSE buf[q]
      /\ \A f \in Events : ev'[f] = IF f = d THEN "replaced" ELSE IF f = e THEN "drained" ELSE ev[f]
      /\ \A q \in Queues : buf[q] \in Events \cup {NoEvent} /\ pev[q] \in Events \cup {NoEvent}
      /\ pev' = pev
  BY <1>1, <1>2, <1>3, <1>4 DEF Inv, TypeOK, pVars
<1>7. PlaceInv'
  <2>1. ASSUME NEW q \in Queues, buf'[q] # NoEvent PROVE ev'[buf'[q]] = "queued" /\ buf'[q] = buf[q]
    <3>1. q # queue /\ buf'[q] = buf[q] /\ ev[buf[q]] = "queued" /\ buf[q] \in Events /\ buf[q] # d
      BY <1>1, <1>a, <2>1 DEF Inv, PlaceInv
    <3>. QED  BY <1>1, <1>a, <3>1
  <2>2. ASSUME NEW k \in Queues, pev[k] # NoEvent PROVE ev'[pev[k]] = "taken"
    <3>1. ev[pev[k]] = "taken" /\ pev[k] \in Events
      BY <1>a, <2>2 DEF Inv, PlaceInv
    <3>. QED  BY <1>1, <1>a, <3>1
  <2>. QED  BY <1>a, <2>1, <2>2 DEF Inv, PlaceInv
<1>k. KeptInv'
  BY <1>1, <1>a DEF Inv, KeptInv
<1>8. ProcInv' /\ ExitInv'
  <2>1. ProcInv'
    BY <1>a, <1>4 DEF Inv, ProcInv, pVars
  <2>2. ExitInv'
    BY <1>a, <1>4 DEF Inv, TypeOK, ExitInv, pVars
  <2>. QED  BY <2>1, <2>2
<1>9. HandleInv'
  BY <1>1, <1>2, <1>4 DEF Inv, TypeOK, HandleInv, pVars, sVars
<1>. QED  BY <1>5, <1>6, <1>7, <1>k, <1>8, <1>9 DEF Inv

LEMMA EventStepInv ==
  ASSUME Inv, NEW e \in Events, Receive(e) \/ Enqueue(e)
  PROVE  Inv'
<1>. USE ConstLemma DEF Consts, NoEvent, NoQueue, Move, Inv, TypeOK, EventStates, LockInv, PlaceInv,
                        KeptInv, ProcInv, ExitInv, HandleInv, HandlingStates, qVars, pVars, sVars, cVars
<1>1. ASSUME Receive(e) PROVE Inv'
  BY <1>1 DEF Receive
<1>2. ASSUME EnqueueSkip(e) PROVE Inv'
  BY <1>2 DEF EnqueueSkip
<1>3. ASSUME EnqueueCheck(e) PROVE Inv'
  BY <1>3 DEF EnqueueCheck
<1>4. ASSUME EnqueueSend(e) PROVE Inv'
  BY <1>4 DEF EnqueueSend
<1>5. ASSUME EnqueueFull(e) PROVE Inv'
  BY <1>5 DEF EnqueueFull
<1>6. ASSUME EnqueueDrain(e) PROVE Inv'
  BY <1>6, DrainInv
<1>7. ASSUME EnqueueDrop(e) PROVE Inv'
  BY <1>7 DEF EnqueueDrop
<1>8. ASSUME EnqueuePush(e) PROVE Inv'
  BY <1>8 DEF EnqueuePush
<1>9. ASSUME EnqueuePanic(e) PROVE Inv'
  BY <1>9 DEF EnqueuePanic
<1>. QED
  BY <1>1, <1>2, <1>3, <1>4, <1>5, <1>6, <1>7, <1>8, <1>9 DEF Enqueue

LEMMA ControlStepInv ==
  ASSUME Inv, NEW c \in Controllers, Control(c)
  PROVE  Inv'
<1>. USE ConstLemma DEF Consts, NoEvent, NoQueue
<1>1. ASSUME CloseFlag(c) \/ CloseQueue(c) \/ ResetFlag(c) PROVE Inv'
  <2>1. TypeOK'
    <3>1. crossed' \in BOOLEAN
      BY <1>1 DEF CloseFlag, CloseQueue, ResetFlag, Meets, Inv, TypeOK
    <3>2. shut' \subseteq Queues
      BY <1>1 DEF CloseFlag, CloseQueue, ResetFlag, Inv, TypeOK, qVars
    <3>. QED  BY <1>1, <3>1, <3>2 DEF CloseFlag, CloseQueue, ResetFlag, Inv, TypeOK, qVars, pVars, sVars
  <2>2. LockInv'
    BY <1>1 DEF CloseFlag, CloseQueue, ResetFlag, Inv, TypeOK, LockInv, qVars, pVars, sVars
  <2>3. PlaceInv' /\ KeptInv' /\ ProcInv' /\ ExitInv' /\ HandleInv'
    BY <1>1 DEF CloseFlag, CloseQueue, ResetFlag, Inv, PlaceInv, KeptInv, ProcInv, ExitInv, HandleInv,
                HandlingStates, qVars, pVars, sVars
  <2>. QED  BY <2>1, <2>2, <2>3 DEF Inv
<1>2. ASSUME ResetQueue(c) PROVE Inv'
  <2>1. queue + 1 \in Queues /\ proc[queue + 1] = "none"
    BY <1>2, SubscriberAssumption
    DEF ResetQueue, Inv, LockInv, TypeOK, ProcInv, Queues, SubscriberAssumption
  <2>2. TypeOK' /\ PlaceInv' /\ KeptInv'
    BY <1>2, <2>1 DEF ResetQueue, Inv, TypeOK, PlaceInv, KeptInv, sVars
  <2>3. LockInv'
    BY <1>2, <2>1 DEF ResetQueue, Inv, TypeOK, LockInv, sVars
  <2>4. ProcInv' /\ ExitInv'
    BY <1>2, <2>1 DEF ResetQueue, Inv, TypeOK, ProcInv, ExitInv, HandlingStates, sVars
  <2>5. HandleInv'
    BY <1>2, <2>1 DEF ResetQueue, Inv, TypeOK, HandleInv, HandlingStates, ProcInv, sVars
  <2>. QED  BY <2>2, <2>3, <2>4, <2>5 DEF Inv
<1>. QED  BY <1>1, <1>2 DEF Control

LEMMA TakesQueued ==
  ASSUME Inv, NEW k \in Queues, ProcessTake(k)
  PROVE  pq[k] \in Queues /\ buf[pq[k]] \in Events /\ ev[buf[pq[k]]] = "queued"
<1>. USE ConstLemma DEF Consts, NoEvent, NoQueue
<1>1. proc[k] = "ranging" /\ buf[pq[k]] # NoEvent
  BY DEF ProcessTake
<1>2. pq[k] \in Queues
  BY <1>1 DEF Inv, TypeOK, ProcInv
<1>. QED  BY <1>1, <1>2 DEF Inv, TypeOK, PlaceInv

\* An event goes from a buffer to a processor.
LEMMA TakeInv == ASSUME Inv, NEW k \in Queues, ProcessTake(k) PROVE Inv'
<1>. USE ConstLemma DEF Consts, NoEvent, NoQueue
<1>. DEFINE d == buf[pq[k]]
<1>1. pq[k] \in Queues /\ pev[k] = NoEvent /\ d \in Events /\ ev[d] = "queued" /\ proc[k] = "ranging"
  <2>1. proc[k] = "ranging" /\ buf[pq[k]] # NoEvent
    BY DEF ProcessTake
  <2>2. pev[k] = NoEvent
    BY <2>1 DEF Inv, ProcInv, HandlingStates
  <2>. QED  BY <2>1, <2>2, TakesQueued
<1>2. /\ ev'[d] = "taken" /\ \A f \in Events \ {d} : ev'[f] = ev[f]
      /\ ev' \in [Events -> EventStates]
  BY <1>1 DEF ProcessTake, Inv, TypeOK, EventStates
<1>3. /\ buf'[pq[k]] = NoEvent /\ \A q \in Queues \ {pq[k]} : buf'[q] = buf[q]
      /\ buf' \in [Queues -> Events \cup {NoEvent}]
  BY <1>1 DEF ProcessTake, Inv, TypeOK
<1>4. /\ pev'[k] = d /\ proc'[k] = "waiting"
      /\ \A j \in Queues \ {k} : pev'[j] = pev[j] /\ proc'[j] = proc[j]
      /\ pev' \in [Queues -> Events \cup {NoEvent}]
      /\ proc' \in [Queues -> {"none", "spawned", "ranging", "waiting", "exited"} \cup HandlingStates]
  BY <1>1 DEF ProcessTake, Inv, TypeOK
<1>5. UNCHANGED <<cVars, queue, shut, lock, found, processing, pq, sVars, panic>>
  BY DEF ProcessTake
<1>6. TypeOK'
  BY <1>2, <1>3, <1>4, <1>5 DEF Inv, TypeOK, cVars, sVars
<1>7. LockInv'
  BY <1>1, <1>2, <1>3, <1>5 DEF Inv, LockInv, cVars, TypeOK
<1>a. /\ \A q \in Queues : buf'[q] = IF q = pq[k] THEN NoEvent ELSE buf[q]
      /\ \A f \in Events : ev'[f] = IF f = d THEN "taken" ELSE ev[f]
      /\ \A j \in Queues : pev'[j] = IF j = k THEN d ELSE pev[j]
      /\ \A j \in Queues : proc'[j] = IF j = k THEN "waiting" ELSE proc[j]
      /\ \A q \in Queues : buf[q] \in Events \cup {NoEvent} /\ pev[q] \in Events \cup {NoEvent}
  BY <1>1, <1>2, <1>3, <1>4 DEF Inv, TypeOK
<1>8. PlaceInv'
  <2>1. ASSUME NEW q \in Queues, buf'[q] # NoEvent PROVE ev'[buf'[q]] = "queued" /\ buf'[q] = buf[q] /\ buf[q] # d
    <3>1. q # pq[k] /\ buf'[q] = buf[q] /\ ev[buf[q]] = "queued" /\ buf[q] \in Events
      BY <1>1, <1>a, <2>1 DEF Inv, PlaceInv
    <3>2. buf[q] # d
      BY <1>1, <3>1 DEF Inv, PlaceInv
    <3>3. ev'[buf[q]] = "queued"
      BY <1>a, <3>1, <3>2
    <3>. QED  BY <3>1, <3>2, <3>3
  <2>2. ASSUME NEW j \in Queues, pev'[j] # NoEvent
        PROVE  ev'[pev'[j]] = "taken" /\ (j # k => pev'[j] = pev[j] /\ pev[j] # d)
    <3>1. CASE j = k
      BY <1>1, <1>2, <1>4, <3>1
    <3>2. CASE j # k
      <4>1. pev'[j] = pev[j] /\ pev[j] \in Events /\ ev[pev[j]] = "taken"
        BY <1>a, <2>2, <3>2 DEF Inv, PlaceInv
      <4>2. pev[j] # d
        BY <1>1, <4>1
      <4>3. ev'[pev[j]] = "taken"
        BY <1>2, <4>1, <4>2
      <4>. QED  BY <3>2, <4>1, <4>2, <4>3
    <3>. QED  BY <3>1, <3>2
  <2>3. \A q, r \in Queues : buf'[q] = buf'[r] /\ buf'[q] # NoEvent => q = r
    BY <2>1 DEF Inv, PlaceInv
  <2>4. \A i, j \in Queues : pev'[i] = pev'[j] /\ pev'[i] # NoEvent => i = j
    BY <1>a, <2>2 DEF Inv, PlaceInv
  <2>. QED  BY <2>1, <2>2, <2>3, <2>4 DEF PlaceInv
<1>k. KeptInv'
  BY <1>1, <1>a DEF Inv, KeptInv, PlaceInv
<1>9. ProcInv' /\ ExitInv'
  <2>1. ProcInv'
    BY <1>1, <1>a, <1>5 DEF Inv, ProcInv, HandlingStates
  <2>2. ExitInv'
    <3>1. ASSUME NEW j \in Queues, proc'[j] = "exited" PROVE pq[j] \in shut /\ buf'[pq[j]] = NoEvent
      <4>1. proc[j] = "exited" /\ pq[j] \in shut /\ buf[pq[j]] = NoEvent /\ pq[j] \in Queues
        BY <1>a, <3>1 DEF Inv, TypeOK, ExitInv
      <4>. QED  BY <1>a, <4>1
    <3>. QED  BY <1>5, <3>1 DEF ExitInv
  <2>. QED  BY <2>1, <2>2
<1>10. HandleInv'
  <2>1. \A j \in Queues : /\ proc'[j] \in HandlingStates <=> proc[j] \in HandlingStates
                          /\ proc[j] \in HandlingStates => proc'[j] = proc[j] /\ pev'[j] = pev[j]
    BY <1>1, <1>a DEF HandlingStates
  <2>2. \A f \in Events : ev[f] = "handled" => ev'[f] = "handled"
    BY <1>1, <1>a
  <2>3. /\ current \in Events \cup {NoEvent} /\ cursor \in Events \cup {NoEvent}
        /\ UNCHANGED <<processing, cursor, status, current>>
    BY <1>5 DEF Inv, TypeOK, sVars
  <2>4. \A j \in Queues : proc'[j] = "handling" => proc[j] = "handling"
    BY <2>1 DEF HandlingStates
  <2>5. \A j \in Queues : proc'[j] = "succeeded" => proc[j] = "succeeded"
    BY <2>1 DEF HandlingStates
  <2>6. current' # NoEvent => ev'[current'] = "handled"
    BY <2>2, <2>3 DEF Inv, HandleInv
  <2>7. cursor # NoEvent /\ ev[cursor] = "handled" => ev'[cursor'] = "handled"
    BY <2>2, <2>3
  <2>8. \A j \in Queues : /\ processing' = j <=> proc'[j] \in HandlingStates
                          /\ proc'[j] \in HandlingStates => cursor' = pev'[j]
    BY <2>1, <2>3 DEF Inv, HandleInv
  <2>9. /\ \A j \in Queues : proc'[j] = "handling" => status' = "Processing"
        /\ \A j \in Queues : proc'[j] = "succeeded" => status' = "Success"
    BY <2>3, <2>4, <2>5 DEF Inv, HandleInv
  <2>. QED  BY <2>3, <2>6, <2>7, <2>8, <2>9 DEF Inv, HandleInv
<1>. QED  BY <1>6, <1>7, <1>8, <1>k, <1>9, <1>10 DEF Inv

LEMMA ProcessStepInv ==
  ASSUME Inv, NEW k \in Queues, Process(k)
  PROVE  Inv'
<1>. USE ConstLemma DEF Consts, NoEvent, NoQueue, Inv, TypeOK, EventStates, LockInv, PlaceInv, KeptInv, ProcInv,
                        ExitInv, HandleInv, HandlingStates, qVars, pVars, sVars, cVars
<1>1. ASSUME ProcessStart(k) PROVE Inv'
  BY <1>1 DEF ProcessStart
<1>2. ASSUME ProcessTake(k) PROVE Inv'
  BY <1>2, TakeInv
<1>3. ASSUME ProcessExit(k) PROVE Inv'
  BY <1>3 DEF ProcessExit
<1>4. ASSUME HandleBegin(k) PROVE Inv'
  BY <1>4 DEF HandleBegin
<1>5. ASSUME HandleCall(k) PROVE Inv'
  BY <1>5 DEF HandleCall
<1>6. ASSUME HandleFail(k) PROVE Inv'
  BY <1>6 DEF HandleFail, Release
<1>7. ASSUME HandleSucceed(k) PROVE Inv'
  BY <1>7 DEF HandleSucceed
<1>8. ASSUME HandleEnd(k) PROVE Inv'
  BY <1>8 DEF HandleEnd, Release
<1>. QED  BY <1>1, <1>2, <1>3, <1>4, <1>5, <1>6, <1>7, <1>8 DEF Process

LEMMA NextInv == ASSUME Inv, [Next]_vars PROVE Inv'
<1>1. CASE UNCHANGED vars
  BY <1>1 DEF vars, qVars, pVars, sVars, cVars, Inv, TypeOK, LockInv, PlaceInv, KeptInv, ProcInv, ExitInv, HandleInv
<1>2. CASE BeatCursor \/ BeatStatus
  BY <1>2 DEF BeatCursor, BeatStatus, qVars, pVars, cVars, Inv, TypeOK, LockInv, PlaceInv, KeptInv, ProcInv,
              ExitInv, HandleInv
<1>. QED
  BY <1>1, <1>2, EventStepInv, ControlStepInv, ProcessStepInv DEF Next

\* The inductive invariant holds in every behaviour of the subscriber.
THEOREM Invariance == Spec => []Inv
<1>1. Inv /\ [Next]_vars => Inv'
  BY NextInv
<1>. QED  BY InitInv, <1>1, PTL DEF Spec

\* Every field and program counter has its type.
THEOREM TypeCorrect == Spec => []TypeOK
BY Invariance, PTL DEF Inv

\* Unless a handling has just begun, or begins while it reads, a heartbeat gives an
\* event the status that event has, and Success goes with the current release.
THEOREM ReportsConsistent == Spec => ReportConsistent
<1>. USE ConstLemma DEF Consts, NoEvent, NoQueue
<1>1. ASSUME Inv, seen # NotReading, ~Mixed PROVE TrueOf(seen, status)
  <2>. USE <1>1 DEF Inv, TypeOK
  <2>1. seen = cursor /\ \A k \in Queues : proc[k] # "preparing"
    BY DEF Mixed
  <2>2. CASE processing = NoQueue
    BY <2>1, <2>2 DEF HandleInv, TrueOf
  <2>3. ASSUME NEW k \in Queues, processing = k PROVE TrueOf(seen, status)
    BY <2>1, <2>3 DEF HandleInv, HandlingStates, TrueOf, Is
  <2>. QED  BY <2>2, <2>3
<1>2. Inv => [seen # NotReading /\ seen' = NotReading => TrueOf(seen, status) \/ Mixed]_vars
  BY <1>1
<1>. QED  BY Invariance, <1>2, PTL DEF ReportConsistent

\* An accepted event is with a processor, or in a queue that is read or will be,
\* unless the processor of the queue first ran after another reset.
THEOREM AcceptedRead == Spec => []AcceptedIsRead
<1>. USE ConstLemma DEF Consts, NoEvent, NoQueue
<1>1. ASSUME Inv, NEW e \in Events, ev[e] = "queued"
      PROVE  \E q \in Queues : buf[q] = e /\ (Served(q) \/ Overtaken(q))
  <2>1. PICK q \in Queues : buf[q] = e
    BY <1>1 DEF Inv, KeptInv
  <2>2. proc[q] # "none" /\ q <= queue
    BY <1>1, <2>1 DEF Inv, TypeOK, ProcInv
  <2>3. CASE proc[q] = "spawned"
    <3>1. q = queue \/ q < queue
      BY <1>1, <2>2 DEF Inv, TypeOK
    <3>. QED  BY <2>1, <2>3, <3>1 DEF Served, Overtaken
  <2>4. CASE proc[q] # "spawned"
    BY <1>1, <2>1, <2>2, <2>4 DEF Inv, ExitInv, Served, Overtaken
  <2>. QED  BY <2>1, <2>3, <2>4
<1>2. ASSUME Inv, NEW e \in Events, ev[e] = "taken"
      PROVE  \E k \in Queues : pev[k] = e /\ proc[k] \in HandlingStates \cup {"waiting"}
  BY <1>2, ConstLemma DEF Inv, KeptInv, ProcInv
<1>3. Inv => AcceptedIsRead
  BY <1>1, <1>2 DEF AcceptedIsRead
<1>. QED  BY Invariance, <1>3, PTL

-----------------------------------------------------------------------------
(* The queues and processors together implement one queue *)

\* The abstract state.
Undelivered == {e \in Events : ev[e] \in {"drained", "queued", "taken"}} \ Calling
Delivered == {e \in Events : ev[e] \in {"handled", "replaced"}}

\* The event whose callback runs is with the processor that handles it.
LEMMA CallingIs ==
  ASSUME Inv
  PROVE  /\ \A k \in Queues : proc[k] \in HandlingStates => Calling = {pev[k]}
         /\ (\A k \in Queues : proc[k] \notin HandlingStates) => Calling = {}
         /\ \A e \in Calling : e \in Events /\ ev[e] = "taken"
<1>1. \A j, k \in Queues : proc[j] \in HandlingStates /\ proc[k] \in HandlingStates => j = k
  BY DEF Inv, HandleInv
<1>2. \A k \in Queues : proc[k] \in HandlingStates => pev[k] \in Events /\ ev[pev[k]] = "taken"
  BY DEF Inv, TypeOK, ProcInv, PlaceInv
<1>. QED  BY <1>1, <1>2 DEF Calling

LEMMA EventStepDelivers ==
  ASSUME Inv, NEW e \in Events, Receive(e) \/ Enqueue(e)
  PROVE  [Mailbox!Next]_(Mailbox!state)
<1>. USE ConstLemma DEF Consts, NoEvent, Inv, TypeOK, Move
<1>1. Calling' = Calling
  BY DEF Calling, Receive, Enqueue, EnqueueSkip, EnqueueCheck, EnqueueSend, EnqueueFull,
         EnqueueDrain, EnqueueDrop, EnqueuePush, EnqueuePanic, pVars
<1>2. CASE EnqueueSend(e)
  <2>1. ev[e] = "checked" /\ Undelivered' = Undelivered \cup {e} /\ Delivered' = Delivered
    BY <1>1, <1>2, CallingIs DEF EnqueueSend, Undelivered, Delivered
  <2>2. Mailbox!Accept(e)
    BY <1>1, <2>1, CallingIs DEF Mailbox!Accept, Mailbox!Fresh, Undelivered, Delivered
  <2>. QED  BY <2>2 DEF Mailbox!Next
<1>3. CASE EnqueueDrain(e)
  <2>. DEFINE d == buf[queue]
  <2>1. d \in Events /\ ev[d] = "queued" /\ ev[e] = "full" /\ d \in Undelivered
    BY <1>3, CallingIs DEF EnqueueDrain, PlaceInv, Undelivered
  <2>2. Undelivered' = (Undelivered \ {d}) \cup {e} /\ Delivered' = Delivered \cup {d}
    <3>1. ev' = [ev EXCEPT ![e] = "drained", ![d] = "replaced"] /\ d # e
      BY <1>3, <2>1 DEF EnqueueDrain
    <3>2. \A f \in Events : ev'[f] = IF f = d THEN "replaced" ELSE IF f = e THEN "drained" ELSE ev[f]
      BY <2>1, <3>1
    <3>3. e \notin Calling /\ d \notin Calling
      BY <2>1, CallingIs
    <3>4. ASSUME NEW f \in Events
          PROVE  /\ f \in Undelivered' <=> f \in (Undelivered \ {d}) \cup {e}
                 /\ f \in Delivered' <=> f \in Delivered \cup {d}
      BY <1>1, <2>1, <3>2, <3>3 DEF Undelivered, Delivered
    <3>5. /\ Undelivered \subseteq Events /\ Undelivered' \subseteq Events
          /\ Delivered \subseteq Events /\ Delivered' \subseteq Events
      BY DEF Undelivered, Delivered
    <3>6. Undelivered' = (Undelivered \ {d}) \cup {e}
      BY <3>4, <3>5
    <3>7. Delivered' = Delivered \cup {d}
      <4>1. d \in Events
        BY <2>1
      <4>. HIDE DEF d
      <4>. QED  BY <3>4, <3>5, <4>1
    <3>. QED  BY <3>6, <3>7
  <2>3. Mailbox!Supersede(d, e)
    BY <1>1, <2>1, <2>2, CallingIs DEF Mailbox!Supersede, Mailbox!Fresh, Undelivered, Delivered
  <2>. QED  BY <2>1, <2>3 DEF Mailbox!Next
<1>4. CASE \/ Receive(e) \/ EnqueueSkip(e) \/ EnqueueCheck(e) \/ EnqueueFull(e)
           \/ EnqueueDrop(e) \/ EnqueuePush(e) \/ EnqueuePanic(e)
  <2>1. \A f \in Events : /\ ev'[f] \in {"drained", "queued", "taken"} <=> ev[f] \in {"drained", "queued", "taken"}
                          /\ ev'[f] \in {"handled", "replaced"} <=> ev[f] \in {"handled", "replaced"}
    BY <1>4 DEF Receive, EnqueueSkip, EnqueueCheck, EnqueueFull, EnqueueDrop, EnqueuePush, EnqueuePanic
  <2>2. Undelivered' = Undelivered /\ Delivered' = Delivered
    BY <1>1, <2>1 DEF Undelivered, Delivered
  <2>. QED  BY <1>1, <2>2 DEF Mailbox!state, Undelivered, Delivered
<1>. QED  BY <1>2, <1>3, <1>4 DEF Enqueue

LEMMA ProcessStepDelivers ==
  ASSUME Inv, NEW k \in Queues, Process(k)
  PROVE  [Mailbox!Next]_(Mailbox!state)
<1>. USE ConstLemma DEF Consts, NoEvent
<1>1. Inv'
  BY ProcessStepInv
<1>2. CASE HandleBegin(k)
  <2>0. \A j \in Queues : proc[j] \notin HandlingStates
    BY <1>2 DEF HandleBegin, Inv, TypeOK, HandleInv, NoQueue, Queues
  <2>1. PICK e \in Events : e = pev[k] /\ ev[e] = "taken" /\ Calling = {}
    BY <1>2, <2>0, CallingIs DEF HandleBegin, Inv, TypeOK, ProcInv, PlaceInv
  <2>2. Calling' = {e}
    <3>1. pev' = pev /\ \A j \in Queues : proc'[j] \in HandlingStates <=> j = k
      BY <1>2, <2>0 DEF HandleBegin, Inv, TypeOK, HandlingStates
    <3>. QED  BY <2>1, <3>1 DEF Calling
  <2>3. Undelivered' = Undelivered \ {e} /\ Delivered' = Delivered /\ e \in Undelivered
    BY <1>2, <2>1, <2>2 DEF HandleBegin, Undelivered, Delivered
  <2>4. Mailbox!Begin(e)
    BY <2>1, <2>2, <2>3 DEF Mailbox!Begin, Undelivered, Delivered
  <2>. QED  BY <2>1, <2>4 DEF Mailbox!Next
<1>3. CASE HandleFail(k) \/ HandleEnd(k)
  <2>0. proc[k] \in HandlingStates /\ Release(k)
    BY <1>3 DEF HandleFail, HandleEnd, HandlingStates
  <2>1. PICK e \in Events : e = pev[k] /\ ev[e] = "taken" /\ Calling = {e}
    BY <2>0, CallingIs DEF Inv, TypeOK, ProcInv, PlaceInv
  <2>2. \A j \in Queues : proc'[j] \notin HandlingStates
    BY <2>0 DEF Release, Inv, TypeOK, HandleInv, HandlingStates
  <2>3. Calling' = {}
    BY <2>2 DEF Calling
  <2>4. Undelivered' = Undelivered /\ Delivered' = Delivered \cup {e}
    BY <2>0, <2>1, <2>3 DEF Release, Inv, TypeOK, Undelivered, Delivered
  <2>5. Mailbox!End(e)
    BY <2>1, <2>3, <2>4 DEF Mailbox!End, Undelivered, Delivered
  <2>. QED  BY <2>1, <2>5 DEF Mailbox!Next
<1>4. CASE ProcessStart(k) \/ ProcessTake(k) \/ ProcessExit(k) \/ HandleCall(k) \/ HandleSucceed(k)
  <2>1. Calling' = Calling
    BY <1>4 DEF ProcessStart, ProcessTake, ProcessExit, HandleCall, HandleSucceed, Calling,
                HandlingStates, Inv, TypeOK
  <2>2. \A f \in Events : /\ ev'[f] \in {"drained", "queued", "taken"} <=> ev[f] \in {"drained", "queued", "taken"}
                          /\ ev'[f] \in {"handled", "replaced"} <=> ev[f] \in {"handled", "replaced"}
    <3>1. CASE ProcessTake(k)
      <4>1. buf[pq[k]] \in Events /\ ev[buf[pq[k]]] = "queued"
        BY <3>1, TakesQueued
      <4>. QED  BY <3>1, <4>1 DEF ProcessTake, Inv, TypeOK
    <3>2. CASE ~ProcessTake(k)
      BY <1>4, <3>2 DEF ProcessStart, ProcessExit, HandleCall, HandleSucceed
    <3>. QED  BY <3>1, <3>2
  <2>3. Undelivered' = Undelivered /\ Delivered' = Delivered
    BY <2>1, <2>2 DEF Undelivered, Delivered
  <2>. QED  BY <2>1, <2>3 DEF Mailbox!state, Undelivered, Delivered
<1>. QED  BY <1>2, <1>3, <1>4 DEF Process

\* However often the watcher is stopped and started, its queues and processors
\* deliver as one queue: callbacks one at a time, each accepted event once, and
\* none given up except for another one (watch.go:426, 438).
THEOREM Delivers == Spec => ImplementsDelivery
<1>1. Init => Mailbox!Init
  BY DEF Init, Mailbox!Init, Calling, HandlingStates
<1>2. Inv /\ [Next]_vars => [Mailbox!Next]_(Mailbox!state)
  <2>. SUFFICES ASSUME Inv, [Next]_vars PROVE [Mailbox!Next]_(Mailbox!state)
    OBVIOUS
  <2>1. CASE UNCHANGED vars
    BY <2>1 DEF vars, pVars, Mailbox!state, Calling
  <2>2. ASSUME NEW c \in Controllers, Control(c) PROVE UNCHANGED Mailbox!state
    <3>1. UNCHANGED <<ev, pev>> /\ Calling' = Calling
      <4>1. CASE CloseFlag(c) \/ CloseQueue(c) \/ ResetFlag(c)
        BY <4>1 DEF CloseFlag, CloseQueue, ResetFlag, pVars, Calling
      <4>2. CASE ResetQueue(c)
        <5>1. \A k \in Queues : proc'[k] \in HandlingStates <=> proc[k] \in HandlingStates
          BY <4>2, ConstLemma
          DEF ResetQueue, Consts, Inv, TypeOK, ProcInv, Queues, SubscriberAssumption, HandlingStates
        <5>. QED  BY <4>2, <5>1 DEF ResetQueue, Calling
      <4>. QED  BY <2>2, <4>1, <4>2 DEF Control
    <3>. QED  BY <3>1 DEF Mailbox!state
  <2>3. CASE BeatCursor \/ BeatStatus
    BY <2>3 DEF BeatCursor, BeatStatus, pVars, Mailbox!state, Calling
  <2>. QED  BY <2>1, <2>2, <2>3, EventStepDelivers, ProcessStepDelivers DEF Next
<1>. QED  BY Invariance, <1>1, <1>2, PTL DEF Spec, ImplementsDelivery, Mailbox!Spec

-----------------------------------------------------------------------------
(* Closing and resetting *)

\* As long as no two controllers have met, the queue in use is closed only when
\* closeEventQueue has run to its end and the flag still says so.
ShutInv ==
  ~crossed =>
    /\ panic # "close"
    /\ \A q \in shut : q <= queue
    /\ \A c, d \in Controllers : ctl[c] # "idle" /\ ctl[d] # "idle" => c = d
    /\ \A c \in Controllers : ctl[c] = "closing" => closed = 1 /\ queue \notin shut
    /\ closed = 0 /\ (\A c \in Controllers : ctl[c] # "resetting") => queue \notin shut

LEMMA ShutNext == ASSUME TypeOK, ShutInv, [Next]_vars PROVE ShutInv'
<1>1. CASE UNCHANGED vars
  BY <1>1 DEF vars, qVars, cVars, ShutInv
<1>2. ASSUME NEW e \in Events, Receive(e) \/ Enqueue(e) PROVE ShutInv'
  BY <1>2 DEF Receive, Enqueue, EnqueueSkip, EnqueueCheck, EnqueueSend, EnqueueFull,
              EnqueueDrain, EnqueueDrop, EnqueuePush, EnqueuePanic, ShutInv, qVars, cVars
<1>3. ASSUME NEW c \in Controllers, CloseFlag(c) PROVE ShutInv'
  BY <1>3 DEF CloseFlag, Meets, TypeOK, ShutInv, qVars
<1>4. ASSUME NEW c \in Controllers, CloseQueue(c) PROVE ShutInv'
  BY <1>4 DEF CloseQueue, TypeOK, ShutInv, Queues
<1>5. ASSUME NEW c \in Controllers, ResetFlag(c) PROVE ShutInv'
  BY <1>5 DEF ResetFlag, Meets, TypeOK, ShutInv, qVars
<1>6. ASSUME NEW c \in Controllers, ResetQueue(c) PROVE ShutInv'
  BY <1>6 DEF ResetQueue, TypeOK, ShutInv, Queues
<1>7. ASSUME (\E k \in Queues : Process(k)) \/ BeatCursor \/ BeatStatus PROVE ShutInv'
  BY <1>7 DEF Process, ProcessStart, ProcessTake, ProcessExit, HandleBegin, HandleCall, HandleFail,
              HandleSucceed, HandleEnd, Release, BeatCursor, BeatStatus, ShutInv, qVars, cVars
<1>. QED  BY <1>1, <1>2, <1>3, <1>4, <1>5, <1>6, <1>7 DEF Next, Control

LEMMA ShutAlways == Spec => []ShutInv
<1>1. Init => ShutInv
  BY DEF Init, ShutInv
<1>2. TypeOK /\ ShutInv /\ [Next]_vars => ShutInv'
  BY ShutNext
<1>. QED  BY TypeCorrect, <1>1, <1>2, PTL DEF Spec

\* The compare-and-swap keeps closeEventQueue from closing a queue twice, for any
\* number of goroutines that stop and start the watcher, until two do it at once.
THEOREM CloseSafe == Spec => []NoDoubleClose
<1>1. ShutInv => NoDoubleClose
  BY DEF ShutInv, NoDoubleClose
<1>. QED  BY ShutAlways, <1>1, PTL

\* A queue in use that is not closed has a reader, or a processor that has not
\* got to run yet and will take it.
ReadInv ==
  queue \notin shut =>
    \E k \in Queues : proc[k] = "spawned" \/ (pq[k] = queue /\ proc[k] # "exited")

LEMMA ReadNext == ASSUME Inv, ReadInv, [Next]_vars PROVE ReadInv'
<1>. USE DEF Inv, TypeOK
<1>1. CASE UNCHANGED vars
  BY <1>1 DEF vars, qVars, pVars, ReadInv
<1>2. ASSUME NEW e \in Events, Receive(e) \/ Enqueue(e) PROVE ReadInv'
  BY <1>2 DEF Receive, Enqueue, EnqueueSkip, EnqueueCheck, EnqueueSend, EnqueueFull,
              EnqueueDrain, EnqueueDrop, EnqueuePush, EnqueuePanic, ReadInv, qVars, pVars
<1>3. ASSUME NEW c \in Controllers, CloseFlag(c) \/ CloseQueue(c) \/ ResetFlag(c) PROVE ReadInv'
  BY <1>3 DEF CloseFlag, CloseQueue, ResetFlag, ReadInv, qVars, pVars
<1>4. ASSUME NEW c \in Controllers, ResetQueue(c) PROVE ReadInv'
  <2>1. queue + 1 \in Queues /\ proc'[queue + 1] = "spawned"
    BY <1>4, SubscriberAssumption DEF ResetQueue, LockInv, Queues, SubscriberAssumption
  <2>. QED  BY <2>1 DEF ReadInv
<1>5. ASSUME NEW k \in Queues, ProcessStart(k) PROVE ReadInv'
  <2>1. pq'[k] = queue' /\ proc'[k] = "ranging"
    BY <1>5 DEF ProcessStart, qVars
  <2>. QED  BY <2>1 DEF ReadInv
<1>6. ASSUME NEW k \in Queues, ProcessExit(k) PROVE ReadInv'
  BY <1>6 DEF ProcessExit, ReadInv, qVars
<1>7. ASSUME NEW k \in Queues, Process(k), ~ProcessStart(k), ~ProcessExit(k) PROVE ReadInv'
  BY <1>7 DEF Process, ProcessTake, HandleBegin, HandleCall, HandleFail, HandleSucceed, HandleEnd,
              Release, ReadInv, qVars
<1>8. CASE BeatCursor \/ BeatStatus
  BY <1>8 DEF BeatCursor, BeatStatus, qVars, pVars, ReadInv
<1>. QED  BY <1>1, <1>2, <1>3, <1>4, <1>5, <1>6, <1>7, <1>8 DEF Next, Control

\* Until two goroutines stop and start the watcher at once, an open subscriber has
\* an open queue and somebody who reads it, although a processor takes whatever
\* queue there is when it gets to run (watch.go:426).
THEOREM OpenIsRead == Spec => []OpenQueueIsRead
<1>1. Init => ReadInv
  BY ConstLemma DEF Consts, Init, ReadInv
<1>2. Inv /\ ReadInv /\ [Next]_vars => ReadInv'
  BY ReadNext
<1>3. Inv /\ ShutInv /\ ReadInv => OpenQueueIsRead
  BY DEF Inv, LockInv, ShutInv, ReadInv, OpenQueueIsRead
<1>. QED  BY Invariance, ShutAlways, <1>1, <1>2, <1>3, PTL DEF Spec

-----------------------------------------------------------------------------
(* Dropping an event *)

\* enqueueLatestEvent gives an event up between its two selects only when a
\* processor has taken the event it found pending, for any number of events and
\* however often the watcher restarts.
THEOREM DropExcused == Spec => DropOnlyAfterTake
<1>1. ASSUME Inv, Next, NEW e \in Events, ev[e] = "full", ev'[e] = "dropped"
      PROVE  found \in Events /\ ev[found] \in {"taken", "handled"}
  <2>1. buf[queue] = NoEvent
    <3>1. PICK d \in Events : EnqueueDrop(d)
      BY <1>1 DEF Next, Receive, Enqueue, EnqueueSkip, EnqueueCheck, EnqueueSend, EnqueueFull,
             EnqueueDrain, EnqueuePush, EnqueuePanic, Control, CloseFlag, CloseQueue, ResetFlag,
             ResetQueue, Process, ProcessStart, ProcessTake, ProcessExit, HandleBegin, HandleCall,
             HandleFail, HandleSucceed, HandleEnd, Release, BeatCursor, BeatStatus, Move, Inv, TypeOK
    <3>. QED  BY <3>1 DEF EnqueueDrop
  <2>. QED  BY <1>1, <2>1, ConstLemma DEF Inv, LockInv, Consts, NoEvent
<1>2. Inv /\ [Next]_vars =>
        [\A e \in Events : ev[e] = "full" /\ ev'[e] = "dropped" =>
            found \in Events /\ ev[found] \in {"taken", "handled"}]_vars
  BY <1>1
<1>. QED  BY Invariance, <1>2, PTL DEF Spec, DropOnlyAfterTake

-----------------------------------------------------------------------------
(* Progress: what the heartbeats report of a download *)

\* The workers that have told of their file.
Sent == {f \in Files : worker[f] = "done"}

\* Where an execution is, its workers and its goroutine.
PhaseInv ==
  /\ phase = "idle" \/ release > 0
  /\ phase = "hooks" =>
       /\ \A f \in Files : worker[f] = "todo"
       /\ num[release] = 0 /\ reader[release] \notin {"load", "store"}
  /\ phase # "files" => Running = {}
  /\ \A r \in Releases : r > release => num[r] = 0 /\ reader[r] = "none"
  /\ \A r \in cancelled : r < release \/ (r = release /\ phase = "idle")

\* The counter is never above the number of files saved, also when pull's
\* goroutine stores an old value, and not below it unless one was stored.
CountInv ==
  release > 0 =>
    /\ num[release] <= Cardinality(Counted)
    /\ reader[release] = "store" => loaded[release] <= Cardinality(Counted)
    /\ mode # "pull" \/ ~overlap => num[release] = Cardinality(Counted)
    /\ mode = "pull" /\ ~overlap /\ reader[release] = "store" =>
         loaded[release] = Cardinality(Counted)

\* What the subscriber shows lies between the files told of and those counted.
ShownInv ==
  mode = "watch" /\ release > 0 =>
    /\ reader[release] = "store" => Cardinality(Sent) <= loaded[release]
    /\ reader[release] \notin {"load", "store"} /\ Sent # {} =>
         late \/ (Cardinality(Sent) <= shown /\ shown <= Cardinality(Counted))

ProgressInv == ProgressTypeOK /\ PhaseInv /\ CountInv /\ ShownInv

\* Cardinalities of sets of files.
LEMMA FileSets ==
  /\ Cardinality(Files) \in Nat /\ Cardinality({}) = 0 /\ 0 \in Counts
  /\ \A n \in Counts : n \in Nat
  /\ \A S \in SUBSET Files : Cardinality(S) \in Counts
  /\ \A S, T \in SUBSET Files : S \subseteq T => Cardinality(S) <= Cardinality(T)
  /\ \A S \in SUBSET Files, f \in Files : f \notin S => Cardinality(S \cup {f}) = Cardinality(S) + 1
<1>1. \A S \in SUBSET Files : IsFiniteSet(S) /\ Cardinality(S) \in Nat
  BY ProgressAssumption, FS_Subset, FS_CardinalityType DEF ProgressAssumption
<1>2. \A S, T \in SUBSET Files : S \subseteq T => Cardinality(S) <= Cardinality(T)
  BY <1>1, FS_Subset
<1>3. \A S \in SUBSET Files, f \in Files : f \notin S => Cardinality(S \cup {f}) = Cardinality(S) + 1
  BY <1>1, FS_AddElement
<1>. QED  BY <1>1, <1>2, <1>3, FS_EmptySet DEF Counts

LEMMA ProgressInitInv == ProgressInit => ProgressInv
<1>. SUFFICES ASSUME ProgressInit PROVE ProgressInv
  OBVIOUS
<1>1. ProgressTypeOK
  <2>1. num \in [Releases -> Counts] /\ loaded \in [Releases -> Counts] /\ shown \in Counts
    BY FileSets DEF ProgressInit
  <2>2. release \in 0..MaxReleases
    BY ProgressAssumption DEF ProgressInit, ProgressAssumption
  <2>. QED  BY <2>1, <2>2 DEF ProgressInit, ProgressTypeOK
<1>. QED  BY <1>1 DEF ProgressInit, ProgressInv, PhaseInv, CountInv, ShownInv, Running

LEMMA ExecutionInv == ASSUME ProgressInv, Execution PROVE ProgressInv'
<1>. USE DEF ProgressInv
<1>0. release \in Nat /\ (release > 0 => release \in Releases)
  BY ProgressAssumption DEF ProgressTypeOK, Releases, ProgressAssumption
<1>1. CASE Begin
  <2>1. release' \in Releases /\ release' = release + 1 /\ release' > release
    BY <1>1, <1>0, ProgressAssumption DEF Begin, Releases, ProgressAssumption
  <2>2. Counted' = {} /\ Sent' = {} /\ Running' = {} /\ Cardinality(Counted') = 0 /\ Cardinality(Sent') = 0
    BY <1>1, FileSets DEF Begin, Counted, Sent, Running
  <2>3. num'[release'] = 0 /\ reader'[release'] \in {"none", "select"}
    BY <1>1, <2>1 DEF Begin, PhaseInv, ProgressTypeOK
  <2>4. ProgressTypeOK'
    <3>1. release' \in 0..MaxReleases
      BY <2>1 DEF Releases
    <3>. QED  BY <1>1, <2>1, <3>1 DEF Begin, ProgressTypeOK
  <2>5. PhaseInv'
    BY <1>1, <1>0, <2>1, <2>2, <2>3 DEF Begin, PhaseInv, ProgressTypeOK, Releases
  <2>6. CountInv' /\ ShownInv'
    BY <2>1, <2>2, <2>3 DEF CountInv, ShownInv
  <2>. QED  BY <2>4, <2>5, <2>6
<1>2. CASE UpdateFiles
  <2>1. Counted = {} /\ Counted' = {} /\ Sent' = {} /\ Running' = {} /\ Cardinality(Counted) = 0
    BY <1>2, FileSets DEF UpdateFiles, PhaseInv, Counted, Sent, Running
  <2>2. num' = num
    BY <1>2, <1>0 DEF UpdateFiles, PhaseInv, ProgressTypeOK
  <2>3. ProgressTypeOK'
    BY <1>2, <2>2 DEF UpdateFiles, ProgressTypeOK
  <2>4. PhaseInv'
    BY <1>2, <1>0, <2>1, <2>2 DEF UpdateFiles, PhaseInv
  <2>5. CountInv' /\ ShownInv'
    BY <1>2, <2>1, <2>2 DEF UpdateFiles, PhaseInv, CountInv, ShownInv
  <2>. QED  BY <2>3, <2>4, <2>5
<1>3. CASE FilesDone \/ End
  <2>1. Counted' = Counted /\ Sent' = Sent
    BY <1>3 DEF FilesDone, End, Counted, Sent
  <2>2. Running' = {}
    BY <1>3 DEF FilesDone, End, Running, Settled, PhaseInv
  <2>3. ProgressTypeOK'
    BY <1>3, <1>0 DEF FilesDone, End, ProgressTypeOK, PhaseInv
  <2>4. PhaseInv'
    BY <1>3, <1>0, <2>2 DEF FilesDone, End, PhaseInv, ProgressTypeOK
  <2>5. CountInv' /\ ShownInv'
    BY <1>3, <2>1 DEF FilesDone, End, CountInv, ShownInv
  <2>. QED  BY <2>3, <2>4, <2>5
<1>4. ASSUME NEW f \in Files, Take(f) \/ Fail(f) PROVE ProgressInv'
  <2>1. Counted' = Counted /\ Sent' = Sent
    BY <1>4 DEF Take, Fail, Counted, Sent, ProgressTypeOK
  <2>2. phase = "files" /\ phase' = "files"
    BY <1>4 DEF Take, Fail, PhaseInv, Running
  <2>3. ProgressTypeOK'
    BY <1>4 DEF Take, Fail, ProgressTypeOK
  <2>. QED  BY <1>4, <2>1, <2>2, <2>3 DEF Take, Fail, PhaseInv, CountInv, ShownInv
<1>5. ASSUME NEW f \in Files, Count(f) PROVE ProgressInv'
  <2>1. phase = "files" /\ phase' = "files" /\ release \in Releases
    BY <1>5, <1>0 DEF Count, PhaseInv, Running
  <2>2. Counted' = Counted \cup {f} /\ f \notin Counted /\ Sent' = Sent
    BY <1>5 DEF Count, Counted, Sent, ProgressTypeOK
  <2>3. /\ Counted \in SUBSET Files /\ Counted' \in SUBSET Files
        /\ Cardinality(Counted') = Cardinality(Counted) + 1
        /\ Cardinality(Counted) \in Nat /\ Cardinality(Counted') <= Cardinality(Files)
    BY <2>2, FileSets DEF Counted, Counts
  <2>4. num'[release] = num[release] + 1 /\ num[release] \in Nat /\ num[release] <= Cardinality(Counted)
    BY <1>5, <2>1 DEF Count, ProgressTypeOK, Counts, CountInv, Releases
  <2>5. ProgressTypeOK'
    <3>1. num'[release] \in Counts
      BY <2>3, <2>4, FileSets DEF Counts
    <3>2. num' \in [Releases -> Counts]
      BY <1>5, <2>1, <3>1 DEF Count, ProgressTypeOK
    <3>. QED  BY <1>5, <3>2 DEF Count, ProgressTypeOK
  <2>6. PhaseInv'
    BY <1>5, <2>1 DEF Count, PhaseInv, ProgressTypeOK, Releases
  <2>7. CountInv'
    <3>1. loaded[release] \in Nat
      BY <2>1, FileSets DEF ProgressTypeOK
    <3>2. ~overlap' => ~overlap /\ reader[release] # "store"
      BY <1>5 DEF Count
    <3>. QED  BY <1>5, <2>1, <2>3, <2>4, <3>1, <3>2 DEF Count, CountInv
  <2>8. ShownInv'
    BY <1>5, <2>1, <2>2, <2>3, FileSets DEF Count, ShownInv, ProgressTypeOK, Counts
  <2>. QED  BY <2>5, <2>6, <2>7, <2>8
<1>6. ASSUME NEW f \in Files, Send(f) PROVE ProgressInv'
  <2>1. phase = "files" /\ release \in Releases
    BY <1>6, <1>0 DEF Send, PhaseInv, Running
  <2>2. Counted' = Counted
    BY <1>6 DEF Send, Counted, ProgressTypeOK
  <2>3. reader'[release] = "load"
    BY <1>6, <2>1 DEF Send, ProgressTypeOK
  <2>4. ProgressTypeOK'
    BY <1>6 DEF Send, ProgressTypeOK
  <2>. QED  BY <1>6, <2>1, <2>2, <2>3, <2>4 DEF Send, PhaseInv, CountInv, ShownInv
<1>. QED
  BY <1>1, <1>2, <1>3, <1>4, <1>5, <1>6 DEF Execution

LEMMA ReceiverInv == ASSUME ProgressInv, NEW r \in Releases, Receiver(r) PROVE ProgressInv'
<1>. USE DEF ProgressInv
<1>0. Counted' = Counted /\ Sent' = Sent /\ Running' = Running
  BY DEF Receiver, Load, Store, Stop, Counted, Sent, Running
<1>1. CASE Load(r)
  <2>1. ProgressTypeOK'
    BY <1>1 DEF Load, ProgressTypeOK
  <2>2. Cardinality(Sent) <= Cardinality(Counted)
    BY FileSets DEF Sent, Counted
  <2>3. CountInv'
    BY <1>1, <1>0 DEF Load, CountInv, ProgressTypeOK
  <2>4. ShownInv'
    BY <1>1, <1>0, <2>2 DEF Load, CountInv, ShownInv, ProgressTypeOK
  <2>. QED  BY <1>1, <1>0, <2>1, <2>3, <2>4 DEF Load, PhaseInv
<1>2. CASE Store(r)
  <2>1. ProgressTypeOK'
    BY <1>2 DEF Store, Written, ProgressTypeOK
  <2>2. release > 0 /\ release \in Nat /\ ~(r > release)
    BY <1>2, <1>0 DEF Store, PhaseInv, ProgressTypeOK, Releases
  <2>3. /\ reader[r] = "store" /\ reader'[r] = "select"
        /\ \A q \in Releases \ {r} : num'[q] = num[q] /\ reader'[q] = reader[q]
        /\ mode # "pull" => num' = num /\ shown' = loaded[r] /\ (late' <=> r # release)
        /\ mode = "pull" => num'[r] = loaded[r]
        /\ UNCHANGED <<mode, release, phase, worker, loaded, cancelled, overlap>>
    BY <1>2 DEF Store, Written, ProgressTypeOK
  <2>4. release \in Releases
    BY <2>2, ProgressAssumption DEF ProgressTypeOK, Releases, ProgressAssumption
  <2>5. PhaseInv'
    BY <1>0, <2>2, <2>3, <2>4 DEF PhaseInv
  <2>6. CountInv'
    BY <1>0, <2>3, <2>4 DEF CountInv
  <2>7. ShownInv'
    BY <1>0, <2>3, <2>4 DEF CountInv, ShownInv
  <2>. QED  BY <2>1, <2>5, <2>6, <2>7
<1>3. CASE Stop(r)
  <2>1. ProgressTypeOK'
    BY <1>3 DEF Stop, ProgressTypeOK
  <2>. QED  BY <1>3, <1>0, <2>1 DEF Stop, PhaseInv, CountInv, ShownInv, ProgressTypeOK
<1>. QED  BY <1>1, <1>2, <1>3 DEF Receiver

LEMMA ProgressNextInv == ASSUME ProgressInv, [ProgressNext]_progressVars PROVE ProgressInv'
<1>1. CASE UNCHANGED progressVars
  BY <1>1 DEF progressVars, ProgressInv, ProgressTypeOK, PhaseInv, CountInv, ShownInv, Running,
              Counted, Sent
<1>. QED  BY <1>1, ExecutionInv, ReceiverInv DEF ProgressNext

\* The invariant of an execution, its workers and the goroutine that reads the
\* counter, on which the next three theorems rest.
THEOREM ProgressInvariance == ProgressSpec => []ProgressInv
<1>1. ProgressInv /\ [ProgressNext]_progressVars => ProgressInv'
  BY ProgressNextInv
<1>. QED  BY ProgressInitInv, <1>1, PTL DEF ProgressSpec

\* Counters, channels and what is shown keep their types, for any number of files
\* and of releases.
THEOREM ProgressTypeCorrect == ProgressSpec => []ProgressTypeOK
BY ProgressInvariance, PTL DEF ProgressInv

\* What a subscriber shows after a release is the number of its files that were
\* saved, for any number of them, however the goroutines interleave, unless the
\* goroutine of an earlier release stored last.
THEOREM ShownCorrect == ProgressSpec => []ShownIsSaved
<1>1. ASSUME ProgressInv, mode = "watch", phase = "idle", AtRest, release > 0, num[release] > 0, ~late
      PROVE  shown = Cardinality(Counted)
  <2>1. Counted = Sent
    BY <1>1 DEF ProgressInv, PhaseInv, Running, Counted, Sent
  <2>2. Sent # {}
    BY <1>1, <2>1, FileSets DEF ProgressInv, CountInv, ProgressTypeOK, Counts
  <2>3. release \in Releases
    BY <1>1, ProgressAssumption DEF ProgressInv, ProgressTypeOK, Releases, ProgressAssumption
  <2>4. Cardinality(Counted) \in Nat /\ shown \in Nat
    BY <1>1, FileSets DEF ProgressInv, ProgressTypeOK, Counts, Counted
  <2>. QED  BY <1>1, <2>1, <2>2, <2>3, <2>4 DEF ProgressInv, ShownInv, AtRest
<1>2. ProgressInv => ShownIsSaved
  BY <1>1 DEF ShownIsSaved
<1>. QED  BY ProgressInvariance, <1>2, PTL

\* Pull counts every file it saved unless an addition fell between a load and a
\* store of its goroutine.
THEOREM PullCorrect == ProgressSpec => []PullCountsAll
<1>1. ProgressInv => PullCountsAll
  BY DEF ProgressInv, PhaseInv, CountInv, PullCountsAll
<1>. QED  BY ProgressInvariance, <1>1, PTL
=============================================================================
