------------------------------- MODULE Watcher -------------------------------
(***************************************************************************)
(* The watch session and its reconnection (client/watch.go, reconnect.go,  *)
(* heartbeat.go, and StartWatch, ResetLabels, Close of client.go).         *)
(*                                                                         *)
(* StartWatch makes a session (w.vas, w.cancel), opens the stream with the *)
(* labels of the subscribers and spawns three goroutines: one waits for a  *)
(* reconnect signal, one receives, one sends heartbeats.  A receive or     *)
(* heartbeat loop that fails leaves a signal in the channel reconnectChan, *)
(* which holds one and belongs to no session, and ends.  The goroutine     *)
(* that takes the signal stops the session, reconnects the upstream and    *)
(* starts the next session.  All of them reach the session through the     *)
(* field w.vas, whatever it holds when they read it: StartWatch adds a loop *)
(* to the wait group it finds there, and the loop, when it gets to run,    *)
(* binds the group it will leave.  A sync.WaitGroup panics when its counter *)
(* becomes negative, and may panic when it is used again before a Wait has *)
(* returned.                                                               *)
(*                                                                         *)
(* Sessions are numbered as they are made.  A thread is the user's         *)
(* goroutine (User) or the reconnect goroutine of a session, which has the *)
(* session's number.                                                       *)
(***************************************************************************)
EXTENDS Integers, FiniteSets

CONSTANTS
  MaxSessions,  \* bound: sessions made
  MaxLabels,    \* bound: label changes
  MayClose      \* the user closes the client at some time

ASSUME WatcherAssumption ==
  /\ MaxSessions \in Nat \ {0} /\ MaxLabels \in Nat /\ MayClose \in BOOLEAN

VARIABLES
  vas,       \* the session in w.vas and w.cancel; None before the first
  made,      \* sessions made so far
  live,      \* the sessions whose context is not cancelled
  sent,      \* the labels each session was opened with
  labels,    \* the subscribers' labels, as the number of the change
  signal,    \* reconnectChan holds a signal
  qOpen,     \* the subscribers' event queues are open
  pc,        \* where each thread is
  mine,      \* the session a thread is starting
  wg,        \* the session whose wait group a thread waits for
  recv,      \* the receive loop of each session
  beat,      \* the heartbeat loop of each session
  clean,     \* history: Close found no reconnection, and none has begun since
  recvIn,    \* the session to whose wait group the receive loop was added ...
  recvOut,   \* ... and the one from whose it will be taken off
  beatIn, beatOut,  \* the same of the heartbeat loop
  panic      \* a wait group has ended the process

sess      == <<vas, made, live, sent>>
recvLoops == <<recv, recvIn, recvOut>>
beatLoops == <<beat, beatIn, beatOut>>
loops     == <<recvLoops, beatLoops>>
threads   == <<pc, mine, wg>>
vars      == <<sess, labels, signal, qOpen, threads, loops, clean, panic>>

None == 0
User == 0
Sessions == 1..MaxSessions
Threads  == {User} \cup Sessions

\* Where a thread is in StopWatch, in tryReconnect and in StartWatch.
StopSteps  == {"cancel", "closeQueues", "wait", "blocked"}
StartSteps == {"start", "payload", "watch", "spawnWaiter", "spawnRecv", "spawnBeat"}

\* A loop is spawned, runs, has failed and not told yet, or has ended; "mute" is a
\* heartbeat loop that could not encode its payload.
LoopStates == {"none", "spawned", "running", "failed", "ended", "mute"}
Gone == {"ended", "mute"}

TypeOK ==
  /\ vas \in 0..made /\ made \in 0..MaxSessions /\ live \subseteq 1..made
  /\ labels \in 0..MaxLabels /\ sent \in [Sessions -> 0..labels]
  /\ {signal, qOpen, clean, panic} \subseteq BOOLEAN
  /\ pc \in [Threads -> {"none", "idle", "notify", "selecting", "dial", "done", "closed"}
                          \cup StopSteps \cup StartSteps]
  /\ mine \in [Threads -> 0..made] /\ wg \in [Threads -> 0..made]
  /\ recv \in [Sessions -> LoopStates] /\ beat \in [Sessions -> LoopStates]
  /\ recvIn \in [Sessions -> 0..made] /\ recvOut \in [Sessions -> 0..made]
  /\ beatIn \in [Sessions -> 0..made] /\ beatOut \in [Sessions -> 0..made]

\* Subscribed, not started.
Init ==
  /\ vas = None /\ made = 0 /\ live = {} /\ sent = [s \in Sessions |-> 0]
  /\ labels = 0 /\ signal = FALSE /\ qOpen = TRUE /\ clean = FALSE /\ panic = FALSE
  /\ pc = [t \in Threads |-> IF t = User THEN "idle" ELSE "none"]
  /\ mine = [t \in Threads |-> None] /\ wg = [t \in Threads |-> None]
  /\ recv = [s \in Sessions |-> "none"] /\ beat = [s \in Sessions |-> "none"]
  /\ recvIn = [s \in Sessions |-> None] /\ recvOut = [s \in Sessions |-> None]
  /\ beatIn = [s \in Sessions |-> None] /\ beatOut = [s \in Sessions |-> None]

Goto(t, from, to) == ~panic /\ pc[t] = from /\ pc' = [pc EXCEPT ![t] = to]
Recv(s, from, to) == ~panic /\ recv[s] = from /\ recv' = [recv EXCEPT ![s] = to]
Beat(s, from, to) == ~panic /\ beat[s] = from /\ beat' = [beat EXCEPT ![s] = to]

\* The counter of the wait group of session g.
Joined(g) == {<<"recv", s>> : s \in {r \in Sessions : recvIn[r] = g}}
               \cup {<<"beat", s>> : s \in {r \in Sessions : beatIn[r] = g}}
Left(g) == {<<"recv", s>> : s \in {r \in Sessions : recv[r] \in Gone /\ recvOut[r] = g}}
             \cup {<<"beat", s>> : s \in {r \in Sessions : beat[r] \in Gone /\ beatOut[r] = g}}
Counter(g) == Cardinality(Joined(g)) - Cardinality(Left(g))

\* Wg.Add(1): a Wait that the counter has released and that has not returned yet
\* may find the group in use again.
Add(g) ==
  panic' \in {FALSE, (\E t \in Threads : pc[t] = "blocked" /\ wg[t] = g) /\ Counter(g) = 0}

\* Wg.Done().
Done(g) == panic' = (Counter(g) = 0)

-----------------------------------------------------------------------------
(* Plausible mistakes in the actions below *)

TakeNoStop(s) ==             \* the previous session is not stopped first
  /\ signal /\ signal' = FALSE
  /\ Goto(s, "selecting", "dial")
  /\ clean' = FALSE
  /\ UNCHANGED <<sess, labels, qOpen, mine, wg, loops, panic>>

RecvNotifyNothing(s) ==      \* the receive loop ends without a signal
  /\ Recv(s, "failed", "ended")
  /\ Done(recvOut[s])
  /\ UNCHANGED <<sess, labels, signal, qOpen, threads, recvIn, recvOut, beatLoops, clean>>

NotifyUnlessRestarting ==    \* no signal while a reconnection is under way anyway
  /\ Goto(User, "notify", "idle")
  /\ signal' = (signal \/ \A s \in Sessions :
                   pc[s] \notin {"cancel", "closeQueues", "wait", "dial", "start", "payload", "watch"})
  /\ UNCHANGED <<sess, labels, qOpen, mine, wg, loops, clean, panic>>

StartNoReset(t) ==           \* StartWatch does not reset the subscribers
  /\ Goto(t, "start", "payload")
  /\ made < MaxSessions
  /\ made' = made + 1 /\ vas' = made' /\ live' = live \cup {made'}
  /\ mine' = [mine EXCEPT ![t] = made']
  /\ UNCHANGED <<sent, labels, signal, qOpen, wg, loops, clean, panic>>

WaitAll(t) ==                \* the wait group also counts the goroutine that waits
  /\ \A s \in Sessions : pc[s] \notin {"wait", "blocked"}
  /\ \E step \in {"wait", "blocked"} : Goto(t, step, IF t = User THEN "closed" ELSE "dial")
  /\ Counter(wg[t]) = 0
  /\ wg' = [wg EXCEPT ![t] = None]
  /\ UNCHANGED <<sess, labels, signal, qOpen, mine, loops, clean, panic>>

StopNoWait(t) ==             \* StopWatch does not wait for the wait group
  /\ Goto(t, "wait", IF t = User THEN "closed" ELSE "dial")
  /\ wg' = [wg EXCEPT ![t] = None]
  /\ UNCHANGED <<sess, labels, signal, qOpen, mine, loops, clean, panic>>

-----------------------------------------------------------------------------
(* The user's goroutine: StartWatch, ResetLabels, Close *)

\* The user starts once, and again only when StartWatch returned an error.
UserStart ==
  /\ \A s \in Sessions : pc[s] = "none"
  /\ Goto(User, "idle", "start")
  /\ UNCHANGED <<sess, labels, signal, qOpen, mine, wg, loops, clean, panic>>

\* ResetLabels sets the labels of the subscribers, and then notifies.
SetLabels ==
  /\ labels < MaxLabels
  /\ Goto(User, "idle", "notify")
  /\ labels' = labels + 1
  /\ UNCHANGED <<sess, signal, qOpen, mine, wg, loops, clean, panic>>

\* NotifyReconnect: a full channel keeps the signal it has.
NotifyLabels ==
  /\ Goto(User, "notify", "idle")
  /\ signal' = TRUE
  /\ UNCHANGED <<sess, labels, qOpen, mine, wg, loops, clean, panic>>

\* Close calls StopWatch, which does nothing before the first StartWatch, and
\* then closes the upstream.
UserClose ==
  /\ MayClose
  /\ Goto(User, "idle", IF vas = None THEN "closed" ELSE "cancel")
  /\ clean' = \A s \in Sessions : pc[s] \in {"none", "selecting", "done"}
  /\ UNCHANGED <<sess, labels, signal, qOpen, mine, wg, loops, panic>>

-----------------------------------------------------------------------------
(* waitForReconnectSignal: both cases of its select may be ready *)

SelectDone(s) ==
  /\ s \notin live \/ vas \notin live
  /\ Goto(s, "selecting", "done")
  /\ UNCHANGED <<sess, labels, signal, qOpen, mine, wg, loops, clean, panic>>

SelectSignal(s) ==
  /\ signal /\ signal' = FALSE
  /\ Goto(s, "selecting", "cancel")
  /\ clean' = FALSE
  /\ UNCHANGED <<sess, labels, qOpen, mine, wg, loops, panic>>

-----------------------------------------------------------------------------
(* StopWatch *)

StopCancel(t) ==
  /\ Goto(t, "cancel", "closeQueues")
  /\ live' = live \ {vas}
  /\ UNCHANGED <<vas, made, sent, labels, signal, qOpen, mine, wg, loops, clean, panic>>

StopQueues(t) ==
  /\ Goto(t, "closeQueues", "wait")
  /\ qOpen' = FALSE
  /\ wg' = [wg EXCEPT ![t] = vas]
  /\ UNCHANGED <<sess, labels, signal, mine, loops, clean, panic>>

\* Wait returns when it finds the counter zero, at once or after it has blocked.
StopBlock(t) ==
  /\ Goto(t, "wait", "blocked")
  /\ Counter(wg[t]) # 0
  /\ UNCHANGED <<sess, labels, signal, qOpen, mine, wg, loops, clean, panic>>

StopWait(t) ==
  /\ \E step \in {"wait", "blocked"} : Goto(t, step, IF t = User THEN "closed" ELSE "dial")
  /\ Counter(wg[t]) = 0
  /\ wg' = [wg EXCEPT ![t] = None]
  /\ UNCHANGED <<sess, labels, signal, qOpen, mine, loops, clean, panic>>

-----------------------------------------------------------------------------
(* tryReconnect and StartWatch *)

\* ReconnectUpstreamServer returned nil; it is retried until it does.
Dial(t) ==
  /\ Goto(t, "dial", "start")
  /\ UNCHANGED <<sess, labels, signal, qOpen, mine, wg, loops, clean, panic>>

\* A new session; the subscribers are reset.
StartSession(t) ==
  /\ Goto(t, "start", "payload")
  /\ made < MaxSessions
  /\ made' = made + 1 /\ vas' = made' /\ live' = live \cup {made'}
  /\ mine' = [mine EXCEPT ![t] = made']
  /\ qOpen' = TRUE
  /\ UNCHANGED <<sent, labels, signal, wg, loops, clean, panic>>

StartPayload(t) ==
  /\ Goto(t, "payload", "watch")
  /\ sent' = [sent EXCEPT ![mine[t]] = labels]
  /\ UNCHANGED <<vas, made, live, labels, signal, qOpen, mine, wg, loops, clean, panic>>

\* The stream is opened ...
StartWatched(t) ==
  /\ mine[t] \in live
  /\ Goto(t, "watch", "spawnWaiter")
  /\ UNCHANGED <<sess, labels, signal, qOpen, mine, wg, loops, clean, panic>>

\* ... or not: StartWatch returns the error, and only tryReconnect calls again.
StartRefused(t) ==
  /\ Goto(t, "watch", IF t = User THEN "idle" ELSE "start")
  /\ live' = live \ {vas}
  /\ mine' = [mine EXCEPT ![t] = None]
  /\ UNCHANGED <<vas, made, sent, labels, signal, qOpen, wg, loops, clean, panic>>

SpawnWaiter(t) ==
  /\ ~panic /\ pc[t] = "spawnWaiter"
  /\ pc' = [pc EXCEPT ![t] = "spawnRecv", ![mine[t]] = "selecting"]
  /\ UNCHANGED <<sess, labels, signal, qOpen, mine, wg, loops, clean, panic>>

SpawnRecv(t) ==
  /\ Goto(t, "spawnRecv", "spawnBeat")
  /\ recv' = [recv EXCEPT ![mine[t]] = "spawned"]
  /\ recvIn' = [recvIn EXCEPT ![mine[t]] = vas]
  /\ Add(vas)
  /\ UNCHANGED <<sess, labels, signal, qOpen, mine, wg, recvOut, beatLoops, clean>>

SpawnBeat(t) ==
  /\ Goto(t, "spawnBeat", IF t = User THEN "idle" ELSE "done")
  /\ beat' = [beat EXCEPT ![mine[t]] = "spawned"]
  /\ beatIn' = [beatIn EXCEPT ![mine[t]] = vas]
  /\ Add(vas)
  /\ mine' = [mine EXCEPT ![t] = None]
  /\ UNCHANGED <<sess, labels, signal, qOpen, wg, recvLoops, beatOut, clean>>

-----------------------------------------------------------------------------
(* The receive and heartbeat loops *)

\* The goroutine gets to run: defer evaluates w.vas.
RecvRun(s) ==
  /\ Recv(s, "spawned", "running")
  /\ recvOut' = [recvOut EXCEPT ![s] = vas]
  /\ UNCHANGED <<sess, labels, signal, qOpen, threads, recvIn, beatLoops, clean, panic>>

\* End of stream, a broken stream (also one broken by the cancelled context,
\* when the select picks the result), or a bounce message.
RecvFail(s) ==
  /\ Recv(s, "running", "failed")
  /\ UNCHANGED <<sess, labels, signal, qOpen, threads, recvIn, recvOut, beatLoops, clean, panic>>

\* After the sleep, NotifyReconnect.
RecvNotify(s) ==
  /\ Recv(s, "failed", "ended")
  /\ signal' = TRUE
  /\ Done(recvOut[s])
  /\ UNCHANGED <<sess, labels, qOpen, threads, recvIn, recvOut, beatLoops, clean>>

\* The loops read w.vas anew each time round: the context they see done is that
\* of the session they began in, or of the current one.
RecvDone(s) ==
  /\ recvOut[s] \notin live \/ vas \notin live
  /\ Recv(s, "running", "ended")
  /\ Done(recvOut[s])
  /\ UNCHANGED <<sess, labels, signal, qOpen, threads, recvIn, recvOut, beatLoops, clean>>

BeatRun(s) ==
  /\ Beat(s, "spawned", "running")
  /\ beatOut' = [beatOut EXCEPT ![s] = vas]
  /\ UNCHANGED <<sess, labels, signal, qOpen, threads, recvLoops, beatIn, clean, panic>>

\* maxHeartbeatRetryCount heartbeats failed in a row.
BeatFail(s) ==
  /\ Beat(s, "running", "failed")
  /\ UNCHANGED <<sess, labels, signal, qOpen, threads, recvLoops, beatIn, beatOut, clean, panic>>

BeatNotify(s) ==
  /\ Beat(s, "failed", "ended")
  /\ signal' = TRUE
  /\ Done(beatOut[s])
  /\ UNCHANGED <<sess, labels, qOpen, threads, recvLoops, beatIn, beatOut, clean>>

\* The payload cannot be encoded: the loop ends and tells nobody.
BeatMute(s) ==
  /\ Beat(s, "running", "mute")
  /\ Done(beatOut[s])
  /\ UNCHANGED <<sess, labels, signal, qOpen, threads, recvLoops, beatIn, beatOut, clean>>

BeatDone(s) ==
  /\ beatOut[s] \notin live \/ vas \notin live
  /\ Beat(s, "running", "ended")
  /\ Done(beatOut[s])
  /\ UNCHANGED <<sess, labels, signal, qOpen, threads, recvLoops, beatIn, beatOut, clean>>

-----------------------------------------------------------------------------
Stop(t)  == StopCancel(t) \/ StopQueues(t) \/ StopBlock(t) \/ StopWait(t)
Start(t) ==
  \/ StartSession(t) \/ StartPayload(t) \/ StartWatched(t)
  \/ SpawnWaiter(t) \/ SpawnRecv(t) \/ SpawnBeat(t)
RecvEnd(s) == RecvNotify(s) \/ RecvDone(s)
BeatEnd(s) == BeatNotify(s) \/ BeatDone(s)
Loop(s) ==
  \/ RecvRun(s) \/ RecvFail(s) \/ RecvEnd(s)
  \/ BeatRun(s) \/ BeatFail(s) \/ BeatMute(s) \/ BeatEnd(s)

Next ==
  \/ UserStart \/ SetLabels \/ NotifyLabels \/ UserClose
  \/ \E t \in Threads : Stop(t) \/ Dial(t) \/ Start(t) \/ StartRefused(t)
  \/ \E s \in Sessions : SelectDone(s) \/ SelectSignal(s) \/ Loop(s)

Spec == Init /\ [][Next]_vars

\* Somebody goes on while anybody can: no goroutine makes infinitely many of these
\* steps within the bounds, so each gets its turn.  The loops notice a cancelled
\* context, and the stream of a cancelled context breaks; the server answers.
Progress ==
  \/ NotifyLabels
  \/ \E t \in Threads : Stop(t) \/ Dial(t) \/ Start(t) \/ StartRefused(t)
  \/ \E s \in Sessions :
       \/ SelectDone(s) \/ SelectSignal(s)
       \/ RecvRun(s) \/ RecvEnd(s) \/ BeatRun(s) \/ BeatEnd(s)
       \/ s \notin live /\ RecvFail(s)

FairSpec == Spec /\ WF_vars(Progress)

-----------------------------------------------------------------------------
(* Properties *)

\* A thread is on its way to a session it has not started yet, or has started
\* and not opened; the user's own Close counts as well.
Restarting(t) == pc[t] \in StopSteps \cup {"dial", "start", "payload", "watch"}
Closing == pc[User] \in StopSteps \cup {"closed"}

\* No zombie: when a loop of the current session has ended because it failed,
\* a signal is pending or somebody is replacing the session.  One exception: a
\* heartbeat loop that cannot encode its payload is gone for the rest of the
\* session ("mute"; heartbeat.go:94-97).
NoZombie ==
  vas \in live /\ "ended" \in {recv[vas], beat[vas]} =>
    signal \/ \E t \in Threads : Restarting(t)

\* Label changes are not lost although signals are dropped when one is pending:
\* the current session was opened with the labels, or a signal is pending, or
\* somebody is before the payload of the next session.
LabelsReachServer ==
  vas \in live /\ sent[vas] # labels =>
    \/ signal \/ pc[User] = "notify"
    \/ \E t \in Threads : pc[t] \in StopSteps \cup {"dial", "start", "payload"}

\* To the one who sets labels, all of this is a session that is opened when it
\* is asked for, with the labels of that moment: a signal that was taken is still
\* a request until a reconnection is past the payload, and one that comes later,
\* or finds the channel full, is not forgotten.
Asked == signal \/ \E t \in Threads :
  pc[t] \in {"start", "payload"} \/ (t # User /\ pc[t] \in StopSteps \cup {"dial"})
LastSent == IF \E t \in Threads : pc[t] = "payload" THEN made - 1 ELSE made
Interface == INSTANCE Session WITH
  NotYet <- -1,
  notifying <- pc[User] = "notify",
  asked <- Asked,
  served <- IF LastSent = 0 THEN -1 ELSE sent[LastSent]
ImplementsSession == Interface!Spec

\* A session is replaced only when it is cancelled: no stream of an old session
\* lives on beside the current one.
OneLiveSession == live \subseteq {vas}

\* While a session is up and the user has not closed the client, the queues its
\* events go to are open.
LiveSessionDelivers ==
  vas \in live /\ recv[vas] = "running" /\ ~Closing =>
    qOpen \/ \E s \in Sessions : pc[s] \in StopSteps

\* The StopWatch of a reconnection returns: neither loop waits for the goroutine
\* that waits for it.  (The user's StopWatch may not, when a reconnection has
\* started the next session meanwhile.)
StopReturns == \A s \in Sessions : pc[s] = "wait" ~> pc[s] = "dial" \/ panic

\* Nobody can make another session within the bound.
Exhausted == made = MaxSessions /\ \E t \in Threads : pc[t] = "start"

\* A session that failed is followed by another one, unless the user closes the
\* client (or the bound on sessions is reached).
Recovers ==
  (vas \in live /\ recv[vas] = "ended")
    ~> (Closing \/ Exhausted \/ panic \/ (vas \in live /\ recv[vas] = "running"))

\* The loops that leave a wait group other than the one they were added to.
Stray == \E s \in Sessions :
  \/ recv[s] \notin {"none", "spawned"} /\ recvOut[s] # recvIn[s]
  \/ beat[s] \notin {"none", "spawned"} /\ beatOut[s] # beatIn[s]

\* "First stop the watcher to prevent new events", "releases all resources"
\* (client.go:224-226): when Close has returned there is no session, and no loop
\* that its wait group counts.  Three exceptions.  A reconnection that was under
\* way when Close began, or whose goroutine picked a signal rather than the context
\* that is done (reconnect.go:36), starts a session after Close all the same.
\* A loop that StartWatch spawned after a fast reconnection had stopped its
\* session is in no wait group that is waited for, and outlives the session.  And
\* one that ran only after that reconnection had started the next session leaves
\* the group of that session.
CloseEndsAll ==
  pc[User] = "closed" /\ clean /\ ~Stray =>
    /\ live = {}
    /\ \A s \in Sessions :
         /\ recvIn[s] = vas => recv[s] \in {"none"} \cup Gone
         /\ beatIn[s] = vas => beat[s] \in {"none"} \cup Gone
=============================================================================
