------------------------------ MODULE Upstream -------------------------------
(***************************************************************************)
(* The upstream client of internal/upstream: the connection that dial      *)
(* replaces behind the request gate (Blocker), the round-robin balancer,   *)
(* the goroutine that watches the connection's state, and Close.           *)
(*                                                                         *)
(* Nothing but the gate orders a reconnection and Close, which runs in the *)
(* user's goroutine: every test and use of uc.conn and uc.cancelCtx is a   *)
(* step of its own.  Connections are numbered as they are dialled; NoConn  *)
(* is nil.  A panic ends the process.                                      *)
(***************************************************************************)
EXTENDS Blocker, FiniteSets

CONSTANTS
  Endpoints,   \* how many feed server addresses the client has
  Reachable    \* the addresses, counted from 0, that answer a dial in time

ASSUME UpstreamAssumption ==
  /\ Endpoints \in Nat \ {0}
  /\ Reachable \subseteq 0..(Endpoints - 1)

VARIABLES
  conn,       \* uc.conn
  client,     \* the connection uc.client calls
  opened,     \* the connections that are open
  dialed,     \* how many connections were established
  cancelSet,  \* uc.cancelCtx is not nil
  index,      \* the balancer's index
  dpc,        \* where each reconnector is in dial
  cpc,        \* where the goroutine that calls Close is
  spc,        \* where waitForStateChange is
  swc,        \* uc.stateWatchCancel is not nil
  swDone,     \* waitForStateChange's context is cancelled
  panic,      \* a nil pointer was used
  failed      \* history: dials failed since the last success

netVars   == <<conn, client, opened, dialed, cancelSet, index, failed>>
closeVars == <<cpc, spc, swc, swDone>>
upVars    == <<netVars, closeVars, dpc, panic>>
allVars   == <<vars, upVars>>

NoConn == 0

UpTypeOK ==
  /\ TypeOK
  /\ dialed \in 1..(MaxRounds + 1)
  /\ {conn, client} \subseteq 0..dialed /\ opened \subseteq 1..dialed
  /\ cancelSet \in BOOLEAN /\ panic \in BOOLEAN
  /\ index \in 0..(Endpoints - 1)
  /\ dpc \in [Reconnectors -> {"check", "close", "dial", "done"}]
  /\ cpc \in {"open", "cancelCheck", "cancelCall", "conn", "forget", "closed", "error"}
  /\ spc \in {"spawned", "running", "stopped"}
  /\ swc \in BOOLEAN /\ swDone \in BOOLEAN
  /\ failed \in 0..MaxRounds

\* New has dialled with success and has spawned the state watcher.
UpInit ==
  /\ Init
  /\ conn = 1 /\ client = 1 /\ opened = {1} /\ dialed = 1 /\ cancelSet = TRUE
  /\ index \in 0..(Endpoints - 1)
  /\ dpc = [b \in Reconnectors |-> "check"]
  /\ cpc = "open" /\ spc = "spawned" /\ swc = FALSE /\ swDone = FALSE
  /\ panic = FALSE /\ failed = 0

-----------------------------------------------------------------------------
(* Plausible mistakes in the operators below *)

NextIndexSticky(i) == IF i = Endpoints - 1 THEN i ELSE i + 1   \* never wraps

DialCheckNever(b) ==         \* dial forgets the previous connection
  /\ ~panic /\ rpc[b] = "held" /\ dpc[b] = "check"
  /\ dpc' = [dpc EXCEPT ![b] = "dial"]
  /\ UNCHANGED <<vars, netVars, closeVars, panic>>

DialConnectOnlyConn(b) ==    \* dial keeps the stub of the old connection
  /\ rpc[b] = "held" /\ dpc[b] = "dial" /\ index \in Reachable
  /\ dialed' = dialed + 1
  /\ conn' = dialed' /\ opened' = opened \cup {dialed'}
  /\ cancelSet' = TRUE /\ failed' = 0
  /\ index' = (index + 1) % Endpoints
  /\ dpc' = [dpc EXCEPT ![b] = "done"]
  /\ UNCHANGED <<vars, client, closeVars, panic>>

-----------------------------------------------------------------------------
(* ReconnectUpstreamServer: TryBlock, dial, Unblock *)

\* PickOne returns endpoints[index] and moves the index on.
NextIndex(i) == IF i = Endpoints - 1 THEN 0 ELSE i + 1

Enter(b) ==
  /\ ~panic
  /\ TryBlockStore(b) \/ TryBlockMake(b) \/ TryBlockRefused(b)
  /\ UNCHANGED upVars

\* dial looks whether there is a previous connection ...
DialCheck(b) ==
  /\ ~panic /\ rpc[b] = "held" /\ dpc[b] = "check"
  /\ dpc' = [dpc EXCEPT ![b] = IF conn = NoConn THEN "dial" ELSE "close"]
  /\ UNCHANGED <<vars, netVars, closeVars, panic>>

\* ... and closes it: a nil one if Close has forgotten it in between.
DialClose(b) ==
  /\ ~panic /\ rpc[b] = "held" /\ dpc[b] = "close"
  /\ dpc' = [dpc EXCEPT ![b] = "dial"]
  /\ opened' = opened \ {conn}
  /\ panic' = (conn = NoConn)
  /\ UNCHANGED <<vars, conn, client, dialed, cancelSet, index, failed, closeVars>>

DialConnect(b) ==
  /\ ~panic /\ rpc[b] = "held" /\ dpc[b] = "dial" /\ index \in Reachable
  /\ dialed' = dialed + 1
  /\ conn' = dialed' /\ client' = dialed' /\ opened' = opened \cup {dialed'}
  /\ cancelSet' = TRUE /\ failed' = 0
  /\ index' = NextIndex(index)
  /\ dpc' = [dpc EXCEPT ![b] = "done"]
  /\ UNCHANGED <<vars, closeVars, panic>>

\* The dial times out: conn and client stay the connection just closed.
DialTimeout(b) ==
  /\ ~panic /\ rpc[b] = "held" /\ dpc[b] = "dial" /\ index \notin Reachable
  /\ cancelSet' = FALSE /\ failed' = failed + 1
  /\ index' = NextIndex(index)
  /\ dpc' = [dpc EXCEPT ![b] = "done"]
  /\ UNCHANGED <<vars, conn, client, opened, dialed, closeVars, panic>>

\* The deferred Unblock runs whether dial succeeded or not.
Leave(b) ==
  \/ /\ ~panic /\ dpc[b] = "done" /\ UnblockStore(b)
     /\ dpc' = [dpc EXCEPT ![b] = "check"]
     /\ UNCHANGED <<netVars, closeVars, panic>>
  \/ ~panic /\ UnblockClose(b) /\ UNCHANGED upVars

-----------------------------------------------------------------------------
(* Close *)

\* Stop the state watcher, if it has published its cancel function yet.
CloseStateWatch ==
  /\ ~panic /\ cpc = "open" /\ cpc' = "cancelCheck"
  /\ swDone' = (swDone \/ swc) /\ swc' = FALSE
  /\ UNCHANGED <<vars, netVars, spc, dpc, panic>>

CloseCancelCheck ==
  /\ ~panic /\ cpc = "cancelCheck"
  /\ cpc' = IF cancelSet THEN "cancelCall" ELSE "conn"
  /\ UNCHANGED <<vars, netVars, spc, swc, swDone, dpc, panic>>

\* uc.cancelCtx(): a nil function if a dial has failed since the test.
CloseCancelCall ==
  /\ ~panic /\ cpc = "cancelCall" /\ cpc' = "conn"
  /\ cancelSet' = FALSE /\ panic' = ~cancelSet
  /\ UNCHANGED <<vars, conn, client, opened, dialed, index, failed, spc, swc, swDone, dpc>>

\* Closing a connection that is closed already is an error, and Close returns.
CloseConn ==
  /\ ~panic /\ cpc = "conn"
  /\ cpc' = IF conn = NoConn THEN "closed" ELSE IF conn \in opened THEN "forget" ELSE "error"
  /\ opened' = opened \ {conn}
  /\ UNCHANGED <<vars, conn, client, dialed, cancelSet, index, failed,
                 spc, swc, swDone, dpc, panic>>

CloseForget ==
  /\ ~panic /\ cpc = "forget" /\ cpc' = "closed"
  /\ conn' = NoConn
  /\ UNCHANGED <<vars, client, opened, dialed, cancelSet, index, failed,
                 spc, swc, swDone, dpc, panic>>

Close == CloseStateWatch \/ CloseCancelCheck \/ CloseCancelCall \/ CloseConn \/ CloseForget

-----------------------------------------------------------------------------
(* waitForStateChange; what it does between its start and its end only logs *)

StateWatchStart ==
  /\ ~panic /\ spc = "spawned" /\ spc' = "running" /\ swc' = TRUE
  /\ UNCHANGED <<vars, netVars, cpc, swDone, dpc, panic>>

StateWatchStop ==
  /\ ~panic /\ spc = "running" /\ swDone
  /\ spc' = "stopped" /\ swc' = FALSE
  /\ UNCHANGED <<vars, netVars, cpc, swDone, dpc, panic>>

-----------------------------------------------------------------------------
\* The requests of api.go.
Call(w) ==
  /\ ~panic
  /\ Wait(w) \/ WaitCancelled(w) \/ Request(w)
  /\ UNCHANGED upVars

Dial(b) == DialCheck(b) \/ DialClose(b) \/ DialConnect(b) \/ DialTimeout(b)

UpNext ==
  \/ \E b \in Reconnectors : Enter(b) \/ Dial(b) \/ Leave(b)
  \/ \E w \in Waiters : Call(w)
  \/ Close
  \/ StateWatchStart \/ StateWatchStop

UpSpec == UpInit /\ [][UpNext]_allVars

\* A call that was begun goes on: dial has a timeout.  Goroutines start.
UpFairness ==
  /\ \A b \in Reconnectors :
       /\ WF_allVars(~panic /\ TryBlockMake(b) /\ UNCHANGED upVars)
       /\ WF_allVars(Dial(b) \/ Leave(b))
  /\ \A w \in Waiters :
       WF_allVars(~panic /\ (WaitSelect(w) \/ WaitWoken(w)) /\ UNCHANGED upVars)

UpFairSpec == UpSpec /\ UpFairness

-----------------------------------------------------------------------------
(* Properties *)

\* dial is the only place that replaces the connection and it closes the one it
\* replaces: until Close interferes the client holds no connection but uc.conn.
OneConnection == cpc = "open" => opened \subseteq {conn}

\* A request that the gate let through finds a live connection, unless the last
\* dial failed, the next reconnection has begun or Close was called: the stub
\* never lags behind the connection.
OpenGateHasLiveClient ==
  (~state /\ failed = 0 /\ cpc = "open") => (client = conn /\ client \in opened)

\* The balancer tries every address before it repeats one: as long as one
\* answers, fewer dials than there are addresses fail in a row.
SomeDialSucceeds == Reachable # {} => failed < Endpoints

\* A request asleep on a channel goes on, however many dials fail and whatever
\* Close does, unless the process ends in a panic.
UpSleeperIsReleased ==
  \A w \in Waiters :
    (wpc[w] = "asleep" /\ wch[w] # Nil) ~> (wpc[w] \in {"passed", "idle"} \/ panic)
=============================================================================
