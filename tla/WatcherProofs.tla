---------------------------- MODULE WatcherProofs ----------------------------
(***************************************************************************)
(* Proofs about Watcher, for any number of sessions and of label changes:  *)
(* sessions follow each other one at a time, failures and label changes    *)
(* are not forgotten, and Close ends everything but a reconnection.        *)
(*                                                                         *)
(* The argument is a token.  StartWatch has it until it spawns the         *)
(* goroutine that waits for a signal, which has it then, through the       *)
(* select, StopWatch and tryReconnect, up to the StartWatch of the next    *)
(* session.  No lock passes it on; it is the shape of the code that does.  *)
(* The user's StopWatch does not need it.                                  *)
(***************************************************************************)
EXTENDS Watcher, FiniteSetTheorems, TLAPS

\* Thread t has the token.
Token(t) ==
  \/ pc[t] \in {"selecting", "dial", "start", "payload", "watch", "spawnWaiter"}
  \/ t # User /\ pc[t] \in StopSteps

\* Between the start of a session and the spawning of its loops.
Opening(t) == pc[t] \in {"payload", "watch", "spawnWaiter"}

TokenInv ==
  /\ \A t, u \in Threads : Token(t) /\ Token(u) => t = u
  /\ pc[User] \notin {"selecting", "dial"}

\* The session a thread works on: the current one until its waiter is spawned,
\* and later one that may have been replaced.
MineInv ==
  /\ vas = made
  /\ \A t \in Threads :
       /\ Opening(t) => mine[t] = vas /\ vas # None
       /\ pc[t] \in {"spawnRecv", "spawnBeat"} => mine[t] # None
       /\ pc[t] \in {"spawnRecv", "spawnBeat"} /\ mine[t] = vas =>
            \A u \in Threads : ~Opening(u)

\* A session is made when the one before it is cancelled.
LiveInv ==
  /\ live \subseteq {vas}
  /\ \A t \in Threads :
       Token(t) /\ pc[t] \in {"closeQueues", "wait", "blocked", "dial", "start"} => live = {}
  /\ (\A s \in Sessions : pc[s] = "none") /\ ~Opening(User) => live = {}

\* The loops of a session are spawned after it was opened, and those of the
\* current session leave its wait group.
LoopInv ==
  /\ \A s \in Sessions : s > made => recv[s] = "none" /\ beat[s] = "none"
  /\ \A t \in Threads : Opening(t) => recv[vas] = "none" /\ beat[vas] = "none"
  /\ vas \in Sessions => /\ recv[vas] \in {"running", "failed"} => recvOut[vas] = vas
                         /\ beat[vas] \in {"running", "failed"} => beatOut[vas] = vas

Inv == TypeOK /\ TokenInv /\ MineInv /\ LiveInv /\ LoopInv

\* Where a thread may be.
PcValues == {"none", "idle", "notify", "selecting", "dial", "done", "closed"}
              \cup StopSteps \cup StartSteps

\* What the steps need to know of the sessions and threads.
LEMMA Constants ==
  /\ MaxSessions \in Nat /\ 1 \in Sessions /\ User \notin Sessions /\ None \notin Sessions
  /\ Sessions \subseteq Threads /\ User \in Threads /\ User = 0 /\ None = 0
  /\ \A n \in Nat : n \in Sessions <=> n # 0 /\ n <= MaxSessions
  /\ \A s \in Sessions : s \in Nat
  /\ \A t \in Threads : t \in Nat /\ (t = User \/ t \in Sessions)
BY WatcherAssumption DEF WatcherAssumption, Sessions, Threads, User, None

LEMMA InitInv == Init => Inv
<1>. SUFFICES ASSUME Init PROVE Inv
  OBVIOUS
<1>. USE Constants, WatcherAssumption DEF Init, WatcherAssumption
<1>1. TypeOK
  <2>1. vas \in 0..made /\ made \in 0..MaxSessions /\ live \subseteq 1..made
    OBVIOUS
  <2>2. labels \in 0..MaxLabels /\ sent \in [Sessions -> 0..labels]
    OBVIOUS
  <2>3. pc \in [Threads -> PcValues]
    BY DEF PcValues
  <2>4. /\ mine \in [Threads -> 0..made] /\ wg \in [Threads -> 0..made]
        /\ recvIn \in [Sessions -> 0..made] /\ recvOut \in [Sessions -> 0..made]
        /\ beatIn \in [Sessions -> 0..made] /\ beatOut \in [Sessions -> 0..made]
        /\ recv \in [Sessions -> LoopStates] /\ beat \in [Sessions -> LoopStates]
    BY DEF LoopStates
  <2>. QED  BY <2>1, <2>2, <2>3, <2>4 DEF TypeOK, PcValues
<1>2. TokenInv /\ MineInv /\ LiveInv /\ LoopInv
  BY DEF TokenInv, MineInv, LiveInv, LoopInv, Token, Opening, StopSteps
<1>. QED  BY <1>1, <1>2 DEF Inv

\* Every action keeps the invariant.
LEMMA StepInv == Inv /\ Next => Inv'
<1>. SUFFICES ASSUME Inv, Next PROVE Inv'
  OBVIOUS
<1>. USE Constants DEF Inv, Goto, Recv, Beat, sess, loops, recvLoops, beatLoops, threads
<1>1. ASSUME UserStart PROVE Inv'
  <2>. USE <1>1 DEF UserStart
  <2>1. TypeOK'
    BY DEF TypeOK, StartSteps
  <2>2. TokenInv'
    BY DEF TokenInv, Token, StopSteps
  <2>3. MineInv'
    BY DEF MineInv, Opening
  <2>4. LiveInv'
    BY DEF LiveInv, Opening
  <2>5. LoopInv'
    BY DEF LoopInv, Opening
  <2>. QED  BY <2>1, <2>2, <2>3, <2>4, <2>5
<1>2. ASSUME SetLabels PROVE Inv'
  <2>. USE <1>2 DEF SetLabels
  <2>1. TypeOK'
    <3>. HIDE Constants DEF Inv
    <3>1. labels' \in 0..MaxLabels /\ 0..labels \subseteq 0..labels'
      BY Constants, WatcherAssumption DEF Inv, TypeOK, WatcherAssumption
    <3>. DEFINE L == 0..labels  M == 0..labels'
    <3>2. sent' \in [Sessions -> 0..labels']
      <4>1. sent \in [Sessions -> L] /\ sent' = sent /\ L \subseteq M
        BY <3>1 DEF Inv, TypeOK
      <4>. HIDE DEF L, M
      <4>2. sent' \in [Sessions -> M]
        BY <4>1
      <4>. QED  BY <4>2 DEF M
    <3>. QED  BY <3>1, <3>2 DEF Inv, TypeOK, StopSteps, StartSteps
  <2>2. TokenInv'
    BY DEF TokenInv, Token
  <2>3. MineInv'
    BY DEF MineInv, Opening
  <2>4. LiveInv'
    BY DEF LiveInv, Token, Opening
  <2>5. LoopInv'
    BY DEF LoopInv, Opening
  <2>. QED  BY <2>1, <2>2, <2>3, <2>4, <2>5
<1>3. ASSUME NotifyLabels PROVE Inv'
  <2>. USE <1>3 DEF NotifyLabels
  <2>1. TypeOK'
    BY DEF TypeOK
  <2>2. TokenInv'
    BY DEF TokenInv, Token
  <2>3. MineInv'
    BY DEF MineInv, Opening
  <2>4. LiveInv'
    BY DEF LiveInv, Token, Opening
  <2>5. LoopInv'
    BY DEF LoopInv, Opening
  <2>. QED  BY <2>1, <2>2, <2>3, <2>4, <2>5
<1>4. ASSUME UserClose PROVE Inv'
  <2>. USE <1>4 DEF UserClose
  <2>1. TypeOK'
    BY DEF TypeOK, StopSteps
  <2>2. TokenInv'
    BY DEF TokenInv, Token
  <2>3. MineInv'
    BY DEF MineInv, Opening
  <2>4. LiveInv'
    BY DEF LiveInv, Token, Opening
  <2>5. LoopInv'
    BY DEF LoopInv, Opening
  <2>. QED  BY <2>1, <2>2, <2>3, <2>4, <2>5
<1>5. ASSUME NEW t \in Threads, StopCancel(t) PROVE Inv'
  <2>. USE <1>5 DEF StopCancel
  <2>1. TypeOK'
    BY DEF TypeOK, StopSteps
  <2>2. TokenInv'
    BY DEF TokenInv, Token, StopSteps
  <2>3. MineInv'
    BY DEF MineInv, Opening
  <2>4. LiveInv'
    BY DEF LiveInv
  <2>5. LoopInv'
    BY DEF LoopInv, Opening
  <2>. QED  BY <2>1, <2>2, <2>3, <2>4, <2>5
<1>6. ASSUME NEW t \in Threads, StopQueues(t) PROVE Inv'
  <2>. USE <1>6 DEF StopQueues
  <2>1. TypeOK'
    BY DEF TypeOK, StopSteps
  <2>2. TokenInv'
    BY DEF TokenInv, Token, StopSteps
  <2>3. MineInv'
    BY DEF MineInv, Opening
  <2>4. LiveInv'
    BY DEF LiveInv, Token, Opening, StopSteps
  <2>5. LoopInv'
    BY DEF LoopInv, Opening
  <2>. QED  BY <2>1, <2>2, <2>3, <2>4, <2>5
<1>7. ASSUME NEW t \in Threads, StopWait(t) PROVE Inv'
  <2>. USE <1>7 DEF StopWait
  <2>1. TypeOK'
    BY DEF TypeOK
  <2>2. TokenInv'
    BY DEF TokenInv, Token, StopSteps
  <2>3. MineInv'
    BY DEF MineInv, Opening
  <2>4. LiveInv'
    BY DEF LiveInv, Token, Opening, StopSteps
  <2>5. LoopInv'
    BY DEF LoopInv, Opening
  <2>. QED  BY <2>1, <2>2, <2>3, <2>4, <2>5
<1>8. ASSUME NEW t \in Threads, Dial(t) PROVE Inv'
  <2>. USE <1>8 DEF Dial
  <2>1. TypeOK'
    BY DEF TypeOK, StartSteps
  <2>2. TokenInv'
    BY DEF TokenInv, Token
  <2>3. MineInv'
    BY DEF MineInv, Opening
  <2>4. LiveInv'
    BY DEF LiveInv, Token
  <2>5. LoopInv'
    BY DEF LoopInv, Opening
  <2>. QED  BY <2>1, <2>2, <2>3, <2>4, <2>5
<1>9. ASSUME NEW t \in Threads, StartSession(t) PROVE Inv'
  <2>. USE <1>9 DEF StartSession
  <2>1. TypeOK'
    BY DEF TypeOK, StartSteps
  <2>2. TokenInv'
    BY DEF TokenInv, Token
  <2>3. MineInv'
    BY DEF TypeOK, MineInv, TokenInv, Token, Opening
  <2>4. LiveInv'
    BY DEF TypeOK, LiveInv, TokenInv, Token, Opening
  <2>5. LoopInv'
    BY DEF TypeOK, LoopInv
  <2>. QED  BY <2>1, <2>2, <2>3, <2>4, <2>5
<1>10. ASSUME NEW t \in Threads, StartPayload(t) PROVE Inv'
  <2>. USE <1>10 DEF StartPayload
  <2>1. TypeOK'
    <3>. DEFINE L == 0..labels
    <3>1. sent' \in [Sessions -> L]
      <4>1. sent \in [Sessions -> L] /\ labels \in L
        BY DEF TypeOK
      <4>. HIDE DEF L
      <4>. QED  BY <4>1
    <3>2. pc' \in [Threads -> PcValues]
      BY DEF TypeOK, PcValues, StartSteps
    <3>. QED  BY <3>1, <3>2 DEF TypeOK, PcValues
  <2>2. TokenInv'
    BY DEF TokenInv, Token
  <2>3. MineInv'
    BY DEF MineInv, Opening
  <2>4. LiveInv'
    BY DEF LiveInv, Token, Opening
  <2>5. LoopInv'
    BY DEF LoopInv, Opening
  <2>. QED  BY <2>1, <2>2, <2>3, <2>4, <2>5
<1>11. ASSUME NEW t \in Threads, StartWatched(t) PROVE Inv'
  <2>. USE <1>11 DEF StartWatched
  <2>1. TypeOK'
    BY DEF TypeOK, StartSteps
  <2>2. TokenInv'
    BY DEF TokenInv, Token
  <2>3. MineInv'
    BY DEF MineInv, Opening
  <2>4. LiveInv'
    BY DEF LiveInv, Token, Opening
  <2>5. LoopInv'
    BY DEF LoopInv, Opening
  <2>. QED  BY <2>1, <2>2, <2>3, <2>4, <2>5
<1>12. ASSUME NEW t \in Threads, StartRefused(t) PROVE Inv'
  <2>. USE <1>12 DEF StartRefused
  <2>1. TypeOK'
    BY DEF TypeOK, StartSteps
  <2>2. TokenInv'
    BY DEF TokenInv, Token
  <2>3. MineInv'
    BY DEF TypeOK, MineInv, Opening
  <2>4. LiveInv'
    BY DEF LiveInv
  <2>5. LoopInv'
    BY DEF LoopInv, Opening
  <2>. QED  BY <2>1, <2>2, <2>3, <2>4, <2>5
<1>13. ASSUME NEW t \in Threads, SpawnWaiter(t) PROVE Inv'
  <2>. USE <1>13 DEF SpawnWaiter
  <2>1. TypeOK'
    BY DEF TypeOK, StartSteps
  <2>2. TokenInv'
    BY DEF TypeOK, TokenInv, Token, StopSteps, MineInv, Opening
  <2>3. MineInv'
    BY DEF TypeOK, MineInv, TokenInv, Token, Opening
  <2>4. LiveInv'
    BY DEF TypeOK, LiveInv, Token
  <2>5. LoopInv'
    BY DEF LoopInv, Opening
  <2>. QED  BY <2>1, <2>2, <2>3, <2>4, <2>5
<1>14. ASSUME NEW t \in Threads, SpawnRecv(t) PROVE Inv'
  <2>. USE <1>14 DEF SpawnRecv
  <2>1. TypeOK'
    <3>. DEFINE M == 0..made
    <3>1. pc' \in [Threads -> PcValues]
      BY DEF TypeOK, PcValues, StartSteps
    <3>2. recvIn' \in [Sessions -> M]
      <4>1. recvIn \in [Sessions -> M] /\ vas \in M
        BY DEF TypeOK
      <4>. HIDE DEF M
      <4>. QED  BY <4>1
    <3>3. recv' \in [Sessions -> LoopStates] /\ panic' \in BOOLEAN
      BY DEF TypeOK, LoopStates, Add
    <3>. QED  BY <3>1, <3>2, <3>3 DEF TypeOK, PcValues
  <2>2. TokenInv'
    BY DEF TokenInv, Token, StopSteps
  <2>3. MineInv'
    BY DEF MineInv, Opening
  <2>4. LiveInv'
    BY DEF LiveInv, Token, Opening
  <2>5. LoopInv'
    BY DEF TypeOK, LoopInv, MineInv, Opening
  <2>. QED  BY <2>1, <2>2, <2>3, <2>4, <2>5
<1>15. ASSUME NEW t \in Threads, SpawnBeat(t) PROVE Inv'
  <2>. USE <1>15 DEF SpawnBeat
  <2>1. TypeOK'
    <3>1. pc' \in [Threads -> PcValues]
      BY DEF TypeOK, PcValues
    <3>. DEFINE M == 0..made
    <3>2. mine' \in [Threads -> M] /\ beatIn' \in [Sessions -> M]
      <4>1. mine \in [Threads -> M] /\ beatIn \in [Sessions -> M] /\ None \in M /\ vas \in M
        BY DEF TypeOK
      <4>. HIDE DEF M
      <4>. QED  BY <4>1
    <3>3. beat' \in [Sessions -> LoopStates] /\ panic' \in BOOLEAN
      BY DEF TypeOK, LoopStates, Add
    <3>. QED  BY <3>1, <3>2, <3>3 DEF TypeOK, PcValues
  <2>2. TokenInv'
    BY DEF TokenInv, Token, StopSteps
  <2>3. MineInv'
    BY DEF TypeOK, MineInv, Opening
  <2>4. LiveInv'
    BY DEF LiveInv, Token, Opening
  <2>5. LoopInv'
    BY DEF TypeOK, LoopInv, MineInv, Opening
  <2>. QED  BY <2>1, <2>2, <2>3, <2>4, <2>5
<1>16. ASSUME NEW s \in Sessions, SelectDone(s) PROVE Inv'
  <2>. USE <1>16 DEF SelectDone
  <2>1. TypeOK'
    BY DEF TypeOK
  <2>2. TokenInv'
    BY DEF TokenInv, Token
  <2>3. MineInv'
    BY DEF MineInv, Opening
  <2>4. LiveInv'
    BY DEF LiveInv, Token
  <2>5. LoopInv'
    BY DEF LoopInv, Opening
  <2>. QED  BY <2>1, <2>2, <2>3, <2>4, <2>5
<1>17. ASSUME NEW s \in Sessions, SelectSignal(s) PROVE Inv'
  <2>. USE <1>17 DEF SelectSignal
  <2>1. TypeOK'
    BY DEF TypeOK, StopSteps
  <2>2. TokenInv'
    BY DEF TokenInv, Token
  <2>3. MineInv'
    BY DEF MineInv, Opening
  <2>4. LiveInv'
    BY DEF LiveInv, Token
  <2>5. LoopInv'
    BY DEF LoopInv, Opening
  <2>. QED  BY <2>1, <2>2, <2>3, <2>4, <2>5
<1>18. ASSUME NEW s \in Sessions, Loop(s) PROVE Inv'
  <2>. USE <1>18 DEF Loop, RecvRun, RecvFail, RecvEnd, RecvNotify, RecvDone, BeatRun, BeatFail, BeatMute, BeatEnd, BeatNotify, BeatDone
  <2>1. TypeOK'
    <3>. DEFINE M == 0..made
    <3>1. recvOut' \in [Sessions -> M] /\ beatOut' \in [Sessions -> M]
      <4>1. recvOut \in [Sessions -> M] /\ beatOut \in [Sessions -> M] /\ vas \in M
        BY DEF TypeOK
      <4>. HIDE DEF M
      <4>. QED  BY <4>1
    <3>2. recv' \in [Sessions -> LoopStates] /\ beat' \in [Sessions -> LoopStates]
      BY DEF TypeOK, LoopStates
    <3>3. panic' \in BOOLEAN /\ signal' \in BOOLEAN
      BY DEF TypeOK, Done
    <3>. QED  BY <3>1, <3>2, <3>3 DEF TypeOK
  <2>2. TokenInv' /\ MineInv' /\ LiveInv'
    BY DEF TokenInv, MineInv, LiveInv, Token, Opening
  <2>3. LoopInv'
    BY DEF TypeOK, LoopInv, MineInv, Opening
  <2>. QED  BY <2>1, <2>2, <2>3
<1>19. ASSUME NEW t \in Threads, StopBlock(t) PROVE Inv'
  <2>. USE <1>19 DEF StopBlock
  <2>1. TypeOK'
    BY DEF TypeOK, StopSteps
  <2>2. TokenInv'
    BY DEF TokenInv, Token, StopSteps
  <2>3. MineInv'
    BY DEF MineInv, Opening
  <2>4. LiveInv'
    BY DEF LiveInv, Token, Opening, StopSteps
  <2>5. LoopInv'
    BY DEF LoopInv, Opening
  <2>. QED  BY <2>1, <2>2, <2>3, <2>4, <2>5
<1>. QED
  BY <1>1, <1>2, <1>3, <1>4, <1>5, <1>6, <1>7, <1>8, <1>9, <1>10, <1>11, <1>12,
     <1>13, <1>14, <1>15, <1>16, <1>17, <1>18, <1>19 DEF Next, Stop, Start

-----------------------------------------------------------------------------
(* The invariants of the single properties *)

\* What NoZombie says without the help of a user who is closing.
ZombieInv ==
  vas \in live /\ "ended" \in {recv[vas], beat[vas]} =>
    \/ signal \/ pc[User] = "cancel"
    \/ \E t \in Threads : Token(t) /\ pc[t] \in StopSteps \cup {"dial", "start", "payload", "watch"}

\* The queues are closed by a reconnection that opens them again, or for good.
QueueInv ==
  ~Closing /\ ~qOpen => \E s \in Sessions : pc[s] \in {"wait", "blocked", "dial", "start"}

\* Nobody that wait group g counts is left.
AllGone(g) ==
  \A s \in Sessions : /\ recvIn[s] = g => recv[s] \in {"none"} \cup Gone
                      /\ beatIn[s] = g => beat[s] \in {"none"} \cup Gone

\* Nobody makes a session once Close has met no reconnection.
CloseInv ==
  clean =>
    /\ pc[User] \in StopSteps \cup {"closed"}
    /\ \A s \in Sessions : pc[s] \in {"none", "selecting", "done"}
    /\ pc[User] = "cancel" \/ live = {}
    /\ pc[User] \in {"wait", "blocked"} => wg[User] = vas
    /\ pc[User] = "closed" /\ ~Stray => AllGone(vas)

-----------------------------------------------------------------------------
(* Steps *)

\* A counter of zero means that all have left, if each leaves the group it joined.
LEMMA CounterZero ==
  ASSUME TypeOK, NEW g, Counter(g) = 0, ~Stray PROVE AllGone(g)
<1>1. Left(g) \subseteq Joined(g)
  BY DEF Left, Joined, Stray, Gone
<1>2. IsFiniteSet(Joined(g))
  <2>1. IsFiniteSet(Sessions)
    BY FS_Interval, Constants DEF Sessions
  <2>. DEFINE both == {"recv", "beat"} \X Sessions
  <2>2. IsFiniteSet(both)
    <3>1. IsFiniteSet({"recv", "beat"})
      <4>1. IsFiniteSet({"recv"}) /\ IsFiniteSet({"beat"}) /\ {"recv", "beat"} = {"recv"} \cup {"beat"}
        BY FS_Singleton
      <4>. QED  BY <4>1, FS_Union
    <3>. QED  BY <2>1, <3>1, FS_Product
  <2>3. Joined(g) \subseteq both
    BY DEF Joined
  <2>. HIDE DEF both
  <2>. QED  BY <2>2, <2>3, FS_Subset
<1>3. Left(g) = Joined(g)
  <2>1. IsFiniteSet(Left(g))
    BY <1>1, <1>2, FS_Subset
  <2>2. Cardinality(Left(g)) \in Nat /\ Cardinality(Joined(g)) \in Nat
    BY <1>2, <2>1, FS_CardinalityType
  <2>3. Cardinality(Left(g)) = Cardinality(Joined(g))
    BY <2>2 DEF Counter
  <2>. QED  BY <1>1, <1>2, <2>3, FS_Subset
<1>4. ASSUME NEW s \in Sessions, recvIn[s] = g PROVE recv[s] \in Gone
  <2>1. <<"recv", s>> \in Left(g)
    BY <1>3, <1>4 DEF Joined
  <2>. QED  BY <2>1 DEF Left
<1>5. ASSUME NEW s \in Sessions, beatIn[s] = g PROVE beat[s] \in Gone
  <2>1. <<"beat", s>> \in Left(g)
    BY <1>3, <1>5 DEF Joined
  <2>. QED  BY <2>1 DEF Left
<1>. QED  BY <1>4, <1>5 DEF AllGone

LEMMA ZombieStep == Inv /\ ZombieInv /\ Next => ZombieInv'
<1>. SUFFICES ASSUME Inv, ZombieInv, Next PROVE ZombieInv'
  OBVIOUS
<1>. USE Constants DEF Inv, ZombieInv, Goto, Recv, Beat, sess, loops, recvLoops, beatLoops, threads
<1>1. ASSUME UserStart PROVE ZombieInv'
  BY <1>1 DEF UserStart, LiveInv, LoopInv
<1>2. ASSUME SetLabels PROVE ZombieInv'
  BY <1>2 DEF SetLabels, Token
<1>3. ASSUME NotifyLabels PROVE ZombieInv'
  BY <1>3 DEF NotifyLabels
<1>4. ASSUME UserClose PROVE ZombieInv'
  BY <1>4 DEF UserClose, TypeOK
<1>5. ASSUME NEW t \in Threads, StopCancel(t) PROVE ZombieInv'
  BY <1>5 DEF StopCancel
<1>6. ASSUME NEW t \in Threads, StopQueues(t) PROVE ZombieInv'
  BY <1>6 DEF StopQueues, TypeOK, LiveInv, Token
<1>7. ASSUME NEW t \in Threads, StopWait(t) PROVE ZombieInv'
  BY <1>7 DEF StopWait, Token
<1>8. ASSUME NEW t \in Threads, Dial(t) PROVE ZombieInv'
  BY <1>8 DEF Dial, Token
<1>9. ASSUME NEW t \in Threads, StartSession(t) PROVE ZombieInv'
  BY <1>9 DEF StartSession, TypeOK, LoopInv
<1>10. ASSUME NEW t \in Threads, StartPayload(t) PROVE ZombieInv'
  BY <1>10 DEF StartPayload, LoopInv, Opening
<1>11. ASSUME NEW t \in Threads, StartWatched(t) PROVE ZombieInv'
  BY <1>11 DEF StartWatched, LoopInv, Opening
<1>12. ASSUME NEW t \in Threads, StartRefused(t) PROVE ZombieInv'
  BY <1>12 DEF StartRefused
<1>13. ASSUME NEW t \in Threads, SpawnWaiter(t) PROVE ZombieInv'
  BY <1>13 DEF SpawnWaiter, LoopInv, Opening
<1>14. ASSUME NEW t \in Threads, SpawnRecv(t) PROVE ZombieInv'
  BY <1>14 DEF SpawnRecv, Token, StopSteps
<1>15. ASSUME NEW t \in Threads, SpawnBeat(t) PROVE ZombieInv'
  BY <1>15 DEF SpawnBeat, Token, StopSteps
<1>16. ASSUME NEW s \in Sessions, SelectDone(s) PROVE ZombieInv'
  BY <1>16 DEF SelectDone, Token, StopSteps
<1>17. ASSUME NEW s \in Sessions, SelectSignal(s) PROVE ZombieInv'
  BY <1>17 DEF SelectSignal, TypeOK, Token, StopSteps
<1>18. ASSUME NEW s \in Sessions, Loop(s) PROVE ZombieInv'
  BY <1>18 DEF TypeOK, LoopInv, Token, Loop, RecvRun, RecvFail, RecvEnd, RecvNotify, RecvDone, BeatRun, BeatFail, BeatMute, BeatEnd, BeatNotify, BeatDone
<1>19. ASSUME NEW t \in Threads, StopBlock(t) PROVE ZombieInv'
  BY <1>19 DEF StopBlock, Token, StopSteps
<1>. QED
  BY <1>1, <1>2, <1>3, <1>4, <1>5, <1>6, <1>7, <1>8, <1>9, <1>10, <1>11, <1>12,
     <1>13, <1>14, <1>15, <1>16, <1>17, <1>18, <1>19 DEF Next, Stop, Start

LEMMA QueueStep == Inv /\ QueueInv /\ Next => QueueInv'
<1>. SUFFICES ASSUME Inv, QueueInv, Next PROVE QueueInv'
  OBVIOUS
<1>. USE Constants DEF Inv, QueueInv, Goto, Recv, Beat, sess, loops, recvLoops, beatLoops, threads
<1>1. ASSUME UserStart PROVE QueueInv'
  BY <1>1 DEF UserStart, Closing, StopSteps
<1>2. ASSUME SetLabels PROVE QueueInv'
  BY <1>2 DEF SetLabels, Closing, StopSteps
<1>3. ASSUME NotifyLabels PROVE QueueInv'
  BY <1>3 DEF NotifyLabels, Closing, StopSteps
<1>4. ASSUME UserClose PROVE QueueInv'
  BY <1>4 DEF UserClose, Closing, StopSteps
<1>5. ASSUME NEW t \in Threads, StopCancel(t) PROVE QueueInv'
  BY <1>5 DEF StopCancel, Closing, StopSteps
<1>6. ASSUME NEW t \in Threads, StopQueues(t) PROVE QueueInv'
  BY <1>6 DEF StopQueues, TypeOK, Closing, StopSteps
<1>7. ASSUME NEW t \in Threads, StopWait(t) PROVE QueueInv'
  BY <1>7 DEF StopWait, Closing
<1>8. ASSUME NEW t \in Threads, Dial(t) PROVE QueueInv'
  BY <1>8 DEF Dial, TokenInv
<1>9. ASSUME NEW t \in Threads, StartSession(t) PROVE QueueInv'
  BY <1>9 DEF StartSession
<1>10. ASSUME NEW t \in Threads, StartPayload(t) PROVE QueueInv'
  BY <1>10 DEF StartPayload, Closing, StopSteps
<1>11. ASSUME NEW t \in Threads, StartWatched(t) PROVE QueueInv'
  BY <1>11 DEF StartWatched, Closing, StopSteps
<1>12. ASSUME NEW t \in Threads, StartRefused(t) PROVE QueueInv'
  BY <1>12 DEF StartRefused, Closing, StopSteps
<1>13. ASSUME NEW t \in Threads, SpawnWaiter(t) PROVE QueueInv'
  <2>1. mine[t] = vas /\ vas \in Sessions /\ ~ \E s \in Sessions : pc[s] \in {"wait", "blocked", "dial", "start"}
    BY <1>13 DEF SpawnWaiter, TypeOK, TokenInv, MineInv, Token, Opening, StopSteps
  <2>. QED  BY <1>13, <2>1 DEF SpawnWaiter, TypeOK, Closing, StopSteps
<1>14. ASSUME NEW t \in Threads, SpawnRecv(t) PROVE QueueInv'
  BY <1>14 DEF SpawnRecv, Closing, StopSteps
<1>15. ASSUME NEW t \in Threads, SpawnBeat(t) PROVE QueueInv'
  BY <1>15 DEF SpawnBeat, Closing, StopSteps
<1>16. ASSUME NEW s \in Sessions, SelectDone(s) PROVE QueueInv'
  BY <1>16 DEF SelectDone, Closing
<1>17. ASSUME NEW s \in Sessions, SelectSignal(s) PROVE QueueInv'
  BY <1>17 DEF SelectSignal, Closing
<1>18. ASSUME NEW s \in Sessions, Loop(s) PROVE QueueInv'
  BY <1>18 DEF Closing, Loop, RecvRun, RecvFail, RecvEnd, RecvNotify, RecvDone, BeatRun, BeatFail, BeatMute, BeatEnd, BeatNotify, BeatDone
<1>19. ASSUME NEW t \in Threads, StopBlock(t) PROVE QueueInv'
  BY <1>19 DEF StopBlock, Closing, StopSteps
<1>. QED
  BY <1>1, <1>2, <1>3, <1>4, <1>5, <1>6, <1>7, <1>8, <1>9, <1>10, <1>11, <1>12,
     <1>13, <1>14, <1>15, <1>16, <1>17, <1>18, <1>19 DEF Next, Stop, Start

LEMMA CloseStep == Inv /\ CloseInv /\ Next => CloseInv'
<1>. SUFFICES ASSUME Inv, CloseInv, Next PROVE CloseInv'
  OBVIOUS
<1>. USE Constants DEF Inv, CloseInv, Goto, Recv, Beat, sess, loops, recvLoops, beatLoops, threads
<1>1. ASSUME UserStart PROVE CloseInv'
  BY <1>1 DEF UserStart, StopSteps
<1>2. ASSUME SetLabels PROVE CloseInv'
  BY <1>2 DEF SetLabels, StopSteps
<1>3. ASSUME NotifyLabels PROVE CloseInv'
  BY <1>3 DEF NotifyLabels, StopSteps
<1>4. ASSUME UserClose PROVE CloseInv'
  <2>1. ~clean
    BY <1>4 DEF UserClose, StopSteps
  <2>2. CASE vas = None
    <3>1. live = {} /\ \A s \in Sessions : recv[s] = "none" /\ beat[s] = "none"
      BY <2>2 DEF TypeOK, MineInv, LoopInv
    <3>2. AllGone(vas)'
      BY <1>4, <3>1 DEF UserClose, AllGone
    <3>. QED  BY <1>4, <2>1, <2>2, <3>1, <3>2 DEF UserClose, TypeOK, StopSteps
  <2>3. CASE vas # None
    BY <1>4, <2>1, <2>3 DEF UserClose, TypeOK, StopSteps
  <2>. QED  BY <2>2, <2>3
<1>5. ASSUME NEW t \in Threads, StopCancel(t) PROVE CloseInv'
  BY <1>5 DEF StopCancel, LiveInv, StopSteps
<1>6. ASSUME NEW t \in Threads, StopQueues(t) PROVE CloseInv'
  BY <1>6 DEF StopQueues, TypeOK, StopSteps
<1>7. ASSUME NEW t \in Threads, StopWait(t) PROVE CloseInv'
  <2>1. Stray' = Stray /\ \A g : AllGone(g)' = AllGone(g)
    BY <1>7 DEF StopWait, Stray, AllGone
  <2>2. CASE t = User
    <3>1. Counter(wg[User]) = 0 => Stray \/ AllGone(wg[User])
      BY CounterZero
    <3>. QED  BY <1>7, <2>1, <2>2, <3>1 DEF StopWait, TypeOK, StopSteps
  <2>3. CASE t # User
    BY <1>7, <2>1, <2>3 DEF StopWait, TypeOK
  <2>. QED  BY <2>2, <2>3
<1>8. ASSUME NEW t \in Threads, Dial(t) PROVE CloseInv'
  BY <1>8 DEF Dial, TokenInv
<1>9. ASSUME NEW t \in Threads, StartSession(t) PROVE CloseInv'
  BY <1>9 DEF StartSession, StopSteps
<1>10. ASSUME NEW t \in Threads, StartPayload(t) PROVE CloseInv'
  BY <1>10 DEF StartPayload, StopSteps
<1>11. ASSUME NEW t \in Threads, StartWatched(t) PROVE CloseInv'
  BY <1>11 DEF StartWatched
<1>12. ASSUME NEW t \in Threads, StartRefused(t) PROVE CloseInv'
  BY <1>12 DEF StartRefused, StopSteps
<1>13. ASSUME NEW t \in Threads, SpawnWaiter(t) PROVE CloseInv'
  BY <1>13 DEF SpawnWaiter, StopSteps
<1>14. ASSUME NEW t \in Threads, SpawnRecv(t) PROVE CloseInv'
  BY <1>14 DEF SpawnRecv, StopSteps
<1>15. ASSUME NEW t \in Threads, SpawnBeat(t) PROVE CloseInv'
  BY <1>15 DEF SpawnBeat, StopSteps
<1>16. ASSUME NEW s \in Sessions, SelectDone(s) PROVE CloseInv'
  <2>1. Stray' = Stray /\ AllGone(vas)' = AllGone(vas)
    BY <1>16 DEF SelectDone, Stray, AllGone
  <2>. QED  BY <1>16, <2>1 DEF SelectDone
<1>17. ASSUME NEW s \in Sessions, SelectSignal(s) PROVE CloseInv'
  BY <1>17 DEF SelectSignal
<1>18. ASSUME NEW s \in Sessions, Loop(s) PROVE CloseInv'
  <2>. USE DEF Loop, RecvRun, RecvFail, RecvEnd, RecvNotify, RecvDone, BeatRun, BeatFail, BeatMute,
               BeatEnd, BeatNotify, BeatDone
  <2>1. UNCHANGED <<clean, pc, live, vas, wg, recvIn, beatIn>>
    BY <1>18
  <2>2. recv \in [Sessions -> LoopStates] /\ beat \in [Sessions -> LoopStates]
    BY DEF TypeOK
  <2>3. Stray => Stray'
    BY <1>18, <2>1, <2>2 DEF Stray, TypeOK, Gone
  <2>4. ~Stray /\ AllGone(vas) => Stray' \/ AllGone(vas)'
    BY <1>18, <2>1, <2>2 DEF Stray, TypeOK, AllGone, Gone
  <2>. QED  BY <2>1, <2>3, <2>4
<1>19. ASSUME NEW t \in Threads, StopBlock(t) PROVE CloseInv'
  BY <1>19 DEF StopBlock, TypeOK, StopSteps
<1>. QED
  BY <1>1, <1>2, <1>3, <1>4, <1>5, <1>6, <1>7, <1>8, <1>9, <1>10, <1>11, <1>12,
     <1>13, <1>14, <1>15, <1>16, <1>17, <1>18, <1>19 DEF Next, Stop, Start
-----------------------------------------------------------------------------
(* Theorems *)

LEMMA StutterInv == Inv /\ UNCHANGED vars => Inv'
BY DEF vars, sess, threads, loops, recvLoops, beatLoops, Inv, TypeOK, TokenInv, MineInv, LiveInv,
       LoopInv, Token, Opening

\* The invariant holds in every reachable state.
LEMMA InvHolds == Spec => []Inv
<1>1. Inv /\ [Next]_vars => Inv'
  BY StepInv, StutterInv
<1>. QED  BY <1>1, InitInv, PTL DEF Spec

\* Every field keeps its type, through reconnections, label changes and Close.
THEOREM TypeCorrect == Spec => []TypeOK
<1>1. Inv => TypeOK
  BY DEF Inv
<1>. QED  BY <1>1, InvHolds, PTL

\* tryReconnect makes a session only when the one before it is cancelled,
\* whoever cancelled it: two streams never run side by side.
THEOREM OneSession == Spec => []OneLiveSession
<1>1. Inv => OneLiveSession
  BY DEF Inv, LiveInv, OneLiveSession
<1>. QED  BY <1>1, InvHolds, PTL

\* A loop of the current session that ended because it failed has left a signal
\* nobody has taken, or whoever took it is replacing the session; of a heartbeat
\* loop that could not encode its payload the code tells nobody (heartbeat.go:94).
THEOREM FailureNotLost == Spec => []NoZombie
<1>1. Init => Inv /\ ZombieInv
  BY InitInv, Constants DEF Init, ZombieInv
<1>2. Inv /\ ZombieInv /\ [Next]_vars => (Inv /\ ZombieInv)'
  <2>1. CASE Next
    BY <2>1, StepInv, ZombieStep
  <2>2. CASE UNCHANGED vars
    BY <2>2, StutterInv DEF vars, sess, threads, loops, recvLoops, beatLoops, ZombieInv, Token
  <2>. QED  BY <2>1, <2>2
<1>3. Inv /\ ZombieInv => NoZombie
  BY Constants DEF Inv, ZombieInv, NoZombie, Restarting, StopSteps
<1>. QED  BY <1>1, <1>2, <1>3, PTL DEF Spec

\* StopWatch closes the queues of the subscribers and StartWatch opens them again:
\* a session that receives finds them open unless the client is being closed.
THEOREM QueuesOpen == Spec => []LiveSessionDelivers
<1>1. Init => Inv /\ QueueInv
  BY InitInv, Constants DEF Init, QueueInv
<1>2. Inv /\ QueueInv /\ [Next]_vars => (Inv /\ QueueInv)'
  <2>1. CASE Next
    BY <2>1, StepInv, QueueStep
  <2>2. CASE UNCHANGED vars
    BY <2>2, StutterInv DEF vars, sess, threads, QueueInv, Closing
  <2>. QED  BY <2>1, <2>2
<1>3. Inv /\ QueueInv => LiveSessionDelivers
  BY Constants DEF Inv, QueueInv, LiveSessionDelivers, LiveInv, Token, StopSteps
<1>. QED  BY <1>1, <1>2, <1>3, PTL DEF Spec

\* When no reconnection was under way, and every loop leaves the wait group it was
\* added to, Close returns with no session left and no loop that the session's wait
\* group counts.
THEOREM CloseComplete == Spec => []CloseEndsAll
<1>1. Init => Inv /\ CloseInv
  BY InitInv, Constants DEF Init, CloseInv
<1>2. Inv /\ CloseInv /\ [Next]_vars => (Inv /\ CloseInv)'
  <2>1. CASE Next
    BY <2>1, StepInv, CloseStep
  <2>2. CASE UNCHANGED vars
    BY <2>2, StutterInv DEF vars, sess, loops, recvLoops, beatLoops, threads, CloseInv, Stray, AllGone
  <2>. QED  BY <2>1, <2>2
<1>3. Inv /\ CloseInv => CloseEndsAll
  BY Constants DEF Inv, CloseInv, CloseEndsAll, AllGone
<1>. QED  BY <1>1, <1>2, <1>3, PTL DEF Spec

-----------------------------------------------------------------------------
(* What the user of ResetLabels sees of all this *)

InPayload == \E t \in Threads : pc[t] = "payload"

\* A step that leaves labels and payloads alone, and no request unanswered.
LEMMA QuietStep ==
  ASSUME UNCHANGED <<labels, made, sent>>, InPayload' <=> InPayload,
         (pc[User] = "notify")' <=> pc[User] = "notify", Asked => Asked'
  PROVE  [Interface!Next]_(Interface!interface)
<1>1. LastSent' = LastSent
  BY DEF LastSent, InPayload
<1>2. (pc[User] = "notify")' = (pc[User] = "notify")
  OBVIOUS
<1>3. CASE Asked'
  BY <1>1, <1>2, <1>3 DEF Interface!Next, Interface!Ask
<1>4. CASE ~Asked'
  <2>1. ~Asked
    BY <1>4
  <2>2. Asked' = Asked
    BY <1>4, <2>1 DEF Asked
  <2>. QED  BY <1>1, <1>2, <2>2 DEF Interface!interface
<1>. QED  BY <1>3, <1>4

LEMMA InterfaceStep == Inv /\ Next => [Interface!Next]_(Interface!interface)
<1>. SUFFICES ASSUME Inv, Next PROVE [Interface!Next]_(Interface!interface)
  OBVIOUS
<1>. USE Constants DEF Inv, Goto, Recv, Beat, sess, loops, recvLoops, beatLoops, threads
<1>1. ASSUME UserStart \/ UserClose PROVE [Interface!Next]_(Interface!interface)
  <2>1. /\ UNCHANGED <<labels, made, sent, signal>>
        /\ pc[User] = "idle" /\ pc'[User] \in {"start", "closed", "cancel"}
        /\ \A s \in Sessions : pc'[s] = pc[s]
    BY <1>1 DEF UserStart, UserClose, TypeOK
  <2>2. (InPayload' <=> InPayload) /\ (Asked => Asked')
    BY <2>1 DEF InPayload, Asked, StopSteps
  <2>. QED  BY <2>1, <2>2, QuietStep
<1>2. ASSUME SetLabels PROVE [Interface!Next]_(Interface!interface)
  <2>1. pc[User] = "idle" /\ pc'[User] = "notify" /\ \A s \in Sessions : pc'[s] = pc[s]
    BY <1>2 DEF SetLabels, TypeOK
  <2>2. Asked' = Asked /\ LastSent' = LastSent /\ sent' = sent
    BY <1>2, <2>1 DEF SetLabels, Asked, LastSent
  <2>3. Interface!SetLabels
    BY <2>1, <2>2 DEF Interface!SetLabels
  <2>. QED  BY <2>3 DEF Interface!Next
<1>3. ASSUME NotifyLabels PROVE [Interface!Next]_(Interface!interface)
  <2>1. pc[User] = "notify" /\ pc'[User] = "idle" /\ \A s \in Sessions : pc'[s] = pc[s]
    BY <1>3 DEF NotifyLabels, TypeOK
  <2>2. Asked' /\ LastSent' = LastSent /\ sent' = sent /\ labels' = labels
    BY <1>3, <2>1 DEF NotifyLabels, Asked, LastSent
  <2>3. Interface!Notify
    BY <2>1, <2>2 DEF Interface!Notify
  <2>. QED  BY <2>3 DEF Interface!Next
<1>4. ASSUME NEW t \in Threads, Stop(t) \/ Dial(t) PROVE [Interface!Next]_(Interface!interface)
  BY <1>4, QuietStep DEF Stop, StopCancel, StopQueues, StopBlock, StopWait, Dial, TypeOK, TokenInv, InPayload,
                         Asked, StopSteps
<1>5. ASSUME NEW t \in Threads, StartSession(t) PROVE [Interface!Next]_(Interface!interface)
  <2>1. ~InPayload /\ InPayload' /\ Asked /\ Asked'
    BY <1>5 DEF StartSession, TypeOK, TokenInv, Token, InPayload, Asked
  <2>2. LastSent' = LastSent /\ UNCHANGED <<labels, sent>>
    BY <1>5, <2>1 DEF StartSession, TypeOK, InPayload, LastSent
  <2>3. (pc[User] = "notify")' = (pc[User] = "notify")
    BY <1>5 DEF StartSession, TypeOK
  <2>. QED  BY <2>1, <2>2, <2>3 DEF Interface!interface
<1>6. ASSUME NEW t \in Threads, StartPayload(t) PROVE [Interface!Next]_(Interface!interface)
  <2>1. Asked /\ ~InPayload' /\ made' = made /\ made \in Sessions /\ sent'[made] = labels
    BY <1>6 DEF StartPayload, TypeOK, TokenInv, Token, MineInv, Opening, InPayload, Asked
  <2>2. LastSent' = made
    BY <2>1 DEF LastSent, InPayload
  <2>3. (pc[User] = "notify")' = (pc[User] = "notify") /\ labels' = labels
    BY <1>6 DEF StartPayload, TypeOK
  <2>4. Interface!Serve
    BY <2>1, <2>2, <2>3 DEF Interface!Serve, Asked, TypeOK
  <2>. QED  BY <2>4 DEF Interface!Next
<1>7. ASSUME NEW t \in Threads, StartWatched(t) \/ StartRefused(t)
      PROVE  [Interface!Next]_(Interface!interface)
  BY <1>7, QuietStep DEF StartWatched, StartRefused, TypeOK, InPayload, Asked, StopSteps
<1>8. ASSUME NEW t \in Threads, SpawnWaiter(t) PROVE [Interface!Next]_(Interface!interface)
  <2>1. mine[t] \in Sessions /\ (Token(mine[t]) => mine[t] = t)
    BY <1>8 DEF SpawnWaiter, TypeOK, TokenInv, MineInv, Token, Opening
  <2>. QED  BY <1>8, <2>1, QuietStep DEF SpawnWaiter, TypeOK, Token, InPayload, Asked, StopSteps
<1>9. ASSUME NEW t \in Threads, SpawnRecv(t) \/ SpawnBeat(t)
      PROVE  [Interface!Next]_(Interface!interface)
  BY <1>9, QuietStep DEF SpawnRecv, SpawnBeat, TypeOK, InPayload, Asked, StopSteps
<1>10. ASSUME NEW s \in Sessions, SelectDone(s) \/ SelectSignal(s)
       PROVE  [Interface!Next]_(Interface!interface)
  BY <1>10, QuietStep DEF SelectDone, SelectSignal, TypeOK, InPayload, Asked, StopSteps
<1>11. ASSUME NEW s \in Sessions, Loop(s)
       PROVE  [Interface!Next]_(Interface!interface)
  BY <1>11, QuietStep DEF Loop, RecvRun, RecvFail, RecvEnd, RecvNotify, RecvDone, BeatRun,
                          BeatFail, BeatMute, BeatEnd, BeatNotify, BeatDone, InPayload, Asked
<1>. QED
  BY <1>1, <1>2, <1>3, <1>4, <1>5, <1>6, <1>7, <1>8, <1>9, <1>10, <1>11 DEF Next, Start

\* The watcher, with its threads and loops, implements the session that Sidecar
\* and the user of ResetLabels see: one opened with the labels of the moment, and
\* never forgotten once it is asked for (client.go:241, reconnect.go:26).
THEOREM SessionRefined == Spec => ImplementsSession
<1>1. Init => Interface!Init
  BY Constants DEF Init, Interface!Init, Asked, LastSent, StopSteps
<1>2. Inv /\ [Next]_vars => [Interface!Next]_(Interface!interface)
  <2>1. ASSUME UNCHANGED vars PROVE UNCHANGED Interface!interface
    BY <2>1 DEF vars, sess, threads, Interface!interface, Asked, LastSent
  <2>. QED  BY <2>1, InterfaceStep
<1>. QED  BY InvHolds, <1>1, <1>2, PTL DEF Spec, ImplementsSession, Interface!Spec

\* What Session promises, and what it means in the watcher: no label change of
\* ResetLabels is lost, although NotifyReconnect drops a signal when one is
\* pending: the one who takes the signal reads the labels afterwards.
THEOREM LabelsNotLost == Spec => []LabelsReachServer
<1>1. Interface!Init => Interface!Promise
  BY DEF Interface!Init, Interface!Promise
<1>2. Interface!Promise /\ [Interface!Next]_(Interface!interface) => Interface!Promise'
  BY DEF Interface!Promise, Interface!Next, Interface!interface, Interface!SetLabels,
         Interface!Notify, Interface!Configure, Interface!Ask, Interface!Serve
<1>3. Inv /\ Interface!Promise => LabelsReachServer
  <2>. SUFFICES ASSUME Inv, Interface!Promise, vas \in live, sent[vas] # labels, ~InPayload
                PROVE  Asked \/ pc[User] = "notify"
    BY Constants DEF LabelsReachServer, InPayload, Asked, StopSteps
  <2>1. LastSent = vas /\ vas \in Sessions /\ sent[vas] \in Nat
    BY Constants DEF Inv, TypeOK, MineInv, LastSent, InPayload
  <2>. QED  BY <2>1, Constants DEF Interface!Promise
<1>. QED  BY SessionRefined, InvHolds, <1>1, <1>2, <1>3, PTL DEF ImplementsSession, Interface!Spec
=============================================================================
