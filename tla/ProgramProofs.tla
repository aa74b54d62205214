----------------------------- MODULE ProgramProofs ----------------------------
(***************************************************************************)
(* Proofs about the programs built on the client.  PidFile, the node       *)
(* plugin: one instance watches, for every set of pids and number of       *)
(* kills.  Sidecar: the labels file reaches the labels and the releases,   *)
(* for any labels and any number of edits.                                 *)
(***************************************************************************)
EXTENDS PidFile, Sidecar, SequenceTheorems, TLAPS

-----------------------------------------------------------------------------
(* PidFile: the node plugin *)

\* What keeps a second instance out as long as no two starts overlap: the file
\* names the one that is live, nobody is about to replace it, and a start that
\* has read the file will look for that one.
OneStart == \A p, q \in Pids : Between(p) /\ Between(q) => p = q

LiveIsNamed ==
  \A q \in Pids : Live(q) =>
    /\ pidFile = q
    /\ \A p \in Pids : proc[p] \notin {"truncate", "write"}
    /\ \A p \in Pids : proc[p] = "look" => pidRead[p] = q

LookHasSeen == \A p \in Pids : proc[p] = "look" => pidRead[p] \in Pids

PidInv == PidTypeOK /\ LookHasSeen /\ (~raced => OneStart /\ LiveIsNamed)

LEMMA PidInitInv == PidInit => PidInv
<1>. SUFFICES ASSUME PidInit PROVE PidInv
  OBVIOUS
<1>1. \A p \in Pids : proc[p] \in {"free", "other"}
  BY DEF PidInit
<1>2. LookHasSeen /\ OneStart /\ LiveIsNamed
  BY <1>1 DEF LookHasSeen, OneStart, LiveIsNamed, Between, Live
<1>3. kills \in 0..MaxKills
  BY PidAssumption DEF PidInit
<1>4. PidTypeOK
  BY <1>3 DEF PidInit, PidTypeOK
<1>. QED BY <1>2, <1>4 DEF PidInv

LEMMA StartKeeps == ASSUME PidInv, NEW p \in Pids, Start(p) PROVE PidInv'
BY DEF PidInv, PidTypeOK, LookHasSeen, OneStart, LiveIsNamed, Between, Live, Start, Transition

\* While another start is between read and write, the read is a race; otherwise
\* the live instance is the one the file names.
LEMMA ReadKeeps == ASSUME PidInv, NEW p \in Pids, Read(p) PROVE PidInv'
<1>. USE DEF PidInv, Transition
<1>1. PidTypeOK' /\ LookHasSeen'
  BY PidAssumption DEF PidTypeOK, LookHasSeen, Read
<1>2. ASSUME ~raced' PROVE OneStart' /\ LiveIsNamed'
  <2>1. ~raced /\ OneStart /\ LiveIsNamed
    BY <1>2 DEF Read
  <2>2. CASE pidFile = Empty
    BY <2>1, <2>2, PidAssumption
    DEF Read, PidTypeOK, OneStart, LiveIsNamed, Between, Live
  <2>3. CASE pidFile # Empty
    <3>1. \A q \in Pids : ~Between(q)
      BY <1>2, <2>3 DEF Read
    <3>2. OneStart'
      BY <3>1 DEF Read, PidTypeOK, OneStart, Between
    <3>3. LiveIsNamed'
      BY <2>1, <3>1, PidAssumption DEF Read, PidTypeOK, LiveIsNamed, Between, Live
    <3>. QED BY <3>2, <3>3
  <2>. QED BY <2>2, <2>3
<1>. QED BY <1>1, <1>2

\* A start that goes on has looked for the live instance, so there is none.
LEMMA LookKeeps == ASSUME PidInv, NEW p \in Pids, Look(p) PROVE PidInv'
<1>1. PidTypeOK' /\ LookHasSeen'
  BY DEF PidInv, PidTypeOK, LookHasSeen, Look, Transition
<1>2. ASSUME ~raced' PROVE OneStart' /\ LiveIsNamed'
  BY <1>2 DEF PidInv, PidTypeOK, LookHasSeen, OneStart, LiveIsNamed, Between, Live, Look, Transition
<1>. QED BY <1>1, <1>2 DEF PidInv

LEMMA TruncateKeeps == ASSUME PidInv, NEW p \in Pids, Truncate(p) PROVE PidInv'
BY DEF PidInv, PidTypeOK, LookHasSeen, OneStart, LiveIsNamed, Between, Live, Truncate, Transition

LEMMA WriteKeeps == ASSUME PidInv, NEW p \in Pids, WritePid(p) PROVE PidInv'
BY DEF PidInv, PidTypeOK, LookHasSeen, OneStart, LiveIsNamed, Between, Live, WritePid, Transition

LEMMA ClientKeeps == ASSUME PidInv, NEW p \in Pids, Serve(p) \/ Fail(p) PROVE PidInv'
BY DEF PidInv, PidTypeOK, LookHasSeen, OneStart, LiveIsNamed, Between, Live, Serve, Fail, Transition

LEMMA HostKeeps == ASSUME PidInv, NEW p \in Pids, Kill(p) \/ OtherProgram(p) PROVE PidInv'
<1>1. PidTypeOK' /\ LookHasSeen'
  <2>1. CASE Kill(p)
    <3>1. kills' \in 0..MaxKills
      BY <2>1, PidAssumption DEF PidInv, PidTypeOK, Kill
    <3>. QED BY <2>1, <3>1 DEF PidInv, PidTypeOK, LookHasSeen, Kill
  <2>2. CASE OtherProgram(p)
    BY <2>2 DEF PidInv, PidTypeOK, LookHasSeen, OtherProgram, Transition
  <2>. QED BY <2>1, <2>2
<1>2. ASSUME ~raced' PROVE OneStart' /\ LiveIsNamed'
  BY <1>2 DEF PidInv, PidTypeOK, OneStart, LiveIsNamed, Between, Live, Kill, OtherProgram, Transition
<1>. QED BY <1>1, <1>2 DEF PidInv

LEMMA PidNextInv == PidInv /\ [PidNext]_pidVars => PidInv'
<1>. SUFFICES ASSUME PidInv, [PidNext]_pidVars PROVE PidInv'
  OBVIOUS
<1>1. ASSUME NEW p \in Pids, Watch(p) PROVE PidInv'
  BY <1>1, ReadKeeps, LookKeeps, TruncateKeeps, WriteKeeps, ClientKeeps DEF Watch
<1>2. CASE UNCHANGED pidVars
  BY <1>2 DEF pidVars, PidInv, PidTypeOK, LookHasSeen, OneStart, LiveIsNamed, Between, Live
<1>. QED BY <1>1, <1>2, StartKeeps, HostKeeps DEF PidNext

\* Every variable stays in its domain.
THEOREM PidTypeCorrect == PidSpec => []PidTypeOK
<1>1. PidInv => PidTypeOK
  BY DEF PidInv
<1>. QED BY <1>1, PidInitInv, PidNextInv, PTL DEF PidSpec

\* As long as no two starts were between the read and the write of the pid file
\* at the same time, at most one instance of the plugin watches (main.go:254).
THEOREM OneInstance == PidSpec => []OneInstanceUnlessRaced
<1>1. PidInv => OneInstanceUnlessRaced
  BY DEF PidInv, LiveIsNamed, OneInstanceUnlessRaced
<1>. QED BY <1>1, PidInitInv, PidNextInv, PTL DEF PidSpec

-----------------------------------------------------------------------------
(* Sidecar: from the labels file to the handled release *)

\* The goroutine of watchLabelsFile runs from the watch on, and a session from
\* StartWatch on.
StartInv ==
  /\ seen <= edits /\ Len(inotify) <= edits
  /\ reader = "none" <=> main \in {"conf", "refine", "watch", "exited"}
  /\ main \notin {"serve", "notify"} => session = Nothing /\ stream = FALSE /\ events = {}

\* What the goroutine read last is what it keeps or is about to send.
ReadInv ==
  main \notin {"conf", "refine", "exited"} /\ seen = edits /\ file \in Contents =>
    IF reader = "send" THEN msg = file ELSE old = file

\* The labels are those that the goroutine knows to be received.
LabelInv ==
  main \in {"start", "serve", "notify"} =>
    labels \in {Effective(base, old), Effective(WithPodName(base), old)}

\* A session for other labels than the subscriber's is about to end, and its
\* events, unless they are of an earlier one, are for the labels of the session.
SessionInv ==
  /\ main = "serve" => session = labels \/ signal = TRUE
  /\ \A e \in events : e.older = FALSE => e.labels = session

SidecarInv == TypeOK /\ StartInv /\ ReadInv /\ LabelInv /\ SessionInv /\ MismatchIsTemporary

LEMMA SidecarInitInv == Init => SidecarInv
<1>. SUFFICES ASSUME Init PROVE SidecarInv
  OBVIOUS
<1>. USE DEF Init
<1>1. TypeOK
  <2>1. inotify \in Seq({"Write", "Create", "Remove"}) /\ Len(inotify) = 0 /\ MaxEdits \in Nat
    BY SidecarAssumption DEF SidecarAssumption
  <2>2. Len(inotify) <= MaxEdits /\ edits \in 0..MaxEdits /\ seen \in 0..MaxEdits
    BY <2>1
  <2>. QED  BY <2>1, <2>2 DEF TypeOK
<1>2. StartInv /\ ReadInv /\ LabelInv /\ SessionInv /\ MismatchIsTemporary
  BY SidecarAssumption DEF StartInv, ReadInv, LabelInv, SessionInv, MismatchIsTemporary
<1>. QED  BY <1>1, <1>2 DEF SidecarInv

\* inotify grows by one event at most, and only with an edit.
LEMMA TellGrows ==
  ASSUME TypeOK, StartInv, Edited, NEW e \in {"Write", "Create", "Remove"}, Tell(e)
  PROVE  /\ inotify' \in Seq({"Write", "Create", "Remove"})
         /\ Len(inotify') <= edits' /\ edits' \in 0..MaxEdits
         /\ seen <= edits' /\ seen # edits'
BY SidecarAssumption DEF SidecarAssumption, TypeOK, StartInv, Edited, Tell

LEMMA EditorInv == SidecarInv /\ Editor => SidecarInv'
<1>. SUFFICES ASSUME SidecarInv, Editor PROVE SidecarInv'
  OBVIOUS
<1>1. PICK e \in {"Write", "Create", "Remove"} : Edited /\ Tell(e)
  BY DEF Editor, Write, Replace, Delete
<1>2. /\ file' \in Contents \cup {Bad, Absent}
      /\ UNCHANGED <<watching, reader, old, msg, seen, main, base, labels, signal, eventVars>>
  BY DEF Editor, Write, Replace, Delete
<1>3. TypeOK'
  BY <1>1, <1>2, TellGrows, SidecarAssumption DEF SidecarAssumption, SidecarInv, TypeOK, eventVars, EventsOf
<1>4. StartInv' /\ ReadInv'
  BY <1>1, <1>2, TellGrows DEF SidecarInv, StartInv, ReadInv, eventVars
<1>5. LabelInv' /\ SessionInv' /\ MismatchIsTemporary'
  BY <1>2 DEF SidecarInv, LabelInv, SessionInv, MismatchIsTemporary, eventVars, WithPodName,
              Effective, Merge
<1>. QED  BY <1>3, <1>4, <1>5 DEF SidecarInv

LEMMA MainInv == SidecarInv /\ Main => SidecarInv'
<1>. SUFFICES ASSUME SidecarInv, Main PROVE SidecarInv'
  OBVIOUS
<1>. USE DEF SidecarInv, fileVars, readerVars, eventVars
<1>1. TypeOK'
  <2>1. old' \in Contents \cup {Nothing, <<>>}
    BY DEF TypeOK, Main, ReadConf, Refine, WatchFile, NewClient, StartWatch, ReceiveLabels,
           Notify, ReceiveFailure, FileLabels
  <2>2. /\ main' \in {"conf", "refine", "watch", "client", "start", "serve", "notify", "exited"}
        /\ watching' \in BOOLEAN /\ signal' \in BOOLEAN /\ stream' \in BOOLEAN /\ late' \in BOOLEAN
    BY DEF TypeOK, Main, ReadConf, Refine, WatchFile, NewClient, StartWatch, ReceiveLabels,
           Notify, ReceiveFailure
  <2>3. /\ UNCHANGED <<file, edits, inotify, events>>
        /\ reader' \in {"none", "select", "read", "send"} /\ seen' \in 0..MaxEdits
        /\ msg' \in Contents \cup {Nothing, Failure}
    BY DEF TypeOK, Main, ReadConf, Refine, WatchFile, NewClient, StartWatch, ReceiveLabels,
           Notify, ReceiveFailure
  <2>. QED  BY <2>1, <2>2, <2>3 DEF TypeOK, EventsOf
<1>2. StartInv' /\ ReadInv'
  <2>1. UNCHANGED <<file, edits, inotify>>
    BY DEF Main, ReadConf, Refine, WatchFile, NewClient, StartWatch, ReceiveLabels, Notify,
           ReceiveFailure
  <2>2. StartInv'
    BY <2>1 DEF TypeOK, StartInv, Main, ReadConf, Refine, WatchFile, NewClient, StartWatch,
                ReceiveLabels, Notify, ReceiveFailure
  <2>3. ReadInv'
    BY <2>1, SidecarAssumption
    DEF SidecarAssumption, TypeOK, StartInv, ReadInv, FileLabels, Main, ReadConf, Refine, WatchFile,
        NewClient, StartWatch, ReceiveLabels, Notify, ReceiveFailure
  <2>. QED  BY <2>2, <2>3
<1>3. LabelInv'
  BY DEF TypeOK, LabelInv, Main, ReadConf, Refine, WatchFile, NewClient, StartWatch, ReceiveLabels,
         Notify, ReceiveFailure
<1>4. SessionInv' /\ MismatchIsTemporary'
  BY DEF StartInv, SessionInv, MismatchIsTemporary, Main, ReadConf, Refine, WatchFile, NewClient,
         StartWatch, ReceiveLabels, Notify, ReceiveFailure
<1>. QED  BY <1>1, <1>2, <1>3, <1>4

LEMMA ReaderInv == SidecarInv /\ Reader => SidecarInv'
<1>. SUFFICES ASSUME SidecarInv, Reader PROVE SidecarInv'
  OBVIOUS
<1>. USE DEF SidecarInv
<1>1. /\ inotify' \in Seq({"Write", "Create", "Remove"}) /\ Len(inotify') <= Len(inotify)
      /\ Len(inotify') \in Int /\ Len(inotify) \in Int
  BY DEF TypeOK, Reader, TakeEvent, ReadFile
<1>2. UNCHANGED <<file, edits, watching, old, main, base, labels, signal, session, stream, events,
                  handled, late>>
  BY DEF Reader, TakeEvent, ReadFile, fileVars, eventVars
<1>3. /\ reader' \in {"select", "read", "send"} /\ reader # "none"
      /\ seen' \in {seen, edits} /\ msg' \in Contents \cup {Nothing, Failure}
  BY DEF TypeOK, Reader, TakeEvent, ReadFile
<1>4. TypeOK'
  <2>1. Len(inotify') <= MaxEdits
    BY <1>1, SidecarAssumption DEF SidecarAssumption, TypeOK
  <2>. QED  BY <1>1, <1>2, <1>3, <2>1 DEF TypeOK, EventsOf
<1>5. StartInv'
  BY <1>1, <1>2, <1>3 DEF TypeOK, StartInv
<1>6. ReadInv'
  BY <1>2, SidecarAssumption
  DEF SidecarAssumption, ReadInv, TypeOK, Reader, TakeEvent, ReadFile
<1>7. LabelInv' /\ SessionInv' /\ MismatchIsTemporary'
  BY <1>2 DEF LabelInv, SessionInv, MismatchIsTemporary, WithPodName, Effective, Merge
<1>. QED  BY <1>4, <1>5, <1>6, <1>7

\* Steps of the session and its events leave the file, its reader and Watch alone.
SessionStep == Disturb \/ Reconnect \/ Publish \/ Receive \/ MatchOne \/ HandleOne

LEMMA SessionStepInv == SidecarInv /\ SessionStep => SidecarInv'
<1>. SUFFICES ASSUME SidecarInv, SessionStep PROVE SidecarInv'
  OBVIOUS
<1>. USE DEF SidecarInv
<1>1. UNCHANGED <<fileVars, readerVars, main, base, labels>>
  BY DEF SessionStep, Disturb, Reconnect, Publish, Receive, MatchOne, Match, HandleOne, Handle
<1>2. /\ signal' \in BOOLEAN /\ stream' \in BOOLEAN /\ late' \in BOOLEAN
      /\ \A e \in events' : e \in EventsOf(e.labels)
  <2>1. CASE Disturb \/ Publish
    BY <2>1 DEF TypeOK, Disturb, Publish, eventVars
  <2>2. CASE Reconnect
    BY <2>2 DEF TypeOK, Reconnect, EventsOf
  <2>3. CASE Receive
    <3>1. PICK new : /\ new = [labels |-> session, at |-> "spawned", older |-> FALSE]
                     /\ events' = events \cup {new} /\ stream' = FALSE
                     /\ UNCHANGED <<signal, late>>
      BY <2>3 DEF Receive
    <3>2. new.labels = session /\ new \in EventsOf(session)
      BY <3>1 DEF EventsOf
    <3>3. \A e \in events' : e \in EventsOf(e.labels)
      BY <3>1, <3>2 DEF TypeOK
    <3>. QED  BY <3>1, <3>3 DEF TypeOK
  <2>4. CASE MatchOne
    BY <2>4 DEF TypeOK, MatchOne, Match, EventsOf
  <2>5. CASE HandleOne
    BY <2>5 DEF TypeOK, HandleOne, Handle, EventsOf
  <2>. QED  BY <2>1, <2>2, <2>3, <2>4, <2>5 DEF SessionStep
<1>3. TypeOK'
  BY <1>1, <1>2 DEF TypeOK, fileVars, readerVars
<1>4. StartInv'
  <2>1. session # Nothing \/ stream = TRUE \/ events # {}
    BY DEF SessionStep, Disturb, Reconnect, Publish, Receive, MatchOne, HandleOne
  <2>2. main \in {"serve", "notify"}
    BY <2>1 DEF StartInv
  <2>. QED  BY <1>1, <2>2 DEF StartInv, fileVars, readerVars
<1>5. ReadInv' /\ LabelInv'
  BY <1>1 DEF ReadInv, LabelInv, fileVars, readerVars, WithPodName, Effective, Merge
<1>6. SessionInv'
  BY <1>1 DEF TypeOK, EventsOf, SessionInv, SessionStep, Disturb, Reconnect, Publish, Receive,
              MatchOne, Match, HandleOne, Handle, eventVars
<1>7. MismatchIsTemporary'
  <2>1. CASE Disturb \/ Publish
    BY <1>1, <2>1 DEF SessionInv, MismatchIsTemporary, Disturb, Publish, eventVars
  <2>2. CASE Reconnect
    BY <1>1, <2>2 DEF MismatchIsTemporary, Reconnect
  <2>5. CASE Receive
    <3>1. \E e \in events' : e.labels = session
      <4>1. PICK new : /\ new = [labels |-> session, at |-> "spawned", older |-> FALSE]
                       /\ events' = events \cup {new}
        BY <2>5 DEF Receive
      <4>2. new.labels = session
        BY <4>1
      <4>. QED  BY <4>1, <4>2
    <3>. QED  BY <1>1, <2>5, <3>1 DEF MismatchIsTemporary, Receive
  <2>3. CASE MatchOne
    <3>1. PICK e \in events : Match(e)
      BY <2>3 DEF MatchOne
    <3>2. ASSUME NEW d \in events, d.labels = labels PROVE \E c \in events' : c.labels = labels
      <4>1. CASE d # e
        BY <3>1, <3>2, <4>1 DEF Match
      <4>2. CASE d = e
        <5>1. [e EXCEPT !.at = "matched"].labels = labels
          BY <3>2, <4>2 DEF TypeOK, EventsOf
        <5>. QED  BY <3>1, <3>2, <4>2, <5>1 DEF Match
      <4>. QED  BY <4>1, <4>2
    <3>. QED  BY <1>1, <3>1, <3>2 DEF MismatchIsTemporary, Match
  <2>4. CASE HandleOne
    BY <1>1, <2>4 DEF TypeOK, EventsOf, SessionInv, MismatchIsTemporary, HandleOne, Handle
  <2>. QED  BY <2>1, <2>2, <2>3, <2>4, <2>5 DEF SessionStep
<1>. QED  BY <1>3, <1>4, <1>5, <1>6, <1>7

LEMMA SidecarNextInv == SidecarInv /\ [Next]_vars => SidecarInv'
<1>1. SidecarInv /\ UNCHANGED vars => SidecarInv'
  <2>. SUFFICES ASSUME SidecarInv, UNCHANGED vars PROVE SidecarInv'
    OBVIOUS
  <2>. USE DEF SidecarInv, vars, fileVars, readerVars, eventVars
  <2>1. TypeOK' /\ StartInv' /\ ReadInv'
    BY DEF TypeOK, EventsOf, StartInv, ReadInv
  <2>2. LabelInv' /\ SessionInv' /\ MismatchIsTemporary'
    BY DEF LabelInv, SessionInv, MismatchIsTemporary, WithPodName, Effective, Merge
  <2>. QED  BY <2>1, <2>2
<1>. QED  BY <1>1, EditorInv, MainInv, ReaderInv, SessionStepInv DEF Next, SessionStep

\* The invariant of the file, its reader, Watch and the sessions, on which the
\* next theorems rest.
THEOREM SidecarInvariance == Spec => []SidecarInv
<1>. QED  BY SidecarInitInv, SidecarNextInv, PTL DEF Spec

\* Every variable of the sidecar stays in its domain, for any contents of the file
\* and any number of edits.
THEOREM SidecarTypeCorrect == Spec => []TypeOK
<1>1. SidecarInv => TypeOK
  BY DEF SidecarInv
<1>. QED  BY <1>1, SidecarInvariance, PTL

\* When the goroutine of watchLabelsFile (common.go:142) and the one that resets
\* the labels (watch.go:121) are at rest, a change of the file that was noticed has
\* become the labels of the subscriber, under conf.Labels and the app's as they win.
THEOREM RestCorrect == Spec => []RestMeansApplied
<1>1. SidecarInv => RestMeansApplied
  BY DEF SidecarInv, ReadInv, LabelInv, RestMeansApplied, Noticed, Applied
<1>. QED  BY <1>1, SidecarInvariance, PTL

\* A release handled for other labels than the subscriber's is made up for: what
\* OnReleaseChange (client/watch.go:270) ignores, the session that follows sends.
THEOREM MismatchCorrect == Spec => []MismatchIsTemporary
<1>1. SidecarInv => MismatchIsTemporary
  BY DEF SidecarInv
<1>. QED  BY <1>1, SidecarInvariance, PTL

-----------------------------------------------------------------------------
(* Sidecar uses the session that Watcher implements *)

Interface == INSTANCE Session WITH
  NotYet <- Nothing,
  notifying <- main = "notify",
  asked <- signal = TRUE \/ main = "start",
  served <- session

\* The sidecar, which has the session in one step, does with it what Session
\* allows; WatcherProofs shows that the watcher keeps what Session promises.
THEOREM SessionUsed == Spec => Interface!Spec
<1>1. Init => Interface!Init
  BY DEF Init, Interface!Init
<1>2. SidecarInv /\ [Next]_vars => [Interface!Next]_(Interface!interface)
  <2>. SUFFICES ASSUME SidecarInv, [Next]_vars PROVE [Interface!Next]_(Interface!interface)
    OBVIOUS
  <2>. USE DEF fileVars, readerVars, eventVars
  <2>1. ASSUME UNCHANGED <<main, labels, signal, session>> PROVE UNCHANGED Interface!interface
    BY <2>1 DEF Interface!interface
  <2>2. CASE Editor \/ Reader \/ Publish \/ Receive \/ MatchOne \/ HandleOne \/ UNCHANGED vars
    BY <2>1, <2>2 DEF Editor, Write, Replace, Delete, Reader, TakeEvent, ReadFile, Publish, Receive,
                      MatchOne, Match, HandleOne, Handle, vars
  <2>3. CASE ReadConf \/ Refine \/ WatchFile \/ ReceiveFailure
    BY <2>3 DEF ReadConf, Refine, WatchFile, ReceiveFailure, Interface!interface
  <2>4. CASE NewClient
    <3>1. Interface!Configure
      BY <2>4 DEF NewClient, SidecarInv, StartInv, Interface!Configure
    <3>. QED  BY <3>1 DEF Interface!Next
  <2>5. CASE StartWatch \/ Reconnect
    <3>1. Interface!Serve
      BY <2>5 DEF StartWatch, Reconnect, SidecarInv, StartInv, TypeOK, Interface!Serve
    <3>. QED  BY <3>1 DEF Interface!Next
  <2>6. CASE ReceiveLabels
    <3>1. Interface!SetLabels
      BY <2>6 DEF ReceiveLabels, Interface!SetLabels
    <3>. QED  BY <3>1 DEF Interface!Next
  <2>7. CASE Notify
    <3>1. Interface!Notify
      BY <2>7 DEF Notify, Interface!Notify
    <3>. QED  BY <3>1 DEF Interface!Next
  <2>8. CASE Disturb
    <3>1. Interface!Ask
      BY <2>8 DEF Disturb, Interface!Ask
    <3>. QED  BY <3>1 DEF Interface!Next
  <2>. QED  BY <2>2, <2>3, <2>4, <2>5, <2>6, <2>7, <2>8 DEF Next, Main
<1>. QED  BY SidecarInvariance, <1>1, <1>2, PTL DEF Spec, Interface!Spec
=============================================================================
