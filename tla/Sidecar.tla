------------------------------- MODULE Sidecar --------------------------------
(***************************************************************************)
(* How the labels file of the sidecar reaches the releases it handles:     *)
(* reading the configuration (internal/config/config.go), watching the     *)
(* file (cmd/bscp/common.go), resetting the labels (cmd/bscp/watch.go,     *)
(* client.ResetLabels), and the filter on release events                   *)
(* (client/watch.go:289).                                                  *)
(*                                                                         *)
(* Labels are functions from names to values.  The file is read three      *)
(* times: into conf.Labels, again before it is watched, and whenever       *)
(* fsnotify reports a Write.  A session is one step here (Watcher has its  *)
(* steps), and so is the queue with the callback (Subscriber).  External:  *)
(* the editor of the file; inotify, which merges an event with an equal    *)
(* one before it that has not been read; and the server, which sends a     *)
(* session the release for its labels when it begins and at any time.      *)
(***************************************************************************)
EXTENDS Integers, Sequences, SequencesExt

CONSTANTS
  Contents,   \* the labels the file may hold
  Given,      \* labels from the options and the environment
  Defaults,   \* labels set when nothing else has (setDefaultLabels)
  PodName,    \* the label pod_name with its value
  AppLabels,  \* labels of the watched app
  Bad,        \* the file cannot be parsed
  Absent,     \* there is no file
  Nothing,    \* no labels yet
  Failure,    \* a message with an error
  MaxEdits    \* bound: edits of the file

ASSUME SidecarAssumption ==
  /\ MaxEdits \in Nat
  /\ {Bad, Absent, Nothing, Failure} \cap Contents = {}

VARIABLES
  file,     \* what the file holds
  edits,    \* number of edits
  inotify,  \* events that have not been read
  watching, \* the directory is watched
  reader,   \* where the goroutine of watchLabelsFile is
  old,      \* its oldLabels
  msg,      \* what it sends on reloadChan
  seen,     \* history: the edits it knew when it read the file last
  main,     \* where Watch is
  base,     \* conf.Labels, without pod_name
  labels,   \* subscriber.Labels
  signal,   \* a signal is in reconnectChan
  session,  \* the labels of the watch session
  stream,   \* a release for these labels is on its way
  events,   \* goroutines of OnReleaseChange
  handled,  \* the labels of the release handled last
  late      \* history: that release was received in an earlier session

fileVars   == <<file, edits>>
readerVars == <<inotify, watching, reader, old, msg, seen>>
eventVars  == <<session, stream, events, handled, late>>
vars == <<fileVars, readerVars, main, base, labels, signal, eventVars>>

EventsOf(L) == [labels : {L}, at : {"spawned", "matched"}, older : BOOLEAN]

TypeOK ==
  /\ file \in Contents \cup {Bad, Absent} /\ edits \in 0..MaxEdits
  /\ inotify \in Seq({"Write", "Create", "Remove"}) /\ Len(inotify) <= MaxEdits
  /\ reader \in {"none", "select", "read", "send"} /\ seen \in 0..MaxEdits
  /\ old \in Contents \cup {Nothing, <<>>} /\ msg \in Contents \cup {Nothing, Failure}
  /\ main \in {"conf", "refine", "watch", "client", "start", "serve", "notify", "exited"}
  /\ \A e \in events : e \in EventsOf(e.labels)
  /\ watching \in BOOLEAN /\ signal \in BOOLEAN /\ stream \in BOOLEAN /\ late \in BOOLEAN

Init ==
  /\ file \in Contents \cup {Bad, Absent} /\ edits = 0
  /\ inotify = <<>> /\ watching = FALSE /\ reader = "none" /\ old = Nothing
  /\ msg = Nothing /\ seen = 0
  /\ main = "conf" /\ base = Nothing /\ labels = Nothing /\ signal = FALSE
  /\ session = Nothing /\ stream = FALSE /\ events = {} /\ handled = Nothing
  /\ late = FALSE

\* MergeLabels: the latter overwrites the former.
Merge(f, g) == [k \in DOMAIN f \cup DOMAIN g |-> IF k \in DOMAIN g THEN g[k] ELSE f[k]]

\* readLabelsFile, of a file that can be parsed.
FileLabels == IF file = Absent THEN <<>> ELSE file

\* updateConfLabels.
ConfLabels == Merge(Defaults, Merge(Given, FileLabels))

\* conf.Labels from line 85 of watch.go on.
WithPodName(conf) == Merge(conf, PodName)

\* Labels of a subscriber: those of the app overwrite those of the client.
Effective(conf, fromFile) == Merge(Merge(conf, fromFile), AppLabels)

-----------------------------------------------------------------------------
(* Plausible mistakes in the actions below *)

NotifyLost ==                \* ResetLabels without a signal
  /\ main = "notify" /\ main' = "serve"
  /\ UNCHANGED <<fileVars, readerVars, base, labels, signal, eventVars>>

MergeSwapped ==              \* conf.Labels overwrite those of the file
  /\ main = "serve" /\ reader = "send" /\ msg # Failure
  /\ labels' = Effective(msg, WithPodName(base))
  /\ main' = "notify" /\ reader' = "select" /\ old' = msg /\ msg' = Nothing
  /\ UNCHANGED <<fileVars, inotify, watching, seen, base, signal, eventVars>>

OldFirst ==                  \* oldLabels keeps what was read first
  /\ main = "serve" /\ reader = "send" /\ msg # Failure
  /\ labels' = Effective(WithPodName(base), msg)
  /\ main' = "notify" /\ reader' = "select" /\ msg' = Nothing
  /\ UNCHANGED <<fileVars, inotify, watching, old, seen, base, signal, eventVars>>

-----------------------------------------------------------------------------
(* The file, external *)

\* inotify tells of a change if the directory is watched.
Tell(e) ==
  inotify' = IF ~watching \/ (inotify # <<>> /\ Last(inotify) = e) THEN inotify
             ELSE Append(inotify, e)

Edited == edits < MaxEdits /\ edits' = edits + 1

\* Truncated or written in place: what is there in between is a content too.
Write(c) ==
  /\ Edited /\ file # Absent /\ file' = c
  /\ Tell("Write")
  /\ UNCHANGED <<watching, reader, old, msg, seen, main, base, labels, signal, eventVars>>

\* Another file is renamed to this name, or a new one is created.
Replace(c) ==
  /\ Edited /\ file' = c
  /\ Tell("Create")
  /\ UNCHANGED <<watching, reader, old, msg, seen, main, base, labels, signal, eventVars>>

Delete ==
  /\ Edited /\ file # Absent /\ file' = Absent
  /\ Tell("Remove")
  /\ UNCHANGED <<watching, reader, old, msg, seen, main, base, labels, signal, eventVars>>

Editor == Delete \/ \E c \in Contents \cup {Bad} : Write(c) \/ Replace(c)

-----------------------------------------------------------------------------
(* Watch, in the main goroutine *)

\* initConf, and the exit when the file cannot be read.
ReadConf ==
  /\ main = "conf"
  /\ IF file = Bad THEN main' = "exited" /\ base' = base
                   ELSE main' = "refine" /\ base' = ConfLabels
  /\ UNCHANGED <<fileVars, readerVars, labels, signal, eventVars>>

\* refineLabelsFile reads the file ...
Refine ==
  /\ main = "refine"
  /\ IF file = Bad THEN main' = "exited" /\ UNCHANGED <<old, seen>>
                   ELSE main' = "watch" /\ old' = FileLabels /\ seen' = edits
  /\ UNCHANGED <<fileVars, inotify, watching, reader, msg, base, labels, signal, eventVars>>

\* ... and watches its directory from then on.
WatchFile ==
  /\ main = "watch" /\ main' = "client"
  /\ watching' = TRUE /\ reader' = "select"
  /\ UNCHANGED <<fileVars, inotify, old, msg, seen, base, labels, signal, eventVars>>

\* The first labels are merged before pod_name is added to conf.Labels.
\* The goroutine cannot have changed old: nobody receives its messages yet.
NewClient ==
  /\ main = "client" /\ main' = "start"
  /\ labels' = Effective(base, old)
  /\ UNCHANGED <<fileVars, readerVars, base, signal, eventVars>>

StartWatch ==
  /\ main = "start" /\ main' = "serve"
  /\ session' = labels /\ stream' = TRUE
  /\ UNCHANGED <<fileVars, readerVars, base, labels, signal, events, handled, late>>

\* The goroutine at the end of Watch: ResetLabels sets the labels ...
ReceiveLabels ==
  /\ main = "serve" /\ reader = "send" /\ msg # Failure
  /\ labels' = Effective(WithPodName(base), msg)
  /\ main' = "notify" /\ reader' = "select" /\ old' = msg /\ msg' = Nothing
  /\ UNCHANGED <<fileVars, inotify, watching, seen, base, signal, eventVars>>

\* ... and then sends the signal, which is dropped if there is one already.
Notify ==
  /\ main = "notify" /\ main' = "serve"
  /\ signal' = TRUE
  /\ UNCHANGED <<fileVars, readerVars, base, labels, eventVars>>

ReceiveFailure ==
  /\ main = "serve" /\ reader = "send" /\ msg = Failure
  /\ reader' = "select" /\ msg' = Nothing
  /\ UNCHANGED <<fileVars, inotify, watching, old, seen, main, base, labels, signal,
                 eventVars>>

Main == ReadConf \/ Refine \/ WatchFile \/ NewClient \/ StartWatch \/ ReceiveLabels
          \/ Notify \/ ReceiveFailure

-----------------------------------------------------------------------------
(* watchLabelsFile, in its goroutine *)

\* Only a Write counts.
TakeEvent ==
  /\ reader = "select" /\ inotify # <<>>
  /\ inotify' = Tail(inotify)
  /\ reader' = IF Head(inotify) = "Write" THEN "read" ELSE "select"
  /\ UNCHANGED <<fileVars, watching, old, msg, seen, main, base, labels, signal, eventVars>>

\* The file is read as it is by now.
ReadFile ==
  /\ reader = "read"
  /\ seen' = edits
  /\ IF file \in {Bad, Absent} THEN msg' = Failure /\ reader' = "send"
     ELSE IF file = old THEN msg' = msg /\ reader' = "select"
     ELSE msg' = file /\ reader' = "send"
  /\ UNCHANGED <<fileVars, inotify, watching, old, main, base, labels, signal, eventVars>>

Reader == TakeEvent \/ ReadFile

-----------------------------------------------------------------------------
(* The session and its events *)

\* Anything that makes the watcher reconnect.
Disturb ==
  /\ session # Nothing /\ signal = FALSE
  /\ signal' = TRUE
  /\ UNCHANGED <<fileVars, readerVars, main, base, labels, eventVars>>

Reconnect ==
  /\ signal = TRUE /\ session # Nothing
  /\ signal' = FALSE
  /\ session' = labels /\ stream' = TRUE
  /\ events' = {[e EXCEPT !.older = TRUE] : e \in events}
  /\ UNCHANGED <<fileVars, readerVars, main, base, labels, handled, late>>

\* A release is published for the labels of the session; bound: no event of the
\* session is under way.
Publish ==
  /\ session # Nothing /\ stream = FALSE /\ \A e \in events : e.older = TRUE
  /\ stream' = TRUE
  /\ UNCHANGED <<fileVars, readerVars, main, base, labels, signal, session, events, handled, late>>

\* The receive loop spawns a goroutine for the event.
Receive ==
  /\ stream = TRUE /\ stream' = FALSE
  /\ events' = events \cup {[labels |-> session, at |-> "spawned", older |-> FALSE]}
  /\ UNCHANGED <<fileVars, readerVars, main, base, labels, signal, session, handled, late>>

\* OnReleaseChange: an event for other labels is ignored.
Match(e) ==
  /\ e.at = "spawned"
  /\ events' = (events \ {e}) \cup
       IF e.labels = labels THEN {[e EXCEPT !.at = "matched"]} ELSE {}
  /\ UNCHANGED <<fileVars, readerVars, main, base, labels, signal, session, stream, handled, late>>

Handle(e) ==
  /\ e.at = "matched"
  /\ events' = events \ {e}
  /\ handled' = e.labels /\ late' = e.older
  /\ UNCHANGED <<fileVars, readerVars, main, base, labels, signal, session, stream>>

MatchOne == \E e \in events : Match(e)
HandleOne == \E e \in events : Handle(e)

Next == Editor \/ Main \/ Reader \/ Disturb \/ Reconnect \/ Publish \/ Receive
          \/ MatchOne \/ HandleOne

Spec == Init /\ [][Next]_vars

\* Goroutines run, calls return, and a session that was asked for begins.  The
\* editor, disturbances and further releases are left open.
FairSpec ==
  /\ Spec
  /\ WF_vars(Main) /\ WF_vars(Reader) /\ WF_vars(Reconnect) /\ WF_vars(Receive)
  /\ WF_vars(MatchOne) /\ WF_vars(HandleOne)

-----------------------------------------------------------------------------
(* Properties *)

\* The file has labels, and the last change of it was seen or will be: it was
\* made before the second reading, or in place while the directory is watched.
\* A change between that reading and the watch, and a file that is replaced as
\* a whole, are not noticed until the next write.
WriteWaits == reader = "read" \/ \E i \in DOMAIN inotify : inotify[i] = "Write"
Noticed == file \in Contents /\ (seen = edits \/ WriteWaits)

\* The labels of the subscriber are those of the file over conf.Labels, which
\* has the labels that the file had at the start: they stay when they are
\* removed from the file.  The first labels lack the pod_name added at the start.
Applied == labels \in {Effective(base, file), Effective(WithPodName(base), file)}

\* Nothing is lost between the goroutine that reads the file and the one that
\* resets the labels, although the first starts long before the second
\* (watch.go:75, 121) and reloadChan has no buffer: when both are at rest, the
\* labels are those of the file.
RestMeansApplied ==
  main = "serve" /\ reader = "select" /\ Noticed /\ ~WriteWaits => Applied

\* While the release handled last is for other labels than the subscriber has, a
\* new one is on its way: the events that OnReleaseChange ignores are made up
\* for by the session that follows.  The exception: a goroutine of an earlier
\* session that found its event to match may be so late that it overwrites the
\* release of the new session.
MismatchIsTemporary ==
  main = "serve" /\ handled # labels =>
    \/ signal \/ late
    \/ session = labels /\ stream
    \/ \E e \in events : e.labels = labels

\* What is written to the file is followed by a release for these labels.
FileIsFollowed ==
  (main = "serve" /\ Noticed /\ edits = MaxEdits) ~> (main = "serve" /\ Noticed /\ Applied /\ (handled = labels \/ late))
=============================================================================
