------------------------------ MODULE Progress --------------------------------
(***************************************************************************)
(* How many files of a release have been saved, as heartbeats report it.   *)
(* The workers of updateFiles (client/types.go:568) add to a counter of    *)
(* the release and then send on SemaphoreCh, which has no buffer; the      *)
(* goroutine of whoever executes the release receives, loads the counter   *)
(* and stores what it loaded:                                              *)
(*   "watch"  into the subscriber (client/watch.go:530), until its context *)
(*            is cancelled at the end of the callback; the next release    *)
(*            has a counter, a channel and a goroutine of its own;         *)
(*   "pull"   back into the counter (cmd/bscp/pull.go:141);                *)
(*   "sdk"    nowhere: the Release that Client.PullFiles returns has no    *)
(*            channel, and a program that sets none has no goroutine.      *)
(***************************************************************************)
EXTENDS Integers, FiniteSets

CONSTANTS
  Files,       \* files of a release
  Limit,       \* updateFileConcurrentLimit
  MaxReleases  \* bound: releases executed, one after the other

ASSUME ProgressAssumption ==
  IsFiniteSet(Files) /\ Limit \in Nat \ {0} /\ MaxReleases \in Nat

VARIABLES
  mode,      \* who executes the releases
  release,   \* number of the release executed last
  phase,     \* where its execution is
  worker,    \* the worker of each file
  num,       \* AppMate.DownloadFileNum of each release
  reader,    \* where the goroutine of each release is
  loaded,    \* what it has loaded
  cancelled, \* releases whose context is done
  shown,     \* DownloadFileNum of the subscriber
  late,      \* history: the goroutine of an earlier release stored last
  overlap    \* history: an add to the counter fell between load and store

progressVars ==
  <<mode, release, phase, worker, num, reader, loaded, cancelled, shown, late, overlap>>

Releases == 1..MaxReleases
Counts == 0..Cardinality(Files)

ProgressTypeOK ==
  /\ mode \in {"watch", "pull", "sdk"} /\ release \in 0..MaxReleases
  /\ phase \in {"idle", "hooks", "files", "after"}
  /\ worker \in [Files -> {"todo", "saving", "sending", "done", "failed"}]
  /\ num \in [Releases -> Counts] /\ loaded \in [Releases -> Counts]
  /\ reader \in [Releases -> {"none", "select", "load", "store", "gone"}]
  /\ cancelled \subseteq Releases /\ shown \in Counts
  /\ {late, overlap} \subseteq BOOLEAN

ProgressInit ==
  /\ mode \in {"watch", "pull", "sdk"} /\ release = 0 /\ phase = "idle"
  /\ worker = [f \in Files |-> "todo"]
  /\ num = [r \in Releases |-> 0] /\ loaded = [r \in Releases |-> 0]
  /\ reader = [r \in Releases |-> "none"] /\ cancelled = {}
  /\ shown = 0 /\ late = FALSE /\ overlap = FALSE

Running == {f \in Files : worker[f] \in {"saving", "sending"}}
Settled == \A f \in Files : worker[f] \in {"done", "failed"}

\* The goroutine of release r writes what it loaded to where its mode says.
Written(r) ==
  IF mode = "pull" THEN num' = [num EXCEPT ![r] = loaded[r]] /\ UNCHANGED <<shown, late>>
  ELSE shown' = loaded[r] /\ late' = (r # release) /\ UNCHANGED num

-----------------------------------------------------------------------------
(* Plausible mistakes in the actions below *)

FailCounted(f) ==            \* a file that could not be saved is added too
  /\ worker[f] = "saving"
  /\ worker' = [worker EXCEPT ![f] = "failed"]
  /\ num' = [num EXCEPT ![release] = @ + 1]
  /\ overlap' = (overlap \/ reader[release] = "store")
  /\ UNCHANGED <<mode, release, phase, reader, loaded, cancelled, shown, late>>

StoreOnce(r) ==              \* the goroutine ends after the first store
  /\ reader[r] = "store" /\ reader' = [reader EXCEPT ![r] = "gone"]
  /\ Written(r)
  /\ UNCHANGED <<mode, release, phase, worker, loaded, cancelled, overlap>>

StopAtOnce(r) ==             \* what was received is dropped when the context ends
  /\ reader[r] \in {"select", "load", "store"} /\ r \in cancelled
  /\ reader' = [reader EXCEPT ![r] = "gone"]
  /\ UNCHANGED <<mode, release, phase, worker, num, loaded, cancelled, shown, late, overlap>>

-----------------------------------------------------------------------------
(* The execution of a release *)

Begin ==
  /\ phase = "idle" /\ release < MaxReleases
  /\ release' = release + 1 /\ phase' = "hooks"
  /\ worker' = [f \in Files |-> "todo"]
  /\ reader' = [reader EXCEPT ![release'] = IF mode = "sdk" THEN "none" ELSE "select"]
  /\ overlap' = FALSE
  /\ UNCHANGED <<mode, num, loaded, cancelled, shown, late>>

\* updateFiles begins with a store of zero.
UpdateFiles ==
  /\ phase = "hooks" /\ phase' = "files"
  /\ num' = [num EXCEPT ![release] = 0]
  /\ UNCHANGED <<mode, release, worker, reader, loaded, cancelled, shown, late, overlap>>

\* g.Go waits while Limit goroutines run.
Take(f) ==
  /\ phase = "files" /\ worker[f] = "todo" /\ Cardinality(Running) < Limit
  /\ worker' = [worker EXCEPT ![f] = "saving"]
  /\ UNCHANGED <<mode, release, phase, num, reader, loaded, cancelled, shown, late, overlap>>

\* A directory or the file cannot be written, or its line breaks not converted: a
\* worker that fails neither counts nor sends, and the others go on.
Fail(f) ==
  /\ worker[f] = "saving"
  /\ worker' = [worker EXCEPT ![f] = "failed"]
  /\ UNCHANGED <<mode, release, phase, num, reader, loaded, cancelled, shown, late, overlap>>

\* The file was there already or has been saved.
Count(f) ==
  /\ worker[f] = "saving"
  /\ worker' = [worker EXCEPT ![f] = "sending"]
  /\ num' = [num EXCEPT ![release] = @ + 1]
  /\ overlap' = (overlap \/ reader[release] = "store")
  /\ UNCHANGED <<mode, release, phase, reader, loaded, cancelled, shown, late>>

\* The channel has no buffer, so the worker and the receiver move together.
Send(f) ==
  /\ worker[f] = "sending" /\ reader[release] = "select"
  /\ worker' = [worker EXCEPT ![f] = "done"]
  /\ reader' = [reader EXCEPT ![release] = "load"]
  /\ UNCHANGED <<mode, release, phase, num, loaded, cancelled, shown, late, overlap>>

\* g.Wait returns.
FilesDone ==
  /\ phase = "files" /\ Settled /\ phase' = "after"
  /\ UNCHANGED <<mode, release, worker, num, reader, loaded, cancelled, shown, late, overlap>>

\* Execute returns: all steps are done, or one failed, be it a hook before the
\* files.  The context of a watched release ends with it; that of pull ends
\* with the program, or when an app has failed.
End ==
  /\ phase \in {"hooks", "after"} /\ phase' = "idle"
  /\ cancelled' = IF mode = "watch" THEN cancelled \cup {release} ELSE cancelled
  /\ UNCHANGED <<mode, release, worker, num, reader, loaded, shown, late, overlap>>

Execution ==
  \/ Begin \/ UpdateFiles \/ FilesDone \/ End
  \/ \E f \in Files : Take(f) \/ Fail(f) \/ Count(f) \/ Send(f)

-----------------------------------------------------------------------------
(* The goroutine that receives *)

Load(r) ==
  /\ reader[r] = "load" /\ reader' = [reader EXCEPT ![r] = "store"]
  /\ loaded' = [loaded EXCEPT ![r] = num[r]]
  /\ UNCHANGED <<mode, release, phase, worker, num, cancelled, shown, late, overlap>>

Store(r) ==
  /\ reader[r] = "store" /\ reader' = [reader EXCEPT ![r] = "select"]
  /\ Written(r)
  /\ UNCHANGED <<mode, release, phase, worker, loaded, cancelled, overlap>>

Stop(r) ==
  /\ reader[r] = "select" /\ r \in cancelled
  /\ reader' = [reader EXCEPT ![r] = "gone"]
  /\ UNCHANGED <<mode, release, phase, worker, num, loaded, cancelled, shown, late, overlap>>

Receiver(r) == Load(r) \/ Store(r) \/ Stop(r)

ProgressNext == Execution \/ \E r \in Releases : Receiver(r)

ProgressSpec == ProgressInit /\ [][ProgressNext]_progressVars

\* Goroutines run, and saving a file and a hook come to an end.
ProgressFairSpec ==
  /\ ProgressSpec
  /\ WF_progressVars(Execution) /\ \A r \in Releases : WF_progressVars(Receiver(r))

-----------------------------------------------------------------------------
(* Properties *)

Counted == {f \in Files : worker[f] \in {"sending", "done"}}
AtRest == \A r \in Releases : reader[r] \notin {"load", "store"}

\* An execution ends, and no worker waits for ever to tell of a file; except
\* where nobody receives: a Release from PullFiles whose SemaphoreCh was left
\* nil blocks in updateFiles (types.go:629) at its first file.
ExecutionEnds == phase = "files" ~> (phase = "after" \/ mode = "sdk")

\* When a release is over and the goroutines are at rest, the subscriber shows
\* how many of its files were saved.  Two exceptions: nothing resets the number
\* when a release begins, so one that saved no file leaves that of the release
\* before; and the goroutine of an earlier release, received a send but not yet
\* stored when its context ended, may store after the later one has.
ShownIsSaved ==
  mode = "watch" /\ phase = "idle" /\ AtRest /\ release > 0 /\ num[release] > 0 =>
    late \/ shown = Cardinality(Counted)

\* Pull reports the number of files saved so far, unless a worker added to the
\* counter between the load and the store of pull's goroutine, which then takes
\* the addition back for good (pull.go:148-151).
PullCountsAll ==
  mode = "pull" /\ phase = "after" /\ ~overlap => num[release] = Cardinality(Counted)
=============================================================================
