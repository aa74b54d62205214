------------------------------- MODULE Release -------------------------------
(***************************************************************************)
(* How a release is brought to the disk (client/types.go, Execute and its  *)
(* four steps) and what is remembered of it there (internal/util/eventmeta *)
(* /metadata.go): metadata.json gets a line when the steps are through,    *)
(* changeevent.json when the execution ends, whatever its result.  Watch   *)
(* mode skips an event when the last lines of both say that the release is *)
(* on the disk already (compareRelease).                                   *)
(*                                                                         *)
(* One execution at a time works on an application's directory: the        *)
(* callbacks of a subscriber are serial, and a pull runs before the        *)
(* sidecar.  The process may be killed at any step.  A pull is a process   *)
(* of its own, and every process may have other match conditions, so mode  *)
(* and match are chosen anew with each execution.  Of the two files only   *)
(* the last line counts; a line is written by one write call, so it is     *)
(* there or not, but a file that was just created is empty before it.      *)
(***************************************************************************)
EXTENDS Integers

CONSTANTS
  Releases,   \* releases of the application
  Matches,    \* match conditions
  Paths,      \* the files some release has
  Contents,   \* file contents, told apart by their SHA256
  Target,     \* Target[r][m][p]: the content p has in r under m, or Absent
  Converted,  \* the text files whose line breaks are converted after download
  Absent, Torn, NoFile, EmptyFile

MetaLines  == [release : Releases, match : Matches]
EventLines == [release : Releases, status : {"SUCCESS", "FAILED"}]

ASSUME ReleaseAssumption ==
  /\ Target \in [Releases -> [Matches -> [Paths -> Contents \cup {Absent}]]]
  /\ Torn \notin Contents \cup {Absent} /\ Absent \notin Contents
  /\ NoFile # EmptyFile
  /\ {NoFile, EmptyFile} \cap (MetaLines \cup EventLines) = {}

VARIABLES
  files,        \* AppDir/files
  metadata,     \* the last line of metadata.json
  changeevent,  \* the last line of changeevent.json
  pc,           \* where the execution is
  rel, match, mode,  \* the release, conditions and mode of the execution
  todo,         \* the files updateFiles has not begun with
  writing,      \* the files it is writing
  failed,       \* updateFiles has failed on some file
  status,       \* the result to be recorded
  unrecorded,   \* history: the disk changed since a change event was recorded
  torn          \* history: the files a SaveToFile without an error has left torn

job  == <<rel, match, mode>>
work == <<todo, writing, failed>>
vars == <<files, metadata, changeevent, pc, rel, match, mode, todo, writing,
          failed, status, unrecorded, torn>>

TypeOK ==
  /\ files \in [Paths -> Contents \cup {Absent, Torn}]
  /\ metadata \in MetaLines \cup {NoFile, EmptyFile}
  /\ changeevent \in EventLines \cup {NoFile, EmptyFile}
  /\ pc \in {"idle", "compare", "prehook", "files", "clear", "posthook",
             "metaOpen", "metaWrite", "recordOpen", "recordWrite"}
  /\ rel \in Releases /\ match \in Matches /\ mode \in {"pull", "watch"}
  /\ todo \subseteq Paths /\ writing \subseteq Paths /\ failed \in BOOLEAN
  /\ status \in {"SUCCESS", "FAILED"} /\ unrecorded \in BOOLEAN
  /\ torn \subseteq Paths

Init ==
  /\ files = [p \in Paths |-> Absent] /\ metadata = NoFile /\ changeevent = NoFile
  /\ pc = "idle" /\ rel \in Releases /\ match \in Matches /\ mode \in {"pull", "watch"}
  /\ todo = {} /\ writing = {} /\ failed = FALSE
  /\ status = "FAILED" /\ unrecorded = FALSE /\ torn = {}

\* The files of a release, and whether they are on the disk as it has them; what
\* SaveToFile brought torn without an error, Execute cannot know.
Items(r, m)  == {p \in Paths : Target[r][m][p] # Absent}
OnDisk(r, m) == \A p \in Items(r, m) \ torn : files[p] = Target[r][m][p]

\* Execute is left with an error: its deferred function records the failure.
Fail == pc' = "recordOpen" /\ status' = "FAILED"

-----------------------------------------------------------------------------
(* Plausible mistakes in the definitions below *)

SameNoEvent(r, m) ==         \* compareRelease does not look at the change event
  metadata = [release |-> r, match |-> m]

FileKeepAny(p) ==            \* a file is kept when it exists, whatever its SHA256
  /\ pc = "files" /\ p \in todo /\ files[p] # Absent /\ p \notin Converted
  /\ todo' = todo \ {p}
  /\ UNCHANGED <<files, metadata, changeevent, pc, job, writing, failed, status, unrecorded, torn>>

PostHookSkipsMetadata ==     \* the step that appends to metadata.json is left out
  \/ /\ pc = "posthook" /\ pc' = "recordOpen" /\ status' = "SUCCESS"
     /\ UNCHANGED <<files, metadata, changeevent, job, work, unrecorded, torn>>
  \/ /\ pc = "posthook" /\ Fail
     /\ UNCHANGED <<files, metadata, changeevent, job, work, unrecorded, torn>>

-----------------------------------------------------------------------------
(* Execute *)

\* A change event (watch), or a run of the pull command.
Start(r, m, d) ==
  /\ pc = "idle"
  /\ rel' = r /\ match' = m /\ mode' = d
  /\ pc' = IF d = "watch" THEN "compare" ELSE "prehook"
  /\ UNCHANGED <<files, metadata, changeevent, work, status, unrecorded, torn>>

\* The last release that was brought to the disk is r under m, and the last
\* execution was its, with success.
Same(r, m) ==
  /\ metadata = [release |-> r, match |-> m]
  /\ changeevent = [release |-> r, status |-> "SUCCESS"]

\* An empty line cannot be parsed.  changeevent.json is read only when there is
\* a metadata.json.
Unreadable ==
  metadata = EmptyFile \/ (metadata # NoFile /\ changeevent = EmptyFile)

CompareFails ==
  /\ pc = "compare" /\ Unreadable /\ Fail
  /\ UNCHANGED <<files, metadata, changeevent, job, work, unrecorded, torn>>

\* A skipped event is not recorded.
CompareSkips ==
  /\ pc = "compare" /\ ~Unreadable /\ Same(rel, match)
  /\ pc' = "idle"
  /\ UNCHANGED <<files, metadata, changeevent, job, work, status, unrecorded, torn>>

CompareGoes ==
  /\ pc = "compare" /\ ~Unreadable /\ ~Same(rel, match)
  /\ pc' = "prehook"
  /\ UNCHANGED <<files, metadata, changeevent, job, work, status, unrecorded, torn>>

PreHook ==
  /\ pc = "prehook"
  /\ \/ /\ pc' = "files"
        /\ todo' = Items(rel, match) /\ writing' = {} /\ failed' = FALSE
        /\ UNCHANGED status
     \/ Fail /\ UNCHANGED work
  /\ UNCHANGED <<files, metadata, changeevent, job, unrecorded, torn>>

-----------------------------------------------------------------------------
(* updateFiles: one goroutine per file, each runs to its end *)

\* checkFileExists: the SHA256 is right, nothing to download.
FileKeep(p) ==
  /\ pc = "files" /\ p \in todo /\ files[p] = Target[rel][match][p] /\ p \notin Converted
  /\ todo' = todo \ {p}
  /\ UNCHANGED <<files, metadata, changeevent, pc, job, writing, failed, status, unrecorded, torn>>

\* The file is truncated and written in place ...
FileBegin(p) ==
  /\ pc = "files" /\ p \in todo /\ (files[p] # Target[rel][match][p] \/ p \in Converted)
  /\ files' = [files EXCEPT ![p] = Torn]
  /\ todo' = todo \ {p} /\ writing' = writing \cup {p}
  /\ unrecorded' = TRUE /\ torn' = torn \ {p}
  /\ UNCHANGED <<metadata, changeevent, pc, job, failed, status>>

\* SaveToFile brings the content from the downloader or copies it from the file
\* cache, and nobody hashes it again: CopyToFile may have copied a cache file that
\* another saver is writing, and a server may have sent too much (FileCache, Downloader).
FileEnd(p) ==
  /\ pc = "files" /\ p \in writing
  /\ \/ files' = [files EXCEPT ![p] = Target[rel][match][p]] /\ UNCHANGED torn
     \/ torn' = torn \cup {p} /\ UNCHANGED files
  /\ writing' = writing \ {p}
  /\ UNCHANGED <<metadata, changeevent, pc, job, todo, failed, status, unrecorded>>

\* ... or the download fails, before or after the file was opened.  The others go on.
FileFail(p) ==
  /\ pc = "files" /\ p \in todo \cup writing
  /\ todo' = todo \ {p} /\ writing' = writing \ {p} /\ failed' = TRUE
  /\ UNCHANGED <<files, metadata, changeevent, pc, job, status, unrecorded, torn>>

\* g.Wait
FilesDone ==
  /\ pc = "files" /\ todo = {} /\ writing = {}
  /\ \/ /\ ~failed /\ pc' = IF mode = "watch" THEN "clear" ELSE "posthook"
        /\ UNCHANGED status
     \/ failed /\ Fail
  /\ UNCHANGED <<files, metadata, changeevent, job, work, unrecorded, torn>>

-----------------------------------------------------------------------------
(* clearOldFiles, watch mode only, and the last two steps *)

Old == {p \in Paths : files[p] # Absent} \ Items(rel, match)

ClearFile(p) ==
  /\ pc = "clear" /\ p \in Old
  /\ files' = [files EXCEPT ![p] = Absent]
  /\ unrecorded' = TRUE /\ torn' = torn \ {p}
  /\ UNCHANGED <<metadata, changeevent, pc, job, work, status>>

ClearDone ==
  /\ pc = "clear"
  /\ \/ Old = {} /\ pc' = "posthook" /\ UNCHANGED status
     \/ Old # {} /\ Fail
  /\ UNCHANGED <<files, metadata, changeevent, job, work, unrecorded, torn>>

PostHook ==
  /\ pc = "posthook"
  /\ \/ pc' = "metaOpen" /\ UNCHANGED status
     \/ Fail
  /\ UNCHANGED <<files, metadata, changeevent, job, work, unrecorded, torn>>

\* AppendMetadataToFile
MetaOpen ==
  /\ pc = "metaOpen" /\ pc' = "metaWrite"
  /\ metadata' = IF metadata = NoFile THEN EmptyFile ELSE metadata
  /\ UNCHANGED <<files, changeevent, job, work, status, unrecorded, torn>>

MetaWrite ==
  /\ pc = "metaWrite"
  /\ metadata' = [release |-> rel, match |-> match]
  /\ pc' = "recordOpen" /\ status' = "SUCCESS" /\ unrecorded' = TRUE
  /\ UNCHANGED <<files, changeevent, job, work, torn>>

MetaFails ==
  /\ pc \in {"metaOpen", "metaWrite"} /\ Fail
  /\ UNCHANGED <<files, metadata, changeevent, job, work, unrecorded, torn>>

-----------------------------------------------------------------------------
(* RecordChangeEvent, in the function Execute defers *)

RecordOpen ==
  /\ pc = "recordOpen" /\ pc' = "recordWrite"
  /\ changeevent' = IF changeevent = NoFile THEN EmptyFile ELSE changeevent
  /\ UNCHANGED <<files, metadata, job, work, status, unrecorded, torn>>

RecordWrite ==
  /\ pc = "recordWrite" /\ pc' = "idle"
  /\ changeevent' = [release |-> rel, status |-> status]
  /\ unrecorded' = FALSE
  /\ UNCHANGED <<files, metadata, job, work, status, torn>>

\* The error is logged and nothing else.
RecordFails ==
  /\ pc \in {"recordOpen", "recordWrite"} /\ pc' = "idle"
  /\ UNCHANGED <<files, metadata, changeevent, job, work, status, unrecorded, torn>>

Crash ==
  /\ pc # "idle" /\ pc' = "idle"
  /\ todo' = {} /\ writing' = {} /\ failed' = FALSE
  /\ UNCHANGED <<files, metadata, changeevent, job, status, unrecorded, torn>>

-----------------------------------------------------------------------------
UpdateFiles ==
  \/ \E p \in Paths : FileKeep(p) \/ FileBegin(p) \/ FileEnd(p) \/ FileFail(p)
  \/ FilesDone

Execute ==
  \/ CompareFails \/ CompareSkips \/ CompareGoes \/ PreHook \/ UpdateFiles
  \/ (\E p \in Paths : ClearFile(p)) \/ ClearDone
  \/ PostHook \/ MetaOpen \/ MetaWrite \/ MetaFails
  \/ RecordOpen \/ RecordWrite \/ RecordFails

Next ==
  \/ \E r \in Releases, m \in Matches, d \in {"pull", "watch"} : Start(r, m, d)
  \/ Execute
  \/ Crash

Spec == Init /\ [][Next]_vars

-----------------------------------------------------------------------------
(* Properties *)

\* The skip is safe as far as the records go: when both files say that a release
\* is on the disk, it is, with every file as the release has it, through any
\* sequence of failed executions, rollbacks, changes of the match conditions and
\* pulls.  It is only as good as the last record (see SkipIsSound), and one
\* exception is the code's own: a file that SaveToFile has brought torn stays torn.
RecordsAreTrue ==
  \A r \in Releases, m \in Matches : Same(r, m) /\ ~unrecorded => OnDisk(r, m)

\* What is recorded as a success in watch mode is a success: every file of the
\* release is whole, and no file of an older release is left.  The exception is
\* a file that SaveToFile has brought torn and called a success (types.go:106),
\* which nothing in Execute checks: only those files may be wrong.
SuccessIsExact ==
  pc \in {"recordOpen", "recordWrite"} /\ status = "SUCCESS" =>
    /\ OnDisk(rel, match)
    /\ torn \subseteq {p \in Paths : files[p] = Torn}
    /\ mode = "watch" => /\ torn \subseteq Items(rel, match)
                         /\ \A p \in Paths \ torn : files[p] = Target[rel][match][p]

\* The two files agree: the last success recorded is the last release that
\* metadata.json names, unless an execution was cut off in between.
LedgersAgree ==
  changeevent \in EventLines /\ changeevent.status = "SUCCESS" /\ ~unrecorded =>
    metadata \in MetaLines /\ metadata.release = changeevent.release

\* "skip: what is there locally agrees with the release and the match
\* conditions of the event" (types.go:127): a skipped release is on the disk.
SkipIsSound == [][CompareSkips => OnDisk(rel, match)]_vars
=============================================================================
