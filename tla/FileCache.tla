------------------------------ MODULE FileCache ------------------------------
(***************************************************************************)
(* The file cache (internal/cache/cache.go) as SaveToFile and GetContent   *)
(* of a configuration file use it (client/types.go).  The directory holds  *)
(* one file per content, named by its SHA256.  A goroutine that wants the  *)
(* content hashes that file; if it is missing or wrong it is downloaded    *)
(* in place (SaveToFile only), and then it is opened again and copied.     *)
(* Whatever fails on this way is made good by a download that leaves the   *)
(* cache alone.  Nothing is locked: goroutines that want the same content, *)
(* of one release or of several applications, the tasks of the P2P agent   *)
(* and the cleanup all work on the same name.                              *)
(*                                                                         *)
(* With P2P the agent writes <directory>/<signature>, which here is the    *)
(* cache file itself: the rename of async.go:82 does nothing, and a task   *)
(* that nobody waits for any more may open the file, and empty it, at any  *)
(* later time.  When P2P fails the saver downloads by HTTP.                *)
(*                                                                         *)
(* This module is about one name.  A file is a set of blocks, read in      *)
(* order and written in any; the name refers to a file or to none, and a   *)
(* file whose name was removed can still be read and written.  A content   *)
(* above a tenth of the threshold is never cached and not considered here. *)
(***************************************************************************)
EXTENDS Integers

CONSTANTS
  Savers,    \* goroutines that want the content
  Tasks,     \* tasks of the P2P agent (bound: alive at one time)
  NoTask,    \* none of them
  Blocks,    \* the number of blocks of the content
  MaxFiles   \* bound: files made under the name

ASSUME FileCacheAssumption ==
  Blocks \in Nat \ {0} /\ MaxFiles \in Nat \ {0} /\ NoTask \notin Tasks

VARIABLES
  entry,      \* the file the name refers to
  made,       \* how many files were made
  data,       \* the blocks each file has
  pc,         \* where each saver is
  kind,       \* what it runs: SaveToFile or GetContent
  fd,         \* the file it has open
  pos,        \* the block it reads next
  seen,       \* the blocks it has read; in the end, those it has got
  written,    \* the blocks it has downloaded to the cache
  waits,      \* the task it waits for
  task,       \* the state of each task
  target,     \* the file a task has open
  sent,       \* the blocks it has written
  disturbed   \* history: somebody else has emptied the cache file since the
              \* saver began to hash it, to verify it or to download it

disk    == <<entry, made, data>>
reading == <<fd, pos, seen>>
agent   == <<task, target, sent>>
vars    == <<disk, pc, kind, reading, written, waits, agent, disturbed>>

NoFile == 0
Files == 1..MaxFiles
All == 1..Blocks

\* The steps of CopyToFile and GetFileContent: checkFileCacheExists, the download
\* by P2P and by HTTP, and the copy.  Where a saver relies on the cache file:
Relying == {"check", "verify", "download", "open", "copy"}
InCache == Relying \cup {"hash", "miss", "await", "refetch"}

TypeOK ==
  /\ entry \in 0..made /\ made \in 0..MaxFiles
  /\ data \in [Files -> SUBSET All]
  /\ pc \in [Savers -> InCache \cup {"idle", "fallback", "ok", "error"}]
  /\ kind \in [Savers -> {"save", "get"}]
  /\ fd \in [Savers -> 0..made] /\ pos \in [Savers -> 1..(Blocks + 1)]
  /\ seen \in [Savers -> SUBSET All] /\ written \in [Savers -> SUBSET All]
  /\ waits \in [Savers -> Tasks \cup {NoTask}]
  /\ task \in [Tasks -> {"none", "created", "writing", "success", "failed"}]
  /\ target \in [Tasks -> 0..made] /\ sent \in [Tasks -> SUBSET All]
  /\ disturbed \in [Savers -> BOOLEAN]
  /\ \A s \in Savers : /\ pc[s] \in {"check", "verify", "download", "copy"} => fd[s] # NoFile
                       /\ pc[s] = "await" <=> waits[s] # NoTask
  /\ \A t \in Tasks : task[t] = "writing" => target[t] # NoFile

\* An earlier process may have left the file, whole or not.
Init ==
  /\ made \in 0..1 /\ entry = made
  /\ data \in [Files -> SUBSET All] /\ \A f \in Files : f > made => data[f] = {}
  /\ pc = [s \in Savers |-> "idle"] /\ kind = [s \in Savers |-> "save"]
  /\ fd = [s \in Savers |-> NoFile] /\ pos = [s \in Savers |-> 1]
  /\ seen = [s \in Savers |-> {}] /\ written = [s \in Savers |-> {}]
  /\ waits = [s \in Savers |-> NoTask]
  /\ task = [t \in Tasks |-> "none"] /\ target = [t \in Tasks |-> NoFile]
  /\ sent = [t \in Tasks |-> {}]
  /\ disturbed = [s \in Savers |-> FALSE]

Goto(s, from, to) == pc[s] = from /\ pc' = [pc EXCEPT ![s] = to]

\* Open the file and read it from the start.
OpenToRead(s) ==
  /\ fd' = [fd EXCEPT ![s] = entry]
  /\ pos' = [pos EXCEPT ![s] = 1] /\ seen' = [seen EXCEPT ![s] = {}]

\* What it has open is closed.
CloseAll(s) ==
  /\ fd' = [fd EXCEPT ![s] = NoFile] /\ pos' = [pos EXCEPT ![s] = 1]
  /\ seen' = [seen EXCEPT ![s] = {}] /\ written' = [written EXCEPT ![s] = {}]

\* Open for writing with O_CREATE and O_TRUNC: the file of that name, or a new one.
OpenToWrite ==
  /\ entry # NoFile \/ made < MaxFiles
  /\ made' = IF entry = NoFile THEN made + 1 ELSE made
  /\ entry' = IF entry = NoFile THEN made + 1 ELSE entry
  /\ data' = [data EXCEPT ![entry'] = {}]

Trust(s) == disturbed' = [disturbed EXCEPT ![s] = FALSE]
Emptied(o) == disturbed[o] \/ pc[o] \in Relying

EndOfFile(s) == \A b \in data[fd[s]] : b < pos[s]

\* Where a saver goes that does not find the content in the cache.
Missed(s) == IF kind[s] = "save" THEN "miss" ELSE "fallback"

-----------------------------------------------------------------------------
(* Plausible mistakes in the actions below *)

CheckDoneUnhashed(s) ==      \* a file that exists is a hit
  /\ Goto(s, "check", "open")
  /\ EndOfFile(s)
  /\ CloseAll(s)
  /\ UNCHANGED <<disk, kind, waits, agent, disturbed>>

-----------------------------------------------------------------------------
(* checkFileCacheExists *)

Begin(s, k) ==
  /\ Goto(s, "idle", IF entry # NoFile THEN "hash" ELSE IF k = "save" THEN "miss" ELSE "fallback")
  /\ kind' = [kind EXCEPT ![s] = k]
  /\ UNCHANGED <<disk, reading, written, waits, agent, disturbed>>

\* FileSHA256 opens the file, which the cleanup may have removed since.
Hash(s) ==
  /\ entry # NoFile
  /\ Goto(s, "hash", "check")
  /\ OpenToRead(s) /\ Trust(s)
  /\ UNCHANGED <<disk, kind, written, waits, agent>>

\* One block; where a file has a hole zeros are read.
Read(s) ==
  /\ pc[s] \in {"check", "verify", "copy"} /\ ~EndOfFile(s)
  /\ seen' = [seen EXCEPT ![s] = @ \cup ({pos[s]} \cap data[fd[s]])]
  /\ pos' = [pos EXCEPT ![s] = @ + 1]
  /\ UNCHANGED <<disk, pc, kind, fd, written, waits, agent, disturbed>>

CheckDone(s) ==
  /\ Goto(s, "check", IF seen[s] = All THEN "open" ELSE Missed(s))
  /\ EndOfFile(s)
  /\ CloseAll(s)
  /\ UNCHANGED <<disk, kind, waits, agent, disturbed>>

-----------------------------------------------------------------------------
(* CopyToFile: download to the cache by P2P, or by HTTP at once or if that fails *)

\* The server makes a task for <directory>/<signature>.
Order(s) ==
  /\ Goto(s, "miss", "await")
  /\ \E t \in Tasks :
       /\ task[t] = "none" /\ task' = [task EXCEPT ![t] = "created"]
       /\ waits' = [waits EXCEPT ![s] = t]
  /\ UNCHANGED <<disk, kind, reading, written, target, sent, disturbed>>

\* The file is moved to itself, and then verifyChecksum opens it.
Verify(s) ==
  /\ entry # NoFile
  /\ Goto(s, "await", "verify") /\ task[waits[s]] = "success"
  /\ waits' = [waits EXCEPT ![s] = NoTask]
  /\ OpenToRead(s) /\ Trust(s)
  /\ UNCHANGED <<disk, kind, written, agent>>

VerifyDone(s) ==
  /\ Goto(s, "verify", IF seen[s] = All THEN "open" ELSE "refetch")
  /\ EndOfFile(s)
  /\ CloseAll(s)
  /\ UNCHANGED <<disk, kind, waits, agent, disturbed>>

\* The task failed or took ten minutes, a call failed, or the file is not there.
AwaitFails(s) ==
  /\ Goto(s, "await", "refetch")
  /\ waits' = [waits EXCEPT ![s] = NoTask]
  /\ UNCHANGED <<disk, kind, reading, written, agent, disturbed>>

DownloadBegin(s) ==
  /\ Goto(s, pc[s], "download") /\ pc[s] \in {"miss", "refetch"}
  /\ OpenToWrite
  /\ fd' = [fd EXCEPT ![s] = entry']
  /\ written' = [written EXCEPT ![s] = {}]
  /\ disturbed' = [o \in Savers |-> o # s /\ Emptied(o)]
  /\ UNCHANGED <<kind, pos, seen, waits, agent>>

DownloadWrite(s, b) ==
  /\ pc[s] = "download" /\ b \notin written[s]
  /\ data' = [data EXCEPT ![fd[s]] = @ \cup {b}]
  /\ written' = [written EXCEPT ![s] = @ \cup {b}]
  /\ UNCHANGED <<entry, made, pc, kind, reading, waits, agent, disturbed>>

DownloadDone(s) ==
  /\ written[s] = All
  /\ Goto(s, "download", "open")
  /\ CloseAll(s)
  /\ UNCHANGED <<disk, kind, waits, agent, disturbed>>

-----------------------------------------------------------------------------
(* Copy, or read, what the name refers to by now *)

CopyOpen(s) ==
  /\ entry # NoFile
  /\ Goto(s, "open", "copy")
  /\ OpenToRead(s)
  /\ UNCHANGED <<disk, kind, written, waits, agent, disturbed>>

\* The end of the file is no error, wherever it is.
CopyDone(s) ==
  /\ Goto(s, "copy", "ok")
  /\ EndOfFile(s)
  /\ UNCHANGED <<disk, kind, reading, written, waits, agent, disturbed>>

\* A missing file, a failed HTTP download or an I/O error: it is logged, and the
\* caller downloads without the cache.
GiveUp(s) ==
  /\ pc[s] \in InCache \ {"await", "verify"}
  /\ pc' = [pc EXCEPT ![s] = "fallback"]
  /\ CloseAll(s)
  /\ UNCHANGED <<disk, kind, waits, agent, disturbed>>

Fallback(s) ==
  \/ /\ Goto(s, "fallback", "ok") /\ seen' = [seen EXCEPT ![s] = All]
     /\ UNCHANGED <<disk, kind, fd, pos, written, waits, agent, disturbed>>
  \/ /\ Goto(s, "fallback", "error")
     /\ UNCHANGED <<disk, kind, reading, written, waits, agent, disturbed>>

\* The caller goes on; or the process is killed, here or anywhere.  The agent,
\* which is a process of its own, does not notice.
Leave(s) ==
  /\ pc[s] # "idle" /\ pc' = [pc EXCEPT ![s] = "idle"]
  /\ CloseAll(s) /\ Trust(s)
  /\ kind' = [kind EXCEPT ![s] = "save"] /\ waits' = [waits EXCEPT ![s] = NoTask]
  /\ UNCHANGED <<disk, agent>>

-----------------------------------------------------------------------------
(* The agent, external: it may be slow, stop, or fail at any point *)

AgentOpen(t) ==
  /\ task[t] = "created" /\ task' = [task EXCEPT ![t] = "writing"]
  /\ OpenToWrite
  /\ target' = [target EXCEPT ![t] = entry']
  /\ disturbed' = [o \in Savers |-> Emptied(o)]
  /\ UNCHANGED <<pc, kind, reading, written, waits, sent>>

AgentWrite(t, b) ==
  /\ task[t] = "writing" /\ b \notin sent[t]
  /\ data' = [data EXCEPT ![target[t]] = @ \cup {b}]
  /\ sent' = [sent EXCEPT ![t] = @ \cup {b}]
  /\ UNCHANGED <<entry, made, pc, kind, reading, written, waits, task, target, disturbed>>

AgentEnd(t) ==
  /\ \/ task[t] = "writing" /\ sent[t] = All /\ task' = [task EXCEPT ![t] = "success"]
     \/ task[t] \in {"created", "writing"} /\ task' = [task EXCEPT ![t] = "failed"]
  /\ target' = [target EXCEPT ![t] = NoFile] /\ sent' = [sent EXCEPT ![t] = {}]
  /\ UNCHANGED <<disk, pc, kind, reading, written, waits, disturbed>>

\* A task that has ended and that nobody waits for is as good as none.
AgentForget(t) ==
  /\ task[t] \in {"success", "failed"} /\ \A s \in Savers : waits[s] # t
  /\ task' = [task EXCEPT ![t] = "none"]
  /\ UNCHANGED <<disk, pc, kind, reading, written, waits, target, sent, disturbed>>

-----------------------------------------------------------------------------
\* The directory is above its threshold, and the file is among the oldest.
Cleanup ==
  /\ entry # NoFile /\ entry' = NoFile
  /\ UNCHANGED <<made, data, pc, kind, reading, written, waits, agent, disturbed>>

Next ==
  \/ \E s \in Savers :
       \/ \E k \in {"save", "get"} : Begin(s, k)
       \/ Hash(s) \/ Read(s) \/ CheckDone(s)
       \/ Order(s) \/ Verify(s) \/ VerifyDone(s) \/ AwaitFails(s)
       \/ DownloadBegin(s) \/ (\E b \in All : DownloadWrite(s, b)) \/ DownloadDone(s)
       \/ CopyOpen(s) \/ CopyDone(s)
       \/ GiveUp(s) \/ Fallback(s) \/ Leave(s)
  \/ \E t \in Tasks :
       AgentOpen(t) \/ (\E b \in All : AgentWrite(t, b)) \/ AgentEnd(t) \/ AgentForget(t)
  \/ Cleanup

Spec == Init /\ [][Next]_vars

-----------------------------------------------------------------------------
(* Properties *)

\* What SaveToFile or GetContent returns with success is the whole content,
\* although the file may have been torn by a download that was killed or failed,
\* tasks of the agent that were given up still write to it, and the cleanup may
\* remove it at any step.  The one way to a torn copy that is taken for a good one
\* is that the cache file is emptied after the saver began to hash, verify or
\* download it: by another download, or by a task that nobody waits for in time.
TornOnlyByRival ==
  \A s \in Savers : pc[s] = "ok" /\ ~disturbed[s] => seen[s] = All
=============================================================================
