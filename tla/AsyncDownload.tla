---------------------------- MODULE AsyncDownload -----------------------------
(***************************************************************************)
(* Downloads through the P2P agent (internal/downloader/async.go) and the  *)
(* fallback to HTTP (downloader.go), for files of equal content that are   *)
(* saved at the same time into one directory (updateFiles, types.go:580).  *)
(*                                                                         *)
(* A saver asks the server for a task, polls it, moves the file that the   *)
(* agent wrote to its target and verifies it.  The agent is external: it   *)
(* writes <directory>/<signature> in place, the same name for every task   *)
(* ("two concurrent tasks download into the same file", cache.go:97), and  *)
(* a task goes on when nobody waits for it any more.  So a file is an      *)
(* object apart from its names: a task that opened it keeps writing to it  *)
(* after it has been moved.                                                *)
(***************************************************************************)
EXTENDS Integers, FiniteSets

CONSTANTS
  Savers,     \* files to save, and the goroutines that save them
  Temp,       \* the name <signature> in the directory of the targets
  MaxTasks,   \* bound: download tasks made
  MaxBlocks,  \* bound: the length of the content
  MaxRestarts \* bound: crashes, each followed by another execution

ASSUME AsyncAssumption ==
  /\ IsFiniteSet(Savers) /\ Temp \notin Savers
  /\ {MaxTasks, MaxBlocks, MaxRestarts} \subseteq Nat

VARIABLES
  pc,        \* where each saver is
  mine,      \* the task each saver waits for
  task,      \* status of each task
  tfd,       \* the file a task has open
  tpos,      \* the blocks a task has written
  hpos,      \* the blocks the HTTP download of a saver has written
  name,      \* the file each name refers to
  blocks,    \* the blocks each file holds
  gaveUp,    \* history: a saver left a task before it had moved the file
  restarts   \* number of crashes

fileVars == <<name, blocks>>
taskVars == <<task, tfd, tpos>>
asyncVars == <<pc, mine, taskVars, hpos, fileVars, gaveUp, restarts>>

TaskIds == 1..MaxTasks
Names == Savers \cup {Temp}
\* One for each name and one for each task: enough for those in use at a time.
Files == 1..(Cardinality(Names) + MaxTasks)
NoTask == 0
NoFile == 0
Whole == 1..MaxBlocks

AsyncTypeOK ==
  /\ pc \in [Savers -> {"start", "waiting", "polling", "moving", "verifying", "fallback", "http",
                        "done", "failed"}]
  /\ mine \in [Savers -> TaskIds \cup {NoTask}]
  /\ task \in [TaskIds -> {"none", "created", "writing", "success", "failed"}]
  /\ tfd \in [TaskIds -> Files \cup {NoFile}] /\ tpos \in [TaskIds -> 0..MaxBlocks]
  /\ hpos \in [Savers -> 0..MaxBlocks]
  /\ name \in [Names -> Files \cup {NoFile}]
  /\ blocks \in [Files -> SUBSET Whole]
  /\ gaveUp \in BOOLEAN /\ restarts \in 0..MaxRestarts

AsyncInit ==
  /\ pc = [s \in Savers |-> "start"] /\ mine = [s \in Savers |-> NoTask]
  /\ task = [t \in TaskIds |-> "none"] /\ tfd = [t \in TaskIds |-> NoFile]
  /\ tpos = [t \in TaskIds |-> 0] /\ hpos = [s \in Savers |-> 0]
  /\ name = [n \in Names |-> NoFile] /\ blocks = [f \in Files |-> {}]
  /\ gaveUp = FALSE /\ restarts = 0

Transition(s, from, to) == pc[s] = from /\ pc' = [pc EXCEPT ![s] = to]

\* Open for writing: the file of that name, or a new one, in either case empty.
Opened(n) ==
  IF name[n] # NoFile THEN name[n]
  ELSE CHOOSE f \in Files : (\A m \in Names : name[m] # f) /\ (\A t \in TaskIds : tfd[t] # f)

OpenTrunc(n) ==
  /\ name' = [name EXCEPT ![n] = Opened(n)]
  /\ blocks' = [blocks EXCEPT ![Opened(n)] = {}]

\* A file that has lost its last name and is open nowhere is gone.
Swept == [f \in Files |-> IF (\E m \in Names : name'[m] = f) \/ (\E t \in TaskIds : tfd'[t] = f)
                           THEN blocks[f] ELSE {}]

HasWhole(n) == name[n] # NoFile /\ blocks[name[n]] = Whole

\* The next task to be made, if the bound allows one.
MakeTask(t) ==
  /\ task[t] = "none" /\ \A u \in 1..(t - 1) : task[u] # "none"
  /\ task' = [task EXCEPT ![t] = "created"]

-----------------------------------------------------------------------------
(* Plausible mistakes in the actions below *)

MoveUnverified(s) ==         \* the moved file is taken as it is
  /\ name[Temp] # NoFile
  /\ Transition(s, "moving", "done")
  /\ name' = [name EXCEPT ![s] = name[Temp], ![Temp] = NoFile]
  /\ UNCHANGED <<mine, taskVars, hpos, gaveUp, restarts>>
  /\ blocks' = Swept

MoveByCopy(s) ==             \* copied, and the temporary file is left
  /\ name[Temp] # NoFile
  /\ Transition(s, "moving", "verifying")
  /\ name' = [name EXCEPT ![s] = Opened(s)]
  /\ blocks' = [blocks EXCEPT ![Opened(s)] = blocks[name[Temp]]]
  /\ UNCHANGED <<mine, taskVars, hpos, gaveUp, restarts>>

NoTimeout(s) ==              \* the wait has no deadline of its own
  /\ Transition(s, "waiting", "fallback")
  /\ task[mine[s]] = "failed"
  /\ mine' = [mine EXCEPT ![s] = NoTask] /\ gaveUp' = TRUE
  /\ UNCHANGED <<taskVars, hpos, fileVars, restarts>>

-----------------------------------------------------------------------------
(* SaveToFile and Download, in the goroutine of saver s *)

\* updateFiles: the target is there already and has the right SHA256.
Skip(s) ==
  /\ HasWhole(s)
  /\ Transition(s, "start", "done")
  /\ UNCHANGED <<mine, taskVars, hpos, fileVars, gaveUp, restarts>>

\* The file is large enough for P2P: a task is made.
CreateTask(s) ==
  /\ ~HasWhole(s)
  /\ \E t \in TaskIds : MakeTask(t) /\ mine' = [mine EXCEPT ![s] = t]
  /\ Transition(s, "start", "waiting")
  /\ UNCHANGED <<tfd, tpos, hpos, fileVars, gaveUp, restarts>>

\* The call fails, before or after the server has made the task; or the file is
\* small or P2P is off, and HTTP is used at once.
CreateFails(s) ==
  /\ ~HasWhole(s)
  /\ Transition(s, "start", "fallback")
  /\ \/ UNCHANGED <<task, gaveUp>>
     \/ (\E t \in TaskIds : MakeTask(t)) /\ gaveUp' = TRUE
  /\ UNCHANGED <<mine, tfd, tpos, hpos, fileVars, restarts>>

\* awaitDownloadCompletion: the ten minutes count between the calls only.  The call
\* has the context of the downloader, which has no deadline (async.go:112).
Poll(s) ==
  /\ Transition(s, "waiting", "polling")
  /\ UNCHANGED <<mine, taskVars, hpos, fileVars, gaveUp, restarts>>

PollSuccess(s) ==
  /\ pc[s] = "polling" /\ task[mine[s]] = "success"
  /\ Transition(s, "polling", "moving")
  /\ mine' = [mine EXCEPT ![s] = NoTask]
  /\ UNCHANGED <<taskVars, hpos, fileVars, gaveUp, restarts>>

PollAgain(s) ==
  /\ pc[s] = "polling" /\ task[mine[s]] \in {"created", "writing"}
  /\ Transition(s, "polling", "waiting")
  /\ UNCHANGED <<mine, taskVars, hpos, fileVars, gaveUp, restarts>>

\* The task has failed, or the status call fails.
PollFails(s) ==
  /\ Transition(s, "polling", "fallback")
  /\ mine' = [mine EXCEPT ![s] = NoTask] /\ gaveUp' = TRUE
  /\ UNCHANGED <<taskVars, hpos, fileVars, restarts>>

\* The ten minutes are over.
GiveUp(s) ==
  /\ Transition(s, "waiting", "fallback")
  /\ mine' = [mine EXCEPT ![s] = NoTask] /\ gaveUp' = TRUE
  /\ UNCHANGED <<taskVars, hpos, fileVars, restarts>>

\* MoveFile: both names are in one directory, so it is a rename.
Move(s) ==
  /\ name[Temp] # NoFile
  /\ Transition(s, "moving", "verifying")
  /\ name' = [name EXCEPT ![s] = name[Temp], ![Temp] = NoFile]
  /\ UNCHANGED <<mine, taskVars, hpos, gaveUp, restarts>>
  /\ blocks' = Swept

\* Another saver has moved the file meanwhile.
MoveFails(s) ==
  /\ name[Temp] = NoFile
  /\ Transition(s, "moving", "fallback")
  /\ UNCHANGED <<mine, taskVars, hpos, fileVars, gaveUp, restarts>>

\* verifyChecksum.  One step will do: nothing empties the file of a target but
\* its own saver, so its blocks only become more while it is read.
Verify(s) ==
  /\ Transition(s, "verifying", IF HasWhole(s) THEN "done" ELSE "fallback")
  /\ UNCHANGED <<mine, taskVars, hpos, fileVars, gaveUp, restarts>>

\* The HTTP download: the target is opened with O_TRUNC and written, or fails.
HttpOpen(s) ==
  /\ Transition(s, "fallback", "http")
  /\ OpenTrunc(s)
  /\ UNCHANGED <<mine, taskVars, hpos, gaveUp, restarts>>

HttpWrite(s) ==
  /\ pc[s] = "http" /\ hpos[s] < MaxBlocks
  /\ hpos' = [hpos EXCEPT ![s] = @ + 1]
  /\ blocks' = [blocks EXCEPT ![name[s]] = @ \cup {hpos'[s]}]
  /\ UNCHANGED <<pc, mine, taskVars, name, gaveUp, restarts>>

HttpEnd(s) ==
  /\ \/ hpos[s] = MaxBlocks /\ Transition(s, "http", "done")
     \/ Transition(s, "http", "failed")
  /\ hpos' = [hpos EXCEPT ![s] = 0]
  /\ UNCHANGED <<mine, taskVars, fileVars, gaveUp, restarts>>

Save(s) ==
  \/ Skip(s) \/ CreateTask(s) \/ CreateFails(s)
  \/ Poll(s) \/ PollSuccess(s) \/ PollAgain(s) \/ PollFails(s) \/ GiveUp(s)
  \/ Move(s) \/ MoveFails(s) \/ Verify(s) \/ HttpOpen(s) \/ HttpWrite(s) \/ HttpEnd(s)

-----------------------------------------------------------------------------
(* The agent, external: it may be slow, stop, or fail at any point *)

AgentOpen(t) ==
  /\ task[t] = "created"
  /\ task' = [task EXCEPT ![t] = "writing"]
  /\ tfd' = [tfd EXCEPT ![t] = Opened(Temp)]
  /\ OpenTrunc(Temp)
  /\ UNCHANGED <<pc, mine, tpos, hpos, gaveUp, restarts>>

AgentWrite(t) ==
  /\ task[t] = "writing" /\ tpos[t] < MaxBlocks
  /\ tpos' = [tpos EXCEPT ![t] = @ + 1]
  /\ blocks' = [blocks EXCEPT ![tfd[t]] = @ \cup {tpos'[t]}]
  /\ UNCHANGED <<pc, mine, task, tfd, hpos, name, gaveUp, restarts>>

AgentEnd(t) ==
  /\ \/ task[t] = "writing" /\ tpos[t] = MaxBlocks /\ task' = [task EXCEPT ![t] = "success"]
     \/ task[t] \in {"created", "writing"} /\ task' = [task EXCEPT ![t] = "failed"]
  /\ tfd' = [tfd EXCEPT ![t] = NoFile] /\ tpos' = [tpos EXCEPT ![t] = 0]
  /\ UNCHANGED <<pc, mine, hpos, name, gaveUp, restarts>>
  /\ blocks' = Swept

Agent(t) == AgentOpen(t) \/ AgentWrite(t) \/ AgentEnd(t)

\* The process is killed and the release executed anew; the agent goes on.
Restart ==
  /\ restarts < MaxRestarts
  /\ restarts' = restarts + 1
  /\ pc' = [s \in Savers |-> "start"]
  /\ mine' = [s \in Savers |-> NoTask]
  /\ hpos' = [s \in Savers |-> 0]
  /\ gaveUp' = (gaveUp \/ \E s \in Savers : pc[s] \in {"waiting", "polling", "moving"})
  /\ UNCHANGED <<taskVars, fileVars>>

AsyncNext == Restart \/ (\E s \in Savers : Save(s)) \/ (\E t \in TaskIds : Agent(t))

AsyncSpec == AsyncInit /\ [][AsyncNext]_asyncVars

\* The goroutines run between their calls, and a select that finds the ten minutes
\* over time and again does not pick the ticker each time.  Nothing is asked of the
\* agent, nor of the server: a status call (async.go:112) and the body of an HTTP
\* download (http.go:630) have no deadline.
AsyncFairSpec ==
  /\ AsyncSpec
  /\ \A s \in Savers :
       /\ WF_asyncVars(Skip(s) \/ Poll(s) \/ Move(s) \/ MoveFails(s) \/ Verify(s) \/ HttpOpen(s))
       /\ SF_asyncVars(GiveUp(s))

-----------------------------------------------------------------------------
(* Properties *)

\* A file that SaveToFile reported as saved is whole, and stays so, although
\* tasks of other savers and of a killed process still write to files that may
\* have been moved under its name: verifyChecksum (async.go:133) after the move
\* is what this rests on.
DoneIsWhole == \A s \in Savers : pc[s] = "done" => HasWhole(s)

\* A file is left under the temporary name only by a task whose saver went away
\* before it had moved the file: it timed out, a call failed, or the process
\* was killed.  Savers that share the name clean up after each other.
LeftoverOnlyAfterGivingUp ==
  (\A s \in Savers : pc[s] \in {"done", "failed"}) /\ name[Temp] # NoFile => gaveUp

\* A saver comes to an end whatever the agent does, unless it is left for ever in
\* a status call or in an HTTP download that does not return.
SaverEnds == \A s \in Savers :
  \/ pc[s] = "waiting" ~> pc[s] \in {"done", "failed", "start"}
  \/ <>[](pc[s] = "polling") \/ <>[](pc[s] = "http")
=============================================================================
