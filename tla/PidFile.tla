------------------------------- MODULE PidFile --------------------------------
(***************************************************************************)
(* The pid file of the node plugin (build/nodemanPlugin/main.go): each     *)
(* start reads it, looks for the process it names, and writes its own pid. *)
(* Reading and looking, and truncating and writing, are steps of their     *)
(* own, starts may overlap, and an instance may be killed at any point.    *)
(* Nothing removes the file, and the system gives a pid out again when its *)
(* process is gone.  External: whoever starts and kills instances, and the *)
(* other processes of the host.                                            *)
(***************************************************************************)
EXTENDS Naturals

CONSTANTS
  Pids,     \* process identifiers
  NoFile,   \* there is no file
  Empty,    \* the file has been truncated, or its write was cut off
  MaxKills  \* bound: instances killed

ASSUME PidAssumption ==
  /\ NoFile \notin Pids /\ Empty \notin Pids /\ NoFile # Empty
  /\ MaxKills \in Nat

VARIABLES
  pidFile, \* what the pid file holds
  proc,    \* what each pid is: a step of Watch, another program, or nothing
  pidRead, \* the pid that an instance has read
  kills,   \* number of instances killed
  raced    \* history: two instances were between the read and the write

pidVars == <<pidFile, proc, pidRead, kills, raced>>

PidTypeOK ==
  /\ pidFile \in Pids \cup {NoFile, Empty}
  /\ proc \in [Pids -> {"free", "other", "read", "look", "truncate", "write", "client",
                        "serving"}]
  /\ pidRead \in [Pids -> Pids \cup {NoFile}]
  /\ kills \in 0..MaxKills /\ raced \in BOOLEAN

PidInit ==
  /\ pidFile \in Pids \cup {NoFile}
  /\ proc \in [Pids -> {"free", "other"}] /\ \E p \in Pids : proc[p] = "free"
  /\ pidRead = [p \in Pids |-> NoFile]
  /\ kills = 0 /\ raced = FALSE

Transition(p, from, to) == proc[p] = from /\ proc' = [proc EXCEPT ![p] = to]

\* The instance is past the read and has not written yet.
Between(p) == proc[p] \in {"look", "truncate", "write"}

-----------------------------------------------------------------------------
(* Plausible mistakes in the actions below *)

StaleIgnored(p) ==           \* the process of the pid read is not looked for
  /\ Transition(p, "look", "truncate")
  /\ UNCHANGED <<pidFile, pidRead, kills, raced>>

AnyPidRefuses(p) ==          \* a file that names a pid is taken for an instance
  /\ Transition(p, "look", "free")
  /\ pidRead' = [pidRead EXCEPT ![p] = NoFile]
  /\ UNCHANGED <<pidFile, kills, raced>>

-----------------------------------------------------------------------------
(* Watch *)

Start(p) ==
  /\ Transition(p, "free", "read")
  /\ UNCHANGED <<pidFile, pidRead, kills, raced>>

\* checkProcess reads the file.  Without a file the process has nothing to look
\* for, and an empty one is an error of strconv.Atoi that ends the start.
Read(p) ==
  /\ \/ pidFile \in Pids /\ Transition(p, "read", "look")
     \/ pidFile = NoFile /\ Transition(p, "read", "truncate")
     \/ pidFile = Empty /\ Transition(p, "read", "free")
  /\ pidRead' = [pidRead EXCEPT ![p] = IF pidFile \in Pids THEN pidFile ELSE NoFile]
  /\ raced' = (raced \/ (pidFile # Empty /\ \E q \in Pids : Between(q)))
  /\ UNCHANGED <<pidFile, kills>>

\* NewProcess knows a process by its pid alone, this one included.
Look(p) ==
  /\ Transition(p, "look", IF proc[pidRead[p]] = "free" THEN "truncate" ELSE "free")
  /\ pidRead' = [pidRead EXCEPT ![p] = NoFile]
  /\ UNCHANGED <<pidFile, kills, raced>>

\* os.WriteFile of ensurePid, in two steps.
Truncate(p) ==
  /\ Transition(p, "truncate", "write")
  /\ pidFile' = Empty
  /\ UNCHANGED <<pidRead, kills, raced>>

WritePid(p) ==
  /\ Transition(p, "write", "client")
  /\ pidFile' = p
  /\ UNCHANGED <<pidRead, kills, raced>>

\* The client, its watchers and the listener: the old socket is removed without
\* a look at who listens, so nothing here keeps a second instance out.
Serve(p) ==
  /\ Transition(p, "client", "serving")
  /\ UNCHANGED <<pidFile, pidRead, kills, raced>>

\* Any of these fails and Watch returns; the file keeps the pid.
Fail(p) ==
  /\ Transition(p, "client", "free")
  /\ UNCHANGED <<pidFile, pidRead, kills, raced>>

Watch(p) == Read(p) \/ Look(p) \/ Truncate(p) \/ WritePid(p) \/ Serve(p) \/ Fail(p)

-----------------------------------------------------------------------------
(* The host, external *)

Kill(p) ==
  /\ proc[p] \notin {"free", "other"} /\ kills < MaxKills
  /\ kills' = kills + 1
  /\ proc' = [proc EXCEPT ![p] = "free"]
  /\ pidRead' = [pidRead EXCEPT ![p] = NoFile]
  /\ UNCHANGED <<pidFile, raced>>

\* The host does not run out of pids.
OtherProgram(p) ==
  /\ \/ Transition(p, "free", "other") /\ \E q \in Pids \ {p} : proc[q] = "free"
     \/ Transition(p, "other", "free")
  /\ UNCHANGED <<pidFile, pidRead, kills, raced>>

Instances == {p \in Pids : proc[p] \notin {"free", "other"}}

\* Someone starts an instance when there is none, and may start more.
Supervise == Instances = {} /\ \E p \in Pids : Start(p)

PidNext ==
  \/ \E p \in Pids : Start(p) \/ Watch(p) \/ Kill(p) \/ OtherProgram(p)

PidSpec == PidInit /\ [][PidNext]_pidVars

\* An instance that runs goes on, its calls may be fair and fail only from time
\* to time, and an instance that is gone is started again, under any free pid.
PidFairSpec ==
  /\ PidSpec
  /\ WF_pidVars(Supervise)
  /\ \A p \in Pids : WF_pidVars(Watch(p)) /\ SF_pidVars(Serve(p))

-----------------------------------------------------------------------------
(* Properties *)

\* Two instances never watch at once, unless two starts were between the read
\* and the write of the file at the same time.  That one time is enough, and the
\* damage outlives it: the file names one of the two, and when that one is gone
\* a third start does not see the other.
Live(p) == proc[p] \in {"client", "serving"}
OneInstanceUnlessRaced == \A p, q \in Pids : Live(p) /\ Live(q) => p = q \/ raced

\* A start that finds no live instance succeeds sooner or later, although the
\* file still names a dead one.  It does not while the file is empty, and not
\* while the pid in it has been given to another process, or to the start itself:
\* checkProcess refuses a file that holds the caller's own pid.
Taken == pidFile \in Pids /\ proc[pidFile] \in {"other", "read", "look"}
RestartSucceeds ==
  Instances = {} ~> (pidFile = Empty \/ Taken \/ \E p \in Pids : proc[p] = "serving")
=============================================================================
