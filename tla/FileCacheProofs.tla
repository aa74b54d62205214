--------------------------- MODULE FileCacheProofs ---------------------------
(***************************************************************************)
(* Proofs about FileCache, for any number of savers, of tasks of the agent *)
(* and of blocks: as long as nobody empties the cache file, what comes out *)
(* of it is whole.  Whoever else writes to the file only adds to it, so    *)
(* what a saver has hashed, verified or downloaded is what it copies,      *)
(* unless the cleanup takes the name away.                                 *)
(***************************************************************************)
EXTENDS FileCache, TLAPS

\* What an undisturbed saver knows.
Sound(s) ==
  /\ pc[s] \in {"check", "verify"} => entry \in {NoFile, fd[s]} /\ seen[s] \subseteq data[fd[s]]
  /\ pc[s] = "download" => entry \in {NoFile, fd[s]} /\ written[s] \subseteq data[fd[s]]
  /\ pc[s] = "open" => entry = NoFile \/ data[entry] = All
  /\ pc[s] = "copy" => data[fd[s]] = All /\ seen[s] = 1..(pos[s] - 1)

Inv ==
  /\ TypeOK
  /\ \A s \in Savers : pc[s] \in Relying /\ ~disturbed[s] => Sound(s)
  /\ TornOnlyByRival

LEMMA InitInv == Init => Inv
<1> SUFFICES ASSUME Init PROVE Inv
  OBVIOUS
<1> USE FileCacheAssumption DEF Init
<1>1. TypeOK
  <2>1. /\ pc \in [Savers -> InCache \cup {"idle", "fallback", "ok", "error"}]
        /\ kind \in [Savers -> {"save", "get"}]
    BY DEF InCache, Relying
  <2>2. disturbed \in [Savers -> BOOLEAN]
    BY Zenon
  <2>3. /\ fd \in [Savers -> 0..made] /\ pos \in [Savers -> 1..(Blocks + 1)]
        /\ entry \in 0..made /\ made \in 0..MaxFiles
    BY DEF NoFile
  <2>4. seen \in [Savers -> SUBSET All] /\ written \in [Savers -> SUBSET All]
    OBVIOUS
  <2>5. \A s \in Savers : /\ pc[s] \in {"check", "verify", "download", "copy"} => fd[s] # NoFile
                          /\ pc[s] = "await" <=> waits[s] # NoTask
    OBVIOUS
  <2>6. /\ waits \in [Savers -> Tasks \cup {NoTask}]
        /\ task \in [Tasks -> {"none", "created", "writing", "success", "failed"}]
        /\ target \in [Tasks -> 0..made] /\ sent \in [Tasks -> SUBSET All]
        /\ \A t \in Tasks : task[t] = "writing" => target[t] # NoFile
    BY DEF NoFile
  <2> QED BY <2>1, <2>2, <2>3, <2>4, <2>5, <2>6 DEF TypeOK
<1>2. \A s \in Savers : pc[s] = "idle"
  OBVIOUS
<1> QED BY <1>1, <1>2 DEF Inv, Relying, TornOnlyByRival

-----------------------------------------------------------------------------
(* Types *)

Step(s) ==
  \/ \E k \in {"save", "get"} : Begin(s, k)
  \/ Hash(s) \/ Read(s) \/ CheckDone(s)
  \/ Order(s) \/ Verify(s) \/ VerifyDone(s) \/ AwaitFails(s)
  \/ DownloadBegin(s) \/ (\E b \in All : DownloadWrite(s, b)) \/ DownloadDone(s)
  \/ CopyOpen(s) \/ CopyDone(s)
  \/ GiveUp(s) \/ Fallback(s) \/ Leave(s)

AgentStep(t) ==
  AgentOpen(t) \/ (\E b \in All : AgentWrite(t, b)) \/ AgentEnd(t) \/ AgentForget(t)

\* An open file is a file.
LEMMA OpenFile ==
  ASSUME TypeOK, NEW s \in Savers, pc[s] \in {"check", "verify", "download", "copy"}
  PROVE  fd[s] \in Files /\ data[fd[s]] \subseteq All
<1>1. fd[s] \in Files
  BY FileCacheAssumption DEF TypeOK, NoFile, Files
<1> QED BY <1>1 DEF TypeOK

LEMMA CloseType ==
  ASSUME TypeOK, NEW s \in Savers, CloseAll(s)
  PROVE  /\ fd' \in [Savers -> 0..made] /\ pos' \in [Savers -> 1..(Blocks + 1)]
         /\ seen' \in [Savers -> SUBSET All] /\ written' \in [Savers -> SUBSET All]
         /\ \A o \in Savers \ {s} : fd'[o] = fd[o]
BY FileCacheAssumption DEF TypeOK, CloseAll, NoFile

\* What is opened for writing is a file, and empty.
LEMMA OpenType ==
  ASSUME TypeOK, OpenToWrite
  PROVE  /\ made' \in made..MaxFiles /\ entry' \in 1..made' /\ entry' # NoFile
         /\ data' \in [Files -> SUBSET All]
BY FileCacheAssumption DEF TypeOK, OpenToWrite, NoFile, Files

LEMMA TypeStep == ASSUME TypeOK, NEW s \in Savers, Step(s) PROVE TypeOK'
<1> USE FileCacheAssumption DEF TypeOK, Goto
<1>1. ASSUME NEW k \in {"save", "get"}, Begin(s, k) PROVE TypeOK'
  <2>1. /\ kind' \in [Savers -> {"save", "get"}]
        /\ pc' \in [Savers -> InCache \cup {"idle", "fallback", "ok", "error"}]
        /\ \A o \in Savers : /\ pc'[o] \in {"check", "verify", "download", "copy"} => o # s /\ pc'[o] = pc[o]
                             /\ pc'[o] = "await" <=> pc[o] = "await"
    BY <1>1 DEF Begin, InCache, Relying
  <2> QED BY <1>1, <2>1 DEF Begin, disk, reading, agent
<1>2. CASE Hash(s) \/ CopyOpen(s) \/ Verify(s)
  <2>1. disturbed' \in [Savers -> BOOLEAN]
    BY <1>2, Zenon DEF Hash, CopyOpen, Verify, Trust
  <2>2. /\ fd' \in [Savers -> 0..made] /\ pos' \in [Savers -> 1..(Blocks + 1)]
        /\ seen' \in [Savers -> SUBSET All] /\ fd'[s] # NoFile
        /\ \A o \in Savers \ {s} : fd'[o] = fd[o] /\ pc'[o] = pc[o] /\ waits'[o] = waits[o]
    BY <1>2 DEF Hash, CopyOpen, Verify, OpenToRead, NoFile
  <2>3. /\ pc' \in [Savers -> InCache \cup {"idle", "fallback", "ok", "error"}]
        /\ waits' \in [Savers -> Tasks \cup {NoTask}]
        /\ pc'[s] # "await" /\ waits'[s] = NoTask
    BY <1>2 DEF Hash, CopyOpen, Verify, InCache, Relying
  <2> QED BY <1>2, <2>1, <2>2, <2>3 DEF Hash, CopyOpen, Verify, disk, agent
<1>3. CASE Read(s)
  <2>1. pos[s] + 1 \in 1..(Blocks + 1)
    BY <1>3, OpenFile DEF Read, EndOfFile, All
  <2>2. ({pos[s]} \cap data[fd[s]]) \subseteq All
    BY <1>3, OpenFile DEF Read
  <2>3. seen' \in [Savers -> SUBSET All]
    BY <1>3, <2>2 DEF Read
  <2>4. pos' \in [Savers -> 1..(Blocks + 1)]
    BY <1>3, <2>1 DEF Read
  <2> QED BY <1>3, <2>3, <2>4 DEF Read, disk, agent
<1>4. CASE CheckDone(s) \/ VerifyDone(s) \/ DownloadDone(s) \/ GiveUp(s)
  <2>1. /\ pc' \in [Savers -> InCache \cup {"idle", "fallback", "ok", "error"}]
        /\ pc[s] # "await" /\ pc'[s] \notin {"await", "check", "verify", "download", "copy"}
        /\ \A o \in Savers \ {s} : pc'[o] = pc[o]
    BY <1>4 DEF CheckDone, VerifyDone, DownloadDone, GiveUp, Missed, InCache, Relying
  <2>2. CloseAll(s) /\ UNCHANGED <<disk, kind, waits, agent, disturbed>>
    BY <1>4 DEF CheckDone, VerifyDone, DownloadDone, GiveUp
  <2> QED BY <2>1, <2>2, CloseType DEF disk, agent
<1>5. CASE DownloadBegin(s)
  <2>1. /\ made' \in made..MaxFiles /\ entry' \in 1..made' /\ entry' # NoFile
        /\ data' \in [Files -> SUBSET All]
    BY <1>5, OpenType DEF DownloadBegin
  <2>2. disturbed' \in [Savers -> BOOLEAN]
    BY <1>5, Zenon DEF DownloadBegin, Emptied
  <2>3. fd' \in [Savers -> 0..made'] /\ fd'[s] # NoFile /\ \A o \in Savers \ {s} : fd'[o] = fd[o]
    BY <1>5, <2>1 DEF DownloadBegin
  <2>4. /\ written' \in [Savers -> SUBSET All] /\ target' \in [Tasks -> 0..made']
        /\ pc' \in [Savers -> InCache \cup {"idle", "fallback", "ok", "error"}]
        /\ pc[s] # "await" /\ pc'[s] = "download" /\ \A o \in Savers \ {s} : pc'[o] = pc[o]
    BY <1>5, <2>1 DEF DownloadBegin, InCache, Relying, agent
  <2> QED BY <1>5, <2>1, <2>2, <2>3, <2>4 DEF DownloadBegin, agent
<1>6. ASSUME NEW b \in All, DownloadWrite(s, b) PROVE TypeOK'
  BY <1>6 DEF DownloadWrite, reading, agent
<1>7. CASE CopyDone(s) \/ Fallback(s)
  BY <1>7 DEF CopyDone, Fallback, disk, reading, agent, InCache, Relying
<1>8. CASE Leave(s)
  <2>1. disturbed' \in [Savers -> BOOLEAN] /\ kind' \in [Savers -> {"save", "get"}]
    BY <1>8, Zenon DEF Leave, Trust
  <2> QED BY <1>8, <2>1, CloseType DEF Leave, disk, agent, InCache, Relying
<1>9. CASE Order(s)
  <2>1. PICK t \in Tasks : /\ task[t] = "none" /\ task' = [task EXCEPT ![t] = "created"]
                           /\ waits' = [waits EXCEPT ![s] = t]
    BY <1>9 DEF Order
  <2>2. t # NoTask
    OBVIOUS
  <2> QED BY <1>9, <2>1, <2>2 DEF Order, disk, reading, InCache, Relying
<1>10. CASE AwaitFails(s)
  BY <1>10 DEF AwaitFails, disk, reading, agent, InCache, Relying
<1> QED BY <1>1, <1>2, <1>3, <1>4, <1>5, <1>6, <1>7, <1>8, <1>9, <1>10 DEF Step

LEMMA AgentTypeStep == ASSUME TypeOK, NEW t \in Tasks, AgentStep(t) PROVE TypeOK'
<1> USE FileCacheAssumption DEF TypeOK
<1>1. CASE AgentOpen(t)
  <2>1. /\ made' \in made..MaxFiles /\ entry' \in 1..made' /\ entry' # NoFile
        /\ data' \in [Files -> SUBSET All]
    BY <1>1, OpenType DEF AgentOpen
  <2>2. disturbed' \in [Savers -> BOOLEAN]
    BY <1>1, Zenon DEF AgentOpen, Emptied
  <2>3. /\ target' \in [Tasks -> 0..made'] /\ target'[t] # NoFile
        /\ \A u \in Tasks \ {t} : target'[u] = target[u] /\ task'[u] = task[u]
    BY <1>1, <2>1 DEF AgentOpen
  <2>4. /\ fd' \in [Savers -> 0..made']
        /\ task' \in [Tasks -> {"none", "created", "writing", "success", "failed"}]
    BY <1>1, <2>1 DEF AgentOpen, reading
  <2> QED BY <1>1, <2>1, <2>2, <2>3, <2>4 DEF AgentOpen, reading
<1>2. ASSUME NEW b \in All, AgentWrite(t, b) PROVE TypeOK'
  BY <1>2 DEF AgentWrite, reading
<1>3. CASE AgentEnd(t) \/ AgentForget(t)
  BY <1>3 DEF AgentEnd, AgentForget, disk, reading, NoFile
<1> QED BY <1>1, <1>2, <1>3 DEF AgentStep

-----------------------------------------------------------------------------
(* Soundness *)

\* Who does not open the file for writing only adds to it, or takes its name away.
Mild == entry' \in {entry, NoFile} /\ \A f \in Files : data[f] \subseteq data'[f]

LEMMA SameIsMild == UNCHANGED disk => Mild
<1>1. ASSUME UNCHANGED disk, NEW f \in Files PROVE data[f] \subseteq data'[f]
  BY <1>1, Zenon DEF disk
<1> QED BY <1>1 DEF disk, Mild

LEMMA AddIsMild ==
  ASSUME TypeOK, NEW g, NEW b, data' = [data EXCEPT ![g] = @ \cup {b}], entry' = entry
  PROVE  Mild
<1>1. ASSUME NEW f \in Files PROVE data[f] \subseteq data'[f]
  <2>1. data'[f] = data[f] \/ data'[f] = data[f] \cup {b}
    BY DEF TypeOK
  <2> QED BY <2>1, Zenon
<1> QED BY <1>1 DEF Mild

Still(s) ==
  /\ pc'[s] = pc[s] /\ fd'[s] = fd[s] /\ pos'[s] = pos[s] /\ seen'[s] = seen[s]
  /\ written'[s] = written[s]

\* What a saver knows stays true when others are mild.
LEMMA KeepSound ==
  ASSUME TypeOK, TypeOK', NEW s \in Savers, pc[s] \in Relying, Sound(s), Mild, Still(s)
  PROVE  Sound(s)'
<1>1. ASSUME NEW f \in Files, data[f] = All PROVE data'[f] = All
  <2>1. data'[f] \subseteq All
    BY DEF TypeOK
  <2>2. All \subseteq data'[f]
    BY <1>1 DEF Mild
  <2> QED BY <2>1, <2>2
<1>2. CASE pc[s] \in {"check", "verify", "download", "copy"}
  <2>1. fd[s] \in Files
    BY <1>2, OpenFile
  <2> QED BY <1>1, <1>2, <2>1 DEF Sound, Mild, Still
<1>3. CASE pc[s] = "open"
  <2>1. entry # NoFile => entry \in Files
    BY FileCacheAssumption DEF TypeOK, NoFile, Files
  <2> QED BY <1>1, <1>3, <2>1 DEF Sound, Mild, Still
<1> QED BY <1>2, <1>3 DEF Relying

\* Whoever else opens the file for writing disturbs a saver that relies on it.
LEMMA OtherMild ==
  ASSUME TypeOK, NEW s \in Savers, pc'[s] \in Relying, ~disturbed'[s],
         (\E o \in Savers \ {s} : Step(o)) \/ (\E t \in Tasks : AgentStep(t)) \/ Cleanup
  PROVE  Mild /\ Still(s) /\ ~disturbed[s]
<1> USE DEF TypeOK
<1>1. ASSUME NEW o \in Savers \ {s}, Step(o) PROVE Mild /\ Still(s) /\ ~disturbed[s]
  <2>1. Still(s)
    BY <1>1 DEF Still, Step, Begin, Hash, Read, CheckDone, Order, Verify, VerifyDone, AwaitFails,
         DownloadBegin, DownloadWrite, DownloadDone, CopyOpen, CopyDone, GiveUp, Fallback, Leave,
         Goto, OpenToRead, CloseAll, reading
  <2>2. ~DownloadBegin(o)
    BY <2>1 DEF DownloadBegin, Emptied, Still
  <2>3. ~disturbed[s]
    BY <1>1, <2>2 DEF Step, Begin, Hash, Read, CheckDone, Order, Verify, VerifyDone, AwaitFails,
         DownloadWrite, DownloadDone, CopyOpen, CopyDone, GiveUp, Fallback, Leave, Trust
  <2>4. CASE \E b \in All : DownloadWrite(o, b)
    BY <2>1, <2>3, <2>4, AddIsMild DEF DownloadWrite
  <2>5. CASE UNCHANGED disk
    BY <2>1, <2>3, <2>5, SameIsMild
  <2>6. UNCHANGED disk \/ \E b \in All : DownloadWrite(o, b)
    BY <1>1, <2>2 DEF Step, Begin, Hash, Read, CheckDone, Order, Verify, VerifyDone, AwaitFails,
         DownloadDone, CopyOpen, CopyDone, GiveUp, Fallback, Leave
  <2> QED BY <2>1, <2>3, <2>4, <2>5, <2>6
<1>2. ASSUME NEW t \in Tasks, AgentStep(t) PROVE Mild /\ Still(s) /\ ~disturbed[s]
  <2>1. Still(s)
    BY <1>2 DEF Still, AgentStep, AgentOpen, AgentWrite, AgentEnd, AgentForget, reading
  <2>2. ~AgentOpen(t)
    BY <2>1 DEF AgentOpen, Emptied, Still
  <2>3. ~disturbed[s]
    BY <1>2, <2>2 DEF AgentStep, AgentWrite, AgentEnd, AgentForget
  <2>4. CASE \E b \in All : AgentWrite(t, b)
    BY <2>1, <2>3, <2>4, AddIsMild DEF AgentWrite
  <2>5. CASE AgentEnd(t) \/ AgentForget(t)
    BY <2>1, <2>3, <2>5, SameIsMild DEF AgentEnd, AgentForget
  <2> QED BY <1>2, <2>1, <2>2, <2>3, <2>4, <2>5 DEF AgentStep
<1>3. CASE Cleanup
  BY <1>3 DEF Cleanup, Mild, Still, reading
<1> QED BY <1>1, <1>2, <1>3

LEMMA OtherStep ==
  ASSUME Inv, TypeOK', NEW s \in Savers, pc'[s] \in Relying, ~disturbed'[s],
         (\E o \in Savers \ {s} : Step(o)) \/ (\E t \in Tasks : AgentStep(t)) \/ Cleanup
  PROVE  Sound(s)'
<1>1. Mild /\ Still(s) /\ ~disturbed[s]
  BY OtherMild DEF Inv
<1>2. pc[s] \in Relying /\ Sound(s)
  BY <1>1 DEF Still, Inv
<1> QED BY <1>1, <1>2, KeepSound DEF Inv

\* A saver's own step keeps it sound.
LEMMA OwnStep ==
  ASSUME Inv, NEW s \in Savers, Step(s), pc'[s] \in Relying, ~disturbed'[s]
  PROVE  Sound(s)'
<1> USE FileCacheAssumption DEF Inv, TypeOK, Goto, NoFile
<1>1. CASE Hash(s) \/ Verify(s)
  BY <1>1 DEF Hash, Verify, OpenToRead, Sound, disk
<1>2. CASE Read(s)
  <2>1. Sound(s)
    BY <1>2 DEF Read
  <2>2. CASE pc[s] \in {"check", "verify"}
    <3>1. seen'[s] \subseteq data[fd[s]]
      BY <1>2, <2>1, <2>2 DEF Read, Sound
    <3> QED BY <1>2, <2>1, <2>2, <3>1 DEF Read, Sound, disk
  <2>3. CASE pc[s] = "copy"
    <3>1. data[fd[s]] = All /\ seen[s] = 1..(pos[s] - 1) /\ pos[s] \in 1..Blocks
      BY <1>2, <2>1, <2>3 DEF Read, Sound, EndOfFile, All
    <3>2. seen'[s] = seen[s] \cup {pos[s]} /\ pos'[s] = pos[s] + 1
      BY <1>2, <3>1 DEF Read, All
    <3>3. seen'[s] = 1..(pos'[s] - 1)
      BY <3>1, <3>2
    <3> QED BY <1>2, <2>1, <2>3, <3>1, <3>3 DEF Read, Sound, disk
  <2> QED BY <1>2, <2>2, <2>3 DEF Read
<1>3. CASE CheckDone(s) \/ VerifyDone(s)
  <2>1. pc[s] \in {"check", "verify"} /\ pc'[s] = "open" /\ ~disturbed[s] /\ seen[s] = All
    BY <1>3 DEF CheckDone, VerifyDone, Missed, Relying
  <2>2. Sound(s)
    BY <2>1 DEF Relying
  <2>3. data[fd[s]] = All
    <3>1. seen[s] \subseteq data[fd[s]] /\ data[fd[s]] \subseteq All
      BY <2>1, <2>2, OpenFile DEF Sound
    <3> QED BY <2>1, <3>1
  <2> QED BY <1>3, <2>1, <2>2, <2>3 DEF CheckDone, VerifyDone, Sound, disk
<1>4. CASE DownloadBegin(s)
  BY <1>4 DEF DownloadBegin, Sound
<1>5. ASSUME NEW b \in All, DownloadWrite(s, b) PROVE Sound(s)'
  <2>1. Sound(s)
    BY <1>5 DEF DownloadWrite, Relying
  <2>2. data'[fd[s]] = data[fd[s]] \cup {b} /\ written'[s] = written[s] \cup {b}
    BY <1>5, OpenFile DEF DownloadWrite
  <2> QED BY <1>5, <2>1, <2>2 DEF DownloadWrite, Sound, reading
<1>6. CASE DownloadDone(s)
  <2>1. Sound(s)
    BY <1>6 DEF DownloadDone, Relying
  <2>2. data[fd[s]] = All
    <3>1. pc[s] = "download" /\ written[s] = All
      BY <1>6 DEF DownloadDone
    <3>2. All \subseteq data[fd[s]] /\ data[fd[s]] \subseteq All
      BY <2>1, <3>1, OpenFile DEF Sound
    <3> QED BY <3>2
  <2> QED BY <1>6, <2>1, <2>2 DEF DownloadDone, Sound, disk
<1>7. CASE CopyOpen(s)
  <2>1. Sound(s)
    BY <1>7 DEF CopyOpen, Relying
  <2> QED BY <1>7, <2>1 DEF CopyOpen, OpenToRead, Sound, disk
<1>8. (\A k \in {"save", "get"} : ~Begin(s, k))
  BY DEF Begin, Relying
<1>9. ~(Order(s) \/ AwaitFails(s) \/ CopyDone(s) \/ GiveUp(s) \/ Fallback(s) \/ Leave(s))
  BY DEF Order, AwaitFails, CopyDone, GiveUp, Fallback, Leave, Relying
<1> QED BY <1>1, <1>2, <1>3, <1>4, <1>5, <1>6, <1>7, <1>8, <1>9 DEF Step

\* A saver that has come to its end keeps what it has got.
LEMMA OthersKeep ==
  ASSUME Inv, NEW s \in Savers, pc'[s] = "ok", ~disturbed'[s],
         (\E o \in Savers \ {s} : Step(o)) \/ (\E t \in Tasks : AgentStep(t)) \/ Cleanup
  PROVE  seen'[s] = All
<1> USE DEF Inv, TypeOK
<1>1. ASSUME NEW o \in Savers \ {s}, Step(o) PROVE pc[s] = "ok" /\ seen'[s] = seen[s] /\ ~disturbed[s]
  BY <1>1 DEF Step, Begin, Hash, Read, CheckDone, Order, Verify, VerifyDone, AwaitFails,
         DownloadBegin, DownloadWrite, DownloadDone, CopyOpen, CopyDone, GiveUp, Fallback, Leave,
         Goto, OpenToRead, CloseAll, reading, Emptied, Relying, Trust
<1>2. ASSUME NEW t \in Tasks, AgentStep(t) PROVE pc[s] = "ok" /\ seen'[s] = seen[s] /\ ~disturbed[s]
  BY <1>2 DEF AgentStep, AgentOpen, AgentWrite, AgentEnd, AgentForget, reading, Emptied
<1>3. CASE Cleanup
  BY <1>3 DEF Cleanup, reading, TornOnlyByRival
<1> QED BY <1>1, <1>2, <1>3 DEF TornOnlyByRival

\* A saver that ends well has the whole content.
LEMMA OwnEnd ==
  ASSUME Inv, NEW s \in Savers, Step(s), pc'[s] = "ok", ~disturbed'[s]
  PROVE  seen'[s] = All
<1> USE FileCacheAssumption DEF Inv, TypeOK, Goto
<1>1. CopyDone(s) \/ Fallback(s)
  BY DEF Step, Begin, Hash, Read, CheckDone, Order, Verify, VerifyDone, AwaitFails,
         DownloadBegin, DownloadWrite, DownloadDone, CopyOpen, GiveUp, Leave, Missed
<1>2. CASE CopyDone(s)
  <2>1. Sound(s)
    BY <1>2 DEF CopyDone, Relying
  <2>2. Blocks \in data[fd[s]] /\ seen[s] = 1..(pos[s] - 1)
    BY <1>2, <2>1 DEF CopyDone, Sound, All
  <2>3. pos[s] = Blocks + 1
    BY <1>2, <2>2 DEF CopyDone, EndOfFile
  <2> QED BY <1>2, <2>2, <2>3 DEF CopyDone, All, reading
<1>3. CASE Fallback(s)
  BY <1>3 DEF Fallback
<1> QED BY <1>1, <1>2, <1>3

LEMMA NextInv == Inv /\ [Next]_vars => Inv'
<1> SUFFICES ASSUME Inv, [Next]_vars PROVE Inv'
  OBVIOUS
<1>1. ASSUME NEW s \in Savers, Step(s) PROVE Inv'
  <2>1. TypeOK'
    BY <1>1, TypeStep DEF Inv
  <2>2. ASSUME NEW o \in Savers, pc'[o] \in Relying, ~disturbed'[o] PROVE Sound(o)'
    BY <1>1, <2>1, <2>2, OtherStep, OwnStep
  <2>3. ASSUME NEW o \in Savers, pc'[o] = "ok", ~disturbed'[o] PROVE seen'[o] = All
    BY <1>1, <2>3, OthersKeep, OwnEnd
  <2> QED BY <2>1, <2>2, <2>3 DEF Inv, TornOnlyByRival
<1>2. CASE (\E t \in Tasks : AgentStep(t)) \/ Cleanup
  <2>1. TypeOK'
    <3>1. CASE Cleanup
      BY <3>1 DEF Inv, TypeOK, Cleanup, reading, agent, NoFile
    <3> QED BY <1>2, <3>1, AgentTypeStep DEF Inv
  <2>2. ASSUME NEW o \in Savers, pc'[o] \in Relying, ~disturbed'[o] PROVE Sound(o)'
    BY <1>2, <2>1, <2>2, OtherStep
  <2>3. ASSUME NEW o \in Savers, pc'[o] = "ok", ~disturbed'[o] PROVE seen'[o] = All
    BY <1>2, <2>3, OthersKeep
  <2> QED BY <2>1, <2>2, <2>3 DEF Inv, TornOnlyByRival
<1>3. CASE UNCHANGED vars
  BY <1>3 DEF Inv, TypeOK, Sound, TornOnlyByRival, vars, disk, reading, agent
<1> QED BY <1>1, <1>2, <1>3 DEF Next, Step, AgentStep

-----------------------------------------------------------------------------
\* The inductive invariant of the file cache.
THEOREM Invariance == Spec => []Inv
<1>1. Inv /\ [Next]_vars => Inv'
  BY NextInv
<1> QED BY InitInv, <1>1, PTL DEF Spec

\* The cache file, its readers and its writers keep their types.
THEOREM TypeCorrect == Spec => []TypeOK
BY Invariance, PTL DEF Inv

\* SaveToFile and GetContent never take a torn content for a whole one unless the
\* cache file is emptied, by another download or by a task of the agent, after they
\* began to hash, verify or download it: whatever an earlier process left there,
\* whatever tasks are still writing, and whenever the cleanup removes the name.
THEOREM CopyWhole == Spec => []TornOnlyByRival
BY Invariance, PTL DEF Inv
=============================================================================
