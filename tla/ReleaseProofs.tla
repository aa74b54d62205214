---------------------------- MODULE ReleaseProofs ----------------------------
(* Proofs about Release: for any releases, match conditions and files, the    *)
(* records on the disk are true and a success is exact.                      *)
EXTENDS Release, TLAPS

\* The directory is the release, but for what SaveToFile has brought torn.
Exact == torn \subseteq Items(rel, match) /\ \A p \in Paths \ torn : files[p] = Target[rel][match][p]

TornInv == \A p \in torn : files[p] = Torn

\* What the execution has reached at each point.
Reached ==
  /\ pc = "files" /\ ~failed =>
       \A p \in Items(rel, match) \ torn : p \in todo \/ p \in writing \/ files[p] = Target[rel][match][p]
  /\ pc = "files" => todo \cup writing \subseteq Items(rel, match)
  /\ pc = "files" /\ writing # {} => unrecorded
  /\ pc = "files" => \A p \in writing : files[p] = Torn /\ p \notin torn
  /\ pc \in {"clear", "posthook", "metaOpen", "metaWrite"} => OnDisk(rel, match)
  /\ pc \in {"posthook", "metaOpen", "metaWrite"} /\ mode = "watch" => Exact

\* A success that is not recorded yet is in metadata.json, and the disk has it.
Pending ==
  pc \in {"recordOpen", "recordWrite"} /\ status = "SUCCESS" =>
    /\ metadata = [release |-> rel, match |-> match]
    /\ OnDisk(rel, match)
    /\ mode = "watch" => Exact

IInv == TypeOK /\ TornInv /\ Reached /\ Pending /\ RecordsAreTrue /\ LedgersAgree

\* The disk as far as the properties look at it is left alone by a step that
\* changes neither the files nor the records.
LEMMA RecordsKept ==
  ASSUME RecordsAreTrue, LedgersAgree,
         UNCHANGED <<files, metadata, changeevent, unrecorded, torn>>
  PROVE  RecordsAreTrue' /\ LedgersAgree'
BY DEF RecordsAreTrue, LedgersAgree, Same, OnDisk, Items

LEMMA InitInv == ASSUME Init PROVE IInv
<1>1. TypeOK /\ TornInv
  BY ReleaseAssumption DEF Init, TypeOK, TornInv
<1>2. Reached /\ Pending
  BY <1>1 DEF Init, Reached, Pending
<1>3. changeevent \notin EventLines /\ metadata \notin MetaLines
  BY ReleaseAssumption DEF Init
<1>4. LedgersAgree
  BY <1>3 DEF LedgersAgree
<1>5. RecordsAreTrue
  BY <1>3 DEF RecordsAreTrue, Same, MetaLines
<1> QED BY <1>1, <1>2, <1>4, <1>5 DEF IInv

LEMMA StepInv == ASSUME IInv, [Next]_vars PROVE IInv'
<1> USE ReleaseAssumption DEF IInv
<1>1. ASSUME NEW r \in Releases, NEW m \in Matches, NEW d \in {"pull", "watch"},
             Start(r, m, d)
      PROVE  IInv'
  <2>1. RecordsAreTrue' /\ LedgersAgree'
    BY <1>1, RecordsKept DEF Start, work
  <2>2. TypeOK' /\ TornInv'
    BY <1>1 DEF Start, TypeOK, work, TornInv
  <2>3. Reached' /\ Pending'
    BY <1>1 DEF Start, Reached, Pending
  <2> QED BY <2>1, <2>2, <2>3
<1>2. CASE CompareFails \/ CompareSkips \/ CompareGoes
  <2>1. RecordsAreTrue' /\ LedgersAgree'
    BY <1>2, RecordsKept DEF CompareFails, CompareSkips, CompareGoes
  <2>2. TypeOK' /\ TornInv'
    BY <1>2 DEF CompareFails, CompareSkips, CompareGoes, Fail, TypeOK, job, work, TornInv
  <2>3. Reached' /\ Pending'
    BY <1>2 DEF CompareFails, CompareSkips, CompareGoes, Fail, Reached, Pending
  <2> QED BY <2>1, <2>2, <2>3
<1>3. CASE PreHook
  <2>1. RecordsAreTrue' /\ LedgersAgree'
    BY <1>3, RecordsKept DEF PreHook
  <2>2. TypeOK' /\ TornInv'
    BY <1>3 DEF PreHook, Fail, TypeOK, job, work, Items, TornInv
  <2>3. Reached' /\ Pending'
    BY <1>3 DEF PreHook, Fail, Reached, Pending, Items, job, work
  <2> QED BY <2>1, <2>2, <2>3
<1>4. ASSUME NEW p \in Paths, FileKeep(p) \/ FileFail(p) PROVE IInv'
  <2>1. RecordsAreTrue' /\ LedgersAgree'
    BY <1>4, RecordsKept DEF FileKeep, FileFail
  <2>2. TypeOK' /\ TornInv'
    BY <1>4 DEF FileKeep, FileFail, TypeOK, job, TornInv
  <2>3. Reached' /\ Pending'
    BY <1>4 DEF FileKeep, FileFail, Reached, Pending, Items, job
  <2> QED BY <2>1, <2>2, <2>3
<1>5. ASSUME NEW p \in Paths, FileBegin(p) PROVE IInv'
  <2>1. unrecorded' /\ UNCHANGED <<metadata, changeevent, rel, match, mode, pc, failed>>
    BY <1>5 DEF FileBegin, job
  <2>2. RecordsAreTrue' /\ LedgersAgree'
    BY <2>1 DEF RecordsAreTrue, LedgersAgree
  <2>3. TypeOK' /\ TornInv'
    BY <1>5 DEF FileBegin, TypeOK, job, TornInv
  <2>4. Reached' /\ Pending'
    BY <1>5, <2>1 DEF FileBegin, Reached, Pending, Items, TypeOK
  <2> QED BY <2>2, <2>3, <2>4
<1>6. ASSUME NEW p \in Paths, FileEnd(p) PROVE IInv'
  <2>1. unrecorded' /\ UNCHANGED <<metadata, changeevent, rel, match, mode, pc, failed, todo>>
    BY <1>6 DEF FileEnd, job, Reached
  <2>2. RecordsAreTrue' /\ LedgersAgree'
    BY <2>1 DEF RecordsAreTrue, LedgersAgree
  <2>3. Target[rel][match][p] \in Contents \cup {Absent}
    BY DEF TypeOK
  <2>4. TypeOK' /\ TornInv'
    BY <1>6, <2>3 DEF FileEnd, TypeOK, job, TornInv, Reached
  <2>5. Reached' /\ Pending'
    BY <1>6, <2>1 DEF FileEnd, Reached, Pending, Items, TypeOK
  <2> QED BY <2>2, <2>4, <2>5
<1>7. CASE FilesDone
  <2>1. RecordsAreTrue' /\ LedgersAgree'
    BY <1>7, RecordsKept DEF FilesDone
  <2>2. TypeOK' /\ TornInv'
    BY <1>7 DEF FilesDone, Fail, TypeOK, job, work, TornInv
  <2>3. ASSUME ~failed, pc' # "recordOpen" PROVE OnDisk(rel, match)' /\ pc' \in {"clear", "posthook"}
    BY <1>7, <2>3 DEF FilesDone, Fail, Reached, OnDisk, Items, job
  <2>4. mode = "watch" => pc' # "posthook"
    BY <1>7 DEF FilesDone, Fail
  <2>5. pc' = "recordOpen" => status' = "FAILED"
    BY <1>7 DEF FilesDone, Fail, TypeOK
  <2>6. pc' \in {"clear", "posthook", "recordOpen"} /\ (pc' # "recordOpen" => ~failed)
    BY <1>7 DEF FilesDone, Fail
  <2>7. mode' = mode
    BY <1>7 DEF FilesDone, job
  <2> QED BY <2>1, <2>2, <2>3, <2>4, <2>5, <2>6, <2>7 DEF Reached, Pending
<1>8. ASSUME NEW p \in Paths, ClearFile(p) PROVE IInv'
  <2>1. unrecorded' /\ pc = "clear" /\ UNCHANGED <<metadata, changeevent, rel, match, mode, pc>>
    BY <1>8 DEF ClearFile, job
  <2>2. RecordsAreTrue' /\ LedgersAgree'
    BY <2>1 DEF RecordsAreTrue, LedgersAgree
  <2>3. TypeOK' /\ TornInv'
    BY <1>8 DEF ClearFile, TypeOK, job, work, TornInv
  <2>4. OnDisk(rel, match)'
    BY <1>8, <2>1 DEF ClearFile, Reached, OnDisk, Items, Old, TypeOK
  <2>5. Reached' /\ Pending'
    BY <2>1, <2>4 DEF Reached, Pending
  <2> QED BY <2>2, <2>3, <2>5
<1>9. CASE ClearDone
  <2>1. RecordsAreTrue' /\ LedgersAgree'
    BY <1>9, RecordsKept DEF ClearDone
  <2>2. TypeOK' /\ TornInv'
    BY <1>9 DEF ClearDone, Fail, TypeOK, job, work, TornInv
  <2>3. OnDisk(rel, match)'
    BY <1>9 DEF ClearDone, Reached, OnDisk, Items, job
  <2>4. Old = {} => Exact'
    BY <1>9 DEF ClearDone, Reached, OnDisk, Items, Old, Exact, TypeOK, TornInv, job
  <2>5. (pc' = "posthook" /\ Old = {}) \/ (pc' = "recordOpen" /\ status' = "FAILED")
    BY <1>9 DEF ClearDone, Fail
  <2> QED BY <2>1, <2>2, <2>3, <2>4, <2>5 DEF Reached, Pending
<1>10. CASE PostHook \/ MetaFails
  <2>1. RecordsAreTrue' /\ LedgersAgree'
    BY <1>10, RecordsKept DEF PostHook, MetaFails
  <2>2. TypeOK' /\ TornInv'
    BY <1>10 DEF PostHook, MetaFails, Fail, TypeOK, job, work, TornInv
  <2>3. Reached' /\ Pending'
    BY <1>10 DEF PostHook, MetaFails, Fail, Reached, Pending, OnDisk, Exact, Items, job
  <2> QED BY <2>1, <2>2, <2>3
<1>11. CASE MetaOpen
  <2>1. TypeOK' /\ TornInv'
    BY <1>11 DEF MetaOpen, TypeOK, job, work, TornInv
  <2>2. Reached' /\ Pending'
    BY <1>11 DEF MetaOpen, Reached, Pending, OnDisk, Exact, Items, job
  <2>3. ASSUME NEW r \in Releases, NEW m \in Matches, Same(r, m)' PROVE metadata' = metadata
    BY <1>11, <2>3 DEF MetaOpen, Same, MetaLines
  <2>4. RecordsAreTrue'
    BY <1>11, <2>3 DEF MetaOpen, RecordsAreTrue, Same, OnDisk, Items
  <2>5. LedgersAgree'
    BY <1>11 DEF MetaOpen, LedgersAgree, MetaLines
  <2> QED BY <2>1, <2>2, <2>4, <2>5
<1>12. CASE MetaWrite
  <2>1. TypeOK' /\ TornInv'
    BY <1>12 DEF MetaWrite, TypeOK, MetaLines, job, work, TornInv
  <2>2. Reached' /\ Pending'
    BY <1>12 DEF MetaWrite, Reached, Pending, OnDisk, Exact, Items, job
  <2>3. RecordsAreTrue' /\ LedgersAgree'
    BY <1>12 DEF MetaWrite, RecordsAreTrue, LedgersAgree
  <2> QED BY <2>1, <2>2, <2>3
<1>13. CASE RecordOpen
  <2>1. TypeOK' /\ TornInv'
    BY <1>13 DEF RecordOpen, TypeOK, job, work, TornInv
  <2>2. Reached' /\ Pending'
    BY <1>13 DEF RecordOpen, Reached, Pending, OnDisk, Exact, Items, job
  <2>3. changeevent' = changeevent \/ changeevent' \notin EventLines
    BY <1>13 DEF RecordOpen
  <2>4. RecordsAreTrue'
    BY <1>13, <2>3 DEF RecordOpen, RecordsAreTrue, Same, OnDisk, Items, EventLines
  <2>5. LedgersAgree'
    BY <1>13, <2>3 DEF RecordOpen, LedgersAgree
  <2> QED BY <2>1, <2>2, <2>4, <2>5
<1>14. CASE RecordWrite
  <2>1. TypeOK' /\ TornInv'
    BY <1>14 DEF RecordWrite, TypeOK, EventLines, job, work, TornInv
  <2>2. Reached' /\ Pending'
    BY <1>14 DEF RecordWrite, Reached, Pending
  <2>3. ASSUME NEW r \in Releases, NEW m \in Matches, Same(r, m)' PROVE OnDisk(r, m)'
    <3>1. status = "SUCCESS" /\ r = rel
      BY <1>14, <2>3 DEF RecordWrite, Same
    <3>2. metadata = [release |-> rel, match |-> match] /\ OnDisk(rel, match)
      BY <1>14, <3>1 DEF RecordWrite, Pending
    <3>3. metadata = [release |-> r, match |-> m]
      BY <1>14, <2>3 DEF RecordWrite, Same
    <3>4. m = match
      BY <3>2, <3>3
    <3> QED BY <1>14, <3>1, <3>2, <3>4 DEF RecordWrite, OnDisk, Items
  <2>4. RecordsAreTrue'
    BY <2>3 DEF RecordsAreTrue
  <2>5. LedgersAgree'
    BY <1>14 DEF RecordWrite, Pending, LedgersAgree, TypeOK, MetaLines
  <2> QED BY <2>1, <2>2, <2>4, <2>5
<1>15. CASE RecordFails
  <2>1. RecordsAreTrue' /\ LedgersAgree'
    BY <1>15, RecordsKept DEF RecordFails
  <2>2. TypeOK' /\ TornInv'
    BY <1>15 DEF RecordFails, TypeOK, job, work, TornInv
  <2>3. Reached' /\ Pending'
    BY <1>15 DEF RecordFails, Reached, Pending
  <2> QED BY <2>1, <2>2, <2>3
<1>16. CASE Crash
  <2>1. RecordsAreTrue' /\ LedgersAgree'
    BY <1>16, RecordsKept DEF Crash
  <2>2. TypeOK' /\ TornInv'
    BY <1>16 DEF Crash, TypeOK, job, TornInv
  <2>3. Reached' /\ Pending'
    BY <1>16 DEF Crash, Reached, Pending
  <2> QED BY <2>1, <2>2, <2>3
<1>17. CASE UNCHANGED vars
  <2>1. RecordsAreTrue' /\ LedgersAgree'
    BY <1>17, RecordsKept DEF vars
  <2>2. TypeOK' /\ TornInv' /\ Reached' /\ Pending'
    BY <1>17 DEF vars, job, TypeOK, TornInv, Reached, Pending, OnDisk, Exact, Items
  <2> QED BY <2>1, <2>2
<1> QED BY <1>1, <1>2, <1>3, <1>4, <1>5, <1>6, <1>7, <1>8, <1>9, <1>10, <1>11,
           <1>12, <1>13, <1>14, <1>15, <1>16, <1>17 DEF Next, Execute, UpdateFiles

\* The inductive invariant: what each step of Execute has reached, and what the
\* two record files say, hold together through failures and crashes.
THEOREM Invariance == Spec => []IInv
BY InitInv, StepInv, PTL DEF Spec

\* The variables of Execute and the lines of the record files keep their types.
THEOREM TypeCorrect == Spec => []TypeOK
BY Invariance, PTL DEF IInv

\* compareRelease skips on true records: whatever failed, crashed or was rolled
\* back before, a release both files name is on the disk, but for files that were
\* brought torn, unless an execution has touched the disk since and was cut off.
THEOREM RecordsTrue == Spec => []RecordsAreTrue
BY Invariance, PTL DEF IInv

\* The two record files name the same release when the last one was a success.
THEOREM RecordsAgree == Spec => []LedgersAgree
BY Invariance, PTL DEF IInv

\* An execution that is about to record a success has brought the whole release
\* to the disk, and in watch mode nothing else is there; the files that SaveToFile
\* has brought torn without an error are the exception, and the only one.
THEOREM SuccessExact == Spec => []SuccessIsExact
<1>1. IInv => SuccessIsExact
  BY DEF IInv, TypeOK, TornInv, Pending, SuccessIsExact, Exact
<1> QED BY <1>1, Invariance, PTL
=============================================================================
