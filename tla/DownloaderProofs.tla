-------------------------- MODULE DownloaderProofs --------------------------
(* Proofs about Downloader: for any size, balance, number of retries and of   *)
(* addresses and any weight of the semaphore, the parts are a partition of    *)
(* the file, a download that succeeds is complete, and no goroutine outlives  *)
(* the download or keeps a unit of the semaphore.  The last part is about     *)
(* AsyncDownload, for any number of savers, blocks, tasks and restarts.       *)
EXTENDS Downloader, AsyncDownload, FiniteSetTheorems, TLAPS

-----------------------------------------------------------------------------
(* The arithmetic of downloadWithRange *)

LEMMA Batch == BatchSize \in Nat /\ BatchSize > 0 /\ Size \in Nat
BY DownloaderAssumption DEF BatchSize

LEMMA DivMod ==
  ASSUME NEW n \in Nat, NEW b \in Nat, b > 0
  PROVE  /\ n \div b \in Nat /\ n % b \in 0..(b - 1)
         /\ n = (n \div b) * b + (n % b)
<1>1. n \div b \in Nat
  OBVIOUS
<1>2. n % b \in 0..(b - 1)
  OBVIOUS
<1>3. n = b * (n \div b) + (n % b)
  OBVIOUS
<1>4. \A q \in Nat : b * q = q * b
  OBVIOUS
<1>5. b * (n \div b) = (n \div b) * b
  BY <1>1, <1>4
<1> QED BY <1>1, <1>2, <1>3, <1>5

LEMMA MulMono ==
  ASSUME NEW j \in Int, NEW k \in Int, NEW b \in Nat, j < k
  PROVE  j * b + b <= k * b
<1>1. k = j + 1 + (k - j - 1) /\ k - j - 1 >= 0
  OBVIOUS
<1>2. PICK d \in Nat : k = j + 1 + d
  BY <1>1
<1>3. k * b = j * b + b + d * b
  BY <1>2
<1>4. d * b >= 0
  OBVIOUS
<1> QED BY <1>3, <1>4

LEMMA PartsCount ==
  /\ Parts \in Nat
  /\ Parts * BatchSize >= Size
  /\ Parts > 0 => (Parts - 1) * BatchSize < Size
<1> DEFINE q == Size \div BatchSize
           r == Size % BatchSize
<1>1. q \in Nat /\ r \in 0..(BatchSize - 1) /\ Size = q * BatchSize + r
  BY Batch, DivMod
<1>2. CASE r = 0
  <2>1. Parts = q
    BY <1>1, <1>2 DEF Parts
  <2>2. (q - 1) * BatchSize = q * BatchSize - BatchSize
    BY <1>1, Batch
  <2> HIDE DEF q, r
  <2> QED BY <1>1, <1>2, <2>1, <2>2, Batch
<1>3. CASE r > 0
  <2>1. Parts = q + 1
    BY <1>1, <1>3 DEF Parts
  <2>2. (q + 1) * BatchSize = q * BatchSize + BatchSize
    BY <1>1, Batch
  <2>3. (q + 1) - 1 = q
    BY <1>1
  <2> HIDE DEF q, r
  <2> QED BY <1>1, <1>3, <2>1, <2>2, <2>3, Batch
<1> QED BY <1>1, <1>2, <1>3

LEMMA PartRange ==
  ASSUME NEW k \in 0..(Parts - 1)
  PROVE  From(k) \in Nat /\ Until(k) \in Nat /\ From(k) <= Until(k) /\ Until(k) <= Size - 1
<1> DEFINE b == BatchSize
<1>1. b \in Nat /\ b > 0 /\ Size \in Nat /\ Parts \in Nat
  BY Batch, PartsCount
<1>2. k * b \in Nat
  BY <1>1
<1>3. CASE k = Parts - 1
  <2>1. k * b < Size
    BY <1>1, <1>3, PartsCount
  <2>2. From(k) = k * b /\ Until(k) = Size - 1
    BY <1>3 DEF From, Until
  <2> HIDE DEF b
  <2> QED BY <1>1, <1>2, <2>1, <2>2
<1>4. CASE k < Parts - 1
  <2>1. k * b + b <= (Parts - 1) * b
    BY <1>1, <1>4, MulMono
  <2>2. (Parts - 1) * b < Size
    BY <1>1, <1>4, PartsCount
  <2>3. (Parts - 1) * b \in Int
    BY <1>1
  <2>4. From(k) = k * b /\ Until(k) = k * b + b - 1
    BY <1>4, <1>1 DEF From, Until
  <2> HIDE DEF b
  <2> QED BY <1>1, <1>2, <2>1, <2>2, <2>3, <2>4
<1> QED BY <1>1, <1>3, <1>4

\* The parts of downloadWithRange (http.go:447-491) do not overlap ...
LEMMA PartsApart ==
  ASSUME NEW j \in 0..(Parts - 1), NEW k \in 0..(Parts - 1), j < k
  PROVE  Until(j) < From(k)
<1> DEFINE b == BatchSize
<1>1. b \in Nat /\ b > 0 /\ Parts \in Nat
  BY Batch, PartsCount
<1>2. j * b + b <= k * b
  BY <1>1, MulMono
<1>3. j * b \in Int /\ k * b \in Int
  BY <1>1
<1>4. Until(j) = j * b + b - 1 /\ From(k) = k * b
  BY <1>1 DEF From, Until
<1> HIDE DEF b
<1> QED BY <1>1, <1>2, <1>3, <1>4

\* ... and leave no byte out.
LEMMA PartsCover ==
  ASSUME NEW i \in 0..(Size - 1)
  PROVE  \E k \in 0..(Parts - 1) : From(k) <= i /\ i <= Until(k)
<1>1. /\ BatchSize \in Nat /\ BatchSize > 0 /\ Parts \in Nat
      /\ Size \in Nat /\ i \in Nat /\ i < Size
  BY Batch, PartsCount
<1>2. PICK k \in Nat, r \in 0..(BatchSize - 1) : i = k * BatchSize + r
  BY <1>1, DivMod
<1>3. k * BatchSize \in Nat /\ Parts * BatchSize \in Nat
  BY <1>1
<1>4. k < Parts
  <2>1. SUFFICES ASSUME k >= Parts PROVE FALSE
    BY <1>1
  <2>2. Parts * BatchSize <= k * BatchSize
    <3>1. CASE k = Parts
      BY <3>1, <1>3
    <3>2. CASE k > Parts
      <4>1. Parts * BatchSize + BatchSize <= k * BatchSize
        BY <1>1, <3>2, MulMono
      <4> QED BY <4>1, <1>1, <1>3
    <3> QED BY <2>1, <3>1, <3>2, <1>1
  <2>3. Parts * BatchSize >= Size
    BY PartsCount
  <2> QED BY <1>1, <1>2, <1>3, <2>2, <2>3
<1>5. From(k) = k * BatchSize
  BY DEF From
<1>6. Until(k) = Size - 1 \/ Until(k) = k * BatchSize + BatchSize - 1
  <2>1. CASE k = Parts - 1
    BY <2>1, <1>5 DEF Until
  <2>2. CASE k # Parts - 1
    BY <2>2, <1>1, <1>3, <1>5 DEF Until
  <2> QED BY <2>1, <2>2
<1>7. From(k) <= i /\ i <= Until(k)
  BY <1>1, <1>2, <1>3, <1>5, <1>6
<1> QED BY <1>1, <1>4, <1>7

\* Every byte of the file is requested by exactly one part, whatever the size and
\* the balance (http.go:447-491).
THEOREM PartsPartition ==
  \A i \in 0..(Size - 1) : \E k \in 0..(Parts - 1) :
    /\ i \in From(k)..Until(k)
    /\ \A j \in 0..(Parts - 1) : i \in From(j)..Until(j) => j = k
<1> SUFFICES ASSUME NEW i \in 0..(Size - 1)
             PROVE  \E k \in 0..(Parts - 1) :
                      /\ i \in From(k)..Until(k)
                      /\ \A j \in 0..(Parts - 1) : i \in From(j)..Until(j) => j = k
  OBVIOUS
<1>1. PICK k \in 0..(Parts - 1) : From(k) <= i /\ i <= Until(k)
  BY PartsCover
<1>2. i \in From(k)..Until(k)
  BY <1>1, PartRange, Batch
<1>3. ASSUME NEW j \in 0..(Parts - 1), i \in From(j)..Until(j) PROVE j = k
  <2>1. From(j) \in Nat /\ Until(j) \in Nat /\ From(k) \in Nat /\ Until(k) \in Nat
    BY PartRange
  <2>2. ~(j < k)
    <3>1. j < k => Until(j) < From(k)
      BY PartsApart
    <3> QED BY <1>1, <1>3, <2>1, <3>1, Batch
  <2>3. ~(k < j)
    <3>1. k < j => Until(k) < From(j)
      BY PartsApart
    <3> QED BY <1>1, <1>3, <2>1, <3>1, Batch
  <2> QED BY <2>2, <2>3, PartsCount
<1> QED BY <1>2, <1>3

-----------------------------------------------------------------------------
(* What a part may write *)

\* Ranges are used for a file larger than the balance only.
ModeInv ==
  mode \in {"open", "urls", "none", "direct", "range"} /\ (mode = "range" => Size > Balance)

LEMMA TaskRange ==
  ASSUME ModeInv, NEW k \in Tasks
  PROVE  /\ k \in Slots
         /\ First(k) \in Nat /\ Last(k) \in Int /\ Last(k) <= Size - 1
         /\ Wanted(k) \in Nat /\ First(k) + Wanted(k) = Last(k) + 1
<1>1. Size \in Nat /\ Parts \in Nat
  BY Batch, PartsCount
<1>2. CASE mode = "range"
  <2>1. k \in 0..(Parts - 1) /\ First(k) = From(k) /\ Last(k) = Until(k)
    BY <1>2 DEF Tasks, First, Last
  <2>2. /\ From(k) \in Nat /\ Until(k) \in Nat
        /\ From(k) <= Until(k) /\ Until(k) <= Size - 1
    BY <2>1, PartRange
  <2>. QED  BY <1>1, <2>1, <2>2 DEF Slots, Wanted
<1>3. CASE mode # "range"
  <2>1. k = 0 /\ First(k) = 0 /\ Last(k) = Size - 1
    BY <1>3 DEF Tasks, First, Last
  <2>. QED  BY <1>1, <2>1 DEF Slots, Wanted
<1>. QED  BY <1>2, <1>3

TgtType == tgt \in [0..Size -> -1..Size]

\* A response of n bytes leaves alone what is past the end of the file, and every
\* byte that is right already.
LEMMA WrittenRight ==
  ASSUME ModeInv, TgtType, NEW k \in Tasks, NEW n \in 0..Wanted(k)
  PROVE  /\ Written(k, n) \in [0..Size -> -1..Size]
         /\ Written(k, n)[Size] = tgt[Size]
         /\ \A i \in 0..(Size - 1) : tgt[i] = i => Written(k, n)[i] = i
         /\ n = Wanted(k) => \A i \in First(k)..Last(k) : Written(k, n)[i] = i
<1>1. /\ Size \in Nat /\ First(k) \in Nat /\ Last(k) \in Int /\ Last(k) <= Size - 1
      /\ Wanted(k) \in Nat /\ First(k) + Wanted(k) = Last(k) + 1
  BY Batch, TaskRange
<1>2. \A i \in 0..Size :
        Written(k, n)[i] = IF i \in First(k)..(First(k) + n - 1) THEN i ELSE tgt[i]
  BY DEF Written
<1>3. Size \notin First(k)..(First(k) + n - 1)
  BY <1>1
<1>4. Written(k, n) \in [0..Size -> -1..Size]
  <2>1. \A i \in 0..Size :
          (IF i \in First(k)..(First(k) + n - 1) THEN i ELSE tgt[i]) \in -1..Size
    BY <1>1 DEF TgtType
  <2>. QED  BY <2>1 DEF Written
<1>5. Written(k, n)[Size] = tgt[Size]
  BY <1>1, <1>2, <1>3
<1>6. \A i \in 0..(Size - 1) : tgt[i] = i => Written(k, n)[i] = i
  BY <1>1, <1>2
<1>7. n = Wanted(k) => \A i \in First(k)..Last(k) : Written(k, n)[i] = i
  BY <1>1, <1>2
<1>. QED  BY <1>4, <1>5, <1>6, <1>7

-----------------------------------------------------------------------------
(* The goroutines of the parts *)

Running == {k \in Slots : st[k] \in Holding}

\* Only the parts of the address in use run, and only until the result is there.
TaskInv ==
  /\ ModeInv /\ TgtType
  /\ uri \in 1..Uris /\ exceeded \in BOOLEAN /\ result \in {"none", "ok", "error"}
  /\ st \in [Slots -> {"waiting", "ok", "failed"} \cup Holding]
  /\ tries \in [Slots -> 0..MaxTries]
  /\ \A k \in Slots : st[k] \in {"waiting"} \cup Holding => tries[k] < MaxTries
  /\ \A k \in Slots : st[k] \in Holding => Downloading /\ k \in Tasks
  /\ result = "ok" => mode \in {"direct", "range"} /\ \A k \in Tasks : st[k] = "ok"

\* As long as no server has sent too much, a part that is done has its bytes in
\* the target, and nothing was written past the end.
TargetInv ==
  ~exceeded =>
    /\ mode # "open" => tgt[Size] = Unwritten
    /\ mode \in {"direct", "range"} =>
         \A k \in Tasks : st[k] = "ok" => \A i \in First(k)..Last(k) : tgt[i] = i

\* Every unit of the semaphore belongs to a running part or to another download.
CountInv ==
  /\ used \in 0..Weight /\ others \in 0..Weight /\ stuck \in 0..others
  /\ used = others + Cardinality(Running)

DownInv == TaskInv /\ TargetInv /\ CountInv

LEMMA RunningFinite == IsFiniteSet(Running) /\ Cardinality(Running) \in Nat
<1>1. IsFiniteSet(Slots)
  BY PartsCount, FS_Interval DEF Slots
<1>2. IsFiniteSet(Running)
  BY <1>1, FS_Subset DEF Running
<1>. QED  BY <1>2, FS_CardinalityType

LEMMA DownInit == Init => DownInv
<1>. SUFFICES ASSUME Init PROVE DownInv
  OBVIOUS
<1>. USE DownloaderAssumption DEF DownloaderAssumption, Holding, Downloading, Init
<1>1. Running = {}
  BY DEF Running
<1>2. TaskInv
  <2>1. /\ ModeInv /\ result = "none"
        /\ uri \in 1..Uris /\ exceeded \in BOOLEAN
    <3>1. ModeInv
      BY DEF ModeInv
    <3>2. uri \in 1..Uris
      OBVIOUS
    <3>. QED  BY <3>1, <3>2
  <2>2. TgtType
    BY Batch DEF TgtType, Unwritten, Garbage
  <2>3. \A k \in Slots : st[k] = "waiting" /\ tries[k] = 0
    OBVIOUS
  <2>4. /\ st \in [Slots -> {"waiting", "running", "ok", "failed"}]
        /\ tries \in [Slots -> 0..MaxTries]
    OBVIOUS
  <2>. QED  BY <2>1, <2>2, <2>3, <2>4 DEF TaskInv
<1>3. TargetInv
  BY DEF TargetInv, Unwritten
<1>4. CountInv
  BY <1>1, FS_EmptySet DEF CountInv
<1>. QED  BY <1>2, <1>3, <1>4 DEF DownInv

-----------------------------------------------------------------------------
(* One lemma per action *)

LEMMA ProbeInv ==
  ASSUME DownInv, NEW m \in {"direct", "range"}, Probe(m)
  PROVE  DownInv'
<1>. USE DownloaderAssumption DEF DownloaderAssumption, Holding, Downloading, DownInv, Probe
<1>1. Running = {} /\ Running' = {}
  BY DEF Running, TaskInv
<1>2. TaskInv'
  <2>1. ModeInv' /\ uri' \in 1..Uris /\ exceeded' \in BOOLEAN /\ result' = "none"
    BY DEF TaskInv, ModeInv
  <2>2. TgtType'
    BY DEF TaskInv, TgtType
  <2>3. \A k \in Slots : st'[k] = "waiting" /\ tries'[k] = 0
    OBVIOUS
  <2>4. /\ st' \in [Slots -> {"waiting", "ok", "failed"} \cup Holding]
        /\ tries' \in [Slots -> 0..MaxTries]
    OBVIOUS
  <2>. QED  BY <2>1, <2>2, <2>3, <2>4 DEF TaskInv
<1>3. TargetInv'
  <2>1. \A k \in Tasks' : k \in Slots
    BY <1>2, PartsCount DEF Tasks, Slots
  <2>. QED  BY <2>1 DEF TargetInv
<1>4. CountInv'
  BY <1>1 DEF CountInv
<1>. QED  BY <1>2, <1>3, <1>4

LEMMA NextUriInv ==
  ASSUME DownInv, NextUri, UNCHANGED <<st, tries, used, others, stuck, tgt, exceeded>>,
         result = "none", mode # "open", \A k \in Slots : st[k] \notin Holding
  PROVE  DownInv'
<1>. USE DownloaderAssumption DEF DownloaderAssumption, Holding, Downloading, DownInv
<1>1. Running' = Running
  BY DEF Running
<1>2. /\ uri' \in 1..Uris /\ result' \in {"none", "error"}
      /\ mode' = "none" \/ UNCHANGED mode
  BY DEF NextUri, TaskInv
<1>3. TaskInv'
  BY <1>2 DEF TaskInv, ModeInv, TgtType
<1>4. TargetInv'
  BY <1>2 DEF TargetInv, Tasks, First, Last
<1>5. CountInv'
  BY <1>1 DEF CountInv
<1>. QED  BY <1>3, <1>4, <1>5

LEMMA ProbeWrongSizeInv == ASSUME DownInv, ProbeWrongSize PROVE DownInv'
<1>1. \A k \in Slots : st[k] \notin Holding
  BY DEF DownInv, TaskInv, ProbeWrongSize, Downloading
<1>. QED  BY <1>1, NextUriInv DEF ProbeWrongSize

LEMMA JoinInv == ASSUME DownInv, Join PROVE DownInv'
<1>1. \A k \in Slots : st[k] \notin Holding
  BY DEF DownInv, TaskInv, Join, Holding
<1>2. CASE \A k \in Tasks : st[k] = "ok"
  <2>. USE DEF Join, DownInv, Holding, Downloading
  <2>1. result' = "ok" /\ UNCHANGED <<uri, mode, st, tries, used, others, stuck, tgt, exceeded>>
    BY <1>2
  <2>2. TaskInv'
    BY <1>1, <1>2, <2>1 DEF TaskInv, ModeInv, TgtType, Tasks
  <2>3. TargetInv'
    BY <2>1 DEF TargetInv, Tasks, First, Last
  <2>4. CountInv'
    BY <2>1 DEF CountInv, Running
  <2>. QED  BY <2>2, <2>3, <2>4
<1>3. CASE ~(\A k \in Tasks : st[k] = "ok")
  BY <1>1, <1>3, NextUriInv DEF Join, Downloading
<1>. QED  BY <1>2, <1>3

LEMMA AcquireInv ==
  ASSUME DownInv, NEW k \in Slots, Acquire(k)
  PROVE  DownInv'
<1>. USE DownloaderAssumption DEF DownloaderAssumption, Holding, Downloading, DownInv, Acquire
<1>1. TaskInv'
  BY DEF TaskInv, ModeInv, TgtType, Tasks
<1>2. TargetInv'
  <2>1. \A j \in Tasks : j \in Slots
    BY TaskRange DEF TaskInv
  <2>. QED  BY <2>1 DEF TargetInv, TaskInv, Tasks, First, Last
<1>3. CountInv'
  <2>1. Running' = Running \cup {k} /\ k \notin Running
    BY DEF Running, TaskInv
  <2>2. Cardinality(Running') = Cardinality(Running) + 1
    BY <2>1, RunningFinite, FS_AddElement
  <2>. QED  BY <2>2, RunningFinite DEF CountInv
<1>. QED  BY <1>1, <1>2, <1>3

\* What the end of a request, good or bad, does to the semaphore.
LEMMA ReleaseInv ==
  ASSUME DownInv, NEW k \in Slots, st[k] \in Holding,
         NEW s \in {"waiting", "ok", "failed"}, st' = [st EXCEPT ![k] = s],
         used' = used - 1, UNCHANGED <<others, stuck>>
  PROVE  CountInv'
<1>. USE DownloaderAssumption DEF DownloaderAssumption, Holding, Downloading, DownInv
<1>1. Running' = Running \ {k} /\ k \in Running
  BY DEF Running, TaskInv
<1>2. Cardinality(Running') = Cardinality(Running) - 1 /\ Cardinality(Running') \in Nat
  <2>1. IsFiniteSet(Running') /\ Cardinality(Running') = Cardinality(Running) - 1
    BY <1>1, RunningFinite, FS_RemoveElement
  <2>. QED  BY <2>1, FS_CardinalityType
<1>. QED  BY <1>2, RunningFinite DEF CountInv

\* A request that ends, if it leaves the target as a response may.
LEMMA RequestTaskInv ==
  ASSUME DownInv, NEW k \in Tasks, st[k] \in Holding, tgt' \in [0..Size -> -1..Size],
         NEW s \in {"waiting", "ok", "failed"}, st' = [st EXCEPT ![k] = s],
         tries' \in [Slots -> 0..MaxTries], exceeded' \in BOOLEAN,
         \A j \in Slots : j # k => tries'[j] = tries[j],
         s = "waiting" => tries'[k] < MaxTries,
         UNCHANGED <<uri, mode, result>>
  PROVE  TaskInv'
<1>. USE DEF DownInv, TaskInv, ModeInv, Holding, Downloading
<1>1. k \in Slots /\ Downloading
  BY TaskRange
<1>2. TgtType'
  BY DEF TgtType
<1>3. \A j \in Slots : st'[j] = IF j = k THEN s ELSE st[j]
  OBVIOUS
<1>4. \A j \in Slots : st'[j] \in {"waiting"} \cup Holding => tries'[j] < MaxTries
  BY <1>3
<1>5. \A j \in Slots : st'[j] \in Holding => Downloading' /\ j \in Tasks'
  BY <1>3 DEF Tasks, Downloading, Holding
<1>6. st' \in [Slots -> {"waiting", "ok", "failed"} \cup Holding]
  OBVIOUS
<1>. QED  BY <1>1, <1>2, <1>4, <1>5, <1>6

LEMMA RequestDoneInv ==
  ASSUME DownInv, NEW k \in Slots, RequestDone(k)
  PROVE  DownInv'
<1>. USE DownloaderAssumption DEF DownloaderAssumption, Holding, Downloading, DownInv, RequestDone
<1>1. ModeInv /\ TgtType /\ k \in Tasks /\ Wanted(k) \in Nat /\ \A j \in Tasks : j \in Slots
  BY TaskRange DEF TaskInv
<1>2. Wanted(k) \in 0..Wanted(k)
  BY <1>1
<1>3. /\ tgt' \in [0..Size -> -1..Size] /\ tgt'[Size] = tgt[Size]
      /\ \A i \in 0..(Size - 1) : tgt[i] = i => tgt'[i] = i
      /\ \A i \in First(k)..Last(k) : tgt'[i] = i
  BY <1>1, <1>2, WrittenRight
<1>4. TaskInv'
  BY <1>1, <1>3, RequestTaskInv DEF TaskInv
<1>5. TargetInv'
  <2>. SUFFICES ASSUME ~exceeded, NEW j \in Tasks, st'[j] = "ok", NEW i \in First(j)..Last(j)
                PROVE  tgt'[i] = i
    BY <1>3 DEF TargetInv, Tasks, First, Last
  <2>1. CASE j = k
    BY <1>3, <2>1
  <2>2. CASE j # k
    <3>1. st[j] = "ok"
      BY <1>1, <2>2 DEF TaskInv
    <3>2. i \in 0..(Size - 1)
      BY <1>1, TaskRange, Batch
    <3>3. tgt[i] = i
      BY <3>1 DEF TargetInv, TaskInv
    <3>. QED  BY <1>3, <3>2, <3>3
  <2>. QED  BY <2>1, <2>2
<1>6. CountInv'
  BY ReleaseInv
<1>. QED  BY <1>4, <1>5, <1>6

LEMMA RequestFailsInv ==
  ASSUME DownInv, NEW k \in Slots, RequestFails(k)
  PROVE  DownInv'
<1>. USE DownloaderAssumption DEF DownloaderAssumption, Holding, Downloading, DownInv, RequestFails
<1>1. ModeInv /\ TgtType /\ k \in Tasks /\ Wanted(k) \in Nat /\ \A j \in Tasks : j \in Slots
  BY TaskRange DEF TaskInv
<1>2. tries[k] \in Nat /\ tries[k] < MaxTries
  BY <1>1 DEF TaskInv
<1>3. PICK s \in {"waiting", "failed"} :
        st' = [st EXCEPT ![k] = s] /\ (s = "waiting" <=> tries'[k] # MaxTries)
  OBVIOUS
<1>4. tries' \in [Slots -> 0..MaxTries] /\ tries'[k] = tries[k] + 1
  BY <1>2 DEF TaskInv
<1>5. CountInv'
  BY <1>3, ReleaseInv
<1>6. /\ tgt' \in [0..Size -> -1..Size] /\ exceeded' \in BOOLEAN
      /\ ~exceeded' => /\ ~exceeded /\ tgt'[Size] = tgt[Size]
                       /\ \A i \in 0..(Size - 1) : tgt[i] = i => tgt'[i] = i
  <2>1. CASE BodyShort(k)
    <3>1. PICK n \in 0..Wanted(k) : tgt' = Written(k, n)
      BY <2>1 DEF BodyShort
    <3>. QED  BY <1>1, <2>1, <3>1, WrittenRight DEF BodyShort, TaskInv
  <2>2. CASE BodyLong(k)
    <3>1. Wanted(k) \in 0..Wanted(k)
      BY <1>1
    <3>2. Written(k, Wanted(k)) \in [0..Size -> -1..Size]
      BY <1>1, <3>1, WrittenRight
    <3>3. Garbage \in -1..Size
      BY Batch DEF Garbage
    <3>. QED  BY <2>2, <3>2, <3>3 DEF BodyLong
  <2>. QED  BY <2>1, <2>2
<1>7. TaskInv'
  <2>1. \A j \in Slots : j # k => tries'[j] = tries[j]
    BY DEF TaskInv
  <2>2. s = "waiting" => tries'[k] < MaxTries
    BY <1>2, <1>3, <1>4
  <2>. QED  BY <1>1, <1>3, <1>4, <1>6, <2>1, <2>2, RequestTaskInv
<1>8. TargetInv'
  <2>. SUFFICES ASSUME ~exceeded', NEW j \in Tasks, st'[j] = "ok", NEW i \in First(j)..Last(j)
                PROVE  tgt'[i] = i
    BY <1>1, <1>6 DEF TargetInv, Tasks, First, Last
  <2>1. st[j] = "ok"
    BY <1>1, <1>3 DEF TaskInv
  <2>2. i \in 0..(Size - 1)
    BY <1>1, TaskRange, Batch
  <2>3. tgt[i] = i
    BY <1>6, <2>1 DEF TargetInv, TaskInv
  <2>. QED  BY <1>6, <2>2, <2>3
<1>. QED  BY <1>5, <1>7, <1>8

LEMMA StallInv == ASSUME DownInv, NEW k \in Slots, Stall(k) PROVE DownInv'
<1>. USE DownloaderAssumption DEF DownloaderAssumption, Holding, Downloading, DownInv, Stall
<1>1. TaskInv'
  BY DEF TaskInv, ModeInv, TgtType, Tasks
<1>2. TargetInv'
  <2>1. \A j \in Tasks : j \in Slots
    BY TaskRange DEF TaskInv
  <2>. QED  BY <2>1 DEF TargetInv, TaskInv, Tasks, First, Last
<1>3. CountInv'
  <2>1. Running' = Running
    BY DEF Running, TaskInv
  <2>. QED  BY <2>1 DEF CountInv
<1>. QED  BY <1>1, <1>2, <1>3

\* Before the first address.
LEMMA BeforeInv == ASSUME DownInv, Open \/ GetUrls PROVE DownInv'
<1>. USE DownloaderAssumption
     DEF DownloaderAssumption, Holding, Downloading, DownInv, Open, GetUrls
<1>1. Running' = Running
  BY DEF Running
<1>2. TgtType'
  BY DEF TaskInv, TgtType, Unwritten
<1>3. TaskInv'
  BY <1>2 DEF TaskInv, ModeInv
<1>4. TargetInv'
  BY Batch DEF TargetInv, Unwritten
<1>5. CountInv'
  BY <1>1 DEF CountInv
<1>. QED  BY <1>3, <1>4, <1>5

LEMMA OthersInv ==
  ASSUME DownInv, OtherAcquires \/ OtherStalls \/ OtherReleases \/ OtherGoesOn PROVE DownInv'
<1>. USE DownloaderAssumption
     DEF DownloaderAssumption, Holding, Downloading, DownInv, OtherAcquires, OtherStalls, OtherReleases,
         OtherGoesOn
<1>1. Running' = Running
  BY DEF Running
<1>2. TaskInv'
  BY DEF TaskInv, ModeInv, TgtType, Tasks
<1>3. TargetInv'
  BY DEF TargetInv, Tasks, First, Last
<1>4. CountInv'
  BY <1>1, RunningFinite DEF CountInv
<1>. QED  BY <1>2, <1>3, <1>4

LEMMA DownNext == ASSUME DownInv, [Next]_vars PROVE DownInv'
<1>1. CASE UNCHANGED vars
  BY <1>1 DEF vars, DownInv, TaskInv, Downloading, ModeInv, TgtType, TargetInv, CountInv, Running,
              Tasks, First, Last
<1>2. CASE Next
  BY <1>2, BeforeInv, ProbeInv, ProbeWrongSizeInv, JoinInv, AcquireInv, StallInv, RequestDoneInv, RequestFailsInv,
     OthersInv DEF Next, Request
<1>. QED  BY <1>1, <1>2

LEMMA DownAlways == Spec => []DownInv
<1>1. Init => DownInv
  BY DownInit
<1>2. DownInv /\ [Next]_vars => DownInv'
  BY DownNext
<1>. QED  BY <1>1, <1>2, PTL DEF Spec

-----------------------------------------------------------------------------
(* The theorems *)

\* The state of a download keeps its types, for any size, balance and semaphore.
THEOREM TypeCorrect == Spec => []TypeOK
<1>1. DownInv => TypeOK
  BY DEF DownInv, TaskInv, ModeInv, TgtType, CountInv, TypeOK
<1>. QED  BY <1>1, DownAlways, PTL

\* do (http.go:199): a download that reports success has left the whole
\* file and nothing after it, whatever was written by attempts that failed.
THEOREM SuccessComplete == Spec => []SuccessIsComplete
<1>1. DownInv => SuccessIsComplete
  <2>. SUFFICES ASSUME DownInv, result = "ok", ~exceeded
                PROVE  tgt = [i \in 0..Size |-> IF i = Size THEN Unwritten ELSE i]
    BY DEF SuccessIsComplete
  <2>. USE DEF DownInv, TaskInv, TargetInv
  <2>1. tgt[Size] = Unwritten /\ Size \in Nat
    BY Batch
  <2>2. ASSUME NEW i \in 0..(Size - 1) PROVE tgt[i] = i
    <3>1. PICK k \in Tasks : i \in First(k)..Last(k)
      <4>1. CASE mode = "range"
        <5>1. PICK k \in 0..(Parts - 1) : From(k) <= i /\ i <= Until(k)
          BY PartsCover
        <5>2. k \in Tasks /\ First(k) = From(k) /\ Last(k) = Until(k)
          BY <4>1 DEF Tasks, First, Last
        <5>3. From(k) \in Nat /\ Until(k) \in Nat
          BY PartRange
        <5>4. i \in First(k)..Last(k)
          BY <2>1, <5>1, <5>2, <5>3
        <5>. QED  BY <5>2, <5>4
      <4>2. CASE mode # "range"
        <5>1. 0 \in Tasks /\ First(0) = 0 /\ Last(0) = Size - 1
          BY <4>2 DEF Tasks, First, Last
        <5>. QED  BY <5>1
      <4>. QED  BY <4>1, <4>2
    <3>. QED  BY <3>1
  <2>3. \A i \in 0..Size : tgt[i] = IF i = Size THEN Unwritten ELSE i
    BY <2>1, <2>2
  <2>. QED  BY <2>3 DEF TgtType
<1>. QED  BY <1>1, DownAlways, PTL

\* downloadWithRange, downloadOneRangedPart (http.go:438-585): nobody writes after
\* the download has returned, and every unit of the semaphore is accounted for.
THEOREM NobodyLeft == Spec => []NobodyLeftBehind
<1>1. DownInv => NobodyLeftBehind
  BY DEF DownInv, TaskInv, CountInv, NobodyLeftBehind, Running, Downloading
<1>. QED  BY <1>1, DownAlways, PTL

-----------------------------------------------------------------------------
(* AsyncDownload: one path saved by several goroutines through the agents *)

\* A file has one name at most, so that nobody empties the target of another.
NameInv ==
  \A m, n \in Names : name[m] = name[n] /\ name[m] # NoFile => m = n

\* What an HTTP download has written is in the file under its name.
HttpInv ==
  \A s \in Savers :
    IF pc[s] = "http" THEN name[s] # NoFile /\ 1..hpos[s] \subseteq blocks[name[s]]
                      ELSE hpos[s] = 0

FileInv == NameInv /\ HttpInv /\ DoneIsWhole

\* A task has its file open, and a position in it, while it writes.
AgentInv ==
  \A t \in TaskIds :
    /\ task[t] = "writing" <=> tfd[t] # NoFile
    /\ task[t] # "writing" => tpos[t] = 0

\* As long as no saver has left a task: each task that may write is waited for, and
\* a file under the temporary name will be moved by somebody.
AwaitInv ==
  ~gaveUp =>
    /\ \A t \in TaskIds : task[t] \in {"created", "writing"} =>
         \E s \in Savers : pc[s] \in {"waiting", "polling"} /\ mine[s] = t
    /\ name[Temp] # NoFile => \E s \in Savers : pc[s] \in {"waiting", "polling", "moving"}

AsyncInv == AsyncTypeOK /\ FileInv /\ AgentInv /\ AwaitInv

LEMMA AsyncConstants ==
  /\ MaxTasks \in Nat /\ MaxBlocks \in Nat /\ MaxRestarts \in Nat
  /\ Savers \subseteq Names /\ Temp \in Names /\ Temp \notin Savers
  /\ \A n \in Names : n = Temp \/ n \in Savers
  /\ NoFile \notin Files /\ NoTask \notin TaskIds
BY AsyncAssumption DEF AsyncAssumption, Names, Files, NoFile, TaskIds, NoTask

-----------------------------------------------------------------------------
(* Files and names *)

LEMMA RangeCard ==
  ASSUME NEW S, NEW T, IsFiniteSet(S), NEW f \in [S -> T]
  PROVE  /\ IsFiniteSet({f[x] : x \in S})
         /\ Cardinality({f[x] : x \in S}) <= Cardinality(S)
<1>1. f \in Surjection(S, {f[x] : x \in S})
  BY DEF Surjection
<1>. QED  BY <1>1, FS_Surjection

\* There is a file for a new name: one for each name and one for each task.
LEMMA FreeFile ==
  ASSUME AsyncTypeOK, NEW n \in Names, name[n] = NoFile
  PROVE  \E f \in Files : (\A m \in Names : name[m] # f) /\ (\A t \in TaskIds : tfd[t] # f)
<1>. DEFINE Others == Names \ {n}
            A == {name[m] : m \in Others}
            B == {tfd[t] : t \in TaskIds}
<1>1. IsFiniteSet(Names) /\ Cardinality(Names) \in Nat
  BY AsyncAssumption, FS_AddElement, FS_CardinalityType DEF AsyncAssumption, Names
<1>2. IsFiniteSet(A) /\ Cardinality(A) <= Cardinality(Names) - 1 /\ Cardinality(A) \in Nat
  <2>1. IsFiniteSet(Others) /\ Cardinality(Others) = Cardinality(Names) - 1
    BY <1>1, FS_RemoveElement
  <2>. DEFINE g == [m \in Others |-> name[m]]
  <2>2. g \in [Others -> Files \cup {NoFile}]
    BY DEF AsyncTypeOK
  <2>3. A = {g[m] : m \in Others}
    OBVIOUS
  <2>4. IsFiniteSet({g[m] : m \in Others}) /\ Cardinality({g[m] : m \in Others}) <= Cardinality(Others)
    <3>. HIDE DEF g, Others
    <3>. QED  BY <2>1, <2>2, RangeCard
  <2>. QED  BY <2>1, <2>3, <2>4, FS_CardinalityType
<1>3. IsFiniteSet(B) /\ Cardinality(B) <= MaxTasks /\ Cardinality(B) \in Nat
  <2>1. IsFiniteSet(TaskIds) /\ Cardinality(TaskIds) = MaxTasks
    BY AsyncConstants, FS_Interval DEF TaskIds
  <2>2. tfd \in [TaskIds -> Files \cup {NoFile}]
    BY DEF AsyncTypeOK
  <2>3. IsFiniteSet({tfd[t] : t \in TaskIds}) /\ Cardinality({tfd[t] : t \in TaskIds}) <= Cardinality(TaskIds)
    BY <2>1, <2>2, RangeCard
  <2>. QED  BY <2>1, <2>3, FS_CardinalityType
<1>4. IsFiniteSet(A \cup B) /\ Cardinality(A \cup B) <= Cardinality(Names) - 1 + MaxTasks
  <2>. HIDE DEF A, B
  <2>1. /\ IsFiniteSet(A \cup B) /\ IsFiniteSet(A \cap B)
        /\ Cardinality(A \cup B) = Cardinality(A) + Cardinality(B) - Cardinality(A \cap B)
    BY <1>2, <1>3, FS_Union, FS_Intersection
  <2>2. Cardinality(A \cap B) \in Nat
    BY <2>1, FS_CardinalityType
  <2>. QED  BY <1>1, <1>2, <1>3, <2>1, <2>2, AsyncConstants
<1>5. Cardinality(Files) = Cardinality(Names) + MaxTasks
  <2>1. Cardinality(Names) + MaxTasks \in Nat /\ Cardinality(Names) # 0
    BY <1>1, AsyncConstants, FS_EmptySet
  <2>. QED  BY <2>1, FS_Interval DEF Files
<1>6. ~(Files \subseteq A \cup B)
  <2>. HIDE DEF A, B
  <2>. QED  BY <1>1, <1>4, <1>5, AsyncConstants, FS_Subset, FS_CardinalityType
<1>7. PICK f \in Files : f \notin A \cup B
  BY <1>6
<1>. QED  BY <1>7, AsyncConstants

LEMMA OpenTruncates ==
  ASSUME AsyncTypeOK, NameInv, NEW n \in Names, OpenTrunc(n)
  PROVE  /\ name' \in [Names -> Files \cup {NoFile}]
         /\ blocks' \in [Files -> SUBSET Whole]
         /\ NameInv'
         /\ name'[n] = Opened(n) /\ Opened(n) \in Files
         /\ \A m \in Names \ {n} : /\ name'[m] = name[m]
                                   /\ name[m] # NoFile => blocks'[name[m]] = blocks[name[m]]
<1>1. Opened(n) \in Files /\ \A m \in Names \ {n} : name[m] # Opened(n)
  <2>1. CASE name[n] = NoFile
    <3>. DEFINE Free(f) == (\A m \in Names : name[m] # f) /\ (\A t \in TaskIds : tfd[t] # f)
    <3>1. \E f \in Files : Free(f)
      BY <2>1, FreeFile
    <3>2. Opened(n) = CHOOSE f \in Files : Free(f)
      BY <2>1 DEF Opened
    <3>3. Opened(n) \in Files /\ Free(Opened(n))
      <4>. HIDE DEF Free
      <4>. QED  BY <3>1, <3>2
    <3>. QED  BY <3>3
  <2>2. CASE name[n] # NoFile
    BY <2>2 DEF Opened, NameInv, AsyncTypeOK
  <2>. QED  BY <2>1, <2>2
<1>2. name' \in [Names -> Files \cup {NoFile}] /\ name'[n] = Opened(n)
  BY <1>1 DEF OpenTrunc, AsyncTypeOK
<1>3. blocks' \in [Files -> SUBSET Whole]
  BY <1>1 DEF OpenTrunc, AsyncTypeOK
<1>4. \A m \in Names \ {n} : /\ name'[m] = name[m]
                             /\ name[m] # NoFile => blocks'[name[m]] = blocks[name[m]]
  BY <1>1 DEF OpenTrunc, AsyncTypeOK
<1>5. NameInv'
  BY <1>1, <1>2, <1>4 DEF NameInv
<1>. QED  BY <1>1, <1>2, <1>3, <1>4, <1>5

LEMMA SweepKeeps ==
  ASSUME AsyncTypeOK, blocks' = Swept
  PROVE  /\ blocks' \in [Files -> SUBSET Whole]
         /\ \A m \in Names : name'[m] \in Files => blocks'[name'[m]] = blocks[name'[m]]
BY DEF AsyncTypeOK, Swept
-----------------------------------------------------------------------------
(* Steps *)

LEMMA AsyncInitInv == AsyncInit => AsyncInv
<1>. SUFFICES ASSUME AsyncInit PROVE AsyncInv
  OBVIOUS
<1>1. AsyncTypeOK
  <2>1. tpos \in [TaskIds -> 0..MaxBlocks] /\ hpos \in [Savers -> 0..MaxBlocks]
        /\ restarts \in 0..MaxRestarts
    BY AsyncConstants DEF AsyncInit
  <2>. QED  BY <2>1 DEF AsyncInit, AsyncTypeOK
<1>. QED
  BY <1>1, AsyncConstants DEF AsyncInit, AsyncInv, FileInv, NameInv, HttpInv, DoneIsWhole, AgentInv, AwaitInv

\* Steps of a saver that leave the files and the agent alone.
LEMMA SaverStep ==
  ASSUME AsyncInv, NEW s \in Savers,
         \/ Skip(s) \/ MoveFails(s) \/ Verify(s)
         \/ Poll(s) \/ PollSuccess(s) \/ PollAgain(s) \/ PollFails(s) \/ GiveUp(s)
  PROVE  AsyncInv'
<1>. USE AsyncConstants DEF AsyncInv, Transition, taskVars, fileVars
<1>1. AsyncTypeOK'
  BY DEF Skip, Poll, PollSuccess, PollAgain, PollFails, GiveUp, MoveFails, Verify,
         AsyncTypeOK
<1>2. FileInv'
  <2>1. NameInv'
    BY DEF Skip, Poll, PollSuccess, PollAgain, PollFails, GiveUp, MoveFails, Verify,
           FileInv, NameInv
  <2>2. HttpInv'
    BY DEF Skip, Poll, PollSuccess, PollAgain, PollFails, GiveUp, MoveFails, Verify,
           FileInv, HttpInv, AsyncTypeOK
  <2>3. DoneIsWhole'
    BY DEF Skip, Poll, PollSuccess, PollAgain, PollFails, GiveUp, MoveFails, Verify,
           FileInv, DoneIsWhole, HasWhole, AsyncTypeOK
  <2>. QED  BY <2>1, <2>2, <2>3 DEF FileInv
<1>3. AgentInv'
  BY DEF Skip, Poll, PollSuccess, PollAgain, PollFails, GiveUp, MoveFails, Verify, AgentInv
<1>4. AwaitInv'
  <2>1. CASE Skip(s) \/ MoveFails(s) \/ Verify(s)
    BY <2>1 DEF Skip, MoveFails, Verify, AwaitInv, AsyncTypeOK
  <2>2. CASE Poll(s) \/ PollAgain(s)
    BY <2>2 DEF Poll, PollAgain, AwaitInv, AsyncTypeOK
  <2>3. CASE PollSuccess(s)
    BY <2>3 DEF PollSuccess, AwaitInv, AsyncTypeOK
  <2>4. CASE PollFails(s) \/ GiveUp(s)
    BY <2>4 DEF PollFails, GiveUp, AwaitInv
  <2>. QED  BY <2>1, <2>2, <2>3, <2>4
<1>. QED  BY <1>1, <1>2, <1>3, <1>4

LEMMA CreateStep ==
  ASSUME AsyncInv, NEW s \in Savers, CreateTask(s) \/ CreateFails(s)
  PROVE  AsyncInv'
<1>. USE AsyncConstants DEF AsyncInv, Transition, fileVars, MakeTask
<1>1. AsyncTypeOK'
  <2>1. task' \in [TaskIds -> {"none", "created", "writing", "success", "failed"}]
        /\ mine' \in [Savers -> TaskIds \cup {NoTask}]
    BY DEF CreateTask, CreateFails, AsyncTypeOK
  <2>. QED  BY <2>1 DEF CreateTask, CreateFails, AsyncTypeOK
<1>2. FileInv'
  BY DEF CreateTask, CreateFails, FileInv, NameInv, HttpInv, DoneIsWhole, HasWhole, AsyncTypeOK
<1>3. AgentInv'
  BY DEF CreateTask, CreateFails, AgentInv, AsyncTypeOK
<1>4. AwaitInv'
  <2>1. CASE CreateTask(s)
    <3>1. PICK t \in TaskIds : MakeTask(t) /\ mine' = [mine EXCEPT ![s] = t]
      BY <2>1 DEF CreateTask
    <3>2. pc'[s] = "waiting" /\ mine'[s] = t /\ \A u \in TaskIds \ {t} : task'[u] = task[u]
      BY <2>1, <3>1 DEF CreateTask, AsyncTypeOK
    <3>. QED  BY <2>1, <3>1, <3>2 DEF CreateTask, AwaitInv, AsyncTypeOK
  <2>2. CASE CreateFails(s)
    BY <2>2 DEF CreateFails, AwaitInv, AsyncTypeOK
  <2>. QED  BY <2>1, <2>2
<1>. QED  BY <1>1, <1>2, <1>3, <1>4

LEMMA MoveStep == ASSUME AsyncInv, NEW s \in Savers, Move(s) PROVE AsyncInv'
<1>. USE AsyncConstants DEF AsyncInv, Transition, taskVars
<1>1. /\ name' \in [Names -> Files \cup {NoFile}]
      /\ name'[s] = name[Temp] /\ name'[Temp] = NoFile
      /\ \A m \in Names : m # s /\ m # Temp => name'[m] = name[m]
  BY DEF Move, AsyncTypeOK
<1>2. /\ blocks' \in [Files -> SUBSET Whole]
      /\ \A m \in Names : name'[m] # NoFile => blocks'[name'[m]] = blocks[name'[m]]
  BY <1>1, SweepKeeps DEF Move
<1>3. AsyncTypeOK'
  BY <1>1, <1>2 DEF Move, AsyncTypeOK
<1>4. FileInv'
  <2>1. NameInv'
    BY <1>1 DEF FileInv, NameInv
  <2>2. HttpInv'
    BY <1>1, <1>2 DEF Move, FileInv, HttpInv, AsyncTypeOK
  <2>3. DoneIsWhole'
    BY <1>1, <1>2 DEF Move, FileInv, DoneIsWhole, HasWhole, AsyncTypeOK
  <2>. QED  BY <2>1, <2>2, <2>3 DEF FileInv
<1>5. AgentInv'
  BY DEF Move, AgentInv
<1>6. AwaitInv'
  BY <1>1 DEF Move, AwaitInv, AsyncTypeOK
<1>. QED  BY <1>3, <1>4, <1>5, <1>6

LEMMA HttpStep ==
  ASSUME AsyncInv, NEW s \in Savers, HttpOpen(s) \/ HttpWrite(s) \/ HttpEnd(s)
  PROVE  AsyncInv'
<1>. USE AsyncConstants DEF AsyncInv, Transition, taskVars
<1>1. CASE HttpOpen(s)
  <2>1. /\ name' \in [Names -> Files \cup {NoFile}] /\ blocks' \in [Files -> SUBSET Whole]
        /\ NameInv' /\ name'[s] \in Files
        /\ \A m \in Names \ {s} : /\ name'[m] = name[m]
                                  /\ name[m] # NoFile => blocks'[name[m]] = blocks[name[m]]
    BY <1>1, OpenTruncates DEF HttpOpen, FileInv
  <2>2. AsyncTypeOK'
    BY <1>1, <2>1 DEF HttpOpen, AsyncTypeOK
  <2>3. HttpInv'
    BY <1>1, <2>1 DEF HttpOpen, FileInv, HttpInv, AsyncTypeOK
  <2>4. DoneIsWhole'
    BY <1>1, <2>1 DEF HttpOpen, FileInv, DoneIsWhole, HasWhole, AsyncTypeOK
  <2>5. AgentInv' /\ AwaitInv'
    BY <1>1, <2>1 DEF HttpOpen, AgentInv, AwaitInv, AsyncTypeOK
  <2>. QED  BY <2>1, <2>2, <2>3, <2>4, <2>5 DEF FileInv
<1>2. CASE HttpWrite(s)
  <2>1. /\ hpos[s] \in Nat /\ hpos[s] + 1 \in Whole /\ hpos[s] + 1 \in 0..MaxBlocks
        /\ hpos' = [hpos EXCEPT ![s] = hpos[s] + 1] /\ hpos'[s] = hpos[s] + 1
    BY <1>2 DEF HttpWrite, AsyncTypeOK, Whole
  <2>2. name[s] \in Files /\ 1..hpos[s] \subseteq blocks[name[s]]
    BY <1>2 DEF HttpWrite, FileInv, HttpInv, AsyncTypeOK
  <2>3. /\ blocks' = [blocks EXCEPT ![name[s]] = blocks[name[s]] \cup {hpos[s] + 1}]
        /\ blocks' \in [Files -> SUBSET Whole]
    BY <1>2, <2>1, <2>2 DEF HttpWrite, AsyncTypeOK
  <2>4. AsyncTypeOK'
    <3>. DEFINE P == 0..MaxBlocks
    <3>1. hpos' \in [Savers -> P]
      <4>1. hpos \in [Savers -> P] /\ hpos[s] + 1 \in P
        BY <2>1 DEF AsyncTypeOK
      <4>. HIDE DEF P
      <4>. QED  BY <2>1, <4>1
    <3>. QED  BY <1>2, <2>3, <3>1 DEF HttpWrite, AsyncTypeOK
  <2>5. HttpInv'
    <3>1. 1..(hpos[s] + 1) \subseteq blocks'[name[s]]
      BY <2>1, <2>2, <2>3 DEF AsyncTypeOK
    <3>2. \A u \in Savers \ {s} : hpos'[u] = hpos[u]
      BY <2>1 DEF AsyncTypeOK
    <3>3. \A f \in Files : blocks[f] \subseteq blocks'[f]
      BY <2>2, <2>3 DEF AsyncTypeOK
    <3>. QED  BY <1>2, <2>1, <2>2, <3>1, <3>2, <3>3 DEF HttpWrite, FileInv, HttpInv, AsyncTypeOK
  <2>6. NameInv' /\ DoneIsWhole'
    <3>1. \A f \in Files : blocks[f] = Whole => blocks'[f] = Whole
      BY <2>1, <2>2, <2>3 DEF AsyncTypeOK
    <3>. QED  BY <1>2, <3>1 DEF HttpWrite, FileInv, NameInv, DoneIsWhole, HasWhole, AsyncTypeOK
  <2>7. AgentInv' /\ AwaitInv'
    BY <1>2 DEF HttpWrite, AgentInv, AwaitInv
  <2>. QED  BY <2>4, <2>5, <2>6, <2>7 DEF FileInv
<1>3. CASE HttpEnd(s)
  <2>1. pc[s] = "http" /\ name[s] \in Files /\ 1..hpos[s] \subseteq blocks[name[s]]
    BY <1>3 DEF HttpEnd, FileInv, HttpInv, AsyncTypeOK
  <2>2. pc'[s] = "done" => HasWhole(s)
    BY <1>3, <2>1 DEF HttpEnd, HasWhole, Whole, AsyncTypeOK
  <2>3. AsyncTypeOK'
    <3>. DEFINE P == 0..MaxBlocks
    <3>1. hpos' \in [Savers -> P]
      <4>1. hpos \in [Savers -> P] /\ 0 \in P
        BY DEF AsyncTypeOK
      <4>. HIDE DEF P
      <4>. QED  BY <1>3, <4>1 DEF HttpEnd
    <3>. QED  BY <1>3, <3>1 DEF HttpEnd, fileVars, AsyncTypeOK
  <2>4. HttpInv'
    BY <1>3 DEF HttpEnd, fileVars, FileInv, HttpInv, AsyncTypeOK
  <2>5. NameInv' /\ DoneIsWhole'
    BY <1>3, <2>2 DEF HttpEnd, fileVars, FileInv, NameInv, DoneIsWhole, HasWhole, AsyncTypeOK
  <2>6. AgentInv' /\ AwaitInv'
    BY <1>3 DEF HttpEnd, fileVars, AgentInv, AwaitInv, AsyncTypeOK
  <2>. QED  BY <2>3, <2>4, <2>5, <2>6 DEF FileInv
<1>. QED  BY <1>1, <1>2, <1>3

LEMMA AgentStep == ASSUME AsyncInv, NEW t \in TaskIds, Agent(t) PROVE AsyncInv'
<1>. USE AsyncConstants DEF AsyncInv
<1>1. CASE AgentOpen(t)
  <2>1. /\ name' \in [Names -> Files \cup {NoFile}] /\ blocks' \in [Files -> SUBSET Whole]
        /\ NameInv' /\ Opened(Temp) \in Files
        /\ \A m \in Savers : /\ name'[m] = name[m]
                             /\ name[m] # NoFile => blocks'[name[m]] = blocks[name[m]]
    BY <1>1, OpenTruncates DEF AgentOpen, FileInv
  <2>2. AsyncTypeOK'
    BY <1>1, <2>1 DEF AgentOpen, AsyncTypeOK
  <2>3. HttpInv' /\ DoneIsWhole'
    <3>1. pc' = pc /\ hpos' = hpos
      BY <1>1 DEF AgentOpen
    <3>2. HttpInv'
      BY <2>1, <3>1 DEF FileInv, HttpInv
    <3>3. DoneIsWhole'
      BY <2>1, <3>1 DEF FileInv, DoneIsWhole, HasWhole
    <3>. QED  BY <3>2, <3>3
  <2>4. AgentInv'
    BY <1>1, <2>1 DEF AgentOpen, AgentInv, AsyncTypeOK
  <2>5. AwaitInv'
    BY <1>1 DEF AgentOpen, AwaitInv, AsyncTypeOK
  <2>. QED  BY <2>1, <2>2, <2>3, <2>4, <2>5 DEF FileInv
<1>2. CASE AgentWrite(t)
  <2>1. /\ tpos[t] + 1 \in Whole /\ tpos[t] + 1 \in 0..MaxBlocks
        /\ tpos' = [tpos EXCEPT ![t] = tpos[t] + 1] /\ tpos'[t] = tpos[t] + 1
    BY <1>2 DEF AgentWrite, AsyncTypeOK, Whole
  <2>2. tfd[t] \in Files
    BY <1>2 DEF AgentWrite, AgentInv, AsyncTypeOK
  <2>3. /\ blocks' = [blocks EXCEPT ![tfd[t]] = blocks[tfd[t]] \cup {tpos[t] + 1}]
        /\ blocks' \in [Files -> SUBSET Whole]
    BY <1>2, <2>1, <2>2 DEF AgentWrite, AsyncTypeOK
  <2>4. AsyncTypeOK'
    <3>. DEFINE P == 0..MaxBlocks
    <3>1. tpos' \in [TaskIds -> P]
      <4>1. tpos \in [TaskIds -> P] /\ tpos[t] + 1 \in P
        BY <2>1 DEF AsyncTypeOK
      <4>. HIDE DEF P
      <4>. QED  BY <2>1, <4>1
    <3>. QED  BY <1>2, <2>3, <3>1 DEF AgentWrite, AsyncTypeOK
  <2>5. \A f \in Files : blocks[f] \subseteq blocks'[f] /\ (blocks[f] = Whole => blocks'[f] = Whole)
    BY <2>1, <2>2, <2>3 DEF AsyncTypeOK
  <2>6. FileInv'
    BY <1>2, <2>5 DEF AgentWrite, FileInv, NameInv, HttpInv, DoneIsWhole, HasWhole, AsyncTypeOK
  <2>7. AgentInv' /\ AwaitInv'
    BY <1>2 DEF AgentWrite, AgentInv, AwaitInv, AsyncTypeOK
  <2>. QED  BY <2>4, <2>6, <2>7
<1>3. CASE AgentEnd(t)
  <2>1. /\ blocks' \in [Files -> SUBSET Whole]
        /\ \A m \in Names : name'[m] # NoFile => blocks'[name'[m]] = blocks[name'[m]]
    BY <1>3, SweepKeeps DEF AgentEnd, AsyncTypeOK
  <2>2. AsyncTypeOK'
    <3>. DEFINE P == 0..MaxBlocks
    <3>1. tpos' \in [TaskIds -> P]
      <4>1. tpos \in [TaskIds -> P] /\ 0 \in P
        BY DEF AsyncTypeOK
      <4>. HIDE DEF P
      <4>. QED  BY <1>3, <4>1 DEF AgentEnd
    <3>. QED  BY <1>3, <2>1, <3>1 DEF AgentEnd, AsyncTypeOK
  <2>3. FileInv'
    BY <1>3, <2>1 DEF AgentEnd, FileInv, NameInv, HttpInv, DoneIsWhole, HasWhole, AsyncTypeOK
  <2>4. AgentInv'
    BY <1>3 DEF AgentEnd, AgentInv, AsyncTypeOK
  <2>5. AwaitInv'
    BY <1>3 DEF AgentEnd, AwaitInv, AsyncTypeOK
  <2>. QED  BY <2>2, <2>3, <2>4, <2>5
<1>. QED  BY <1>1, <1>2, <1>3 DEF Agent

LEMMA RestartStep == ASSUME AsyncInv, Restart PROVE AsyncInv'
<1>. USE AsyncConstants DEF AsyncInv, taskVars, fileVars
<1>1. AsyncTypeOK'
  <2>1. hpos' \in [Savers -> 0..MaxBlocks] /\ restarts' \in 0..MaxRestarts
    BY DEF Restart, AsyncTypeOK
  <2>. QED  BY <2>1 DEF Restart, AsyncTypeOK
<1>2. FileInv' /\ AgentInv'
  BY DEF Restart, FileInv, NameInv, HttpInv, DoneIsWhole, AgentInv
<1>3. AwaitInv'
  <2>1. ~gaveUp' => ~gaveUp /\ \A s \in Savers : pc[s] \notin {"waiting", "polling", "moving"}
    BY DEF Restart
  <2>. QED  BY <2>1 DEF Restart, AwaitInv
<1>. QED  BY <1>1, <1>2, <1>3

LEMMA AsyncNextInv == ASSUME AsyncInv, [AsyncNext]_asyncVars PROVE AsyncInv'
<1>1. CASE UNCHANGED asyncVars
  BY <1>1 DEF asyncVars, taskVars, fileVars, AsyncInv, AsyncTypeOK, FileInv, NameInv, HttpInv,
              DoneIsWhole, HasWhole, AgentInv, AwaitInv
<1>. QED
  BY <1>1, SaverStep, CreateStep, MoveStep, HttpStep, AgentStep, RestartStep DEF AsyncNext, Save

\* The invariant of savers, tasks and names, on which the next theorems rest.
THEOREM AsyncInvariance == AsyncSpec => []AsyncInv
<1>1. AsyncInv /\ [AsyncNext]_asyncVars => AsyncInv'
  BY AsyncNextInv
<1>. QED  BY AsyncInitInv, <1>1, PTL DEF AsyncSpec

\* Savers, tasks and files keep their types, for any number of savers and blocks.
THEOREM AsyncTypeCorrect == AsyncSpec => []AsyncTypeOK
BY AsyncInvariance, PTL DEF AsyncInv

\* SaveToFile: a saver that reports success leaves a whole file at the final path,
\* whoever else saves the same path, whatever the agents have failed at.
THEOREM SavedWhole == AsyncSpec => []DoneIsWhole
BY AsyncInvariance, PTL DEF AsyncInv, FileInv

\* A temporary file survives a save only if somebody stopped waiting for an agent
\* that went on to write.
THEOREM LeftoverExcused == AsyncSpec => []LeftoverOnlyAfterGivingUp
<1>1. AsyncInv => LeftoverOnlyAfterGivingUp
  BY DEF AsyncInv, AwaitInv, LeftoverOnlyAfterGivingUp
<1>. QED  BY AsyncInvariance, <1>1, PTL
=============================================================================
