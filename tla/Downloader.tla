------------------------------ MODULE Downloader ------------------------------
(***************************************************************************)
(* One download over HTTP (internal/downloader/http.go).  The addresses of *)
(* the file are tried in order; a file larger than the balance is fetched  *)
(* in parts of twice the balance, one goroutine each, if the server says   *)
(* that it supports ranges, and in one piece otherwise.  Every part is     *)
(* retried on its own, and a request holds one unit of a semaphore that    *)
(* all downloads share.  Neither the client nor the request's context has a *)
(* timeout (http.go:180, 123): a body may stall, for ever perhaps, and its  *)
(* request keeps the unit meanwhile.                                       *)
(*                                                                         *)
(* A byte is its position in the file.  One step writes a whole response:  *)
(* the parts of a well-behaved server do not overlap.  The target is a     *)
(* file, emptied once, before the first request (O_TRUNC), and never       *)
(* again; a download to a slice, which has no offsets, is not considered.  *)
(***************************************************************************)
EXTENDS Integers, FiniteSets

CONSTANTS
  Uris,       \* number of addresses the feed server returned
  Size,       \* size of the file
  Balance,    \* balanceDownloadByteSize
  MaxTries,   \* maxRetryCount, the same for a part and for a direct download
  Weight      \* weight of the semaphore

ASSUME DownloaderAssumption ==
  /\ Uris \in Nat \ {0} /\ Size \in Nat /\ Balance \in Nat \ {0}
  /\ MaxTries \in Nat \ {0} /\ Weight \in Nat \ {0}

VARIABLES
  uri,     \* the address in use
  mode,    \* how this address is downloaded from
  st,      \* where the goroutine of each part is
  tries,   \* failed requests of each part
  used,    \* semaphore units in use
  others,  \* ... by other downloads
  stuck,   \* ... of which those whose body has stalled
  tgt,     \* the target: the byte at each position, and one position past the end
  exceeded,  \* history: a server has sent more than it was asked for
  result

vars == <<uri, mode, st, tries, used, others, stuck, tgt, exceeded, result>>

Unwritten == -1
Garbage   == Size

-----------------------------------------------------------------------------
(* downloadWithRange: the parts *)

BatchSize == 2 * Balance
Parts == (Size \div BatchSize) + (IF Size % BatchSize > 0 THEN 1 ELSE 0)
From(k) == k * BatchSize
Until(k) == (IF k = Parts - 1 THEN Size ELSE From(k) + BatchSize) - 1

Slots == 0..Parts     \* room for the parts and for a direct download
Tasks == IF mode = "range" THEN 0..(Parts - 1) ELSE {0}
First(k) == IF mode = "range" THEN From(k) ELSE 0
Last(k)  == IF mode = "range" THEN Until(k) ELSE Size - 1

\* A request holds its unit until its body has been read or has broken off.
Holding == {"running", "stalled"}
Downloading == mode \in {"direct", "range"} /\ result = "none"

TypeOK ==
  /\ uri \in 1..Uris
  /\ mode \in {"open", "urls", "none", "direct", "range"}
  /\ st \in [Slots -> {"waiting", "ok", "failed"} \cup Holding]
  /\ tries \in [Slots -> 0..MaxTries]
  /\ others \in 0..Weight /\ used \in 0..Weight /\ stuck \in 0..others
  /\ tgt \in [0..Size -> -1..Size]
  /\ exceeded \in BOOLEAN /\ result \in {"none", "ok", "error"}

\* The target may have content already, longer than the file.
Init ==
  /\ uri = 1 /\ mode = "open"
  /\ st = [k \in Slots |-> "waiting"] /\ tries = [k \in Slots |-> 0]
  /\ used = 0 /\ others = 0 /\ stuck = 0
  /\ tgt \in {[i \in 0..Size |-> Unwritten], [i \in 0..Size |-> Garbage]}
  /\ exceeded = FALSE /\ result = "none"

-----------------------------------------------------------------------------
(* Plausible mistakes in the definitions below *)

RequestFailsLeak(k) ==       \* the semaphore is not released on an error
  /\ Downloading /\ k \in Tasks /\ st[k] \in Holding
  /\ tries' = [tries EXCEPT ![k] = @ + 1]
  /\ st' = [st EXCEPT ![k] = IF tries'[k] = MaxTries THEN "failed" ELSE "waiting"]
  /\ UNCHANGED <<uri, mode, used, others, stuck, tgt, exceeded, result>>

JoinFirst ==                 \* the first part that ends ends the download
  /\ Downloading
  /\ \E k \in Tasks : st[k] = "ok"
  /\ result' = "ok"
  /\ UNCHANGED <<uri, mode, st, tries, used, others, stuck, tgt, exceeded>>

-----------------------------------------------------------------------------
(* Download: the target is opened and emptied, and do asks for the addresses *)

Open ==
  /\ result = "none" /\ mode = "open"
  /\ \/ /\ mode' = "urls" /\ tgt' = [i \in 0..Size |-> Unwritten]
        /\ UNCHANGED result
     \/ result' = "error" /\ UNCHANGED <<mode, tgt>>
  /\ UNCHANGED <<uri, st, tries, used, others, stuck, exceeded>>

\* GetDownloadURL, with a context that has no deadline: it may never return.
GetUrls ==
  /\ result = "none" /\ mode = "urls"
  /\ \/ mode' = "none" /\ UNCHANGED result
     \/ result' = "error" /\ UNCHANGED mode
  /\ UNCHANGED <<uri, st, tries, used, others, stuck, tgt, exceeded>>

-----------------------------------------------------------------------------
(* download: a small file directly, a large one as the HEAD request says *)

Probe(m) ==
  /\ result = "none" /\ mode = "none" /\ m \in {"direct", "range"}
  /\ m = "range" => Size > Balance
  /\ mode' = m
  /\ st' = [k \in Slots |-> "waiting"] /\ tries' = [k \in Slots |-> 0]
  /\ UNCHANGED <<uri, used, others, stuck, tgt, exceeded, result>>

\* do: the next address, or the error.
NextUri ==
  IF uri < Uris THEN uri' = uri + 1 /\ mode' = "none" /\ UNCHANGED result
                ELSE result' = "error" /\ UNCHANGED <<uri, mode>>

\* The server has a file of another size.
ProbeWrongSize ==
  /\ result = "none" /\ mode = "none" /\ Size > Balance
  /\ NextUri
  /\ UNCHANGED <<st, tries, used, others, stuck, tgt, exceeded>>

-----------------------------------------------------------------------------
(* downloadOneRangedPart and downloadDirectly, with their retries, and write *)

Acquire(k) ==
  /\ Downloading /\ k \in Tasks /\ st[k] = "waiting" /\ used < Weight
  /\ used' = used + 1
  /\ st' = [st EXCEPT ![k] = "running"]
  /\ UNCHANGED <<uri, mode, tries, others, stuck, tgt, exceeded, result>>

\* The target after the first n bytes of part k.
Written(k, n) ==
  [i \in 0..Size |-> IF i \in First(k)..(First(k) + n - 1) THEN i ELSE tgt[i]]

Wanted(k) == Last(k) - First(k) + 1

RequestDone(k) ==
  /\ Downloading /\ k \in Tasks /\ st[k] \in Holding
  /\ tgt' = Written(k, Wanted(k))
  /\ st' = [st EXCEPT ![k] = "ok"] /\ used' = used - 1
  /\ UNCHANGED <<uri, mode, tries, others, stuck, exceeded, result>>

\* The request fails, or the body breaks off after n bytes ...
BodyShort(k) ==
  /\ \E n \in 0..Wanted(k) : tgt' = Written(k, n)
  /\ UNCHANGED exceeded

\* ... or it is longer than asked for, which is noticed when it is written.
BodyLong(k) ==
  /\ tgt' = [Written(k, Wanted(k)) EXCEPT ![Last(k) + 1] = Garbage]
  /\ exceeded' = TRUE

\* The connection is up and nothing comes: body.Read (http.go:630) does not return.
Stall(k) ==
  /\ Downloading /\ k \in Tasks /\ st[k] = "running"
  /\ st' = [st EXCEPT ![k] = "stalled"]
  /\ UNCHANGED <<uri, mode, tries, used, others, stuck, tgt, exceeded, result>>

RequestFails(k) ==
  /\ Downloading /\ k \in Tasks /\ st[k] \in Holding
  /\ BodyShort(k) \/ BodyLong(k)
  /\ tries' = [tries EXCEPT ![k] = @ + 1]
  /\ st' = [st EXCEPT ![k] = IF tries'[k] = MaxTries THEN "failed" ELSE "waiting"]
  /\ used' = used - 1
  /\ UNCHANGED <<uri, mode, others, stuck, result>>

\* wg.Wait
Join ==
  /\ Downloading
  /\ \A k \in Tasks : st[k] \in {"ok", "failed"}
  /\ IF \A k \in Tasks : st[k] = "ok"
     THEN result' = "ok" /\ UNCHANGED <<uri, mode>>
     ELSE NextUri
  /\ UNCHANGED <<st, tries, used, others, stuck, tgt, exceeded>>

-----------------------------------------------------------------------------
\* The downloads of other files share the semaphore, and stall as well.
OtherAcquires ==
  /\ used < Weight /\ used' = used + 1 /\ others' = others + 1
  /\ UNCHANGED <<uri, mode, st, tries, stuck, tgt, exceeded, result>>
OtherStalls ==
  /\ stuck < others /\ stuck' = stuck + 1
  /\ UNCHANGED <<uri, mode, st, tries, used, others, tgt, exceeded, result>>
OtherReleases ==
  /\ stuck < others /\ used' = used - 1 /\ others' = others - 1
  /\ UNCHANGED <<uri, mode, st, tries, stuck, tgt, exceeded, result>>
OtherGoesOn ==
  /\ stuck > 0 /\ stuck' = stuck - 1 /\ used' = used - 1 /\ others' = others - 1
  /\ UNCHANGED <<uri, mode, st, tries, tgt, exceeded, result>>

Request(k) == RequestDone(k) \/ RequestFails(k)

Next ==
  \/ Open \/ GetUrls
  \/ (\E m \in {"direct", "range"} : Probe(m)) \/ ProbeWrongSize
  \/ \E k \in Slots : Acquire(k) \/ Stall(k) \/ Request(k)
  \/ Join
  \/ OtherAcquires \/ OtherStalls \/ OtherReleases \/ OtherGoesOn

Spec == Init /\ [][Next]_vars

\* A request whose body does not stall ends, one way or the other (the dial, the
\* handshake and the response header have timeouts); the semaphore serves in
\* order.  Nothing is asked of GetDownloadURL and of a body that has stalled.
Fairness ==
  /\ WF_vars(Open \/ (\E m \in {"direct", "range"} : Probe(m)) \/ ProbeWrongSize)
  /\ \A k \in Slots : SF_vars(Acquire(k)) /\ WF_vars(st[k] = "running" /\ Request(k))
  /\ WF_vars(Join) /\ WF_vars(OtherReleases)

FairSpec == Spec /\ Fairness

-----------------------------------------------------------------------------
(* Properties *)

\* A download that succeeds leaves the file, byte for byte, and nothing after its
\* end, whatever failed attempts at this and at other addresses left in the
\* target before.  It relies on servers that send no more than they are asked
\* for: the size check (http.go:667) counts one response and not the file.
SuccessIsComplete ==
  result = "ok" /\ ~exceeded =>
    tgt = [i \in 0..Size |-> IF i = Size THEN Unwritten ELSE i]

\* No goroutine writes to the target, or holds the semaphore, after the download
\* has returned and the file is closed, also when it returned an error.
NobodyLeftBehind ==
  /\ result # "none" => \A k \in Slots : st[k] \notin Holding
  /\ used = others + Cardinality({k \in Slots : st[k] \in Holding})

\* What keeps a download from its end: a body of its own that has stalled, or
\* bodies of other downloads that hold the whole semaphore.
Starved == (\E k \in Slots : st[k] = "stalled") \/ stuck = Weight

\* A download ends, although the others never stop using the semaphore and bodies
\* may stall for any time, unless GetDownloadURL never answers or some body never
\* goes on: http.go:180 and 123 set no timeout, the header Request-Timeout of
\* http.go:594-600 is a wish to the server.
Terminates == <>(result # "none") \/ <>[](mode = "urls") \/ <>[]Starved
=============================================================================
