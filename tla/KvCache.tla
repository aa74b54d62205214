------------------------------- MODULE KvCache -------------------------------
(***************************************************************************)
(* Reading one key with client.Get (client/client.go) over the in-memory   *)
(* cache (internal/cache/memcache.go) and the feed server.  Get asks the   *)
(* server for the MD5 the key has in the release that is published, takes  *)
(* the value from the cache if the entry has that MD5, and asks the server *)
(* for the value if not.  The two questions are two calls: a release may   *)
(* be published between them.  When the server cannot be reached the entry *)
(* is returned whatever its MD5.                                           *)
(*                                                                         *)
(* The server is external: it publishes its releases in order, and         *)
(* Content[r] is the content of the key in release r, which stands for its *)
(* MD5 as well.  A release that takes back an earlier one is a release     *)
(* with the content of the earlier one.  Calls fail at any time.           *)
(***************************************************************************)
EXTENDS Integers

CONSTANTS
  Getters,   \* goroutines that call Get
  Last,      \* how many releases are published
  Contents,  \* contents of the key
  Content,   \* Content[r]: the content in release r, or Missing
  Missing,   \* a release without the key
  NoValue

ASSUME KvCacheAssumption ==
  /\ Last \in Nat \ {0}
  /\ Content \in [1..Last -> Contents \cup {Missing}]
  /\ Missing \notin Contents /\ NoValue \notin Contents /\ NoValue # Missing

VARIABLES
  enabled,  \* cache.EnableMemCache
  release,  \* the release that is published
  md5,      \* the MD5 of the cached entry; NoValue if there is no entry
  value,    \* the value of the cached entry
  pc,       \* where each getter is
  want,     \* the MD5 it got from the server, NoValue if none
  got,      \* the value it got from the server, and then returns
  began,    \* history: the release that was published when Get was called
  troubled, \* history: a call of this Get failed, or the server had no key
  panic     \* a nil response was used

entry   == <<md5, value>>
getting == <<pc, want, got, began, troubled>>
vars    == <<enabled, release, md5, value, pc, want, got, began, troubled, panic>>

Values == Contents \cup {NoValue}

TypeOK ==
  /\ enabled \in BOOLEAN /\ release \in 1..Last /\ panic \in BOOLEAN
  /\ md5 \in Values /\ value \in Values /\ (md5 = NoValue <=> value = NoValue)
  /\ pc \in [Getters -> {"idle", "meta", "lookup", "value", "degraded", "store", "ok", "error"}]
  /\ want \in [Getters -> Values] /\ got \in [Getters -> Values]
  /\ began \in [Getters -> 1..release]
  /\ troubled \in [Getters -> BOOLEAN]

Init ==
  /\ enabled \in BOOLEAN
  /\ release = 1 /\ md5 = NoValue /\ value = NoValue
  /\ pc = [g \in Getters |-> "idle"]
  /\ want = [g \in Getters |-> NoValue] /\ got = [g \in Getters |-> NoValue]
  /\ began = [g \in Getters |-> 1] /\ troubled = [g \in Getters |-> FALSE]
  /\ panic = FALSE

\* The content of the key in the release that is published.
Now == Content[release]

Goto(g, from, to) == ~panic /\ pc[g] = from /\ pc' = [pc EXCEPT ![g] = to]

-----------------------------------------------------------------------------
(* Plausible mistakes in the actions below *)

LookupHitAny(g) ==           \* an entry is used without comparing its MD5
  /\ md5 # NoValue
  /\ Goto(g, "lookup", "ok")
  /\ got' = [got EXCEPT ![g] = value]
  /\ UNCHANGED <<enabled, release, entry, want, began, troubled, panic>>

StoreNow(g) ==               \* the MD5 is asked for after the value
  /\ Goto(g, "store", "ok")
  /\ Now # Missing
  /\ md5' = Now /\ value' = got[g]
  /\ UNCHANGED <<enabled, release, want, got, began, troubled, panic>>

-----------------------------------------------------------------------------
(* Get *)

Get(g) ==
  /\ Goto(g, "idle", IF enabled THEN "meta" ELSE "value")
  /\ began' = [began EXCEPT ![g] = release]
  /\ troubled' = [troubled EXCEPT ![g] = FALSE]
  /\ want' = [want EXCEPT ![g] = NoValue]
  /\ UNCHANGED <<enabled, release, entry, got, panic>>

\* PullKvs: the release has the key ...
MetaFound(g) ==
  /\ Now # Missing
  /\ Goto(g, "meta", "lookup")
  /\ want' = [want EXCEPT ![g] = Now]
  /\ UNCHANGED <<enabled, release, entry, got, began, troubled, panic>>

\* ... or it does not, or the call fails: Get goes on without an MD5.
MetaNone(g) ==
  /\ Goto(g, "meta", "value")
  /\ troubled' = [troubled EXCEPT ![g] = TRUE]
  /\ UNCHANGED <<enabled, release, entry, want, got, began, panic>>

LookupHit(g) ==
  /\ md5 = want[g]
  /\ Goto(g, "lookup", "ok")
  /\ got' = [got EXCEPT ![g] = value]
  /\ UNCHANGED <<enabled, release, entry, want, began, troubled, panic>>

LookupMiss(g) ==
  /\ md5 # want[g]
  /\ Goto(g, "lookup", "value")
  /\ UNCHANGED <<enabled, release, entry, want, got, began, troubled, panic>>

\* GetKvValue: the value is cached only if an MD5 is known.
ValueFound(g) ==
  /\ Now # Missing
  /\ Goto(g, "value", IF want[g] = NoValue THEN "ok" ELSE "store")
  /\ got' = [got EXCEPT ![g] = Now]
  /\ UNCHANGED <<enabled, release, entry, want, began, troubled, panic>>

\* The server has no such key, or refuses: the error is returned.
ValueRefused(g) ==
  /\ Goto(g, "value", "error")
  /\ troubled' = [troubled EXCEPT ![g] = TRUE]
  /\ UNCHANGED <<enabled, release, entry, want, got, began, panic>>

\* The server cannot be reached.
ValueUnavailable(g) ==
  /\ Goto(g, "value", "degraded")
  /\ troubled' = [troubled EXCEPT ![g] = TRUE]
  /\ UNCHANGED <<enabled, release, entry, want, got, began, panic>>

DegradedHit(g) ==
  /\ enabled /\ md5 # NoValue
  /\ Goto(g, "degraded", "ok")
  /\ got' = [got EXCEPT ![g] = value]
  /\ UNCHANGED <<enabled, release, entry, want, began, troubled, panic>>

DegradedMiss(g) ==
  /\ enabled /\ md5 = NoValue
  /\ Goto(g, "degraded", "error")
  /\ UNCHANGED <<enabled, release, entry, want, got, began, troubled, panic>>

\* Without a cache the switch is left, and resp is nil.
DegradedPanic(g) ==
  /\ ~panic /\ pc[g] = "degraded" /\ ~enabled
  /\ panic' = TRUE
  /\ UNCHANGED <<enabled, release, entry, getting>>

\* Set, which may fail for want of room: the error is logged.
Store(g) ==
  /\ Goto(g, "store", "ok")
  /\ \/ md5' = want[g] /\ value' = got[g]
     \/ UNCHANGED entry
  /\ UNCHANGED <<enabled, release, want, got, began, troubled, panic>>

Return(g) ==
  /\ ~panic /\ pc[g] \in {"ok", "error"}
  /\ pc' = [pc EXCEPT ![g] = "idle"]
  /\ got' = [got EXCEPT ![g] = NoValue]
  /\ UNCHANGED <<enabled, release, entry, want, began, troubled, panic>>

-----------------------------------------------------------------------------
\* The cache gives the room of its oldest entries to other keys.
Evict ==
  /\ ~panic /\ md5 # NoValue
  /\ md5' = NoValue /\ value' = NoValue
  /\ UNCHANGED <<enabled, release, getting, panic>>

Publish ==
  /\ ~panic /\ release < Last
  /\ release' = release + 1
  /\ UNCHANGED <<enabled, entry, getting, panic>>

Next ==
  \/ \E g \in Getters :
       \/ Get(g) \/ MetaFound(g) \/ MetaNone(g) \/ LookupHit(g) \/ LookupMiss(g)
       \/ ValueFound(g) \/ ValueRefused(g) \/ ValueUnavailable(g)
       \/ DegradedHit(g) \/ DegradedMiss(g) \/ DegradedPanic(g)
       \/ Store(g) \/ Return(g)
  \/ Evict \/ Publish

Spec == Init /\ [][Next]_vars

-----------------------------------------------------------------------------
(* Properties *)

\* The content of the key in release r has come back: an earlier one had it too.
Returned(r) == \E q \in 1..(r - 1) : Content[q] = Content[r]

\* A Get none of whose calls failed returns a content that the key had while Get
\* ran, although MD5 and value are fetched by two calls and other getters write
\* the entry in between.  The one exception is an MD5 that has come back.
ReadIsCurrent ==
  \A g \in Getters : pc[g] = "ok" /\ ~troubled[g] =>
    \E r \in began[g]..release :
      got[g] = Content[r] \/ (want[g] = Content[r] /\ Returned(r))

\* The two parts of the entry may be of two releases, but the value is never the
\* older one, in whatever order the getters come to write the entry: a stale
\* value is not kept under a new MD5.
EntryIsNotOlder ==
  md5 # NoValue =>
    \E q \in 1..release : \E r \in q..release : md5 = Content[q] /\ value = Content[r]
=============================================================================
