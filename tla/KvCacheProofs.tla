---------------------------- MODULE KvCacheProofs ----------------------------
(***************************************************************************)
(* Proofs about KvCache, for any number of getters, of releases and of     *)
(* contents: what a Get returns was current while it ran, unless the MD5   *)
(* it was given is one that has come back.  What carries the proof is the  *)
(* order of the two calls: the value is never older than the MD5, neither  *)
(* in the hands of a getter nor in the entry (EntryIsNotOlder).            *)
(***************************************************************************)
EXTENDS KvCache, TLAPS

\* What a getter may return: the body of ReadIsCurrent.
Current(g) ==
  \E r \in began[g]..release :
    got[g] = Content[r] \/ (want[g] = Content[r] /\ Returned(r))

GetterInv(g) ==
  /\ pc[g] = "meta" => want[g] = NoValue
  /\ pc[g] = "lookup" => \E q \in began[g]..release : want[g] = Content[q]
  /\ pc[g] = "value" =>
       want[g] = NoValue \/ \E q \in began[g]..release : want[g] = Content[q]
  /\ pc[g] = "store" =>
       \E q \in began[g]..release : \E r \in q..release :
         want[g] = Content[q] /\ got[g] = Content[r]
  /\ pc[g] = "degraded" => troubled[g]
  /\ pc[g] = "ok" /\ ~troubled[g] => Current(g)

Inv == TypeOK /\ EntryIsNotOlder /\ \A g \in Getters : GetterInv(g)

\* What the proofs need to know of the constants.
LEMMA ConstLemma ==
  /\ Last \in Nat /\ Last >= 1
  /\ \A r \in 1..Last : Content[r] # NoValue
  /\ \A r \in 1..Last : Content[r] # Missing => Content[r] \in Contents
BY KvCacheAssumption DEF KvCacheAssumption

LEMMA InitInv == Init => Inv
<1> SUFFICES ASSUME Init PROVE Inv
  OBVIOUS
<1>1. TypeOK
  <2>0. release \in 1..Last /\ md5 \in Values /\ value \in Values
    BY ConstLemma DEF Init, Values
  <2>1. enabled \in BOOLEAN /\ panic \in BOOLEAN
    BY Zenon DEF Init
  <2>2. /\ want \in [Getters -> Values] /\ got \in [Getters -> Values]
        /\ troubled \in [Getters -> BOOLEAN]
    BY DEF Init, Values
  <2>3. began \in [Getters -> 1..release]
    BY DEF Init
  <2> QED BY <2>0, <2>1, <2>2, <2>3 DEF Init, TypeOK
<1>2. EntryIsNotOlder
  BY DEF Init, EntryIsNotOlder
<1>3. \A g \in Getters : GetterInv(g)
  BY DEF Init, GetterInv
<1> QED BY <1>1, <1>2, <1>3 DEF Inv

-----------------------------------------------------------------------------
\* What a hit returns is current: the entry's value is not older than its MD5.
LEMMA HitIsCurrent ==
  ASSUME Inv, NEW g \in Getters, LookupHit(g)
  PROVE  Current(g)'
<1>1. pc[g] = "lookup" /\ md5 = want[g] /\ want' = want /\ began' = began /\ release' = release
  BY DEF LookupHit, Goto
<1>2. got'[g] = value
  BY DEF LookupHit, Inv, TypeOK
<1>3. began[g] \in Nat /\ release \in Nat /\ release \in 1..Last
  BY ConstLemma DEF Inv, TypeOK
<1>4. PICK p \in began[g]..release : want[g] = Content[p]
  BY <1>1 DEF Inv, GetterInv
<1>5. want[g] # NoValue
  BY <1>3, <1>4, ConstLemma DEF Inv, TypeOK
<1>6. PICK q \in 1..release : \E r \in q..release : md5 = Content[q] /\ value = Content[r]
  BY <1>1, <1>5 DEF Inv, EntryIsNotOlder
<1>7. PICK r \in q..release : md5 = Content[q] /\ value = Content[r]
  BY <1>6
<1>8. CASE q < p
  <2>1. Returned(p)
    BY <1>1, <1>3, <1>4, <1>7, <1>8 DEF Returned
  <2> QED BY <1>1, <1>4, <2>1 DEF Current
<1>9. CASE p <= q
  <2>1. r \in began[g]..release
    BY <1>3, <1>9
  <2> QED BY <1>1, <1>2, <1>7, <2>1 DEF Current
<1> QED BY <1>3, <1>8, <1>9

\* What a getter knows stays true when time goes on without it.
LEMMA GetterFrame ==
  ASSUME TypeOK, NEW g \in Getters, GetterInv(g), release' \in Nat, release' >= release,
         pc'[g] = pc[g], want'[g] = want[g], got'[g] = got[g],
         began'[g] = began[g], troubled'[g] = troubled[g]
  PROVE  GetterInv(g)'
<1>1. began[g] \in Nat /\ release \in Nat
  BY ConstLemma DEF TypeOK
<1>2. \A q \in began[g]..release : q \in began[g]..release'
  BY <1>1
<1>3. \A q \in began[g]..release : \A r \in q..release : r \in q..release'
  BY <1>1
<1>4. Current(g) => Current(g)'
  BY <1>2 DEF Current
<1> QED BY <1>2, <1>3, <1>4 DEF GetterInv

-----------------------------------------------------------------------------
(* The steps *)

\* The steps of one getter.
Step(g) ==
  \/ Get(g) \/ MetaFound(g) \/ MetaNone(g) \/ LookupHit(g) \/ LookupMiss(g)
  \/ ValueFound(g) \/ ValueRefused(g) \/ ValueUnavailable(g)
  \/ DegradedHit(g) \/ DegradedMiss(g) \/ DegradedPanic(g)
  \/ Store(g) \/ Return(g)

\* A getter changes its own state, and the entry only by storing.
LEMMA StepFrame ==
  ASSUME TypeOK, NEW g \in Getters, Step(g)
  PROVE  /\ release' = release
         /\ Store(g) \/ UNCHANGED entry
         /\ \A h \in Getters \ {g} :
              /\ pc'[h] = pc[h] /\ want'[h] = want[h] /\ got'[h] = got[h]
              /\ began'[h] = began[h] /\ troubled'[h] = troubled[h]
<1> USE DEF TypeOK, Goto, entry, getting
<1>1. CASE Get(g) \/ MetaFound(g) \/ MetaNone(g)
  BY <1>1 DEF Get, MetaFound, MetaNone
<1>2. CASE LookupHit(g) \/ LookupMiss(g)
  BY <1>2 DEF LookupHit, LookupMiss
<1>3. CASE ValueFound(g) \/ ValueRefused(g) \/ ValueUnavailable(g)
  BY <1>3 DEF ValueFound, ValueRefused, ValueUnavailable
<1>4. CASE DegradedHit(g) \/ DegradedMiss(g) \/ DegradedPanic(g)
  BY <1>4 DEF DegradedHit, DegradedMiss, DegradedPanic
<1>5. CASE Store(g) \/ Return(g)
  BY <1>5 DEF Store, Return
<1> QED BY <1>1, <1>2, <1>3, <1>4, <1>5 DEF Step

\* What a getter stores has an MD5 and a value.
LEMMA StoreKnows ==
  ASSUME Inv, NEW g \in Getters, pc[g] = "store"
  PROVE  /\ want[g] # NoValue /\ got[g] # NoValue
         /\ \E q \in 1..release : \E r \in q..release :
              want[g] = Content[q] /\ got[g] = Content[r]
<1>1. began[g] \in Nat /\ began[g] >= 1 /\ release \in Nat /\ release \in 1..Last
  BY ConstLemma DEF Inv, TypeOK
<1>0. PICK q \in began[g]..release : \E r \in q..release :
        want[g] = Content[q] /\ got[g] = Content[r]
  BY DEF Inv, GetterInv
<1>2. PICK r \in q..release : want[g] = Content[q] /\ got[g] = Content[r]
  BY <1>0
<1>3. q \in 1..Last /\ r \in 1..Last /\ q \in 1..release
  BY <1>1, ConstLemma
<1> QED BY <1>2, <1>3, ConstLemma

LEMMA TypeStep ==
  ASSUME Inv, NEW g \in Getters, Step(g)
  PROVE  TypeOK'
<1> USE DEF Inv, TypeOK, Goto, entry, getting
<1>0. release \in 1..Last /\ (Now # Missing => Now \in Values)
  BY ConstLemma DEF Now, Values
<1>1. CASE Get(g)
  BY <1>0, <1>1, ConstLemma DEF Get, Values
<1>2. CASE MetaFound(g) \/ MetaNone(g)
  BY <1>0, <1>2 DEF MetaFound, MetaNone
<1>3. CASE LookupHit(g) \/ LookupMiss(g)
  BY <1>3 DEF LookupHit, LookupMiss
<1>4. CASE ValueFound(g) \/ ValueRefused(g) \/ ValueUnavailable(g)
  BY <1>0, <1>4 DEF ValueFound, ValueRefused, ValueUnavailable
<1>5. CASE DegradedHit(g) \/ DegradedMiss(g) \/ DegradedPanic(g)
  BY <1>5 DEF DegradedHit, DegradedMiss, DegradedPanic
<1>6. CASE Store(g)
  BY <1>6, StoreKnows DEF Store
<1>7. CASE Return(g)
  BY <1>7 DEF Return, Values
<1> QED BY <1>1, <1>2, <1>3, <1>4, <1>5, <1>6, <1>7 DEF Step

LEMMA EntryStep ==
  ASSUME Inv, NEW g \in Getters, Step(g)
  PROVE  EntryIsNotOlder'
<1>1. release' = release
  BY StepFrame DEF Inv
<1>2. CASE UNCHANGED entry
  BY <1>1, <1>2 DEF Inv, EntryIsNotOlder, entry
<1>3. CASE Store(g) /\ ~UNCHANGED entry
  <2>1. md5' = want[g] /\ value' = got[g] /\ pc[g] = "store"
    BY <1>3 DEF Store, Goto, entry
  <2> QED BY <1>1, <2>1, StoreKnows DEF EntryIsNotOlder
<1> QED BY <1>2, <1>3, StepFrame DEF Inv

LEMMA GetterStep ==
  ASSUME Inv, NEW g \in Getters, Step(g)
  PROVE  GetterInv(g)'
<1>0. /\ began[g] \in Nat /\ release \in Nat /\ began[g] <= release
      /\ release \in began[g]..release
  BY ConstLemma DEF Inv, TypeOK
<1> USE DEF Inv, TypeOK, Goto, GetterInv
<1>1. CASE Get(g)
  BY <1>1 DEF Get
<1>2. CASE MetaFound(g)
  BY <1>0, <1>2 DEF MetaFound, Now
<1>3. CASE MetaNone(g)
  BY <1>3 DEF MetaNone
<1>4. CASE LookupHit(g)
  <2>1. Current(g)'
    BY <1>4, HitIsCurrent
  <2>2. pc'[g] = "ok"
    BY <1>4 DEF LookupHit
  <2> QED BY <2>1, <2>2
<1>5. CASE LookupMiss(g)
  BY <1>5 DEF LookupMiss
<1>6. CASE ValueFound(g)
  <2>1. got'[g] = Content[release] /\ want' = want /\ began' = began /\ release' = release
    BY <1>6 DEF ValueFound, Now
  <2>2. CASE want[g] = NoValue
    <3>1. pc'[g] = "ok"
      BY <1>6, <2>2 DEF ValueFound
    <3>2. Current(g)'
      BY <1>0, <2>1 DEF Current
    <3> QED BY <3>1, <3>2
  <2>3. CASE want[g] # NoValue
    <3>1. pc[g] = "value" /\ pc'[g] = "store"
      BY <1>6, <2>3 DEF ValueFound
    <3>2. PICK q \in began[g]..release : want[g] = Content[q]
      BY <2>3, <3>1
    <3>3. release \in q..release
      BY <1>0
    <3> QED BY <2>1, <3>1, <3>2, <3>3
  <2> QED BY <2>2, <2>3
<1>7. CASE ValueRefused(g) \/ ValueUnavailable(g)
  BY <1>7 DEF ValueRefused, ValueUnavailable
<1>8. CASE DegradedHit(g) \/ DegradedMiss(g) \/ DegradedPanic(g)
  BY <1>8 DEF DegradedHit, DegradedMiss, DegradedPanic, getting
<1>9. CASE Store(g)
  <2>1. pc[g] = "store" /\ pc'[g] = "ok" /\ got' = got /\ want' = want
        /\ began' = began /\ release' = release
    BY <1>9 DEF Store
  <2>2. PICK r \in began[g]..release : got[g] = Content[r]
    <3>1. PICK q \in began[g]..release : \E r \in q..release : got[g] = Content[r]
      BY <2>1
    <3>2. PICK r \in q..release : got[g] = Content[r]
      BY <3>1
    <3>3. r \in began[g]..release
      BY <1>0
    <3> QED BY <3>2, <3>3
  <2>3. Current(g)'
    BY <2>1, <2>2 DEF Current
  <2> QED BY <2>1, <2>3
<1>10. CASE Return(g)
  BY <1>10 DEF Return
<1> QED BY <1>1, <1>2, <1>3, <1>4, <1>5, <1>6, <1>7, <1>8, <1>9, <1>10 DEF Step

LEMMA PublishInv == Inv /\ Publish => Inv'
<1> SUFFICES ASSUME Inv, Publish PROVE Inv'
  OBVIOUS
<1>1. release \in Nat /\ release' = release + 1 /\ release' \in 1..Last
  BY ConstLemma DEF Inv, TypeOK, Publish
<1>2. TypeOK'
  BY <1>1 DEF Inv, TypeOK, Publish, entry, getting
<1>3. EntryIsNotOlder'
  <2>1. \A q \in 1..release : q \in 1..release' /\ \A r \in q..release : r \in q..release'
    BY <1>1
  <2> QED BY <2>1 DEF Inv, EntryIsNotOlder, Publish, entry
<1>4. ASSUME NEW g \in Getters PROVE GetterInv(g)'
  BY <1>1, GetterFrame DEF Inv, Publish, getting
<1> QED BY <1>2, <1>3, <1>4 DEF Inv

LEMMA StutterInv == Inv /\ UNCHANGED vars => Inv'
<1> SUFFICES ASSUME Inv, UNCHANGED vars PROVE Inv'
  OBVIOUS
<1> USE DEF vars
<1>1. TypeOK'
  BY DEF Inv, TypeOK
<1>2. EntryIsNotOlder'
  BY DEF Inv, EntryIsNotOlder
<1>3. ASSUME NEW g \in Getters PROVE GetterInv(g)'
  BY DEF Inv, GetterInv, Current
<1> QED BY <1>1, <1>2, <1>3 DEF Inv

LEMMA NextInv == Inv /\ [Next]_vars => Inv'
<1> SUFFICES ASSUME Inv, [Next]_vars PROVE Inv'
  OBVIOUS
<1>1. ASSUME NEW g \in Getters, Step(g) PROVE Inv'
  <2>1. ASSUME NEW h \in Getters \ {g} PROVE GetterInv(h)'
    <3>1. release' = release /\ release \in Nat
      BY <1>1, StepFrame, ConstLemma DEF Inv, TypeOK
    <3> QED BY <1>1, <2>1, <3>1, StepFrame, GetterFrame DEF Inv
  <2>2. TypeOK' /\ EntryIsNotOlder' /\ GetterInv(g)'
    BY <1>1, TypeStep, EntryStep, GetterStep
  <2> QED BY <2>1, <2>2 DEF Inv
<1>2. CASE Evict
  <2>1. TypeOK' /\ EntryIsNotOlder'
    BY <1>2 DEF Evict, Inv, TypeOK, Values, EntryIsNotOlder, getting
  <2>2. ASSUME NEW g \in Getters PROVE GetterInv(g)'
    BY <1>2, GetterFrame, ConstLemma DEF Evict, Inv, TypeOK, getting
  <2> QED BY <2>1, <2>2 DEF Inv
<1>3. CASE Publish
  BY <1>3, PublishInv
<1>4. CASE UNCHANGED vars
  BY <1>4, StutterInv
<1> QED BY <1>1, <1>2, <1>3, <1>4 DEF Next, Step

-----------------------------------------------------------------------------
THEOREM Invariance == Spec => []Inv
<1>1. Init => Inv
  BY InitInv
<1>2. Inv /\ [Next]_vars => Inv'
  BY NextInv
<1> QED BY <1>1, <1>2, PTL DEF Spec

\* The types of KvCache.
THEOREM TypeCorrect == Spec => []TypeOK
<1>1. Inv => TypeOK
  BY DEF Inv
<1> QED BY <1>1, Invariance, PTL

\* client.Get (client.go:460-530) does not return what was no longer current when
\* it was called, unless an MD5 has come back or a call failed.
THEOREM ReadsCurrent == Spec => []ReadIsCurrent
<1>1. Inv => ReadIsCurrent
  BY DEF Inv, GetterInv, ReadIsCurrent, Current
<1> QED BY <1>1, Invariance, PTL

\* The entry of the cache never has a value that is older than its MD5.
THEOREM EntryNotOlder == Spec => []EntryIsNotOlder
<1>1. Inv => EntryIsNotOlder
  BY DEF Inv
<1> QED BY <1>1, Invariance, PTL
=============================================================================
