-------------------------- MODULE AVBufferPool_proofs --------------------------
(***************************************************************************)
(* Proofs about AVBufferPool for any threads, entries and references: all  *)
(* of its safety properties follow from one inductive invariant.           *)
(***************************************************************************)
EXTENDS AVBufferPool, DistinctLists, FiniteSetTheorems, TLAPS

\* Which local variables of a call are set, and who may be in it.
LocalInv == \A t \in Threads :
  /\ pc[t] \in {"got", "count", "write", "last", "release", "push"} => cur[t] \in Entries
  /\ freeAVBuffer[t] => /\ cur[t] \in Entries
                        /\ pc[t] \in {"release", "push", "changed", "drop", "free pool",
                                      "free buffer"}
  /\ pc[t] \in {"get", "got", "failed", "count"} => handle
  /\ pc[t] = "flush" => ~handle

\* A reference a thread has just got, or is writing through, is the only one.
FreshInv == \A t \in Threads : pc[t] \in {"got", "count", "write"} =>
  \E r \in Refs : RefsTo(cur[t]) = {r} /\ holder[r] = t

\* Somebody refers to the buffer, or has just dropped the last reference.
InUse(e) == RefsTo(e) # {} \/ \E t \in Threads : pc[t] = "last" /\ cur[t] = e

\* The AVBuffers that were allocated on their own: one that is in use is live
\* and nobody is about to free it; one that is about to be freed is live, and
\* that in one thread only.
AVBufferInv ==
  /\ \A e \in Entries : entry[e] = "unused" => first[e] = "unused"
  /\ \A t, u \in Threads : freeAVBuffer[t] /\ freeAVBuffer[u] /\ t # u => cur[t] # cur[u]
  /\ \A t \in Threads : freeAVBuffer[t] => first[cur[t]] = "live"
  /\ \A e \in Entries : InUse(e) =>
       \/ noFree[e]
       \/ first[e] = "live" /\ \A u \in Threads : ~(freeAVBuffer[u] /\ cur[u] = e)

\* The buffers that are out of the pool, those of them that pool->refcount
\* counts, and the threads that still have to count themselves out.
Out == {e \in Entries : entry[e] = "live" /\ e \notin InPool}
Uncounted == {t \in Threads : pc[t] \in {"got", "count"}}
Counted == Out \ {cur[t] : t \in Uncounted}
Dropping == {t \in Threads : pc[t] \in {"flush", "changed", "drop"}}

CountsBuffers ==
  poolRefs = (IF handle THEN 1 ELSE 0) + Cardinality(Counted) + Cardinality(Dropping)

\* One thread at most frees the pool, and that once.
FreedOnce ==
  /\ \A t \in Threads : pc[t] = "free pool" => poolRefs = 0 /\ poolMemory = "live"
  /\ \A t, u \in Threads : pc[t] = "free pool" /\ pc[u] = "free pool" => t = u
  /\ poolMemory = "freed" => poolRefs = 0 /\ pool = <<>>

IInv == /\ TypeOK /\ LocalInv
        /\ EntryOwnedOnce /\ CountsReferences /\ FreshInv
        /\ AVBufferInv
        /\ CountsBuffers /\ FreedOnce

-----------------------------------------------------------------------------
LEMMA PoolElements == InPool = Elements(pool)
  BY DEF InPool, Elements

-----------------------------------------------------------------------------
LEMMA InitIInv == Init => IInv
  <1> SUFFICES ASSUME Init PROVE IInv
    OBVIOUS
  <1> USE NoThreadAssumption, NoEntryAssumption DEF Init
  <1>1. \A e : RefsTo(e) = {r \in Refs : NoEntry = e}
    BY DEF RefsTo
  <1>2. InPool = {}
    BY DEF InPool
  <1>3. TypeOK
    BY EmptyList DEF TypeOK, State, PC
  <1>4. LocalInv /\ EntryOwnedOnce /\ CountsReferences /\ FreshInv
    BY <1>1, <1>2 DEF LocalInv, EntryOwnedOnce, CountsReferences, FreshInv, Returning
  <1>5. AVBufferInv /\ FreedOnce
    BY <1>1 DEF AVBufferInv, InUse, FreedOnce
  <1>6. CountsBuffers
    <2>1. Counted = {} /\ Dropping = {}
      BY DEF Counted, Out, Dropping
    <2>2. QED
      BY <2>1, FS_EmptySet DEF CountsBuffers
  <1>7. QED
    BY <1>3, <1>4, <1>5, <1>6 DEF IInv

\* A step is an action of one thread, or changes nothing.
Step(t) == \/ Get(t) \/ Use(t) \/ Unref(t) \/ Release(t) \/ Uninit(t)

\* The counters can go down where they do.
LEMMA DropPositive ==
  ASSUME IInv, NEW t \in Threads, pc[t] = "drop"
  PROVE  poolRefs \in Nat /\ poolRefs > 0
  <1>1. IsFiniteSet(Counted) /\ Cardinality(Counted) \in Nat
    BY FiniteAssumption, FS_Subset, FS_CardinalityType DEF Counted, Out
  <1>2. IsFiniteSet(Dropping) /\ Cardinality(Dropping) \in Nat
    BY FiniteAssumption, FS_Subset, FS_CardinalityType DEF Dropping
  <1>3. t \in Dropping
    BY DEF Dropping
  <1>4. Cardinality(Dropping) # 0
    BY <1>2, <1>3, FS_EmptySet
  <1>5. QED
    BY <1>1, <1>2, <1>4 DEF IInv, CountsBuffers

LEMMA RefsFinite ==
  ASSUME NEW e
  PROVE  IsFiniteSet(RefsTo(e)) /\ Cardinality(RefsTo(e)) \in Nat
  BY FiniteAssumption, FS_Subset, FS_CardinalityType DEF RefsTo

\* A buffer with a reference is out of the pool, and its counter positive.
LEMMA ReferredIsCounted ==
  ASSUME IInv, NEW r \in Refs, target[r] # NoEntry
  PROVE  /\ target[r] \in Entries /\ entry[target[r]] = "live" /\ target[r] \notin InPool
         /\ r \in RefsTo(target[r])
         /\ \A t \in Returning : cur[t] # target[r]
         /\ refcount[target[r]] = Cardinality(RefsTo(target[r]))
         /\ refcount[target[r]] \in Nat /\ refcount[target[r]] > 0
  <1>1. target[r] \in Entries
    BY DEF IInv, TypeOK
  <1>2. r \in RefsTo(target[r])
    BY DEF RefsTo
  <1>3. entry[target[r]] = "live" /\ target[r] \notin InPool
        /\ \A t \in Returning : cur[t] # target[r]
    BY <1>1, <1>2 DEF IInv, EntryOwnedOnce
  <1>4. refcount[target[r]] = Cardinality(RefsTo(target[r]))
    BY <1>1, <1>3 DEF IInv, CountsReferences
  <1>5. Cardinality(RefsTo(target[r])) \in Nat \ {0}
    BY <1>2, RefsFinite, FS_EmptySet
  <1>6. QED
    BY <1>1, <1>2, <1>3, <1>4, <1>5

\* What GetReuse takes is in the pool.
LEMMA HeadOfPool ==
  ASSUME IInv, pool # <<>>
  PROVE  /\ Head(pool) \in Entries /\ Head(pool) \in InPool
         /\ Tail(pool) \in Seq(Entries) /\ Distinct(Tail(pool))
         /\ Elements(Tail(pool)) = InPool \ {Head(pool)}
  BY PopList, PoolElements DEF IInv, TypeOK, EntryOwnedOnce, Distinct

\* What ReleasePush puts into the pool is not there.
LEMMA PushToPool ==
  ASSUME IInv, NEW t \in Threads, pc[t] = "push"
  PROVE  /\ cur[t] \in Entries
         /\ <<cur[t]>> \o pool \in Seq(Entries) /\ Distinct(<<cur[t]>> \o pool)
         /\ Elements(<<cur[t]>> \o pool) = InPool \cup {cur[t]}
  <1>1. cur[t] \in Entries /\ cur[t] \notin InPool
    BY DEF IInv, LocalInv, EntryOwnedOnce, Returning
  <1>2. QED
    BY <1>1, PushList, PoolElements DEF IInv, TypeOK, EntryOwnedOnce, Distinct

-----------------------------------------------------------------------------
LEMMA TypeStep ==
  ASSUME IInv, NEW t \in Threads, Step(t)
  PROVE  TypeOK'
  <1> USE DEF TypeOK, Goto, bufferVars, refVars
  <1>t. TypeOK /\ LocalInv
    BY DEF IInv
  <1>pc. \A x \in PC : [pc EXCEPT ![t] = x] \in [Threads -> PC]
    BY <1>t
  <1>1. CASE GetLock(t)
    BY <1>1, <1>t DEF GetLock, Lock, PC
  <1>2. CASE GetReuse(t)
    <2>1. /\ pool # <<>> /\ pool' = Tail(pool) /\ pc' = [pc EXCEPT ![t] = "got"]
          /\ refcount' = [refcount EXCEPT ![Head(pool)] = 1]
          /\ noFree' = [noFree EXCEPT ![Head(pool)] = TRUE]
          /\ cur' = [cur EXCEPT ![t] = Head(pool)]
          /\ UNCHANGED <<poolRefs, poolMemory, handle, mutex, entry, first, freeAVBuffer>>
      BY <1>2 DEF GetReuse
    <2>2. PICK r \in Refs : /\ target' = [target EXCEPT ![r] = Head(pool)]
                            /\ holder' = [holder EXCEPT ![r] = t]
      BY <1>2 DEF GetReuse, NewRef
    <2>3. Head(pool) \in Entries /\ Tail(pool) \in Seq(Entries)
      BY <2>1, HeadOfPool
    <2>4. target' \in [Refs -> Entries \cup {NoEntry}] /\ holder' \in [Refs -> Threads \cup {NoThread}]
      BY <2>2, <2>3, <1>t
    <2>5. /\ refcount' \in [Entries -> Nat] /\ noFree' \in [Entries -> BOOLEAN]
          /\ cur' \in [Threads -> Entries \cup {NoEntry}]
      BY <2>1, <2>3, <1>t
    <2>6. pc' \in [Threads -> PC]
      BY <2>1, <1>t DEF PC
    <2>7. QED
      BY <2>1, <2>3, <2>4, <2>5, <2>6, <1>t
  <1>3. CASE GetAlloc(t)
    <2>1. PICK e \in Entries, r \in Refs :
            /\ target' = [target EXCEPT ![r] = e] /\ holder' = [holder EXCEPT ![r] = t]
            /\ entry' = [entry EXCEPT ![e] = "live"] /\ first' = [first EXCEPT ![e] = "live"]
            /\ refcount' = [refcount EXCEPT ![e] = 1] /\ cur' = [cur EXCEPT ![t] = e]
      BY <1>3 DEF GetAlloc, NewRef
    <2>2. /\ pc' = [pc EXCEPT ![t] = "got"]
          /\ UNCHANGED <<pool, poolRefs, poolMemory, handle, mutex, noFree, freeAVBuffer>>
      BY <1>3 DEF GetAlloc, poolVars
    <2>3. QED
      BY <2>1, <2>2, <1>t DEF PC, State
  <1>4. CASE GetFail(t)
    <2>1. CASE pool = <<>>
      BY <2>1, <1>4, <1>t DEF GetFail, PC, poolVars
    <2>2. CASE pool # <<>>
      <3>1. Head(pool) \in Entries
        BY <2>2, HeadOfPool
      <3>2. /\ refcount' = [refcount EXCEPT ![Head(pool)] = 1]
            /\ noFree' = [noFree EXCEPT ![Head(pool)] = FALSE]
            /\ pc' = [pc EXCEPT ![t] = "failed"]
        BY <2>2, <1>4 DEF GetFail
      <3>3. UNCHANGED <<pool, poolRefs, poolMemory, handle, mutex, entry, first, target, holder,
                        cur, freeAVBuffer>>
        BY <1>4 DEF GetFail, poolVars
      <3>4. QED
        BY <3>1, <3>2, <3>3, <1>t DEF PC
    <2>3. QED
      BY <2>1, <2>2
  <1>5. CASE GetUnlock(t)
    BY <1>5, <1>t DEF GetUnlock, Unlock, PC
  <1>6. CASE GetCount(t)
    <2>1. poolRefs' \in Nat
      BY <1>6, <1>t DEF GetCount
    <2>2. QED
      BY <2>1, <1>6, <1>t DEF GetCount, PC
  <1>7. CASE Ref(t)
    BY <1>7, <1>t DEF Ref, NewRef, poolVars, threadVars
  <1>8. CASE Hand(t)
    BY <1>8, <1>t DEF Hand, poolVars, threadVars
  <1>9. CASE IsWritable(t)
    BY <1>9, <1>t DEF IsWritable, PC, poolVars
  <1>10. CASE Written(t)
    BY <1>10, <1>t DEF Written, PC, poolVars
  <1>11. CASE Unref(t)
    <2>1. PICK r \in Refs :
            /\ target[r] # NoEntry
            /\ target' = [target EXCEPT ![r] = NoEntry]
            /\ holder' = [holder EXCEPT ![r] = NoThread]
            /\ refcount' = [refcount EXCEPT ![target[r]] = @ - 1]
            /\ \/ pc' = [pc EXCEPT ![t] = "last"] /\ cur' = [cur EXCEPT ![t] = target[r]]
               \/ UNCHANGED <<pc, cur>>
      BY <1>11 DEF Unref
    <2>2. UNCHANGED <<poolVars, entry, first, noFree, freeAVBuffer>>
      BY <1>11 DEF Unref
    <2>3. target[r] \in Entries /\ refcount[target[r]] - 1 \in Nat
      BY <2>1, ReferredIsCounted
    <2>4. refcount' \in [Entries -> Nat]
      BY <2>1, <2>3, <1>t
    <2>5. pc' \in [Threads -> PC] /\ cur' \in [Threads -> Entries \cup {NoEntry}]
      BY <2>1, <2>3, <1>t DEF PC
    <2>6. QED
      BY <2>1, <2>2, <2>4, <2>5, <1>t DEF poolVars
  <1>12. CASE ReadFlag(t)
    BY <1>12, <1>t DEF ReadFlag, PC, poolVars
  <1>13. CASE ReleaseLock(t)
    BY <1>13, <1>t DEF ReleaseLock, Lock, PC
  <1>14. CASE ReleasePush(t)
    BY <1>14, <1>t, PushToPool DEF ReleasePush, PC
  <1>15. CASE UninitLock(t)
    BY <1>15, <1>t DEF UninitLock, Lock, PC
  <1>16. CASE UninitFlush(t)
    BY <1>16, <1>t, EmptyList DEF UninitFlush, Flush, PC, State
  <1>17. CASE ChangedUnlock(t)
    BY <1>17, <1>t DEF ChangedUnlock, Unlock, PC
  <1>18. CASE Drop(t)
    <2>1. poolRefs' \in Nat
      <3>1. pc[t] = "drop" /\ poolRefs' = poolRefs - 1
        BY <1>18 DEF Drop
      <3>2. poolRefs \in Nat /\ poolRefs > 0
        BY <3>1, DropPositive
      <3>3. QED
        BY <3>1, <3>2
    <2>2. pc' \in [Threads -> PC]
      BY <1>18, <1>t DEF Drop, PC
    <2>3. QED
      BY <2>1, <2>2, <1>18, <1>t DEF Drop
  <1>19. CASE PoolFree(t)
    BY <1>19, <1>t, EmptyList DEF PoolFree, Flush, PC, State
  <1>20. CASE BufferFree(t)
    BY <1>20, <1>t DEF BufferFree, PC, State, poolVars
  <1>21. QED
    BY <1>1, <1>2, <1>3, <1>4, <1>5, <1>6, <1>7, <1>8, <1>9, <1>10, <1>11, <1>12, <1>13,
       <1>14, <1>15, <1>16, <1>17, <1>18, <1>19, <1>20 DEF Step, Get, Use, Release, Uninit

LEMMA LocalStep ==
  ASSUME IInv, NEW t \in Threads, Step(t)
  PROVE  LocalInv'
  <1> USE DEF LocalInv, Goto
  <1>t. LocalInv /\ pc \in [Threads -> PC] /\ cur \in [Threads -> Entries \cup {NoEntry}]
        /\ freeAVBuffer \in [Threads -> BOOLEAN]
    BY DEF IInv, TypeOK
  <1>1. CASE GetLock(t)
    BY <1>1, <1>t DEF GetLock, Lock
  <1>2. CASE GetReuse(t)
    <2>1. /\ pc[t] = "get" /\ pc' = [pc EXCEPT ![t] = "got"]
          /\ cur' = [cur EXCEPT ![t] = Head(pool)] /\ Head(pool) \in Entries
          /\ freeAVBuffer' = freeAVBuffer /\ handle' = handle
      BY <1>2, HeadOfPool DEF GetReuse
    <2>2. QED
      BY <2>1, <1>t
  <1>3. CASE GetAlloc(t)
    BY <1>3, <1>t DEF GetAlloc, poolVars
  <1>4. CASE GetFail(t)
    BY <1>4, <1>t DEF GetFail, poolVars
  <1>5. CASE GetUnlock(t)
    <2>1. UNCHANGED <<handle, cur, freeAVBuffer>>
      BY <1>5 DEF GetUnlock, Unlock
    <2>2. \/ pc[t] = "got" /\ pc' = [pc EXCEPT ![t] = "count"]
          \/ pc[t] = "failed" /\ pc' = [pc EXCEPT ![t] = "idle"]
      BY <1>5 DEF GetUnlock, Unlock
    <2>3. QED
      BY <2>1, <2>2, <1>t
  <1>6. CASE GetCount(t)
    BY <1>6, <1>t DEF GetCount
  <1>7. CASE Ref(t) \/ Hand(t)
    <2>1. UNCHANGED <<pc, cur, freeAVBuffer, handle>>
      BY <1>7 DEF Ref, Hand, poolVars, threadVars
    <2>2. QED
      BY <2>1, <1>t
  <1>8. CASE IsWritable(t)
    BY <1>8, <1>t DEF IsWritable, poolVars, IInv, TypeOK
  <1>9. CASE Written(t)
    BY <1>9, <1>t DEF Written, poolVars
  <1>10. CASE Unref(t)
    <2>1. /\ pc[t] = "idle" /\ UNCHANGED <<freeAVBuffer, handle>>
          /\ \/ UNCHANGED <<pc, cur>>
             \/ \E r \in Refs : /\ target[r] # NoEntry
                                /\ pc' = [pc EXCEPT ![t] = "last"]
                                /\ cur' = [cur EXCEPT ![t] = target[r]]
      BY <1>10 DEF Unref, poolVars
    <2>2. QED
      BY <2>1, <1>t, ReferredIsCounted
  <1>11. CASE ReadFlag(t)
    BY <1>11, <1>t DEF ReadFlag, poolVars
  <1>12. CASE ReleaseLock(t)
    BY <1>12, <1>t DEF ReleaseLock, Lock
  <1>13. CASE ReleasePush(t)
    BY <1>13, <1>t DEF ReleasePush
  <1>14. CASE UninitLock(t)
    BY <1>14, <1>t DEF UninitLock, Lock
  <1>15. CASE UninitFlush(t)
    BY <1>15, <1>t DEF UninitFlush
  <1>16. CASE ChangedUnlock(t)
    BY <1>16, <1>t DEF ChangedUnlock, Unlock
  <1>17. CASE Drop(t)
    BY <1>17, <1>t DEF Drop
  <1>18. CASE PoolFree(t)
    BY <1>18, <1>t DEF PoolFree
  <1>19. CASE BufferFree(t)
    BY <1>19, <1>t DEF BufferFree, poolVars
  <1>20. QED
    BY <1>1, <1>2, <1>3, <1>4, <1>5, <1>6, <1>7, <1>8, <1>9, <1>10, <1>11, <1>12, <1>13,
       <1>14, <1>15, <1>16, <1>17, <1>18, <1>19 DEF Step, Get, Use, Release, Uninit

-----------------------------------------------------------------------------
(* Who owns an entry *)

\* An action that touches neither the list nor the references nor the entries,
\* and leaves who is returning what.
LEMMA OwnedFrame ==
  ASSUME EntryOwnedOnce, UNCHANGED <<pool, entry, target>>,
         \A u \in Threads : /\ u \in Returning' <=> u \in Returning
                            /\ u \in Returning => cur'[u] = cur[u]
  PROVE  EntryOwnedOnce'
  <1>1. InPool' = InPool /\ (\A e : RefsTo(e)' = RefsTo(e)) /\ Returning' = Returning
    BY DEF InPool, RefsTo, Returning
  <1>2. \A u \in Returning : cur'[u] = cur[u]
    BY DEF Returning
  <1>3. QED
    BY <1>1, <1>2 DEF EntryOwnedOnce

\* A reference r to an entry that is, or becomes, live.
LEMMA RefAdded ==
  ASSUME NEW r \in Refs, target[r] = NoEntry, NEW e \in Entries,
         target \in [Refs -> Entries \cup {NoEntry}], target' = [target EXCEPT ![r] = e]
  PROVE  /\ RefsTo(e)' = RefsTo(e) \cup {r} /\ r \notin RefsTo(e)
         /\ \A f \in Entries : f # e => RefsTo(f)' = RefsTo(f)
  BY NoEntryAssumption DEF RefsTo

LEMMA RefRemoved ==
  ASSUME NEW r \in Refs, NEW e \in Entries, target[r] = e,
         target \in [Refs -> Entries \cup {NoEntry}], target' = [target EXCEPT ![r] = NoEntry]
  PROVE  /\ RefsTo(e)' = RefsTo(e) \ {r} /\ r \in RefsTo(e)
         /\ \A f \in Entries : f # e => RefsTo(f)' = RefsTo(f)
  <1>1. NoEntry # e /\ (\A f \in Entries : f # NoEntry)
    BY NoEntryAssumption
  <1>2. QED
    BY <1>1 DEF RefsTo

\* What av_buffer_ref() and av_buffer_pool_get() do to the references.
LEMMA NewRefEffect ==
  ASSUME TypeOK, NEW t \in Threads, NEW e \in Entries, NewRef(t, e)
  PROVE  \E r \in Refs :
           /\ target[r] = NoEntry /\ r \notin RefsTo(e)
           /\ target' = [target EXCEPT ![r] = e] /\ holder' = [holder EXCEPT ![r] = t]
           /\ RefsTo(e)' = RefsTo(e) \cup {r}
           /\ \A f \in Entries : f # e => RefsTo(f)' = RefsTo(f)
  <1>1. PICK r \in Refs : /\ target[r] = NoEntry
                          /\ target' = [target EXCEPT ![r] = e]
                          /\ holder' = [holder EXCEPT ![r] = t]
    BY DEF NewRef
  <1>2. QED
    BY <1>1, RefAdded DEF TypeOK

\* The thread that finds the counter at 1 has dropped the last reference.
LEMMA UnrefEffect ==
  ASSUME IInv, NEW t \in Threads, Unref(t)
  PROVE  \E r \in Refs, e \in Entries :
           /\ target[r] = e /\ holder[r] = t /\ r \in RefsTo(e)
           /\ target' = [target EXCEPT ![r] = NoEntry]
           /\ holder' = [holder EXCEPT ![r] = NoThread]
           /\ refcount' = [refcount EXCEPT ![e] = @ - 1]
           /\ RefsTo(e)' = RefsTo(e) \ {r}
           /\ \A f \in Entries : f # e => RefsTo(f)' = RefsTo(f)
           /\ \/ /\ RefsTo(e)' = {}
                 /\ pc' = [pc EXCEPT ![t] = "last"] /\ cur' = [cur EXCEPT ![t] = e]
              \/ RefsTo(e)' # {} /\ UNCHANGED <<pc, cur>>
  <1>1. PICK r \in Refs :
          /\ target[r] # NoEntry /\ holder[r] = t
          /\ target' = [target EXCEPT ![r] = NoEntry]
          /\ holder' = [holder EXCEPT ![r] = NoThread]
          /\ refcount' = [refcount EXCEPT ![target[r]] = @ - 1]
          /\ \/ /\ refcount[target[r]] = 1
                /\ pc' = [pc EXCEPT ![t] = "last"] /\ cur' = [cur EXCEPT ![t] = target[r]]
             \/ refcount[target[r]] # 1 /\ UNCHANGED <<pc, cur>>
    BY DEF Unref
  <1>2. PICK e \in Entries : /\ target[r] = e /\ r \in RefsTo(e)
                             /\ refcount[e] = Cardinality(RefsTo(e))
    BY <1>1, ReferredIsCounted
  <1>3. RefsTo(e)' = RefsTo(e) \ {r} /\ \A f \in Entries : f # e => RefsTo(f)' = RefsTo(f)
    BY <1>1, <1>2, RefRemoved DEF IInv, TypeOK
  <1>4. refcount[e] = 1 <=> RefsTo(e) \ {r} = {}
    <2>1. /\ IsFiniteSet(RefsTo(e) \ {r}) /\ Cardinality(RefsTo(e)) \in Nat
          /\ Cardinality(RefsTo(e) \ {r}) = Cardinality(RefsTo(e)) - 1
      BY <1>2, RefsFinite, FS_RemoveElement
    <2>2. QED
      BY <1>2, <2>1, FS_EmptySet
  <1>5. QED
    BY <1>1, <1>2, <1>3, <1>4

\* The actions that leave the list, the references and the entries alone, and
\* who is returning what.
LEMMA QuietSteps ==
  ASSUME TypeOK, NEW t \in Threads,
         \/ GetLock(t) \/ GetFail(t) \/ GetUnlock(t) \/ GetCount(t) \/ Hand(t)
         \/ IsWritable(t) \/ Written(t) \/ ReadFlag(t) \/ ReleaseLock(t)
         \/ UninitLock(t) \/ ChangedUnlock(t) \/ Drop(t) \/ BufferFree(t)
  PROVE  /\ UNCHANGED <<pool, entry, target>>
         /\ \A u \in Threads : /\ u \in Returning' <=> u \in Returning
                               /\ u \in Returning => cur'[u] = cur[u]
  <1> USE DEF TypeOK, Goto, Returning, bufferVars, refVars
  <1>1. CASE GetLock(t) \/ ReleaseLock(t) \/ UninitLock(t)
    BY <1>1 DEF GetLock, ReleaseLock, UninitLock, Lock
  <1>2. CASE GetUnlock(t) \/ ChangedUnlock(t)
    BY <1>2 DEF GetUnlock, ChangedUnlock, Unlock
  <1>3. CASE GetFail(t) \/ ReadFlag(t)
    BY <1>3 DEF GetFail, ReadFlag, poolVars
  <1>3a. CASE Written(t) \/ BufferFree(t)
    <2>1. /\ UNCHANGED <<pool, entry, target>> /\ cur' = [cur EXCEPT ![t] = NoEntry]
          /\ pc[t] \in {"write", "free buffer"} /\ pc' = [pc EXCEPT ![t] = "idle"]
      BY <1>3a DEF Written, BufferFree, poolVars
    <2>2. QED
      BY <2>1
  <1>4. CASE GetCount(t) \/ Drop(t)
    BY <1>4 DEF GetCount, Drop
  <1>5. CASE Hand(t)
    BY <1>5 DEF Hand, poolVars, threadVars
  <1>6. CASE IsWritable(t)
    BY <1>6 DEF IsWritable, poolVars
  <1>7. QED
    BY <1>1, <1>2, <1>3, <1>3a, <1>4, <1>5, <1>6

\* Flushing frees what is in the pool, which nobody refers to.
LEMMA FlushOwned ==
  ASSUME EntryOwnedOnce, entry \in [Entries -> State], Flush, UNCHANGED target,
         \A u \in Threads : /\ u \in Returning' <=> u \in Returning
                            /\ u \in Returning => cur'[u] = cur[u]
  PROVE  EntryOwnedOnce'
  <1>1. /\ InPool' = {} /\ (\A e : RefsTo(e)' = RefsTo(e)) /\ Returning' = Returning
        /\ pool' = <<>>
    BY EmptyList DEF InPool, RefsTo, Returning, Flush, Elements
  <1>2. \A u \in Returning : cur'[u] = cur[u]
    BY DEF Returning
  <1>3. \A e \in Entries : entry'[e] = "live" <=> entry[e] = "live" /\ e \notin InPool
    BY DEF Flush
  <1>4. \A e \in Entries : e \in InPool => RefsTo(e) = {} /\ \A u \in Returning : cur[u] # e
    BY DEF EntryOwnedOnce
  <1>5. \A e \in Entries : entry'[e] = "live" <=>
          e \in InPool' \/ RefsTo(e)' # {} \/ \E u \in Returning' : cur'[u] = e
    BY <1>1, <1>2, <1>3, <1>4 DEF EntryOwnedOnce
  <1>6. /\ \A u \in Returning' : RefsTo(cur[u])' = {} /\ cur'[u] \notin InPool'
        /\ \A u, v \in Returning' : u # v => cur'[u] # cur'[v]
    BY <1>1, <1>2 DEF EntryOwnedOnce
  <1>7. \A i, j \in 1 .. Len(pool') : i # j => pool'[i] # pool'[j]
    BY <1>1, EmptyList DEF Distinct
  <1>8. QED
    BY <1>1, <1>5, <1>6, <1>7 DEF EntryOwnedOnce

\* Whoever returns an entry has it in a local variable.
LEMMA ReturningHasEntry ==
  ASSUME IInv, NEW u \in Returning
  PROVE  u \in Threads /\ cur[u] \in Entries
  BY DEF IInv, LocalInv, Returning

LEMMA OwnedStep ==
  ASSUME IInv, NEW t \in Threads, Step(t)
  PROVE  EntryOwnedOnce'
  <1>t. TypeOK /\ LocalInv /\ EntryOwnedOnce
    BY DEF IInv
  <1>r. /\ Returning \subseteq Threads
        /\ pc[t] \in {"idle", "get", "flush", "free pool"} => t \notin Returning
    BY DEF Returning
  <1>1. CASE \/ GetLock(t) \/ GetFail(t) \/ GetUnlock(t) \/ GetCount(t) \/ Hand(t)
             \/ IsWritable(t) \/ Written(t) \/ ReadFlag(t) \/ ReleaseLock(t)
             \/ UninitLock(t) \/ ChangedUnlock(t) \/ Drop(t) \/ BufferFree(t)
    BY <1>1, <1>t, QuietSteps, OwnedFrame
  <1>2. CASE GetReuse(t)
    <2>1. /\ pool # <<>> /\ pc[t] = "get" /\ pc' = [pc EXCEPT ![t] = "got"]
          /\ NewRef(t, Head(pool)) /\ pool' = Tail(pool)
          /\ cur' = [cur EXCEPT ![t] = Head(pool)] /\ entry' = entry
      BY <1>2 DEF GetReuse, Goto
    <2>2. PICK h \in Entries : h = Head(pool)
      BY <2>1, HeadOfPool
    <2>3. h \in InPool /\ InPool' = InPool \ {h} /\ Distinct(pool')
      BY <2>1, <2>2, HeadOfPool, PoolElements DEF InPool, Elements
    <2>4. RefsTo(h)' # {} /\ \A f \in Entries : f # h => RefsTo(f)' = RefsTo(f)
      BY <2>1, <2>2, <1>t, NewRefEffect
    <2>5. Returning' = Returning /\ \A u \in Returning : cur'[u] = cur[u]
      BY <2>1, <1>t DEF Returning, TypeOK
    <2>6. \A u \in Returning : cur[u] # h /\ cur[u] \in Entries
      <3>1. \A u \in Returning : cur[u] \notin InPool
        BY <1>t DEF EntryOwnedOnce
      <3>2. QED
        BY <2>3, <3>1, ReturningHasEntry
    <2>7. \A e \in Entries : entry'[e] = "live" <=>
            e \in InPool' \/ RefsTo(e)' # {} \/ \E u \in Returning' : cur'[u] = e
      BY <2>1, <2>3, <2>4, <2>5, <1>t DEF EntryOwnedOnce
    <2>8. /\ \A e \in InPool' : RefsTo(e)' = {}
          /\ \A u \in Returning' : RefsTo(cur[u])' = {} /\ cur'[u] \notin InPool'
      <3>1. InPool \subseteq Entries
        BY <1>t DEF InPool, TypeOK
      <3>2. QED
        BY <2>3, <2>4, <2>5, <2>6, <3>1, <1>t DEF EntryOwnedOnce
    <2>9. /\ \A u, v \in Returning' : u # v => cur'[u] # cur'[v]
          /\ \A i, j \in 1 .. Len(pool') : i # j => pool'[i] # pool'[j]
      BY <2>3, <2>5, <1>t DEF EntryOwnedOnce, Distinct
    <2>10. QED
      BY <2>7, <2>8, <2>9 DEF EntryOwnedOnce
  <1>3. CASE GetAlloc(t)
    <2>1. PICK e \in Entries :
            /\ entry[e] = "unused" /\ NewRef(t, e)
            /\ entry' = [entry EXCEPT ![e] = "live"] /\ cur' = [cur EXCEPT ![t] = e]
      BY <1>3 DEF GetAlloc
    <2>2. pool' = pool /\ pc[t] = "get" /\ pc' = [pc EXCEPT ![t] = "got"]
      BY <1>3 DEF GetAlloc, Goto, poolVars
    <2>3. RefsTo(e)' # {} /\ \A f \in Entries : f # e => RefsTo(f)' = RefsTo(f)
      BY <2>1, <1>t, NewRefEffect
    <2>4. Returning' = Returning /\ \A u \in Returning : cur'[u] = cur[u]
      BY <2>1, <2>2, <1>t DEF Returning, TypeOK
    <2>5. e \notin InPool /\ InPool' = InPool /\ InPool \subseteq Entries
      BY <2>1, <2>2, <1>t DEF EntryOwnedOnce, InPool, TypeOK
    <2>6. \A u \in Returning : cur[u] # e /\ cur[u] \in Entries
      BY <2>1, <1>t DEF EntryOwnedOnce, LocalInv, Returning
    <2>7. entry'[e] = "live" /\ \A f \in Entries : f # e => entry'[f] = entry[f]
      BY <2>1, <1>t DEF TypeOK
    <2>8. QED
      BY <2>2, <2>3, <2>4, <2>5, <2>6, <2>7, <1>t DEF EntryOwnedOnce
  <1>4. CASE Ref(t)
    <2>1. PICK q \in Refs : target[q] # NoEntry /\ NewRef(t, target[q])
      BY <1>4 DEF Ref
    <2>2. PICK e \in Entries : e = target[q] /\ q \in RefsTo(e) /\ e \notin InPool
                              /\ \A u \in Returning : cur[u] # e
      BY <2>1, ReferredIsCounted
    <2>3. RefsTo(e)' # {} /\ \A f \in Entries : f # e => RefsTo(f)' = RefsTo(f)
      BY <2>1, <2>2, <1>t, NewRefEffect
    <2>4. UNCHANGED <<pool, entry, pc, cur>>
      BY <1>4 DEF Ref, poolVars, threadVars
    <2>5. /\ InPool' = InPool /\ Returning' = Returning /\ InPool \subseteq Entries
          /\ \A u \in Returning : cur[u] \in Entries
      BY <2>4, <1>t, ReturningHasEntry DEF InPool, Returning, TypeOK
    <2>6. \A f \in Entries : entry'[f] = "live" <=>
            f \in InPool' \/ RefsTo(f)' # {} \/ \E u \in Returning' : cur'[u] = f
      BY <2>2, <2>3, <2>4, <2>5, <1>t DEF EntryOwnedOnce
    <2>7. /\ \A f \in InPool' : RefsTo(f)' = {}
          /\ \A u \in Returning' : RefsTo(cur[u])' = {} /\ cur'[u] \notin InPool'
          /\ \A u, v \in Returning' : u # v => cur'[u] # cur'[v]
      BY <2>2, <2>3, <2>4, <2>5, <1>t DEF EntryOwnedOnce
    <2>8. QED
      BY <2>4, <2>6, <2>7, <1>t DEF EntryOwnedOnce
  <1>5. CASE Unref(t)
    <2>1. PICK r \in Refs, e \in Entries :
            /\ target[r] = e /\ r \in RefsTo(e)
            /\ \A f \in Entries : f # e => RefsTo(f)' = RefsTo(f)
            /\ \/ /\ RefsTo(e)' = {}
                  /\ pc' = [pc EXCEPT ![t] = "last"] /\ cur' = [cur EXCEPT ![t] = e]
               \/ RefsTo(e)' # {} /\ UNCHANGED <<pc, cur>>
      BY <1>5, UnrefEffect
    <2>2. pc[t] = "idle" /\ UNCHANGED <<pool, entry>>
      BY <1>5 DEF Unref, poolVars
    <2>3. /\ e \notin InPool /\ InPool' = InPool /\ InPool \subseteq Entries
          /\ \A u \in Returning : cur[u] # e /\ cur[u] \in Entries
      BY <2>1, <2>2, <1>t, NoEntryAssumption, ReferredIsCounted, ReturningHasEntry
         DEF InPool, TypeOK
    <2>4. CASE /\ RefsTo(e)' = {}
               /\ pc' = [pc EXCEPT ![t] = "last"] /\ cur' = [cur EXCEPT ![t] = e]
      <3>1. /\ Returning' = Returning \cup {t} /\ t \notin Returning /\ cur'[t] = e
            /\ \A u \in Returning : cur'[u] = cur[u]
        BY <2>2, <2>4, <1>t DEF Returning, TypeOK
      <3>2. entry[e] = "live"
        BY <2>1, <1>t DEF EntryOwnedOnce
      <3>3. QED
        BY <2>1, <2>2, <2>3, <2>4, <3>1, <3>2, <1>t DEF EntryOwnedOnce
    <2>5. CASE RefsTo(e)' # {} /\ UNCHANGED <<pc, cur>>
      <3>1. Returning' = Returning
        BY <2>5 DEF Returning
      <3>2. QED
        BY <2>1, <2>2, <2>3, <2>5, <3>1, <1>t DEF EntryOwnedOnce
    <2>6. QED
      BY <2>1, <2>4, <2>5
  <1>6. CASE ReleasePush(t)
    <2>1. /\ pc[t] = "push" /\ pc' = [pc EXCEPT ![t] = "changed"] /\ pool' = <<cur[t]>> \o pool
          /\ UNCHANGED <<entry, target, cur>>
      BY <1>6 DEF ReleasePush, Goto, bufferVars, refVars
    <2>2. cur[t] \in Entries /\ InPool' = InPool \cup {cur[t]} /\ Distinct(pool')
      BY <2>1, PushToPool, PoolElements DEF InPool, Elements
    <2>3. Returning' = Returning \ {t} /\ t \in Returning
      BY <2>1, <1>t DEF Returning, TypeOK
    <2>4. \A f : RefsTo(f)' = RefsTo(f)
      BY <2>1 DEF RefsTo
    <2>5. QED
      BY <2>1, <2>2, <2>3, <2>4, <1>t DEF EntryOwnedOnce, Distinct
  <1>7. CASE UninitFlush(t) \/ PoolFree(t)
    <2>1. /\ Flush /\ UNCHANGED <<target, cur>>
          /\ \/ pc[t] = "flush" /\ pc' = [pc EXCEPT ![t] = "changed"]
             \/ pc[t] = "free pool" /\ pc' = [pc EXCEPT ![t] = "free buffer"]
      BY <1>7 DEF UninitFlush, PoolFree, Goto, refVars
    <2>2. Returning' = Returning
      BY <2>1, <1>t DEF Returning, TypeOK
    <2>3. QED
      BY <2>1, <2>2, <1>t, FlushOwned DEF TypeOK
  <1>8. QED
    BY <1>1, <1>2, <1>3, <1>4, <1>5, <1>6, <1>7 DEF Step, Get, Use, Release, Uninit

-----------------------------------------------------------------------------
(* The reference counters *)

LEMMA OneReference ==
  ASSUME NEW r
  PROVE  Cardinality({r}) = 1
  BY FS_Singleton

LEMMA CountsStep ==
  ASSUME IInv, NEW t \in Threads, Step(t)
  PROVE  CountsReferences'
  <1>t. TypeOK /\ EntryOwnedOnce /\ CountsReferences
    BY DEF IInv
  <1>f. ASSUME UNCHANGED <<entry, pool, target, refcount>> PROVE CountsReferences'
    BY <1>f, <1>t DEF CountsReferences, InPool, RefsTo
  <1>1. CASE \/ GetLock(t) \/ GetUnlock(t) \/ GetCount(t) \/ Hand(t)
             \/ IsWritable(t) \/ Written(t) \/ ReadFlag(t) \/ ReleaseLock(t)
             \/ UninitLock(t) \/ ChangedUnlock(t) \/ Drop(t) \/ BufferFree(t)
    <2>1. UNCHANGED <<entry, pool, target>>
      BY <1>1, <1>t, QuietSteps
    <2>2. UNCHANGED refcount
      BY <1>1 DEF GetLock, GetUnlock, GetCount, Hand, IsWritable, Written, ReadFlag,
                  ReleaseLock, UninitLock, ChangedUnlock, Unlock, Drop, BufferFree, bufferVars
    <2>3. QED
      BY <2>1, <2>2, <1>f
  <1>2. CASE GetFail(t)
    <2>1. UNCHANGED <<entry, pool, target>>
      BY <1>2, <1>t, QuietSteps
    <2>2. CASE pool = <<>>
      BY <2>1, <2>2, <1>2, <1>f DEF GetFail
    <2>3. CASE pool # <<>>
      <3>1. Head(pool) \in InPool /\ refcount' = [refcount EXCEPT ![Head(pool)] = 1]
        BY <2>3, <1>2, HeadOfPool DEF GetFail
      <3>2. QED
        BY <2>1, <3>1, <1>t DEF CountsReferences, InPool, RefsTo, TypeOK
    <2>4. QED
      BY <2>2, <2>3
  <1>3. CASE GetReuse(t)
    <2>1. /\ pool # <<>> /\ NewRef(t, Head(pool)) /\ pool' = Tail(pool) /\ entry' = entry
          /\ refcount' = [refcount EXCEPT ![Head(pool)] = 1]
      BY <1>3 DEF GetReuse
    <2>2. PICK h \in Entries : h = Head(pool) /\ h \in InPool
      BY <2>1, HeadOfPool
    <2>3. InPool' = InPool \ {h}
      BY <2>1, <2>2, HeadOfPool DEF InPool, Elements
    <2>4. PICK r \in Refs : /\ RefsTo(h)' = RefsTo(h) \cup {r}
                            /\ \A f \in Entries : f # h => RefsTo(f)' = RefsTo(f)
      BY <2>1, <2>2, <1>t, NewRefEffect
    <2>5. Cardinality(RefsTo(h)') = 1
      <3>1. RefsTo(h)' = {r}
        BY <2>2, <2>4, <1>t DEF EntryOwnedOnce
      <3>2. QED
        BY <3>1, OneReference
    <2>6. /\ refcount'[h] = 1
          /\ \A f \in Entries : f # h => refcount'[f] = refcount[f]
      BY <2>1, <2>2, <1>t DEF TypeOK
    <2>7. QED
      BY <2>1, <2>3, <2>4, <2>5, <2>6, <1>t DEF CountsReferences
  <1>4. CASE GetAlloc(t)
    <2>1. PICK e \in Entries :
            /\ entry[e] = "unused" /\ NewRef(t, e)
            /\ entry' = [entry EXCEPT ![e] = "live"] /\ refcount' = [refcount EXCEPT ![e] = 1]
      BY <1>4 DEF GetAlloc
    <2>2. InPool' = InPool
      BY <1>4 DEF GetAlloc, poolVars, InPool
    <2>3. PICK r \in Refs : /\ RefsTo(e)' = RefsTo(e) \cup {r}
                            /\ \A f \in Entries : f # e => RefsTo(f)' = RefsTo(f)
      BY <2>1, <1>t, NewRefEffect
    <2>4. Cardinality(RefsTo(e)') = 1
      <3>1. RefsTo(e)' = {r}
        BY <2>1, <2>3, <1>t DEF EntryOwnedOnce
      <3>2. QED
        BY <3>1, OneReference
    <2>5. /\ refcount'[e] = 1
          /\ \A f \in Entries : f # e => refcount'[f] = refcount[f] /\ entry'[f] = entry[f]
      BY <2>1, <1>t DEF TypeOK
    <2>6. QED
      BY <2>2, <2>3, <2>4, <2>5, <1>t DEF CountsReferences
  <1>5. CASE Ref(t)
    <2>1. PICK q \in Refs : /\ target[q] # NoEntry /\ NewRef(t, target[q])
                            /\ refcount' = [refcount EXCEPT ![target[q]] = @ + 1]
      BY <1>5 DEF Ref
    <2>2. PICK e \in Entries : e = target[q] /\ refcount[e] = Cardinality(RefsTo(e))
      BY <2>1, ReferredIsCounted
    <2>3. PICK r \in Refs : /\ RefsTo(e)' = RefsTo(e) \cup {r} /\ r \notin RefsTo(e)
                            /\ \A f \in Entries : f # e => RefsTo(f)' = RefsTo(f)
      BY <2>1, <2>2, <1>t, NewRefEffect
    <2>4. Cardinality(RefsTo(e)') = Cardinality(RefsTo(e)) + 1
      BY <2>3, RefsFinite, FS_AddElement
    <2>5. InPool' = InPool /\ entry' = entry
      BY <1>5 DEF Ref, poolVars, InPool
    <2>6. /\ refcount'[e] = refcount[e] + 1
          /\ \A f \in Entries : f # e => refcount'[f] = refcount[f]
      BY <2>1, <2>2, <1>t DEF TypeOK
    <2>7. QED
      BY <2>2, <2>3, <2>4, <2>5, <2>6, <1>t DEF CountsReferences
  <1>6. CASE Unref(t)
    <2>1. PICK r \in Refs, e \in Entries :
            /\ target[r] = e /\ r \in RefsTo(e)
            /\ refcount' = [refcount EXCEPT ![e] = @ - 1]
            /\ RefsTo(e)' = RefsTo(e) \ {r}
            /\ \A f \in Entries : f # e => RefsTo(f)' = RefsTo(f)
      BY <1>6, UnrefEffect
    <2>2. refcount[e] = Cardinality(RefsTo(e))
      BY <2>1, NoEntryAssumption, ReferredIsCounted
    <2>3. Cardinality(RefsTo(e)') = Cardinality(RefsTo(e)) - 1
      BY <2>1, RefsFinite, FS_RemoveElement
    <2>4. InPool' = InPool /\ entry' = entry
      BY <1>6 DEF Unref, poolVars, InPool
    <2>5. /\ refcount'[e] = refcount[e] - 1
          /\ \A f \in Entries : f # e => refcount'[f] = refcount[f]
      BY <2>1, <1>t DEF TypeOK
    <2>6. QED
      BY <2>1, <2>2, <2>3, <2>4, <2>5, <1>t DEF CountsReferences
  <1>7. CASE ReleasePush(t)
    <2>1. /\ pc[t] = "push" /\ pool' = <<cur[t]>> \o pool
          /\ UNCHANGED <<entry, target, refcount>>
      BY <1>7 DEF ReleasePush, Goto, bufferVars, refVars
    <2>2. InPool' = InPool \cup {cur[t]}
      BY <2>1, PushToPool DEF InPool, Elements
    <2>3. QED
      BY <2>1, <2>2, <1>t DEF CountsReferences, RefsTo
  <1>8. CASE UninitFlush(t) \/ PoolFree(t)
    <2>1. Flush /\ UNCHANGED <<target, refcount>>
      BY <1>8 DEF UninitFlush, PoolFree, refVars
    <2>2. \A e \in Entries : entry'[e] = "live" => entry[e] = "live" /\ e \notin InPool
      BY <2>1 DEF Flush
    <2>3. QED
      BY <2>1, <2>2, <1>t DEF CountsReferences, RefsTo
  <1>9. QED
    BY <1>1, <1>2, <1>3, <1>4, <1>5, <1>6, <1>7, <1>8 DEF Step, Get, Use, Release, Uninit

-----------------------------------------------------------------------------
(* References that one thread has to itself *)

\* Nothing changes for a thread if nobody touches what it has.
LEMMA FreshFrame ==
  ASSUME FreshInv, NEW u \in Threads, cur'[u] = cur[u],
         pc'[u] \in {"got", "count", "write"} => pc[u] \in {"got", "count", "write"},
         RefsTo(cur[u])' = RefsTo(cur[u]),
         \A r \in Refs : RefsTo(cur[u]) = {r} /\ holder[r] = u => holder'[r] = u
  PROVE  pc'[u] \in {"got", "count", "write"} =>
           \E r \in Refs : RefsTo(cur[u])' = {r} /\ holder'[r] = u
  BY DEF FreshInv

LEMMA FreshStep ==
  ASSUME IInv, NEW t \in Threads, Step(t)
  PROVE  FreshInv'
  <1> DEFINE Kept(u) == pc'[u] \in {"got", "count", "write"} =>
                          \E r \in Refs : RefsTo(cur[u])' = {r} /\ holder'[r] = u
  <1> SUFFICES ASSUME NEW u \in Threads PROVE Kept(u)
    BY DEF FreshInv
  <1>t. TypeOK /\ LocalInv /\ EntryOwnedOnce /\ FreshInv
    BY DEF IInv
  \* The entry of a fresh reference is out of the pool.
  <1>e. pc[u] \in {"got", "count", "write"} =>
          cur[u] \in Entries /\ RefsTo(cur[u]) # {} /\ cur[u] \notin InPool
          /\ entry[cur[u]] = "live"
    <2> SUFFICES ASSUME pc[u] \in {"got", "count", "write"}
                 PROVE  cur[u] \in Entries /\ RefsTo(cur[u]) # {} /\ cur[u] \notin InPool
                        /\ entry[cur[u]] = "live"
      OBVIOUS
    <2>1. cur[u] \in Entries
      BY <1>t DEF LocalInv
    <2>2. RefsTo(cur[u]) # {}
      BY <1>t DEF FreshInv
    <2>3. QED
      BY <2>1, <2>2, <1>t DEF EntryOwnedOnce
  <1>f. ASSUME UNCHANGED <<target, holder>>, cur'[u] = cur[u],
               pc'[u] \in {"got", "count", "write"} => pc[u] \in {"got", "count", "write"}
        PROVE  Kept(u)
    <2>1. RefsTo(cur[u])' = RefsTo(cur[u])
      BY <1>f DEF RefsTo
    <2>2. QED
      BY <2>1, <1>f, <1>t, FreshFrame
  <1>1. CASE GetLock(t) \/ ReleaseLock(t) \/ UninitLock(t)
    BY <1>1, <1>t, <1>f DEF GetLock, ReleaseLock, UninitLock, Lock, Goto, refVars, TypeOK
  <1>2. CASE GetUnlock(t) \/ ChangedUnlock(t)
    BY <1>2, <1>t, <1>f DEF GetUnlock, ChangedUnlock, Unlock, Goto, refVars, TypeOK
  <1>3. CASE GetFail(t) \/ ReadFlag(t) \/ ReleasePush(t) \/ UninitFlush(t) \/ PoolFree(t)
    <2>1. UNCHANGED <<target, holder, cur>>
      BY <1>3 DEF GetFail, ReadFlag, ReleasePush, UninitFlush, PoolFree, refVars
    <2>2. \E x \in {"failed", "release", "changed", "free buffer"} : pc' = [pc EXCEPT ![t] = x]
      BY <1>3 DEF GetFail, ReadFlag, ReleasePush, UninitFlush, PoolFree, Goto
    <2>3. QED
      BY <2>1, <2>2, <1>t, <1>f DEF TypeOK
  <1>4. CASE Drop(t)
    BY <1>4, <1>t, <1>f DEF Drop, refVars, TypeOK
  <1>5. CASE GetCount(t) \/ Written(t) \/ BufferFree(t)
    <2>1. /\ UNCHANGED <<target, holder>> /\ cur' = [cur EXCEPT ![t] = NoEntry]
          /\ pc' = [pc EXCEPT ![t] = "idle"]
      BY <1>5 DEF GetCount, Written, BufferFree, Goto, refVars
    <2>2. CASE u = t
      BY <2>1, <2>2, <1>t DEF TypeOK
    <2>3. CASE u # t
      BY <2>1, <2>3, <1>t, <1>f DEF TypeOK
    <2>4. QED
      BY <2>2, <2>3
  <1>6. CASE GetReuse(t) \/ GetAlloc(t)
    <2>1. PICK e \in Entries :
            /\ e \in InPool \/ entry[e] = "unused"
            /\ NewRef(t, e) /\ cur' = [cur EXCEPT ![t] = e]
            /\ pc' = [pc EXCEPT ![t] = "got"]
      <3>1. CASE GetReuse(t)
        BY <3>1, HeadOfPool DEF GetReuse, Goto
      <3>2. CASE GetAlloc(t)
        BY <3>2 DEF GetAlloc, Goto
      <3>3. QED
        BY <1>6, <3>1, <3>2
    <2>2. RefsTo(e) = {}
      BY <2>1, <1>t DEF EntryOwnedOnce
    <2>3. PICK r \in Refs :
            /\ target[r] = NoEntry
            /\ RefsTo(e)' = {r} /\ holder' = [holder EXCEPT ![r] = t]
            /\ \A f \in Entries : f # e => RefsTo(f)' = RefsTo(f)
      BY <2>1, <2>2, <1>t, NewRefEffect
    <2>4. CASE u = t
      <3>1. cur'[u] = e /\ holder'[r] = u
        BY <2>1, <2>3, <2>4, <1>t DEF TypeOK
      <3>2. RefsTo(cur[u])' = {r}
        BY <2>3, <3>1 DEF RefsTo
      <3>3. QED
        BY <3>1, <3>2
    <2>5. CASE u # t /\ pc[u] \in {"got", "count", "write"}
      <3>1. cur[u] # e
        BY <2>1, <2>5, <1>e
      <3>2. cur'[u] = cur[u] /\ pc'[u] = pc[u]
        BY <2>1, <2>5, <1>t DEF TypeOK
      <3>3. RefsTo(cur[u])' = RefsTo(cur[u])
        BY <2>3, <2>5, <3>1, <3>2, <1>e DEF RefsTo
      <3>4. \A q \in Refs : RefsTo(cur[u]) = {q} => q # r
        BY <2>3, <2>5, <1>e, NoEntryAssumption DEF RefsTo
      <3>5. QED
        BY <2>3, <3>2, <3>3, <3>4, <1>t, FreshFrame DEF TypeOK
    <2>6. CASE u # t /\ pc[u] \notin {"got", "count", "write"}
      BY <2>1, <2>6, <1>t DEF TypeOK
    <2>7. QED
      BY <2>4, <2>5, <2>6
  <1>7. CASE Ref(t) \/ Hand(t) \/ Unref(t)
    \* Only the entry e that t refers to has its references changed; it is not
    \* the one u has to itself.
    <2>1. PICK q \in Refs, r \in Refs, e \in Entries :
            /\ target[q] = e /\ holder[q] = t
            /\ \A f \in Entries : f # e => RefsTo(f)' = RefsTo(f)
            /\ holder' = [holder EXCEPT ![r] = holder'[r]]
            /\ target[r] \in {NoEntry, e}
      <3>1. CASE Ref(t)
        <4>1. PICK q \in Refs : target[q] # NoEntry /\ holder[q] = t /\ NewRef(t, target[q])
          BY <3>1 DEF Ref
        <4>2. PICK e \in Entries : target[q] = e
          BY <4>1, <1>t DEF TypeOK
        <4>3. QED
          BY <4>1, <4>2, <1>t, NewRefEffect
      <3>2. CASE Hand(t)
        <4>1. PICK q \in Refs, v \in Threads :
                target[q] # NoEntry /\ holder[q] = t /\ holder' = [holder EXCEPT ![q] = v]
          BY <3>2 DEF Hand
        <4>2. target' = target /\ target[q] \in Entries
          BY <3>2, <4>1, <1>t DEF Hand, TypeOK
        <4>3. \A f : RefsTo(f)' = RefsTo(f)
          BY <4>2 DEF RefsTo
        <4>4. holder' = [holder EXCEPT ![q] = holder'[q]]
          BY <4>1, <1>t DEF TypeOK
        <4>5. QED
          BY <4>1, <4>2, <4>3, <4>4
      <3>3. CASE Unref(t)
        <4>1. PICK r \in Refs, e \in Entries :
                /\ target[r] = e /\ holder[r] = t
                /\ holder' = [holder EXCEPT ![r] = NoThread]
                /\ \A f \in Entries : f # e => RefsTo(f)' = RefsTo(f)
          BY <3>3, UnrefEffect
        <4>2. holder' = [holder EXCEPT ![r] = holder'[r]]
          BY <4>1, <1>t DEF TypeOK
        <4>3. QED
          BY <4>1, <4>2
      <3>4. QED
        BY <1>7, <3>1, <3>2, <3>3
    <2>2. /\ pc[t] = "idle"
          /\ \A v \in Threads : /\ v # t => pc'[v] = pc[v] /\ cur'[v] = cur[v]
          /\ pc'[t] \in {"idle", "last"}
      BY <1>7, <1>t DEF Ref, Hand, Unref, threadVars, TypeOK
    <2>3. CASE pc[u] \in {"got", "count", "write"}
      <3>1. u # t
        BY <2>2, <2>3
      <3>2. PICK p \in Refs : RefsTo(cur[u]) = {p} /\ holder[p] = u
        BY <2>3, <1>t DEF FreshInv
      <3>3. p # q
        BY <2>1, <3>1, <3>2
      <3>4. cur[u] # e
        BY <2>1, <3>2, <3>3 DEF RefsTo
      <3>5. p # r
        BY <2>1, <2>3, <3>2, <3>4, <1>e, NoEntryAssumption DEF RefsTo
      <3>6. cur'[u] = cur[u] /\ cur[u] \in Entries
        BY <2>2, <2>3, <3>1, <1>e
      <3>7. RefsTo(cur[u])' = {p}
        BY <2>1, <3>2, <3>4, <3>6 DEF RefsTo
      <3>8. QED
        BY <2>1, <3>2, <3>5, <3>7, <1>t DEF TypeOK
    <2>4. CASE pc[u] \notin {"got", "count", "write"}
      BY <2>2, <2>4
    <2>5. QED
      BY <2>3, <2>4
  <1>8. CASE IsWritable(t)
    <2>1. PICK r \in Refs : /\ target[r] # NoEntry /\ holder[r] = t /\ refcount[target[r]] = 1
                            /\ cur' = [cur EXCEPT ![t] = target[r]]
      BY <1>8 DEF IsWritable
    <2>2. UNCHANGED <<target, holder>> /\ pc' = [pc EXCEPT ![t] = "write"]
      BY <1>8 DEF IsWritable, Goto, refVars
    <2>3. CASE u = t
      <3>1. cur'[u] = target[r]
        BY <2>1, <2>3, <1>t DEF TypeOK
      <3>2. RefsTo(target[r]) = {r}
        <4>1. r \in RefsTo(target[r]) /\ Cardinality(RefsTo(target[r])) = 1
          BY <2>1, ReferredIsCounted
        <4>2. PICK x : RefsTo(target[r]) = {x}
          BY <4>1, RefsFinite, FS_Singleton
        <4>3. QED
          BY <4>1, <4>2
      <3>3. RefsTo(cur[u])' = {r}
        BY <2>2, <3>1, <3>2 DEF RefsTo
      <3>4. QED
        BY <2>1, <2>2, <2>3, <3>3
    <2>4. CASE u # t
      BY <2>1, <2>2, <2>4, <1>t, <1>f DEF TypeOK
    <2>5. QED
      BY <2>3, <2>4
  <1>9. QED
    BY <1>1, <1>2, <1>3, <1>4, <1>5, <1>6, <1>7, <1>8 DEF Step, Get, Use, Release, Uninit

-----------------------------------------------------------------------------
(* The AVBuffers allocated on their own *)

LEMMA AVBufferFrame ==
  ASSUME AVBufferInv, UNCHANGED <<first, freeAVBuffer>>,
         \A e \in Entries : entry'[e] = "unused" => entry[e] = "unused",
         \A u \in Threads : freeAVBuffer[u] => cur'[u] = cur[u],
         \A e \in Entries : InUse(e)' => noFree'[e] \/ (InUse(e) /\ noFree'[e] = noFree[e])
  PROVE  AVBufferInv'
  BY DEF AVBufferInv

LEMMA AVBufferStep ==
  ASSUME IInv, NEW t \in Threads, Step(t)
  PROVE  AVBufferInv'
  <1>t. TypeOK /\ LocalInv /\ EntryOwnedOnce /\ AVBufferInv
    BY DEF IInv
  <1>f. ASSUME UNCHANGED <<first, noFree, freeAVBuffer>>,
               \A e \in Entries : entry'[e] = "unused" => entry[e] = "unused",
               \A u \in Threads : freeAVBuffer[u] => cur'[u] = cur[u],
               \A e \in Entries : InUse(e)' => InUse(e)
        PROVE  AVBufferInv'
    BY <1>f, <1>t, AVBufferFrame
  <1>1. CASE \/ GetLock(t) \/ GetUnlock(t) \/ GetCount(t) \/ Hand(t) \/ IsWritable(t)
             \/ Written(t) \/ ReleaseLock(t) \/ UninitLock(t) \/ ChangedUnlock(t) \/ Drop(t)
    <2>1. UNCHANGED <<first, noFree, freeAVBuffer, entry, target>>
      BY <1>1 DEF GetLock, GetUnlock, GetCount, Hand, IsWritable, Written, ReleaseLock,
                  UninitLock, ChangedUnlock, Unlock, Drop, bufferVars, refVars, threadVars
    <2>2. \A u \in Threads : /\ freeAVBuffer[u] => cur'[u] = cur[u]
                             /\ pc'[u] = "last" => pc[u] = "last" /\ cur'[u] = cur[u]
      <3> USE DEF TypeOK, Goto
      <3>1. CASE GetLock(t) \/ ReleaseLock(t) \/ UninitLock(t)
        BY <3>1, <1>t DEF GetLock, ReleaseLock, UninitLock, Lock
      <3>2. CASE GetUnlock(t) \/ ChangedUnlock(t)
        BY <3>2, <1>t DEF GetUnlock, ChangedUnlock, Unlock
      <3>3. CASE Hand(t) \/ Drop(t)
        BY <3>3, <1>t DEF Hand, Drop, threadVars
      <3>4. CASE GetCount(t) \/ Written(t)
        BY <3>4, <1>t DEF GetCount, Written, LocalInv
      <3>5. CASE IsWritable(t)
        BY <3>5, <1>t DEF IsWritable, LocalInv
      <3>6. QED
        BY <1>1, <3>1, <3>2, <3>3, <3>4, <3>5
    <2>3. \A e \in Entries : InUse(e)' => InUse(e)
      BY <2>1, <2>2 DEF InUse, RefsTo
    <2>4. QED
      BY <2>1, <2>2, <2>3, <1>f
  <1>2. CASE ReleasePush(t) \/ UninitFlush(t) \/ PoolFree(t)
    <2>1. UNCHANGED <<first, noFree, freeAVBuffer, target, cur>>
      BY <1>2 DEF ReleasePush, UninitFlush, PoolFree, bufferVars, refVars
    <2>2. \A e \in Entries : entry'[e] = "unused" => entry[e] = "unused"
      BY <1>2 DEF ReleasePush, UninitFlush, PoolFree, Flush, bufferVars
    <2>3. \E x \in {"changed", "free buffer"} : pc' = [pc EXCEPT ![t] = x]
      BY <1>2 DEF ReleasePush, UninitFlush, PoolFree, Goto
    <2>4. \A e \in Entries : InUse(e)' => InUse(e)
      BY <2>1, <2>3, <1>t DEF InUse, RefsTo, TypeOK
    <2>5. QED
      BY <2>1, <2>2, <2>4, <1>f
  <1>3. CASE Ref(t)
    <2>1. PICK q \in Refs : target[q] # NoEntry /\ NewRef(t, target[q])
      BY <1>3 DEF Ref
    <2>2. PICK e \in Entries : e = target[q] /\ q \in RefsTo(e)
      BY <2>1, ReferredIsCounted
    <2>3. \A f \in Entries : f # e => RefsTo(f)' = RefsTo(f)
      BY <2>1, <2>2, <1>t, NewRefEffect
    <2>4. UNCHANGED <<first, noFree, freeAVBuffer, entry, pc, cur>>
      BY <1>3 DEF Ref, threadVars
    <2>5. \A f \in Entries : InUse(f)' => InUse(f)
      BY <2>2, <2>3, <2>4 DEF InUse
    <2>6. QED
      BY <2>4, <2>5, <1>f
  <1>4. CASE Unref(t)
    <2>1. PICK r \in Refs, e \in Entries :
            /\ r \in RefsTo(e) /\ \A f \in Entries : f # e => RefsTo(f)' = RefsTo(f)
            /\ \/ pc' = [pc EXCEPT ![t] = "last"] /\ cur' = [cur EXCEPT ![t] = e]
               \/ UNCHANGED <<pc, cur>>
      BY <1>4, UnrefEffect
    <2>2. pc[t] = "idle" /\ UNCHANGED <<first, noFree, freeAVBuffer, entry>>
      BY <1>4 DEF Unref
    <2>3. \A u \in Threads : freeAVBuffer[u] => cur'[u] = cur[u]
      BY <2>1, <2>2, <1>t DEF LocalInv, TypeOK
    <2>4. \A f \in Entries : InUse(f)' => InUse(f)
      BY <2>1, <1>t DEF InUse, TypeOK
    <2>5. QED
      BY <2>2, <2>3, <2>4, <1>f
  <1>5. CASE GetFail(t)
    <2>1. /\ pc[t] = "get" /\ pc' = [pc EXCEPT ![t] = "failed"]
          /\ UNCHANGED <<first, freeAVBuffer, entry, target, cur>>
      BY <1>5 DEF GetFail, Goto, refVars
    <2>2. \A e \in Entries : InUse(e)' => InUse(e)
      BY <2>1, <1>t DEF InUse, RefsTo, TypeOK
    <2>3. \A e \in Entries : InUse(e) => noFree'[e] = noFree[e]
      <3>1. CASE pool = <<>>
        BY <3>1, <1>5 DEF GetFail
      <3>2. CASE pool # <<>>
        <4>1. Head(pool) \in InPool /\ noFree' = [noFree EXCEPT ![Head(pool)] = FALSE]
          BY <3>2, <1>5, HeadOfPool DEF GetFail
        <4>2. \A e \in Entries : InUse(e) => e \notin InPool
          BY <1>t DEF InUse, EntryOwnedOnce, Returning
        <4>3. QED
          BY <4>1, <4>2, <1>t DEF TypeOK
      <3>3. QED
        BY <3>1, <3>2
    <2>4. QED
      BY <2>1, <2>2, <2>3, <1>t, AVBufferFrame
  <1>6. CASE GetReuse(t)
    <2>1. /\ pool # <<>> /\ pc[t] = "get" /\ pc' = [pc EXCEPT ![t] = "got"]
          /\ NewRef(t, Head(pool)) /\ noFree' = [noFree EXCEPT ![Head(pool)] = TRUE]
          /\ cur' = [cur EXCEPT ![t] = Head(pool)]
          /\ UNCHANGED <<first, freeAVBuffer, entry>>
      BY <1>6 DEF GetReuse, Goto
    <2>2. PICK h \in Entries : h = Head(pool)
      BY <2>1, HeadOfPool
    <2>3. \A f \in Entries : f # h => RefsTo(f)' = RefsTo(f)
      BY <2>1, <2>2, <1>t, NewRefEffect
    <2>4. \A u \in Threads : /\ freeAVBuffer[u] => cur'[u] = cur[u]
                             /\ pc'[u] = "last" => pc[u] = "last" /\ cur'[u] = cur[u]
      BY <2>1, <1>t DEF LocalInv, TypeOK
    <2>5. noFree'[h] /\ \A f \in Entries : f # h => noFree'[f] = noFree[f]
      BY <2>1, <2>2, <1>t DEF TypeOK
    <2>6. \A f \in Entries : InUse(f)' => noFree'[f] \/ (InUse(f) /\ noFree'[f] = noFree[f])
      <3>1. \A f \in Entries : f # h /\ InUse(f)' => InUse(f)
        BY <2>3, <2>4 DEF InUse
      <3>2. \A f \in Entries : f = h => noFree'[f]
        BY <2>5
      <3>3. QED
        BY <2>5, <3>1, <3>2, Zenon
    <2>7. QED
      BY <2>1, <2>4, <2>6, <1>t, AVBufferFrame
  <1>7. CASE GetAlloc(t)
    <2>1. PICK e \in Entries :
            /\ entry[e] = "unused" /\ NewRef(t, e) /\ entry' = [entry EXCEPT ![e] = "live"]
            /\ first' = [first EXCEPT ![e] = "live"] /\ cur' = [cur EXCEPT ![t] = e]
      BY <1>7 DEF GetAlloc
    <2>2. /\ pc[t] = "get" /\ pc' = [pc EXCEPT ![t] = "got"]
          /\ UNCHANGED <<noFree, freeAVBuffer>>
      BY <1>7 DEF GetAlloc, Goto
    <2>3. \A f \in Entries : f # e => RefsTo(f)' = RefsTo(f)
      BY <2>1, <1>t, NewRefEffect
    <2>4. \A u \in Threads : /\ freeAVBuffer[u] => cur'[u] = cur[u]
                             /\ pc'[u] = "last" => pc[u] = "last" /\ cur'[u] = cur[u]
      BY <2>1, <2>2, <1>t DEF LocalInv, TypeOK
    <2>5. /\ first'[e] = "live" /\ entry'[e] = "live"
          /\ \A f \in Entries : f # e => first'[f] = first[f] /\ entry'[f] = entry[f]
      BY <2>1, <1>t DEF TypeOK
    <2>6. \A u \in Threads : freeAVBuffer[u] => cur[u] # e /\ cur[u] \in Entries
      BY <2>1, <1>t DEF AVBufferInv, LocalInv
    <2>7. \A f \in Entries : f # e /\ InUse(f)' => InUse(f)
      BY <2>3, <2>4 DEF InUse
    <2>8. QED
      BY <2>2, <2>4, <2>5, <2>6, <2>7, <1>t DEF AVBufferInv
  <1>8. CASE ReadFlag(t)
    <2>1. /\ pc[t] = "last" /\ pc' = [pc EXCEPT ![t] = "release"]
          /\ freeAVBuffer' = [freeAVBuffer EXCEPT ![t] = ~noFree[cur[t]]]
          /\ UNCHANGED <<entry, first, noFree, target, cur>>
      BY <1>8 DEF ReadFlag, Goto, bufferVars, refVars
    <2>2. PICK e \in Entries : e = cur[t]
      BY <2>1, <1>t DEF LocalInv
    <2>3. /\ InUse(e)
          /\ \A f \in Entries : InUse(f)' => InUse(f) /\ f # e
      <3>1. InUse(e)
        BY <2>1, <2>2 DEF InUse
      <3>2. RefsTo(e) = {} /\ \A u \in Threads : u # t /\ pc[u] = "last" => cur[u] # e
        BY <2>1, <2>2, <1>t DEF EntryOwnedOnce, Returning
      <3>3. QED
        BY <2>1, <3>1, <3>2, <1>t DEF InUse, RefsTo, TypeOK
    <2>4. /\ freeAVBuffer'[t] = ~noFree[e]
          /\ \A u \in Threads : u # t => freeAVBuffer'[u] = freeAVBuffer[u]
      BY <2>1, <2>2, <1>t DEF TypeOK
    <2>5. \/ noFree[e]
          \/ first[e] = "live" /\ \A u \in Threads : ~(freeAVBuffer[u] /\ cur[u] = e)
      BY <2>2, <2>3, <1>t, Zenon DEF AVBufferInv
    <2>6. \A u, v \in Threads :
            freeAVBuffer'[u] /\ freeAVBuffer'[v] /\ u # v => cur'[u] # cur'[v]
      <3>1. \A u \in Threads : u # t /\ freeAVBuffer'[t] /\ freeAVBuffer'[u] => cur[u] # e
        BY <2>4, <2>5
      <3>2. \A u, v \in Threads :
              u # t /\ v # t /\ u # v /\ freeAVBuffer'[u] /\ freeAVBuffer'[v] => cur[u] # cur[v]
        BY <2>4, <1>t DEF AVBufferInv
      <3>3. QED
        BY <2>1, <2>2, <3>1, <3>2
    <2>7. \A u \in Threads : freeAVBuffer'[u] => first'[cur'[u]] = "live"
      BY <2>1, <2>2, <2>4, <2>5, <1>t DEF AVBufferInv
    <2>8. \A f \in Entries : InUse(f)' =>
            \/ noFree'[f]
            \/ first'[f] = "live" /\ \A u \in Threads : ~(freeAVBuffer'[u] /\ cur'[u] = f)
      <3> SUFFICES ASSUME NEW f \in Entries, InUse(f)', ~noFree[f]
                   PROVE  /\ first[f] = "live"
                          /\ \A u \in Threads : ~(freeAVBuffer'[u] /\ cur[u] = f)
        BY <2>1, Zenon
      <3>1. InUse(f) /\ f # e
        BY <2>3
      <3>2. first[f] = "live" /\ \A u \in Threads : ~(freeAVBuffer[u] /\ cur[u] = f)
        BY <3>1, <1>t, Zenon DEF AVBufferInv
      <3>3. QED
        BY <2>2, <2>4, <3>1, <3>2
    <2>9. \A f \in Entries : entry'[f] = "unused" => first'[f] = "unused"
      BY <2>1, <1>t DEF AVBufferInv
    <2>10. QED
      BY <2>6, <2>7, <2>8, <2>9 DEF AVBufferInv
  <1>9. CASE BufferFree(t)
    <2>1. /\ pc[t] = "free buffer" /\ pc' = [pc EXCEPT ![t] = "idle"]
          /\ first' = IF freeAVBuffer[t] THEN [first EXCEPT ![cur[t]] = "freed"] ELSE first
          /\ freeAVBuffer' = [freeAVBuffer EXCEPT ![t] = FALSE]
          /\ cur' = [cur EXCEPT ![t] = NoEntry]
          /\ UNCHANGED <<entry, noFree, target>>
      BY <1>9 DEF BufferFree, Goto, refVars
    <2>2. \A f \in Entries : InUse(f)' => InUse(f)
      BY <2>1, <1>t DEF InUse, RefsTo, TypeOK
    <2>3. \A u \in Threads : freeAVBuffer'[u] => u # t /\ freeAVBuffer[u] /\ cur'[u] = cur[u]
      BY <2>1, <1>t DEF TypeOK
    <2>9. \A u, v \in Threads :
            freeAVBuffer'[u] /\ freeAVBuffer'[v] /\ u # v => cur'[u] # cur'[v]
      BY <2>3, <1>t DEF AVBufferInv
    <2>4. CASE freeAVBuffer[t]
      <3>1. PICK e \in Entries : e = cur[t]
        BY <2>4, <1>t DEF LocalInv
      <3>2. \A f \in Entries : f # e => first'[f] = first[f]
        BY <2>1, <2>4, <3>1, <1>t DEF TypeOK
      <3>3. \A f \in Entries : entry'[f] = "unused" => first'[f] = "unused"
        <4>1. entry[e] # "unused"
          BY <2>4, <3>1, <1>t DEF AVBufferInv
        <4>2. QED
          BY <2>1, <3>2, <4>1, <1>t DEF AVBufferInv
      <3>4. \A u \in Threads : freeAVBuffer'[u] => cur[u] # e /\ cur[u] \in Entries
        BY <2>3, <2>4, <3>1, <1>t DEF AVBufferInv, LocalInv
      <3>5. \A u \in Threads : freeAVBuffer'[u] => first'[cur'[u]] = "live"
        BY <2>3, <3>2, <3>4, <1>t DEF AVBufferInv
      <3>6. \A f \in Entries : InUse(f)' =>
              \/ noFree'[f]
              \/ first'[f] = "live" /\ \A u \in Threads : ~(freeAVBuffer'[u] /\ cur'[u] = f)
        <4> SUFFICES ASSUME NEW f \in Entries, InUse(f)', ~noFree[f]
                     PROVE  /\ first'[f] = "live"
                            /\ \A u \in Threads : ~(freeAVBuffer'[u] /\ cur'[u] = f)
          BY <2>1, Zenon
        <4>1. first[f] = "live" /\ \A u \in Threads : ~(freeAVBuffer[u] /\ cur[u] = f)
          BY <2>2, <1>t, Zenon DEF AVBufferInv
        <4>2. f # e
          BY <2>4, <3>1, <4>1
        <4>3. QED
          BY <2>3, <3>2, <4>1, <4>2
      <3>7. QED
        BY <3>3, <3>5, <3>6, <2>9 DEF AVBufferInv
    <2>5. CASE ~freeAVBuffer[t]
      <3>1. first' = first
        BY <2>1, <2>5
      <3>2. \A f \in Entries : InUse(f)' =>
              \/ noFree'[f]
              \/ first'[f] = "live" /\ \A u \in Threads : ~(freeAVBuffer'[u] /\ cur'[u] = f)
        <4> SUFFICES ASSUME NEW f \in Entries, InUse(f)', ~noFree[f]
                     PROVE  /\ first[f] = "live"
                            /\ \A u \in Threads : ~(freeAVBuffer'[u] /\ cur'[u] = f)
          BY <2>1, <3>1, Zenon
        <4>1. first[f] = "live" /\ \A u \in Threads : ~(freeAVBuffer[u] /\ cur[u] = f)
          BY <2>2, <1>t, Zenon DEF AVBufferInv
        <4>2. QED
          BY <2>3, <4>1
      <3>3. /\ \A u \in Threads : freeAVBuffer'[u] => first'[cur'[u]] = "live"
            /\ \A f \in Entries : entry'[f] = "unused" => first'[f] = "unused"
        BY <2>1, <2>3, <3>1, <1>t DEF AVBufferInv
      <3>4. QED
        BY <3>2, <3>3, <2>9 DEF AVBufferInv
    <2>6. QED
      BY <2>4, <2>5
  <1>10. QED
    BY <1>1, <1>2, <1>3, <1>4, <1>5, <1>6, <1>7, <1>8, <1>9 DEF Step, Get, Use, Release, Uninit

-----------------------------------------------------------------------------
(* The counter of the pool *)

LEMMA CountedFinite ==
  /\ IsFiniteSet(Counted) /\ Cardinality(Counted) \in Nat
  /\ IsFiniteSet(Dropping) /\ Cardinality(Dropping) \in Nat
  BY FiniteAssumption, FS_Subset, FS_CardinalityType DEF Counted, Out, Dropping

\* Same as CountedFinite, of the next state.
LEMMA CountedFiniteNext ==
  /\ IsFiniteSet(Counted') /\ Cardinality(Counted') \in Nat
  /\ IsFiniteSet(Dropping') /\ Cardinality(Dropping') \in Nat
  <1>1. Counted' \subseteq Entries /\ Dropping' \subseteq Threads
    BY DEF Counted, Out, Dropping
  <1>2. QED
    BY <1>1, FiniteAssumption, FS_Subset, FS_CardinalityType

\* The thread that has just got a buffer is the only one to know it.
LEMMA UncountedAlone ==
  ASSUME IInv, NEW t \in Uncounted
  PROVE  /\ t \in Threads /\ cur[t] \in Out /\ handle
         /\ \A u \in Uncounted : u # t => cur[u] # cur[t]
  <1>1. /\ t \in Threads /\ pc[t] \in {"got", "count"}
        /\ \A u \in Uncounted : u \in Threads /\ pc[u] \in {"got", "count"}
    BY DEF Uncounted
  <1>2. cur[t] \in Entries /\ handle
    BY <1>1 DEF IInv, LocalInv
  <1>3. \A u \in Uncounted : \E r \in Refs : RefsTo(cur[u]) = {r} /\ holder[r] = u
    BY <1>1 DEF IInv, FreshInv
  <1>4. RefsTo(cur[t]) # {}
    BY <1>3
  <1>5. cur[t] \in Out
    BY <1>2, <1>4 DEF IInv, EntryOwnedOnce, Out
  <1>6. \A u \in Uncounted : u # t => cur[u] # cur[t]
    BY <1>3
  <1>7. QED
    BY <1>1, <1>2, <1>5, <1>6

\* A buffer on its way back is still counted.
LEMMA ReturningIsCounted ==
  ASSUME IInv, NEW t \in Returning
  PROVE  cur[t] \in Counted
  <1>1. cur[t] \in Entries
    BY ReturningHasEntry
  <1>2. entry[cur[t]] = "live" /\ cur[t] \notin InPool /\ RefsTo(cur[t]) = {}
    BY <1>1 DEF IInv, EntryOwnedOnce
  <1>3. \A u \in Uncounted : RefsTo(cur[u]) # {}
    BY DEF IInv, FreshInv, Uncounted
  <1>4. QED
    BY <1>1, <1>2, <1>3 DEF Counted, Out

\* When the counter is 0, the caller, all buffers and all threads are done.
LEMMA NothingCounted ==
  ASSUME IInv, poolRefs = 0
  PROVE  ~handle /\ Counted = {} /\ Out = {} /\ Dropping = {} /\ Returning = {}
  <1>1. /\ poolRefs = (IF handle THEN 1 ELSE 0) + Cardinality(Counted) + Cardinality(Dropping)
        /\ handle \in BOOLEAN
    BY DEF IInv, CountsBuffers, TypeOK
  <1>2. ~handle /\ Cardinality(Counted) = 0 /\ Cardinality(Dropping) = 0
    BY <1>1, CountedFinite
  <1>3. Counted = {} /\ Dropping = {}
    BY <1>2, CountedFinite, FS_EmptySet
  <1>4. Uncounted = {} /\ Returning = {}
    BY <1>2, <1>3, UncountedAlone, ReturningIsCounted
  <1>5. Out = {}
    BY <1>3, <1>4 DEF Counted
  <1>6. QED
    BY <1>2, <1>3, <1>4, <1>5

LEMMA CountedFrame ==
  ASSUME Out' = Out,
         \A u \in Threads : /\ u \in Uncounted' <=> u \in Uncounted
                            /\ u \in Uncounted => cur'[u] = cur[u]
  PROVE  Counted' = Counted
  <1>1. Uncounted' = Uncounted /\ Uncounted \subseteq Threads
    BY DEF Uncounted
  <1>2. QED
    BY <1>1 DEF Counted

LEMMA OutFrame ==
  ASSUME UNCHANGED <<pool, entry>>
  PROVE  Out' = Out /\ InPool' = InPool
  BY DEF Out, InPool

\* Flushing touches only what is in the pool.
LEMMA FlushOut ==
  ASSUME Flush
  PROVE  Out' = Out
  <1>1. InPool' = {}
    BY EmptyList DEF Flush, InPool, Elements
  <1>2. QED
    BY <1>1 DEF Flush, Out

LEMMA CountsBuffersStep ==
  ASSUME IInv, NEW t \in Threads, Step(t)
  PROVE  CountsBuffers'
  <1>t. TypeOK /\ LocalInv /\ CountsBuffers /\ EntryOwnedOnce
    BY DEF IInv
  <1>f. ASSUME UNCHANGED <<handle, poolRefs>>, Counted' = Counted, Dropping' = Dropping
        PROVE  CountsBuffers'
    BY <1>f, <1>t DEF CountsBuffers
  <1>1. CASE \/ GetLock(t) \/ GetFail(t) \/ GetUnlock(t) \/ Ref(t) \/ Hand(t)
             \/ IsWritable(t) \/ Written(t) \/ Unref(t) \/ ReadFlag(t) \/ ReleaseLock(t)
             \/ ChangedUnlock(t) \/ BufferFree(t)
    <2>1. UNCHANGED <<pool, entry, handle, poolRefs>>
      BY <1>1 DEF GetLock, GetFail, GetUnlock, Ref, Hand, IsWritable, Written, Unref, ReadFlag,
                  ReleaseLock, ChangedUnlock, BufferFree, Lock, Unlock, bufferVars, poolVars
    <2>2. /\ \A u \in Threads : /\ u \in Uncounted' <=> u \in Uncounted
                                /\ u \in Uncounted => cur'[u] = cur[u]
          /\ Dropping' = Dropping
      <3> USE DEF TypeOK, Goto, Uncounted, Dropping
      <3>1. CASE GetLock(t) \/ ReleaseLock(t)
        BY <3>1, <1>t DEF GetLock, ReleaseLock, Lock
      <3>2. CASE GetUnlock(t) \/ ChangedUnlock(t)
        BY <3>2, <1>t DEF GetUnlock, ChangedUnlock, Unlock
      <3>3. CASE GetFail(t) \/ ReadFlag(t)
        BY <3>3, <1>t DEF GetFail, ReadFlag
      <3>4. CASE Ref(t) \/ Hand(t)
        BY <3>4, <1>t DEF Ref, Hand, threadVars
      <3>5. CASE IsWritable(t)
        BY <3>5, <1>t DEF IsWritable
      <3>6. CASE Written(t) \/ BufferFree(t)
        <4>1. /\ pc[t] \in {"write", "free buffer"} /\ pc' = [pc EXCEPT ![t] = "idle"]
              /\ cur' = [cur EXCEPT ![t] = NoEntry]
          BY <3>6 DEF Written, BufferFree
        <4>2. QED
          BY <4>1, <1>t
      <3>7. CASE Unref(t)
        <4>1. \E e : \/ pc' = [pc EXCEPT ![t] = "last"] /\ cur' = [cur EXCEPT ![t] = e]
                     \/ UNCHANGED <<pc, cur>>
          BY <3>7, UnrefEffect
        <4>2. pc[t] = "idle"
          BY <3>7 DEF Unref
        <4>3. QED
          BY <4>1, <4>2, <1>t
      <3>8. QED
        BY <1>1, <3>1, <3>2, <3>3, <3>4, <3>5, <3>6, <3>7
    <2>3. Counted' = Counted
      BY <2>1, <2>2, OutFrame, CountedFrame
    <2>4. QED
      BY <2>1, <2>2, <2>3, <1>f
  <1>2. CASE GetReuse(t) \/ GetAlloc(t)
    <2>1. /\ pc[t] = "get" /\ pc' = [pc EXCEPT ![t] = "got"] /\ UNCHANGED <<handle, poolRefs>>
      BY <1>2 DEF GetReuse, GetAlloc, Goto, poolVars
    <2>2. PICK e \in Entries :
            Out' = Out \cup {e} /\ e \notin Out /\ cur' = [cur EXCEPT ![t] = e]
      <3>1. CASE GetReuse(t)
        <4>1. /\ pool # <<>> /\ pool' = Tail(pool) /\ entry' = entry
              /\ cur' = [cur EXCEPT ![t] = Head(pool)]
          BY <3>1 DEF GetReuse
        <4>2. /\ Head(pool) \in Entries /\ Head(pool) \in InPool
              /\ InPool' = InPool \ {Head(pool)}
          BY <4>1, HeadOfPool, PoolElements DEF InPool, Elements
        <4>3. entry[Head(pool)] = "live"
          BY <4>2, <1>t DEF EntryOwnedOnce
        <4>4. Out' = Out \cup {Head(pool)} /\ Head(pool) \notin Out
          BY <4>1, <4>2, <4>3 DEF Out
        <4>5. QED
          BY <4>1, <4>2, <4>4
      <3>2. CASE GetAlloc(t)
        <4>1. PICK e \in Entries : /\ entry[e] = "unused" /\ entry' = [entry EXCEPT ![e] = "live"]
                                   /\ cur' = [cur EXCEPT ![t] = e] /\ pool' = pool
          BY <3>2 DEF GetAlloc, poolVars
        <4>2. InPool' = InPool /\ e \notin InPool
          BY <4>1, <1>t DEF InPool, EntryOwnedOnce
        <4>3. Out' = Out \cup {e} /\ e \notin Out
          BY <4>1, <4>2, <1>t DEF Out, TypeOK
        <4>4. QED
          BY <4>1, <4>3
      <3>3. QED
        BY <1>2, <3>1, <3>2
    <2>3. /\ Uncounted' = Uncounted \cup {t} /\ t \notin Uncounted /\ Uncounted \subseteq Threads
          /\ Dropping' = Dropping
      BY <2>1, <1>t DEF Uncounted, Dropping, TypeOK
    <2>4. cur'[t] = e /\ \A u \in Uncounted : cur'[u] = cur[u]
      BY <2>2, <2>3, <1>t DEF TypeOK
    <2>5. Counted' = Counted
      <3>1. {cur'[u] : u \in Uncounted'} = {cur[u] : u \in Uncounted} \cup {e}
        BY <2>3, <2>4
      <3>2. QED
        BY <2>2, <3>1 DEF Counted
    <2>6. QED
      BY <2>1, <2>3, <2>5, <1>f
  <1>3. CASE GetCount(t)
    <2>1. /\ pc[t] = "count" /\ pc' = [pc EXCEPT ![t] = "idle"] /\ poolRefs' = poolRefs + 1
          /\ cur' = [cur EXCEPT ![t] = NoEntry] /\ UNCHANGED <<pool, entry, handle>>
      BY <1>3 DEF GetCount, Goto, bufferVars
    <2>2. /\ t \in Uncounted /\ Uncounted' = Uncounted \ {t} /\ Dropping' = Dropping
          /\ \A u \in Uncounted' : cur'[u] = cur[u]
      BY <2>1, <1>t DEF Uncounted, Dropping, TypeOK
    <2>3. cur[t] \in Out /\ \A u \in Uncounted : u # t => cur[u] # cur[t]
      BY <2>2, UncountedAlone
    <2>4. Counted' = Counted \cup {cur[t]} /\ cur[t] \notin Counted
      BY <2>1, <2>2, <2>3, OutFrame DEF Counted
    <2>5. Cardinality(Counted') = Cardinality(Counted) + 1
      BY <2>4, CountedFinite, FS_AddElement
    <2>6. QED
      BY <2>1, <2>2, <2>5, <1>t, CountedFinite DEF CountsBuffers
  <1>4. CASE ReleasePush(t)
    <2>1. /\ pc[t] = "push" /\ pc' = [pc EXCEPT ![t] = "changed"] /\ pool' = <<cur[t]>> \o pool
          /\ UNCHANGED <<entry, cur, handle, poolRefs>>
      BY <1>4 DEF ReleasePush, Goto, bufferVars
    <2>2. InPool' = InPool \cup {cur[t]}
      BY <2>1, PushToPool, PoolElements DEF InPool, Elements
    <2>3. t \in Returning /\ Uncounted' = Uncounted
          /\ Dropping' = Dropping \cup {t} /\ t \notin Dropping
      BY <2>1, <1>t DEF Returning, Uncounted, Dropping, TypeOK
    <2>4. cur[t] \in Counted
      BY <2>3, ReturningIsCounted
    <2>5. Counted' = Counted \ {cur[t]}
      <3>1. Out' = Out \ {cur[t]}
        BY <2>1, <2>2 DEF Out
      <3>2. QED
        BY <2>1, <2>3, <3>1 DEF Counted
    <2>6. Cardinality(Counted') = Cardinality(Counted) - 1
      BY <2>4, <2>5, CountedFinite, FS_RemoveElement
    <2>7. Cardinality(Dropping') = Cardinality(Dropping) + 1
      BY <2>3, CountedFinite, FS_AddElement
    <2>8. QED
      BY <2>1, <2>6, <2>7, <1>t, CountedFinite DEF CountsBuffers
  <1>5. CASE UninitLock(t)
    <2>1. /\ handle /\ handle' = FALSE /\ pc[t] = "idle" /\ pc' = [pc EXCEPT ![t] = "flush"]
          /\ UNCHANGED <<pool, entry, cur, poolRefs>>
      BY <1>5 DEF UninitLock, Lock, Goto, bufferVars
    <2>2. Uncounted' = Uncounted /\ Dropping' = Dropping \cup {t} /\ t \notin Dropping
      BY <2>1, <1>t DEF Uncounted, Dropping, TypeOK
    <2>3. Counted' = Counted
      BY <2>1, <2>2, OutFrame, CountedFrame
    <2>4. Cardinality(Dropping') = Cardinality(Dropping) + 1
      BY <2>2, CountedFinite, FS_AddElement
    <2>5. QED
      BY <2>1, <2>3, <2>4, <1>t, CountedFinite DEF CountsBuffers
  <1>6. CASE UninitFlush(t) \/ PoolFree(t)
    <2>1. /\ Flush /\ UNCHANGED <<cur, handle, poolRefs>>
          /\ \/ pc[t] = "flush" /\ pc' = [pc EXCEPT ![t] = "changed"]
             \/ pc[t] = "free pool" /\ pc' = [pc EXCEPT ![t] = "free buffer"]
      BY <1>6 DEF UninitFlush, PoolFree, Goto
    <2>2. Uncounted' = Uncounted /\ Dropping' = Dropping
      BY <2>1, <1>t DEF Uncounted, Dropping, TypeOK
    <2>3. Counted' = Counted
      BY <2>1, <2>2, FlushOut, CountedFrame
    <2>4. QED
      BY <2>1, <2>2, <2>3, <1>f
  <1>7. CASE Drop(t)
    <2>1. /\ pc[t] = "drop" /\ poolRefs' = poolRefs - 1 /\ UNCHANGED <<pool, entry, cur, handle>>
          /\ \E x \in {"free pool", "free buffer"} : pc' = [pc EXCEPT ![t] = x]
      BY <1>7 DEF Drop, bufferVars
    <2>2. Uncounted' = Uncounted /\ Dropping' = Dropping \ {t} /\ t \in Dropping
      BY <2>1, <1>t DEF Uncounted, Dropping, TypeOK
    <2>3. Counted' = Counted
      BY <2>1, <2>2, OutFrame, CountedFrame
    <2>4. Cardinality(Dropping') = Cardinality(Dropping) - 1
      BY <2>2, CountedFinite, FS_RemoveElement
    <2>5. /\ poolRefs = (IF handle THEN 1 ELSE 0) + Cardinality(Counted) + Cardinality(Dropping)
          /\ poolRefs' = (IF handle THEN 1 ELSE 0) + Cardinality(Counted)
                          + (Cardinality(Dropping) - 1)
      <3>1. poolRefs = (IF handle THEN 1 ELSE 0) + Cardinality(Counted) + Cardinality(Dropping)
        BY <1>t DEF CountsBuffers
      <3>2. poolRefs' = poolRefs - 1
        BY <2>1, Zenon
      <3>3. QED
        BY <3>1, <3>2, CountedFinite
    <2>6. handle' = handle
      BY <2>1
    <2>7. QED
      BY <2>3, <2>4, <2>5, <2>6 DEF CountsBuffers
  <1>8. QED
    BY <1>1, <1>2, <1>3, <1>4, <1>5, <1>6, <1>7 DEF Step, Get, Use, Release, Uninit

LEMMA FreedOnceStep ==
  ASSUME IInv, NEW t \in Threads, Step(t)
  PROVE  FreedOnce'
  <1>t. TypeOK /\ LocalInv /\ FreedOnce
    BY DEF IInv
  <1>1. CASE PoolFree(t)
    <2>1. /\ pc[t] = "free pool" /\ pc' = [pc EXCEPT ![t] = "free buffer"]
          /\ poolMemory' = "freed" /\ pool' = <<>> /\ poolRefs' = poolRefs
      BY <1>1 DEF PoolFree, Goto, Flush
    <2>2. \A u \in Threads : pc'[u] # "free pool"
      BY <2>1, <1>t DEF FreedOnce, TypeOK
    <2>3. QED
      BY <2>1, <2>2, <1>t DEF FreedOnce
  <1>2. CASE Drop(t)
    <2>1. /\ pc[t] = "drop" /\ poolRefs' = poolRefs - 1 /\ UNCHANGED <<pool, poolMemory>>
          /\ pc' = [pc EXCEPT ![t] = IF poolRefs = 1 THEN "free pool" ELSE "free buffer"]
      BY <1>2 DEF Drop
    <2>2. poolRefs \in Nat /\ poolRefs > 0
      BY <2>1, DropPositive
    <2>3. poolMemory = "live" /\ \A u \in Threads : pc[u] # "free pool"
      <3>1. poolRefs # 0
        BY <2>2
      <3>2. QED
        BY <3>1, <1>t DEF FreedOnce, TypeOK
    <2>4. \A u \in Threads : pc'[u] = "free pool" => u = t /\ poolRefs' = 0
      <3>1a. poolRefs' = poolRefs - 1
        BY <2>1, Zenon
      <3>1. poolRefs = 1 => poolRefs' = 0
        BY <3>1a
      <3>2. \A u \in Threads : pc'[u] = "free pool" => u = t /\ poolRefs = 1
        BY <2>1, <2>3, <1>t DEF TypeOK
      <3>3. QED
        BY <3>1, <3>2
    <2>5. QED
      BY <2>1, <2>3, <2>4 DEF FreedOnce
  <1>3. CASE ~PoolFree(t) /\ ~Drop(t)
    <2>1. \A u \in Threads : pc'[u] = "free pool" => pc[u] = "free pool"
      <3> USE DEF TypeOK, Goto
      <3>1. CASE GetLock(t) \/ ReleaseLock(t) \/ UninitLock(t) \/ GetUnlock(t) \/ ChangedUnlock(t)
        BY <3>1, <1>t DEF GetLock, ReleaseLock, UninitLock, Lock, GetUnlock, ChangedUnlock, Unlock
      <3>2. CASE GetFail(t) \/ GetReuse(t) \/ GetAlloc(t) \/ GetCount(t)
        BY <3>2, <1>t DEF GetFail, GetReuse, GetAlloc, GetCount
      <3>3. CASE Ref(t) \/ Hand(t)
        BY <3>3, <1>t DEF Ref, Hand, threadVars
      <3>4. CASE IsWritable(t) \/ Written(t) \/ ReadFlag(t)
        <4>1. \E x \in {"write", "idle", "release"} : pc' = [pc EXCEPT ![t] = x]
          BY <3>4 DEF IsWritable, Written, ReadFlag
        <4>2. QED
          BY <4>1, <1>t
      <3>5. CASE Unref(t)
        <4>1. pc' = [pc EXCEPT ![t] = "last"] \/ pc' = pc
          BY <3>5 DEF Unref
        <4>2. QED
          BY <4>1, <1>t
      <3>6. CASE ReleasePush(t) \/ UninitFlush(t) \/ BufferFree(t)
        BY <3>6, <1>t DEF ReleasePush, UninitFlush, BufferFree
      <3>7. QED
        BY <1>3, <3>1, <3>2, <3>3, <3>4, <3>5, <3>6 DEF Step, Get, Use, Release, Uninit
    <2>2. poolMemory' = poolMemory
      BY <1>3 DEF Step, Get, Use, Release, Uninit, GetLock, GetReuse, GetAlloc, GetFail, GetUnlock,
                  GetCount, Ref, Hand, IsWritable, Written, Unref, ReadFlag, ReleaseLock,
                  ReleasePush, ChangedUnlock, BufferFree, UninitLock, UninitFlush, Lock, Unlock,
                  poolVars
    <2>3. poolRefs = 0 => poolRefs' = 0 /\ (pool = <<>> => pool' = <<>>)
      <3> SUFFICES ASSUME poolRefs = 0
                   PROVE  poolRefs' = 0 /\ (pool = <<>> => pool' = <<>>)
        OBVIOUS
      <3>1. ~handle /\ Returning = {}
        BY NothingCounted
      <3>2. pc[t] \notin {"get", "got", "failed", "count", "push"}
        BY <3>1, <1>t DEF LocalInv, Returning
      <3>3. ~GetReuse(t) /\ ~GetAlloc(t) /\ ~GetFail(t) /\ ~GetCount(t) /\ ~ReleasePush(t)
        BY <3>2 DEF GetReuse, GetAlloc, GetFail, GetCount, ReleasePush, Goto
      <3>4. CASE UninitFlush(t)
        BY <3>4 DEF UninitFlush, Flush
      <3>5. CASE ~UninitFlush(t)
        <4>1. poolRefs' = poolRefs
          BY <1>3, <3>3, <3>5
             DEF Step, Get, Use, Release, Uninit, GetLock, GetUnlock, Ref, Hand, IsWritable,
                 Written, Unref, ReadFlag, ReleaseLock, ChangedUnlock, BufferFree, UninitLock,
                 Lock, Unlock, poolVars
        <4>2. pool' = pool
          BY <1>3, <3>3, <3>5
             DEF Step, Get, Use, Release, Uninit, GetLock, GetUnlock, Ref, Hand, IsWritable,
                 Written, Unref, ReadFlag, ReleaseLock, ChangedUnlock, BufferFree, UninitLock,
                 Lock, Unlock, poolVars
        <4>3. QED
          BY <4>1, <4>2
      <3>6. QED
        BY <3>4, <3>5
    <2>4. QED
      BY <2>1, <2>2, <2>3, <1>t DEF FreedOnce
  <1>4. QED
    BY <1>1, <1>2, <1>3

-----------------------------------------------------------------------------
LEMMA IInvStep == IInv /\ [Next]_vars => IInv'
  <1> SUFFICES ASSUME IInv, [Next]_vars PROVE IInv'
    OBVIOUS
  <1>1. ASSUME NEW t \in Threads, Step(t) PROVE IInv'
    BY <1>1, TypeStep, LocalStep, OwnedStep, CountsStep, FreshStep, AVBufferStep,
       CountsBuffersStep, FreedOnceStep DEF IInv
  <1>2. CASE UNCHANGED vars
    <2>1. /\ UNCHANGED <<pool, poolRefs, poolMemory, handle, mutex>>
          /\ UNCHANGED <<entry, first, noFree, refcount, target, holder, pc, cur, freeAVBuffer>>
      BY <1>2 DEF vars, poolVars, bufferVars, refVars, threadVars
    <2> USE <2>1 DEF IInv, InPool, RefsTo, Returning
    <2>2. TypeOK' /\ LocalInv'
      BY DEF TypeOK, LocalInv
    <2>2a. FreshInv'
      BY DEF FreshInv
    <2>2b. CountsReferences'
      BY DEF CountsReferences
    <2>3. EntryOwnedOnce' /\ AVBufferInv'
      BY DEF EntryOwnedOnce, AVBufferInv, InUse
    <2>4. CountsBuffers' /\ FreedOnce'
      BY DEF CountsBuffers, FreedOnce, Counted, Out, Uncounted, Dropping
    <2>5. QED
      BY <2>2, <2>2a, <2>2b, <2>3, <2>4
  <1>3. QED
    BY <1>1, <1>2 DEF Next, Step

THEOREM Invariance == Spec => []IInv
  BY InitIInv, IInvStep, PTL DEF Spec

\* Every variable keeps its type; in particular neither counter falls below 0.
THEOREM TypeCorrect == Spec => []TypeOK
  <1>1. IInv => TypeOK
    BY DEF IInv
  <1>2. QED
    BY <1>1, Invariance, PTL

\* av_buffer_ref() and av_buffer_unref() of any number of threads keep the
\* counter of a buffer equal to the number of references to it.
THEOREM ReferencesAreCounted == Spec => []CountsReferences
  <1>1. IInv => CountsReferences
    BY DEF IInv
  <1>2. QED
    BY <1>1, Invariance, PTL

\* The answer of av_buffer_is_writable() stays right while the caller writes,
\* although it is computed without a lock.
THEOREM WriterIsAlone == Spec => []WriterAlone
  <1>1. IInv => WriterAlone
    BY DEF IInv, FreshInv, WriterAlone
  <1>2. QED
    BY <1>1, Invariance, PTL

\* An entry is in the pool once, or in use, or on its way back in one thread.
THEOREM EntryIsOwnedOnce == Spec => []EntryOwnedOnce
  <1>1. IInv => EntryOwnedOnce
    BY DEF IInv
  <1>2. QED
    BY <1>1, Invariance, PTL

\* The pool is freed after av_buffer_pool_uninit() and the return of the last
\* buffer, and leaves nothing behind.
THEOREM PoolIsFreedLast == Spec => []PoolFreedLast
  <1>1. IInv => PoolFreedLast
    <2> SUFFICES ASSUME IInv, poolMemory = "freed"
                 PROVE  /\ ~handle
                        /\ \A e \in Entries : entry[e] # "live" /\ RefsTo(e) = {}
      BY DEF PoolFreedLast
    <2>1. poolRefs = 0 /\ pool = <<>>
      BY DEF IInv, FreedOnce
    <2>2. ~handle /\ Out = {} /\ InPool = {}
      BY <2>1, NothingCounted, EmptyList, PoolElements
    <2>3. \A e \in Entries : entry[e] # "live"
      BY <2>2 DEF Out
    <2>4. QED
      BY <2>2, <2>3 DEF IInv, EntryOwnedOnce
  <1>2. QED
    BY <1>1, Invariance, PTL

\* No thread reaches freed memory: not through a reference, not while it
\* releases a buffer, and not in the pool's own code.
THEOREM NothingUsedAfterFree == Spec => []NoUseAfterFree
  <1>1. IInv => NoUseAfterFree
    <2> SUFFICES ASSUME IInv PROVE NoUseAfterFree
      OBVIOUS
    <2>t. TypeOK /\ LocalInv /\ EntryOwnedOnce /\ AVBufferInv /\ FreedOnce
      BY DEF IInv
    <2>1. ASSUME NEW r \in Refs, target[r] # NoEntry PROVE BufferLive(target[r])
      <3>1. PICK e \in Entries : e = target[r] /\ entry[e] = "live" /\ RefsTo(e) # {}
        BY <2>1, ReferredIsCounted
      <3>2. InUse(e)
        BY <3>1 DEF InUse
      <3>3. noFree[e] \/ first[e] = "live"
        BY <3>1, <3>2, <2>t, Zenon DEF AVBufferInv
      <3>4. QED
        BY <3>1, <3>3 DEF BufferLive
    <2>2. ASSUME NEW t \in Threads, pc[t] = "last" PROVE BufferLive(cur[t])
      <3>1. PICK e \in Entries : e = cur[t] /\ entry[e] = "live"
        <4>1. t \in Returning /\ cur[t] \in Entries
          BY <2>2, <2>t DEF LocalInv, Returning
        <4>2. QED
          BY <4>1, <2>t DEF EntryOwnedOnce
      <3>2. InUse(e)
        BY <2>2, <3>1 DEF InUse
      <3>3. noFree[e] \/ first[e] = "live"
        BY <3>1, <3>2, <2>t, Zenon DEF AVBufferInv
      <3>4. QED
        BY <3>1, <3>3 DEF BufferLive
    <2>3. ASSUME NEW t \in Threads, pc[t] \in InPoolCode PROVE poolMemory = "live"
      <3> SUFFICES ASSUME poolMemory # "live" PROVE FALSE
        OBVIOUS
      <3>1. poolMemory = "freed" /\ poolRefs = 0 /\ pc[t] # "free pool"
        BY <2>t DEF TypeOK, FreedOnce
      <3>2. ~handle /\ Dropping = {} /\ Returning = {}
        BY <3>1, NothingCounted
      <3>3. pc[t] \notin {"get", "got", "failed", "count", "release", "push", "flush",
                          "changed", "drop"}
        BY <3>2, <2>t DEF LocalInv, Returning, Dropping
      <3>4. QED
        BY <2>3, <3>1, <3>3 DEF InPoolCode, PC
    <2>4. ASSUME NEW t \in Threads, Freeing(t) PROVE first[cur[t]] = "live"
      BY <2>4, <2>t DEF Freeing, AVBufferInv
    <2>5. QED
      BY <2>1, <2>2, <2>3, <2>4 DEF NoUseAfterFree
  <1>2. QED
    BY <1>1, Invariance, PTL
-----------------------------------------------------------------------------
(* AVBufferPool implements SharedBuffers: making, dropping and handing over  *)
(* a reference and deciding to write are the steps of the same name, taking  *)
(* an entry is Get, a flush is Free of the buffers in the list, and all the  *)
(* bookkeeping in between changes nothing a user of the pool can see.        *)

LEMMA SharedInit == Init => Shared!Init
  BY DEF Init, Shared!Init, Writing

\* Who is writing what changes only where a thread starts or stops writing.
LEMMA WritingFrame ==
  ASSUME NEW t \in Threads, pc \in [Threads -> PC], cur \in [Threads -> Entries \cup {NoEntry}],
         pc[t] # "write", pc'[t] # "write",
         \A u \in Threads : u # t => pc'[u] = pc[u] /\ cur'[u] = cur[u]
  PROVE  Writing' = Writing
  BY DEF Writing

\* What GetReuse and GetAlloc hand out, nobody refers to.
LEMMA GetIsShared ==
  ASSUME IInv, NEW t \in Threads, GetReuse(t) \/ GetAlloc(t)
  PROVE  \E e \in Entries : Shared!Get(t, e)
  <1>t. TypeOK /\ LocalInv /\ EntryOwnedOnce
    BY DEF IInv
  <1>1. /\ pc[t] = "get" /\ pc' = [pc EXCEPT ![t] = "got"] /\ handle
        /\ UNCHANGED <<poolMemory, handle>>
    BY <1>t DEF GetReuse, GetAlloc, Goto, LocalInv, poolVars
  <1>2. PICK e \in Entries : /\ RefsTo(e) = {} /\ entry[e] # "freed"
                             /\ entry' = [entry EXCEPT ![e] = "live"]
                             /\ cur' = [cur EXCEPT ![t] = e]
                             /\ NewRef(t, e)
    <2>1. CASE GetReuse(t)
      <3>1. /\ pool # <<>> /\ NewRef(t, Head(pool)) /\ entry' = entry
            /\ cur' = [cur EXCEPT ![t] = Head(pool)]
        BY <2>1 DEF GetReuse
      <3>2. Head(pool) \in Entries /\ Head(pool) \in InPool
        BY <3>1, HeadOfPool
      <3>3. entry[Head(pool)] = "live" /\ RefsTo(Head(pool)) = {}
        BY <3>2, <1>t DEF EntryOwnedOnce
      <3>4. entry' = [entry EXCEPT ![Head(pool)] = "live"]
        BY <3>1, <3>2, <3>3, <1>t DEF TypeOK
      <3>5. QED
        BY <3>1, <3>2, <3>3, <3>4
    <2>2. CASE GetAlloc(t)
      <3>1. PICK e \in Entries : /\ entry[e] = "unused" /\ NewRef(t, e)
                                 /\ entry' = [entry EXCEPT ![e] = "live"]
                                 /\ cur' = [cur EXCEPT ![t] = e]
        BY <2>2 DEF GetAlloc
      <3>2. RefsTo(e) = {}
        BY <3>1, <1>t DEF EntryOwnedOnce
      <3>3. QED
        BY <3>1, <3>2
    <2>3. QED
      BY <2>1, <2>2
  <1>3. Writing' = Writing
    BY <1>1, <1>2, <1>t, WritingFrame DEF TypeOK
  <1>4. Shared!RefsTo(e) = {} /\ Shared!NewRef(t, e)
    BY <1>2 DEF RefsTo, NewRef, Shared!RefsTo, Shared!NewRef
  <1>5. Shared!Get(t, e)
    BY <1>1, <1>2, <1>3, <1>4 DEF Shared!Get
  <1>6. QED
    BY <1>5

\* A counter that says 1 is right: the reference is the only one.
LEMMA WriteIsShared ==
  ASSUME IInv, NEW t \in Threads, IsWritable(t)
  PROVE  Shared!Write(t)
  <1>t. TypeOK
    BY DEF IInv
  <1>1. PICK r \in Refs : /\ target[r] # NoEntry /\ holder[r] = t /\ refcount[target[r]] = 1
                          /\ cur' = [cur EXCEPT ![t] = target[r]]
    BY DEF IsWritable
  <1>2. /\ pc[t] = "idle" /\ pc' = [pc EXCEPT ![t] = "write"]
        /\ UNCHANGED <<target, holder, entry, poolMemory, handle>>
    BY DEF IsWritable, Goto, refVars, bufferVars, poolVars
  <1>3. RefsTo(target[r]) = {r}
    <2>1. r \in RefsTo(target[r]) /\ Cardinality(RefsTo(target[r])) = 1
      BY <1>1, ReferredIsCounted
    <2>2. /\ IsFiniteSet(RefsTo(target[r]) \ {r})
          /\ Cardinality(RefsTo(target[r]) \ {r}) = 0
      BY <2>1, RefsFinite, FS_RemoveElement
    <2>3. RefsTo(target[r]) \ {r} = {}
      BY <2>2, FS_EmptySet
    <2>4. QED
      BY <2>1, <2>3
  <1>4. Writing[t] = NoEntry /\ Writing' = [Writing EXCEPT ![t] = target[r]]
    BY <1>1, <1>2, <1>t DEF Writing, TypeOK
  <1>5. r \in Shared!Held(t) /\ Shared!RefsTo(target[r]) = {r}
    BY <1>1, <1>3 DEF Shared!Held, Shared!RefsTo, RefsTo
  <1>6. QED
    BY <1>2, <1>4, <1>5 DEF Shared!Write, Shared!refVars

\* A thread that makes, hands over or drops a reference is not writing.
LEMMA UseIsShared ==
  ASSUME IInv, NEW t \in Threads, Ref(t) \/ Hand(t) \/ Unref(t)
  PROVE  Shared!Share(t) \/ (\E u \in Threads : Shared!Hand(t, u)) \/ Shared!Drop(t)
  <1>t. TypeOK
    BY DEF IInv
  <1>1. pc[t] = "idle" /\ UNCHANGED <<entry, poolMemory, handle>>
    BY DEF Ref, Hand, Unref, poolVars, bufferVars
  <1>2. Writing[t] = NoEntry
    BY <1>1 DEF Writing
  <1>3. CASE Ref(t)
    <2>1. PICK r \in Refs : target[r] # NoEntry /\ holder[r] = t /\ NewRef(t, target[r])
      BY <1>3 DEF Ref
    <2>2. r \in Shared!Held(t) /\ Shared!NewRef(t, target[r])
      BY <2>1 DEF Shared!Held, NewRef, Shared!NewRef
    <2>3. Writing' = Writing
      BY <1>3 DEF Ref, threadVars, Writing
    <2>4. Shared!Share(t)
      BY <1>1, <1>2, <2>2, <2>3 DEF Shared!Share
    <2>5. QED
      BY <2>4
  <1>4. CASE Hand(t)
    <2>1. PICK r \in Refs, u \in Threads : /\ target[r] # NoEntry /\ holder[r] = t
                                           /\ holder' = [holder EXCEPT ![r] = u]
      BY <1>4 DEF Hand
    <2>2. r \in Shared!Held(t)
      BY <2>1 DEF Shared!Held
    <2>3. Writing' = Writing /\ target' = target
      BY <1>4 DEF Hand, threadVars, Writing
    <2>4. Shared!Hand(t, u)
      BY <1>1, <1>2, <2>1, <2>2, <2>3 DEF Shared!Hand
    <2>5. QED
      BY <2>4
  <1>5. CASE Unref(t)
    <2>1. PICK r \in Refs : /\ target[r] # NoEntry /\ holder[r] = t
                            /\ target' = [target EXCEPT ![r] = NoEntry]
                            /\ holder' = [holder EXCEPT ![r] = NoThread]
                            /\ \/ /\ pc' = [pc EXCEPT ![t] = "last"]
                                  /\ cur' = [cur EXCEPT ![t] = target[r]]
                               \/ UNCHANGED <<pc, cur>>
      BY <1>5 DEF Unref
    <2>2. r \in Shared!Held(t)
      BY <2>1 DEF Shared!Held
    <2>3. Writing' = Writing
      BY <1>1, <2>1, <1>t, WritingFrame DEF TypeOK
    <2>4. Shared!Drop(t)
      BY <1>1, <1>2, <2>1, <2>2, <2>3 DEF Shared!Drop
    <2>5. QED
      BY <2>4
  <1>6. QED
    BY <1>3, <1>4, <1>5

\* Only entries in the list are freed, after av_buffer_pool_uninit(); when the
\* counter has reached 0, no other entries are left.
LEMMA FlushIsShared ==
  ASSUME IInv, NEW t \in Threads, UninitFlush(t) \/ PoolFree(t)
  PROVE  \E B \in SUBSET Entries : Shared!Free(B)
  <1>t. TypeOK /\ LocalInv /\ EntryOwnedOnce /\ FreedOnce
    BY DEF IInv
  <1>1. /\ entry' = [e \in Entries |-> IF e \in InPool THEN "freed" ELSE entry[e]]
        /\ UNCHANGED <<target, holder, handle, cur>>
    BY DEF UninitFlush, PoolFree, Flush, refVars
  <1>2. InPool \subseteq Entries /\ \A e \in InPool : entry[e] = "live" /\ Shared!RefsTo(e) = {}
    <2>1. InPool \subseteq Entries
      BY <1>t DEF InPool, TypeOK
    <2>2. QED
      BY <2>1, <1>t DEF EntryOwnedOnce, RefsTo, Shared!RefsTo
  <1>3. Writing' = Writing
    <2>1. \/ pc[t] = "flush" /\ pc' = [pc EXCEPT ![t] = "changed"]
          \/ pc[t] = "free pool" /\ pc' = [pc EXCEPT ![t] = "free buffer"]
      BY DEF UninitFlush, PoolFree, Goto
    <2>2. QED
      BY <2>1, <1>1, <1>t, WritingFrame DEF TypeOK
  <1>4. ~handle /\ \/ poolMemory' = poolMemory
                   \/ /\ poolMemory = "live" /\ poolMemory' = "freed"
                      /\ \A e \in Entries : entry'[e] # "live"
    <2>1. CASE UninitFlush(t)
      BY <2>1, <1>t DEF UninitFlush, Goto, LocalInv
    <2>2. CASE PoolFree(t)
      <3>1. poolRefs = 0 /\ poolMemory = "live" /\ poolMemory' = "freed"
        BY <2>2, <1>t DEF PoolFree, Goto, FreedOnce
      <3>2. ~handle /\ Out = {}
        BY <3>1, NothingCounted
      <3>3. \A e \in Entries : entry'[e] # "live"
        BY <1>1, <3>2 DEF Out
      <3>4. QED
        BY <3>1, <3>2, <3>3
    <2>3. QED
      BY <2>1, <2>2
  <1>5. Shared!Free(InPool)
    BY <1>1, <1>2, <1>3, <1>4 DEF Shared!Free, Shared!refVars
  <1>6. QED
    BY <1>2, <1>5

LEMMA SharedStep == IInv /\ [Next]_vars => [Shared!Next]_(Shared!vars)
  <1> SUFFICES ASSUME IInv, [Next]_vars PROVE Shared!Next \/ UNCHANGED Shared!vars
    OBVIOUS
  <1> USE DEF Shared!vars, Shared!refVars
  <1>t. TypeOK /\ LocalInv
    BY DEF IInv
  <1>1. ASSUME NEW t \in Threads, Step(t) PROVE Shared!Next \/ UNCHANGED Shared!vars
    <2>1. CASE GetReuse(t) \/ GetAlloc(t)
      BY <2>1, GetIsShared DEF Shared!Next
    <2>2. CASE IsWritable(t)
      BY <2>2, WriteIsShared DEF Shared!Next
    <2>3. CASE Ref(t) \/ Hand(t) \/ Unref(t)
      BY <2>3, UseIsShared DEF Shared!Next
    <2>4. CASE UninitFlush(t) \/ PoolFree(t)
      BY <2>4, FlushIsShared DEF Shared!Next
    <2>5. CASE Written(t)
      <3>1. /\ pc[t] = "write" /\ pc' = [pc EXCEPT ![t] = "idle"]
            /\ cur' = [cur EXCEPT ![t] = NoEntry]
            /\ UNCHANGED <<target, holder, entry, poolMemory, handle>>
        BY <2>5 DEF Written, Goto, refVars, bufferVars, poolVars
      <3>2. Writing[t] # NoEntry /\ Writing' = [Writing EXCEPT ![t] = NoEntry]
        <4>1. Writing[t] = cur[t] /\ cur[t] \in Entries
          BY <3>1, <1>t DEF Writing, LocalInv
        <4>2. Writing[t] # NoEntry
          BY <4>1, NoEntryAssumption
        <4>3. Writing' = [Writing EXCEPT ![t] = NoEntry]
          BY <3>1, <1>t DEF Writing, TypeOK
        <4>4. QED
          BY <4>2, <4>3
      <3>3. Shared!Written(t)
        BY <3>1, <3>2 DEF Shared!Written
      <3>4. QED
        BY <3>3 DEF Shared!Next
    <2>6. CASE UninitLock(t)
      <3>1. /\ handle /\ handle' = FALSE /\ pc[t] = "idle" /\ pc' = [pc EXCEPT ![t] = "flush"]
            /\ UNCHANGED <<target, holder, entry, poolMemory, cur>>
        BY <2>6 DEF UninitLock, Lock, Goto, refVars, bufferVars
      <3>2. Writing' = Writing
        BY <3>1, <1>t, WritingFrame DEF TypeOK
      <3>3. Shared!GiveUp
        BY <3>1, <3>2 DEF Shared!GiveUp
      <3>4. QED
        BY <3>3 DEF Shared!Next
    <2>7. CASE \/ GetLock(t) \/ GetFail(t) \/ GetUnlock(t) \/ GetCount(t) \/ ReadFlag(t)
               \/ ReleaseLock(t) \/ ReleasePush(t) \/ ChangedUnlock(t) \/ Drop(t)
               \/ BufferFree(t)
      <3>1. UNCHANGED <<target, holder, entry, poolMemory, handle>>
        BY <2>7 DEF GetLock, GetFail, GetUnlock, GetCount, ReadFlag, ReleaseLock, ReleasePush,
                    ChangedUnlock, Drop, BufferFree, Lock, Unlock, refVars, bufferVars, poolVars
      <3>2. /\ pc[t] # "write" /\ \E x \in PC \ {"write"} : pc' = [pc EXCEPT ![t] = x]
            /\ cur' = cur \/ cur' = [cur EXCEPT ![t] = NoEntry]
        BY <2>7 DEF GetLock, GetFail, GetUnlock, GetCount, ReadFlag, ReleaseLock, ReleasePush,
                    ChangedUnlock, Drop, BufferFree, Lock, Unlock, Goto, PC
      <3>3. Writing' = Writing
        BY <3>2, <1>t, WritingFrame DEF TypeOK
      <3>4. QED
        BY <3>1, <3>3
    <2>8. QED
      BY <1>1, <2>1, <2>2, <2>3, <2>4, <2>5, <2>6, <2>7 DEF Step, Get, Use, Release, Uninit
  <1>2. CASE UNCHANGED vars
    BY <1>2 DEF vars, poolVars, bufferVars, refVars, threadVars, Writing
  <1>3. QED
    BY <1>1, <1>2 DEF Next, Step

\* Whatever the number of threads, buffers and references, the users of the pool
\* see each call as one step, and a buffer that is written or freed under
\* nobody's feet.
THEOREM BuffersAreShared == Spec => ImplementsSharedBuffers
  BY SharedInit, SharedStep, Invariance, PTL DEF Spec, ImplementsSharedBuffers, Shared!Spec
=============================================================================
