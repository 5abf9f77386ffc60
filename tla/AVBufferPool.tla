------------------------------ MODULE AVBufferPool ------------------------------
(***************************************************************************)
(* The memory behind packets and frames: reference-counted buffers and the *)
(* pool that reuses them (src/source_code/libavutil/buffer.c).  The audio  *)
(* frames of both players come from such a pool (libavcodec/get_buffer.c), *)
(* and av_packet_ref() in AVPacketQueue::pull() makes a second reference   *)
(* to a packet's data, which another thread drops than made the first.     *)
(* Counters are atomic, the pool's list has a mutex, and a thread may be   *)
(* interrupted between any two of these accesses.                          *)
(***************************************************************************)
EXTENDS Integers, Sequences, FiniteSets

CONSTANTS Threads,
          Entries,     \* the BufferPoolEntries that can be allocated (a bound)
          Refs,        \* the AVBufferRefs that can exist at once (a bound)
          NoThread, NoEntry

ASSUME NoThreadAssumption == NoThread \notin Threads
ASSUME NoEntryAssumption == NoEntry \notin Entries
ASSUME FiniteAssumption ==
  IsFiniteSet(Threads) /\ IsFiniteSet(Entries) /\ IsFiniteSet(Refs)

VARIABLES
  pool,          \* pool->pool, the entries to reuse, the next one first
  poolRefs,      \* pool->refcount
  poolMemory,    \* "live" or "freed": the AVBufferPool
  handle,        \* the caller still has its pointer to the pool
  mutex,         \* who holds pool->mutex, or NoThread
  entry,         \* entry[e]: a BufferPoolEntry with its data and the AVBuffer in it
  first,         \* first[e]: the AVBuffer e's data was allocated with
  noFree,        \* noFree[e]: BUFFER_FLAG_NO_FREE: the AVBuffer in use is in e
  refcount,      \* refcount[e]: of the AVBuffer in use
  target,        \* target[r]: the entry an AVBufferRef refers to, or NoEntry
  holder,        \* holder[r]: the thread it belongs to
  pc,            \* where each thread is
  cur,           \* cur[t]: the entry the call of thread t works on, or NoEntry
  freeAVBuffer   \* freeAVBuffer[t]: the local free_avbuffer of buffer_replace()

poolVars == <<pool, poolRefs, poolMemory, handle, mutex>>
bufferVars == <<entry, first, noFree, refcount>>
refVars == <<target, holder>>
threadVars == <<pc, cur, freeAVBuffer>>
vars == <<poolVars, bufferVars, refVars, threadVars>>

Init == /\ pool = <<>> /\ poolRefs = 1 /\ poolMemory = "live"
        /\ handle = TRUE
        /\ mutex = NoThread
        /\ entry = [e \in Entries |-> "unused"]
        /\ first = [e \in Entries |-> "unused"]
        /\ noFree = [e \in Entries |-> FALSE]
        /\ refcount = [e \in Entries |-> 0]
        /\ target = [r \in Refs |-> NoEntry]
        /\ holder = [r \in Refs |-> NoThread]
        /\ pc = [t \in Threads |-> "idle"]
        /\ cur = [t \in Threads |-> NoEntry]
        /\ freeAVBuffer = [t \in Threads |-> FALSE]

-----------------------------------------------------------------------------
Goto(t, from, to) == pc[t] = from /\ pc' = [pc EXCEPT ![t] = to]

\* ff_mutex_lock and ff_mutex_unlock on pool->mutex.
Lock(t, from, to) == /\ Goto(t, from, to)
                     /\ mutex = NoThread
                     /\ mutex' = t
                     /\ UNCHANGED <<pool, poolRefs, poolMemory>>

Unlock(t, from, to) == /\ Goto(t, from, to)
                       /\ mutex' = NoThread
                       /\ UNCHANGED <<pool, poolRefs, poolMemory, handle, bufferVars, refVars,
                                      cur, freeAVBuffer>>

\* A new AVBufferRef of thread t to the buffer of entry e.
NewRef(t, e) == \E r \in Refs : /\ target[r] = NoEntry
                                /\ target' = [target EXCEPT ![r] = e]
                                /\ holder' = [holder EXCEPT ![r] = t]

-----------------------------------------------------------------------------
(* av_buffer_pool_get() *)

GetLock(t) == /\ handle
              /\ Lock(t, "idle", "get")
              /\ UNCHANGED <<handle, bufferVars, refVars, cur, freeAVBuffer>>

\* Mutant of GetReuse: the entry stays in the list.
GetReuseKeeps(t) == /\ pool # <<>>
                    /\ Goto(t, "get", "got")
                    /\ NewRef(t, Head(pool))
                    /\ refcount' = [refcount EXCEPT ![Head(pool)] = 1]
                    /\ noFree' = [noFree EXCEPT ![Head(pool)] = TRUE]
                    /\ cur' = [cur EXCEPT ![t] = Head(pool)]
                    /\ UNCHANGED <<poolVars, entry, first, freeAVBuffer>>

\* buffer_create() of the AVBuffer inside the entry.
GetReuse(t) == /\ pool # <<>>
               /\ Goto(t, "get", "got")
               /\ NewRef(t, Head(pool))
               /\ refcount' = [refcount EXCEPT ![Head(pool)] = 1]
               /\ noFree' = [noFree EXCEPT ![Head(pool)] = TRUE]
               /\ pool' = Tail(pool)
               /\ cur' = [cur EXCEPT ![t] = Head(pool)]
               /\ UNCHANGED <<poolRefs, poolMemory, handle, mutex, entry, first, freeAVBuffer>>

\* Mutant of GetAlloc: the new AVBuffer counts no reference yet.
GetAllocZero(t) == /\ pool = <<>>
                   /\ Goto(t, "get", "got")
                   /\ \E e \in Entries :
                        /\ entry[e] = "unused"
                        /\ NewRef(t, e)
                        /\ entry' = [entry EXCEPT ![e] = "live"]
                        /\ first' = [first EXCEPT ![e] = "live"]
                        /\ cur' = [cur EXCEPT ![t] = e]
                   /\ UNCHANGED <<poolVars, noFree, refcount, freeAVBuffer>>

\* pool_alloc_buffer(): data, AVBuffer and BufferPoolEntry are three allocations.
GetAlloc(t) == /\ pool = <<>>
               /\ Goto(t, "get", "got")
               /\ \E e \in Entries :
                    /\ entry[e] = "unused"
                    /\ NewRef(t, e)
                    /\ entry' = [entry EXCEPT ![e] = "live"]
                    /\ first' = [first EXCEPT ![e] = "live"]
                    /\ refcount' = [refcount EXCEPT ![e] = 1]
                    /\ cur' = [cur EXCEPT ![t] = e]
               /\ UNCHANGED <<poolVars, noFree, freeAVBuffer>>

\* An allocation fails: what was allocated before is freed; an entry of the
\* pool stays there, its AVBuffer already set up.
GetFail(t) == /\ Goto(t, "get", "failed")
              /\ IF pool = <<>> THEN UNCHANGED <<refcount, noFree>>
                 ELSE /\ refcount' = [refcount EXCEPT ![Head(pool)] = 1]
                      /\ noFree' = [noFree EXCEPT ![Head(pool)] = FALSE]
              /\ UNCHANGED <<poolVars, entry, first, refVars, cur, freeAVBuffer>>

GetUnlock(t) == Unlock(t, "got", "count") \/ Unlock(t, "failed", "idle")

\* Mutant of GetCount: pool->refcount is not incremented.
GetUncounted(t) == /\ Goto(t, "count", "idle")
                   /\ cur' = [cur EXCEPT ![t] = NoEntry]
                   /\ UNCHANGED <<poolVars, bufferVars, refVars, freeAVBuffer>>

\* The new buffer is counted only after the mutex has been released.
GetCount(t) == /\ Goto(t, "count", "idle")
               /\ poolRefs' = poolRefs + 1
               /\ cur' = [cur EXCEPT ![t] = NoEntry]
               /\ UNCHANGED <<pool, poolMemory, handle, mutex, bufferVars, refVars,
                              freeAVBuffer>>

-----------------------------------------------------------------------------
(* av_buffer_ref(), av_buffer_is_writable() and av_buffer_unref() on a       *)
(* reference the calling thread holds                                        *)

\* Mutant of Ref: the new reference is not counted.
RefUncounted(t) == /\ pc[t] = "idle"
                   /\ \E r \in Refs : /\ target[r] # NoEntry /\ holder[r] = t
                                      /\ NewRef(t, target[r])
                   /\ UNCHANGED <<poolVars, bufferVars, threadVars>>

Ref(t) == /\ pc[t] = "idle"
          /\ \E r \in Refs : /\ target[r] # NoEntry /\ holder[r] = t
                             /\ NewRef(t, target[r])
                             /\ refcount' = [refcount EXCEPT ![target[r]] = @ + 1]
          /\ UNCHANGED <<poolVars, entry, first, noFree, threadVars>>

\* A packet or a frame passes to another thread, through a queue for instance.
Hand(t) == /\ pc[t] = "idle"
           /\ \E r \in Refs, u \in Threads : /\ target[r] # NoEntry /\ holder[r] = t
                                             /\ holder' = [holder EXCEPT ![r] = u]
           /\ UNCHANGED <<poolVars, bufferVars, target, threadVars>>

\* Mutant of IsWritable: a second reference is taken for the caller's own.
IsWritableLoose(t) == /\ \E r \in Refs : /\ target[r] # NoEntry /\ holder[r] = t
                                         /\ refcount[target[r]] <= 2
                                         /\ cur' = [cur EXCEPT ![t] = target[r]]
                      /\ Goto(t, "idle", "write")
                      /\ UNCHANGED <<poolVars, bufferVars, refVars, freeAVBuffer>>

\* The caller writes the data when it finds its reference to be the only one;
\* otherwise av_buffer_make_writable() copies and drops it (Unref).
IsWritable(t) == /\ \E r \in Refs : /\ target[r] # NoEntry /\ holder[r] = t
                                    /\ refcount[target[r]] = 1
                                    /\ cur' = [cur EXCEPT ![t] = target[r]]
                 /\ Goto(t, "idle", "write")
                 /\ UNCHANGED <<poolVars, bufferVars, refVars, freeAVBuffer>>

Written(t) == /\ Goto(t, "write", "idle")
              /\ cur' = [cur EXCEPT ![t] = NoEntry]
              /\ UNCHANGED <<poolVars, bufferVars, refVars, freeAVBuffer>>

\* Mutant of Unref: the thread that leaves one reference frees the buffer.
UnrefEarly(t) == /\ pc[t] = "idle"
                 /\ \E r \in Refs :
                      /\ target[r] # NoEntry /\ holder[r] = t
                      /\ target' = [target EXCEPT ![r] = NoEntry]
                      /\ holder' = [holder EXCEPT ![r] = NoThread]
                      /\ refcount' = [refcount EXCEPT ![target[r]] = @ - 1]
                      /\ IF refcount[target[r]] <= 2
                         THEN /\ pc' = [pc EXCEPT ![t] = "last"]
                              /\ cur' = [cur EXCEPT ![t] = target[r]]
                         ELSE UNCHANGED <<pc, cur>>
                 /\ UNCHANGED <<poolVars, entry, first, noFree, freeAVBuffer>>

\* buffer_replace(): the reference goes, then the counter; the thread that
\* brings it to 0 frees the buffer.
Unref(t) == /\ pc[t] = "idle"
            /\ \E r \in Refs :
                 /\ target[r] # NoEntry /\ holder[r] = t
                 /\ target' = [target EXCEPT ![r] = NoEntry]
                 /\ holder' = [holder EXCEPT ![r] = NoThread]
                 /\ refcount' = [refcount EXCEPT ![target[r]] = @ - 1]
                 /\ IF refcount[target[r]] = 1
                    THEN /\ pc' = [pc EXCEPT ![t] = "last"]
                         /\ cur' = [cur EXCEPT ![t] = target[r]]
                    ELSE UNCHANGED <<pc, cur>>
            /\ UNCHANGED <<poolVars, entry, first, noFree, freeAVBuffer>>

\* Mutant of ReadFlag: the flag is not looked at.
ReadFlagDropped(t) == /\ Goto(t, "last", "release")
                      /\ freeAVBuffer' = [freeAVBuffer EXCEPT ![t] = TRUE]
                      /\ UNCHANGED <<poolVars, bufferVars, refVars, cur>>

\* Once b->free() is called, the structure that holds the flag may be gone.
ReadFlag(t) == /\ Goto(t, "last", "release")
               /\ freeAVBuffer' = [freeAVBuffer EXCEPT ![t] = ~noFree[cur[t]]]
               /\ UNCHANGED <<poolVars, bufferVars, refVars, cur>>

-----------------------------------------------------------------------------
(* pool_release_buffer(), which is the free() of a pool's buffers            *)

ReleaseLock(t) == /\ Lock(t, "release", "push")
                  /\ UNCHANGED <<handle, bufferVars, refVars, cur, freeAVBuffer>>

ReleasePush(t) == /\ Goto(t, "push", "changed")
                  /\ pool' = <<cur[t]>> \o pool
                  /\ UNCHANGED <<poolRefs, poolMemory, handle, mutex, bufferVars, refVars,
                                 cur, freeAVBuffer>>

\* av_buffer_pool_uninit(): the caller gives up its pointer, which nobody may
\* be using for av_buffer_pool_get().
UninitLock(t) == /\ handle /\ handle' = FALSE
                 /\ \A u \in Threads : pc[u] \notin {"get", "got", "failed", "count"}
                 /\ Lock(t, "idle", "flush")
                 /\ UNCHANGED <<bufferVars, refVars, cur, freeAVBuffer>>

InPool == {pool[i] : i \in 1 .. Len(pool)}

\* buffer_pool_flush()
Flush == /\ entry' = [e \in Entries |-> IF e \in InPool THEN "freed" ELSE entry[e]]
         /\ pool' = <<>>

UninitFlush(t) == /\ Goto(t, "flush", "changed")
                  /\ Flush
                  /\ UNCHANGED <<poolRefs, poolMemory, handle, mutex, first, noFree, refcount,
                                 refVars, cur, freeAVBuffer>>

ChangedUnlock(t) == Unlock(t, "changed", "drop")

\* The pool's counter goes down; whoever brings it to 0 frees the pool.
Drop(t) == /\ pc[t] = "drop"
           /\ poolRefs' = poolRefs - 1
           /\ pc' = [pc EXCEPT ![t] = IF poolRefs = 1 THEN "free pool" ELSE "free buffer"]
           /\ UNCHANGED <<pool, poolMemory, handle, mutex, bufferVars, refVars, cur,
                          freeAVBuffer>>

\* Mutant of PoolFree: what the pool holds is not flushed again.
PoolFreeUnflushed(t) == /\ Goto(t, "free pool", "free buffer")
                        /\ poolMemory' = "freed"
                        /\ UNCHANGED <<pool, poolRefs, handle, mutex, bufferVars, refVars, cur,
                                       freeAVBuffer>>

\* buffer_pool_free()
PoolFree(t) == /\ Goto(t, "free pool", "free buffer")
               /\ Flush
               /\ poolMemory' = "freed"
               /\ UNCHANGED <<poolRefs, handle, mutex, first, noFree, refcount, refVars, cur,
                              freeAVBuffer>>

\* av_free(b), if b is not part of its entry.
BufferFree(t) == /\ Goto(t, "free buffer", "idle")
                 /\ first' = IF freeAVBuffer[t] THEN [first EXCEPT ![cur[t]] = "freed"]
                             ELSE first
                 /\ freeAVBuffer' = [freeAVBuffer EXCEPT ![t] = FALSE]
                 /\ cur' = [cur EXCEPT ![t] = NoEntry]
                 /\ UNCHANGED <<poolVars, entry, noFree, refcount, refVars>>

-----------------------------------------------------------------------------
Get(t) == \/ GetLock(t) \/ GetReuse(t) \/ GetAlloc(t) \/ GetFail(t) \/ GetUnlock(t)
          \/ GetCount(t)

Use(t) == Ref(t) \/ Hand(t) \/ IsWritable(t) \/ Written(t)

Release(t) == \/ ReadFlag(t) \/ ReleaseLock(t) \/ ReleasePush(t) \/ ChangedUnlock(t)
              \/ Drop(t) \/ PoolFree(t) \/ BufferFree(t)

Uninit(t) == UninitLock(t) \/ UninitFlush(t)

Next == \E t \in Threads : Get(t) \/ Use(t) \/ Unref(t) \/ Release(t) \/ Uninit(t)

Spec == Init /\ [][Next]_vars

\* A thread inside a call goes on with it and gets the mutex at last.  Nothing
\* makes a thread drop a reference or uninit the pool.
LiveSpec == /\ Spec
            /\ \A t \in Threads :
                 /\ WF_vars(GetReuse(t) \/ GetAlloc(t) \/ GetFail(t)
                              \/ GetUnlock(t) \/ GetCount(t) \/ Written(t))
                 /\ WF_vars(UninitFlush(t) \/ Release(t))
                 /\ SF_vars(ReleaseLock(t))

-----------------------------------------------------------------------------
State == {"unused", "live", "freed"}

PC == {"idle", "get", "got", "failed", "count", "write", "last", "release", "push",
       "flush", "changed", "drop", "free pool", "free buffer"}

\* Every variable has its type; no counter falls below 0.
TypeOK == /\ pool \in Seq(Entries)
          /\ poolRefs \in Nat
          /\ poolMemory \in {"live", "freed"}
          /\ handle \in BOOLEAN
          /\ mutex \in Threads \cup {NoThread}
          /\ entry \in [Entries -> State] /\ first \in [Entries -> State]
          /\ noFree \in [Entries -> BOOLEAN]
          /\ refcount \in [Entries -> Nat]
          /\ target \in [Refs -> Entries \cup {NoEntry}]
          /\ holder \in [Refs -> Threads \cup {NoThread}]
          /\ pc \in [Threads -> PC]
          /\ cur \in [Threads -> Entries \cup {NoEntry}]
          /\ freeAVBuffer \in [Threads -> BOOLEAN]

RefsTo(e) == {r \in Refs : target[r] = e}

\* The counter of each buffer outside the pool is the number of AVBufferRefs that
\* refer to it (buffer_internal.h:45), whichever threads make and drop them.
CountsReferences == \A e \in Entries :
  entry[e] = "live" /\ e \notin InPool => refcount[e] = Cardinality(RefsTo(e))

\* While a thread writes a buffer that av_buffer_is_writable() found its own,
\* nobody else has a reference to it, and nobody can get one.
WriterAlone == \A t \in Threads : pc[t] = "write" =>
  \E r \in Refs : RefsTo(cur[t]) = {r} /\ holder[r] = t

\* The threads that are giving an entry back to the pool.
Returning == {t \in Threads : pc[t] \in {"last", "release", "push"}}

\* Each entry that has been allocated and not freed is in the pool, once, or
\* referred to, or on its way back in one thread: none leaks, none is handed out
\* twice, and none is freed that is still in use.
EntryOwnedOnce ==
  /\ \A e \in Entries : entry[e] = "live" <=>
       e \in InPool \/ RefsTo(e) # {} \/ \E t \in Returning : cur[t] = e
  /\ \A e \in InPool : RefsTo(e) = {}
  /\ \A t \in Returning : RefsTo(cur[t]) = {} /\ cur[t] \notin InPool
  /\ \A t, u \in Returning : t # u => cur[t] # cur[u]
  /\ \A i, j \in 1 .. Len(pool) : i # j => pool[i] # pool[j]

\* An AVBuffer is either part of its entry or memory of its own.
BufferLive(e) == entry[e] = "live" /\ (noFree[e] \/ first[e] = "live")

\* The thread is going to free the AVBuffer it has released.
Freeing(t) == /\ pc[t] \in {"release", "push", "changed", "drop", "free pool", "free buffer"}
              /\ freeAVBuffer[t]

InPoolCode == PC \ {"idle", "write", "last", "free buffer"}

\* No thread touches memory that has been freed: not a buffer through one of its
\* references, not the AVBuffer or the pool it is about to free, not the pool
\* while buffers are out, although av_buffer_pool_uninit() has been called.
NoUseAfterFree ==
  /\ \A r \in Refs : target[r] # NoEntry => BufferLive(target[r])
  /\ \A t \in Threads : /\ pc[t] = "last" => BufferLive(cur[t])
                        /\ pc[t] \in InPoolCode => poolMemory = "live"
                        /\ Freeing(t) => first[cur[t]] = "live"

\* The pool is freed only when the caller has given it up and every buffer is
\* back (libavutil/buffer.h:241-243), and then every entry has been freed too.
PoolFreedLast == poolMemory = "freed" =>
  /\ ~handle
  /\ \A e \in Entries : entry[e] # "live" /\ RefsTo(e) = {}

\* The buffer each thread is writing.
Writing == [t \in Threads |-> IF pc[t] = "write" THEN cur[t] ELSE NoEntry]

Shared == INSTANCE SharedBuffers WITH
            Buffers <- Entries, NoBuffer <- NoEntry, memory <- entry,
            pool <- poolMemory, owned <- handle, writing <- Writing

\* The counters, the mutex and the list together implement SharedBuffers, where
\* all of this is one step each: buffer.h's promise that a buffer may be written
\* only by who has the only reference, is freed after the last reference is gone,
\* and the pool after the last buffer.
ImplementsSharedBuffers == Shared!Spec

\* Once the caller has given up the pool and all references are dropped, all of
\* the memory is freed in the end.
AllFreed == (~handle /\ \A r \in Refs : target[r] = NoEntry) ~>
  (poolMemory = "freed" /\ \A e \in Entries : entry[e] # "live" /\ first[e] # "live")
=============================================================================
