----------------------------- MODULE SharedBuffers -----------------------------
(***************************************************************************)
(* What a pool of reference-counted buffers promises the threads that use  *)
(* it, whatever counters, locks and lists are behind it.  A buffer that is *)
(* handed out is nobody else's; it may then be shared; it is written only  *)
(* by a thread that holds the only reference; its memory is freed only     *)
(* when nobody refers to it and the owner has given up the pool, and the   *)
(* pool itself after all of them.  AVBufferPool implements this module.    *)
(***************************************************************************)
CONSTANTS Threads, Buffers, Refs, NoThread, NoBuffer

VARIABLES target,      \* target[r]: the buffer a reference refers to, or NoBuffer
          holder,      \* holder[r]: the thread it belongs to
          memory,      \* memory[b]: "unused", "live" or "freed"
          pool,        \* "live" or "freed": the pool itself
          owned,       \* its owner has not given it up
          writing      \* writing[t]: the buffer thread t is writing, or NoBuffer

refVars == <<target, holder>>
vars == <<refVars, memory, pool, owned, writing>>

Held(t) == {r \in Refs : target[r] # NoBuffer /\ holder[r] = t}
RefsTo(b) == {r \in Refs : target[r] = b}

Init == /\ target = [r \in Refs |-> NoBuffer]
        /\ holder = [r \in Refs |-> NoThread]
        /\ memory = [b \in Buffers |-> "unused"]
        /\ pool = "live"
        /\ owned = TRUE
        /\ writing = [t \in Threads |-> NoBuffer]

NewRef(t, b) == \E r \in Refs : /\ target[r] = NoBuffer
                                /\ target' = [target EXCEPT ![r] = b]
                                /\ holder' = [holder EXCEPT ![r] = t]

\* A buffer nobody refers to, new or used before.
Get(t, b) == /\ owned
             /\ RefsTo(b) = {} /\ memory[b] # "freed"
             /\ NewRef(t, b)
             /\ memory' = [memory EXCEPT ![b] = "live"]
             /\ UNCHANGED <<pool, owned, writing>>

Share(t) == /\ writing[t] = NoBuffer
            /\ \E r \in Held(t) : NewRef(t, target[r])
            /\ UNCHANGED <<memory, pool, owned, writing>>

Hand(t, u) == /\ writing[t] = NoBuffer
              /\ \E r \in Held(t) : holder' = [holder EXCEPT ![r] = u]
              /\ UNCHANGED <<target, memory, pool, owned, writing>>

Drop(t) == /\ writing[t] = NoBuffer
           /\ \E r \in Held(t) : /\ target' = [target EXCEPT ![r] = NoBuffer]
                                 /\ holder' = [holder EXCEPT ![r] = NoThread]
           /\ UNCHANGED <<memory, pool, owned, writing>>

\* Only with the only reference.
Write(t) == /\ writing[t] = NoBuffer
            /\ \E r \in Held(t) : /\ RefsTo(target[r]) = {r}
                                  /\ writing' = [writing EXCEPT ![t] = target[r]]
            /\ UNCHANGED <<refVars, memory, pool, owned>>

Written(t) == /\ writing[t] # NoBuffer
              /\ writing' = [writing EXCEPT ![t] = NoBuffer]
              /\ UNCHANGED <<refVars, memory, pool, owned>>

GiveUp == /\ owned /\ owned' = FALSE
          /\ UNCHANGED <<refVars, memory, pool, writing>>

\* Some buffers nobody refers to are freed, and with the last the pool may be.
Free(B) == /\ ~owned
           /\ \A b \in B : memory[b] = "live" /\ RefsTo(b) = {}
           /\ memory' = [b \in Buffers |-> IF b \in B THEN "freed" ELSE memory[b]]
           /\ \/ UNCHANGED pool
              \/ pool = "live" /\ pool' = "freed" /\ \A b \in Buffers : memory'[b] # "live"
           /\ UNCHANGED <<refVars, owned, writing>>

Next == \/ \E t \in Threads : \/ \E b \in Buffers : Get(t, b)
                              \/ \E u \in Threads : Hand(t, u)
                              \/ Share(t) \/ Drop(t) \/ Write(t) \/ Written(t)
        \/ GiveUp
        \/ \E B \in SUBSET Buffers : Free(B)

Spec == Init /\ [][Next]_vars
=============================================================================
