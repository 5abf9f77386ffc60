-------------------------- MODULE PacketQueue_proofs --------------------------
(***************************************************************************)
(* Proofs about PacketQueue for any number of threads and packets: what    *)
(* the mutex guarantees, that pull() removes the packet it copied, and     *)
(* that the queue implements PacketFifo.                                   *)
(***************************************************************************)
EXTENDS PacketQueue, DistinctLists, FiniteSetTheorems, TLAPS

\* A thread is in a critical section exactly when it holds the mutex.
MutexInv == \A t \in Threads : pc[t] \in Critical <=> mutex = t

\* A thread about to push, pop or free a packet has one in its hand.
HandInv == \A t \in Threads :
  pc[t] \in {"push", "enqueue", "pop", "free"} => avPacket[t] \in Packets

IInv == TypeOK /\ MutexInv /\ HandInv /\ PopsWhatItCopied

LEMMA InitIInv == Init => IInv
  <1> SUFFICES ASSUME Init PROVE IInv
    OBVIOUS
  <1> USE ThreadsAssumption DEF Init, Threads
  <1>1. TypeOK
    <2>1. packetQueue \in Seq(Packets) /\ got \in [Consumers -> Seq(Packets)]
      OBVIOUS
    <2>2. waitSet \subseteq Consumers
      OBVIOUS
    <2>3. pc \in [Threads -> ProducerPC \cup ConsumerPC]
      BY DEF ProducerPC
    <2>4. \A t \in Producers : pc[t] \in ProducerPC
      BY DEF ProducerPC
    <2>5. \A c \in Consumers : pc[c] \in ConsumerPC
      BY DEF ConsumerPC
    <2>6. QED
      BY <2>1, <2>2, <2>3, <2>4, <2>5 DEF TypeOK
  <1>2. MutexInv
    BY DEF MutexInv, Critical
  <1>3. HandInv /\ PopsWhatItCopied
    BY DEF HandInv, PopsWhatItCopied
  <1>4. QED
    BY <1>1, <1>2, <1>3 DEF IInv

\* The steps every thread can take: size() and the end of a call.
LEMMA SharedStep ==
  ASSUME IInv, NEW t \in Threads, LockSize(t) \/ Unlock(t)
  PROVE  IInv'
  <1> USE ThreadsAssumption, PacketsAssumption
          DEF IInv, TypeOK, Threads, Critical, ProducerPC, ConsumerPC
  <1>1. CASE LockSize(t)
    <2>1. TypeOK'
      BY <1>1 DEF LockSize, Lock
    <2>2. MutexInv'
      BY <1>1 DEF LockSize, Lock, MutexInv
    <2>3. HandInv' /\ PopsWhatItCopied'
      BY <1>1 DEF LockSize, Lock, HandInv, PopsWhatItCopied
    <2>4. QED
      BY <2>1, <2>2, <2>3
  <1>2. CASE Unlock(t)
    <2>1. TypeOK'
      BY <1>2 DEF Unlock, Goto
    <2>2. MutexInv'
      BY <1>2 DEF Unlock, Goto, MutexInv
    <2>3. HandInv' /\ PopsWhatItCopied'
      BY <1>2 DEF Unlock, Goto, HandInv, PopsWhatItCopied
    <2>4. QED
      BY <2>1, <2>2, <2>3
  <1>3. QED
    BY <1>1, <1>2

\* A producer appends at the back: the head a consumer copied stays in front.
LEMMA ProducerStep ==
  ASSUME IInv, NEW t \in Producers, Producer(t)
  PROVE  IInv'
  <1> USE ThreadsAssumption, PacketsAssumption
          DEF IInv, TypeOK, Threads, Critical, ProducerPC, ConsumerPC
  <1>1. CASE Alloc(t)
    <2>1. TypeOK'
      BY <1>1 DEF Alloc, Goto
    <2>2. MutexInv'
      BY <1>1 DEF Alloc, Goto, MutexInv
    <2>3. HandInv' /\ PopsWhatItCopied'
      BY <1>1 DEF Alloc, Goto, HandInv, PopsWhatItCopied
    <2>4. QED
      BY <2>1, <2>2, <2>3
  <1>2. CASE LockPush(t)
    <2>1. TypeOK'
      BY <1>2 DEF LockPush, Lock
    <2>2. MutexInv'
      BY <1>2 DEF LockPush, Lock, MutexInv
    <2>3. HandInv' /\ PopsWhatItCopied'
      BY <1>2 DEF LockPush, Lock, HandInv, PopsWhatItCopied
    <2>4. QED
      BY <2>1, <2>2, <2>3
  <1>3. CASE Enqueue(t)
    <2>1. avPacket[t] \in Packets
      BY <1>3 DEF Enqueue, HandInv
    <2>2. TypeOK'
      BY <1>3, <2>1 DEF Enqueue, Goto
    <2>3. MutexInv'
      BY <1>3 DEF Enqueue, Goto, MutexInv
    <2>4. HandInv'
      BY <1>3 DEF Enqueue, Goto, HandInv
    <2>5. \A c \in Consumers : pc[c] # "pop"
      BY <1>3 DEF Enqueue, MutexInv
    <2>6. PopsWhatItCopied'
      BY <1>3, <2>5 DEF Enqueue, Goto, PopsWhatItCopied
    <2>7. QED
      BY <2>2, <2>3, <2>4, <2>6
  <1>4. CASE Signal(t)
    <2>1. TypeOK'
      BY <1>4 DEF Signal, Goto
    <2>2. MutexInv'
      BY <1>4 DEF Signal, Goto, MutexInv
    <2>3. HandInv' /\ PopsWhatItCopied'
      BY <1>4 DEF Signal, Goto, HandInv, PopsWhatItCopied
    <2>4. QED
      BY <2>1, <2>2, <2>3
  <1>5. CASE StopWorking(t)
    <2>1. TypeOK'
      BY <1>5 DEF StopWorking, Goto
    <2>2. MutexInv'
      BY <1>5 DEF StopWorking, Goto, MutexInv
    <2>3. HandInv' /\ PopsWhatItCopied'
      BY <1>5 DEF StopWorking, Goto, HandInv, PopsWhatItCopied
    <2>4. QED
      BY <2>1, <2>2, <2>3
  <1>6. QED
    BY <1>1, <1>2, <1>3, <1>4, <1>5 DEF Producer

\* Only the consumer that holds the mutex removes a packet.
LEMMA ConsumerStep ==
  ASSUME IInv, NEW c \in Consumers, Consumer(c) \/ SpuriousWakeup(c)
  PROVE  IInv'
  <1> USE ThreadsAssumption, PacketsAssumption
          DEF IInv, TypeOK, Threads, Critical, ProducerPC, ConsumerPC
  <1>1. CASE LockPull(c)
    <2>1. TypeOK'
      BY <1>1 DEF LockPull, Lock
    <2>2. MutexInv'
      BY <1>1 DEF LockPull, Lock, MutexInv
    <2>3. HandInv' /\ PopsWhatItCopied'
      BY <1>1 DEF LockPull, Lock, HandInv, PopsWhatItCopied
    <2>4. QED
      BY <2>1, <2>2, <2>3
  <1>2. CASE PullWait(c)
    <2>1. TypeOK'
      BY <1>2 DEF PullWait, Goto
    <2>2. MutexInv'
      BY <1>2 DEF PullWait, Goto, MutexInv
    <2>3. HandInv' /\ PopsWhatItCopied'
      BY <1>2 DEF PullWait, Goto, HandInv, PopsWhatItCopied
    <2>4. QED
      BY <2>1, <2>2, <2>3
  <1>3. CASE Relock(c)
    <2>1. TypeOK'
      BY <1>3 DEF Relock, Lock
    <2>2. MutexInv'
      BY <1>3 DEF Relock, Lock, MutexInv
    <2>3. HandInv' /\ PopsWhatItCopied'
      BY <1>3 DEF Relock, Lock, HandInv, PopsWhatItCopied
    <2>4. QED
      BY <2>1, <2>2, <2>3
  <1>4. CASE PullFront(c)
    <2>1. Head(packetQueue) \in Packets
      BY <1>4 DEF PullFront
    <2>2. TypeOK'
      BY <1>4, <2>1 DEF PullFront, Goto
    <2>3. MutexInv'
      BY <1>4 DEF PullFront, Goto, MutexInv
    <2>4. HandInv'
      BY <1>4, <2>1 DEF PullFront, Goto, HandInv
    <2>5. PopsWhatItCopied'
      BY <1>4 DEF PullFront, Goto, PopsWhatItCopied
    <2>6. QED
      BY <2>2, <2>3, <2>4, <2>5
  <1>5. CASE PullPop(c)
    <2>1. packetQueue # <<>> /\ avPacket[c] \in Packets
      BY <1>5 DEF PullPop, PopsWhatItCopied, HandInv
    <2>2. TypeOK'
      BY <1>5, <2>1 DEF PullPop, Goto
    <2>3. MutexInv'
      BY <1>5 DEF PullPop, Goto, MutexInv
    <2>4. HandInv'
      BY <1>5 DEF PullPop, Goto, HandInv
    <2>5. \A d \in Consumers : d # c => pc[d] # "pop"
      BY <1>5 DEF PullPop, MutexInv
    <2>6. PopsWhatItCopied'
      BY <1>5, <2>5 DEF PullPop, Goto, PopsWhatItCopied
    <2>7. QED
      BY <2>2, <2>3, <2>4, <2>6
  <1>6. CASE PullFree(c)
    <2>1. TypeOK'
      BY <1>6 DEF PullFree, Goto
    <2>2. MutexInv'
      BY <1>6 DEF PullFree, Goto, MutexInv
    <2>3. HandInv' /\ PopsWhatItCopied'
      BY <1>6 DEF PullFree, Goto, HandInv, PopsWhatItCopied
    <2>4. QED
      BY <2>1, <2>2, <2>3
  <1>7. CASE SpuriousWakeup(c)
    BY <1>7 DEF SpuriousWakeup, MutexInv, HandInv, PopsWhatItCopied
  <1>8. QED
    BY <1>1, <1>2, <1>3, <1>4, <1>5, <1>6, <1>7 DEF Consumer

LEMMA NextIInv == IInv /\ [Next]_vars => IInv'
  <1> SUFFICES ASSUME IInv, [Next]_vars PROVE IInv'
    OBVIOUS
  <1>1. CASE UNCHANGED vars
    BY <1>1 DEF vars, IInv, TypeOK, MutexInv, HandInv, PopsWhatItCopied
  <1>2. CASE Next
    BY <1>2, SharedStep, ProducerStep, ConsumerStep DEF Next
  <1>3. QED
    BY <1>1, <1>2

\* The inductive invariant holds in every reachable state.
THEOREM Invariance == Spec => []IInv
  BY InitIInv, NextIInv, PTL DEF Spec

\* Every variable keeps its type, whatever the threads do.
THEOREM TypeCorrect == Spec => []TypeOK
  <1>1. IInv => TypeOK
    BY DEF IInv
  <1>2. QED
    BY <1>1, Invariance, PTL

\* pull() pops the packet it copied, for any number of producers and consumers.
THEOREM PopIsCopied == Spec => []PopsWhatItCopied
  <1>1. IInv => PopsWhatItCopied
    BY DEF IInv
  <1>2. QED
    BY <1>1, Invariance, PTL

-----------------------------------------------------------------------------
LEMMA FifoInit == Init => Fifo!Init
  BY DEF Init, Fifo!Init

\* Enqueue is a Put, PullPop is a Take, and every other step is a stutter.
LEMMA FifoStep == IInv /\ [Next]_vars => [Fifo!Next]_(Fifo!vars)
  <1> SUFFICES ASSUME IInv, [Next]_vars PROVE [Fifo!Next]_(Fifo!vars)
    OBVIOUS
  <1> USE DEF Fifo!vars
  <1>1. CASE UNCHANGED vars
    BY <1>1 DEF vars
  <1>2. ASSUME NEW t \in Threads, LockSize(t) \/ Unlock(t)
        PROVE  UNCHANGED Fifo!vars
    BY <1>2 DEF LockSize, Unlock
  <1>3. ASSUME NEW t \in Producers, Enqueue(t)
        PROVE  Fifo!Next
    <2>1. avPacket[t] \in Packets
      BY <1>3 DEF IInv, HandInv, Enqueue, Threads
    <2>2. Fifo!Put(avPacket[t])
      BY <1>3 DEF Fifo!Put, Enqueue
    <2>3. QED
      BY <2>1, <2>2 DEF Fifo!Next
  <1>4. ASSUME NEW t \in Producers, Alloc(t) \/ LockPush(t) \/ Signal(t) \/ StopWorking(t)
        PROVE  UNCHANGED Fifo!vars
    BY <1>4 DEF Alloc, LockPush, Signal, StopWorking
  <1>5. ASSUME NEW c \in Consumers, PullPop(c)
        PROVE  Fifo!Next
    <2>1. packetQueue # <<>> /\ Head(packetQueue) = avPacket[c]
      BY <1>5 DEF IInv, PopsWhatItCopied, PullPop
    <2>2. Fifo!Take(c)
      BY <1>5, <2>1 DEF Fifo!Take, PullPop
    <2>3. QED
      BY <2>2 DEF Fifo!Next
  <1>6. ASSUME NEW c \in Consumers,
               \/ LockPull(c) \/ PullWait(c) \/ Relock(c) \/ PullFront(c)
               \/ PullFree(c) \/ SpuriousWakeup(c)
        PROVE  UNCHANGED Fifo!vars
    BY <1>6 DEF LockPull, PullWait, Relock, PullFront, PullFree, SpuriousWakeup
  <1>7. QED
    BY <1>1, <1>2, <1>3, <1>4, <1>5, <1>6 DEF Next, Producer, Consumer

\* Whatever the threads' interleaving, the queue behaves as one FIFO buffer.
THEOREM QueueIsFifo == Spec => ImplementsFifo
  <1>1. Spec => Fifo!Init /\ [][Fifo!Next]_(Fifo!vars)
    BY FifoInit, FifoStep, Invariance, PTL DEF Spec
  <1>2. QED
    BY <1>1, PTL DEF ImplementsFifo, Fifo!Spec

-----------------------------------------------------------------------------
(* Who owns which packet *)

HandPC == {"push", "enqueue", "free"}

\* PacketsOwnedOnce with one condition for each packet and each thread.
OwnInv == ~refFailed =>
  /\ \A p \in Packets : heap[p] = "live" <=>
       p \in Queued \/ \E t \in Threads : pc[t] \in HandPC /\ avPacket[t] = p
  /\ \A t \in Threads : pc[t] \in HandPC => avPacket[t] \notin Queued
  /\ \A t, u \in Threads : t # u /\ pc[t] \in HandPC /\ pc[u] \in HandPC
                             => avPacket[t] # avPacket[u]
  /\ Distinct(packetQueue)
  /\ IsFiniteSet(Queued) /\ Cardinality(Queued) = Len(packetQueue)

LEMMA QueuedElements == Queued = Elements(packetQueue)
  BY DEF Queued, Elements

LEMMA OwnInit == Init => OwnInv
  <1> SUFFICES ASSUME Init PROVE OwnInv
    OBVIOUS
  <1>1. Queued = {} /\ Distinct(packetQueue) /\ packetQueue = <<>>
    BY EmptyList, QueuedElements DEF Init
  <1>2. \A t \in Threads : pc[t] \notin HandPC
    BY DEF Init, HandPC
  <1>3. \A p \in Packets : heap[p] # "live"
    BY DEF Init
  <1>4. QED
    BY <1>1, <1>2, <1>3, FS_EmptySet DEF OwnInv

\* The steps that move no packet.
LEMMA OwnFrame ==
  ASSUME OwnInv, UNCHANGED <<packetQueue, heap, refFailed>>,
         \A u \in Threads : /\ pc'[u] \in HandPC <=> pc[u] \in HandPC
                            /\ pc[u] \in HandPC => avPacket'[u] = avPacket[u]
  PROVE  OwnInv'
  <1>1. Queued' = Queued
    BY DEF Queued
  <1>2. QED
    BY <1>1 DEF OwnInv

LEMMA OwnStep ==
  ASSUME IInv, OwnInv, Next
  PROVE  OwnInv'
  <1>t. TypeOK /\ HandInv /\ PopsWhatItCopied
    BY DEF IInv
  <1>1. ASSUME NEW t \in Threads,
               \/ LockSize(t) \/ Unlock(t)
               \/ t \in Producers /\ (LockPush(t) \/ Signal(t) \/ StopWorking(t))
               \/ t \in Consumers /\ (LockPull(t) \/ PullWait(t) \/ Relock(t))
        PROVE  OwnInv'
    <2>1. UNCHANGED <<packetQueue, heap, refFailed>>
      BY <1>1 DEF LockSize, Unlock, LockPush, Signal, StopWorking, LockPull, PullWait, Relock
    <2>2. /\ \/ /\ pc[t] \notin HandPC
                /\ \E x \in {"unlock", "idle", "stopped", "look", "wait"} :
                     pc' = [pc EXCEPT ![t] = x]
             \/ pc[t] = "push" /\ pc' = [pc EXCEPT ![t] = "enqueue"]
          /\ avPacket' = avPacket \/ (pc[t] \notin HandPC /\ avPacket' = [avPacket EXCEPT ![t] = NoPacket])
      <3> USE DEF Lock, Goto, HandPC
      <3>1. CASE LockSize(t) \/ LockPull(t) \/ Relock(t) \/ LockPush(t)
        BY <3>1 DEF LockSize, LockPull, Relock, LockPush
      <3>2. CASE Unlock(t)
        BY <3>2 DEF Unlock
      <3>3. CASE Signal(t) \/ StopWorking(t) \/ PullWait(t)
        BY <3>3 DEF Signal, StopWorking, PullWait
      <3>4. QED
        BY <1>1, <3>1, <3>2, <3>3
    <2>3. \A u \in Threads : /\ pc'[u] \in HandPC <=> pc[u] \in HandPC
                             /\ pc[u] \in HandPC => avPacket'[u] = avPacket[u]
      BY <2>2, <1>t DEF HandPC, TypeOK
    <2>4. QED
      BY <2>1, <2>3, OwnFrame
  <1>2. ASSUME NEW c \in Consumers, SpuriousWakeup(c)
        PROVE  OwnInv'
    BY <1>2, OwnFrame DEF SpuriousWakeup
  <1>3. ASSUME NEW t \in Producers, Alloc(t)
        PROVE  OwnInv'
    <2>1. PICK p \in Packets : /\ heap[p] = "unused" /\ heap' = [heap EXCEPT ![p] = "live"]
                               /\ avPacket' = [avPacket EXCEPT ![t] = p]
      BY <1>3 DEF Alloc
    <2>2. /\ t \in Threads /\ pc[t] = "idle" /\ pc' = [pc EXCEPT ![t] = "push"]
          /\ UNCHANGED <<packetQueue, refFailed>>
      BY <1>3 DEF Alloc, Goto, Threads
    <2>3. Queued' = Queued
      BY <2>2 DEF Queued
    <2>4. /\ pc'[t] \in HandPC /\ avPacket'[t] = p /\ pc[t] \notin HandPC
          /\ \A u \in Threads : u # t => /\ pc'[u] = pc[u] /\ avPacket'[u] = avPacket[u]
          /\ heap'[p] = "live" /\ \A q \in Packets : q # p => heap'[q] = heap[q]
      BY <2>1, <2>2, <1>t DEF HandPC, TypeOK
    <2>5. QED
      BY <2>1, <2>2, <2>3, <2>4 DEF OwnInv
  <1>4. ASSUME NEW t \in Producers, Enqueue(t)
        PROVE  OwnInv'
    <2>1. /\ t \in Threads /\ pc[t] = "enqueue" /\ pc' = [pc EXCEPT ![t] = "signal"]
          /\ packetQueue' = Append(packetQueue, avPacket[t])
          /\ UNCHANGED <<heap, refFailed, avPacket>>
      BY <1>4 DEF Enqueue, Goto, Threads
    <2>2. PICK p \in Packets : p = avPacket[t]
      BY <2>1, <1>t DEF HandInv
    <2> SUFFICES ASSUME ~refFailed PROVE OwnInv'
      BY <2>1 DEF OwnInv
    <2>3. /\ pc[t] \in HandPC /\ pc'[t] \notin HandPC
          /\ \A u \in Threads : u # t => pc'[u] = pc[u]
      BY <2>1, <1>t DEF HandPC, TypeOK
    <2>4. p \notin Queued /\ \A u \in Threads : u # t /\ pc[u] \in HandPC => avPacket[u] # p
      BY <2>1, <2>2, <2>3 DEF OwnInv
    <2>5. Queued' = Queued \cup {p} /\ Distinct(packetQueue')
      <3>1. packetQueue \in Seq(Packets) /\ Distinct(packetQueue) /\ packetQueue' = Append(packetQueue, p)
        BY <2>1, <2>2, <1>t DEF OwnInv, TypeOK
      <3>2. Elements(packetQueue') = Elements(packetQueue) \cup {p} /\ Distinct(packetQueue')
        BY <2>4, <3>1, AppendList, QueuedElements
      <3>3. Queued' = Elements(packetQueue')
        BY DEF Queued, Elements
      <3>4. QED
        BY <3>2, <3>3, QueuedElements
    <2>6. /\ Len(packetQueue') = Len(packetQueue) + 1
          /\ IsFiniteSet(Queued') /\ Cardinality(Queued') = Cardinality(Queued) + 1
      <3>1. IsFiniteSet(Queued)
        BY DEF OwnInv
      <3>2. IsFiniteSet(Queued') /\ Cardinality(Queued') = Cardinality(Queued) + 1
        BY <2>4, <2>5, <3>1, FS_AddElement
      <3>3. Len(packetQueue') = Len(packetQueue) + 1
        BY <2>1, <2>2, <1>t DEF TypeOK
      <3>4. QED
        BY <3>2, <3>3
    <2>7. QED
      BY <2>1, <2>2, <2>3, <2>4, <2>5, <2>6 DEF OwnInv
  <1>5. ASSUME NEW c \in Consumers, PullFront(c)
        PROVE  OwnInv'
    <2>1. /\ c \in Threads /\ pc[c] = "look" /\ UNCHANGED <<packetQueue, heap>>
          /\ avPacket' = [avPacket EXCEPT ![c] = Head(packetQueue)]
          /\ \/ /\ \E x \in {"pop", "undefined"} : pc' = [pc EXCEPT ![c] = x]
                /\ refFailed' = refFailed
             \/ refFailed'
      BY <1>5 DEF PullFront, Goto, Threads
    <2>2. CASE refFailed'
      BY <2>2 DEF OwnInv
    <2>3. CASE ~refFailed'
      <3>1. \A u \in Threads : /\ pc'[u] \in HandPC <=> pc[u] \in HandPC
                               /\ pc[u] \in HandPC => avPacket'[u] = avPacket[u]
        BY <2>1, <2>3, <1>t DEF HandPC, TypeOK
      <3>2. QED
        BY <2>1, <2>3, <3>1, OwnFrame
    <2>4. QED
      BY <2>2, <2>3
  <1>6. ASSUME NEW c \in Consumers, PullPop(c)
        PROVE  OwnInv'
    <2>1. /\ c \in Threads /\ pc[c] = "pop" /\ pc' = [pc EXCEPT ![c] = "free"]
          /\ packetQueue' = Tail(packetQueue) /\ UNCHANGED <<heap, refFailed, avPacket>>
      BY <1>6 DEF PullPop, Goto, Threads
    <2>2. packetQueue # <<>> /\ Head(packetQueue) = avPacket[c]
      BY <2>1, <1>6, <1>t DEF PopsWhatItCopied
    <2> SUFFICES ASSUME ~refFailed PROVE OwnInv'
      BY <2>1 DEF OwnInv
    <2>3. PICK p \in Packets : /\ p = avPacket[c] /\ p \in Queued
                               /\ Queued' = Queued \ {p} /\ Distinct(packetQueue')
      <3>1. packetQueue \in Seq(Packets) /\ Distinct(packetQueue)
        BY <1>t DEF OwnInv, TypeOK
      <3>2. /\ Head(packetQueue) \in Packets /\ Head(packetQueue) \in Queued
            /\ Elements(Tail(packetQueue)) = Queued \ {Head(packetQueue)}
            /\ Distinct(Tail(packetQueue))
        BY <2>2, <3>1, PopList, QueuedElements
      <3>3. Queued' = Elements(packetQueue')
        BY DEF Queued, Elements
      <3>4. QED
        BY <2>1, <2>2, <3>2, <3>3
    <2>4. /\ pc[c] \notin HandPC /\ pc'[c] \in HandPC
          /\ \A u \in Threads : u # c => pc'[u] = pc[u]
      BY <2>1, <1>t DEF HandPC, TypeOK
    <2>5. \A u \in Threads : pc[u] \in HandPC => avPacket[u] # p
      BY <2>3 DEF OwnInv
    <2>6. /\ Len(packetQueue') = Len(packetQueue) - 1
          /\ IsFiniteSet(Queued') /\ Cardinality(Queued') = Cardinality(Queued) - 1
      <3>1. IsFiniteSet(Queued)
        BY DEF OwnInv
      <3>2. IsFiniteSet(Queued') /\ Cardinality(Queued') = Cardinality(Queued) - 1
        BY <2>3, <3>1, FS_RemoveElement
      <3>3. Len(packetQueue') = Len(packetQueue) - 1
        BY <2>1, <2>2, <1>t DEF TypeOK
      <3>4. QED
        BY <3>2, <3>3
    <2>7. QED
      BY <2>1, <2>3, <2>4, <2>5, <2>6 DEF OwnInv
  <1>7. ASSUME NEW c \in Consumers, PullFree(c)
        PROVE  OwnInv'
    <2>1. /\ c \in Threads /\ pc[c] = "free" /\ pc' = [pc EXCEPT ![c] = "unlock"]
          /\ heap' = [heap EXCEPT ![avPacket[c]] = "freed"]
          /\ UNCHANGED <<packetQueue, refFailed, avPacket>>
      BY <1>7 DEF PullFree, Goto, Threads
    <2>2. Queued' = Queued
      BY <2>1 DEF Queued
    <2>3. /\ pc[c] \in HandPC /\ pc'[c] \notin HandPC
          /\ \A u \in Threads : u # c => pc'[u] = pc[u]
      BY <2>1, <1>t DEF HandPC, TypeOK
    <2>4. PICK p \in Packets : p = avPacket[c]
      BY <2>1, <1>t DEF HandInv
    <2>5. heap'[p] # "live" /\ \A q \in Packets : q # p => heap'[q] = heap[q]
      BY <2>1, <2>4, <1>t DEF TypeOK
    <2>6. QED
      BY <2>1, <2>2, <2>3, <2>4, <2>5 DEF OwnInv
  <1>8. QED
    BY <1>1, <1>2, <1>3, <1>4, <1>5, <1>6, <1>7 DEF Next, Producer, Consumer, Threads

-----------------------------------------------------------------------------
(* Who is awake *)

\* Who is counted as asleep is in pthread_cond_wait.
WakeInv == (\A c \in waitSet : pc[c] = "wait") /\ NoLostWakeup

Signalling == {t \in Producers : pc[t] = "signal"}

LEMMA WakeFinite ==
  /\ IsFiniteSet(Awake) /\ Cardinality(Awake) \in Nat
  /\ IsFiniteSet(Signalling) /\ Cardinality(Signalling) \in Nat
  BY FiniteAssumption, FS_Subset, FS_CardinalityType DEF Awake, Signalling

LEMMA WakeInit == Init => WakeInv
  BY DEF Init, WakeInv, NoLostWakeup

\* The steps that put no packet in and take none out, and send nobody to sleep:
\* as many threads as before are awake or about to wake one, or more.
LEMMA WakeFrame ==
  ASSUME NoLostWakeup, packetQueue \in Seq(Packets), UNCHANGED <<packetQueue, refFailed>>,
         waitSet' \subseteq waitSet,
         Awake \subseteq Awake', Signalling \subseteq Signalling'
  PROVE  NoLostWakeup'
  <1>1. /\ IsFiniteSet(Awake') /\ Cardinality(Awake') \in Nat
        /\ IsFiniteSet(Signalling') /\ Cardinality(Signalling') \in Nat
    <2>1. Awake' \subseteq Consumers /\ Signalling' \subseteq Producers
      BY DEF Awake, Signalling
    <2>2. QED
      BY <2>1, FiniteAssumption, FS_Subset, FS_CardinalityType
  <1>2. /\ Cardinality(Awake) <= Cardinality(Awake')
        /\ Cardinality(Signalling) <= Cardinality(Signalling')
    BY <1>1, FS_Subset
  <1> SUFFICES ASSUME ~refFailed, waitSet # {}
               PROVE  Len(packetQueue) <= Cardinality(Awake') + Cardinality(Signalling')
    BY DEF NoLostWakeup, Signalling
  <1>3. Len(packetQueue) <= Cardinality(Awake) + Cardinality(Signalling)
    BY DEF NoLostWakeup, Signalling
  <1>4. QED
    BY <1>1, <1>2, <1>3, WakeFinite

LEMMA WakeStep ==
  ASSUME IInv, OwnInv, WakeInv, Next
  PROVE  WakeInv'
  <1>t. TypeOK /\ PopsWhatItCopied /\ NoLostWakeup /\ \A d \in waitSet : pc[d] = "wait"
    BY DEF IInv, WakeInv
  <1>s. packetQueue \in Seq(Packets) /\ waitSet \subseteq Consumers
    BY <1>t DEF TypeOK
  <1>p. Producers \cap Consumers = {} /\ Threads = Producers \cup Consumers
    BY ThreadsAssumption DEF Threads
  <1>1. ASSUME NEW t \in Threads,
               \/ LockSize(t) \/ Unlock(t)
               \/ t \in Producers /\ (Alloc(t) \/ LockPush(t) \/ StopWorking(t))
               \/ t \in Consumers /\ (LockPull(t) \/ Relock(t) \/ PullFree(t))
        PROVE  WakeInv'
    <2>1. UNCHANGED <<packetQueue, waitSet, refFailed>>
      BY <1>1 DEF LockSize, Unlock, Alloc, LockPush, StopWorking, LockPull, Relock, PullFree
    <2>2. /\ \/ /\ pc[t] \in {"idle", "unlock", "push", "free"}
                /\ \E x \in {"unlock", "idle", "push", "enqueue", "stopped", "look"} :
                     pc' = [pc EXCEPT ![t] = x]
             \/ t \in Consumers /\ t \notin waitSet /\ pc[t] = "wait" /\ pc' = [pc EXCEPT ![t] = "look"]
      <3> USE DEF Lock, Goto
      <3>1. CASE LockSize(t) \/ Unlock(t)
        BY <3>1 DEF LockSize, Unlock
      <3>2. CASE Alloc(t) \/ LockPush(t) \/ StopWorking(t)
        BY <3>2 DEF Alloc, LockPush, StopWorking
      <3>3. CASE t \in Consumers /\ (LockPull(t) \/ Relock(t) \/ PullFree(t))
        BY <3>3 DEF LockPull, Relock, PullFree
      <3>4. QED
        BY <1>1, <3>1, <3>2, <3>3
    <2>3. \A u \in Threads : u # t => pc'[u] = pc[u]
      BY <2>2, <1>t DEF TypeOK
    <2>4. t \notin waitSet /\ pc[t] \notin {"signal", "pop", "look"}
          /\ (pc[t] = "wait" => pc'[t] = "look")
      BY <2>2, <1>t DEF TypeOK
    <2>5. Awake \subseteq Awake' /\ Signalling \subseteq Signalling'
      BY <2>1, <2>3, <2>4, <1>p DEF Awake, Signalling
    <2>6. \A d \in waitSet' : pc'[d] = "wait"
      BY <2>1, <2>3, <2>4, <1>t, <1>s, <1>p
    <2>7. QED
      BY <2>1, <2>5, <2>6, <1>t, <1>s, WakeFrame DEF WakeInv
  <1>2. ASSUME NEW c \in Consumers, SpuriousWakeup(c)
        PROVE  WakeInv'
    <2>1. waitSet' = waitSet \ {c} /\ UNCHANGED <<packetQueue, refFailed, pc>>
      BY <1>2 DEF SpuriousWakeup
    <2>2. Awake \subseteq Awake' /\ Signalling' = Signalling
      BY <2>1 DEF Awake, Signalling
    <2>3. QED
      BY <2>1, <2>2, <1>t, <1>s, WakeFrame DEF WakeInv
  <1>3. ASSUME NEW t \in Producers, Enqueue(t)
        PROVE  WakeInv'
    <2>1. /\ pc[t] = "enqueue" /\ pc' = [pc EXCEPT ![t] = "signal"]
          /\ packetQueue' = Append(packetQueue, avPacket[t]) /\ UNCHANGED <<waitSet, refFailed>>
      BY <1>3 DEF Enqueue, Goto
    <2>2. /\ Awake' = Awake
          /\ Signalling' = Signalling \cup {t} /\ t \notin Signalling
      BY <2>1, <1>t, <1>p DEF Awake, Signalling, TypeOK
    <2>3. /\ Cardinality(Signalling') = Cardinality(Signalling) + 1
          /\ Len(packetQueue') = Len(packetQueue) + 1
      <3>1. Len(packetQueue') = Len(packetQueue) + 1
        BY <2>1, <1>s
      <3>2. QED
        BY <2>2, <3>1, WakeFinite, FS_AddElement
    <2>4. NoLostWakeup'
      <3> SUFFICES ASSUME ~refFailed, waitSet # {}
                   PROVE  Len(packetQueue') <= Cardinality(Awake') + Cardinality(Signalling')
        BY <2>1 DEF NoLostWakeup, Signalling
      <3>1. Len(packetQueue) <= Cardinality(Awake) + Cardinality(Signalling)
        BY <1>t DEF NoLostWakeup, Signalling
      <3>2. Len(packetQueue) \in Nat
        BY <1>s
      <3>3. QED
        BY <2>2, <2>3, <3>1, <3>2, WakeFinite
    <2>5. \A d \in waitSet' : pc'[d] = "wait"
      BY <2>1, <1>t, <1>s, <1>p DEF TypeOK
    <2>6. QED
      BY <2>4, <2>5 DEF WakeInv
  <1>4. ASSUME NEW t \in Producers, Signal(t)
        PROVE  WakeInv'
    <2>1. /\ pc[t] = "signal" /\ pc' = [pc EXCEPT ![t] = "unlock"]
          /\ UNCHANGED <<packetQueue, refFailed>>
      BY <1>4 DEF Signal, Goto
    <2>2. \A d \in waitSet : pc'[d] = "wait"
      BY <2>1, <1>t, <1>s, <1>p DEF TypeOK
    <2>3. CASE waitSet = {} /\ waitSet' = waitSet
      BY <2>3 DEF WakeInv, NoLostWakeup
    <2>4. ASSUME NEW c \in waitSet, waitSet' = waitSet \ {c}
          PROVE  WakeInv'
      <3>1. Signalling' = Signalling \ {t} /\ t \in Signalling
        BY <2>1, <1>t, <1>p DEF Signalling, TypeOK
      <3>2. Awake' = Awake \cup {c} /\ c \notin Awake
        <4>1. c \in Consumers /\ pc[c] = "wait" /\ \A d \in Consumers : pc'[d] = pc[d]
          BY <2>1, <1>t, <1>s, <1>p DEF TypeOK
        <4>2. QED
          BY <2>4, <4>1 DEF Awake
      <3>3. /\ Cardinality(Signalling') = Cardinality(Signalling) - 1
            /\ Cardinality(Awake') = Cardinality(Awake) + 1
        BY <3>1, <3>2, WakeFinite, FS_AddElement, FS_RemoveElement
      <3>4. NoLostWakeup'
        <4> SUFFICES ASSUME ~refFailed
                     PROVE  Len(packetQueue) <= Cardinality(Awake') + Cardinality(Signalling')
          BY <2>1 DEF NoLostWakeup, Signalling
        <4>1. Len(packetQueue) <= Cardinality(Awake) + Cardinality(Signalling)
          BY <1>t DEF NoLostWakeup, Signalling
        <4>2. Len(packetQueue) \in Nat
          BY <1>s
        <4>3. QED
          BY <3>3, <4>1, <4>2, WakeFinite
      <3>5. QED
        BY <2>2, <2>4, <3>4 DEF WakeInv
    <2>5. QED
      BY <1>4, <2>3, <2>4 DEF Signal
  <1>5. ASSUME NEW c \in Consumers, PullWait(c)
        PROVE  WakeInv'
    <2>1. /\ packetQueue = <<>> /\ packetQueue' = packetQueue /\ waitSet' = waitSet \cup {c}
          /\ pc' = [pc EXCEPT ![c] = "wait"]
      BY <1>5 DEF PullWait, Goto
    <2>2. \A d \in waitSet' : pc'[d] = "wait"
      BY <2>1, <1>t, <1>s, <1>p DEF TypeOK
    <2>3. NoLostWakeup'
      <3>1. Awake' \subseteq Consumers /\ Signalling' \subseteq Producers
        BY DEF Awake, Signalling
      <3>2. Cardinality(Awake') \in Nat /\ Cardinality(Signalling') \in Nat
        BY <3>1, FiniteAssumption, FS_Subset, FS_CardinalityType
      <3>3. Len(packetQueue') = 0
        BY <2>1
      <3>4. Len(packetQueue') <= Cardinality(Awake') + Cardinality(Signalling')
        BY <3>2, <3>3
      <3>5. QED
        BY <3>4 DEF NoLostWakeup, Signalling
    <2>4. QED
      BY <2>2, <2>3 DEF WakeInv
  <1>6. ASSUME NEW c \in Consumers, PullFront(c)
        PROVE  WakeInv'
    <2>1. /\ c \in Threads /\ pc[c] = "look" /\ UNCHANGED <<packetQueue, heap, waitSet>>
          /\ packetQueue # <<>>
          /\ \/ pc' = [pc EXCEPT ![c] = "undefined"] /\ heap[Head(packetQueue)] # "live"
             \/ pc' = [pc EXCEPT ![c] = "pop"] /\ refFailed' = refFailed
             \/ pc' = [pc EXCEPT ![c] = "free"] /\ refFailed' = TRUE
          /\ refFailed => refFailed'
      BY <1>6, <1>p DEF PullFront, Goto
    <2>2. \A d \in waitSet : pc'[d] = "wait"
      BY <2>1, <1>t, <1>s, <1>p DEF TypeOK
    <2>3. CASE refFailed'
      BY <2>1, <2>2, <2>3 DEF WakeInv, NoLostWakeup
    <2>4. CASE ~refFailed'
      <3>1. heap[Head(packetQueue)] = "live"
        <4>1. Distinct(packetQueue)
          BY <2>1, <2>4 DEF OwnInv
        <4>2. Head(packetQueue) \in Packets /\ Head(packetQueue) \in Queued
          BY <2>1, <4>1, <1>s, PopList, QueuedElements
        <4>3. QED
          BY <2>1, <2>4, <4>2 DEF OwnInv
      <3>2. pc' = [pc EXCEPT ![c] = "pop"] /\ refFailed' = refFailed
        BY <2>1, <2>4, <3>1
      <3>3. Awake' = Awake /\ Signalling' = Signalling
        BY <2>1, <3>2, <1>t, <1>p DEF Awake, Signalling, TypeOK
      <3>4. QED
        BY <2>1, <2>2, <3>2, <3>3, <1>t, <1>s, WakeFrame DEF WakeInv
    <2>5. QED
      BY <2>3, <2>4
  <1>7. ASSUME NEW c \in Consumers, PullPop(c)
        PROVE  WakeInv'
    <2>1. /\ pc[c] = "pop" /\ pc' = [pc EXCEPT ![c] = "free"] /\ packetQueue' = Tail(packetQueue)
          /\ UNCHANGED <<waitSet, refFailed>>
      BY <1>7 DEF PullPop, Goto
    <2>2. packetQueue # <<>>
      BY <2>1, <1>t DEF PopsWhatItCopied
    <2>3. Len(packetQueue') = Len(packetQueue) - 1 /\ Len(packetQueue) \in Nat
      BY <2>1, <2>2, <1>s
    <2>4. /\ Awake' = Awake \ {c} /\ c \in Awake
          /\ Signalling' = Signalling
      BY <2>1, <1>t, <1>p DEF Awake, Signalling, TypeOK
    <2>5. Cardinality(Awake') = Cardinality(Awake) - 1
      BY <2>4, WakeFinite, FS_RemoveElement
    <2>6. NoLostWakeup'
      <3> SUFFICES ASSUME ~refFailed, waitSet # {}
                   PROVE  Len(packetQueue') <= Cardinality(Awake') + Cardinality(Signalling')
        BY <2>1 DEF NoLostWakeup, Signalling
      <3>1. Len(packetQueue) <= Cardinality(Awake) + Cardinality(Signalling)
        BY <1>t DEF NoLostWakeup, Signalling
      <3>2. QED
        BY <2>3, <2>4, <2>5, <3>1, WakeFinite
    <2>7. \A d \in waitSet' : pc'[d] = "wait"
      BY <2>1, <1>t, <1>s, <1>p DEF TypeOK
    <2>8. QED
      BY <2>6, <2>7 DEF WakeInv
  <1>8. QED
    BY <1>1, <1>2, <1>3, <1>4, <1>5, <1>6, <1>7 DEF Next, Producer, Consumer, Threads

-----------------------------------------------------------------------------
LEMMA OwnersInvariance == Spec => [](OwnInv /\ WakeInv)
  <1>1. Init => OwnInv /\ WakeInv
    BY OwnInit, WakeInit
  <1>2. IInv /\ OwnInv /\ WakeInv /\ [Next]_vars => (OwnInv /\ WakeInv)'
    <2>1. CASE UNCHANGED vars
      BY <2>1 DEF vars, OwnInv, WakeInv, NoLostWakeup, Queued, Awake
    <2>2. QED
      BY <2>1, OwnStep, WakeStep
  <1>3. QED
    BY <1>1, <1>2, Invariance, PTL DEF Spec

\* Unless a reference has failed, push() and pull() of any number of threads
\* lose no packet, leak none and free none twice.
THEOREM PacketsAreOwnedOnce == Spec => []PacketsOwnedOnce
  <1>1. IInv /\ OwnInv => PacketsOwnedOnce
    <2> SUFFICES ASSUME IInv, OwnInv, ~refFailed PROVE PacketsOwnedOnce
      BY DEF PacketsOwnedOnce
    <2>1. Queued \subseteq Packets
      BY DEF IInv, TypeOK, Queued
    <2>2. InHand \subseteq Packets
      BY DEF IInv, HandInv, InHand
    <2>3. {p \in Packets : heap[p] = "live"} = Queued \cup InHand
      BY <2>1, <2>2 DEF OwnInv, InHand, HandPC
    <2>4. Queued \cap InHand = {}
      BY DEF OwnInv, InHand, HandPC
    <2>5. QED
      BY <2>3, <2>4 DEF OwnInv, PacketsOwnedOnce, HandPC
  <1>2. QED
    BY <1>1, Invariance, OwnersInvariance, PTL

\* One pthread_cond_signal() for each push() is enough: no consumer sleeps while
\* there is a packet that nobody is about to take or to announce.
THEOREM NoWakeupIsLost == Spec => []NoLostWakeup
  <1>1. WakeInv => NoLostWakeup
    BY DEF WakeInv
  <1>2. QED
    BY <1>1, OwnersInvariance, PTL

-----------------------------------------------------------------------------
(* Who gets which packet *)

\* What has been pulled is freed, or about to be by the thread that pulled it.
PulledInv == ~refFailed =>
  /\ \A c \in Consumers : Distinct(got[c])
  /\ \A c, d \in Consumers : c # d => Elements(got[c]) \cap Elements(got[d]) = {}
  /\ \A c \in Consumers : \A p \in Elements(got[c]) :
       heap[p] = "freed" \/ \E d \in Consumers : pc[d] = "free" /\ avPacket[d] = p

\* The steps by which nobody gets a packet.
LEMMA PulledFrame ==
  ASSUME IInv, PulledInv, UNCHANGED <<got, refFailed>>,
         \A p \in Packets : heap[p] = "freed" => heap'[p] = "freed",
         \A d \in Consumers : pc[d] = "free" =>
           \/ pc'[d] = "free" /\ avPacket'[d] = avPacket[d]
           \/ heap'[avPacket[d]] = "freed"
  PROVE  PulledInv'
  <1> SUFFICES ASSUME ~refFailed PROVE PulledInv'
    BY DEF PulledInv
  <1>1. \A c \in Consumers : \A p \in Elements(got[c]) : p \in Packets
    BY ElementOf DEF IInv, TypeOK, Elements
  <1>2. \A c \in Consumers : Elements(got'[c]) = Elements(got[c]) /\ Distinct(got'[c]) = Distinct(got[c])
    OBVIOUS
  <1>3. ASSUME NEW c \in Consumers, NEW p \in Elements(got[c])
        PROVE  heap'[p] = "freed" \/ \E d \in Consumers : pc'[d] = "free" /\ avPacket'[d] = p
    <2>1. p \in Packets
      BY <1>1
    <2>2. heap[p] = "freed" \/ \E d \in Consumers : pc[d] = "free" /\ avPacket[d] = p
      BY <1>3 DEF PulledInv
    <2>3. QED
      BY <2>1, <2>2
  <1>4. QED
    BY <1>2, <1>3 DEF PulledInv

LEMMA PulledStep ==
  ASSUME IInv, OwnInv, PulledInv, [Next]_vars
  PROVE  PulledInv'
  <1>t. TypeOK /\ HandInv /\ PopsWhatItCopied
    BY DEF IInv
  <1>1. ASSUME NEW t \in Threads,
               \/ LockSize(t) \/ Unlock(t)
               \/ t \in Producers /\ (LockPush(t) \/ Enqueue(t) \/ Signal(t) \/ StopWorking(t))
               \/ t \in Consumers /\ (LockPull(t) \/ PullWait(t) \/ Relock(t))
        PROVE  PulledInv'
    <2>1. UNCHANGED <<got, heap, refFailed>>
      BY <1>1 DEF LockSize, Unlock, LockPush, Enqueue, Signal, StopWorking, LockPull, PullWait,
                  Relock
    <2>2. /\ pc[t] # "free" /\ \E x : pc' = [pc EXCEPT ![t] = x]
          /\ avPacket' = avPacket \/ avPacket' = [avPacket EXCEPT ![t] = NoPacket]
      BY <1>1 DEF LockSize, Unlock, LockPush, Enqueue, Signal, StopWorking, LockPull, PullWait,
                  Relock, Lock, Goto
    <2>3. \A d \in Consumers : pc[d] = "free" => pc'[d] = "free" /\ avPacket'[d] = avPacket[d]
      BY <2>2, <1>t DEF TypeOK, Threads
    <2>4. QED
      BY <2>1, <2>3, PulledFrame
  <1>2. ASSUME NEW c \in Consumers, SpuriousWakeup(c)
        PROVE  PulledInv'
    BY <1>2, PulledFrame DEF SpuriousWakeup
  <1>3. ASSUME NEW t \in Producers, Alloc(t)
        PROVE  PulledInv'
    <2>1. PICK p \in Packets : /\ heap[p] = "unused" /\ heap' = [heap EXCEPT ![p] = "live"]
                               /\ avPacket' = [avPacket EXCEPT ![t] = p]
      BY <1>3 DEF Alloc
    <2>2. /\ t \in Threads /\ pc[t] = "idle" /\ pc' = [pc EXCEPT ![t] = "push"]
          /\ UNCHANGED <<got, refFailed>>
      BY <1>3 DEF Alloc, Goto, Threads
    <2>3. \A q \in Packets : heap[q] = "freed" => heap'[q] = "freed"
      BY <2>1, <1>t DEF TypeOK
    <2>4. \A d \in Consumers : pc[d] = "free" => pc'[d] = "free" /\ avPacket'[d] = avPacket[d]
      BY <2>1, <2>2, <1>t DEF TypeOK, Threads
    <2>5. QED
      BY <2>2, <2>3, <2>4, PulledFrame
  <1>4. ASSUME NEW c \in Consumers, PullFront(c)
        PROVE  PulledInv'
    <2>1. CASE refFailed'
      BY <2>1 DEF PulledInv
    <2>2. CASE ~refFailed'
      <3>1. /\ pc[c] = "look" /\ UNCHANGED <<got, heap>>
            /\ \E x : pc' = [pc EXCEPT ![c] = x]
            /\ \E x : avPacket' = [avPacket EXCEPT ![c] = x]
            /\ refFailed' = refFailed
        BY <1>4, <2>2 DEF PullFront, Goto
      <3>2. \A d \in Consumers : pc[d] = "free" => pc'[d] = "free" /\ avPacket'[d] = avPacket[d]
        BY <3>1, <1>t DEF TypeOK, Threads
      <3>3. QED
        BY <3>1, <3>2, PulledFrame
    <2>3. QED
      BY <2>1, <2>2
  <1>5. ASSUME NEW c \in Consumers, PullPop(c)
        PROVE  PulledInv'
    <2>1. /\ c \in Threads /\ pc[c] = "pop" /\ pc' = [pc EXCEPT ![c] = "free"]
          /\ got' = [got EXCEPT ![c] = Append(got[c], avPacket[c])]
          /\ UNCHANGED <<heap, refFailed, avPacket>>
      BY <1>5 DEF PullPop, Goto, Threads
    <2> SUFFICES ASSUME ~refFailed PROVE PulledInv'
      BY <2>1 DEF PulledInv
    <2>2. PICK p \in Packets : p = avPacket[c] /\ p \in Queued
      <3>1. packetQueue # <<>> /\ Head(packetQueue) = avPacket[c]
        BY <2>1, <1>t DEF PopsWhatItCopied
      <3>2. packetQueue \in Seq(Packets) /\ Distinct(packetQueue)
        BY <1>t DEF OwnInv, TypeOK
      <3>3. QED
        BY <3>1, <3>2, PopList, QueuedElements
    <2>3. \A d \in Consumers : p \notin Elements(got[d])
      <3>1. heap[p] = "live" /\ \A d \in Consumers : pc[d] = "free" => avPacket[d] # p
        BY <2>2 DEF OwnInv, HandPC, Threads
      <3>2. QED
        BY <3>1 DEF PulledInv
    <2>4. /\ Distinct(got'[c]) /\ Elements(got'[c]) = Elements(got[c]) \cup {p}
          /\ \A d \in Consumers : d # c => got'[d] = got[d]
      <3>1. got[c] \in Seq(Packets) /\ Distinct(got[c]) /\ got'[c] = Append(got[c], p)
        BY <2>1, <2>2, <1>t DEF PulledInv, TypeOK
      <3>2. QED
        BY <2>1, <2>3, <3>1, AppendList, <1>t DEF TypeOK
    <2>5. \A d \in Consumers : Distinct(got'[d])
      BY <2>4 DEF PulledInv
    <2>6. \A d, e \in Consumers : d # e => Elements(got'[d]) \cap Elements(got'[e]) = {}
      BY <2>3, <2>4 DEF PulledInv
    <2>7. ASSUME NEW d \in Consumers, NEW q \in Elements(got'[d])
          PROVE  heap'[q] = "freed" \/ \E e \in Consumers : pc'[e] = "free" /\ avPacket'[e] = q
      <3>1. \A e \in Consumers : pc[e] = "free" => pc'[e] = "free" /\ avPacket'[e] = avPacket[e]
        BY <2>1, <1>t DEF TypeOK, Threads
      <3>2. CASE q = p
        BY <2>1, <2>2, <3>2, <1>t DEF TypeOK
      <3>3. CASE q # p
        <4>1. q \in Elements(got[d])
          BY <2>4, <2>7, <3>3
        <4>2. heap[q] = "freed" \/ \E e \in Consumers : pc[e] = "free" /\ avPacket[e] = q
          BY <4>1 DEF PulledInv
        <4>3. QED
          BY <4>2, <3>1, <2>1
      <3>4. QED
        BY <3>2, <3>3
    <2>8. QED
      BY <2>5, <2>6, <2>7 DEF PulledInv
  <1>6. ASSUME NEW c \in Consumers, PullFree(c)
        PROVE  PulledInv'
    <2>1. /\ c \in Threads /\ pc[c] = "free" /\ pc' = [pc EXCEPT ![c] = "unlock"]
          /\ heap' = [heap EXCEPT ![avPacket[c]] = "freed"]
          /\ UNCHANGED <<got, refFailed, avPacket>>
      BY <1>6 DEF PullFree, Goto, Threads
    <2>2. avPacket[c] \in Packets
      BY <2>1, <1>t DEF HandInv
    <2>3. \A q \in Packets : heap[q] = "freed" => heap'[q] = "freed"
      BY <2>1, <1>t DEF TypeOK
    <2>4. \A d \in Consumers : pc[d] = "free" =>
            (pc'[d] = "free" /\ avPacket'[d] = avPacket[d]) \/ heap'[avPacket[d]] = "freed"
      BY <2>1, <2>2, <1>t DEF TypeOK, Threads
    <2>5. QED
      BY <2>1, <2>3, <2>4, PulledFrame
  <1>7. CASE UNCHANGED vars
    BY <1>7, PulledFrame DEF vars
  <1>8. QED
    BY <1>1, <1>2, <1>3, <1>4, <1>5, <1>6, <1>7 DEF Next, Producer, Consumer, Threads

\* No packet is given to two consumers, nor twice to one.
PulledOnce ==
  /\ \A c \in Consumers : Distinct(got[c])
  /\ \A c, d \in Consumers : c # d => Elements(got[c]) \cap Elements(got[d]) = {}

\* Unless a reference has failed, pull() gives each packet to one thread and once,
\* for any number of threads that call it.
THEOREM PacketsArePulledOnce == Spec => [](~refFailed => PulledOnce)
  <1>1. Init => PulledInv
    BY EmptyList DEF Init, PulledInv
  <1>2. IInv /\ OwnInv /\ PulledInv /\ [Next]_vars => PulledInv'
    BY PulledStep
  <1>3. PulledInv => (~refFailed => PulledOnce)
    BY DEF PulledInv, PulledOnce
  <1>4. QED
    BY <1>1, <1>2, <1>3, Invariance, OwnersInvariance, PTL DEF Spec

\* What the queue holds has not been freed, unless a reference has failed: that
\* failure is the only cause of what the run queue_freed finds.
THEOREM FreedWhenPulled == Spec => [](~refFailed => FreedOnlyWhenPulled)
  <1>1. IInv /\ OwnInv => (~refFailed => FreedOnlyWhenPulled)
    <2>1. IInv => Queued \subseteq Packets
      BY ElementOf DEF IInv, TypeOK, Queued
    <2>2. QED
      BY <2>1 DEF OwnInv, FreedOnlyWhenPulled
  <1>2. QED
    BY <1>1, Invariance, OwnersInvariance, PTL
=============================================================================
