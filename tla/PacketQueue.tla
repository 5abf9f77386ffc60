------------------------------ MODULE PacketQueue ------------------------------
(***************************************************************************)
(* AVPacketQueue (cpp/ffaudio/AVPacketQueue.cpp, h/queue/av_packet_queue.h)*)
(* at the grain of its mutex and its condition variable.  Producers are    *)
(* the threads that call push() and stopWorking(), consumers the threads   *)
(* that call pull(); both call size().  A critical section takes several   *)
(* steps, so that what the mutex gives is visible, and a packet is the     *)
(* memory av_packet_alloc() returns: using it after av_packet_free() is    *)
(* undefined behaviour, where the thread's pc becomes "undefined".         *)
(***************************************************************************)
EXTENDS Integers, Sequences, FiniteSets

CONSTANTS Producers, Consumers,
          Packets,           \* the packets that can be allocated (a bound)
          NoThread, NoPacket

ASSUME ThreadsAssumption == /\ Producers \cap Consumers = {}
                            /\ NoThread \notin Producers \cup Consumers
ASSUME FiniteAssumption == IsFiniteSet(Producers) /\ IsFiniteSet(Consumers)
ASSUME PacketsAssumption == NoPacket \notin Packets

Threads == Producers \cup Consumers

VARIABLES
  packetQueue,   \* std::queue<AVPacket *>
  working,       \* bool working
  mutex,         \* who holds mutex_t, or NoThread
  waitSet,       \* the threads blocked in pthread_cond_wait(&cond_t, &mutex_t)
  pc,            \* where each thread is
  avPacket,      \* producer: inputPacket; consumer: the local avPacket
  heap,          \* heap[p]: "unused", "live" or "freed"
  got,           \* history: the packets each consumer's pull() handed out
  refFailed      \* history: some av_packet_ref() in pull() has failed

vars == <<packetQueue, working, mutex, waitSet, pc, avPacket, heap, got, refFailed>>

Init == /\ packetQueue = <<>>
        /\ working = TRUE
        /\ mutex = NoThread
        /\ waitSet = {}
        /\ pc = [t \in Threads |-> "idle"]
        /\ avPacket = [t \in Threads |-> NoPacket]
        /\ heap = [p \in Packets |-> "unused"]
        /\ got = [c \in Consumers |-> <<>>]
        /\ refFailed = FALSE

-----------------------------------------------------------------------------
\* pthread_mutex_lock and pthread_mutex_unlock, with the move they make in t.
Lock(t, from, to) == /\ pc[t] = from
                     /\ mutex = NoThread
                     /\ mutex' = t
                     /\ pc' = [pc EXCEPT ![t] = to]

Goto(t, to) == pc' = [pc EXCEPT ![t] = to]

\* size(): lock, read the length, unlock; nothing changes but the lock.
LockSize(t) == /\ Lock(t, "idle", "unlock")
               /\ UNCHANGED <<packetQueue, working, waitSet, avPacket, heap, got, refFailed>>

Unlock(t) == /\ pc[t] = "unlock"
             /\ mutex' = NoThread
             /\ Goto(t, "idle")
             /\ avPacket' = [avPacket EXCEPT ![t] = NoPacket]
             /\ UNCHANGED <<packetQueue, working, waitSet, heap, got, refFailed>>

-----------------------------------------------------------------------------
\* Mutant of Alloc: the reader pushes the null pointer of a failed allocation.
AllocUnchecked(t) == /\ pc[t] = "idle"
                     /\ avPacket' = [avPacket EXCEPT ![t] = NoPacket]
                     /\ Goto(t, "push")
                     /\ UNCHANGED <<packetQueue, working, mutex, waitSet, heap, got, refFailed>>

\* A producer fills a packet of its own before it calls push().
Alloc(t) == /\ pc[t] = "idle"
            /\ \E p \in Packets :
                  /\ heap[p] = "unused"
                  /\ heap' = [heap EXCEPT ![p] = "live"]
                  /\ avPacket' = [avPacket EXCEPT ![t] = p]
            /\ Goto(t, "push")
            /\ UNCHANGED <<packetQueue, working, mutex, waitSet, got, refFailed>>

LockPush(t) == /\ Lock(t, "push", "enqueue")
               /\ UNCHANGED <<packetQueue, working, waitSet, avPacket, heap, got, refFailed>>

Enqueue(t) == /\ pc[t] = "enqueue"
              /\ packetQueue' = Append(packetQueue, avPacket[t])
              /\ Goto(t, "signal")
              /\ UNCHANGED <<working, mutex, waitSet, avPacket, heap, got, refFailed>>

\* Mutant of Signal: push() forgets pthread_cond_signal.
SignalForgotten(t) == /\ pc[t] = "signal"
                      /\ Goto(t, "unlock")
                      /\ UNCHANGED <<packetQueue, working, mutex, waitSet, avPacket,
                                     heap, got, refFailed>>

\* pthread_cond_signal wakes one waiter, if there is one.
Signal(t) == /\ pc[t] = "signal"
             /\ \/ waitSet = {} /\ UNCHANGED waitSet
                \/ \E c \in waitSet : waitSet' = waitSet \ {c}
             /\ Goto(t, "unlock")
             /\ UNCHANGED <<packetQueue, working, mutex, avPacket, heap, got, refFailed>>

\* stopWorking() takes no lock and signals nobody; the producer then returns.
StopWorking(t) == /\ pc[t] = "idle"
                  /\ working' = FALSE
                  /\ Goto(t, "stopped")
                  /\ UNCHANGED <<packetQueue, mutex, waitSet, avPacket, heap, got, refFailed>>

-----------------------------------------------------------------------------
LockPull(c) == /\ Lock(c, "idle", "look")
               /\ UNCHANGED <<packetQueue, working, waitSet, avPacket, heap, got, refFailed>>

\* pthread_cond_wait releases the mutex and blocks in one step.
PullWait(c) == /\ pc[c] = "look"
               /\ packetQueue = <<>>
               /\ mutex' = NoThread
               /\ waitSet' = waitSet \cup {c}
               /\ Goto(c, "wait")
               /\ UNCHANGED <<packetQueue, working, avPacket, heap, got, refFailed>>

\* pthread_cond_wait may also return without a signal.
SpuriousWakeup(c) == /\ c \in waitSet
                     /\ waitSet' = waitSet \ {c}
                     /\ UNCHANGED <<packetQueue, working, mutex, pc, avPacket, heap, got,
                                    refFailed>>

\* Mutant of Relock: if instead of while, no second look at the queue's size.
RelockUnchecked(c) == /\ c \notin waitSet
                      /\ Lock(c, "wait", "pop")
                      /\ UNCHANGED <<packetQueue, working, waitSet, avPacket, heap, got,
                                     refFailed>>

\* A woken thread leaves pthread_cond_wait holding the mutex and looks again.
Relock(c) == /\ c \notin waitSet
             /\ Lock(c, "wait", "look")
             /\ UNCHANGED <<packetQueue, working, waitSet, avPacket, heap, got, refFailed>>

\* Mutant of PullFront: back() where the queue is to be read at its front().
PullBack(c) == /\ pc[c] = "look"
               /\ packetQueue # <<>>
               /\ avPacket' = [avPacket EXCEPT ![c] = packetQueue[Len(packetQueue)]]
               /\ Goto(c, "pop")
               /\ UNCHANGED <<packetQueue, working, mutex, waitSet, heap, got, refFailed>>

\* front() and av_packet_ref(outPacket, avPacket).  A failed reference skips
\* the pop() but not the av_packet_free() that follows.
PullFront(c) == /\ pc[c] = "look"
                /\ packetQueue # <<>>
                /\ avPacket' = [avPacket EXCEPT ![c] = Head(packetQueue)]
                /\ \/ /\ heap[Head(packetQueue)] # "live"
                      /\ Goto(c, "undefined")
                      /\ UNCHANGED refFailed
                   \/ /\ heap[Head(packetQueue)] = "live"
                      /\ Goto(c, "pop")
                      /\ UNCHANGED refFailed
                   \/ /\ heap[Head(packetQueue)] = "live"
                      /\ Goto(c, "free")
                      /\ refFailed' = TRUE
                /\ UNCHANGED <<packetQueue, working, mutex, waitSet, heap, got>>

\* pop(): outPacket holds what avPacket[c] held.
PullPop(c) == /\ pc[c] = "pop"
              /\ packetQueue' = Tail(packetQueue)
              /\ got' = [got EXCEPT ![c] = Append(@, avPacket[c])]
              /\ Goto(c, "free")
              /\ UNCHANGED <<working, mutex, waitSet, avPacket, heap, refFailed>>

\* Mutant of PullFree: the packet the queue held is not freed.
PullFreeForgotten(c) == /\ pc[c] = "free"
                        /\ Goto(c, "unlock")
                        /\ UNCHANGED <<packetQueue, working, mutex, waitSet, avPacket,
                                       heap, got, refFailed>>

\* av_packet_free(&avPacket)
PullFree(c) == /\ pc[c] = "free"
               /\ heap' = [heap EXCEPT ![avPacket[c]] = "freed"]
               /\ Goto(c, "unlock")
               /\ UNCHANGED <<packetQueue, working, mutex, waitSet, avPacket, got, refFailed>>

-----------------------------------------------------------------------------
Producer(t) == Alloc(t) \/ LockPush(t) \/ Enqueue(t) \/ Signal(t) \/ StopWorking(t)

Consumer(c) == LockPull(c) \/ PullWait(c) \/ Relock(c) \/ PullFront(c)
                 \/ PullPop(c) \/ PullFree(c)

Next == \/ \E t \in Threads : LockSize(t) \/ Unlock(t)
        \/ \E t \in Producers : Producer(t)
        \/ \E c \in Consumers : Consumer(c) \/ SpuriousWakeup(c)

Spec == Init /\ [][Next]_vars

\* A thread inside a call goes on with it, and a thread that wants the mutex
\* again and again gets it: several threads poll size() in a loop, so weak
\* fairness of a lock would let them starve the others.  A consumer calls
\* pull() again (the playback callback does); nothing makes a producer push.
LiveSpec ==
  /\ Spec
  /\ \A t \in Threads : WF_vars(Unlock(t))
  /\ \A t \in Producers : /\ SF_vars(LockPush(t))
                          /\ WF_vars(Enqueue(t) \/ Signal(t))
  /\ \A c \in Consumers : /\ SF_vars(LockPull(c)) /\ SF_vars(Relock(c))
                          /\ WF_vars(PullWait(c) \/ PullFront(c) \/ PullPop(c) \/ PullFree(c))

-----------------------------------------------------------------------------
ProducerPC == {"idle", "unlock", "push", "enqueue", "signal", "stopped"}
ConsumerPC == {"idle", "unlock", "look", "wait", "pop", "free", "undefined"}

\* Every variable has its type: a producer is in push() or size(), a consumer
\* in pull() or size(), and only a consumer waits.
TypeOK == /\ packetQueue \in Seq(Packets)
          /\ working \in BOOLEAN
          /\ mutex \in Threads \cup {NoThread}
          /\ waitSet \subseteq Consumers
          /\ pc \in [Threads -> ProducerPC \cup ConsumerPC]
          /\ \A t \in Producers : pc[t] \in ProducerPC
          /\ \A c \in Consumers : pc[c] \in ConsumerPC
          /\ avPacket \in [Threads -> Packets \cup {NoPacket}]
          /\ heap \in [Packets -> {"unused", "live", "freed"}]
          /\ got \in [Consumers -> Seq(Packets)]
          /\ refFailed \in BOOLEAN

Critical == {"unlock", "enqueue", "signal", "look", "pop", "free", "undefined"}

Queued == {packetQueue[i] : i \in 1 .. Len(packetQueue)}

InHand == {avPacket[t] : t \in {u \in Threads : pc[u] \in {"push", "enqueue", "free"}}}

\* The packet that pull() removes is the packet it copied: between front() and
\* pop() nobody else removed the queue's head, whatever woke the thread.
PopsWhatItCopied == \A c \in Consumers :
  pc[c] = "pop" => packetQueue # <<>> /\ Head(packetQueue) = avPacket[c]

\* As long as no av_packet_ref() has failed, each packet that has been
\* allocated and not freed is in the queue, once, or in the hands of one
\* thread, and the queue holds nothing else: push() and pull() lose no packet,
\* leak none and free none twice.
PacketsOwnedOnce == ~refFailed =>
  /\ {p \in Packets : heap[p] = "live"} = Queued \cup InHand
  /\ Queued \cap InHand = {}
  /\ Cardinality(Queued) = Len(packetQueue)
  /\ \A t, u \in Threads : /\ t # u
                           /\ pc[t] \in {"push", "enqueue", "free"}
                           /\ pc[u] \in {"push", "enqueue", "free"}
                           => avPacket[t] # avPacket[u]

\* The consumers inside pull() that are awake and have not taken a packet yet.
Awake == {c \in Consumers : \/ pc[c] \in {"look", "pop"}
                            \/ pc[c] = "wait" /\ c \notin waitSet}

\* No wakeup is lost: while some consumer sleeps in pull(), each packet in the
\* queue is matched by a consumer that is awake to take it or by a push() that
\* is about to signal, as long as no av_packet_ref() has failed.
NoLostWakeup == ~refFailed /\ waitSet # {} =>
  Len(packetQueue) <= Cardinality(Awake)
                        + Cardinality({t \in Producers : pc[t] = "signal"})

Fifo == INSTANCE PacketFifo WITH buffer <- packetQueue, got <- got

\* The queue is first-in first-out for any number of threads on either side
\* (av_packet_queue.h:7): push() adds at the back, pull() takes the front.
ImplementsFifo == Fifo!Spec

\* If no av_packet_ref() fails, a packet pushed to the queue leaves it: the
\* mutex, the signal and the wait cannot strand it.
PushedIsPulled == ([]~refFailed) => \A p \in Packets : p \in Queued ~> p \notin Queued

\* A packet that was allocated is freed only when it is pulled out of the queue
\* (Player.cpp:322): what is still in the queue is not freed.  pull() frees the
\* front packet even when it could not reference it and left it in the queue.
FreedOnlyWhenPulled == \A p \in Queued : heap[p] = "live"
=============================================================================
