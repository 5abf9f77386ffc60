----------------------------- MODULE Player_proofs -----------------------------
(***************************************************************************)
(* Proofs about Player for every file: the queues are deleted safely, and  *)
(* a decoding thread that ends has decoded its whole stream, in order.     *)
(***************************************************************************)
EXTENDS Player, TLAPS

\* The reading thread creates the queues before anything else.
CreatedInv == /\ created \in {{}, {"video"}, Streams}
              /\ reader = "create" <=> created # Streams

\* The end of the file is noticed in one order: the reading thread stops the
\* queues, a decoding thread sees its queue stopped and empty, then it ends.
StopInv ==
  /\ working["audio"] <=> reader # "done"
  /\ working["video"] <=> reader \notin {"stop audio", "done"}
  /\ reader \in {"stop audio", "done"} => pos = Len(file)
  /\ \A s \in Streams :
       /\ decoder[s] = "size?" => ~working[s]
       /\ ~start[s] => /\ ~working[s]
                       /\ queue[s] = <<>>
                       /\ decoder[s] \in {"decode", "while", "delete", "done"}
       /\ decoder[s] \in {"delete", "done"} => ~start[s]
  /\ \A s \in deleted : decoder[s] = "done"

\* What the threads hold: the packet about to be pushed, the packet pulled.
HandInv ==
  /\ reader = "push" => pos \in 1 .. Len(file) /\ file[pos] \in Streams
  /\ \A s \in Streams : packet[s] # 0 <=> decoder[s] \in {"working?", "size?", "decode"}

\* The packets decoded, the one in hand and those queued are in the file's order.
OrderInv == \A s \in Streams :
  /\ \A i, j \in 1 .. Len(decoded[s]) : i < j => decoded[s][i] < decoded[s][j]
  /\ \A i, j \in 1 .. Len(queue[s]) : i < j => queue[s][i] < queue[s][j]
  /\ \A i \in 1 .. Len(decoded[s]) : \A j \in 1 .. Len(queue[s]) : decoded[s][i] < queue[s][j]
  /\ packet[s] # 0 => /\ \A i \in 1 .. Len(decoded[s]) : decoded[s][i] < packet[s]
                      /\ \A j \in 1 .. Len(queue[s]) : packet[s] < queue[s][j]

Decoded(s) == {decoded[s][i] : i \in 1 .. Len(decoded[s])}

Pushed(s) == {p \in 1 .. pos : file[p] = s /\ (reader = "push" => p # pos)}

\* Together they are the packets of the stream that have been pushed.
CoverInv == \A s \in Streams : Pushed(s) = Decoded(s) \cup ({packet[s]} \ {0}) \cup Queued(s)

IInv == /\ TypeOK
        /\ CreatedInv
        /\ StopInv
        /\ HandInv
        /\ OrderInv
        /\ CoverInv
        /\ StreamPacketsFreed

-----------------------------------------------------------------------------
LEMMA StreamsDistinct == "video" # "audio" /\ "other" \notin Streams
  BY DEF Streams

LEMMA FileLength == TypeOK => Len(file) \in 0 .. MaxPackets
  <1> SUFFICES ASSUME TypeOK PROVE Len(file) \in 0 .. MaxPackets
    OBVIOUS
  <1>1. file \in Seq(Streams \cup {"other"}) /\ Len(file) <= MaxPackets
    BY DEF TypeOK
  <1>2. QED
    BY <1>1, MaxPacketsAssumption

LEMMA InitIInv == Init => IInv
  <1> SUFFICES ASSUME Init PROVE IInv
    OBVIOUS
  <1> USE MaxPacketsAssumption DEF Init
  <1>1. PICK n \in 0 .. MaxPackets : file \in [1 .. n -> Streams \cup {"other"}]
    OBVIOUS
  <1>2. file \in Seq(Streams \cup {"other"}) /\ Len(file) = n
    BY <1>1
  <1>3. TypeOK
    <2>1. file \in Seq(Streams \cup {"other"}) /\ Len(file) <= MaxPackets /\ pos \in 0 .. Len(file)
      BY <1>2
    <2>2. queue \in [Streams -> Seq(1 .. MaxPackets)] /\ decoded \in [Streams -> Seq(1 .. MaxPackets)]
      OBVIOUS
    <2>3. decoder \in [Streams -> {"while", "pull", "working?", "size?", "decode", "delete", "done"}]
      OBVIOUS
    <2>4. working \in [Streams -> BOOLEAN] /\ start \in [Streams -> BOOLEAN]
      OBVIOUS
    <2>5. packet \in [Streams -> 0 .. MaxPackets]
      OBVIOUS
    <2>6. QED
      BY <2>1, <2>2, <2>3, <2>4, <2>5 DEF TypeOK
  <1>4. CreatedInv
    BY DEF CreatedInv, Streams
  <1>5. StopInv /\ HandInv /\ OrderInv
    BY DEF StopInv, HandInv, OrderInv, Streams
  <1>6. CoverInv /\ StreamPacketsFreed
    BY DEF CoverInv, StreamPacketsFreed, Pushed, Decoded, Queued
  <1>7. QED
    BY <1>3, <1>4, <1>5, <1>6 DEF IInv

-----------------------------------------------------------------------------
(* The reading thread *)

LEMMA CreateQueueStep == IInv /\ CreateQueue => IInv'
  <1> SUFFICES ASSUME IInv, CreateQueue PROVE IInv'
    OBVIOUS
  <1> USE DEF IInv, CreateQueue, decoderVars
  <1>1. TypeOK' /\ CreatedInv'
    BY DEF TypeOK, CreatedInv, Streams
  <1>2. StopInv' /\ HandInv'
    BY DEF StopInv, HandInv
  <1>3. OrderInv'
    BY DEF OrderInv
  <1>4. CoverInv' /\ StreamPacketsFreed'
    BY DEF CoverInv, StreamPacketsFreed, Pushed, Decoded, Queued
  <1>5. QED
    BY <1>1, <1>2, <1>3, <1>4

LEMMA ReadSizeStep == IInv /\ ReadSize => IInv'
  <1> SUFFICES ASSUME IInv, ReadSize PROVE IInv'
    OBVIOUS
  <1> USE DEF IInv, ReadSize, decoderVars
  <1>1. TypeOK' /\ CreatedInv'
    BY DEF TypeOK, CreatedInv
  <1>2. StopInv' /\ HandInv'
    BY DEF StopInv, HandInv
  <1>3. OrderInv'
    BY DEF OrderInv
  <1>4. CoverInv' /\ StreamPacketsFreed'
    BY DEF CoverInv, StreamPacketsFreed, Pushed, Decoded, Queued
  <1>5. QED
    BY <1>1, <1>2, <1>3, <1>4

LEMMA ReadPacketStep == IInv /\ ReadPacket => IInv'
  <1> SUFFICES ASSUME IInv, ReadPacket PROVE IInv'
    OBVIOUS
  <1> USE MaxPacketsAssumption DEF IInv, ReadPacket, decoderVars
  <1>1. /\ pos' = pos + 1 /\ pos' \in 1 .. Len(file) /\ file' = file
        /\ Len(file) \in Nat /\ Len(file) <= MaxPackets
        /\ file[pos'] \in Streams \cup {"other"}
    BY DEF TypeOK
  <1>2. TypeOK'
    BY <1>1 DEF TypeOK
  <1>3. CreatedInv' /\ HandInv'
    BY <1>1 DEF CreatedInv, HandInv
  <1>4. StopInv'
    BY <1>1 DEF StopInv
  <1>5. OrderInv'
    BY DEF OrderInv
  <1>6. CoverInv'
    <2>1. \A s \in Streams : Pushed(s)' = Pushed(s)
      BY <1>1, StreamsDistinct DEF Pushed, TypeOK
    <2>2. QED
      BY <2>1 DEF CoverInv, Decoded, Queued
  <1>7. StreamPacketsFreed'
    <2> SUFFICES ASSUME NEW s \in Streams
                 PROVE  {p \in live' \cap 1 .. Len(file) : file[p] = s} =
                          Queued(s) \cup ({packet[s]} \ {0})
                          \cup (IF reader' = "push" /\ file[pos'] = s THEN {pos'} ELSE {})
      BY DEF StreamPacketsFreed, Queued
    <2>1. {p \in live \cap 1 .. Len(file) : file[p] = s} = Queued(s) \cup ({packet[s]} \ {0})
      BY DEF StreamPacketsFreed
    <2>2. reader' = "push" /\ file[pos'] = s <=> file[pos'] = s
      BY <1>1
    <2>3. QED
      BY <1>1, <2>1, <2>2
  <1>8. QED
    BY <1>2, <1>3, <1>4, <1>5, <1>6, <1>7

LEMMA PushStep == IInv /\ Push => IInv'
  <1> SUFFICES ASSUME IInv, Push PROVE IInv'
    OBVIOUS
  <1> USE MaxPacketsAssumption DEF IInv, Push, decoderVars
  <1> DEFINE t == file[pos]
  <1>1. /\ pos \in 1 .. Len(file) /\ pos \in 1 .. MaxPackets /\ t \in Streams
        /\ queue \in [Streams -> Seq(1 .. MaxPackets)]
    BY DEF TypeOK, HandInv
  <1>2. /\ queue'[t] = Append(queue[t], pos)
        /\ Len(queue'[t]) = Len(queue[t]) + 1
        /\ queue'[t][Len(queue[t]) + 1] = pos
        /\ \A i \in 1 .. Len(queue[t]) : queue'[t][i] = queue[t][i]
        /\ \A s \in Streams \ {t} : queue'[s] = queue[s]
    BY <1>1
  <1>3. Queued(t)' = Queued(t) \cup {pos} /\ \A s \in Streams \ {t} : Queued(s)' = Queued(s)
    <2>0. UNCHANGED <<file, pos>>
      OBVIOUS
    <2> HIDE DEF IInv, Push
    <2>1. Len(queue[t]) \in Nat
      BY <1>1
    <2>2. ASSUME NEW i \in 1 .. Len(queue'[t])
          PROVE  queue'[t][i] \in Queued(t) \cup {pos}
      <3>1. CASE i = Len(queue[t]) + 1
        BY <1>2, <3>1
      <3>2. CASE i # Len(queue[t]) + 1
        <4>1. i \in 1 .. Len(queue[t])
          BY <1>2, <2>1, <3>2
        <4>2. QED
          BY <1>2, <4>1 DEF Queued
      <3>3. QED
        BY <3>1, <3>2
    <2>3. \A i \in 1 .. Len(queue[t]) : queue[t][i] \in Queued(t)'
      BY <1>2, <2>0, <2>1 DEF Queued
    <2>4. pos \in Queued(t)'
      BY <1>2, <2>0, <2>1 DEF Queued
    <2>5. Queued(t)' = Queued(t) \cup {pos}
      <3>1. Queued(t)' \subseteq Queued(t) \cup {pos}
        BY <2>0, <2>2 DEF Queued
      <3>2. Queued(t) \subseteq Queued(t)'
        BY <2>3 DEF Queued
      <3>3. QED
        BY <2>4, <3>1, <3>2
    <2>6. \A s \in Streams \ {t} : Queued(s)' = Queued(s)
      BY <1>2 DEF Queued
    <2>7. QED
      BY <2>5, <2>6
  <1>4. TypeOK'
    <2>1. queue' \in [Streams -> Seq(1 .. MaxPackets)]
      BY <1>1, SMTT(30)
    <2>2. QED
      BY <2>1, SMTT(30) DEF TypeOK
  <1>5. CreatedInv' /\ HandInv'
    BY DEF CreatedInv, HandInv
  <1>6. StopInv'
    <2>1. working[t]
      BY <1>1 DEF StopInv, Streams
    <2>2. start[t]
      BY <1>1, <2>1 DEF StopInv
    <2>3. QED
      BY <1>1, <1>2, <2>2 DEF StopInv
  <1>7. \A s \in Streams : \A p \in Pushed(s) : p < pos
    BY DEF Pushed, TypeOK
  <1>8. \A x \in Decoded(t) \cup ({packet[t]} \ {0}) \cup Queued(t) : x < pos
    BY <1>1, <1>7 DEF CoverInv
  <1>9. OrderInv'
    <2>1. /\ \A i \in 1 .. Len(decoded[t]) : decoded[t][i] < pos
          /\ \A i \in 1 .. Len(queue[t]) : queue[t][i] < pos
          /\ packet[t] # 0 => packet[t] < pos
      BY <1>8 DEF Decoded, Queued
    <2>2. ASSUME NEW s \in Streams \ {t}
          PROVE  queue'[s] = queue[s] /\ decoded'[s] = decoded[s] /\ packet'[s] = packet[s]
      BY <1>2
    <2>3. Len(queue[t]) \in Nat
      BY <1>1
    <2>4. \A i, j \in 1 .. Len(queue'[t]) : i < j => queue'[t][i] < queue'[t][j]
      BY <1>1, <1>2, <2>1, <2>3, SMTT(30) DEF OrderInv
    <2>5. \A i \in 1 .. Len(decoded[t]) : \A j \in 1 .. Len(queue'[t]) : decoded[t][i] < queue'[t][j]
      BY <1>1, <1>2, <2>1, <2>3, SMTT(30) DEF OrderInv
    <2>6. packet[t] # 0 => \A j \in 1 .. Len(queue'[t]) : packet[t] < queue'[t][j]
      BY <1>1, <1>2, <2>1, <2>3, SMTT(30) DEF OrderInv
    <2>7. OrderInv
      BY DEF IInv
    <2>8. UNCHANGED <<decoded, packet>> /\ t \in Streams
      BY <1>1
    <2>9. \A i, j \in 1 .. Len(decoded[t]) : i < j => decoded[t][i] < decoded[t][j]
      BY <2>7, <2>8 DEF OrderInv
    <2>10. \A i \in 1 .. Len(decoded[t]) : packet[t] # 0 => decoded[t][i] < packet[t]
      BY <2>7, <2>8 DEF OrderInv
    <2>11. QED
      <3> HIDE DEF IInv, Push, t
      <3> SUFFICES ASSUME NEW u \in Streams
                   PROVE  /\ \A i, j \in 1 .. Len(decoded'[u]) :
                                i < j => decoded'[u][i] < decoded'[u][j]
                          /\ \A i, j \in 1 .. Len(queue'[u]) :
                                i < j => queue'[u][i] < queue'[u][j]
                          /\ \A i \in 1 .. Len(decoded'[u]) : \A j \in 1 .. Len(queue'[u]) :
                                decoded'[u][i] < queue'[u][j]
                          /\ packet'[u] # 0 =>
                               /\ \A i \in 1 .. Len(decoded'[u]) : decoded'[u][i] < packet'[u]
                               /\ \A j \in 1 .. Len(queue'[u]) : packet'[u] < queue'[u][j]
        BY DEF OrderInv
      <3>1. CASE u = t
        BY <2>4, <2>5, <2>6, <2>8, <2>9, <2>10, <3>1
      <3>2. CASE u # t
        BY <2>2, <2>7, <3>2 DEF OrderInv
      <3>3. QED
        BY <3>1, <3>2
  <1>10. CoverInv'
    <2>1. Pushed(t)' = Pushed(t) \cup {pos} /\ \A s \in Streams \ {t} : Pushed(s)' = Pushed(s)
      BY <1>1 DEF Pushed, TypeOK
    <2>2. \A s \in Streams : Decoded(s)' = Decoded(s) /\ packet'[s] = packet[s]
      BY DEF Decoded
    <2>3. Pushed(t)' = Decoded(t)' \cup ({packet'[t]} \ {0}) \cup Queued(t)'
      BY <1>1, <1>3, <2>1, <2>2 DEF CoverInv
    <2>4. ASSUME NEW s \in Streams \ {t}
          PROVE  Pushed(s)' = Decoded(s)' \cup ({packet'[s]} \ {0}) \cup Queued(s)'
      BY <1>3, <2>1, <2>2 DEF CoverInv
    <2>5. QED
      BY <2>3, <2>4 DEF CoverInv
  <1>11. StreamPacketsFreed'
    <2> DEFINE Live(s) == {p \in live \cap 1 .. Len(file) : file[p] = s}
    <2>1. /\ Live(t) = Queued(t) \cup ({packet[t]} \ {0}) \cup {pos}
          /\ \A s \in Streams \ {t} : Live(s) = Queued(s) \cup ({packet[s]} \ {0})
      BY <1>1 DEF StreamPacketsFreed
    <2>2. \A s \in Streams : Live(s)' = Live(s)
      OBVIOUS
    <2>3. \A s \in Streams : Live(s) = Queued(s)' \cup ({packet[s]} \ {0})
      BY <1>1, <1>3, <2>1
    <2>4. QED
      BY <2>2, <2>3 DEF StreamPacketsFreed
  <1>12. QED
    BY <1>4, <1>5, <1>6, <1>9, <1>10, <1>11

LEMMA StopVideoStep == IInv /\ StopVideo => IInv'
  <1> SUFFICES ASSUME IInv, StopVideo PROVE IInv'
    OBVIOUS
  <1> USE MaxPacketsAssumption DEF IInv
  <1>1. /\ file' = file /\ pos' = pos /\ queue' = queue /\ decoded' = decoded
        /\ packet' = packet /\ live' = live \cup {Len(file) + 1}
        /\ reader # "push" /\ reader' # "push"
    BY DEF StopVideo, decoderVars
  <1>2. Len(file) \in 0 .. MaxPackets /\ Len(file) + 1 \in 1 .. MaxPackets + 1
    BY FileLength
  <1>3. TypeOK'
    <2>1. live' \subseteq 1 .. MaxPackets + 1
      <3>1. live \subseteq 1 .. MaxPackets + 1
        BY DEF TypeOK
      <3>2. QED
        BY <1>1, <1>2, <3>1
    <2>2. working' \in [Streams -> BOOLEAN]
      BY DEF TypeOK, StopVideo
    <2>3. QED
      BY <1>1, <2>1, <2>2 DEF TypeOK, StopVideo, decoderVars
  <1>4. CreatedInv' /\ HandInv'
    BY DEF CreatedInv, HandInv, StopVideo, decoderVars
  <1>5. StopInv'
    BY DEF StopInv, TypeOK, Streams, StopVideo, decoderVars
  <1>6. OrderInv'
    BY <1>1 DEF OrderInv
  <1>7. CoverInv'
    BY <1>1 DEF CoverInv, Pushed, Decoded, Queued
  <1>8. StreamPacketsFreed'
    <2>1. live' \cap 1 .. Len(file) = live \cap 1 .. Len(file)
      BY <1>1, <1>2
    <2>2. QED
      BY <1>1, <2>1 DEF StreamPacketsFreed, Queued
  <1>9. QED
    BY <1>3, <1>4, <1>5, <1>6, <1>7, <1>8

LEMMA StopAudioStep == IInv /\ StopAudio => IInv'
  <1> SUFFICES ASSUME IInv, StopAudio PROVE IInv'
    OBVIOUS
  <1> USE DEF IInv
  <1>1. /\ file' = file /\ pos' = pos /\ queue' = queue /\ decoded' = decoded
        /\ packet' = packet /\ live' = live
        /\ reader # "push" /\ reader' # "push"
    BY DEF StopAudio, decoderVars
  <1>2. TypeOK'
    BY DEF TypeOK, StopAudio, decoderVars
  <1>3. CreatedInv' /\ HandInv'
    BY DEF CreatedInv, HandInv, StopAudio, decoderVars
  <1>4. StopInv'
    BY DEF StopInv, TypeOK, Streams, StopAudio, decoderVars
  <1>5. OrderInv'
    BY <1>1 DEF OrderInv
  <1>6. CoverInv'
    BY <1>1 DEF CoverInv, Pushed, Decoded, Queued
  <1>7. StreamPacketsFreed'
    BY <1>1 DEF StreamPacketsFreed, Queued
  <1>8. QED
    BY <1>2, <1>3, <1>4, <1>5, <1>6, <1>7

-----------------------------------------------------------------------------
(* The decoding threads *)

\* A step that only moves the thread and may end its loop.
LEMMA OnlyMoves ==
  ASSUME IInv, UNCHANGED <<file, pos, reader, created, queue, working, packet, decoded, live>>
  PROVE  CreatedInv' /\ OrderInv' /\ CoverInv' /\ StreamPacketsFreed'
  <1> USE DEF IInv
  <1>1. CreatedInv' /\ OrderInv'
    BY DEF CreatedInv, OrderInv
  <1>2. \A s \in Streams : /\ Pushed(s)' = Pushed(s) /\ Decoded(s)' = Decoded(s)
                          /\ Queued(s)' = Queued(s) /\ packet'[s] = packet[s]
    BY DEF Pushed, Decoded, Queued
  <1>3. CoverInv'
    BY <1>2 DEF CoverInv
  <1>4. StreamPacketsFreed'
    BY DEF StreamPacketsFreed, Queued
  <1>5. QED
    BY <1>1, <1>3, <1>4

LEMMA MoveSteps ==
  ASSUME IInv, NEW s \in Streams, While(s) \/ PullNull(s) \/ CheckWorking(s) \/ CheckSize(s)
  PROVE  IInv'
  <1> USE DEF IInv
  <1>1. CreatedInv' /\ OrderInv' /\ CoverInv' /\ StreamPacketsFreed'
    BY OnlyMoves DEF While, PullNull, CheckWorking, CheckSize, readerVars, decoderVars
  <1>2. CASE While(s)
    <2>1. TypeOK'
      BY <1>2 DEF TypeOK, While, Goto, readerVars
    <2>2. StopInv'
      BY <1>2 DEF TypeOK, StopInv, While, Goto, readerVars
    <2>3. HandInv'
      BY <1>2 DEF TypeOK, HandInv, While, Goto, readerVars
    <2>4. QED
      BY <1>1, <2>1, <2>2, <2>3
  <1>3. CASE PullNull(s)
    <2>1. TypeOK'
      BY <1>3 DEF TypeOK, PullNull, readerVars, decoderVars
    <2>2. StopInv' /\ HandInv'
      BY <1>3 DEF StopInv, HandInv, PullNull, readerVars, decoderVars
    <2>3. QED
      BY <1>1, <2>1, <2>2
  <1>4. CASE CheckWorking(s)
    <2>1. TypeOK'
      BY <1>4 DEF TypeOK, CheckWorking, Goto, readerVars
    <2>2. StopInv'
      BY <1>4 DEF TypeOK, StopInv, CheckWorking, Goto, readerVars
    <2>3. HandInv'
      BY <1>4 DEF TypeOK, HandInv, CheckWorking, Goto, readerVars
    <2>4. QED
      BY <1>1, <2>1, <2>2, <2>3
  <1>5. CASE CheckSize(s)
    <2>1. TypeOK'
      BY <1>5 DEF TypeOK, CheckSize, Goto, readerVars
    <2>2. StopInv'
      BY <1>5 DEF TypeOK, StopInv, CheckSize, Goto, readerVars
    <2>3. HandInv'
      BY <1>5 DEF TypeOK, HandInv, CheckSize, Goto, readerVars
    <2>4. QED
      BY <1>1, <2>1, <2>2, <2>3
  <1>6. QED
    BY <1>2, <1>3, <1>4, <1>5

LEMMA PullStep ==
  ASSUME IInv, NEW s \in Streams, Pull(s)
  PROVE  IInv'
  <1> USE MaxPacketsAssumption DEF IInv
  <1>1. /\ queue[s] \in Seq(1 .. MaxPackets) /\ queue[s] # <<>>
        /\ queue \in [Streams -> Seq(1 .. MaxPackets)]
        /\ packet \in [Streams -> 0 .. MaxPackets]
        /\ decoded[s] \in Seq(1 .. MaxPackets)
    BY DEF TypeOK, Pull, TakeFrom
  <1>2. UNCHANGED <<file, pos, reader, created, deleted, start, decoded, working, live, crashed>>
    BY DEF Pull, TakeFrom, readerVars
  <1>3. /\ packet'[s] = Head(queue[s]) /\ queue'[s] = Tail(queue[s])
        /\ \A u \in Streams \ {s} : packet'[u] = packet[u] /\ queue'[u] = queue[u]
        /\ packet[s] = 0
    BY <1>1 DEF Pull, TakeFrom, HandInv
  <1>4. /\ packet'[s] = queue[s][1] /\ queue[s][1] \in 1 .. MaxPackets
        /\ Len(queue[s]) \in Nat \ {0}
        /\ Len(queue'[s]) = Len(queue[s]) - 1
        /\ \A i \in 1 .. Len(queue'[s]) : queue'[s][i] = queue[s][i + 1]
    BY <1>1, <1>3
  <1>5. TypeOK'
    <2>1. /\ queue' \in [Streams -> Seq(1 .. MaxPackets)]
          /\ packet' \in [Streams -> 0 .. MaxPackets]
      BY <1>1, <1>4 DEF Pull, TakeFrom
    <2>2. decoder' \in [Streams -> {"while", "pull", "working?", "size?", "decode",
                                    "delete", "done"}]
      BY DEF TypeOK, Pull, Goto
    <2>3. QED
      BY <1>2, <2>1, <2>2 DEF TypeOK
  <1>6. CreatedInv'
    BY <1>2 DEF CreatedInv
  <1>7. /\ decoder[s] = "pull" /\ decoder'[s] = "working?"
        /\ \A u \in Streams \ {s} : decoder'[u] = decoder[u]
    BY DEF TypeOK, Pull, Goto
  <1>8. StopInv' /\ HandInv'
    <2>1. start[s] /\ s \notin deleted
      BY <1>7 DEF StopInv
    <2>2. StopInv'
      BY <1>2, <1>3, <1>7, <2>1, ZenonT(30) DEF TypeOK, StopInv
    <2>3. HandInv'
      BY <1>2, <1>3, <1>4, <1>7 DEF HandInv
    <2>4. QED
      BY <2>2, <2>3
  <1>9. OrderInv'
    <2>0. /\ \A i, j \in 1 .. Len(queue[s]) : i < j => queue[s][i] < queue[s][j]
          /\ \A i \in 1 .. Len(decoded[s]) : \A j \in 1 .. Len(queue[s]) :
                decoded[s][i] < queue[s][j]
      BY DEF OrderInv
    <2>1. \A i, j \in 1 .. Len(queue'[s]) : i < j => queue'[s][i] < queue'[s][j]
      <3> HIDE DEF IInv
      <3> SUFFICES ASSUME NEW i \in 1 .. Len(queue'[s]), NEW j \in 1 .. Len(queue'[s]), i < j
                   PROVE  queue'[s][i] < queue'[s][j]
        OBVIOUS
      <3>1. i + 1 \in 1 .. Len(queue[s]) /\ j + 1 \in 1 .. Len(queue[s]) /\ i + 1 < j + 1
        BY <1>4, SMTT(30)
      <3>2. queue[s][i + 1] < queue[s][j + 1]
        BY <2>0, <3>1
      <3>3. QED
        BY <1>4, <3>2
    <2>2. \A i \in 1 .. Len(decoded[s]) : \A j \in 1 .. Len(queue'[s]) : decoded[s][i] < queue'[s][j]
      <3> HIDE DEF IInv
      <3> SUFFICES ASSUME NEW i \in 1 .. Len(decoded[s]), NEW j \in 1 .. Len(queue'[s])
                   PROVE  decoded[s][i] < queue'[s][j]
        OBVIOUS
      <3>1. j + 1 \in 1 .. Len(queue[s])
        BY <1>4
      <3>2. QED
        BY <1>4, <2>0, <3>1
    <2>3. \A i \in 1 .. Len(decoded[s]) : decoded[s][i] < packet'[s]
      <3> HIDE DEF IInv
      <3>1. 1 \in 1 .. Len(queue[s])
        BY <1>4
      <3>2. QED
        BY <1>4, <2>0, <3>1
    <2>4. \A j \in 1 .. Len(queue'[s]) : packet'[s] < queue'[s][j]
      <3> HIDE DEF IInv
      <3> SUFFICES ASSUME NEW j \in 1 .. Len(queue'[s])
                   PROVE  packet'[s] < queue'[s][j]
        OBVIOUS
      <3>1. /\ 1 \in 1 .. Len(queue[s]) /\ j + 1 \in 1 .. Len(queue[s]) /\ 1 < j + 1
        BY <1>4
      <3>2. QED
        BY <1>4, <2>0, <3>1
    <2>5. ASSUME NEW u \in Streams \ {s}
          PROVE  queue'[u] = queue[u] /\ decoded'[u] = decoded[u] /\ packet'[u] = packet[u]
      BY <1>2, <1>3
    <2>6. decoded'[s] = decoded[s]
      BY <1>2
    <2>7. \A i, j \in 1 .. Len(decoded[s]) : i < j => decoded[s][i] < decoded[s][j]
      BY DEF OrderInv
    <2>8. OrderInv
      BY DEF IInv
    <2>9. QED
      <3> HIDE DEF IInv
      <3> SUFFICES ASSUME NEW u \in Streams
                   PROVE  /\ \A i, j \in 1 .. Len(decoded'[u]) :
                                i < j => decoded'[u][i] < decoded'[u][j]
                          /\ \A i, j \in 1 .. Len(queue'[u]) :
                                i < j => queue'[u][i] < queue'[u][j]
                          /\ \A i \in 1 .. Len(decoded'[u]) : \A j \in 1 .. Len(queue'[u]) :
                                decoded'[u][i] < queue'[u][j]
                          /\ packet'[u] # 0 =>
                               /\ \A i \in 1 .. Len(decoded'[u]) : decoded'[u][i] < packet'[u]
                               /\ \A j \in 1 .. Len(queue'[u]) : packet'[u] < queue'[u][j]
        BY DEF OrderInv
      <3>1. CASE u = s
        BY <2>1, <2>2, <2>3, <2>4, <2>6, <2>7, <3>1
      <3>2. CASE u # s
        BY <2>5, <2>8, <3>2 DEF OrderInv
      <3>3. QED
        BY <3>1, <3>2
  <1>10. /\ {packet'[s]} \ {0} = {packet'[s]}
         /\ Queued(s) = {packet'[s]} \cup Queued(s)'
         /\ \A u \in Streams \ {s} : Queued(u)' = Queued(u)
    <2>1. {packet'[s]} \ {0} = {packet'[s]}
      BY <1>4
    <2>2. Queued(s) \subseteq {packet'[s]} \cup Queued(s)'
      <3> SUFFICES ASSUME NEW i \in 1 .. Len(queue[s])
                   PROVE  queue[s][i] \in {packet'[s]} \cup Queued(s)'
        BY DEF Queued
      <3>1. CASE i = 1
        BY <1>4, <3>1
      <3>2. CASE i # 1
        <4>1. i - 1 \in 1 .. Len(queue'[s]) /\ queue'[s][i - 1] = queue[s][i]
          BY <1>4, <3>2
        <4>2. QED
          BY <4>1 DEF Queued
      <3>3. QED
        BY <3>1, <3>2
    <2>3. Queued(s)' \subseteq Queued(s)
      BY <1>4 DEF Queued
    <2>4. packet'[s] \in Queued(s)
      BY <1>4 DEF Queued
    <2>5. \A u \in Streams \ {s} : Queued(u)' = Queued(u)
      BY <1>3 DEF Queued
    <2>6. QED
      BY <2>1, <2>2, <2>3, <2>4, <2>5
  <1>11. CoverInv'
    BY <1>2, <1>3, <1>10 DEF CoverInv, Pushed, Decoded
  <1>12. StreamPacketsFreed'
    BY <1>2, <1>3, <1>10 DEF StreamPacketsFreed
  <1>13. QED
    BY <1>5, <1>6, <1>7, <1>8, <1>9, <1>11, <1>12

LEMMA DecodeStep ==
  ASSUME IInv, NEW s \in Streams, Decode(s)
  PROVE  IInv'
  <1> USE MaxPacketsAssumption DEF IInv
  <1>1. /\ packet[s] \in 1 .. MaxPackets
        /\ decoded \in [Streams -> Seq(1 .. MaxPackets)]
        /\ packet \in [Streams -> 0 .. MaxPackets]
    <2>1. /\ decoded \in [Streams -> Seq(1 .. MaxPackets)]
          /\ packet \in [Streams -> 0 .. MaxPackets]
      BY DEF TypeOK
    <2>2. packet[s] # 0
      BY DEF HandInv, Decode
    <2>3. QED
      BY <2>1, <2>2
  <1>2. UNCHANGED <<file, pos, reader, created, deleted, start, queue, working, crashed>>
    BY DEF Decode, readerVars
  <1>3. /\ packet'[s] = 0
        /\ Len(decoded'[s]) = Len(decoded[s]) + 1
        /\ decoded'[s][Len(decoded[s]) + 1] = packet[s]
        /\ \A i \in 1 .. Len(decoded[s]) : decoded'[s][i] = decoded[s][i]
        /\ Len(decoded[s]) \in Nat
        /\ \A u \in Streams \ {s} : packet'[u] = packet[u] /\ decoded'[u] = decoded[u]
    BY <1>1 DEF Decode
  <1>4. live' = live \ {packet[s]}
    BY DEF Decode
  <1>5. TypeOK'
    <2>1. decoded' \in [Streams -> Seq(1 .. MaxPackets)] /\ packet' \in [Streams -> 0 .. MaxPackets]
      BY <1>1 DEF Decode
    <2>2. decoder' \in [Streams -> {"while", "pull", "working?", "size?", "decode",
                                    "delete", "done"}]
      BY DEF TypeOK, Decode, Goto
    <2>3. QED
      BY <1>2, <1>4, <2>1, <2>2 DEF TypeOK
  <1>6. CreatedInv'
    BY <1>2 DEF CreatedInv
  <1>7. /\ decoder[s] = "decode" /\ decoder'[s] = "while"
        /\ \A u \in Streams \ {s} : decoder'[u] = decoder[u]
    BY DEF TypeOK, Decode, Goto
  <1>8. StopInv' /\ HandInv'
    <2>1. s \notin deleted
      BY <1>7 DEF StopInv
    <2>2. StopInv'
      BY <1>2, <1>7, <2>1 DEF TypeOK, StopInv
    <2>3. HandInv'
      BY <1>2, <1>3, <1>7 DEF HandInv
    <2>4. QED
      BY <2>2, <2>3
  <1>9. OrderInv'
    <2>0. /\ \A i \in 1 .. Len(decoded[s]) : decoded[s][i] < packet[s]
          /\ \A j \in 1 .. Len(queue[s]) : packet[s] < queue[s][j]
          /\ \A i, j \in 1 .. Len(decoded[s]) : i < j => decoded[s][i] < decoded[s][j]
          /\ \A i \in 1 .. Len(decoded[s]) : \A j \in 1 .. Len(queue[s]) :
                decoded[s][i] < queue[s][j]
      <3>1. OrderInv
        BY DEF IInv
      <3>2. packet[s] # 0
        BY <1>1
      <3> HIDE DEF IInv
      <3>3. QED
        BY <3>1, <3>2 DEF OrderInv
    <2>1. ASSUME NEW i \in 1 .. Len(decoded'[s]), NEW j \in 1 .. Len(decoded'[s]), i < j
          PROVE  decoded'[s][i] < decoded'[s][j]
      <3>1. i \in 1 .. Len(decoded[s]) /\ decoded'[s][i] = decoded[s][i]
        BY <1>3, <2>1
      <3>2. CASE j = Len(decoded[s]) + 1
        BY <1>3, <2>0, <3>1, <3>2
      <3>3. CASE j # Len(decoded[s]) + 1
        <4>1. j \in 1 .. Len(decoded[s])
          BY <1>3, <3>3
        <4>2. QED
          BY <1>3, <2>0, <2>1, <3>1, <4>1
      <3>4. QED
        BY <3>2, <3>3
    <2>2. \A i \in 1 .. Len(decoded'[s]) : \A j \in 1 .. Len(queue[s]) : decoded'[s][i] < queue[s][j]
      <3> HIDE DEF IInv
      <3> SUFFICES ASSUME NEW i \in 1 .. Len(decoded'[s]), NEW j \in 1 .. Len(queue[s])
                   PROVE  decoded'[s][i] < queue[s][j]
        OBVIOUS
      <3>1. CASE i = Len(decoded[s]) + 1
        BY <1>3, <2>0, <3>1
      <3>2. CASE i # Len(decoded[s]) + 1
        <4>1. i \in 1 .. Len(decoded[s])
          BY <1>3, <3>2
        <4>2. QED
          BY <1>3, <2>0, <4>1
      <3>3. QED
        BY <3>1, <3>2
    <2>3. ASSUME NEW u \in Streams \ {s}
          PROVE  queue'[u] = queue[u] /\ decoded'[u] = decoded[u] /\ packet'[u] = packet[u]
      BY <1>2, <1>3
    <2>4. /\ queue'[s] = queue[s]
          /\ \A i, j \in 1 .. Len(queue[s]) : i < j => queue[s][i] < queue[s][j]
      BY <1>2 DEF OrderInv
    <2>5. packet'[s] = 0
      BY <1>3
    <2>6. OrderInv
      BY DEF IInv
    <2>7. QED
      <3> HIDE DEF IInv
      <3> SUFFICES ASSUME NEW u \in Streams
                   PROVE  /\ \A i, j \in 1 .. Len(decoded'[u]) :
                                i < j => decoded'[u][i] < decoded'[u][j]
                          /\ \A i, j \in 1 .. Len(queue'[u]) :
                                i < j => queue'[u][i] < queue'[u][j]
                          /\ \A i \in 1 .. Len(decoded'[u]) : \A j \in 1 .. Len(queue'[u]) :
                                decoded'[u][i] < queue'[u][j]
                          /\ packet'[u] # 0 =>
                               /\ \A i \in 1 .. Len(decoded'[u]) : decoded'[u][i] < packet'[u]
                               /\ \A j \in 1 .. Len(queue'[u]) : packet'[u] < queue'[u][j]
        BY DEF OrderInv
      <3>1. CASE u = s
        BY <2>1, <2>2, <2>4, <2>5, <3>1
      <3>2. CASE u # s
        BY <2>3, <2>6, <3>2 DEF OrderInv
      <3>3. QED
        BY <3>1, <3>2
  <1>10. \A u \in Streams : Pushed(u)' = Pushed(u) /\ Queued(u)' = Queued(u)
    BY <1>2 DEF Pushed, Queued
  <1>11. CoverInv'
    <2>1. Decoded(s)' = Decoded(s) \cup {packet[s]}
      <3>1. Decoded(s)' \subseteq Decoded(s) \cup {packet[s]}
        <4> SUFFICES ASSUME NEW i \in 1 .. Len(decoded'[s])
                     PROVE  decoded'[s][i] \in Decoded(s) \cup {packet[s]}
          BY DEF Decoded
        <4>1. i \in 1 .. Len(decoded[s]) \/ i = Len(decoded[s]) + 1
          BY <1>3
        <4>2. QED
          BY <1>3, <4>1 DEF Decoded
      <3>2. Decoded(s) \subseteq Decoded(s)'
        BY <1>3 DEF Decoded
      <3>3. packet[s] \in Decoded(s)'
        BY <1>3 DEF Decoded
      <3>4. QED
        BY <3>1, <3>2, <3>3
    <2>2. \A u \in Streams \ {s} : Decoded(u)' = Decoded(u)
      BY <1>3 DEF Decoded
    <2>3. {packet[s]} \ {0} = {packet[s]} /\ {packet'[s]} \ {0} = {}
      BY <1>1, <1>3
    <2>4. Pushed(s)' = Decoded(s)' \cup ({packet'[s]} \ {0}) \cup Queued(s)'
      BY <1>10, <2>1, <2>3 DEF CoverInv
    <2>5. ASSUME NEW u \in Streams \ {s}
          PROVE  Pushed(u)' = Decoded(u)' \cup ({packet'[u]} \ {0}) \cup Queued(u)'
      BY <1>3, <1>10, <2>2 DEF CoverInv
    <2>6. QED
      BY <2>4, <2>5 DEF CoverInv
  <1>12. StreamPacketsFreed'
    <2> DEFINE Live(u) == {p \in live \cap 1 .. Len(file) : file[p] = u}
               InPush(u) == IF reader = "push" /\ file[pos] = u THEN {pos} ELSE {}
    <2>1. packet[s] \in Pushed(s)
      BY <1>1 DEF CoverInv
    <2>2. file[packet[s]] = s /\ packet[s] \notin InPush(s)
      BY <2>1 DEF Pushed
    <2>3. packet[s] \notin Queued(s)
      <3>1. \A j \in 1 .. Len(queue[s]) : packet[s] < queue[s][j]
        BY <1>1 DEF OrderInv
      <3>2. QED
        BY <1>1, <3>1 DEF Queued
    <2>4. \A u \in Streams : Live(u) = Queued(u) \cup ({packet[u]} \ {0}) \cup InPush(u)
      BY DEF StreamPacketsFreed
    <2>5. Live(s)' = Live(s) \ {packet[s]} /\ \A u \in Streams \ {s} : Live(u)' = Live(u)
      BY <1>2, <1>4, <2>2
    <2>6. \A u \in Streams : InPush(u)' = InPush(u)
      BY <1>2
    <2>7. Live(s)' = Queued(s)' \cup ({packet'[s]} \ {0}) \cup InPush(s)'
      <3> HIDE DEF Live, InPush
      <3>1. {packet[s]} \ {0} = {packet[s]} /\ {packet'[s]} \ {0} = {}
        BY <1>1, <1>3
      <3>2. Live(s) = Queued(s) \cup {packet[s]} \cup InPush(s)
        BY <2>4, <3>1
      <3>3. Live(s)' = Queued(s) \cup InPush(s)
        BY <2>2, <2>3, <2>5, <3>2
      <3>4. QED
        BY <1>10, <2>6, <3>1, <3>3
    <2>8. ASSUME NEW u \in Streams \ {s}
          PROVE  Live(u)' = Queued(u)' \cup ({packet'[u]} \ {0}) \cup InPush(u)'
      BY <1>3, <1>10, <2>4, <2>5, <2>6
    <2>9. QED
      BY <2>7, <2>8 DEF StreamPacketsFreed
  <1>13. QED
    BY <1>5, <1>6, <1>8, <1>9, <1>11, <1>12

\* A queue that is deleted is empty, so its destructor frees nothing.
LEMMA DeleteStep ==
  ASSUME IInv, NEW s \in Streams, Delete(s)
  PROVE  IInv'
  <1> USE MaxPacketsAssumption DEF IInv
  <1>1. /\ decoder[s] = "delete" /\ decoder'[s] = "done"
        /\ \A u \in Streams \ {s} : decoder'[u] = decoder[u]
        /\ deleted' = deleted \cup {s}
    BY DEF TypeOK, Delete, Goto
  <1>2. queue[s] = <<>> /\ ~start[s]
    BY <1>1 DEF StopInv
  <1>3. queue' = queue /\ live' = live
    <2>1. queue' = queue
      BY <1>2 DEF Delete, FreeAVPacket, TypeOK
    <2>2. {queue[s][i] : i \in 1 .. Len(queue[s])} = {}
      BY <1>2
    <2>3. QED
      BY <2>1, <2>2 DEF Delete, FreeAVPacket
  <1>4. UNCHANGED <<file, pos, reader, created, queue, working, packet, decoded, live>>
        /\ UNCHANGED <<start, crashed>>
    BY <1>3 DEF Delete, readerVars
  <1>5. CreatedInv' /\ OrderInv' /\ CoverInv' /\ StreamPacketsFreed'
    BY <1>4, OnlyMoves
  <1>6. TypeOK'
    <2>1. decoder' \in [Streams -> {"while", "pull", "working?", "size?", "decode",
                                    "delete", "done"}]
      BY DEF TypeOK, Delete, Goto
    <2>2. QED
      BY <1>1, <1>4, <2>1 DEF TypeOK
  <1>7. StopInv'
    BY <1>1, <1>2, <1>4 DEF StopInv, TypeOK
  <1>8. HandInv'
    BY <1>1, <1>4 DEF HandInv
  <1>9. QED
    BY <1>5, <1>6, <1>7, <1>8

-----------------------------------------------------------------------------
LEMMA NextIInv == IInv /\ [Next]_vars => IInv'
  <1> SUFFICES ASSUME IInv, [Next]_vars PROVE IInv'
    OBVIOUS
  <1>1. CASE Reader
    BY <1>1, CreateQueueStep, ReadSizeStep, ReadPacketStep, PushStep, StopVideoStep,
       StopAudioStep DEF Reader
  <1>2. ASSUME NEW s \in Streams, Decoder(s) PROVE IInv'
    BY <1>2, MoveSteps, PullStep, DecodeStep, DeleteStep DEF Decoder, CheckEnd
  <1>3. CASE UNCHANGED vars
    <2>1. CreatedInv' /\ OrderInv' /\ CoverInv' /\ StreamPacketsFreed'
      BY <1>3, OnlyMoves DEF vars, readerVars, decoderVars
    <2>2. TypeOK' /\ StopInv' /\ HandInv'
      BY <1>3 DEF IInv, TypeOK, StopInv, HandInv, vars, readerVars, decoderVars
    <2>3. QED
      BY <2>1, <2>2 DEF IInv
  <1>4. QED
    BY <1>1, <1>2, <1>3 DEF Next

\* The inductive invariant holds in every run, for every file.
THEOREM Invariance == Spec => []IInv
  BY InitIInv, NextIInv, PTL DEF Spec

\* Every variable of Player.cpp's pipeline keeps its type.
THEOREM TypeCorrect == Spec => []TypeOK
  <1>1. IInv => TypeOK
    BY DEF IInv
  <1>2. QED
    BY <1>1, Invariance, PTL

\* reading_packet() never calls a function of a queue that a decoding thread
\* has deleted.
THEOREM DeletedIsUnused == Spec => []NoUseAfterDelete
  <1>1. IInv => NoUseAfterDelete
    <2> SUFFICES ASSUME IInv, NEW s \in Touched, s \in deleted PROVE FALSE
      BY DEF NoUseAfterDelete
    <2>1. reader \in {"size", "read", "push", "stop audio"} /\ s \in Streams
      BY DEF Touched, IInv, TypeOK, HandInv, Streams
    <2>2. ~start[s] /\ ~working[s]
      BY <2>1 DEF IInv, StopInv
    <2>3. s = "video" \/ s = "audio"
      BY <2>1 DEF Streams
    <2>4. reader = "stop audio" /\ s = "video"
      BY <2>1, <2>2, <2>3 DEF IInv, StopInv
    <2>5. QED
      BY <2>4 DEF Touched
  <1>2. QED
    BY <1>1, Invariance, PTL

\* A decoding thread that ends has decoded every packet of its stream, in order.
THEOREM EndIsComplete == Spec => []EndsWithAllDecoded
  <1>1. IInv => EndsWithAllDecoded
    <2> SUFFICES ASSUME IInv, NEW s \in Streams, decoder[s] \in {"delete", "done"}
                 PROVE  /\ queue[s] = <<>>
                        /\ \A i, j \in 1 .. Len(decoded[s]) : i < j => decoded[s][i] < decoded[s][j]
                        /\ Decoded(s) = PacketsOf(s)
      BY DEF EndsWithAllDecoded, Decoded
    <2>1. ~start[s] /\ ~working[s] /\ queue[s] = <<>>
      BY DEF IInv, StopInv
    <2>2. reader \in {"stop audio", "done"} /\ pos = Len(file)
      BY <2>1 DEF IInv, StopInv, Streams
    <2>3. packet[s] = 0
      BY DEF IInv, HandInv
    <2>4. Queued(s) = {} /\ {packet[s]} \ {0} = {}
      BY <2>1, <2>3 DEF Queued
    <2>5. Pushed(s) = PacketsOf(s)
      BY <2>2 DEF Pushed, PacketsOf
    <2>6. QED
      BY <2>1, <2>4, <2>5 DEF IInv, CoverInv, OrderInv
  <1>2. QED
    BY <1>1, Invariance, PTL

\* No packet of a played stream leaks, whatever the decoders fail on.
THEOREM PacketsAreFreed == Spec => []StreamPacketsFreed
  <1>1. IInv => StreamPacketsFreed
    BY DEF IInv
  <1>2. QED
    BY <1>1, Invariance, PTL
-----------------------------------------------------------------------------
(* Player implements Playback for each of its streams *)

\* What a step may do to the decoding of a stream: nothing, ...
Stutters(s) == UNCHANGED <<PacketsOf(s), decoded[s], Ended(s)>>

\* ... decode the very next packet of the file, ...
DecodesNext(s) ==
  /\ ~Ended(s) /\ ~Ended(s)' /\ UNCHANGED PacketsOf(s)
  /\ \E p \in PacketsOf(s) :
       /\ decoded'[s] = Append(decoded[s], p)
       /\ \A q \in Decoded(s) : q < p
       /\ \A q \in PacketsOf(s) : q < p => q \in Decoded(s)

\* ... or end, with nothing left to decode.
Finishes(s) == /\ ~Ended(s) /\ Ended(s)'
               /\ PacketsOf(s) \subseteq Decoded(s)
               /\ UNCHANGED <<PacketsOf(s), decoded[s]>>

\* A thread that has found the end of its stream has decoded all of it.
LEMMA StoppedIsComplete ==
  ASSUME IInv, NEW s \in Streams, ~start[s], packet[s] = 0
  PROVE  Decoded(s) = PacketsOf(s)
  <1>1. ~working[s] /\ queue[s] = <<>>
    BY DEF IInv, StopInv
  <1>2. reader \in {"stop audio", "done"} /\ pos = Len(file)
    BY <1>1 DEF IInv, StopInv, Streams
  <1>3. Queued(s) = {} /\ {packet[s]} \ {0} = {}
    BY <1>1 DEF Queued
  <1>4. Pushed(s) = PacketsOf(s)
    BY <1>2 DEF Pushed, PacketsOf
  <1>5. QED
    BY <1>3, <1>4 DEF IInv, CoverInv

\* Steps that leave a stream's thread where it is and its packets as they are.
LEMMA OtherSteps ==
  ASSUME IInv, NEW s \in Streams, UNCHANGED file, UNCHANGED decoded[s],
         decoder'[s] = decoder[s]
  PROVE  Stutters(s)
  BY DEF Stutters, PacketsOf, Ended

LEMMA WhileStutters ==
  ASSUME IInv, NEW s \in Streams, While(s)
  PROVE  Stutters(s) \/ Finishes(s)
  <1>1. /\ UNCHANGED <<PacketsOf(s), decoded[s]>>
        /\ decoder'[s] = IF start[s] THEN "pull" ELSE "delete"
        /\ ~Ended(s)
    BY DEF While, Goto, readerVars, PacketsOf, IInv, TypeOK, Ended
  <1>2. CASE start[s]
    BY <1>1, <1>2 DEF Ended, Stutters
  <1>3. CASE ~start[s]
    <2>1. packet[s] = 0
      BY DEF While, IInv, HandInv
    <2>2. PacketsOf(s) \subseteq Decoded(s)
      BY <1>3, <2>1, StoppedIsComplete
    <2>3. QED
      BY <1>1, <1>3, <2>2 DEF Ended, Finishes
  <1>4. QED
    BY <1>2, <1>3

LEMMA DecodeIsNext ==
  ASSUME IInv, NEW s \in Streams, Decode(s)
  PROVE  DecodesNext(s)
  <1> USE DEF IInv
  <1>1. /\ UNCHANGED PacketsOf(s) /\ decoded'[s] = Append(decoded[s], packet[s])
        /\ ~Ended(s) /\ ~Ended(s)'
    BY DEF Decode, Goto, readerVars, PacketsOf, TypeOK, Ended
  <1>2. packet[s] # 0
    BY DEF Decode, HandInv
  <1>3. packet[s] \in Pushed(s)
    BY <1>2 DEF CoverInv
  <1>4. pos \in Nat /\ pos <= Len(file) /\ Len(file) \in Nat
    <2>1. Len(file) \in 0 .. MaxPackets /\ pos \in 0 .. Len(file)
      BY FileLength DEF TypeOK
    <2>2. QED
      BY <2>1, MaxPacketsAssumption
  <1>5. packet[s] \in PacketsOf(s)
    BY <1>3, <1>4 DEF Pushed, PacketsOf
  <1>6. \A q \in Decoded(s) : q < packet[s]
    BY <1>2 DEF OrderInv, Decoded
  <1>7. ASSUME NEW q \in PacketsOf(s), q < packet[s]
        PROVE  q \in Decoded(s)
    <2>1. q \in Pushed(s)
      BY <1>3, <1>4, <1>7 DEF Pushed, PacketsOf
    <2>2. q \notin Queued(s) /\ q # packet[s]
      <3>1. \A r \in Queued(s) : packet[s] < r
        BY <1>2 DEF OrderInv, Queued
      <3>2. packet[s] \in Nat /\ q \in Nat
        BY <1>3, <1>4, <2>1 DEF Pushed
      <3>3. QED
        BY <1>7, <3>1, <3>2
    <2>3. QED
      BY <2>1, <2>2 DEF CoverInv
  <1>8. QED
    BY <1>1, <1>5, <1>6, <1>7 DEF DecodesNext

LEMMA StreamStep ==
  ASSUME IInv, [Next]_vars, NEW s \in Streams
  PROVE  Stutters(s) \/ DecodesNext(s) \/ Finishes(s)
  <1>1. CASE UNCHANGED vars
    BY <1>1, OtherSteps DEF vars, readerVars, decoderVars
  <1>2. CASE Reader
    <2>1. UNCHANGED <<file, decoded, decoder>>
      BY <1>2 DEF Reader, CreateQueue, ReadSize, ReadPacket, Push, StopVideo, StopAudio,
                  decoderVars
    <2>2. QED
      BY <2>1, OtherSteps
  <1>3. ASSUME NEW u \in Streams, Decoder(u)
        PROVE  Stutters(s) \/ DecodesNext(s) \/ Finishes(s)
    <2>1. CASE u # s
      <3>1. UNCHANGED file /\ decoded'[s] = decoded[s] /\ decoder'[s] = decoder[s]
        BY <1>3, <2>1 DEF Decoder, While, PullNull, Pull, TakeFrom, CheckEnd, CheckWorking,
                          CheckSize, Decode, Delete, Goto, readerVars, decoderVars, IInv, TypeOK
      <3>2. QED
        BY <3>1, OtherSteps
    <2>2. CASE u = s /\ While(s)
      BY <2>2, WhileStutters
    <2>3. CASE u = s /\ Decode(s)
      BY <2>3, DecodeIsNext
    <2>4. CASE u = s /\ (PullNull(s) \/ Pull(s) \/ CheckEnd(s) \/ Delete(s))
      <3>1. UNCHANGED <<PacketsOf(s), decoded[s]>>
        BY <2>4 DEF PullNull, Pull, CheckEnd, CheckWorking, CheckSize, Delete, readerVars,
                    decoderVars, PacketsOf
      <3>2. Ended(s)' <=> Ended(s)
        BY <2>4 DEF PullNull, Pull, CheckEnd, CheckWorking, CheckSize, Delete, Goto,
                    decoderVars, Ended, IInv, TypeOK
      <3>3. QED
        BY <3>1, <3>2 DEF Stutters, Ended
    <2>5. QED
      BY <1>3, <2>1, <2>2, <2>3, <2>4 DEF Decoder
  <1>4. QED
    BY <1>1, <1>2, <1>3 DEF Next

LEMMA PlaybackInit == Init => Video!Init /\ Sound!Init
  BY DEF Init, Video!Init, Sound!Init, Ended, Streams

LEMMA VideoStep == IInv /\ [Next]_vars => [Video!Next]_(Video!vars)
  <1> SUFFICES ASSUME IInv, [Next]_vars PROVE [Video!Next]_(Video!vars)
    OBVIOUS
  <1> DEFINE s == "video"
  <1>1. CASE Stutters(s)
    BY <1>1 DEF Stutters, Video!vars
  <1>2. CASE DecodesNext(s)
    <2>1. PICK p \in PacketsOf(s) :
            /\ decoded'[s] = Append(decoded[s], p)
            /\ \A q \in Decoded(s) : q < p
            /\ \A q \in PacketsOf(s) : q < p => q \in Decoded(s)
      BY <1>2 DEF DecodesNext
    <2>2. UNCHANGED <<PacketsOf(s), Ended(s)>> /\ ~Ended(s)
      BY <1>2 DEF DecodesNext, Ended
    <2>3. Video!Heard = Decoded(s)
      BY DEF Video!Heard, Decoded
    <2>4. Video!Play(p)
      BY <2>1, <2>2, <2>3 DEF Video!Play, Earlier
    <2>5. QED
      BY <2>1, <2>4 DEF Video!Next
  <1>3. CASE Finishes(s)
    BY <1>3 DEF Finishes, Video!Next, Video!Finish, Video!Heard, Decoded
  <1>4. QED
    BY <1>1, <1>2, <1>3, StreamStep DEF Streams

LEMMA SoundStep == IInv /\ [Next]_vars => [Sound!Next]_(Sound!vars)
  <1> SUFFICES ASSUME IInv, [Next]_vars PROVE [Sound!Next]_(Sound!vars)
    OBVIOUS
  <1> DEFINE s == "audio"
  <1>1. CASE Stutters(s)
    BY <1>1 DEF Stutters, Sound!vars
  <1>2. CASE DecodesNext(s)
    <2>1. PICK p \in PacketsOf(s) :
            /\ decoded'[s] = Append(decoded[s], p)
            /\ \A q \in Decoded(s) : q < p
            /\ \A q \in PacketsOf(s) : q < p => q \in Decoded(s)
      BY <1>2 DEF DecodesNext
    <2>2. UNCHANGED <<PacketsOf(s), Ended(s)>> /\ ~Ended(s)
      BY <1>2 DEF DecodesNext, Ended
    <2>3. Sound!Heard = Decoded(s)
      BY DEF Sound!Heard, Decoded
    <2>4. Sound!Play(p)
      BY <2>1, <2>2, <2>3 DEF Sound!Play, Earlier
    <2>5. QED
      BY <2>1, <2>4 DEF Sound!Next
  <1>3. CASE Finishes(s)
    BY <1>3 DEF Finishes, Sound!Next, Sound!Finish, Sound!Heard, Decoded
  <1>4. QED
    BY <1>1, <1>2, <1>3, StreamStep DEF Streams

\* Each decoding thread decodes its stream packet by packet in the file's order
\* and ends after the last one, for every file and interleaving.
THEOREM StreamsArePlayback == Spec => ImplementsPlayback
  <1>1. Spec => Video!Init /\ [][Video!Next]_(Video!vars)
    BY PlaybackInit, VideoStep, Invariance, PTL DEF Spec
  <1>2. Spec => Sound!Init /\ [][Sound!Next]_(Sound!vars)
    BY PlaybackInit, SoundStep, Invariance, PTL DEF Spec
  <1>3. QED
    BY <1>1, <1>2, PTL DEF ImplementsPlayback, Video!Spec, Sound!Spec
-----------------------------------------------------------------------------
(* The decoding thread that does not end *)

\* The thread waits in pull(), the reading thread has ended.
Starved(s) == decoder[s] = "pull" /\ queue[s] = <<>> /\ reader = "done"

LEMMA StarvedStep ==
  ASSUME IInv, [Next]_vars, NEW s \in Streams, Starved(s)
  PROVE  Starved(s)'
  <1>1. s \in created
    BY DEF IInv, CreatedInv, Starved
  <1>2. CASE UNCHANGED vars
    BY <1>2 DEF vars, readerVars, decoderVars, Starved
  <1>3. CASE Reader
    BY <1>3 DEF Reader, CreateQueue, ReadSize, ReadPacket, Push, StopVideo, StopAudio, Starved
  <1>4. ASSUME NEW u \in Streams, Decoder(u)
        PROVE  Starved(s)'
    <2>1. CASE u = s
      BY <1>1, <1>4, <2>1 DEF Decoder, While, PullNull, Pull, TakeFrom, CheckEnd,
         CheckWorking, CheckSize, Decode, Delete, Starved
    <2>2. CASE u # s
      <3>1. UNCHANGED reader
        BY <1>4 DEF Decoder, While, PullNull, Pull, CheckEnd, CheckWorking, CheckSize,
                    Decode, Delete, readerVars, decoderVars
      <3>2. decoder'[s] = decoder[s] /\ queue'[s] = queue[s]
        BY <1>4, <2>2 DEF Decoder, While, PullNull, Pull, TakeFrom, CheckEnd, CheckWorking,
                          CheckSize, Decode, Delete, FreeAVPacket, Goto, decoderVars, IInv, TypeOK
      <3>3. QED
        BY <3>1, <3>2 DEF Starved
    <2>3. QED
      BY <2>1, <2>2
  <1>5. QED
    BY <1>2, <1>3, <1>4 DEF Next

\* What DecodingEnds fails on is for ever: a decoding thread that waits in
\* pull() when the reading thread has ended is never woken, by nobody.
THEOREM StarvedForEver == Spec => [][\A s \in Streams : Starved(s) => Starved(s)']_vars
  <1>1. IInv /\ [Next]_vars => [\A s \in Streams : Starved(s) => Starved(s)']_vars
    BY StarvedStep
  <1>2. QED
    BY <1>1, Invariance, PTL DEF Spec
=============================================================================
