-------------------------- MODULE FFAudioOrder_proofs --------------------------
(***************************************************************************)
(* Proofs about what happens to the packets and the frames of FFAudio: no  *)
(* audio packet leaks, frames are played in the file's order, and, when no *)
(* packet holds two, all of them are.  So FFAudio implements Playback.     *)
(***************************************************************************)
EXTENDS FFAudio_proofs, DistinctLists, FiniteSetTheorems

\* decodeAudioPacket() has a packet exactly between pull() and av_packet_free().
HandInv ==
  /\ packet # 0 <=> callback \in {"send", "receive", "convert"}
  /\ packet # 0 => packet \in AudioPackets

\* The packets in the queue are in the file's order, after the one the callback
\* has and before the one the reading thread has.
Ascending == \A i, j \in 1 .. Len(queue) : i < j => queue[i] < queue[j]

PacketOrderInv ==
  /\ Ascending
  /\ \A q \in Queued : q <= pos /\ packet < q /\ (reader = "push" => q < pos)
  /\ packet <= pos /\ (reader = "push" => packet < pos)

\* AudioPacketsFreed, with one condition for each packet; packets of other
\* streams stay allocated.
MemoryInv ==
  /\ live \subseteq 1 .. pos
  /\ (1 .. pos) \ AudioPackets \subseteq live
  /\ \A p \in AudioPackets : p \in live <=>
       p \in Queued \/ (reader = "push" /\ p = pos) \/ p = packet

-----------------------------------------------------------------------------
(* Frames on their way *)

AllBefore(A, B) == \A f \in A, g \in B : Before(f, g)
InOrder(q) == \A i, j \in 1 .. Len(q) : i < j => Before(q[i], q[j])

\* What the decoder holds, and its order: what comes out first is before what
\* is still to be decoded, and that is before the packet that waits.
Waiting(c) == IF c.slot = <<>> THEN {} ELSE Elements(Head(c.slot))
Held(c) == Elements(c.out) \cup Elements(c.rest) \cup Waiting(c)

ContextOrdered(c) ==
  /\ Len(c.out) <= 1 /\ Len(c.slot) <= 1
  /\ InOrder(c.rest)
  /\ c.slot # <<>> => InOrder(Head(c.slot))
  /\ AllBefore(Elements(c.out), Elements(c.rest))
  /\ AllBefore(Elements(c.out) \cup Elements(c.rest), Waiting(c))

\* The frame that was converted and that OpenSL has not played yet, and the one
\* that was received and is to be converted.
Converted == IF buffer # NoFrame /\ (callback = "enqueue" \/ slQueued > 0) THEN {buffer} ELSE {}
Received == IF callback = "convert" THEN {frame} ELSE {}

FrameOrderInv ==
  /\ InOrder(played)
  /\ AllBefore(Elements(played), Converted)
  /\ AllBefore(Elements(played) \cup Converted, Received)
  /\ AllBefore(Elements(played) \cup Converted \cup Received, Held(codec))
  /\ ContextOrdered(codec)

OnTheWay == Elements(played) \cup Converted \cup Received \cup Held(codec)

\* Packets that are still to be sent to the decoder come after all these frames.
AheadInv == \A f \in OnTheWay :
  /\ f[1] <= pos /\ (reader = "push" => f[1] < pos)
  /\ callback = "send" => f[1] < packet
  /\ \A q \in Queued : f[1] < q

\* What is on its way comes from the file, and only what can be played is.
OriginInv ==
  /\ \A f \in OnTheWay : f[1] \in AudioPackets /\ f \in Elements(FramesIn(f[1]))
  /\ Elements(played) \cup Converted \subseteq Playable

-----------------------------------------------------------------------------
(* Files in which no packet holds two frames *)

NoDouble == \A p \in AudioPackets : file[p] # "double"

\* OpenSL calls nobody back before the buffer prepare() gives it, which holds no
\* frame, nor when it has refused that or a later one.
EndInv ==
  /\ setup \notin {"start", "done"} => sl = "off" /\ buffer = NoFrame
  /\ sl # "playing" => callback = "idle" /\ slQueued = 0

\* The decoder is empty but between sending a packet and receiving its frame.
EmptyInv == NoDouble =>
  /\ callback # "receive" => codec = Codec!NewContext
  /\ callback = "receive" =>
       /\ file[packet] \in {"frame", "unconvertible", "silent"}
       /\ codec = Codec!Context(<<>>, <<>>, FramesIn(packet))
  /\ callback = "convert" => file[packet] \in {"frame", "unconvertible"} /\ frame = <<packet, 1>>

\* A frame that can be played was, or is on its way, or in a packet to come.
Played(f) == f \in Elements(played) \cup Converted
ToCome(f) == \/ f[1] = packet \/ f[1] \in Queued \/ f[1] > pos
             \/ reader = "push" /\ f[1] = pos

CompleteInv == NoDouble /\ sl # "refused" => \A f \in Playable : Played(f) \/ ToCome(f)

OInv == /\ HandInv /\ PacketOrderInv /\ MemoryInv
        /\ FrameOrderInv /\ AheadInv /\ OriginInv
        /\ EndInv /\ EmptyInv /\ CompleteInv

-----------------------------------------------------------------------------
(* The decoder keeps the order *)

LEMMA OrderedTail ==
  ASSUME NEW q \in Seq(Decodable), q # <<>>, InOrder(q)
  PROVE  /\ Tail(q) \in Seq(Decodable) /\ InOrder(Tail(q))
         /\ Head(q) \in Elements(q) /\ Elements(Tail(q)) \subseteq Elements(q)
         /\ AllBefore({Head(q)}, Elements(Tail(q)))
  <1>1. /\ Len(q) \in Nat /\ Len(q) > 0 /\ Head(q) = q[1] /\ Tail(q) \in Seq(Decodable)
        /\ Len(Tail(q)) = Len(q) - 1
        /\ \A i \in 1 .. Len(q) - 1 : Tail(q)[i] = q[i + 1]
    OBVIOUS
  <1>2. InOrder(Tail(q))
    BY <1>1 DEF InOrder
  <1>3. Head(q) \in Elements(q)
    BY <1>1 DEF Elements
  <1>4. ASSUME NEW f \in Elements(Tail(q)) PROVE f \in Elements(q) /\ Before(Head(q), f)
    <2>1. PICK i \in 1 .. Len(q) - 1 : f = Tail(q)[i]
      BY <1>1 DEF Elements
    <2>2. f = q[i + 1] /\ i + 1 \in 1 .. Len(q) /\ 1 \in 1 .. Len(q) /\ 1 < i + 1
      BY <1>1, <2>1
    <2>3. QED
      BY <1>1, <2>2 DEF Elements, InOrder
  <1>5. QED
    BY <1>1, <1>2, <1>3, <1>4 DEF AllBefore

LEMMA OneElement ==
  ASSUME NEW x
  PROVE  Elements(<<x>>) = {x} /\ Len(<<x>>) = 1 /\ Head(<<x>>) = x
  BY DEF Elements

LEMMA NoElement == Elements(<<>>) = {} /\ Len(<<>>) = 0 /\ InOrder(<<>>)
  BY DEF Elements, InOrder

\* One call of the decoder: the frame it gives, and what is left of the packet.
LEMMA DecodeFromOrder ==
  ASSUME NEW slot, NEW out, NEW pkt \in Seq(Decodable), pkt # <<>>, InOrder(pkt)
  PROVE  LET r == Codec!DecodeFrom(slot, pkt, out) IN
         /\ r.codec.slot = slot /\ r.codec.out = out
         /\ InOrder(r.codec.rest) /\ Len(r.frame) <= 1
         /\ Elements(r.frame) \cup Elements(r.codec.rest) \subseteq Elements(pkt)
         /\ AllBefore(Elements(r.frame), Elements(r.codec.rest))
  <1> DEFINE r == Codec!DecodeFrom(slot, pkt, out)
  <1>1. CASE IsCorrupt(Head(pkt))
    <2>1. r.codec.slot = slot /\ r.codec.out = out /\ r.codec.rest = <<>> /\ r.frame = <<>>
      BY <1>1 DEF Codec!DecodeFrom, Codec!Return, Codec!Context
    <2>2. QED
      BY <2>1, NoElement DEF AllBefore
  <1>2. CASE ~IsCorrupt(Head(pkt))
    <2>1. /\ r.codec.slot = slot /\ r.codec.out = out
          /\ r.codec.rest = Tail(pkt) /\ r.frame = <<Head(pkt)>>
      BY <1>2 DEF Codec!DecodeFrom, Codec!Return, Codec!Context
    <2> HIDE DEF r
    <2>2. Elements(r.frame) = {Head(pkt)} /\ Len(r.frame) = 1
      BY <2>1, OneElement
    <2>3. /\ InOrder(Tail(pkt)) /\ Head(pkt) \in Elements(pkt)
          /\ Elements(Tail(pkt)) \subseteq Elements(pkt)
          /\ AllBefore({Head(pkt)}, Elements(Tail(pkt)))
      BY OrderedTail
    <2>4. InOrder(r.codec.rest)
      BY <2>1, <2>3
    <2>5. Elements(r.frame) \cup Elements(r.codec.rest) \subseteq Elements(pkt)
      <3>1. Elements(r.codec.rest) = Elements(Tail(pkt))
        BY <2>1
      <3>2. QED
        BY <3>1, <2>2, <2>3
    <2>6. AllBefore(Elements(r.frame), Elements(r.codec.rest))
      BY <2>1, <2>2, <2>3
    <2>7. Len(r.frame) <= 1
      BY <2>2
    <2>8. QED
      BY <2>1, <2>4, <2>5, <2>6, <2>7 DEF r
  <1>3. QED
    BY <1>1, <1>2

\* The context that holds what a call of the decoder gave and what it left.
After(r) == Codec!Context(r.codec.slot, r.codec.rest, r.frame)

LEMMA ContextParts ==
  ASSUME NEW slot, NEW rest, NEW out
  PROVE  LET c == Codec!Context(slot, rest, out) IN
         c.slot = slot /\ c.rest = rest /\ c.out = out
  BY DEF Codec!Context

LEMMA DecodeNextOrder ==
  ASSUME NEW c \in CodecContext, ContextOrdered(c), c.out = <<>>
  PROVE  LET r == Codec!DecodeNext(c.slot, c.rest, <<>>) IN
         r.codec.out = <<>> /\ ContextOrdered(After(r)) /\ Held(After(r)) \subseteq Held(c)
  <1> DEFINE r == Codec!DecodeNext(c.slot, c.rest, <<>>)
             nothing == c.slot = <<>> \/ Head(c.slot) = <<>>
  <1>c. /\ c.slot \in Seq(Seq(Decodable)) /\ c.rest \in Seq(Decodable)
        /\ Len(c.slot) <= 1 /\ InOrder(c.rest) /\ (c.slot # <<>> => InOrder(Head(c.slot)))
        /\ AllBefore(Elements(c.rest), Waiting(c))
        /\ Held(c) = Elements(c.rest) \cup Waiting(c)
    BY ContextFields, NoElement DEF ContextOrdered, Held, AllBefore
  <1>1. CASE c.rest # <<>>
    <2>1. r = Codec!DecodeFrom(c.slot, c.rest, <<>>)
      BY <1>1 DEF Codec!DecodeNext
    <2>2. /\ r.codec.slot = c.slot /\ r.codec.out = <<>>
          /\ InOrder(r.codec.rest) /\ Len(r.frame) <= 1
          /\ Elements(r.frame) \cup Elements(r.codec.rest) \subseteq Elements(c.rest)
          /\ AllBefore(Elements(r.frame), Elements(r.codec.rest))
      BY <1>1, <1>c, <2>1, DecodeFromOrder
    <2> HIDE DEF r
    <2>3. After(r).slot = c.slot /\ After(r).rest = r.codec.rest /\ After(r).out = r.frame
      BY <2>2, ContextParts DEF After
    <2>4. Waiting(After(r)) = Waiting(c)
      BY <2>3 DEF Waiting
    <2>5. QED
      BY <1>c, <2>2, <2>3, <2>4 DEF ContextOrdered, Held, AllBefore, r
  <1>2. CASE c.rest = <<>> /\ nothing
    <2>1. r = Codec!Return(Codec!EAGAIN, Codec!Context(<<>>, <<>>, <<>>), <<>>)
      BY <1>2 DEF Codec!DecodeNext
    <2>2. r.codec.slot = <<>> /\ r.codec.rest = <<>> /\ r.codec.out = <<>> /\ r.frame = <<>>
      BY <2>1 DEF Codec!Return, Codec!Context
    <2> HIDE DEF r
    <2>3. After(r).slot = <<>> /\ After(r).rest = <<>> /\ After(r).out = <<>>
      BY <2>2, ContextParts DEF After
    <2>4. QED
      BY <2>2, <2>3, NoElement DEF ContextOrdered, Held, Waiting, AllBefore, r
  <1>3. CASE c.rest = <<>> /\ ~nothing
    <2>1. r = Codec!DecodeFrom(<<>>, Head(c.slot), <<>>)
      BY <1>3 DEF Codec!DecodeNext
    <2>2. Head(c.slot) \in Seq(Decodable) /\ Head(c.slot) # <<>> /\ InOrder(Head(c.slot))
      BY <1>3, <1>c
    <2>3. /\ r.codec.slot = <<>> /\ r.codec.out = <<>>
          /\ InOrder(r.codec.rest) /\ Len(r.frame) <= 1
          /\ Elements(r.frame) \cup Elements(r.codec.rest) \subseteq Elements(Head(c.slot))
          /\ AllBefore(Elements(r.frame), Elements(r.codec.rest))
      BY <2>1, <2>2, DecodeFromOrder
    <2> HIDE DEF r
    <2>4. After(r).slot = <<>> /\ After(r).rest = r.codec.rest /\ After(r).out = r.frame
      BY <2>3, ContextParts DEF After
    <2>5. Waiting(c) = Elements(Head(c.slot)) /\ Waiting(After(r)) = {}
      BY <1>3, <2>4 DEF Waiting
    <2>6. QED
      BY <1>c, <2>3, <2>4, <2>5, NoElement DEF ContextOrdered, Held, AllBefore, r
  <1>4. QED
    BY <1>1, <1>2, <1>3

\* A packet that comes after everything the decoder holds keeps it in order,
\* whether the decoder takes it, decodes it or refuses it.
LEMMA SendOrder ==
  ASSUME NEW c \in CodecContext, ContextOrdered(c), NEW pkt \in Seq(Decodable), InOrder(pkt),
         AllBefore(Held(c), Elements(pkt))
  PROVE  LET d == Codec!SendPacket(c, pkt).codec IN
         ContextOrdered(d) /\ Held(d) \subseteq Held(c) \cup Elements(pkt)
  <1> DEFINE d == Codec!SendPacket(c, pkt).codec
  <1>c. c.slot \in Seq(Seq(Decodable)) /\ c.rest \in Seq(Decodable) /\ c.out \in Seq(Frames)
    BY ContextFields
  <1>s. /\ <<pkt>> \in Seq(Seq(Decodable)) /\ <<pkt>> # <<>>
        /\ Head(<<pkt>>) = pkt /\ Len(<<pkt>>) = 1
    OBVIOUS
  <1>w. ASSUME c.slot = <<>>, NEW out \in Seq(Frames), out = c.out \/ out = <<>>
        PROVE  LET e == Codec!Context(<<pkt>>, c.rest, out) IN
               /\ e \in CodecContext /\ ContextOrdered(e)
               /\ Held(e) \subseteq Held(c) \cup Elements(pkt)
    <2> DEFINE e == Codec!Context(<<pkt>>, c.rest, out)
    <2>1. e \in CodecContext
      BY <1>c, <1>s, ContextType
    <2>2. e.slot = <<pkt>> /\ e.rest = c.rest /\ e.out = out
      BY ContextParts
    <2> HIDE DEF e
    <2>3. Waiting(e) = Elements(pkt)
      BY <2>2, <1>s DEF Waiting
    <2>4. Elements(out) \subseteq Elements(c.out) /\ Len(out) <= 1
      BY <1>w, NoElement DEF ContextOrdered
    <2>5. /\ AllBefore(Elements(c.rest), Elements(pkt)) /\ AllBefore(Elements(c.out), Elements(pkt))
          /\ AllBefore(Elements(c.out), Elements(c.rest)) /\ InOrder(c.rest)
      BY DEF ContextOrdered, Held, AllBefore
    <2>6. /\ AllBefore(Elements(out), Elements(c.rest))
          /\ AllBefore(Elements(out) \cup Elements(c.rest), Elements(pkt))
      BY <2>4, <2>5 DEF AllBefore
    <2>7. ContextOrdered(e)
      BY <2>2, <2>3, <2>4, <2>5, <2>6, <1>s DEF ContextOrdered
    <2>8. Held(e) \subseteq Held(c) \cup Elements(pkt)
      BY <2>2, <2>3, <2>4 DEF Held
    <2>9. QED
      BY <2>1, <2>7, <2>8 DEF e
  <1>1. CASE c.slot # <<>>
    <2>1. d = c
      BY <1>1 DEF Codec!SendPacket, Codec!Return
    <2>2. QED
      BY <2>1
  <1>2. CASE c.slot = <<>> /\ c.out # <<>>
    <2>1. d = Codec!Context(<<pkt>>, c.rest, c.out)
      BY <1>2 DEF Codec!SendPacket, Codec!Return
    <2>2. QED
      BY <2>1, <1>2, <1>c, <1>w
  <1>3. CASE c.slot = <<>> /\ c.out = <<>>
    <2> DEFINE e == Codec!Context(<<pkt>>, c.rest, <<>>)
               r == Codec!DecodeNext(<<pkt>>, c.rest, <<>>)
    <2>1. d = After(r)
      BY <1>3 DEF Codec!SendPacket, Codec!Return, After
    <2>2. /\ e \in CodecContext /\ ContextOrdered(e)
          /\ Held(e) \subseteq Held(c) \cup Elements(pkt)
      BY <1>3, <1>c, <1>w
    <2>3. e.slot = <<pkt>> /\ e.rest = c.rest /\ e.out = <<>>
      BY ContextParts
    <2>4. ContextOrdered(After(r)) /\ Held(After(r)) \subseteq Held(e)
      BY <2>2, <2>3, DecodeNextOrder
    <2>5. QED
      BY <2>1, <2>2, <2>4
  <1>4. QED
    BY <1>1, <1>2, <1>3

\* The frame received comes before everything the decoder still holds.
LEMMA ReceiveOrder ==
  ASSUME NEW c \in CodecContext, ContextOrdered(c)
  PROVE  LET r == Codec!ReceiveFrame(c) IN
         /\ ContextOrdered(r.codec)
         /\ Elements(r.frame) \cup Held(r.codec) \subseteq Held(c)
         /\ AllBefore(Elements(r.frame), Held(r.codec))
  <1> DEFINE r == Codec!ReceiveFrame(c)
  <1>c. c.slot \in Seq(Seq(Decodable)) /\ c.rest \in Seq(Decodable) /\ c.out \in Seq(Frames)
    BY ContextFields
  <1>1. CASE c.out # <<>>
    <2>1. r.codec = Codec!Context(c.slot, c.rest, <<>>) /\ r.frame = c.out
      BY <1>1 DEF Codec!ReceiveFrame, Codec!Return
    <2>2. r.codec.slot = c.slot /\ r.codec.rest = c.rest /\ r.codec.out = <<>>
      BY <2>1, ContextParts
    <2> HIDE DEF r
    <2>3. Waiting(r.codec) = Waiting(c)
      BY <2>2 DEF Waiting
    <2>4. QED
      BY <2>1, <2>2, <2>3, NoElement DEF ContextOrdered, Held, AllBefore, r
  <1>2. CASE c.out = <<>>
    <2>1. r = Codec!DecodeNext(c.slot, c.rest, <<>>)
      BY <1>2 DEF Codec!ReceiveFrame
    <2>2. r.codec.out = <<>> /\ ContextOrdered(After(r)) /\ Held(After(r)) \subseteq Held(c)
      BY <1>2, <2>1, DecodeNextOrder
    <2> HIDE DEF r
    <2>3. /\ After(r).slot = r.codec.slot /\ After(r).rest = r.codec.rest
          /\ After(r).out = r.frame
      BY ContextParts DEF After
    <2>4. Waiting(After(r)) = Waiting(r.codec)
      BY <2>3 DEF Waiting
    <2>5. QED
      BY <2>2, <2>3, <2>4, NoElement DEF ContextOrdered, Held, AllBefore, r
  <1>3. QED
    BY <1>1, <1>2

-----------------------------------------------------------------------------
(* What the steps do to the packets *)

\* Steps that move no packet and no frame.
Quiet == \/ Begin \/ OpenCodec \/ OpenSL \/ PrimeSL \/ Start
         \/ ReaderSize \/ ReaderCheck \/ ReaderStop
         \/ CheckWorking \/ CheckDrained \/ CheckSize \/ EnqueueNothing
         \/ UNCHANGED vars

\* Where the callback is while it has neither a packet nor a frame to enqueue.
Looking == {"idle", "working?", "drained?", "size?", "pull", "nothing"}

LEMMA QuietEffect ==
  ASSUME IInv, EndInv, Quiet
  PROVE  /\ UNCHANGED <<file, pos, queue, packet, codec, frame, buffer, played, live>>
         /\ reader' = "push" <=> reader = "push"
         /\ callback' = callback \/ (callback \in Looking /\ callback' \in Looking)
         /\ slQueued' = slQueued \/ buffer = NoFrame
         /\ sl' # "refused" => sl # "refused"
         /\ EndInv'
  <1> USE DEF IInv, TypeOK, EndInv, Looking, vars, mainVars, readerVars, queueVars, decodeVars,
              slVars
  <1>1. CASE Begin \/ OpenCodec
    BY <1>1 DEF Begin, OpenCodec
  <1>2. CASE OpenSL
    BY <1>2 DEF OpenSL
  <1>3. CASE PrimeSL
    BY <1>3 DEF PrimeSL, BufferInv
  <1>4. CASE Start
    BY <1>4 DEF Start, ReaderInv
  <1>5. CASE ReaderSize
    BY <1>5 DEF ReaderSize
  <1>6. CASE ReaderCheck
    BY <1>6 DEF ReaderCheck
  <1>7. CASE ReaderStop
    BY <1>7 DEF ReaderStop
  <1>8. CASE CheckWorking
    BY <1>8 DEF CheckWorking, BufferInv
  <1>9. CASE CheckDrained
    BY <1>9 DEF CheckDrained, BufferInv
  <1>10. CASE CheckSize
    BY <1>10 DEF CheckSize, BufferInv
  <1>11. CASE EnqueueNothing
    BY <1>11 DEF EnqueueNothing, BufferInv
  <1>12. CASE UNCHANGED vars
    BY <1>12
  <1>13. QED
    BY <1>1, <1>2, <1>3, <1>4, <1>5, <1>6, <1>7, <1>8, <1>9, <1>10, <1>11, <1>12 DEF Quiet

LEMMA PushEffect ==
  ASSUME IInv, PacketOrderInv, ReaderPush
  PROVE  pos \in AudioPackets /\ Queued' = Queued \cup {pos} /\ Ascending'
  <1>1. queue' = Append(queue, pos) /\ reader = "push" /\ queue \in Seq(1 .. MaxPackets)
    BY DEF ReaderPush, Audio!Put, IInv, TypeOK
  <1>2. pos \in AudioPackets /\ \A q \in Queued : q < pos
    BY <1>1 DEF PacketOrderInv, IInv, StreamInv
  <1>3. \A i \in 1 .. Len(queue) : queue[i] < pos
    BY <1>2 DEF Queued
  <1>4. /\ Len(queue') = Len(queue) + 1 /\ queue'[Len(queue) + 1] = pos
        /\ \A i \in 1 .. Len(queue) : queue'[i] = queue[i]
        /\ 1 .. Len(queue') = (1 .. Len(queue)) \cup {Len(queue) + 1}
        /\ Len(queue) \in Nat
    BY <1>1
  <1>5. Queued' = Queued \cup {pos}
    BY <1>4 DEF Queued
  <1>6. Ascending'
    BY <1>3, <1>4 DEF Ascending, PacketOrderInv
  <1>7. QED
    BY <1>2, <1>5, <1>6

LEMMA PullEffect ==
  ASSUME IInv, PacketOrderInv, Pull
  PROVE  /\ packet' \in AudioPackets /\ packet' \in Queued
         /\ Queued' = Queued \ {packet'}
         /\ Ascending' /\ \A q \in Queued' : packet' < q
  <1>1. /\ queue # <<>> /\ packet' = Head(queue) /\ queue' = Tail(queue)
        /\ queue \in Seq(1 .. MaxPackets)
    BY DEF Pull, Audio!Take, IInv, TypeOK
  <1>2. /\ Len(queue) \in Nat /\ Len(queue) > 0 /\ packet' = queue[1]
        /\ Len(queue') = Len(queue) - 1
        /\ \A i \in 1 .. Len(queue) - 1 : queue'[i] = queue[i + 1]
        /\ \A i \in 1 .. Len(queue) : queue[i] \in Nat
    <2>1. \A i \in 1 .. Len(queue) : queue[i] \in 1 .. MaxPackets
      BY <1>1, ElementOf
    <2>2. 1 .. MaxPackets \subseteq Nat
      BY BoundsAssumption
    <2>3. QED
      BY <1>1, <2>1, <2>2
  <1>3. packet' \in AudioPackets /\ packet' \in Queued
    BY <1>2 DEF Queued, IInv, StreamInv
  <1>4. Distinct(queue)
    BY <1>2 DEF Distinct, Ascending, PacketOrderInv
  <1>5. Queued' = Queued \ {packet'}
    BY <1>1, <1>4, PopList DEF Queued, Elements
  <1>6. Ascending'
    BY <1>2 DEF Ascending, PacketOrderInv
  <1>7. ASSUME NEW q \in Queued' PROVE packet' < q
    <2>1. PICK i \in 1 .. Len(queue) : q = queue[i]
      BY <1>5, <1>7 DEF Queued
    <2>2. i # 1
      BY <2>1, <1>2, <1>5, <1>7
    <2>3. QED
      BY <2>1, <2>2, <1>2 DEF Ascending, PacketOrderInv
  <1>8. QED
    BY <1>3, <1>5, <1>6, <1>7

\* On every way out of the loop's body, the packet is freed.
Kept == packet' = packet /\ live' = live /\ callback' \in {"receive", "convert"}
Freed == packet' = 0 /\ live' = live \ {packet} /\ callback' \in {"working?", "enqueue"}

LEMMA DecodeEffect ==
  ASSUME IInv, Send \/ Receive \/ Convert
  PROVE  /\ UNCHANGED <<file, pos, reader, queue, setup, sl, slQueued, played>>
         /\ callback \in {"send", "receive", "convert"}
         /\ Kept \/ Freed
         /\ slQueued = 0
  <1> USE DEF IInv, BufferInv, Kept, Freed, FreePacket, mainVars, readerVars, queueVars, slVars
  <1>1. CASE Send
    BY <1>1 DEF Send
  <1>2. CASE Receive
    BY <1>2 DEF Receive
  <1>3. CASE Convert
    BY <1>3 DEF Convert
  <1>4. QED
    BY <1>1, <1>2, <1>3

LEMMA StepCases ==
  ASSUME [Next]_vars
  PROVE  \/ Quiet \/ ReaderRead \/ ReaderPush \/ Pull
         \/ (Send \/ Receive \/ Convert) \/ EnqueueBuffer \/ SLPlayed
  BY DEF Next, Prepare, Reader, Callback, CheckEnd, Quiet

LEMMA ReadEffect ==
  ASSUME IInv, ReaderRead
  PROVE  /\ UNCHANGED <<mainVars, queueVars, callback, decodeVars, slVars>>
         /\ reader # "push" /\ pos \in Nat /\ pos' = pos + 1 /\ live' = live \cup {pos'}
         /\ pos' \in AudioPackets <=> reader' = "push"
  <1>1. /\ UNCHANGED <<mainVars, queueVars, callback, decodeVars, slVars>>
        /\ reader # "push" /\ pos' = pos + 1 /\ live' = live \cup {pos'} /\ pos < Len(file)
        /\ reader' = IF file[pos'] = "video" THEN "size" ELSE "push"
    BY DEF ReaderRead
  <1>2. pos \in Nat /\ pos' \in 1 .. Len(file)
    BY <1>1 DEF IInv, TypeOK
  <1>3. pos' \in AudioPackets <=> reader' = "push"
    BY <1>1, <1>2 DEF AudioPackets
  <1>4. QED
    BY <1>1, <1>2, <1>3

LEMMA EndStep ==
  ASSUME IInv, EndInv, [Next]_vars
  PROVE  EndInv'
  <1> USE DEF IInv, BufferInv, EndInv, mainVars, readerVars, queueVars, decodeVars, slVars
  <1>1. CASE Quiet
    BY <1>1, QuietEffect
  <1>2. CASE ReaderRead
    BY <1>2 DEF ReaderRead
  <1>3. CASE ReaderPush
    BY <1>3 DEF ReaderPush
  <1>4. CASE Pull
    BY <1>4 DEF Pull
  <1>5. CASE Send \/ Receive \/ Convert
    <2>1. /\ UNCHANGED <<setup, sl, slQueued>>
          /\ callback \in {"send", "receive", "convert"}
      BY <1>5, DecodeEffect
    <2>2. sl \notin {"refused", "ended"} /\ setup \in {"start", "done"}
      BY <2>1
    <2>3. QED
      BY <2>1, <2>2
  <1>6. CASE EnqueueBuffer
    BY <1>6 DEF EnqueueBuffer
  <1>7. CASE SLPlayed
    BY <1>7 DEF SLPlayed
  <1>8. QED
    BY <1>1, <1>2, <1>3, <1>4, <1>5, <1>6, <1>7, StepCases

LEMMA HandStep ==
  ASSUME IInv, EndInv, HandInv, PacketOrderInv, [Next]_vars
  PROVE  HandInv'
  <1> USE DEF HandInv, AudioPackets, mainVars, readerVars, queueVars, decodeVars, slVars
  <1>1. CASE Quiet
    BY <1>1, QuietEffect DEF Looking
  <1>2. CASE ReaderRead
    BY <1>2 DEF ReaderRead
  <1>3. CASE ReaderPush
    BY <1>3 DEF ReaderPush
  <1>4. CASE Pull
    <2>1. packet' \in AudioPackets
      BY <1>4, PullEffect
    <2>2. packet' \in AudioPackets' /\ packet' # 0 /\ callback' = "send"
      BY <1>4, <2>1 DEF Pull
    <2>3. QED
      BY <2>2
  <1>5. CASE Send \/ Receive \/ Convert
    <2>1. UNCHANGED file /\ callback \in {"send", "receive", "convert"} /\ (Kept \/ Freed)
      BY <1>5, DecodeEffect
    <2>2. QED
      BY <2>1 DEF Kept, Freed
  <1>6. CASE EnqueueBuffer
    BY <1>6 DEF EnqueueBuffer
  <1>7. CASE SLPlayed
    BY <1>7 DEF SLPlayed
  <1>8. QED
    BY <1>1, <1>2, <1>3, <1>4, <1>5, <1>6, <1>7, StepCases

LEMMA PacketOrderStep ==
  ASSUME IInv, EndInv, HandInv, PacketOrderInv, [Next]_vars
  PROVE  PacketOrderInv'
  <1> USE DEF PacketOrderInv, Ascending, Queued
  <1>t. /\ pos \in Nat /\ packet \in Nat
        /\ \A q \in Queued : q \in Nat
    <2>1. pos \in Nat /\ packet \in Nat
      BY BoundsAssumption DEF IInv, TypeOK
    <2>2. \A q \in Queued : q \in Nat
      BY DEF IInv, StreamInv, AudioPackets
    <2>3. QED
      BY <2>1, <2>2
  <1>1. CASE Quiet
    <2>1. UNCHANGED <<pos, queue, packet>> /\ (reader' = "push" <=> reader = "push")
      BY <1>1, QuietEffect
    <2>2. QED
      BY <2>1
  <1>2. CASE ReaderRead
    <2>1. UNCHANGED <<queue, packet>> /\ pos' = pos + 1
      BY <1>2, ReadEffect DEF queueVars, decodeVars
    <2>2. Queued' = Queued /\ Ascending'
      BY <2>1
    <2> HIDE DEF Ascending, Queued
    <2>3. QED
      BY <2>1, <2>2, <1>t
  <1>3. CASE ReaderPush
    <2>1. Queued' = Queued \cup {pos} /\ Ascending'
      BY <1>3, PushEffect
    <2>2. reader = "push" /\ reader' = "size" /\ UNCHANGED <<pos, packet>>
      BY <1>3 DEF ReaderPush, decodeVars
    <2> HIDE DEF Ascending, Queued
    <2>3. QED
      BY <2>1, <2>2, <1>t
  <1>4. CASE Pull
    <2>1. /\ packet' \in Queued /\ Queued' = Queued \ {packet'}
          /\ Ascending' /\ \A q \in Queued' : packet' < q
      BY <1>4, PullEffect
    <2>2. UNCHANGED <<pos, reader>>
      BY <1>4 DEF Pull, readerVars
    <2> HIDE DEF Ascending, Queued
    <2>3. QED
      BY <2>1, <2>2, <1>t
  <1>5. CASE Send \/ Receive \/ Convert
    <2>1. UNCHANGED <<pos, reader, queue>> /\ packet' \in {packet, 0}
      BY <1>5, DecodeEffect DEF Kept, Freed
    <2>2. Queued' = Queued /\ Ascending'
      BY <2>1
    <2>3. \A q \in Queued : 0 < q
      BY DEF IInv, StreamInv, AudioPackets
    <2> HIDE DEF Ascending, Queued
    <2>4. reader = "push" => 0 < pos
      BY <1>t
    <2>5. QED
      BY <2>1, <2>2, <2>3, <2>4, <1>t
  <1>6. CASE EnqueueBuffer
    BY <1>6 DEF EnqueueBuffer, readerVars, queueVars, decodeVars
  <1>7. CASE SLPlayed
    BY <1>7 DEF SLPlayed, readerVars, queueVars, decodeVars
  <1>8. QED
    BY <1>1, <1>2, <1>3, <1>4, <1>5, <1>6, <1>7, StepCases

LEMMA MemoryStep ==
  ASSUME IInv, EndInv, HandInv, PacketOrderInv, MemoryInv, [Next]_vars
  PROVE  MemoryInv'
  <1>t. pos \in Nat /\ packet \in Nat /\ 0 \notin AudioPackets
    BY BoundsAssumption DEF IInv, TypeOK, AudioPackets
  <1>1. CASE Quiet
    <2>1. UNCHANGED <<file, pos, queue, packet, live>> /\ (reader' = "push" <=> reader = "push")
      BY <1>1, QuietEffect
    <2>2. QED
      BY <2>1 DEF MemoryInv, Queued, AudioPackets
  <1>2. CASE ReaderRead
    <2>1. /\ UNCHANGED <<file, queue, packet>>
          /\ reader # "push" /\ pos' = pos + 1 /\ live' = live \cup {pos'}
          /\ pos' \in AudioPackets <=> reader' = "push"
      BY <1>2, ReadEffect DEF mainVars, queueVars, decodeVars
    <2>2. Queued' = Queued /\ AudioPackets' = AudioPackets
      BY <2>1 DEF Queued, AudioPackets
    <2>3. live' \subseteq 1 .. pos' /\ 1 .. pos' = (1 .. pos) \cup {pos'}
      BY <2>1, <1>t DEF MemoryInv
    <2>4. (1 .. pos') \ AudioPackets \subseteq live'
      BY <2>1, <2>3 DEF MemoryInv
    <2>5. QED
      BY <2>1, <2>2, <2>3, <2>4 DEF MemoryInv
  <1>3. CASE ReaderPush
    <2>1. Queued' = Queued \cup {pos}
      BY <1>3, PushEffect
    <2>2. reader = "push" /\ reader' = "size" /\ UNCHANGED <<file, pos, packet, live>>
      BY <1>3 DEF ReaderPush, mainVars, decodeVars
    <2>3. QED
      BY <2>1, <2>2 DEF MemoryInv, AudioPackets
  <1>4. CASE Pull
    <2>1. packet' \in Queued /\ Queued' = Queued \ {packet'}
      BY <1>4, PullEffect
    <2>2. packet = 0 /\ UNCHANGED <<file, pos, reader, live>>
      BY <1>4 DEF Pull, HandInv, mainVars, readerVars
    <2>3. QED
      BY <2>1, <2>2, <1>t DEF MemoryInv, AudioPackets
  <1>5. CASE Send \/ Receive \/ Convert
    <2>1. /\ UNCHANGED <<file, pos, reader, queue>> /\ (Kept \/ Freed)
          /\ callback \in {"send", "receive", "convert"}
      BY <1>5, DecodeEffect
    <2>2. Queued' = Queued /\ AudioPackets' = AudioPackets
      BY <2>1 DEF Queued, AudioPackets
    <2>3. packet \notin Queued /\ ~(reader = "push" /\ packet = pos)
      BY <1>t DEF PacketOrderInv
    <2>4. CASE Kept
      BY <2>1, <2>2, <2>4 DEF MemoryInv, Kept
    <2>5. CASE Freed
      <3>1. packet \in AudioPackets
        BY <2>1 DEF HandInv
      <3>2. (1 .. pos) \ AudioPackets \subseteq live'
        BY <2>5, <3>1 DEF MemoryInv, Freed
      <3>3. QED
        BY <2>1, <2>2, <2>3, <2>5, <3>2, <1>t DEF MemoryInv, Freed
    <2>6. QED
      BY <2>1, <2>4, <2>5
  <1>6. CASE EnqueueBuffer
    BY <1>6 DEF EnqueueBuffer, mainVars, readerVars, queueVars, decodeVars, MemoryInv, Queued,
                AudioPackets
  <1>7. CASE SLPlayed
    BY <1>7 DEF SLPlayed, mainVars, readerVars, queueVars, decodeVars, MemoryInv, Queued,
                AudioPackets
  <1>8. QED
    BY <1>1, <1>2, <1>3, <1>4, <1>5, <1>6, <1>7, StepCases

-----------------------------------------------------------------------------
(* What the steps do to the frames *)

LEMMA OnTheWayType ==
  ASSUME IInv
  PROVE  \A f \in OnTheWay : f[1] \in Nat /\ f \in Decodable
  <1>1. Frames \subseteq Decodable /\ \A f \in Decodable : f[1] \in Nat
    BY BoundsAssumption DEF Frames, Decodable
  <1>2. Elements(played) \subseteq Frames
    <2>1. played \in Seq(Frames)
      BY DEF IInv, TypeOK
    <2>2. QED
      BY <2>1, ElementOf DEF Elements
  <1>3. Converted \subseteq Frames /\ Received \subseteq Frames
    BY DEF Converted, Received, IInv, TypeOK, StreamInv
  <1>4. /\ codec.slot \in Seq(Seq(Decodable)) /\ codec.rest \in Seq(Decodable)
        /\ codec.out \in Seq(Frames)
    BY ContextFields DEF IInv, TypeOK
  <1>5. Elements(codec.rest) \subseteq Decodable /\ Elements(codec.out) \subseteq Frames
    BY <1>4, ElementOf DEF Elements
  <1>6. Waiting(codec) \subseteq Decodable
    <2>1. CASE codec.slot = <<>>
      BY <2>1 DEF Waiting
    <2>2. CASE codec.slot # <<>>
      <3>1. Head(codec.slot) \in Seq(Decodable)
        BY <2>2, <1>4
      <3>2. QED
        BY <2>2, <3>1, ElementOf DEF Waiting, Elements
    <2>3. QED
      BY <2>1, <2>2
  <1>7. QED
    BY <1>1, <1>2, <1>3, <1>5, <1>6 DEF OnTheWay, Held

LEMMA QuietFrames ==
  ASSUME IInv, EndInv, Quiet
  PROVE  UNCHANGED <<Converted, Received, OnTheWay>>
  <1>1. /\ UNCHANGED <<codec, frame, buffer, played>>
        /\ callback' = callback \/ (callback \in Looking /\ callback' \in Looking)
        /\ slQueued' = slQueued \/ buffer = NoFrame
    BY QuietEffect
  <1>2. Converted' = Converted /\ Received' = Received
    BY <1>1 DEF Converted, Received, Looking
  <1>3. QED
    BY <1>1, <1>2 DEF OnTheWay

LEMMA FramesInOrder ==
  ASSUME TypeOK, NEW p \in AudioPackets
  PROVE  InOrder(FramesIn(p)) /\ \A f \in Elements(FramesIn(p)) : f[1] = p
  <1>1. p \in Nat /\ file[p] \in AllKinds /\ file[p] # "video"
    BY KindsAssumption, BoundsAssumption DEF TypeOK, AudioPackets
  <1>2. ASSUME NEW k \in 0 .. 1, FramesIn(p) = <<<<p, k>>>>
        PROVE  InOrder(FramesIn(p)) /\ \A f \in Elements(FramesIn(p)) : f[1] = p
    BY <1>2 DEF InOrder, Elements
  <1>3. CASE file[p] \in {"frame", "unconvertible"}
    BY <1>3, <1>2 DEF FramesIn
  <1>4. CASE file[p] = "corrupt"
    BY <1>4, <1>2 DEF FramesIn
  <1>5. CASE file[p] = "double"
    <2>1. FramesIn(p) = <<<<p, 1>>, <<p, 2>>>>
      BY <1>5 DEF FramesIn
    <2>2. QED
      BY <1>1, <2>1 DEF InOrder, Elements, Before
  <1>6. CASE file[p] = "silent"
    <2>1. FramesIn(p) = <<>>
      BY <1>6 DEF FramesIn
    <2>2. QED
      BY <2>1, NoElement
  <1>7. QED
    BY <1>1, <1>3, <1>4, <1>5, <1>6 DEF AllKinds

\* A packet sent to the decoder comes after every frame that is on its way.
LEMMA SendEffect ==
  ASSUME IInv, HandInv, FrameOrderInv, AheadInv, Send
  PROVE  /\ Converted = {} /\ Received = {} /\ UNCHANGED <<Converted, Received, played>>
         /\ ContextOrdered(codec') /\ AllBefore(Elements(played), Held(codec'))
         /\ \A f \in Held(codec') :
              f \in Held(codec) \/ (f[1] = packet /\ f \in Elements(FramesIn(packet)))
         /\ callback' # "send"
  <1> DEFINE pkt == FramesIn(packet)
  <1>1. /\ callback = "send" /\ callback' \in {"receive", "working?"} /\ UNCHANGED slVars
        /\ codec' = Codec!SendPacket(codec, pkt).codec
    BY DEF Send
  <1>2. slQueued = 0
    BY <1>1 DEF IInv, BufferInv
  <1>3. /\ Converted = {} /\ Received = {} /\ Converted' = {} /\ Received' = {}
    BY <1>1, <1>2 DEF Converted, Received, slVars
  <1>4. packet \in AudioPackets /\ TypeOK /\ codec \in CodecContext
    BY <1>1 DEF HandInv, IInv, TypeOK
  <1>5. pkt \in Seq(Decodable) /\ InOrder(pkt) /\ \A f \in Elements(pkt) : f[1] = packet
    BY <1>4, FramesInType, FramesInOrder
  <1> HIDE DEF pkt
  <1>6. AllBefore(OnTheWay, Elements(pkt))
    BY <1>1, <1>5 DEF AheadInv, AllBefore, Before
  <1>7. Held(codec) \subseteq OnTheWay /\ Elements(played) \subseteq OnTheWay
    BY DEF OnTheWay
  <1>8. ContextOrdered(codec)
    BY DEF FrameOrderInv
  <1>9. ContextOrdered(codec') /\ Held(codec') \subseteq Held(codec) \cup Elements(pkt)
    <2>1. AllBefore(Held(codec), Elements(pkt))
      BY <1>6, <1>7 DEF AllBefore
    <2>2. QED
      BY <2>1, <1>1, <1>4, <1>5, <1>8, SendOrder
  <1>10. AllBefore(Elements(played), Held(codec'))
    BY <1>6, <1>7, <1>9 DEF FrameOrderInv, AllBefore
  <1>11. QED
    BY <1>1, <1>3, <1>5, <1>9, <1>10 DEF slVars, pkt

LEMMA ReceiveEffect ==
  ASSUME IInv, FrameOrderInv, Receive
  PROVE  /\ Converted = {} /\ Received = {} /\ UNCHANGED <<Converted, played>>
         /\ ContextOrdered(codec')
         /\ Received' \cup Held(codec') \subseteq Held(codec)
         /\ AllBefore(Received', Held(codec'))
         /\ callback' # "send"
  <1> DEFINE r == Codec!ReceiveFrame(codec)
  <1>1. /\ callback = "receive" /\ callback' \in {"convert", "working?"} /\ UNCHANGED slVars
        /\ codec' = r.codec
        /\ callback' = "convert" => r.ret = Codec!OK /\ frame' = Head(r.frame)
    BY DEF Receive
  <1>2. slQueued = 0
    BY <1>1 DEF IInv, BufferInv
  <1>3. Converted = {} /\ Received = {} /\ Converted' = {}
    BY <1>1, <1>2 DEF Converted, Received, slVars
  <1>4. codec \in CodecContext /\ ContextOrdered(codec)
    BY DEF FrameOrderInv, IInv, TypeOK
  <1>5. /\ ContextOrdered(r.codec)
        /\ Elements(r.frame) \cup Held(r.codec) \subseteq Held(codec)
        /\ AllBefore(Elements(r.frame), Held(r.codec))
        /\ IsReturn(r)
    BY <1>4, ReceiveOrder, ReceiveFrameType
  <1> HIDE DEF r
  <1>6. Received' \subseteq Elements(r.frame)
    <2>1. CASE callback' = "convert"
      <3>1. r.frame \in Seq(Frames) /\ r.frame # <<>>
        BY <2>1, <1>1, <1>5 DEF IsReturn
      <3>2. Head(r.frame) \in Elements(r.frame)
        BY <3>1 DEF Elements
      <3>3. QED
        BY <2>1, <3>2, <1>1 DEF Received
    <2>2. CASE callback' # "convert"
      BY <2>2 DEF Received
    <2>3. QED
      BY <2>1, <2>2
  <1>7. QED
    BY <1>1, <1>3, <1>5, <1>6 DEF AllBefore, slVars

LEMMA ConvertEffect ==
  ASSUME IInv, Convert
  PROVE  /\ Converted = {} /\ Received = {frame} /\ Received' = {}
         /\ Converted' \subseteq {frame} /\ UNCHANGED <<played, codec>>
         /\ file[frame[1]] # "unconvertible" => Converted' = {frame}
         /\ file[frame[1]] = "unconvertible" => Converted' = {}
         /\ callback' # "send"
  <1>1. /\ callback = "convert" /\ callback' \in {"enqueue", "working?"}
        /\ UNCHANGED <<slVars, codec, frame>>
        /\ IF file[frame[1]] = "unconvertible"
           THEN callback' = "working?" /\ UNCHANGED buffer
           ELSE callback' = "enqueue" /\ buffer' = frame
    BY DEF Convert
  <1>2. slQueued = 0 /\ slQueued' = 0
    BY <1>1 DEF IInv, BufferInv, slVars
  <1>3. frame # NoFrame
    <2>1. frame \in Frames
      BY <1>1 DEF IInv, StreamInv
    <2>2. QED
      BY <2>1 DEF Frames, NoFrame
  <1>4. Converted = {} /\ Received = {frame} /\ Received' = {}
    BY <1>1, <1>2 DEF Converted, Received
  <1>5. CASE file[frame[1]] = "unconvertible"
    <2>1. Converted' = {}
      BY <1>1, <1>2, <1>5 DEF Converted
    <2>2. QED
      BY <2>1, <1>1, <1>4, <1>5 DEF slVars
  <1>6. CASE file[frame[1]] # "unconvertible"
    <2>1. Converted' = {frame}
      BY <1>1, <1>3, <1>6 DEF Converted
    <2>2. QED
      BY <2>1, <1>1, <1>4, <1>6 DEF slVars
  <1>7. QED
    BY <1>5, <1>6

LEMMA EnqueueEffect ==
  ASSUME IInv, EnqueueBuffer
  PROVE  /\ Received = {} /\ Received' = {} /\ UNCHANGED <<played, codec>>
         /\ Converted' = Converted \/ (Converted' = {} /\ sl' = "refused")
         /\ callback' # "send"
  <1>1. /\ callback = "enqueue" /\ callback' = "idle" /\ UNCHANGED <<played, codec, buffer>>
        /\ slQueued' = slQueued + 1 \/ (sl' = "refused" /\ slQueued' = slQueued)
    BY DEF EnqueueBuffer, decodeVars
  <1>2. slQueued = 0
    BY <1>1 DEF IInv, BufferInv
  <1>3. slQueued' = 1 \/ (sl' = "refused" /\ slQueued' = 0)
    BY <1>1, <1>2
  <1>4. QED
    BY <1>1, <1>3 DEF Converted, Received

LEMMA PlayedEffect ==
  ASSUME IInv, FrameOrderInv, SLPlayed
  PROVE  /\ Received = {} /\ Received' = {} /\ Converted' = {} /\ UNCHANGED codec
         /\ Elements(played') = Elements(played) \cup Converted /\ InOrder(played')
         /\ callback' # "send"
  <1>1. /\ callback = "idle" /\ callback' = "working?" /\ UNCHANGED <<codec, buffer>>
        /\ slQueued > 0 /\ slQueued' = slQueued - 1
        /\ played' = IF buffer = NoFrame THEN played ELSE Append(played, buffer)
    BY DEF SLPlayed, decodeVars
  <1>2. slQueued' = 0
    BY <1>1 DEF IInv, BufferInv, TypeOK
  <1>3. Received = {} /\ Received' = {} /\ Converted' = {}
    BY <1>1, <1>2 DEF Converted, Received
  <1>4. CASE buffer = NoFrame
    <2>1. Converted = {} /\ played' = played
      BY <1>1, <1>4 DEF Converted
    <2>2. QED
      BY <1>1, <1>3, <2>1 DEF FrameOrderInv
  <1>5. CASE buffer # NoFrame
    <2>1. Converted = {buffer} /\ played' = Append(played, buffer)
      BY <1>1, <1>5 DEF Converted
    <2>2. played \in Seq(Frames) /\ buffer \in Frames
      BY <1>5 DEF IInv, TypeOK
    <2>3. /\ Len(played') = Len(played) + 1 /\ played'[Len(played) + 1] = buffer
          /\ \A i \in 1 .. Len(played) : played'[i] = played[i]
          /\ 1 .. Len(played') = (1 .. Len(played)) \cup {Len(played) + 1}
          /\ Len(played) \in Nat
      BY <2>1, <2>2
    <2>4. Elements(played') = Elements(played) \cup Converted
      BY <2>1, <2>3 DEF Elements
    <2>5. \A i \in 1 .. Len(played) : Before(played[i], buffer)
      BY <2>1 DEF FrameOrderInv, AllBefore, Elements
    <2>6. InOrder(played')
      BY <2>3, <2>5 DEF FrameOrderInv, InOrder
    <2>7. QED
      BY <1>1, <1>3, <2>4, <2>6
  <1>6. QED
    BY <1>4, <1>5

LEMMA FrameOrderStep ==
  ASSUME IInv, EndInv, HandInv, FrameOrderInv, AheadInv, [Next]_vars
  PROVE  FrameOrderInv'
  <1> USE DEF FrameOrderInv
  <1>1. CASE Quiet
    <2>1. UNCHANGED <<played, codec, Converted, Received>>
      BY <1>1, QuietEffect, QuietFrames
    <2>2. QED
      BY <2>1
  <1>2. CASE ReaderRead \/ ReaderPush \/ Pull
    <2>1. /\ UNCHANGED <<played, codec, buffer, frame, slQueued>>
          /\ callback' = callback \/ (callback = "pull" /\ callback' = "send")
      BY <1>2 DEF ReaderRead, ReaderPush, Pull, decodeVars, slVars
    <2>2. UNCHANGED <<Converted, Received>>
      BY <2>1 DEF Converted, Received
    <2>3. QED
      BY <2>1, <2>2
  <1>3. CASE Send
    <2>1. /\ Converted' = {} /\ Received' = {} /\ played' = played
          /\ ContextOrdered(codec') /\ AllBefore(Elements(played), Held(codec'))
      BY <1>3, SendEffect
    <2>2. QED
      BY <2>1 DEF AllBefore
  <1>4. CASE Receive
    <2>1. /\ Converted' = {} /\ played' = played /\ ContextOrdered(codec')
          /\ Received' \cup Held(codec') \subseteq Held(codec)
          /\ AllBefore(Received', Held(codec'))
      BY <1>4, ReceiveEffect
    <2>2. QED
      BY <2>1 DEF AllBefore
  <1>5. CASE Convert
    <2>1. /\ Received = {frame} /\ Received' = {} /\ UNCHANGED <<played, codec>>
          /\ Converted' \subseteq {frame}
      BY <1>5, ConvertEffect
    <2>2. QED
      BY <2>1 DEF AllBefore
  <1>6. CASE EnqueueBuffer
    <2>1. /\ Received = {} /\ Received' = {} /\ UNCHANGED <<played, codec>>
          /\ Converted' \subseteq Converted
      BY <1>6, EnqueueEffect
    <2>2. QED
      BY <2>1 DEF AllBefore
  <1>7. CASE SLPlayed
    <2>1. /\ Received' = {} /\ Converted' = {} /\ codec' = codec
          /\ Elements(played') = Elements(played) \cup Converted /\ InOrder(played')
      BY <1>7, PlayedEffect
    <2>2. QED
      BY <2>1 DEF AllBefore
  <1>8. QED
    BY <1>1, <1>2, <1>3, <1>4, <1>5, <1>6, <1>7, StepCases

\* Only Send adds frames.
LEMMA OthersAddNone ==
  ASSUME IInv, EndInv, FrameOrderInv,
         \/ Quiet \/ ReaderRead \/ ReaderPush \/ Pull
         \/ Receive \/ Convert \/ EnqueueBuffer \/ SLPlayed
  PROVE  OnTheWay' \subseteq OnTheWay
  <1>1. CASE Quiet
    BY <1>1, QuietFrames
  <1>2. CASE ReaderRead \/ ReaderPush \/ Pull
    <2>1. /\ UNCHANGED <<played, codec, buffer, frame, slQueued>>
          /\ callback' = callback \/ (callback = "pull" /\ callback' = "send")
      BY <1>2 DEF ReaderRead, ReaderPush, Pull, decodeVars, slVars
    <2>2. UNCHANGED <<Converted, Received>>
      BY <2>1 DEF Converted, Received
    <2>3. QED
      BY <2>1, <2>2 DEF OnTheWay
  <1>3. CASE Receive
    BY <1>3, ReceiveEffect DEF OnTheWay
  <1>4. CASE Convert
    BY <1>4, ConvertEffect DEF OnTheWay
  <1>5. CASE EnqueueBuffer
    BY <1>5, EnqueueEffect DEF OnTheWay
  <1>6. CASE SLPlayed
    BY <1>6, PlayedEffect DEF OnTheWay
  <1>7. QED
    BY <1>1, <1>2, <1>3, <1>4, <1>5, <1>6

LEMMA AheadStep ==
  ASSUME IInv, EndInv, HandInv, PacketOrderInv, FrameOrderInv, AheadInv, [Next]_vars
  PROVE  AheadInv'
  <1>t. pos \in Nat /\ packet \in Nat /\ \A f \in OnTheWay : f[1] \in Nat
    BY OnTheWayType, BoundsAssumption DEF IInv, TypeOK
  <1>1. CASE Quiet
    <2>1. /\ UNCHANGED <<pos, queue, packet>> /\ (reader' = "push" <=> reader = "push")
          /\ callback' = "send" => callback = "send"
      BY <1>1, QuietEffect DEF Looking
    <2>2. OnTheWay' \subseteq OnTheWay
      BY <1>1, OthersAddNone
    <2>3. QED
      BY <2>1, <2>2 DEF AheadInv, Queued
  <1>2. CASE ReaderRead
    <2>1. /\ UNCHANGED <<queue, packet, callback>> /\ pos' = pos + 1
      BY <1>2, ReadEffect DEF queueVars, decodeVars
    <2>2. OnTheWay' \subseteq OnTheWay /\ Queued' = Queued
      BY <1>2, <2>1, OthersAddNone DEF Queued
    <2>3. QED
      BY <2>1, <2>2, <1>t DEF AheadInv
  <1>3. CASE ReaderPush
    <2>1. Queued' = Queued \cup {pos} /\ OnTheWay' \subseteq OnTheWay
      BY <1>3, PushEffect, OthersAddNone
    <2>2. reader = "push" /\ reader' = "size" /\ UNCHANGED <<pos, packet, callback>>
      BY <1>3 DEF ReaderPush, decodeVars
    <2>3. QED
      BY <2>1, <2>2 DEF AheadInv
  <1>4. CASE Pull
    <2>1. packet' \in Queued /\ Queued' = Queued \ {packet'} /\ OnTheWay' \subseteq OnTheWay
      BY <1>4, PullEffect, OthersAddNone
    <2>2. UNCHANGED <<pos, reader>>
      BY <1>4 DEF Pull, readerVars
    <2>3. QED
      BY <2>1, <2>2 DEF AheadInv
  <1>5. CASE Send
    <2>1. UNCHANGED <<pos, reader, queue>> /\ callback' # "send"
      BY <1>5, DecodeEffect, SendEffect
    <2>2. \A f \in OnTheWay' : f \in OnTheWay \/ f[1] = packet
      BY <1>5, SendEffect DEF OnTheWay
    <2>3. packet <= pos /\ (reader = "push" => packet < pos) /\ \A q \in Queued : packet < q
      BY DEF PacketOrderInv
    <2>4. Queued' = Queued
      BY <2>1 DEF Queued
    <2>5. QED
      BY <2>1, <2>2, <2>3, <2>4 DEF AheadInv
  <1>6. CASE Receive \/ Convert
    <2>1. UNCHANGED <<pos, reader, queue>> /\ callback' # "send"
      BY <1>6, DecodeEffect, ReceiveEffect, ConvertEffect
    <2>2. OnTheWay' \subseteq OnTheWay /\ Queued' = Queued
      BY <1>6, <2>1, OthersAddNone DEF Queued
    <2>3. QED
      BY <2>1, <2>2 DEF AheadInv
  <1>7. CASE EnqueueBuffer \/ SLPlayed
    <2>1. UNCHANGED <<pos, reader, queue>>
      BY <1>7 DEF EnqueueBuffer, SLPlayed, readerVars, queueVars
    <2>2. callback' # "send"
      BY <1>7, EnqueueEffect, PlayedEffect
    <2>3. OnTheWay' \subseteq OnTheWay /\ Queued' = Queued
      BY <1>7, <2>1, OthersAddNone DEF Queued
    <2>4. QED
      BY <2>1, <2>2, <2>3 DEF AheadInv
  <1>8. QED
    BY <1>1, <1>2, <1>3, <1>4, <1>5, <1>6, <1>7, StepCases

-----------------------------------------------------------------------------
(* Where the frames come from *)

LEMMA FileStays ==
  ASSUME IInv, EndInv, [Next]_vars
  PROVE  file' = file
  <1>1. CASE Quiet
    BY <1>1, QuietEffect
  <1>2. CASE Send \/ Receive \/ Convert
    BY <1>2, DecodeEffect
  <1>3. CASE ReaderRead \/ ReaderPush \/ Pull \/ EnqueueBuffer \/ SLPlayed
    BY <1>3 DEF ReaderRead, ReaderPush, Pull, EnqueueBuffer, SLPlayed, mainVars
  <1>4. QED
    BY <1>1, <1>2, <1>3, StepCases

LEMMA FilePackets ==
  ASSUME file' = file
  PROVE  /\ AudioPackets' = AudioPackets /\ NoDouble' = NoDouble /\ Playable' = Playable
         /\ \A p \in AudioPackets : FramesIn(p)' = FramesIn(p)
  BY DEF AudioPackets, NoDouble, Playable, FramesIn

\* A frame of an audio packet that can be converted can be played.
LEMMA FrameIsPlayable ==
  ASSUME TypeOK, NEW f \in Frames, f[1] \in AudioPackets, f \in Elements(FramesIn(f[1])),
         file[f[1]] # "unconvertible"
  PROVE  f \in Playable
  <1> DEFINE p == f[1]
  <1>1. PICK k \in 1 .. Len(FramesIn(p)) : f = FramesIn(p)[k]
    BY DEF Elements
  <1>2. file[p] # "corrupt"
    <2> SUFFICES ASSUME file[p] = "corrupt" PROVE FALSE
      OBVIOUS
    <2>1. FramesIn(p) = <<<<p, 0>>>>
      BY DEF FramesIn
    <2>2. f = <<p, 0>>
      BY <1>1, <2>1
    <2>3. f[2] \in 1 .. 2
      BY DEF Frames
    <2>4. QED
      BY <2>2, <2>3
  <1>3. QED
    BY <1>1, <1>2 DEF Playable

LEMMA OriginStep ==
  ASSUME IInv, EndInv, HandInv, FrameOrderInv, AheadInv, OriginInv, [Next]_vars
  PROVE  OriginInv'
  <1>f. /\ file' = file /\ AudioPackets' = AudioPackets /\ Playable' = Playable
        /\ \A p \in AudioPackets : FramesIn(p)' = FramesIn(p)
    BY FileStays, FilePackets
  <1>s. ASSUME \A f \in OnTheWay' : f \in OnTheWay \/
                 (f[1] = packet /\ packet \in AudioPackets /\ f \in Elements(FramesIn(packet))),
               Elements(played') \cup Converted' \subseteq Playable
        PROVE  OriginInv'
    <2>1. \A f \in OnTheWay' : f[1] \in AudioPackets /\ f \in Elements(FramesIn(f[1]))
      BY <1>s DEF OriginInv
    <2>2. \A f : f[1] \in AudioPackets => FramesIn(f[1])' = FramesIn(f[1])
      BY <1>f
    <2>3. \A f \in OnTheWay' : f[1] \in AudioPackets' /\ (f \in Elements(FramesIn(f[1])))'
      BY <2>1, <2>2, <1>f
    <2>4. QED
      BY <2>3, <1>s, <1>f DEF OriginInv
  <1>p. Elements(played) \cup Converted \subseteq Playable
    BY DEF OriginInv
  <1>1. CASE Quiet
    <2>1. UNCHANGED <<played, Converted, OnTheWay>>
      BY <1>1, QuietEffect, QuietFrames
    <2>2. QED
      BY <2>1, <1>p, <1>s
  <1>2. CASE ReaderRead \/ ReaderPush \/ Pull
    <2>1. /\ UNCHANGED <<played, buffer, slQueued>>
          /\ callback' = callback \/ (callback = "pull" /\ callback' = "send")
      BY <1>2 DEF ReaderRead, ReaderPush, Pull, decodeVars, slVars
    <2>2. UNCHANGED <<played, Converted>>
      BY <2>1 DEF Converted
    <2>3. OnTheWay' \subseteq OnTheWay
      BY <1>2, OthersAddNone
    <2>4. QED
      BY <2>2, <2>3, <1>p, <1>s
  <1>3. CASE Send
    <2>1. /\ UNCHANGED <<Converted, played>> /\ Received' = {}
          /\ \A f \in Held(codec') :
               f \in Held(codec) \/ (f[1] = packet /\ f \in Elements(FramesIn(packet)))
      BY <1>3, SendEffect
    <2>2. packet \in AudioPackets
      BY <1>3 DEF Send, HandInv
    <2>3. \A f \in OnTheWay' : f \in OnTheWay \/
            (f[1] = packet /\ packet \in AudioPackets /\ f \in Elements(FramesIn(packet)))
      BY <2>1, <2>2 DEF OnTheWay
    <2>4. QED
      BY <2>1, <2>3, <1>p, <1>s
  <1>4. CASE Receive
    <2>1. UNCHANGED <<Converted, played>> /\ OnTheWay' \subseteq OnTheWay
      BY <1>4, ReceiveEffect, OthersAddNone
    <2>2. QED
      BY <2>1, <1>p, <1>s
  <1>5. CASE Convert
    <2>1. /\ Received = {frame} /\ Converted' \subseteq {frame} /\ played' = played
          /\ file[frame[1]] = "unconvertible" => Converted' = {}
          /\ OnTheWay' \subseteq OnTheWay
      BY <1>5, ConvertEffect, OthersAddNone
    <2>2. frame \in Frames /\ TypeOK
      BY <1>5 DEF Convert, IInv, StreamInv
    <2>3. frame[1] \in AudioPackets /\ frame \in Elements(FramesIn(frame[1]))
      BY <2>1 DEF OriginInv, OnTheWay
    <2>4. Converted' \subseteq Playable
      BY <2>1, <2>2, <2>3, FrameIsPlayable
    <2>5. QED
      BY <2>1, <2>4, <1>p, <1>s
  <1>6. CASE EnqueueBuffer
    <2>1. Converted' \subseteq Converted /\ played' = played /\ OnTheWay' \subseteq OnTheWay
      BY <1>6, EnqueueEffect, OthersAddNone
    <2>2. QED
      BY <2>1, <1>p, <1>s
  <1>7. CASE SLPlayed
    <2>1. /\ Converted' = {} /\ Elements(played') = Elements(played) \cup Converted
          /\ OnTheWay' \subseteq OnTheWay
      BY <1>7, PlayedEffect, OthersAddNone
    <2>2. QED
      BY <2>1, <1>p, <1>s
  <1>8. QED
    BY <1>1, <1>2, <1>3, <1>4, <1>5, <1>6, <1>7, StepCases

-----------------------------------------------------------------------------
(* When no packet holds two frames *)

\* The results of the decoder are not confused.
LEMMA Results == Codec!OK # Codec!EAGAIN /\ Codec!OK # Codec!INVALIDDATA
                 /\ Codec!EAGAIN # Codec!INVALIDDATA
  BY DEF Codec!OK, Codec!EAGAIN, Codec!INVALIDDATA

\* What an empty decoder makes of a packet of at most one frame.
LEMMA SendToEmpty ==
  ASSUME NEW pkt \in Seq(Decodable)
  PROVE  LET r == Codec!SendPacket(Codec!NewContext, pkt) IN
         /\ pkt = <<>> => r.ret = Codec!OK /\ r.codec = Codec!NewContext
         /\ Len(pkt) = 1 /\ ~IsCorrupt(Head(pkt)) =>
              r.ret = Codec!OK /\ r.codec = Codec!Context(<<>>, <<>>, pkt)
         /\ Len(pkt) = 1 /\ IsCorrupt(Head(pkt)) =>
              r.ret # Codec!OK /\ r.codec = Codec!NewContext
  <1> DEFINE new == Codec!NewContext
             n == Codec!DecodeNext(<<pkt>>, <<>>, <<>>)
             r == Codec!SendPacket(new, pkt)
  <1>1. new.slot = <<>> /\ new.rest = <<>> /\ new.out = <<>>
    BY ContextParts DEF Codec!NewContext
  <1>2. /\ r.ret = IF n.ret = Codec!EAGAIN THEN Codec!OK ELSE n.ret
        /\ r.codec = Codec!Context(n.codec.slot, n.codec.rest, n.frame)
    BY <1>1 DEF Codec!SendPacket, Codec!Return
  <1>3. Head(<<pkt>>) = pkt /\ <<pkt>> # <<>>
    OBVIOUS
  <1>4. CASE pkt = <<>>
    <2>1. n = Codec!Return(Codec!EAGAIN, Codec!Context(<<>>, <<>>, <<>>), <<>>)
      BY <1>3, <1>4 DEF Codec!DecodeNext
    <2>2. n.ret = Codec!EAGAIN /\ n.codec.slot = <<>> /\ n.codec.rest = <<>> /\ n.frame = <<>>
      BY <2>1, ContextParts DEF Codec!Return
    <2> HIDE DEF n, r
    <2>3. r.ret = Codec!OK /\ r.codec = Codec!NewContext
      BY <1>2, <2>2 DEF Codec!NewContext
    <2>4. QED
      BY <1>4, <2>3 DEF r
  <1>5. CASE pkt # <<>>
    <2>1. n = Codec!DecodeFrom(<<>>, pkt, <<>>)
      BY <1>3, <1>5 DEF Codec!DecodeNext
    <2>2. CASE Len(pkt) = 1 /\ ~IsCorrupt(Head(pkt))
      <3>1. Tail(pkt) = <<>> /\ <<Head(pkt)>> = pkt
        BY <2>2, OneInList
      <3>2. n = Codec!Return(Codec!OK, Codec!Context(<<>>, <<>>, <<>>), pkt)
        BY <2>1, <2>2, <3>1 DEF Codec!DecodeFrom
      <3>3. n.ret = Codec!OK /\ n.codec.slot = <<>> /\ n.codec.rest = <<>> /\ n.frame = pkt
        BY <3>2, ContextParts DEF Codec!Return
      <3> HIDE DEF n, r
      <3>4. r.ret = Codec!OK /\ r.codec = Codec!Context(<<>>, <<>>, pkt)
        BY <1>2, <3>3, Results
      <3>5. QED
        BY <1>5, <2>2, <3>4 DEF r
    <2>3. CASE Len(pkt) = 1 /\ IsCorrupt(Head(pkt))
      <3>1. n = Codec!Return(Codec!INVALIDDATA, Codec!Context(<<>>, <<>>, <<>>), <<>>)
        BY <2>1, <2>3 DEF Codec!DecodeFrom
      <3>2. /\ n.ret = Codec!INVALIDDATA /\ n.frame = <<>>
            /\ n.codec.slot = <<>> /\ n.codec.rest = <<>>
        BY <3>1, ContextParts DEF Codec!Return
      <3> HIDE DEF n, r
      <3>3. r.ret # Codec!OK /\ r.codec = Codec!NewContext
        BY <1>2, <3>2, Results DEF Codec!NewContext
      <3>4. QED
        BY <1>5, <2>3, <3>3 DEF r
    <2>4. CASE Len(pkt) # 1
      BY <1>5, <2>4
    <2>5. QED
      BY <2>2, <2>3, <2>4
  <1>6. QED
    BY <1>4, <1>5

LEMMA ReceiveFromOne ==
  ASSUME NEW out
  PROVE  LET r == Codec!ReceiveFrame(Codec!Context(<<>>, <<>>, out)) IN
         /\ r.codec = Codec!NewContext
         /\ out # <<>> => r.ret = Codec!OK /\ r.frame = out
         /\ out = <<>> => r.ret # Codec!OK
  <1> DEFINE c == Codec!Context(<<>>, <<>>, out)
             r == Codec!ReceiveFrame(c)
  <1>1. c.slot = <<>> /\ c.rest = <<>> /\ c.out = out
    BY ContextParts
  <1>2. CASE out # <<>>
    BY <1>1, <1>2 DEF Codec!ReceiveFrame, Codec!Return, Codec!NewContext
  <1>3. CASE out = <<>>
    <2>1. r = Codec!DecodeNext(<<>>, <<>>, <<>>)
      BY <1>1, <1>3 DEF Codec!ReceiveFrame
    <2>2. r = Codec!Return(Codec!EAGAIN, Codec!NewContext, <<>>)
      BY <2>1 DEF Codec!DecodeNext, Codec!NewContext
    <2>3. QED
      BY <1>3, <2>2, Results DEF Codec!Return
  <1>4. QED
    BY <1>2, <1>3

LEMMA SingleFrames ==
  ASSUME TypeOK, NoDouble, NEW p \in AudioPackets
  PROVE  \/ file[p] \in {"frame", "unconvertible"} /\ FramesIn(p) = <<<<p, 1>>>>
         \/ file[p] = "corrupt" /\ FramesIn(p) = <<<<p, 0>>>>
         \/ file[p] = "silent" /\ FramesIn(p) = <<>>
  <1>1. file[p] \in AllKinds /\ file[p] # "video" /\ file[p] # "double"
    BY KindsAssumption DEF TypeOK, AudioPackets, NoDouble
  <1>2. QED
    BY <1>1 DEF FramesIn, AllKinds

\* With at most one frame in a packet, the packet sent to the empty decoder is
\* refused exactly when it is corrupt, and comes back at once as its frame.
LEMMA SendSingle ==
  ASSUME IInv, HandInv, EmptyInv, NoDouble, Send
  PROVE  /\ packet \in AudioPackets
         /\ \/ file[packet] = "corrupt" /\ Freed /\ callback' = "working?"
               /\ codec' = Codec!NewContext
            \/ file[packet] \in {"frame", "unconvertible", "silent"} /\ Kept
               /\ callback' = "receive"
               /\ codec' = Codec!Context(<<>>, <<>>, FramesIn(packet))
  <1> DEFINE pkt == FramesIn(packet)
             r == Codec!SendPacket(Codec!NewContext, pkt)
  <1>1. callback = "send" /\ codec = Codec!NewContext
    BY DEF Send, EmptyInv
  <1>2. /\ codec' = r.codec
        /\ IF r.ret = Codec!OK THEN callback' = "receive" /\ UNCHANGED <<packet, live>>
                               ELSE callback' = "working?" /\ FreePacket
    BY <1>1 DEF Send
  <1>3. packet \in AudioPackets /\ TypeOK
    BY <1>1 DEF HandInv, IInv
  <1>4. pkt \in Seq(Decodable)
    BY <1>3, FramesInType
  <1>5. \/ file[packet] \in {"frame", "unconvertible"} /\ pkt = <<<<packet, 1>>>>
        \/ file[packet] = "corrupt" /\ pkt = <<<<packet, 0>>>>
        \/ file[packet] = "silent" /\ pkt = <<>>
    BY <1>3, SingleFrames
  <1>6. /\ pkt = <<>> => r.ret = Codec!OK /\ r.codec = Codec!NewContext
        /\ Len(pkt) = 1 /\ ~IsCorrupt(Head(pkt)) =>
             r.ret = Codec!OK /\ r.codec = Codec!Context(<<>>, <<>>, pkt)
        /\ Len(pkt) = 1 /\ IsCorrupt(Head(pkt)) =>
             r.ret # Codec!OK /\ r.codec = Codec!NewContext
    BY <1>4, SendToEmpty
  <1> HIDE DEF pkt, r
  <1>7. CASE file[packet] = "corrupt" /\ pkt = <<<<packet, 0>>>>
    <2>1. Len(pkt) = 1 /\ IsCorrupt(Head(pkt))
      BY <1>7 DEF IsCorrupt
    <2>2. r.ret # Codec!OK /\ r.codec = Codec!NewContext
      BY <2>1, <1>6
    <2>3. Freed /\ callback' = "working?" /\ codec' = Codec!NewContext
      BY <2>2, <1>2 DEF Freed, FreePacket
    <2>4. QED
      BY <1>3, <1>7, <2>3
  <1>8. CASE file[packet] = "silent" /\ pkt = <<>>
    <2>1. codec' = Codec!Context(<<>>, <<>>, pkt)
      BY <1>2, <1>6, <1>8 DEF Codec!NewContext
    <2>2. Kept /\ callback' = "receive"
      BY <1>2, <1>6, <1>8 DEF Kept
    <2>3. QED
      BY <1>3, <1>8, <2>1, <2>2 DEF pkt
  <1>9. CASE file[packet] \in {"frame", "unconvertible"} /\ pkt = <<<<packet, 1>>>>
    <2>1. Len(pkt) = 1 /\ ~IsCorrupt(Head(pkt))
      BY <1>9 DEF IsCorrupt
    <2>2. r.ret = Codec!OK /\ codec' = Codec!Context(<<>>, <<>>, pkt)
      BY <2>1, <1>2, <1>6
    <2>3. Kept /\ callback' = "receive"
      BY <1>2, <2>2 DEF Kept
    <2>4. QED
      BY <1>3, <1>9, <2>2, <2>3 DEF pkt
  <1>10. QED
    BY <1>5, <1>7, <1>8, <1>9

LEMMA ReceiveSingle ==
  ASSUME IInv, HandInv, EmptyInv, NoDouble, Receive
  PROVE  /\ packet \in AudioPackets /\ codec' = Codec!NewContext
         /\ \/ file[packet] = "silent" /\ Freed /\ callback' = "working?"
            \/ file[packet] \in {"frame", "unconvertible"} /\ Kept
               /\ callback' = "convert" /\ frame' = <<packet, 1>>
  <1> DEFINE out == FramesIn(packet)
             r == Codec!ReceiveFrame(Codec!Context(<<>>, <<>>, out))
  <1>1. /\ callback = "receive" /\ codec = Codec!Context(<<>>, <<>>, out)
        /\ file[packet] \in {"frame", "unconvertible", "silent"}
    BY DEF Receive, EmptyInv
  <1>2. /\ codec' = r.codec
        /\ IF r.ret = Codec!OK
           THEN callback' = "convert" /\ frame' = Head(r.frame) /\ UNCHANGED <<packet, live>>
           ELSE callback' = "working?" /\ FreePacket /\ UNCHANGED frame
    BY <1>1 DEF Receive
  <1>3. packet \in AudioPackets /\ TypeOK
    BY <1>1 DEF HandInv, IInv
  <1>4. /\ r.codec = Codec!NewContext
        /\ out # <<>> => r.ret = Codec!OK /\ r.frame = out
        /\ out = <<>> => r.ret # Codec!OK
    BY ReceiveFromOne
  <1>5. \/ file[packet] \in {"frame", "unconvertible"} /\ out = <<<<packet, 1>>>>
        \/ file[packet] = "silent" /\ out = <<>>
    BY <1>1, <1>3, SingleFrames
  <1> HIDE DEF out, r
  <1>6. CASE file[packet] = "silent" /\ out = <<>>
    BY <1>2, <1>3, <1>4, <1>6 DEF Freed, FreePacket
  <1>7. CASE file[packet] \in {"frame", "unconvertible"} /\ out = <<<<packet, 1>>>>
    <2>1. out # <<>> /\ Head(out) = <<packet, 1>>
      BY <1>7
    <2>2. QED
      BY <2>1, <1>2, <1>3, <1>4, <1>7 DEF Kept
  <1>8. QED
    BY <1>5, <1>6, <1>7

LEMMA EmptyStep ==
  ASSUME IInv, EndInv, HandInv, EmptyInv, [Next]_vars
  PROVE  EmptyInv'
  <1> SUFFICES ASSUME NoDouble' PROVE EmptyInv'
    BY DEF EmptyInv
  <1>f. file' = file /\ NoDouble
    BY FileStays, FilePackets
  <1>1. CASE Quiet
    <2>1. /\ UNCHANGED <<packet, codec, frame>>
          /\ callback' = callback \/ (callback \in Looking /\ callback' \in Looking)
      BY <1>1, QuietEffect
    <2>2. QED
      BY <2>1, <1>f DEF EmptyInv, FramesIn, Looking
  <1>2. CASE ReaderRead \/ ReaderPush \/ EnqueueBuffer \/ SLPlayed \/ Pull
    <2>1. /\ UNCHANGED codec
          /\ \/ UNCHANGED <<packet, frame, callback>>
             \/ callback # "receive" /\ callback' \notin {"receive", "convert"}
      BY <1>2 DEF ReaderRead, ReaderPush, EnqueueBuffer, SLPlayed, Pull, decodeVars
    <2>2. QED
      BY <2>1, <1>f DEF EmptyInv, FramesIn
  <1>3. CASE Send
    <2>1. \/ callback' = "working?" /\ codec' = Codec!NewContext
          \/ /\ callback' = "receive" /\ codec' = Codec!Context(<<>>, <<>>, FramesIn(packet))
             /\ file[packet] \in {"frame", "unconvertible", "silent"} /\ packet' = packet
      BY <1>3, <1>f, SendSingle DEF Kept
    <2>2. QED
      BY <2>1, <1>f DEF EmptyInv, FramesIn
  <1>4. CASE Receive
    <2>1. /\ codec' = Codec!NewContext
          /\ \/ callback' = "working?"
             \/ /\ callback' = "convert" /\ frame' = <<packet, 1>> /\ packet' = packet
                /\ file[packet] \in {"frame", "unconvertible"}
      BY <1>4, <1>f, ReceiveSingle DEF Kept
    <2>2. QED
      BY <2>1, <1>f DEF EmptyInv
  <1>5. CASE Convert
    <2>1. /\ callback = "convert" /\ callback' \in {"working?", "enqueue"} /\ codec' = codec
      BY <1>5 DEF Convert
    <2>2. QED
      BY <2>1, <1>f DEF EmptyInv
  <1>6. QED
    BY <1>1, <1>2, <1>3, <1>4, <1>5, StepCases

LEMMA PlayableFrames ==
  ASSUME TypeOK, NoDouble
  PROVE  /\ \A f \in Playable : f[1] \in AudioPackets /\ file[f[1]] = "frame" /\ f = <<f[1], 1>>
         /\ \A p \in AudioPackets : file[p] = "frame" => <<p, 1>> \in Playable
  <1>1. ASSUME NEW f \in Playable
        PROVE  f[1] \in AudioPackets /\ file[f[1]] = "frame" /\ f = <<f[1], 1>>
    <2>1. PICK p \in AudioPackets : /\ file[p] \notin {"corrupt", "unconvertible"}
                                    /\ \E k \in 1 .. Len(FramesIn(p)) : f = FramesIn(p)[k]
      BY DEF Playable
    <2>2. \/ file[p] = "frame" /\ FramesIn(p) = <<<<p, 1>>>>
          \/ file[p] = "silent" /\ FramesIn(p) = <<>>
      BY <2>1, SingleFrames
    <2>3. file[p] = "frame" /\ f = <<p, 1>>
      BY <2>1, <2>2
    <2>4. QED
      BY <2>1, <2>3
  <1>2. ASSUME NEW p \in AudioPackets, file[p] = "frame" PROVE <<p, 1>> \in Playable
    <2>1. FramesIn(p) = <<<<p, 1>>>>
      BY <1>2, SingleFrames
    <2>2. 1 \in 1 .. Len(FramesIn(p)) /\ FramesIn(p)[1] = <<p, 1>>
      BY <2>1
    <2>3. QED
      BY <1>2, <2>2 DEF Playable
  <1>3. QED
    BY <1>1, <1>2

LEMMA CompleteStep ==
  ASSUME IInv, EndInv, HandInv, PacketOrderInv, FrameOrderInv, AheadInv, EmptyInv, CompleteInv,
         [Next]_vars
  PROVE  CompleteInv'
  <1> SUFFICES ASSUME NoDouble' PROVE CompleteInv'
    BY DEF CompleteInv
  <1>f. NoDouble /\ Playable' = Playable /\ file' = file
    BY FileStays, FilePackets
  <1>c. sl # "refused" => \A f \in Playable : Played(f) \/ ToCome(f)
    BY <1>f DEF CompleteInv
  <1>p. \A f \in Playable : f[1] \in AudioPackets /\ file[f[1]] = "frame" /\ f = <<f[1], 1>>
    BY <1>f, PlayableFrames DEF IInv
  <1>t. pos \in Nat /\ 0 \notin AudioPackets /\ \A f \in Playable : f[1] \in Nat
    BY <1>p, BoundsAssumption DEF IInv, TypeOK, AudioPackets
  <1>s. ASSUME sl' # "refused" => sl # "refused" /\ \A f \in Playable :
                 /\ Played(f) => Played(f)'
                 /\ ToCome(f) => Played(f)' \/ ToCome(f)'
        PROVE  CompleteInv'
    BY <1>s, <1>c, <1>f DEF CompleteInv
  <1>1. CASE Quiet
    <2>1. /\ UNCHANGED <<pos, queue, packet, played>> /\ (reader' = "push" <=> reader = "push")
          /\ sl' # "refused" => sl # "refused"
          /\ Converted' = Converted
      BY <1>1, QuietEffect, QuietFrames
    <2>2. QED
      BY <2>1, <1>c, <1>s DEF Played, ToCome, Queued
  <1>2. CASE ReaderRead
    <2>1. /\ UNCHANGED <<sl, packet, queue>> /\ reader # "push" /\ pos' = pos + 1
          /\ pos' \in AudioPackets <=> reader' = "push"
      BY <1>2, ReadEffect DEF slVars, queueVars, decodeVars
    <2>2. UNCHANGED <<played, Converted>> /\ Queued' = Queued
      BY <1>2 DEF ReaderRead, slVars, decodeVars, queueVars, Converted, Queued
    <2>3. \A f \in Playable : ToCome(f) => ToCome(f)'
      BY <2>1, <2>2, <1>p, <1>t DEF ToCome
    <2>4. QED
      BY <2>1, <2>2, <2>3, <1>c, <1>s DEF Played
  <1>3. CASE ReaderPush
    <2>1. Queued' = Queued \cup {pos}
      BY <1>3, PushEffect
    <2>2. UNCHANGED <<sl, packet, pos, played, Converted>> /\ reader = "push"
      BY <1>3 DEF ReaderPush, slVars, decodeVars, Converted
    <2>3. QED
      BY <2>1, <2>2, <1>c, <1>s DEF Played, ToCome
  <1>4. CASE Pull
    <2>1. packet' \in Queued /\ Queued' = Queued \ {packet'}
      BY <1>4, PullEffect
    <2>2. UNCHANGED <<sl, pos, reader, played, Converted>> /\ packet = 0
      BY <1>4 DEF Pull, slVars, readerVars, Converted, HandInv
    <2>3. \A f \in Playable : ToCome(f) => ToCome(f)'
      BY <2>1, <2>2, <1>p, <1>t DEF ToCome
    <2>4. QED
      BY <2>2, <2>3, <1>c, <1>s DEF Played
  <1>5. CASE Send
    <2>1. UNCHANGED <<pos, reader, queue, sl, played, Converted>>
      BY <1>5, DecodeEffect, SendEffect
    <2>2. file[packet] = "corrupt" \/ packet' = packet
      BY <1>5, <1>f, SendSingle DEF Kept
    <2>3. \A f \in Playable : ToCome(f) => ToCome(f)'
      BY <2>1, <2>2, <1>p DEF ToCome, Queued
    <2>4. QED
      BY <2>1, <2>3, <1>c, <1>s DEF Played
  <1>6. CASE Receive
    <2>1. UNCHANGED <<pos, reader, queue, sl, played, Converted>>
      BY <1>6, DecodeEffect, ReceiveEffect
    <2>2. file[packet] = "silent" \/ packet' = packet
      BY <1>6, <1>f, ReceiveSingle DEF Kept
    <2>3. \A f \in Playable : ToCome(f) => ToCome(f)'
      BY <2>1, <2>2, <1>p DEF ToCome, Queued
    <2>4. QED
      BY <2>1, <2>3, <1>c, <1>s DEF Played
  <1>7. CASE Convert
    <2>1. UNCHANGED <<pos, reader, queue, sl, played>>
      BY <1>7, DecodeEffect
    <2>2. /\ Converted = {} /\ Converted' \subseteq {frame}
          /\ file[frame[1]] # "unconvertible" => Converted' = {frame}
          /\ file[frame[1]] = "unconvertible" => Converted' = {}
      BY <1>7, ConvertEffect
    <2>3. /\ packet \in AudioPackets
          /\ file[packet] \in {"frame", "unconvertible"} /\ frame = <<packet, 1>>
      BY <1>7, <1>f DEF Convert, EmptyInv, HandInv
    <2>4. file[packet] = "frame" => Converted' = {frame} /\ frame \in Playable
      BY <2>2, <2>3, <1>f, PlayableFrames DEF IInv
    <2>5. file[packet] # "frame" => Converted' = {}
      BY <2>2, <2>3
    <2>7. ASSUME NEW f \in Playable
          PROVE  (Played(f) => Played(f)') /\ (ToCome(f) => Played(f)' \/ ToCome(f)')
      <3>1. Played(f) => Played(f)'
        BY <2>1, <2>2 DEF Played
      <3>2. CASE f[1] = packet
        <4>1. file[packet] = "frame" /\ f = frame
          BY <3>2, <2>3, <1>p
        <4>2. Played(f)'
          BY <4>1, <2>4 DEF Played
        <4>3. QED
          BY <3>1, <4>2
      <3>3. CASE f[1] # packet
        BY <3>1, <3>3, <2>1 DEF ToCome, Queued
      <3>4. QED
        BY <3>2, <3>3
    <2>8. QED
      BY <2>1, <2>7, <1>s
  <1>8. CASE EnqueueBuffer
    <2>1. /\ UNCHANGED <<played, pos, reader, queue, packet>>
          /\ sl' = sl \/ sl' = "refused"
      BY <1>8 DEF EnqueueBuffer, readerVars, queueVars, decodeVars
    <2>2. Converted' = Converted \/ (Converted' = {} /\ sl' = "refused")
      BY <1>8, EnqueueEffect
    <2>3. QED
      BY <2>1, <2>2, <1>c, <1>s DEF Played, ToCome, Queued
  <1>9. CASE SLPlayed
    <2>1. UNCHANGED <<pos, reader, queue, packet, sl>>
      BY <1>9 DEF SLPlayed, readerVars, queueVars, decodeVars
    <2>2. Converted' = {} /\ Elements(played') = Elements(played) \cup Converted
      BY <1>9, PlayedEffect
    <2>3. QED
      BY <2>1, <2>2, <1>c, <1>s DEF Played, ToCome, Queued
  <1>10. QED
    BY <1>1, <1>2, <1>3, <1>4, <1>5, <1>6, <1>7, <1>8, <1>9, StepCases

-----------------------------------------------------------------------------
LEMMA InitOInv == Init => OInv
  <1> SUFFICES ASSUME Init PROVE OInv
    OBVIOUS
  <1>i. IInv
    BY InitIInv
  <1>1. /\ reader = "none" /\ callback = "idle" /\ packet = 0 /\ pos = 0 /\ queue = <<>>
        /\ live = {} /\ played = <<>> /\ buffer = NoFrame /\ slQueued = 0
        /\ codec = Codec!NewContext /\ setup = "onCreate" /\ sl = "off"
    BY DEF Init, Audio!Init
  <1>2. Queued = {} /\ Converted = {} /\ Received = {} /\ Elements(played) = {}
    BY <1>1, NoElement DEF Queued, Converted, Received
  <1>3. codec.slot = <<>> /\ codec.rest = <<>> /\ codec.out = <<>>
    BY <1>1, ContextParts DEF Codec!NewContext
  <1>4. Held(codec) = {} /\ Waiting(codec) = {}
    BY <1>3, NoElement DEF Held, Waiting
  <1>5. ContextOrdered(codec)
    BY <1>3, <1>4, NoElement DEF ContextOrdered, AllBefore
  <1>6. HandInv /\ EndInv /\ EmptyInv
    BY <1>1 DEF HandInv, EndInv, EmptyInv
  <1>7. PacketOrderInv
    BY <1>1, <1>2 DEF PacketOrderInv, Ascending
  <1>8. MemoryInv
    BY <1>1, <1>2 DEF MemoryInv, AudioPackets
  <1>9. FrameOrderInv /\ AheadInv
    BY <1>1, <1>2, <1>4, <1>5, NoElement DEF FrameOrderInv, AheadInv, OnTheWay, AllBefore
  <1>10. CompleteInv
    <2>1. NoDouble => \A f \in Playable : f[1] > pos
      BY <1>i, <1>1, PlayableFrames DEF IInv, AudioPackets
    <2>2. QED
      BY <1>2, <2>1 DEF CompleteInv, ToCome
  <1>11. OriginInv
    BY <1>2, <1>4 DEF OriginInv, OnTheWay
  <1>12. QED
    BY <1>6, <1>7, <1>8, <1>9, <1>10, <1>11 DEF OInv

LEMMA NextOInv == IInv /\ OInv /\ [Next]_vars => OInv'
  BY EndStep, HandStep, PacketOrderStep, MemoryStep, FrameOrderStep, AheadStep, OriginStep,
     EmptyStep, CompleteStep DEF OInv

\* The order and the place of every packet and frame, for every file.
THEOREM OrderInvariance == Spec => []OInv
  BY InitOInv, NextOInv, Invariance, PTL DEF Spec

\* No audio packet leaks on any of the ways out of decodeAudioPacket().
THEOREM AudioPacketsAreFreed == Spec => []AudioPacketsFreed
  <1>1. IInv /\ OInv => AudioPacketsFreed
    <2> SUFFICES ASSUME IInv, OInv PROVE AudioPacketsFreed
      OBVIOUS
    <2>1. Queued \subseteq AudioPackets /\ (reader = "push" => pos \in AudioPackets)
      BY DEF IInv, StreamInv, Queued
    <2>2. packet = 0 \/ packet \in AudioPackets
      BY DEF OInv, HandInv
    <2>3. 0 \notin AudioPackets
      BY DEF AudioPackets
    <2>4. \A p \in AudioPackets : p \in live <=>
            p \in Queued \/ (reader = "push" /\ p = pos) \/ p = packet
      BY DEF OInv, MemoryInv
    <2>5. QED
      BY <2>1, <2>2, <2>3, <2>4 DEF AudioPacketsFreed
  <1>2. QED
    BY <1>1, Invariance, OrderInvariance, PTL

\* The packets read of other streams, and those the two threads still need.
Foreign == {p \in 1 .. pos : file[p] = "video"}
InUse == Queued \cup (IF reader = "push" THEN {pos} ELSE {}) \cup ({packet} \ {0})

OthersLeak == live = Foreign \cup InUse

NoVideo == \A p \in 1 .. Len(file) : file[p] # "video"

\* A packet is of the file's audio, or foreign.
LEMMA ForeignPackets == IInv => Foreign = (1 .. pos) \ AudioPackets
  BY BoundsAssumption DEF Foreign, IInv, TypeOK, AudioPackets

\* What readingThread and decodeAudioPacket() between them leave allocated is
\* what is in use and, for ever, every packet of another stream that was read.
THEOREM OnlyOthersLeak == Spec => []OthersLeak
  <1>1. IInv /\ OInv /\ AudioPacketsFreed => OthersLeak
    <2> SUFFICES ASSUME IInv, OInv, AudioPacketsFreed PROVE OthersLeak
      BY DEF OthersLeak
    <2>1. live \cap AudioPackets = InUse
      BY DEF AudioPacketsFreed, InUse
    <2>2. live \subseteq 1 .. pos /\ (1 .. pos) \ AudioPackets \subseteq live
      BY DEF OInv, MemoryInv
    <2>3. QED
      BY <2>1, <2>2, ForeignPackets DEF OthersLeak
  <1>2. QED
    BY <1>1, AudioPacketsAreFreed, Invariance, OrderInvariance, PTL

\* Of a file with nothing but audio, every packet is freed when it is no longer
\* needed: the other streams are the only cause of the leak.
THEOREM AudioFilesDoNotLeak == Spec => [](NoVideo => EveryPacketFreed)
  <1>1. IInv /\ OthersLeak => (NoVideo => EveryPacketFreed)
    <2> SUFFICES ASSUME IInv, OthersLeak, NoVideo PROVE EveryPacketFreed
      OBVIOUS
    <2>1. Foreign = {}
      BY DEF Foreign, NoVideo, IInv, TypeOK
    <2>2. QED
      BY <2>1 DEF EveryPacketFreed, OthersLeak, InUse
  <1>2. QED
    BY <1>1, OnlyOthersLeak, Invariance, PTL

-----------------------------------------------------------------------------
(* What the code cannot recover from *)

\* The decoder holds a packet it has not begun to decode, and the callback is not
\* about to receive a frame.
Stuck == codec.slot # <<>> /\ callback \notin {"receive", "convert"}

\* A decoder that still holds a packet when the next one is sent refuses it, and
\* decodeAudioPacket() then receives nothing: no frame is converted ever again.
\* The packets of the rest of the file are read, pulled and dropped.
THEOREM StuckForEver == Spec => [][Stuck => Stuck' /\ UNCHANGED <<codec, buffer>>]_vars
  <1>1. [Next]_vars => [Stuck => Stuck' /\ UNCHANGED <<codec, buffer>>]_vars
    <2> SUFFICES ASSUME Next, Stuck PROVE Stuck' /\ UNCHANGED <<codec, buffer>>
      OBVIOUS
    <2> USE DEF Stuck, decodeVars
    <2>1. CASE Begin \/ OpenCodec \/ OpenSL \/ PrimeSL \/ Start
      BY <2>1 DEF Begin, OpenCodec, OpenSL, PrimeSL, Start
    <2>2. CASE Reader
      BY <2>2 DEF Reader, ReaderSize, ReaderCheck, ReaderRead, ReaderPush, ReaderStop
    <2>3. CASE CheckEnd \/ CheckSize \/ Pull
      BY <2>3 DEF CheckEnd, CheckWorking, CheckDrained, CheckSize, Pull
    <2>4. CASE Send
      <3> DEFINE r == Codec!SendPacket(codec, FramesIn(packet))
      <3>1. r.ret = Codec!EAGAIN /\ r.codec = codec
        BY DEF Codec!SendPacket, Codec!Return
      <3>2. r.ret # Codec!OK
        BY <3>1, Results
      <3>3. codec' = codec /\ callback' = "working?" /\ buffer' = buffer
        BY <2>4, <3>1, <3>2 DEF Send
      <3>4. QED
        BY <3>3
    <2>5. CASE Receive \/ Convert
      BY <2>5 DEF Receive, Convert
    <2>6. CASE EnqueueBuffer \/ EnqueueNothing \/ SLPlayed
      BY <2>6 DEF EnqueueBuffer, EnqueueNothing, SLPlayed
    <2>7. QED
      BY <2>1, <2>2, <2>3, <2>4, <2>5, <2>6 DEF Next, Prepare, Callback
  <1>2. QED
    BY <1>1, PTL DEF Spec

\* prepareOpenSL() has returned without a player, and start() is called or was.
Silent == sl = "off" /\ setup \in {"start", "done"}

\* OpenSL never calls back: what the reading thread pushes, it pushes for nobody,
\* and no packet is ever pulled or played.
THEOREM SilentForEver == Spec => [][Silent => Silent' /\ UNCHANGED <<pulled, played>>]_vars
  <1>1. EndInv /\ [Next]_vars => [Silent => Silent' /\ UNCHANGED <<pulled, played>>]_vars
    <2> SUFFICES ASSUME EndInv, Next, Silent PROVE Silent' /\ UNCHANGED <<pulled, played>>
      OBVIOUS
    <2> USE DEF Silent, queueVars, slVars
    <2>1. callback = "idle" /\ slQueued = 0
      BY DEF EndInv
    <2>2. CASE Prepare
      BY <2>2 DEF Prepare, Begin, OpenCodec, OpenSL, PrimeSL, Start
    <2>3. CASE Reader
      BY <2>3 DEF Reader, ReaderSize, ReaderCheck, ReaderRead, ReaderPush, ReaderStop, Audio!Put,
                  mainVars
    <2>4. ~Callback /\ ~SLPlayed
      BY <2>1 DEF Callback, CheckEnd, CheckWorking, CheckDrained, CheckSize, Pull, Send, Receive,
                  Convert, EnqueueBuffer, EnqueueNothing, SLPlayed
    <2>5. QED
      BY <2>2, <2>3, <2>4 DEF Next
  <1>2. QED
    BY <1>1, OrderInvariance, PTL DEF Spec, OInv

-----------------------------------------------------------------------------
\* What is played is in the file's order, whatever the decoder holds back.
THEOREM FramesPlayedInOrder == Spec => []PlayedInOrder
  <1>1. OInv => PlayedInOrder
    BY DEF OInv, FrameOrderInv, InOrder, PlayedInOrder
  <1>2. QED
    BY <1>1, OrderInvariance, PTL

AllPlayed == sl = "ended" /\ NoDouble => Elements(played) = Playable

LEMMA EndPlayed == IInv /\ OInv => AllPlayed
  <1> SUFFICES ASSUME IInv, OInv, sl = "ended", NoDouble
               PROVE  Elements(played) = Playable
    BY DEF AllPlayed
  <1>1. reader = "stopped" /\ pos = Len(file) /\ queue = <<>>
    BY DEF IInv, CallbackInv, ReaderInv
  <1>2. Queued = {}
    BY <1>1 DEF Queued
  <1>3. callback = "idle" /\ slQueued = 0 /\ packet = 0
    BY DEF OInv, EndInv, HandInv
  <1>4. Converted = {}
    BY <1>3 DEF Converted
  <1>5. Elements(played) \subseteq Playable
    BY DEF OInv, OriginInv
  <1>6. ASSUME NEW f \in Playable PROVE f \in Elements(played)
    <2>1. f[1] \in AudioPackets
      BY PlayableFrames DEF IInv
    <2>2. f[1] \in 1 .. Len(file) /\ f[1] # 0 /\ ~(f[1] > pos)
      BY <2>1, <1>1 DEF AudioPackets, IInv, TypeOK
    <2>3. QED
      BY <2>2, <1>1, <1>2, <1>3, <1>4 DEF OInv, CompleteInv, Played, ToCome
  <1>7. QED
    BY <1>5, <1>6

\* Playback ends only after every frame that could be converted was played, when
\* no packet of the file holds two.
THEOREM EveryFrameIsPlayed == Spec => []PlaysEveryFrame
  <1>1. IInv /\ OInv => PlaysEveryFrame
    BY EndPlayed DEF AllPlayed, PlaysEveryFrame, NoDouble, Elements
  <1>2. QED
    BY <1>1, Invariance, OrderInvariance, PTL

-----------------------------------------------------------------------------
(* FFAudio implements Playback *)

LEMMA HeardIsPlayed == Sound!Heard = Elements(played)
  BY DEF Sound!Heard, Elements

\* Only a buffer that has been played is heard, and only the refusal of nothing
\* is the end.
LEMMA OthersAreSilent ==
  ASSUME IInv, EndInv, [Next]_vars, ~SLPlayed, ~EnqueueNothing
  PROVE  played' = played /\ (sl' = "ended" <=> sl = "ended")
  <1> USE DEF EndInv, vars, slVars
  <1>1. CASE Begin \/ OpenCodec \/ OpenSL \/ PrimeSL \/ Start
    BY <1>1 DEF Begin, OpenCodec, OpenSL, PrimeSL, Start
  <1>2. CASE Reader
    BY <1>2 DEF Reader, ReaderSize, ReaderCheck, ReaderRead, ReaderPush, ReaderStop
  <1>3. CASE CheckEnd \/ CheckSize \/ Pull
    BY <1>3 DEF CheckEnd, CheckWorking, CheckDrained, CheckSize, Pull
  <1>4. CASE Send \/ Receive \/ Convert
    BY <1>4, DecodeEffect
  <1>5. CASE EnqueueBuffer
    BY <1>5 DEF EnqueueBuffer
  <1>6. CASE UNCHANGED vars
    BY <1>6
  <1>7. QED
    BY <1>1, <1>2, <1>3, <1>4, <1>5, <1>6 DEF Next, Prepare, Callback

\* What OpenSL has played is the very next frame that can be played.
LEMMA PlayedIsNext ==
  ASSUME IInv, OInv, SLPlayed, buffer # NoFrame
  PROVE  /\ buffer \in Playable /\ \A g \in Elements(played) : Before(g, buffer)
         /\ NoDouble => \A g \in Playable : Before(g, buffer) => g \in Elements(played)
         /\ played' = Append(played, buffer) /\ sl' = sl /\ sl # "ended"
  <1>1. /\ callback = "idle" /\ slQueued > 0 /\ sl' = sl
        /\ played' = Append(played, buffer)
    BY DEF SLPlayed
  <1>2. Converted = {buffer} /\ packet = 0 /\ sl \notin {"refused", "ended"}
    BY <1>1 DEF Converted, OInv, HandInv, EndInv
  <1>3. buffer \in Playable /\ \A g \in Elements(played) : Before(g, buffer)
    BY <1>2 DEF OInv, OriginInv, FrameOrderInv, AllBefore
  <1>4. buffer \in OnTheWay
    BY <1>2 DEF OnTheWay
  <1>5. ASSUME NoDouble, NEW g \in Playable, Before(g, buffer) PROVE g \in Elements(played)
    <2>1. g[1] \in AudioPackets /\ g = <<g[1], 1>> /\ buffer = <<buffer[1], 1>>
          /\ buffer[1] \in AudioPackets
      BY <1>3, <1>5, PlayableFrames DEF IInv
    <2>2. g[1] \in Nat /\ buffer[1] \in Nat /\ g[1] # 0 /\ pos \in Nat
      BY <2>1, BoundsAssumption DEF AudioPackets, IInv, TypeOK
    <2>3. g[1] < buffer[1]
      BY <2>1, <2>2, <1>5 DEF Before
    <2>4. Played(g) \/ ToCome(g)
      BY <1>2, <1>5 DEF OInv, CompleteInv
    <2>5. /\ buffer[1] <= pos /\ (reader = "push" => buffer[1] < pos)
          /\ \A q \in Queued : buffer[1] < q
      BY <1>4 DEF OInv, AheadInv
    <2>6. \A q \in Queued : q \in Nat
      BY DEF IInv, StreamInv, Queued, AudioPackets
    <2>7. ~ToCome(g)
      BY <2>2, <2>3, <2>5, <2>6, <1>2 DEF ToCome
    <2>8. g # buffer
      BY <2>2, <2>3
    <2>9. QED
      BY <2>4, <2>7, <2>8, <1>2 DEF Played
  <1>6. QED
    BY <1>1, <1>2, <1>3, <1>5

LEMMA SoundStep ==
  ASSUME IInv, OInv, AllPlayed', [Next]_vars
  PROVE  [Sound!Next]_(Sound!vars)
  <1>f. file' = file /\ Playable' = Playable /\ AudioPackets' = AudioPackets
    BY FileStays, FilePackets DEF OInv
  <1>d. /\ (\E p \in AudioPackets : file[p] = "double")' = (\E p \in AudioPackets : file[p] = "double")
        /\ ~NoDouble => \E p \in AudioPackets : file[p] = "double"
    BY <1>f DEF NoDouble
  <1>1. CASE ~SLPlayed /\ ~EnqueueNothing
    <2>1. played' = played /\ (sl' = "ended" <=> sl = "ended")
      BY <1>1, OthersAreSilent DEF OInv
    <2>2. QED
      BY <2>1, <1>f, <1>d DEF Sound!vars
  <1>2. CASE EnqueueNothing
    <2>1. played' = played /\ sl' = "ended" /\ sl # "ended"
      BY <1>2 DEF EnqueueNothing, OInv, EndInv
    <2>2. NoDouble => Playable \subseteq Elements(played)
      <3> SUFFICES ASSUME NoDouble PROVE Playable \subseteq Elements(played)
        OBVIOUS
      <3>1. NoDouble'
        BY <1>f, FilePackets
      <3>2. (Elements(played) = Playable)'
        BY <2>1, <3>1 DEF AllPlayed
      <3>3. QED
        BY <3>2, <2>1, <1>f
    <2>3. Sound!Finish
      BY <2>1, <2>2, <1>f, <1>d, HeardIsPlayed DEF Sound!Finish
    <2>4. QED
      BY <2>3 DEF Sound!Next
  <1>3. CASE SLPlayed
    <2>1. CASE buffer = NoFrame
      <3>1. played' = played /\ sl' = sl
        BY <1>3, <2>1 DEF SLPlayed
      <3>2. QED
        BY <3>1, <1>f, <1>d DEF Sound!vars
    <2>2. CASE buffer # NoFrame
      <3>1. /\ buffer \in Playable /\ \A g \in Elements(played) : Before(g, buffer)
            /\ NoDouble => \A g \in Playable : Before(g, buffer) => g \in Elements(played)
            /\ played' = Append(played, buffer) /\ sl' = sl /\ sl # "ended"
        BY <1>3, <2>2, PlayedIsNext
      <3>2. Sound!Play(buffer)
        BY <3>1, <1>f, <1>d, HeardIsPlayed DEF Sound!Play
      <3>3. QED
        BY <3>1, <3>2 DEF Sound!Next
    <2>3. QED
      BY <2>1, <2>2
  <1>4. QED
    BY <1>1, <1>2, <1>3

\* What is heard of a file is what Playback promises: no frame is repeated, none
\* is heard before an earlier one and, unless a packet holds two, none is missed.
THEOREM SoundIsPlayback == Spec => ImplementsPlayback
  <1>1. Init => Sound!Init
    BY DEF Init, Sound!Init
  <1>2. IInv /\ OInv /\ AllPlayed' /\ [Next]_vars => [Sound!Next]_(Sound!vars)
    BY SoundStep
  <1>3. QED
    BY <1>1, <1>2, EndPlayed, Invariance, OrderInvariance, PTL DEF Spec, ImplementsPlayback, Sound!Spec

-----------------------------------------------------------------------------
(* FFAudio implements the one session of FFAudioJNINative: what goes on in   *)
(* FFAudio between two steps of a session, the session does not see.         *)

LEMMA OneLaws ==
  ASSUME NEW x, NEW y
  PROVE  One(x)[It] = x /\ [One(x) EXCEPT ![It] = y] = One(y)
  BY DEF One

\* What a session sees of prepare(), of the reading thread and of the callback.
LEMMA PrepareView ==
  ASSUME setup' = setup
  PROVE  /\ SessionPrepare' = SessionPrepare /\ Published' = Published
         /\ Constructed' = Constructed
  BY DEF SessionPrepare, Published, Constructed

LEMMA ReaderView ==
  ASSUME UNCHANGED <<file, pos>>, reader' = "push" <=> reader = "push"
  PROVE  Unread' = Unread
  BY DEF Unread, AudioPackets

LEMMA CallbackView ==
  ASSUME UNCHANGED <<file, callback, packet, codec, sl>>
  PROVE  SessionCallback' = SessionCallback /\ SessionDecoding' = SessionDecoding
  <1>1. FramesIn(packet)' = FramesIn(packet)
    BY DEF FramesIn
  <1>2. GivesFrame' = GivesFrame
    BY <1>1 DEF GivesFrame
  <1>3. QED
    BY <1>2 DEF SessionCallback, Decoding, SessionDecoding

\* Nothing happens once the process has ended.
LEMMA SessionNext ==
  ASSUME setup # "crash",
         Session!PrepareThread(It) \/ Session!ReadingThread(It) \/ Session!PlayerThread(It)
  PROVE  Session!Next
  <1>1. SessionPrepare # "crash"
    BY DEF SessionPrepare
  <1>2. ~Session!Crashed
    BY <1>1, OneLaws DEF Session!Crashed
  <1>3. QED
    BY <1>2 DEF Session!Next

LEMMA UnreadCount ==
  ASSUME TypeOK
  PROVE  /\ IsFiniteSet(Unread) /\ Cardinality(Unread) \in 0 .. MaxPackets
         /\ Cardinality(Unread) > 0 <=> Unread # {}
  <1>1. Unread \subseteq 1 .. Len(file) /\ Len(file) \in Nat /\ Len(file) <= MaxPackets
    BY DEF Unread, AudioPackets, TypeOK
  <1>2. IsFiniteSet(1 .. Len(file)) /\ Cardinality(1 .. Len(file)) = Len(file)
    BY <1>1, FS_Interval
  <1>3. /\ IsFiniteSet(Unread) /\ Cardinality(Unread) \in Nat
        /\ Cardinality(Unread) <= Len(file)
    BY <1>1, <1>2, FS_Subset, FS_CardinalityType
  <1>4. Cardinality(Unread) = 0 <=> Unread = {}
    BY <1>3, FS_EmptySet
  <1>5. Cardinality(Unread) \in 0 .. MaxPackets
    BY <1>1, <1>3, BoundsAssumption
  <1>6. Cardinality(Unread) > 0 <=> Cardinality(Unread) # 0
    BY <1>3
  <1>7. QED
    BY <1>3, <1>4, <1>5, <1>6

LEMMA SessionInit == Init => Session!Init
  <1> SUFFICES ASSUME Init PROVE Session!Init
    OBVIOUS
  <1>1. Cardinality(Unread) \in 0 .. MaxPackets
    BY InitIInv, UnreadCount DEF IInv
  <1>2. /\ SessionPrepare = "onCreate" /\ ~Constructed /\ ~Published /\ SessionReader = "none"
        /\ SessionCallback = "off" /\ SessionDecoding = FALSE /\ Len(queue) = 0
        /\ setup # "done" /\ sl = "off" /\ slQueued = 0 /\ buffer = NoFrame /\ working = TRUE
    BY DEF Init, Audio!Init, SessionPrepare, Constructed, Published, SessionReader,
           SessionCallback, SessionDecoding
  <1>3. \E n \in 0 .. MaxPackets : One(Cardinality(Unread)) = [o \in {It} |-> n]
    BY <1>1 DEF One
  <1>4. /\ One(SessionPrepare) = [s \in {It} |-> "onCreate"]
        /\ ItIf(Constructed) = None /\ ItIf(Published) = None
        /\ One(SessionReader) = [s \in {It} |-> "none"]
        /\ One(SessionCallback) = [s \in {It} |-> "off"]
        /\ One(Len(queue)) = [s \in {It} |-> 0]
        /\ One(working) = [s \in {It} |-> TRUE]
        /\ One(SessionDecoding) = [s \in {It} |-> FALSE]
        /\ One(IF Published THEN 1 ELSE 0) = [s \in {It} |-> 0]
    BY <1>2, Zenon DEF One, ItIf
  <1>5. /\ One(ItIf(Published /\ setup # "codec")) = [s \in {It} |-> None]
        /\ One(ItIf(setup = "done")) = [s \in {It} |-> None]
        /\ One(ItIf(sl # "off")) = [s \in {It} |-> None]
        /\ One(ItIf(slQueued > 0)) = [s \in {It} |-> None]
        /\ One(ItIf(buffer # NoFrame)) = [s \in {It} |-> None]
    <2>1. ~(slQueued > 0)
      BY <1>2
    <2>2. QED
      BY <1>2, <2>1, Zenon DEF One, ItIf
  <1>6. QED
    BY <1>3, <1>4, <1>5 DEF Session!Init

-----------------------------------------------------------------------------
\* prepare(): the steps of OpenSL that cannot be seen are one with the last.
LEMMA PrepareIsSession ==
  ASSUME IInv, EndInv, Prepare
  PROVE  [Session!Next]_(Session!vars)
  <1> USE OneLaws
      DEF Session!vars, Session!globals, Session!readerVars, Session!playerVars,
          Session!historyVars
  <1>t. TypeOK
    BY DEF IInv
  <1>1. setup # "crash" /\ UNCHANGED <<file, pos, queue, working, packet, codec, buffer, callback>>
    BY DEF Prepare, Begin, OpenCodec, OpenSL, PrimeSL, Start, readerVars, queueVars, decodeVars,
           mainVars
  <1>2. CASE UNCHANGED <<reader, sl, slQueued>>
    <2>1. UNCHANGED <<SessionReader, Unread, SessionCallback, SessionDecoding>>
      BY <1>1, <1>2, ReaderView, CallbackView DEF SessionReader
    <2>2. CASE Begin
      <3>1. \/ setup = "onCreate" /\ setup' \in {"construct", "crash"}
            \/ setup = "construct" /\ setup' = "publish"
            \/ setup = "publish" /\ setup' = "codec"
        BY <2>2 DEF Begin
      <3>2. CASE setup = "onCreate"
        <4>1. /\ SessionPrepare = "onCreate" /\ SessionPrepare' \in {"construct", "crash"}
              /\ ~Constructed /\ ~Constructed' /\ ~Published /\ ~Published'
              /\ setup # "done" /\ setup' # "done"
          BY <3>1, <3>2 DEF SessionPrepare, Constructed, Published
        <4>2. Session!Open(It)
          BY <4>1, <2>1, <1>1, <1>2 DEF Session!Open, Session!Goto, ItIf
        <4>3. QED
          BY <4>2, <1>1, SessionNext DEF Session!PrepareThread
      <3>3. CASE setup = "construct"
        <4>1. /\ SessionPrepare = "construct" /\ SessionPrepare' = "publish"
              /\ Constructed' /\ ~Published /\ ~Published'
              /\ setup # "done" /\ setup' # "done"
          BY <3>1, <3>3 DEF SessionPrepare, Constructed, Published
        <4>2. ~(\E s \in {It} : Session!Preparing(s) \/ Session!Playing(s))
          <5>1. sl = "off"
            BY <3>3 DEF EndInv
          <5>2. SessionCallback = "off"
            BY <5>1 DEF SessionCallback
          <5>3. QED
            BY <4>1, <5>2 DEF Session!Preparing, Session!Playing
        <4>3. Session!Construct(It)
          BY <4>1, <4>2, <2>1, <1>1, <1>2 DEF Session!Construct, Session!Goto, ItIf
        <4>4. QED
          BY <4>3, <1>1, SessionNext DEF Session!PrepareThread
      <3>4. CASE setup = "publish"
        <4>1. /\ SessionPrepare = "publish" /\ SessionPrepare' = "prepare"
              /\ Constructed /\ Constructed' /\ ~Published /\ Published' /\ setup' = "codec"
              /\ setup # "done" /\ setup' # "done"
          BY <3>1, <3>4 DEF SessionPrepare, Constructed, Published
        <4>2. Session!NextNumber = 1
          BY <4>1 DEF Session!NextNumber, ItIf
        <4>3. Session!Publish(It)
          BY <4>1, <4>2, <2>1, <1>1, <1>2 DEF Session!Publish, Session!Goto, ItIf
        <4>4. QED
          BY <4>3, <1>1, SessionNext DEF Session!PrepareThread
      <3>5. QED
        BY <3>1, <3>2, <3>3, <3>4
    <2>3. CASE OpenCodec
      <3>1. /\ SessionPrepare = "prepare" /\ SessionPrepare' \in {"opensl", "start"}
            /\ Constructed /\ Constructed' /\ Published /\ Published'
            /\ setup = "codec" /\ setup' # "codec" /\ setup' # "done"
        BY <2>3 DEF OpenCodec, SessionPrepare, Constructed, Published
      <3>2. Session!Prepare(It)
        BY <3>1, <2>1, <1>1, <1>2 DEF Session!Prepare, Session!Goto, ItIf
      <3>3. QED
        BY <3>2, <1>1, SessionNext DEF Session!PrepareThread
    <2>4. CASE OpenSL \/ PrimeSL
      <3>1. /\ SessionPrepare = "opensl" /\ SessionPrepare' \in {"opensl", "start"}
            /\ Constructed /\ Constructed' /\ Published /\ Published'
            /\ setup # "codec" /\ setup' # "codec" /\ setup # "done" /\ setup' # "done"
        BY <2>4 DEF OpenSL, PrimeSL, SessionPrepare, Constructed, Published
      <3>2. CASE SessionPrepare' = "opensl"
        BY <3>1, <3>2, <2>1, <1>1, <1>2 DEF ItIf
      <3>3. CASE SessionPrepare' = "start"
        <4>1. Session!OpenSL(It)
          BY <3>1, <3>3, <2>1, <1>1, <1>2 DEF Session!OpenSL, Session!Goto, ItIf
        <4>2. QED
          BY <4>1, <1>1, SessionNext DEF Session!PrepareThread
      <3>4. QED
        BY <3>1, <3>2, <3>3
    <2>5. CASE Start
      <3>1. /\ SessionPrepare = "start" /\ SessionPrepare' = "done"
            /\ Constructed /\ Constructed' /\ Published /\ Published'
            /\ setup = "start" /\ setup' = "done"
        BY <2>5 DEF Start, SessionPrepare, Constructed, Published
      <3>2. Session!Start(It)
        BY <3>1, <2>1, <1>1, <1>2 DEF Session!Start, Session!Goto, ItIf
      <3>3. QED
        BY <3>2, <1>1, SessionNext DEF Session!PrepareThread
    <2>6. QED
      BY <2>2, <2>3, <2>4, <2>5 DEF Prepare
  <1>3. CASE PrimeSL /\ sl' = "playing"
    <2>1. /\ setup = "enqueue" /\ setup' = "start" /\ slQueued' = slQueued + 1 /\ reader' = reader
          \/ UNCHANGED <<reader, sl, slQueued>>
      BY <1>3 DEF PrimeSL, readerVars
    <2>2. CASE UNCHANGED <<reader, sl, slQueued>>
      BY <2>2, <1>2
    <2>3. CASE setup = "enqueue" /\ setup' = "start" /\ slQueued' = slQueued + 1 /\ reader' = reader
      <3>1. /\ SessionPrepare = "opensl" /\ SessionPrepare' = "start"
            /\ Constructed /\ Constructed' /\ Published /\ Published'
            /\ setup # "codec" /\ setup' # "codec" /\ setup # "done" /\ setup' # "done"
        BY <2>3 DEF SessionPrepare, Constructed, Published
      <3>2. sl = "off" /\ slQueued = 0 /\ callback = "idle"
        BY <2>3 DEF EndInv
      <3>3. SessionCallback = "off" /\ SessionCallback' = "idle" /\ slQueued' = 1
        BY <3>2, <2>3, <1>1, <1>3 DEF SessionCallback, Decoding
      <3>4. UNCHANGED <<SessionReader, Unread, SessionDecoding>>
        BY <3>2, <2>3, <1>1, <1>3, ReaderView DEF SessionReader, SessionDecoding
      <3>5. Session!OpenSL(It)
        BY <3>1, <3>2, <3>3, <3>4, <1>1, <1>3 DEF Session!OpenSL, Session!Goto, ItIf
      <3>6. QED
        BY <3>5, <1>1, SessionNext DEF Session!PrepareThread
    <2>4. QED
      BY <2>1, <2>2, <2>3
  <1>4. CASE Start /\ reader' = "size"
    <2>1. /\ SessionPrepare = "start" /\ SessionPrepare' = "done"
          /\ Constructed /\ Constructed' /\ Published /\ Published'
          /\ setup = "start" /\ setup' = "done" /\ UNCHANGED <<sl, slQueued>>
      BY <1>4 DEF Start, SessionPrepare, Constructed, Published, slVars
    <2>2. reader = "none" /\ SessionReader' = "running"
      BY <1>4, <2>1 DEF SessionReader, IInv, ReaderInv
    <2>3. UNCHANGED <<Unread, SessionCallback, SessionDecoding>>
      BY <1>1, <1>4, <2>1, <2>2, ReaderView, CallbackView
    <2>4. Session!Start(It)
      BY <2>1, <2>2, <2>3, <1>1 DEF Session!Start, Session!Goto, ItIf
    <2>5. QED
      BY <2>4, <1>1, SessionNext DEF Session!PrepareThread
  <1>5. QED
    BY <1>2, <1>3, <1>4 DEF Prepare, Begin, OpenCodec, OpenSL, PrimeSL, Start, readerVars, slVars

\* The reading thread puts a packet into the queue or stops; only then does a
\* session see it act, and it has room for the packet when it pushes it.
LEMMA ReaderIsSession ==
  ASSUME IInv, EndInv, PacketOrderInv, Reader
  PROVE  [Session!Next]_(Session!vars)
  <1> USE OneLaws
      DEF Session!vars, Session!globals, Session!readerVars, Session!playerVars,
          Session!historyVars
  <1>t. TypeOK /\ ReaderInv
    BY DEF IInv
  <1>1. /\ setup = "done" /\ setup' = setup /\ reader # "none" /\ reader' # "none"
        /\ UNCHANGED <<file, packet, codec, buffer, callback, sl, slQueued>>
    BY <1>t DEF Reader, ReaderSize, ReaderCheck, ReaderRead, ReaderPush, ReaderStop, ReaderInv,
                mainVars, decodeVars, slVars
  <1>2. UNCHANGED <<SessionPrepare, Constructed, Published, SessionCallback, SessionDecoding>>
    BY <1>1, PrepareView, CallbackView
  <1>3. CASE ReaderSize \/ ReaderCheck \/ ReaderRead
    <2>1. UNCHANGED <<SessionReader, queue, working>>
      BY <1>3 DEF ReaderSize, ReaderCheck, ReaderRead, SessionReader, queueVars
    <2>2. Unread' = Unread
      <3>1. CASE ReaderSize \/ ReaderCheck
        BY <3>1, <1>1, ReaderView DEF ReaderSize, ReaderCheck
      <3>2. CASE ReaderRead
        <4>1. /\ reader # "push" /\ pos \in Nat /\ pos' = pos + 1
              /\ pos' \in AudioPackets <=> reader' = "push"
          BY <3>2, ReadEffect
        <4>2. AudioPackets' = AudioPackets /\ AudioPackets \subseteq Nat
          BY <1>1 DEF AudioPackets
        <4>3. ASSUME NEW p \in AudioPackets PROVE p > pos <=> p > pos' \/ p = pos'
          BY <4>1, <4>2
        <4>4. \A p \in AudioPackets : p = pos' => reader' = "push"
          BY <4>1
        <4>5. Unread = {p \in AudioPackets : p > pos}
          BY <4>1 DEF Unread
        <4>6. Unread' = {p \in AudioPackets : p > pos' \/ (p = pos' /\ reader' = "push")}
          BY <4>2 DEF Unread
        <4>7. QED
          BY <4>3, <4>4, <4>5, <4>6
      <3>3. QED
        BY <1>3, <3>1, <3>2
    <2>3. QED
      BY <1>1, <1>2, <2>1, <2>2
  <1>4. CASE ReaderPush
    <2>1. /\ reader = "push" /\ reader' = "size" /\ pos' = pos /\ working' = working
          /\ queue' = Append(queue, pos) /\ queue \in Seq(1 .. MaxPackets)
      BY <1>4, <1>t DEF ReaderPush, Audio!Put, TypeOK
    <2>2. Len(queue') = Len(queue) + 1 /\ Len(queue) <= Limit
      BY <2>1, <1>t DEF ReaderInv
    <2>3. pos \in AudioPackets /\ pos \in Unread
      BY <1>4, <2>1, PushEffect DEF Unread
    <2>4. Unread' = Unread \ {pos}
      <3>1. AudioPackets' = AudioPackets /\ pos \in Nat /\ AudioPackets \subseteq Nat
        BY <1>1, <1>t DEF AudioPackets, TypeOK
      <3>2. Unread = {p \in AudioPackets : p > pos \/ p = pos}
        BY <2>1 DEF Unread
      <3>3. Unread' = {p \in AudioPackets : p > pos}
        BY <2>1, <3>1 DEF Unread
      <3>4. QED
        BY <3>1, <3>2, <3>3
    <2>5. Cardinality(Unread') = Cardinality(Unread) - 1 /\ Cardinality(Unread) > 0
      BY <2>3, <2>4, <1>t, UnreadCount, FS_RemoveElement
    <2>6. SessionReader = "running" /\ SessionReader' = "running"
      BY <2>1 DEF SessionReader
    <2>7. /\ One(Cardinality(Unread))' = [One(Cardinality(Unread)) EXCEPT ![It] = @ - 1]
          /\ One(Len(queue))' = [One(Len(queue)) EXCEPT ![It] = @ + 1]
      BY <2>2, <2>5 DEF One
    <2>8. /\ One(SessionReader)[It] = "running" /\ One(ItIf(setup = "done"))[It] = It
          /\ One(Len(queue))[It] <= Limit /\ One(Cardinality(Unread))[It] > 0
      BY <1>1, <2>2, <2>5, <2>6 DEF ItIf
    <2>9. Session!ReadPacket(It)
      BY <1>1, <1>2, <2>1, <2>6, <2>7, <2>8 DEF Session!ReadPacket
    <2>10. QED
      BY <2>9, <1>1, SessionNext DEF Session!ReadingThread
  <1>5. CASE ReaderStop
    <2>1. /\ reader = "read" /\ reader' = "stopped" /\ pos = Len(file) /\ pos' = pos
          /\ working' = FALSE /\ queue' = queue /\ Len(queue) <= Limit
      BY <1>5, <1>t DEF ReaderStop, ReaderInv
    <2>2. Unread = {} /\ Unread' = Unread
      <3>1. Unread = {}
        BY <2>1, <1>t DEF Unread, AudioPackets, TypeOK
      <3>2. QED
        BY <3>1, <2>1, <1>1, ReaderView
    <2>3. Cardinality(Unread) = 0
      BY <2>2, FS_EmptySet
    <2>4. SessionReader = "running" /\ SessionReader' = "stopped"
      BY <2>1 DEF SessionReader
    <2>5. Session!ReadEnd(It)
      BY <1>1, <1>2, <2>1, <2>2, <2>3, <2>4 DEF Session!ReadEnd, ItIf
    <2>6. QED
      BY <2>5, <1>1, SessionNext DEF Session!ReadingThread
  <1>6. QED
    BY <1>3, <1>4, <1>5 DEF Reader

-----------------------------------------------------------------------------
\* Whether a packet gives a frame is known when it is pulled: sending it and
\* receiving its frame are the two halves of one step of a session.
LEMMA FrameIsForeseen ==
  ASSUME EndInv, Send \/ Receive
  PROVE  SessionCallback' = SessionCallback /\ SessionDecoding' = SessionDecoding
  <1>1. sl = "playing" /\ sl' = sl
    BY DEF EndInv, Send, Receive, slVars
  <1>2. CASE Send
    <2> DEFINE r == Codec!SendPacket(codec, FramesIn(packet))
    <2>1. /\ callback = "send"
          /\ \/ r.ret = Codec!OK /\ callback' = "receive" /\ codec' = r.codec
             \/ r.ret # Codec!OK /\ callback' = "working?"
      BY <1>2 DEF Send
    <2>2. GivesFrame = (r.ret = Codec!OK /\ Codec!ReceiveFrame(r.codec).ret = Codec!OK)
      BY <2>1 DEF GivesFrame
    <2>3. GivesFrame' = GivesFrame
      BY <2>1, <2>2 DEF GivesFrame
    <2>4. QED
      BY <2>1, <2>3, <1>1 DEF SessionCallback, Decoding, SessionDecoding
  <1>3. CASE Receive
    <2>1. /\ callback = "receive"
          /\ \/ Codec!ReceiveFrame(codec).ret = Codec!OK /\ callback' = "convert"
             \/ Codec!ReceiveFrame(codec).ret # Codec!OK /\ callback' = "working?"
      BY <1>3 DEF Receive
    <2>2. /\ GivesFrame <=> callback' = "convert"
          /\ callback' = "working?" => ~GivesFrame'
      BY <2>1 DEF GivesFrame
    <2>3. QED
      BY <2>1, <2>2, <1>1 DEF SessionCallback, Decoding, SessionDecoding
  <1>4. QED
    BY <1>2, <1>3

\* What the callback of a session is doing while OpenSL plays.
LEMMA WhereCallbackIs ==
  ASSUME sl = "playing"
  PROVE  /\ callback = "nothing" => SessionCallback = "ended"
         /\ callback \in {"idle", "convert", "enqueue"} => SessionCallback = callback
         /\ callback \in {"working?", "drained?", "size?", "pull"} => SessionCallback = "decode"
         /\ callback \in {"send", "receive"} => SessionCallback \in {"convert", "decode"}
  <1>1. callback \in {"working?", "drained?", "size?", "pull"} => ~GivesFrame
    BY DEF GivesFrame
  <1>2. QED
    BY <1>1 DEF SessionCallback, Decoding

\* The callback and OpenSL.
LEMMA CallbackIsSession ==
  ASSUME IInv, EndInv, Callback \/ SLPlayed
  PROVE  [Session!Next]_(Session!vars)
  <1> USE OneLaws
      DEF Session!vars, Session!globals, Session!readerVars, Session!playerVars,
          Session!historyVars
  <1>t. TypeOK /\ BufferInv
    BY DEF IInv
  <1>1. /\ sl = "playing" /\ setup \in {"start", "done"} /\ setup' = setup
        /\ UNCHANGED <<file, pos, reader, working>>
    <2>1. callback # "idle" \/ slQueued > 0
      BY DEF Callback, CheckEnd, CheckWorking, CheckDrained, CheckSize, Pull, Send, Receive,
             Convert, EnqueueBuffer, EnqueueNothing, SLPlayed
    <2>2. sl = "playing" /\ setup \in {"start", "done"}
      BY <2>1 DEF EndInv
    <2>3. UNCHANGED <<setup, file, pos, reader, working>>
      BY DEF Callback, CheckEnd, CheckWorking, CheckDrained, CheckSize, Pull, Send, Receive,
             Convert, EnqueueBuffer, EnqueueNothing, SLPlayed, mainVars, readerVars, queueVars
    <2>4. QED
      BY <2>2, <2>3
  <1>2. UNCHANGED <<SessionPrepare, Constructed, Published, SessionReader, Unread>>
    BY <1>1, PrepareView, ReaderView DEF SessionReader
  <1>3. /\ Constructed /\ Published /\ setup # "crash"
    BY <1>1 DEF Constructed, Published
  <1>4. CASE CheckWorking \/ CheckSize \/ (CheckDrained /\ queue # <<>>)
    <2>1. UNCHANGED <<queue, sl, slQueued, buffer>>
      BY <1>4 DEF CheckWorking, CheckDrained, CheckSize, queueVars, slVars, decodeVars
    <2>2. /\ callback \in {"working?", "drained?", "size?", "pull"}
          /\ callback' \in {"working?", "drained?", "size?", "pull"}
      BY <1>4 DEF CheckWorking, CheckDrained, CheckSize
    <2>3. SessionCallback = "decode" /\ SessionCallback' = "decode"
      BY <1>1, <2>1, <2>2, WhereCallbackIs DEF SessionCallback, Decoding, GivesFrame
    <2>4. SessionDecoding' = SessionDecoding
      BY <2>2 DEF SessionDecoding
    <2>5. QED
      BY <1>1, <1>2, <2>1, <2>3, <2>4
  <1>5. CASE CheckDrained /\ queue = <<>>
    <2>1. /\ callback = "drained?" /\ callback' = "nothing" /\ ~working
          /\ UNCHANGED <<queue, sl, slQueued, buffer>>
      BY <1>5 DEF CheckDrained, queueVars, slVars, decodeVars, IInv, CallbackInv
    <2>2. /\ SessionCallback = "decode" /\ SessionCallback' = "ended"
      BY <1>1, <2>1, WhereCallbackIs DEF SessionCallback, Decoding
    <2>3. SessionDecoding' = SessionDecoding
      BY <2>1 DEF SessionDecoding
    <2>4. Len(queue) = 0 /\ working = FALSE
      BY <1>5, <2>1, <1>t DEF TypeOK
    <2>5. Session!DecodeEnd(It)
      BY <1>1, <1>2, <2>1, <2>2, <2>3, <2>4 DEF Session!DecodeEnd, Session!Move, ItIf
    <2>6. QED
      BY <2>5, <1>3, SessionNext DEF Session!PlayerThread
  <1>6. CASE Pull
    <2>1. /\ callback = "pull" /\ callback' = "send" /\ UNCHANGED <<sl, slQueued, buffer>>
          /\ queue # <<>> /\ queue' = Tail(queue) /\ queue \in Seq(1 .. MaxPackets)
      BY <1>6, <1>t DEF Pull, Audio!Take, slVars, TypeOK
    <2>2. /\ SessionCallback = "decode" /\ SessionCallback' \in {"convert", "decode"}
      BY <1>1, <2>1, WhereCallbackIs DEF SessionCallback, Decoding
    <2>3. SessionDecoding /\ SessionDecoding' /\ SessionDecoding' = SessionDecoding
      BY <2>1 DEF SessionDecoding
    <2>4. Len(queue) > 0 /\ Len(queue') = Len(queue) - 1
      BY <2>1
    <2>5. One(Len(queue))' = [One(Len(queue)) EXCEPT ![It] = @ - 1] /\ One(Len(queue))[It] > 0
      BY <2>4 DEF One
    <2>6. /\ One(ItIf(sl # "off"))[It] = It
          /\ One(SessionDecoding)[It]
          /\ One(SessionCallback)[It] = "decode"
          /\ \E x \in {"convert", "decode"} :
               One(SessionCallback)' = [One(SessionCallback) EXCEPT ![It] = x]
      BY <1>1, <2>2, <2>3 DEF ItIf
    <2>7. Session!Decode(It)
      BY <1>1, <1>2, <2>1, <2>3, <2>5, <2>6 DEF Session!Decode, Session!Move
    <2>8. QED
      BY <2>7, <1>3, SessionNext DEF Session!PlayerThread
  <1>7. CASE Send \/ Receive
    <2>1. UNCHANGED <<queue, sl, slQueued, buffer>>
      BY <1>7 DEF Send, Receive, queueVars, slVars
    <2>2. UNCHANGED <<SessionCallback, SessionDecoding>>
      BY <1>7, FrameIsForeseen
    <2>3. QED
      BY <1>1, <1>2, <2>1, <2>2
  <1>8. CASE Convert
    <2>1. /\ callback = "convert" /\ UNCHANGED <<queue, sl, slQueued>>
          /\ \/ callback' = "working?" /\ buffer' = buffer
             \/ callback' = "enqueue" /\ buffer' = frame
      BY <1>8 DEF Convert, queueVars, slVars
    <2>2. frame # NoFrame
      BY <2>1 DEF IInv, StreamInv, Frames, NoFrame
    <2>3. SessionCallback = "convert" /\ SessionDecoding = TRUE
      BY <1>1, <2>1, WhereCallbackIs DEF SessionDecoding
    <2>4. CASE callback' = "working?" /\ buffer' = buffer
      <3>1. SessionCallback' = "decode" /\ SessionDecoding' = TRUE
        BY <1>1, <2>1, <2>4 DEF SessionCallback, Decoding, GivesFrame, SessionDecoding
      <3>2. Session!Convert(It)
        BY <1>1, <1>2, <2>1, <2>3, <2>4, <3>1 DEF Session!Convert, Session!Move
      <3>3. QED
        BY <3>2, <1>3, SessionNext DEF Session!PlayerThread
    <2>5. CASE callback' = "enqueue" /\ buffer' = frame
      <3>1. SessionCallback' = "enqueue" /\ SessionDecoding' = FALSE
        BY <1>1, <2>1, <2>5 DEF SessionCallback, Decoding, SessionDecoding
      <3>2. /\ One(ItIf(buffer # NoFrame))' = One(It) /\ One(ItIf(sl # "off"))[It] = It
            /\ ItIf(Constructed) = It
        BY <1>1, <1>3, <2>2, <2>5 DEF ItIf
      <3>3. /\ One(SessionCallback)[It] = "convert"
            /\ One(SessionCallback)' = [One(SessionCallback) EXCEPT ![It] = "enqueue"]
            /\ One(ItIf(buffer # NoFrame))' = [One(ItIf(buffer # NoFrame)) EXCEPT ![It] = It]
            /\ One(SessionDecoding)' = [One(SessionDecoding) EXCEPT ![It] = FALSE]
        <4>1. One(ItIf(buffer # NoFrame))' = [One(ItIf(buffer # NoFrame)) EXCEPT ![It] = It]
          BY <3>2, OneLaws
        <4>2. QED
          BY <4>1, <2>3, <3>1
      <3>4. Session!Convert(It)
        BY <1>1, <1>2, <2>1, <3>2, <3>3 DEF Session!Convert, Session!Move
      <3>5. QED
        BY <3>4, <1>3, SessionNext DEF Session!PlayerThread
    <2>6. QED
      BY <2>1, <2>4, <2>5
  <1>9. CASE EnqueueBuffer
    <2>1. /\ callback = "enqueue" /\ callback' = "idle" /\ UNCHANGED <<queue, buffer>>
          /\ slQueued = 0
          /\ \/ slQueued' = 1 /\ sl' = sl
             \/ sl' = "refused" /\ slQueued' = slQueued
      BY <1>9, <1>t DEF EnqueueBuffer, queueVars, decodeVars, BufferInv
    <2>2. SessionCallback = "enqueue" /\ SessionDecoding = FALSE /\ SessionDecoding' = FALSE
      BY <1>1, <2>1, WhereCallbackIs DEF SessionDecoding
    <2>3. SessionCallback' = IF sl' = sl THEN "idle" ELSE "ended"
      BY <1>1, <2>1 DEF SessionCallback, Decoding
    <2>4. One(ItIf(sl # "off"))' = One(ItIf(sl # "off"))
      BY <1>1, <2>1 DEF ItIf
    <2>5. \/ /\ One(SessionCallback)' = [One(SessionCallback) EXCEPT ![It] = "idle"]
             /\ One(ItIf(slQueued > 0))' = [One(ItIf(slQueued > 0)) EXCEPT ![It] = It]
          \/ /\ One(SessionCallback)' = [One(SessionCallback) EXCEPT ![It] = "ended"]
             /\ One(ItIf(slQueued > 0))' = One(ItIf(slQueued > 0))
      <3>1. CASE slQueued' = 1 /\ sl' = sl
        BY <2>3, <3>1 DEF ItIf
      <3>2. CASE sl' = "refused" /\ slQueued' = slQueued
        BY <1>1, <2>3, <3>2
      <3>3. QED
        BY <2>1, <3>1, <3>2
    <2>6. One(SessionCallback)[It] = "enqueue" /\ ItIf(Constructed) = It
      BY <1>3, <2>2 DEF ItIf
    <2>7. Session!EnqueueBuffer(It)
      BY <1>1, <1>2, <2>1, <2>2, <2>4, <2>5, <2>6 DEF Session!EnqueueBuffer, Session!Move
    <2>8. QED
      BY <2>7, <1>3, SessionNext DEF Session!PlayerThread
  <1>10. CASE EnqueueNothing
    <2>1. /\ callback = "nothing" /\ callback' = "idle" /\ sl' = "ended"
          /\ UNCHANGED <<queue, buffer, slQueued>>
      BY <1>10 DEF EnqueueNothing, queueVars, decodeVars
    <2>2. SessionCallback = "ended" /\ SessionCallback' = "ended"
      BY <1>1, <2>1, WhereCallbackIs DEF SessionCallback
    <2>3. SessionDecoding = TRUE /\ SessionDecoding' = TRUE
      BY <2>1 DEF SessionDecoding
    <2>4. QED
      BY <1>1, <1>2, <2>1, <2>2, <2>3
  <1>11. CASE SLPlayed
    <2>1. /\ callback = "idle" /\ callback' = "working?" /\ slQueued > 0 /\ slQueued' = slQueued - 1
          /\ UNCHANGED <<queue, buffer, sl>>
      BY <1>11 DEF SLPlayed, queueVars, decodeVars
    <2>2. slQueued' = 0
      BY <2>1, <1>t DEF BufferInv, TypeOK
    <2>3. SessionCallback = "idle" /\ SessionCallback' = "decode"
      BY <1>1, <2>1, WhereCallbackIs DEF SessionCallback, Decoding, GivesFrame
    <2>4. SessionDecoding' = TRUE
      BY <2>1 DEF SessionDecoding
    <2>5. /\ One(ItIf(sl # "off"))[It] = It /\ One(ItIf(sl # "off"))' = One(ItIf(sl # "off"))
          /\ One(ItIf(slQueued > 0))[It] = It /\ It # None
          /\ One(ItIf(slQueued > 0))' = [One(ItIf(slQueued > 0)) EXCEPT ![It] = None]
      BY <1>1, <2>1, <2>2 DEF ItIf, It, None
    <2>6. /\ One(SessionCallback)[It] = "idle"
          /\ One(SessionCallback)' = [One(SessionCallback) EXCEPT ![It] = "decode"]
          /\ One(SessionDecoding)' = [One(SessionDecoding) EXCEPT ![It] = TRUE]
      BY <2>3, <2>4
    <2>7. Session!SLPlayed(It)
      BY <1>1, <1>2, <2>1, <2>5, <2>6 DEF Session!SLPlayed, Session!Move
    <2>8. QED
      BY <2>7, <1>3, SessionNext DEF Session!PlayerThread
  <1>12. QED
    BY <1>4, <1>5, <1>6, <1>7, <1>8, <1>9, <1>10, <1>11 DEF Callback, CheckEnd

LEMMA SessionStep == IInv /\ OInv /\ [Next]_vars => [Session!Next]_(Session!vars)
  <1> SUFFICES ASSUME IInv, OInv, [Next]_vars PROVE [Session!Next]_(Session!vars)
    OBVIOUS
  <1>1. EndInv /\ PacketOrderInv
    BY DEF OInv
  <1>2. CASE UNCHANGED vars
    <2>1. UNCHANGED <<file, setup, pos, reader, queue, working, callback, packet, codec, buffer,
                      sl, slQueued>>
      BY <1>2 DEF vars, mainVars, readerVars, queueVars, decodeVars, slVars
    <2>2. UNCHANGED <<SessionPrepare, Constructed, Published, SessionReader, Unread,
                      SessionCallback, SessionDecoding>>
      BY <2>1, PrepareView, ReaderView, CallbackView DEF SessionReader
    <2>3. QED
      BY <2>1, <2>2 DEF Session!vars, Session!globals, Session!readerVars, Session!playerVars,
                        Session!historyVars
  <1>3. QED
    BY <1>1, <1>2, PrepareIsSession, ReaderIsSession, CallbackIsSession DEF Next

\* The sessions of FFAudioJNINative are made of what one FFAudio does: with one
\* session, each step of FFAudio is one of its steps or cannot be seen there.
THEOREM FFAudioIsSession == Spec => ImplementsSession
  BY SessionInit, SessionStep, Invariance, OrderInvariance, PTL
     DEF Spec, ImplementsSession, Session!Spec
=============================================================================
