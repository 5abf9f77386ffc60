---------------------------- MODULE FFAudio_proofs ----------------------------
(***************************************************************************)
(* Proofs about FFAudio for every limit of the queue and every file.       *)
(***************************************************************************)
EXTENDS FFAudio, TLAPS

\* What goes through the queue are audio packets that have been read.
StreamInv ==
  /\ reader = "push" => pos \in AudioPackets
  /\ \A i \in 1 .. Len(queue) : queue[i] \in AudioPackets
  /\ callback = "send" => packet \in AudioPackets
  /\ callback = "convert" => frame \in Frames

\* The size readingThread read before is at least the size of the queue now,
\* because it alone pushes; and it stops working last of all.
ReaderInv ==
  /\ setup # "done" => reader = "none"
  /\ reader = "check" => Len(queue) <= packetSize
  /\ reader \in {"read", "push"} => Len(queue) <= Limit
  /\ working <=> reader # "stopped"
  /\ reader = "stopped" => pos = Len(file)

\* What the callback has seen stays true until it acts on it: once working is
\* false it stays false, and only the callback takes packets out of the queue.
CallbackInv ==
  /\ callback = "drained?" => ~working
  /\ callback = "pull" => queue # <<>>
  /\ callback = "nothing" \/ sl = "ended" => ~working /\ queue = <<>>

\* There is one buffer: either OpenSL holds it or the callback runs.
BufferInv ==
  /\ slQueued <= 1
  /\ callback # "idle" => slQueued = 0
  /\ setup \notin {"start", "done"} => slQueued = 0 /\ callback = "idle"

IInv == /\ TypeOK
        /\ StreamInv
        /\ ReaderInv
        /\ QueueBounded
        /\ CallbackInv
        /\ BufferInv

-----------------------------------------------------------------------------
\* The frames of an audio packet are what the decoder's context may hold.
LEMMA FramesInType ==
  ASSUME TypeOK, NEW p \in AudioPackets
  PROVE  FramesIn(p) \in Seq(Decodable)
  <1>1. p \in 1 .. MaxPackets /\ file[p] \in AllKinds /\ file[p] # "video"
    BY KindsAssumption, BoundsAssumption DEF TypeOK, AudioPackets
  <1>2. <<p, 0>> \in Decodable /\ <<p, 1>> \in Decodable /\ <<p, 2>> \in Decodable
    BY <1>1 DEF Decodable
  <1>3. CASE file[p] \in {"frame", "unconvertible"}
    <2>1. FramesIn(p) = <<<<p, 1>>>>
      BY <1>3 DEF FramesIn
    <2>2. QED
      BY <1>2, <2>1
  <1>4. CASE file[p] = "double"
    <2>1. FramesIn(p) = <<<<p, 1>>, <<p, 2>>>>
      BY <1>4 DEF FramesIn
    <2>2. QED
      BY <1>2, <2>1
  <1>5. CASE file[p] = "corrupt"
    <2>1. FramesIn(p) = <<<<p, 0>>>>
      BY <1>5 DEF FramesIn
    <2>2. QED
      BY <1>2, <2>1
  <1>6. CASE file[p] = "silent"
    BY <1>6 DEF FramesIn
  <1>7. QED
    BY <1>1, <1>3, <1>4, <1>5, <1>6 DEF AllKinds

LEMMA ContextType ==
  ASSUME NEW slot \in Seq(Seq(Decodable)), NEW rest \in Seq(Decodable), NEW out \in Seq(Frames)
  PROVE  Codec!Context(slot, rest, out) \in CodecContext
  BY DEF CodecContext, Codec!Context

LEMMA EmptySequences ==
  <<>> \in Seq(Seq(Decodable)) /\ <<>> \in Seq(Decodable) /\ <<>> \in Seq(Frames)
  OBVIOUS

LEMMA ContextFields ==
  ASSUME NEW c \in CodecContext
  PROVE  c.slot \in Seq(Seq(Decodable)) /\ c.rest \in Seq(Decodable) /\ c.out \in Seq(Frames)
  BY DEF CodecContext

\* What a call of the decoder returns: a context, and a frame if it succeeds.
IsReturn(r) == /\ r.codec \in CodecContext
               /\ r.frame \in Seq(Frames)
               /\ r.ret = Codec!OK => r.frame # <<>>

\* A call of the decoder gives a frame exactly when it succeeds, never an error.
LEMMA DecodeFromType ==
  ASSUME NEW slot \in Seq(Seq(Decodable)), NEW pkt \in Seq(Decodable), pkt # <<>>,
         NEW out \in Seq(Frames)
  PROVE  IsReturn(Codec!DecodeFrom(slot, pkt, out))
  <1> USE DEF IsReturn, Codec!DecodeFrom, Codec!Return, Codec!OK, Codec!INVALIDDATA
  <1>1. Head(pkt) \in Decodable /\ Tail(pkt) \in Seq(Decodable)
    OBVIOUS
  <1>2. CASE IsCorrupt(Head(pkt))
    <2>1. Codec!Context(slot, <<>>, out) \in CodecContext
      BY EmptySequences, ContextType
    <2>2. QED
      BY <1>2, <2>1
  <1>3. CASE ~IsCorrupt(Head(pkt))
    <2>1. Head(pkt) \in Frames
      BY <1>1, <1>3 DEF IsCorrupt, Decodable, Frames
    <2>2. Codec!Context(slot, Tail(pkt), out) \in CodecContext
      BY <1>1, ContextType
    <2>3. <<Head(pkt)>> \in Seq(Frames) /\ <<Head(pkt)>> # <<>>
      BY <2>1
    <2>4. QED
      BY <1>3, <2>2, <2>3
  <1>4. QED
    BY <1>2, <1>3

LEMMA DecodeNextType ==
  ASSUME NEW slot \in Seq(Seq(Decodable)), NEW rest \in Seq(Decodable), NEW out \in Seq(Frames)
  PROVE  IsReturn(Codec!DecodeNext(slot, rest, out))
  <1> DEFINE nothing == slot = <<>> \/ Head(slot) = <<>>
  <1>1. CASE rest # <<>>
    <2>1. Codec!DecodeNext(slot, rest, out) = Codec!DecodeFrom(slot, rest, out)
      BY <1>1 DEF Codec!DecodeNext
    <2>2. QED
      BY <1>1, <2>1, DecodeFromType
  <1>2. CASE rest = <<>> /\ nothing
    <2>1. Codec!DecodeNext(slot, rest, out)
            = Codec!Return(Codec!EAGAIN, Codec!Context(<<>>, <<>>, out), <<>>)
      BY <1>2 DEF Codec!DecodeNext
    <2>2. Codec!Context(<<>>, <<>>, out) \in CodecContext
      BY EmptySequences, ContextType
    <2>3. QED
      BY <2>1, <2>2 DEF IsReturn, Codec!Return, Codec!OK, Codec!EAGAIN
  <1>3. CASE rest = <<>> /\ ~nothing
    <2>1. Codec!DecodeNext(slot, rest, out) = Codec!DecodeFrom(<<>>, Head(slot), out)
      BY <1>3 DEF Codec!DecodeNext
    <2>2. Head(slot) \in Seq(Decodable) /\ Head(slot) # <<>> /\ <<>> \in Seq(Seq(Decodable))
      BY <1>3
    <2>3. QED
      BY <2>1, <2>2, DecodeFromType
  <1>4. QED
    BY <1>1, <1>2, <1>3

LEMMA SendPacketType ==
  ASSUME NEW c \in CodecContext, NEW pkt \in Seq(Decodable)
  PROVE  Codec!SendPacket(c, pkt).codec \in CodecContext
  <1> DEFINE r == Codec!DecodeNext(<<pkt>>, c.rest, <<>>)
  <1>1. IsReturn(r)
    <2>1. <<pkt>> \in Seq(Seq(Decodable)) /\ <<>> \in Seq(Frames)
      OBVIOUS
    <2>2. QED
      BY <2>1, ContextFields, DecodeNextType
  <1>2. CASE c.slot # <<>>
    BY <1>2 DEF Codec!SendPacket, Codec!Return
  <1>3. CASE c.slot = <<>> /\ c.out # <<>>
    <2>1. <<pkt>> \in Seq(Seq(Decodable))
      OBVIOUS
    <2>2. Codec!Context(<<pkt>>, c.rest, c.out) \in CodecContext
      BY <2>1, ContextFields, ContextType
    <2>3. QED
      BY <1>3, <2>2 DEF Codec!SendPacket, Codec!Return
  <1>4. CASE c.slot = <<>> /\ c.out = <<>>
    <2>1. r.codec.slot \in Seq(Seq(Decodable)) /\ r.codec.rest \in Seq(Decodable)
      BY <1>1, ContextFields DEF IsReturn
    <2>2. Codec!Context(r.codec.slot, r.codec.rest, r.frame) \in CodecContext
      BY <1>1, <2>1, ContextType DEF IsReturn
    <2>3. QED
      BY <1>4, <2>2 DEF Codec!SendPacket, Codec!Return
  <1>5. QED
    BY <1>2, <1>3, <1>4

LEMMA ReceiveFrameType ==
  ASSUME NEW c \in CodecContext
  PROVE  IsReturn(Codec!ReceiveFrame(c))
  <1>1. CASE c.out # <<>>
    <2>1. Codec!Context(c.slot, c.rest, <<>>) \in CodecContext
      BY EmptySequences, ContextFields, ContextType
    <2>2. QED
      BY <1>1, <2>1, ContextFields DEF Codec!ReceiveFrame, Codec!Return, IsReturn
  <1>2. CASE c.out = <<>>
    <2>1. <<>> \in Seq(Frames)
      OBVIOUS
    <2>2. QED
      BY <1>2, <2>1, ContextFields, DecodeNextType DEF Codec!ReceiveFrame
  <1>3. QED
    BY <1>1, <1>2

-----------------------------------------------------------------------------
LEMMA InitIInv == Init => IInv
  <1> SUFFICES ASSUME Init PROVE IInv
    OBVIOUS
  <1> USE BoundsAssumption DEF Init, Audio!Init
  <1>1. file \in Seq(Kinds) /\ Len(file) \in 0 .. MaxPackets
    <2>1. PICK n \in 0 .. MaxPackets : file \in [1 .. n -> Kinds]
      OBVIOUS
    <2>2. QED
      BY <2>1
  <1>2. codec \in CodecContext
    BY EmptySequences, ContextType DEF Codec!NewContext
  <1>3. TypeOK
    BY <1>1, <1>2 DEF TypeOK
  <1>4. StreamInv /\ ReaderInv /\ QueueBounded /\ CallbackInv /\ BufferInv
    BY DEF StreamInv, ReaderInv, QueueBounded, CallbackInv, BufferInv
  <1>5. QED
    BY <1>3, <1>4 DEF IInv

\* prepare() hands OpenSL at most one buffer and starts one reading thread.
LEMMA PrepareStep ==
  ASSUME IInv, Begin \/ OpenCodec \/ OpenSL \/ PrimeSL \/ Start
  PROVE  IInv'
  <1> USE BoundsAssumption
          DEF IInv, TypeOK, mainVars, readerVars, queueVars, decodeVars, slVars
  <1>1. CASE OpenCodec
    <2>1. TypeOK'
      BY <1>1 DEF OpenCodec
    <2>2. StreamInv'
      BY <1>1 DEF OpenCodec, StreamInv, AudioPackets
    <2>3. ReaderInv' /\ QueueBounded'
      BY <1>1 DEF OpenCodec, ReaderInv, QueueBounded
    <2>4. CallbackInv'
      BY <1>1 DEF OpenCodec, CallbackInv, ReaderInv
    <2>5. BufferInv'
      BY <1>1 DEF OpenCodec, BufferInv
    <2>6. QED
      BY <2>1, <2>2, <2>3, <2>4, <2>5
  <1>2. CASE OpenSL
    <2>1. TypeOK'
      BY <1>2 DEF OpenSL
    <2>2. StreamInv'
      BY <1>2 DEF OpenSL, StreamInv, AudioPackets
    <2>3. ReaderInv' /\ QueueBounded'
      BY <1>2 DEF OpenSL, ReaderInv, QueueBounded
    <2>4. CallbackInv'
      BY <1>2 DEF OpenSL, CallbackInv, ReaderInv
    <2>5. BufferInv'
      BY <1>2 DEF OpenSL, BufferInv
    <2>6. QED
      BY <2>1, <2>2, <2>3, <2>4, <2>5
  <1>3. CASE PrimeSL
    <2>1. TypeOK'
      BY <1>3 DEF PrimeSL
    <2>2. StreamInv'
      BY <1>3 DEF PrimeSL, StreamInv, AudioPackets
    <2>3. ReaderInv' /\ QueueBounded'
      BY <1>3 DEF PrimeSL, ReaderInv, QueueBounded
    <2>4. CallbackInv'
      BY <1>3 DEF PrimeSL, CallbackInv, ReaderInv
    <2>5. BufferInv'
      BY <1>3 DEF PrimeSL, BufferInv
    <2>6. QED
      BY <2>1, <2>2, <2>3, <2>4, <2>5
  <1>4. CASE Start
    <2>1. TypeOK'
      BY <1>4 DEF Start
    <2>2. StreamInv'
      BY <1>4 DEF Start, StreamInv, AudioPackets
    <2>3. ReaderInv' /\ QueueBounded'
      BY <1>4 DEF Start, ReaderInv, QueueBounded
    <2>4. CallbackInv'
      BY <1>4 DEF Start, CallbackInv, ReaderInv
    <2>5. BufferInv'
      BY <1>4 DEF Start, BufferInv
    <2>6. QED
      BY <2>1, <2>2, <2>3, <2>4, <2>5
  <1>5. CASE Begin
    <2>1. TypeOK'
      BY <1>5 DEF Begin
    <2>2. StreamInv'
      BY <1>5 DEF Begin, StreamInv, AudioPackets
    <2>3. ReaderInv' /\ QueueBounded'
      BY <1>5 DEF Begin, ReaderInv, QueueBounded
    <2>4. CallbackInv'
      BY <1>5 DEF Begin, CallbackInv, ReaderInv
    <2>5. BufferInv'
      BY <1>5 DEF Begin, BufferInv
    <2>6. QED
      BY <2>1, <2>2, <2>3, <2>4, <2>5
  <1>6. QED
    BY <1>1, <1>2, <1>3, <1>4, <1>5

\* The reading thread pushes only after it saw room, and stops once.
LEMMA ReaderStep ==
  ASSUME IInv, ReaderSize \/ ReaderCheck \/ ReaderRead \/ ReaderPush \/ ReaderStop
  PROVE  IInv'
  <1> USE BoundsAssumption
          DEF IInv, TypeOK, mainVars, readerVars, queueVars, decodeVars, slVars
  <1>1. CASE ReaderSize
    <2>1. TypeOK'
      BY <1>1 DEF ReaderSize
    <2>2. StreamInv'
      BY <1>1 DEF ReaderSize, StreamInv, AudioPackets
    <2>3. ReaderInv' /\ QueueBounded'
      BY <1>1 DEF ReaderSize, ReaderInv, QueueBounded
    <2>4. CallbackInv'
      BY <1>1 DEF ReaderSize, CallbackInv, ReaderInv
    <2>5. BufferInv'
      BY <1>1 DEF ReaderSize, BufferInv
    <2>6. QED
      BY <2>1, <2>2, <2>3, <2>4, <2>5
  <1>2. CASE ReaderCheck
    <2>1. TypeOK'
      BY <1>2 DEF ReaderCheck
    <2>2. StreamInv'
      BY <1>2 DEF ReaderCheck, StreamInv, AudioPackets
    <2>3. ReaderInv' /\ QueueBounded'
      BY <1>2 DEF ReaderCheck, ReaderInv, QueueBounded
    <2>4. CallbackInv'
      BY <1>2 DEF ReaderCheck, CallbackInv, ReaderInv
    <2>5. BufferInv'
      BY <1>2 DEF ReaderCheck, BufferInv
    <2>6. QED
      BY <2>1, <2>2, <2>3, <2>4, <2>5
  <1>3. CASE ReaderRead
    <2>1. TypeOK'
      BY <1>3 DEF ReaderRead
    <2>2. StreamInv'
      BY <1>3 DEF ReaderRead, StreamInv, AudioPackets
    <2>3. ReaderInv' /\ QueueBounded'
      BY <1>3 DEF ReaderRead, ReaderInv, QueueBounded
    <2>4. CallbackInv'
      BY <1>3 DEF ReaderRead, CallbackInv, ReaderInv
    <2>5. BufferInv'
      BY <1>3 DEF ReaderRead, BufferInv
    <2>6. QED
      BY <2>1, <2>2, <2>3, <2>4, <2>5
  <1>4. CASE ReaderPush
    <2>1. TypeOK'
      BY <1>4 DEF ReaderPush, Audio!Put, StreamInv, AudioPackets
    <2>2. StreamInv'
      BY <1>4, SMTT(30) DEF ReaderPush, Audio!Put, StreamInv, AudioPackets
    <2>3. ReaderInv' /\ QueueBounded'
      BY <1>4 DEF ReaderPush, Audio!Put, ReaderInv, QueueBounded
    <2>4. queue' # <<>> /\ working
      BY <1>4 DEF ReaderPush, Audio!Put, ReaderInv
    <2>5. CallbackInv'
      BY <1>4, <2>4 DEF ReaderPush, CallbackInv
    <2>6. BufferInv'
      BY <1>4 DEF ReaderPush, Audio!Put, BufferInv
    <2>7. QED
      BY <2>1, <2>2, <2>3, <2>5, <2>6
  <1>5. CASE ReaderStop
    <2>1. TypeOK'
      BY <1>5, ZenonT(30) DEF ReaderStop
    <2>2. StreamInv'
      BY <1>5 DEF ReaderStop, StreamInv, AudioPackets
    <2>3. ReaderInv' /\ QueueBounded'
      BY <1>5 DEF ReaderStop, ReaderInv, QueueBounded
    <2>4. CallbackInv'
      BY <1>5 DEF ReaderStop, CallbackInv, ReaderInv
    <2>5. BufferInv'
      BY <1>5 DEF ReaderStop, BufferInv
    <2>6. QED
      BY <2>1, <2>2, <2>3, <2>4, <2>5
  <1>6. QED
    BY <1>1, <1>2, <1>3, <1>4, <1>5

\* The callback acts only on what it has seen.
LEMMA CallbackStep ==
  ASSUME IInv, CheckWorking \/ CheckDrained \/ CheckSize \/ Pull \/ Send \/ Receive \/ Convert \/ EnqueueBuffer \/ EnqueueNothing
  PROVE  IInv'
  <1> USE BoundsAssumption
          DEF IInv, TypeOK, mainVars, readerVars, queueVars, decodeVars, slVars
  <1>1. CASE CheckWorking
    <2>1. TypeOK'
      BY <1>1 DEF CheckWorking
    <2>2. StreamInv'
      BY <1>1 DEF CheckWorking, StreamInv, AudioPackets
    <2>3. ReaderInv' /\ QueueBounded'
      BY <1>1 DEF CheckWorking, ReaderInv, QueueBounded
    <2>4. CallbackInv'
      BY <1>1 DEF CheckWorking, CallbackInv, ReaderInv
    <2>5. BufferInv'
      BY <1>1 DEF CheckWorking, BufferInv
    <2>6. QED
      BY <2>1, <2>2, <2>3, <2>4, <2>5
  <1>2. CASE CheckDrained
    <2>1. TypeOK'
      BY <1>2 DEF CheckDrained
    <2>2. StreamInv'
      BY <1>2 DEF CheckDrained, StreamInv, AudioPackets
    <2>3. ReaderInv' /\ QueueBounded'
      BY <1>2 DEF CheckDrained, ReaderInv, QueueBounded
    <2>4. CallbackInv'
      BY <1>2 DEF CheckDrained, CallbackInv, ReaderInv
    <2>5. BufferInv'
      BY <1>2 DEF CheckDrained, BufferInv
    <2>6. QED
      BY <2>1, <2>2, <2>3, <2>4, <2>5
  <1>3. CASE CheckSize
    <2>1. TypeOK'
      BY <1>3 DEF CheckSize
    <2>2. StreamInv'
      BY <1>3 DEF CheckSize, StreamInv, AudioPackets
    <2>3. ReaderInv' /\ QueueBounded'
      BY <1>3 DEF CheckSize, ReaderInv, QueueBounded
    <2>4. CallbackInv'
      BY <1>3 DEF CheckSize, CallbackInv, ReaderInv
    <2>5. BufferInv'
      BY <1>3 DEF CheckSize, BufferInv
    <2>6. QED
      BY <2>1, <2>2, <2>3, <2>4, <2>5
  <1>4. CASE Pull
    <2>1. TypeOK'
      BY <1>4 DEF Pull, Audio!Take
    <2>2. StreamInv'
      BY <1>4 DEF Pull, Audio!Take, StreamInv, AudioPackets
    <2>3. ReaderInv' /\ QueueBounded'
      BY <1>4 DEF Pull, Audio!Take, ReaderInv, QueueBounded
    <2>4. CallbackInv'
      BY <1>4 DEF Pull, Audio!Take, CallbackInv, ReaderInv
    <2>5. BufferInv'
      BY <1>4 DEF Pull, Audio!Take, BufferInv
    <2>6. QED
      BY <2>1, <2>2, <2>3, <2>4, <2>5
  <1>5. CASE Send
    <2>1. FramesIn(packet) \in Seq(Decodable)
      BY <1>5, FramesInType DEF Send, StreamInv
    <2>2. codec' \in CodecContext
      BY <1>5, <2>1, SendPacketType DEF Send
    <2>3. TypeOK'
      <3>1. /\ packet' \in 0 .. MaxPackets /\ live' \subseteq 1 .. MaxPackets
            /\ callback' \in {"receive", "working?"}
        <4>1. CASE Codec!SendPacket(codec, FramesIn(packet)).ret = Codec!OK
          BY <1>5, <4>1 DEF Send
        <4>2. CASE Codec!SendPacket(codec, FramesIn(packet)).ret # Codec!OK
          <5>1. packet' = 0 /\ live' = live \ {packet} /\ callback' = "working?"
            BY <1>5, <4>2 DEF Send, FreePacket
          <5>2. QED
            BY <5>1
        <4>3. QED
          BY <4>1, <4>2
      <3>2. QED
        BY <1>5, <2>2, <3>1 DEF Send
    <2>4. StreamInv'
      BY <1>5 DEF Send, FreePacket, StreamInv, AudioPackets
    <2>5. ReaderInv' /\ QueueBounded'
      BY <1>5 DEF Send, FreePacket, ReaderInv, QueueBounded
    <2>6. CallbackInv'
      BY <1>5 DEF Send, FreePacket, CallbackInv, ReaderInv
    <2>7. BufferInv'
      BY <1>5 DEF Send, FreePacket, BufferInv
    <2>8. QED
      BY <2>3, <2>4, <2>5, <2>6, <2>7
  <1>6. CASE Receive
    <2>1. /\ codec' \in CodecContext
          /\ callback' = "convert" => frame' \in Frames
          /\ frame' \in Frames \cup {NoFrame}
      <3>1. IsReturn(Codec!ReceiveFrame(codec))
        BY ReceiveFrameType
      <3>2. QED
        BY <1>6, <3>1 DEF Receive, IsReturn
    <2>2. TypeOK'
      <3>1. /\ packet' \in 0 .. MaxPackets /\ live' \subseteq 1 .. MaxPackets
            /\ callback' \in {"convert", "working?"}
        <4>1. CASE Codec!ReceiveFrame(codec).ret = Codec!OK
          BY <1>6, <4>1 DEF Receive
        <4>2. CASE Codec!ReceiveFrame(codec).ret # Codec!OK
          <5>1. packet' = 0 /\ live' = live \ {packet} /\ callback' = "working?"
            BY <1>6, <4>2 DEF Receive, FreePacket
          <5>2. QED
            BY <5>1
        <4>3. QED
          BY <4>1, <4>2
      <3>2. QED
        BY <1>6, <2>1, <3>1 DEF Receive
    <2>3. StreamInv'
      BY <1>6, <2>1 DEF Receive, FreePacket, StreamInv, AudioPackets
    <2>4. ReaderInv' /\ QueueBounded'
      BY <1>6 DEF Receive, FreePacket, ReaderInv, QueueBounded
    <2>5. CallbackInv'
      BY <1>6 DEF Receive, FreePacket, CallbackInv, ReaderInv
    <2>6. BufferInv'
      BY <1>6 DEF Receive, FreePacket, BufferInv
    <2>7. QED
      BY <2>2, <2>3, <2>4, <2>5, <2>6
  <1>7. CASE Convert
    <2>1. TypeOK'
      BY <1>7 DEF Convert, FreePacket
    <2>2. StreamInv'
      BY <1>7 DEF Convert, FreePacket, StreamInv, AudioPackets
    <2>3. ReaderInv' /\ QueueBounded'
      BY <1>7 DEF Convert, FreePacket, ReaderInv, QueueBounded
    <2>4. CallbackInv'
      BY <1>7 DEF Convert, FreePacket, CallbackInv, ReaderInv
    <2>5. BufferInv'
      BY <1>7 DEF Convert, FreePacket, BufferInv
    <2>6. QED
      BY <2>1, <2>2, <2>3, <2>4, <2>5
  <1>8. CASE EnqueueBuffer
    <2>1. TypeOK'
      BY <1>8 DEF EnqueueBuffer
    <2>2. StreamInv'
      BY <1>8 DEF EnqueueBuffer, StreamInv, AudioPackets
    <2>3. ReaderInv' /\ QueueBounded'
      BY <1>8 DEF EnqueueBuffer, ReaderInv, QueueBounded
    <2>4. CallbackInv'
      BY <1>8 DEF EnqueueBuffer, CallbackInv, ReaderInv
    <2>5. BufferInv'
      BY <1>8 DEF EnqueueBuffer, BufferInv
    <2>6. QED
      BY <2>1, <2>2, <2>3, <2>4, <2>5
  <1>9. CASE EnqueueNothing
    <2>1. TypeOK'
      BY <1>9 DEF EnqueueNothing
    <2>2. StreamInv'
      BY <1>9 DEF EnqueueNothing, StreamInv, AudioPackets
    <2>3. ReaderInv' /\ QueueBounded'
      BY <1>9 DEF EnqueueNothing, ReaderInv, QueueBounded
    <2>4. CallbackInv'
      BY <1>9 DEF EnqueueNothing, CallbackInv, ReaderInv
    <2>5. BufferInv'
      BY <1>9 DEF EnqueueNothing, BufferInv
    <2>6. QED
      BY <2>1, <2>2, <2>3, <2>4, <2>5
  <1>10. QED
    BY <1>1, <1>2, <1>3, <1>4, <1>5, <1>6, <1>7, <1>8, <1>9

\* OpenSL gives its buffer back before the callback runs.
LEMMA PlayedStep ==
  ASSUME IInv, SLPlayed
  PROVE  IInv'
  <1> USE BoundsAssumption
          DEF IInv, TypeOK, mainVars, readerVars, queueVars, decodeVars, slVars
  <1>1. CASE SLPlayed
    <2>1. TypeOK'
      BY <1>1 DEF SLPlayed
    <2>2. StreamInv'
      BY <1>1 DEF SLPlayed, StreamInv, AudioPackets
    <2>3. ReaderInv' /\ QueueBounded'
      BY <1>1 DEF SLPlayed, ReaderInv, QueueBounded
    <2>4. CallbackInv'
      BY <1>1 DEF SLPlayed, CallbackInv, ReaderInv
    <2>5. BufferInv'
      BY <1>1 DEF SLPlayed, BufferInv
    <2>6. QED
      BY <2>1, <2>2, <2>3, <2>4, <2>5
  <1>2. QED
    BY <1>1

LEMMA NextIInv == IInv /\ [Next]_vars => IInv'
  <1> SUFFICES ASSUME IInv, [Next]_vars PROVE IInv'
    OBVIOUS
  <1>1. CASE UNCHANGED vars
    BY <1>1 DEF vars, mainVars, readerVars, queueVars, decodeVars, slVars, IInv, TypeOK,
                StreamInv, AudioPackets, ReaderInv, QueueBounded, CallbackInv, BufferInv
  <1>2. CASE Next
    BY <1>2, PrepareStep, ReaderStep, CallbackStep, PlayedStep
       DEF Next, Prepare, Reader, Callback, CheckEnd
  <1>3. QED
    BY <1>1, <1>2

\* The inductive invariant holds for every limit and every file.
THEOREM Invariance == Spec => []IInv
  BY InitIInv, NextIInv, PTL DEF Spec

\* Every variable keeps its type: in particular no error of the decoder is ever
\* taken for a frame and written to outAudioBuffer.
THEOREM TypeCorrect == Spec => []TypeOK
  <1>1. IInv => TypeOK
    BY DEF IInv
  <1>2. QED
    BY <1>1, Invariance, PTL

\* The stale size readingThread acts on never lets the queue grow past one more
\* than its limit.
THEOREM QueueIsBounded == Spec => []QueueBounded
  <1>1. IInv => QueueBounded
    BY DEF IInv
  <1>2. QED
    BY <1>1, Invariance, PTL

\* OpenSL's thread never blocks in pull().
THEOREM PullIsImmediate == Spec => []PullNeverBlocks
  <1>1. IInv => PullNeverBlocks
    BY DEF IInv, CallbackInv, PullNeverBlocks
  <1>2. QED
    BY <1>1, Invariance, PTL

\* decodeAudioPacket() reports the end only when nothing is left to decode.
THEOREM EndIsDrained == Spec => []StopsOnlyWhenDrained
  <1>1. IInv => StopsOnlyWhenDrained
    BY DEF IInv, CallbackInv, ReaderInv, StopsOnlyWhenDrained
  <1>2. QED
    BY <1>1, Invariance, PTL

\* The callback never writes the buffer that OpenSL holds.
THEOREM BufferIsExclusive == Spec => []BufferFreeForWriting
  <1>1. IInv => BufferFreeForWriting
    BY DEF IInv, BufferInv, BufferFreeForWriting
  <1>2. QED
    BY <1>1, Invariance, PTL
=============================================================================
