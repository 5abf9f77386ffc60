-------------------------------- MODULE FFAudio --------------------------------
(***************************************************************************)
(* One FFAudio playing one file: prepare() of FFAudioJNINative.cpp sets up *)
(* OpenSL ES and starts the thread that reads packets (readingThread);     *)
(* OpenSL ES calls slBufferQueueCallback() whenever it has played a        *)
(* buffer, and the callback decodes the next packet into the one PCM       *)
(* buffer, outAudioBuffer.  The two threads share an AVPacketQueue, used   *)
(* as PacketFifo states it.  A step is what a thread does between two      *)
(* accesses to what the threads share.                                     *)
(***************************************************************************)
EXTENDS Integers, Sequences, FiniteSets

CONSTANTS Limit,      \* readingThread pauses while the queue holds more (50)
          Kinds,      \* the kinds of packets a file may contain
          MaxPackets  \* the length of the longest file (a bound)

\* What a packet turns into.  An audio packet normally gives one frame; it may
\* give none, give two, make the decoder fail, or give a frame swr_convert()
\* cannot convert.  A packet of any other stream is a "video" packet.
AllKinds == {"frame", "silent", "double", "corrupt", "unconvertible", "video"}

ASSUME KindsAssumption == Kinds \subseteq AllKinds
ASSUME BoundsAssumption == Limit \in Nat /\ MaxPackets \in Nat

NoFrame == <<0, 0>>     \* what outAudioBuffer holds before the first frame

VARIABLES
  file,        \* the packets of the file, a sequence of kinds
  pos,         \* the packets av_read_frame() has returned
  setup,       \* where prepare() is
  reader,      \* where readingThread is
  packetSize,  \* its local of that name
  queue,       \* audioQueue->packetQueue: indices into file
  pulled,      \* history: the packets pull() has returned, by consumer
  working,     \* audioQueue->working
  callback,    \* where slBufferQueueCallback() is
  packet,      \* the local of decodeAudioPacket(), 0 when there is none
  codec,       \* *codecContext
  frame,       \* the local of decodeAudioPacket()
  buffer,      \* the frame whose samples are in outAudioBuffer
  sl,          \* the OpenSL player: "off", "playing", "refused", "ended"
  slQueued,    \* how many buffers OpenSL holds: all of them outAudioBuffer
  played,      \* history: the frames OpenSL has played
  live         \* the packets whose memory has not been freed

mainVars == <<file, setup>>
readerVars == <<pos, reader, packetSize>>
queueVars == <<queue, pulled, working>>
decodeVars == <<packet, codec, frame, buffer>>
slVars == <<sl, slQueued, played>>
vars == <<mainVars, readerVars, queueVars, callback, decodeVars, slVars, live>>

Audio == INSTANCE PacketFifo WITH
           Packets <- 1 .. MaxPackets, Consumers <- {"callback"},
           buffer <- queue, got <- pulled

\* The frames of packet p; number 0 stands for an error of the decoder.
FramesIn(p) == CASE file[p] \in {"frame", "unconvertible"} -> <<<<p, 1>>>>
                 [] file[p] = "double"  -> <<<<p, 1>>, <<p, 2>>>>
                 [] file[p] = "corrupt" -> <<<<p, 0>>>>
                 [] file[p] = "silent"  -> <<>>

IsCorrupt(f) == f[2] = 0

Codec == INSTANCE Decoder WITH Corrupt <- IsCorrupt

Init == /\ file \in UNION {[1 .. n -> Kinds] : n \in 0 .. MaxPackets}
        /\ pos = 0
        /\ setup = "onCreate"
        /\ reader = "none"
        /\ packetSize = 0
        /\ Audio!Init
        /\ working = TRUE
        /\ callback = "idle"
        /\ packet = 0
        /\ codec = Codec!NewContext
        /\ frame = NoFrame
        /\ buffer = NoFrame
        /\ sl = "off"
        /\ slQueued = 0
        /\ played = <<>>
        /\ live = {}

-----------------------------------------------------------------------------
(* prepare() of FFAudioJNINative.cpp calls FFAudio::prepare(), then start(). *)

\* Before that, the file is opened and an FFAudio constructed and made the global
\* one; a missing file, or one without audio, ends the process.
Begin == /\ \/ setup = "onCreate" /\ setup' \in {"construct", "crash"}
            \/ setup = "construct" /\ setup' = "publish"
            \/ setup = "publish" /\ setup' = "codec"
         /\ UNCHANGED <<file, readerVars, queueVars, callback, decodeVars, slVars, live>>

\* avcodec_open2(): when it fails, prepare() goes on to start() all the same.
OpenCodec == /\ setup = "codec"
             /\ setup' \in {"opensl", "start"}
             /\ UNCHANGED <<file, readerVars, queueVars, callback, decodeVars, slVars, live>>

\* prepareOpenSL() up to SetPlayState(PLAYING): any step may fail and return.
OpenSL == /\ setup = "opensl"
          /\ setup' \in {"enqueue", "start"}
          /\ UNCHANGED <<file, readerVars, queueVars, callback, decodeVars, slVars, live>>

\* Mutant of PrimeSL: fill the buffer queue of numBuffers = 2.
PrimeSLTwice == /\ setup = "enqueue"
                /\ setup' = "start"
                /\ sl' = "playing" /\ slQueued' = 2
                /\ UNCHANGED <<file, readerVars, queueVars, callback, decodeVars, played, live>>

\* The first Enqueue(outAudioBuffer, 1) starts the callbacks, or fails.
PrimeSL == /\ setup = "enqueue"
           /\ setup' = "start"
           /\ \/ sl' = "playing" /\ slQueued' = slQueued + 1
              \/ UNCHANGED <<sl, slQueued>>
           /\ UNCHANGED <<file, readerVars, queueVars, callback, decodeVars, played, live>>

\* start(): the result of pthread_create() is ignored.
Start == /\ setup = "start"
         /\ setup' = "done"
         /\ \/ reader' = "size"
            \/ UNCHANGED reader
         /\ UNCHANGED <<file, pos, packetSize, queueVars, callback, decodeVars, slVars, live>>

-----------------------------------------------------------------------------
(* readingThread() *)

ReaderSize == /\ reader = "size"
              /\ packetSize' = Len(queue)
              /\ reader' = "check"
              /\ UNCHANGED <<mainVars, pos, queueVars, callback, decodeVars, slVars, live>>

\* Mutant of ReaderCheck: the condition is off by one.
ReaderCheckLoose == /\ reader = "check"
                    /\ reader' = IF packetSize > Limit + 1 /\ working THEN "size" ELSE "read"
                    /\ UNCHANGED <<mainVars, pos, packetSize, queueVars, callback,
                                   decodeVars, slVars, live>>

\* Too many packets: look again, without sleeping.
ReaderCheck == /\ reader = "check"
               /\ reader' = IF packetSize > Limit /\ working THEN "size" ELSE "read"
               /\ UNCHANGED <<mainVars, pos, packetSize, queueVars, callback, decodeVars,
                              slVars, live>>

\* av_read_frame() returns the next packet, of whatever stream.  Audio is
\* pushed next; nothing is done with another packet, not even av_packet_free.
ReaderRead == /\ reader = "read"
              /\ pos < Len(file)
              /\ pos' = pos + 1
              /\ live' = live \cup {pos'}
              /\ reader' = IF file[pos'] = "video" THEN "size" ELSE "push"
              /\ UNCHANGED <<mainVars, packetSize, queueVars, callback, decodeVars, slVars>>

ReaderPush == /\ reader = "push"
              /\ Audio!Put(pos)
              /\ reader' = "size"
              /\ UNCHANGED <<mainVars, pos, packetSize, working, callback, decodeVars,
                             slVars, live>>

\* Mutant of ReaderStop: stopWorking() is not called.
ReaderStopSilent == /\ reader = "read"
                    /\ pos = Len(file)
                    /\ reader' = "stopped"
                    /\ UNCHANGED <<mainVars, pos, packetSize, queueVars, callback, decodeVars,
                                   slVars, live>>

\* The end of the file: the packet just allocated is freed.
ReaderStop == /\ reader = "read"
              /\ pos = Len(file)
              /\ working' = FALSE
              /\ reader' = "stopped"
              /\ UNCHANGED <<mainVars, pos, packetSize, queue, pulled, callback, decodeVars,
                             slVars, live>>

-----------------------------------------------------------------------------
(* slBufferQueueCallback() and decodeAudioPacket() *)

\* OpenSL has played a buffer and calls back.
SLPlayed == /\ slQueued > 0
            /\ callback = "idle"
            /\ slQueued' = slQueued - 1
            /\ played' = IF buffer = NoFrame THEN played ELSE Append(played, buffer)
            /\ callback' = "working?"
            /\ UNCHANGED <<mainVars, readerVars, queueVars, decodeVars, sl, live>>

CheckWorking == /\ callback = "working?"
                /\ callback' = IF working THEN "size?" ELSE "drained?"
                /\ UNCHANGED <<mainVars, readerVars, queueVars, decodeVars, slVars, live>>

CheckDrained == /\ callback = "drained?"
                /\ callback' = IF queue = <<>> THEN "nothing" ELSE "size?"
                /\ UNCHANGED <<mainVars, readerVars, queueVars, decodeVars, slVars, live>>

\* Mutant of CheckEnd: size() == 0 && !isWorking().
CheckEndSwapped ==
  /\ \/ callback = "working?" /\ callback' = IF queue = <<>> THEN "drained?" ELSE "size?"
     \/ callback = "drained?" /\ callback' = IF working THEN "size?" ELSE "nothing"
  /\ UNCHANGED <<mainVars, readerVars, queueVars, decodeVars, slVars, live>>

\* !isWorking() && size() == 0, in this order.
CheckEnd == CheckWorking \/ CheckDrained

\* Mutant of CheckSize: pull() is called without looking at size().
CheckSizeSkipped == /\ callback = "size?"
                    /\ callback' = "pull"
                    /\ UNCHANGED <<mainVars, readerVars, queueVars, decodeVars, slVars, live>>

\* Mutant of CheckSize: an empty queue is taken for the end of the file.
CheckSizeEnds == /\ callback = "size?"
                 /\ callback' = IF queue = <<>> THEN "nothing" ELSE "pull"
                 /\ UNCHANGED <<mainVars, readerVars, queueVars, decodeVars, slVars, live>>

CheckSize == /\ callback = "size?"
             /\ callback' = IF queue = <<>> THEN "working?" ELSE "pull"
             /\ UNCHANGED <<mainVars, readerVars, queueVars, decodeVars, slVars, live>>

\* pull(): the data moves to the callback's own packet, the queue's is freed.
Pull == /\ callback = "pull"
        /\ Audio!Take("callback")
        /\ packet' = Head(queue)
        /\ callback' = "send"
        /\ UNCHANGED <<mainVars, readerVars, working, codec, frame, buffer, slVars, live>>

\* av_packet_free(&packet), on every way out of the loop's body.
FreePacket == packet' = 0 /\ live' = live \ {packet}

\* Mutant of Send: the packet the decoder refused is not freed.
SendLeaks == /\ callback = "send"
             /\ LET r == Codec!SendPacket(codec, FramesIn(packet))
                IN  /\ codec' = r.codec
                    /\ IF r.ret = Codec!OK
                       THEN callback' = "receive" /\ UNCHANGED packet
                       ELSE callback' = "working?" /\ packet' = 0
             /\ UNCHANGED <<mainVars, readerVars, queueVars, frame, buffer, slVars, live>>

\* avcodec_send_packet(); whatever the error, the packet is dropped.
Send == /\ callback = "send"
        /\ LET r == Codec!SendPacket(codec, FramesIn(packet))
           IN  /\ codec' = r.codec
               /\ IF r.ret = Codec!OK
                  THEN callback' = "receive" /\ UNCHANGED <<packet, live>>
                  ELSE callback' = "working?" /\ FreePacket
        /\ UNCHANGED <<mainVars, readerVars, queueVars, frame, buffer, slVars>>

\* Mutant of Receive: the result is not checked; no frame, no samples, no bytes.
ReceiveUnchecked == /\ callback = "receive"
                    /\ LET r == Codec!ReceiveFrame(codec)
                       IN  /\ codec' = r.codec
                           /\ IF r.ret = Codec!OK
                              THEN /\ callback' = "convert"
                                   /\ frame' = Head(r.frame)
                                   /\ UNCHANGED <<packet, live>>
                              ELSE /\ callback' = "nothing"
                                   /\ FreePacket
                                   /\ UNCHANGED frame
                    /\ UNCHANGED <<mainVars, readerVars, queueVars, buffer, slVars>>

\* avcodec_receive_frame(), once per packet sent.
Receive == /\ callback = "receive"
           /\ LET r == Codec!ReceiveFrame(codec)
              IN  /\ codec' = r.codec
                  /\ IF r.ret = Codec!OK
                     THEN /\ callback' = "convert"
                          /\ frame' = Head(r.frame)
                          /\ UNCHANGED <<packet, live>>
                     ELSE /\ callback' = "working?"
                          /\ FreePacket
                          /\ UNCHANGED frame
           /\ UNCHANGED <<mainVars, readerVars, queueVars, buffer, slVars>>

\* Mutant of Convert: a failed conversion plays the buffer as it is.
ConvertUnchecked == /\ callback = "convert"
                    /\ buffer' = IF file[frame[1]] = "unconvertible" THEN buffer ELSE frame
                    /\ callback' = "enqueue"
                    /\ FreePacket
                    /\ UNCHANGED <<mainVars, readerVars, queueVars, codec, frame, slVars>>

\* swr_convert() writes outAudioBuffer, unless it fails.
Convert == /\ callback = "convert"
           /\ IF file[frame[1]] = "unconvertible"
              THEN callback' = "working?" /\ UNCHANGED buffer
              ELSE callback' = "enqueue" /\ buffer' = frame
           /\ FreePacket
           /\ UNCHANGED <<mainVars, readerVars, queueVars, codec, frame, slVars>>

\* Enqueue(outAudioBuffer, bufferSize): after a failure nobody calls back.
EnqueueBuffer == /\ callback = "enqueue"
                 /\ callback' = "idle"
                 /\ \/ slQueued' = slQueued + 1 /\ UNCHANGED sl
                    \/ sl' = "refused" /\ UNCHANGED slQueued
                 /\ UNCHANGED <<mainVars, readerVars, queueVars, decodeVars, played, live>>

\* decodeAudioPacket() returned 0: OpenSL refuses a buffer of no bytes, which
\* is how playback ends.
EnqueueNothing == /\ callback = "nothing"
                  /\ callback' = "idle"
                  /\ sl' = "ended"
                  /\ UNCHANGED <<mainVars, readerVars, queueVars, decodeVars, slQueued,
                                 played, live>>

-----------------------------------------------------------------------------
Prepare == Begin \/ OpenCodec \/ OpenSL \/ PrimeSL \/ Start

Reader == ReaderSize \/ ReaderCheck \/ ReaderRead \/ ReaderPush \/ ReaderStop

Callback == \/ CheckEnd \/ CheckSize \/ Pull
            \/ Send \/ Receive \/ Convert \/ EnqueueBuffer \/ EnqueueNothing

Next == Prepare \/ Reader \/ Callback \/ SLPlayed

Spec == Init /\ [][Next]_vars

\* No thread is stopped for ever, and OpenSL goes on playing what it holds.
LiveSpec == /\ Spec
            /\ WF_vars(Prepare) /\ WF_vars(Reader) /\ WF_vars(Callback) /\ WF_vars(SLPlayed)

-----------------------------------------------------------------------------
AudioPackets == {p \in 1 .. Len(file) : file[p] # "video"}

Frames == (1 .. MaxPackets) \X (1 .. 2)

\* What a packet may hold: frames, and errors of the decoder.
Decodable == (1 .. MaxPackets) \X (0 .. 2)

CodecContext == [slot : Seq(Seq(Decodable)), rest : Seq(Decodable), out : Seq(Frames)]

\* Every variable has its type; what has been decoded is never an error.
TypeOK == /\ file \in Seq(Kinds) /\ Len(file) <= MaxPackets
          /\ pos \in 0 .. Len(file)
          /\ setup \in {"onCreate", "crash", "construct", "publish", "codec", "opensl", "enqueue",
                       "start", "done"}
          /\ reader \in {"none", "size", "check", "read", "push", "stopped"}
          /\ packetSize \in Nat
          /\ queue \in Seq(1 .. MaxPackets)
          /\ pulled \in [{"callback"} -> Seq(1 .. MaxPackets)]
          /\ working \in BOOLEAN
          /\ callback \in {"idle", "working?", "drained?", "size?", "pull", "send",
                           "receive", "convert", "enqueue", "nothing"}
          /\ packet \in 0 .. MaxPackets
          /\ codec \in CodecContext
          /\ frame \in Frames \cup {NoFrame}
          /\ buffer \in Frames \cup {NoFrame}
          /\ sl \in {"off", "playing", "refused", "ended"}
          /\ slQueued \in Nat
          /\ played \in Seq(Frames)
          /\ live \subseteq 1 .. MaxPackets

\* The queue holds at most one packet more than the limit of readingThread,
\* although the thread decides on a size it read before and without the mutex.
QueueBounded == Len(queue) <= Limit + 1

\* decodeAudioPacket() calls pull() only when a packet is there, so OpenSL's
\* thread never sleeps in pthread_cond_wait, where stopWorking() could not wake
\* it: between its size() and its pull() nobody else takes a packet.
PullNeverBlocks == callback = "pull" => queue # <<>>

\* decodeAudioPacket() gives up only when the whole file has been read and
\* every packet pushed has been taken: isWorking() is read before size(), so a
\* packet pushed between the two reads is not overlooked.
StopsOnlyWhenDrained == callback = "nothing" \/ sl = "ended" =>
  reader = "stopped" /\ pos = Len(file) /\ queue = <<>>

\* While the callback may write outAudioBuffer, OpenSL holds no buffer: all the
\* buffers it is given are the same memory.
BufferFreeForWriting == callback # "idle" => slQueued = 0

Before(f, g) == f[1] < g[1] \/ (f[1] = g[1] /\ f[2] < g[2])

\* What OpenSL has played is in the file's order and holds no frame twice,
\* whatever the decoder and swr_convert() failed on in between.
PlayedInOrder == \A i, j \in 1 .. Len(played) : i < j => Before(played[i], played[j])

\* The frames of the file's audio that could be converted.
Playable == UNION {{FramesIn(p)[k] : k \in 1 .. Len(FramesIn(p))} :
                     p \in {q \in AudioPackets : file[q] \notin {"corrupt", "unconvertible"}}}

\* When playback has ended, each frame that could be converted has been played,
\* whatever failed in between, if no packet of the file holds two frames.
PlaysEveryFrame == sl = "ended" /\ (\A p \in AudioPackets : file[p] # "double") =>
  {played[i] : i \in 1 .. Len(played)} = Playable

\* A packet the decoder refuses with EAGAIN is kept to be sent again
\* (avcodec.h:2642-2645: "the packet should be resent").
RefusedIsResent ==
  [][callback = "send" /\ Codec!SendPacket(codec, FramesIn(packet)).ret = Codec!EAGAIN
       => packet' = packet]_vars

Sound == INSTANCE Playback WITH
           frames <- Playable, ended <- (sl = "ended"),
           lossy <- (\E p \in AudioPackets : file[p] = "double")

\* FFAudio implements Playback: frames are heard in the file's order without
\* repetition, each the very next one that can be played, and the end only after
\* the last one; a file with packets of two frames may lose some of them.
ImplementsPlayback == Sound!Spec

-----------------------------------------------------------------------------
(* One FFAudio as a session of FFAudioJNINative, the only one there is *)

It == "it"
None == "none"
One(x) == [s \in {It} |-> x]
ItIf(c) == IF c THEN It ELSE None

SessionPrepare == CASE setup = "codec" -> "prepare"
                    [] setup = "enqueue" -> "opensl"
                    [] setup \notin {"codec", "enqueue"} -> setup

Constructed == setup \notin {"onCreate", "crash", "construct"}
Published == Constructed /\ setup # "publish"

SessionReader == IF reader \in {"none", "stopped"} THEN reader ELSE "running"

\* The packet the callback has will give a frame.
GivesFrame ==
  \/ /\ callback = "send"
     /\ LET r == Codec!SendPacket(codec, FramesIn(packet))
        IN  r.ret = Codec!OK /\ Codec!ReceiveFrame(r.codec).ret = Codec!OK
  \/ callback = "receive" /\ Codec!ReceiveFrame(codec).ret = Codec!OK

Decoding == CASE callback = "nothing" -> "ended"
              [] callback \in {"idle", "convert", "enqueue"} -> callback
              [] callback \notin {"nothing", "idle", "convert", "enqueue"} ->
                   IF GivesFrame THEN "convert" ELSE "decode"

SessionCallback == CASE sl = "off" -> "off"
                     [] sl = "playing" -> Decoding
                     [] sl \in {"refused", "ended"} -> "ended"

SessionDecoding == callback \notin {"idle", "enqueue"} \/ sl = "ended"

\* The audio packets that are still to be put into the queue.
Unread == {p \in AudioPackets : p > pos \/ (p = pos /\ reader = "push")}

Session == INSTANCE FFAudioJNINative WITH
  Sessions <- {It}, NoSession <- None, Packets <- MaxPackets,
  prepare <- One(SessionPrepare), this <- One(ItIf(Published /\ setup # "codec")),
  ffAudio <- ItIf(Published), outAudioBuffer <- ItIf(Constructed),
  number <- One(IF Published THEN 1 ELSE 0), overlapped <- FALSE, mixed <- FALSE,
  reader <- One(SessionReader), readerOf <- One(ItIf(setup = "done")),
  unread <- One(Cardinality(Unread)), queue <- One(Len(queue)), working <- One(working),
  callback <- One(SessionCallback), playerOf <- One(ItIf(sl # "off")),
  slQueued <- One(ItIf(slQueued > 0)), samples <- One(ItIf(buffer # NoFrame)),
  isDecoding <- One(SessionDecoding)

\* What FFAudioJNINative assumes of one FFAudio, where a call of the decoder is
\* one step and packets are only counted, is what this module does in detail.
ImplementsSession == Session!Spec

-----------------------------------------------------------------------------
Queued == {queue[i] : i \in 1 .. Len(queue)}

\* Each audio packet is in the queue, in the hands of one thread, or freed: none
\* leaks on any of the ways out of decodeAudioPacket().
AudioPacketsFreed == live \cap AudioPackets =
  Queued \cup (IF reader = "push" THEN {pos} ELSE {}) \cup ({packet} \ {0})

\* The same for every packet av_read_frame() returned (avformat.h:2201: it must
\* be freed when it is no longer needed).
EveryPacketFreed == live =
  Queued \cup (IF reader = "push" THEN {pos} ELSE {}) \cup ({packet} \ {0})

\* Once OpenSL plays and the reading thread runs, playback comes to its end,
\* unless OpenSL refuses a buffer: the two polling loops do not wait for each
\* other for ever, with a full queue or with an empty one.
PlaybackEnds == (sl = "playing" /\ setup = "done" /\ reader # "none") ~> (sl # "playing")

\* A packet put into the queue is then decoded (FFAudioJNINative.cpp:73-74).
\* prepare() calls start() even after prepareOpenSL() has failed.
ReadIsDecoded == \A p \in 1 .. MaxPackets : p \in Queued ~> p \notin Queued
=============================================================================
