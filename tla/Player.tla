-------------------------------- MODULE Player --------------------------------
(***************************************************************************)
(* The first player (cpp/Player.cpp): getStreamInfo() starts three threads,*)
(* reading_packet() creates the two packet queues and fills them,          *)
(* videoDecoding_packet() and audioDecoding_packet() pull, decode and show *)
(* or play one packet after the other and in the end delete their queue.   *)
(* The two decoding threads are one action schema over the streams.  The   *)
(* queues are used as PacketFifo states them; the file is a sequence of    *)
(* packets, each of a stream or of "other" streams, which are not played.  *)
(***************************************************************************)
EXTENDS Integers, Sequences, FiniteSets

CONSTANT MaxPackets     \* the length of the longest file (a bound)

ASSUME MaxPacketsAssumption == MaxPackets \in Nat

Streams == {"video", "audio"}

VARIABLES
  file,       \* the stream of each packet of the file
  pos,        \* the packets av_read_frame() has returned
  reader,     \* where reading_packet() is
  created,    \* the streams whose queue reading_packet() has created
  deleted,    \* the streams whose queue the decoding thread has deleted
  queue,      \* queue[s]: the packets in the queue of stream s
  working,    \* queue[s]->working
  decoder,    \* decoder[s]: where the decoding thread of s is
  start,      \* videoStart and audioStart
  packet,     \* packet[s]: the local avPacket of the decoding thread, 0 if empty
  decoded,    \* history: the packets given to the decoder of s
  live,       \* the packets whose memory has not been freed
  crashed     \* a thread has followed the null pointer of a missing queue

readerVars == <<file, pos, reader, created>>
decoderVars == <<deleted, decoder, start, packet, decoded>>
vars == <<readerVars, decoderVars, queue, working, live, crashed>>

Init == /\ file \in UNION {[1 .. n -> Streams \cup {"other"}] : n \in 0 .. MaxPackets}
        /\ pos = 0
        /\ reader = "create"
        /\ created = {}
        /\ deleted = {}
        /\ queue = [s \in Streams |-> <<>>]
        /\ working = [s \in Streams |-> TRUE]
        /\ decoder = [s \in Streams |-> "while"]
        /\ start = [s \in Streams |-> TRUE]
        /\ packet = [s \in Streams |-> 0]
        /\ decoded = [s \in Streams |-> <<>>]
        /\ live = {}
        /\ crashed = FALSE

-----------------------------------------------------------------------------
(* reading_packet() *)

\* The decoding threads already run when the queues are created, video first.
CreateQueue == /\ reader = "create"
               /\ created' = created \cup {IF "video" \in created THEN "audio" ELSE "video"}
               /\ reader' = IF created' = Streams THEN "size" ELSE "create"
               /\ UNCHANGED <<file, pos, decoderVars, queue, working, live, crashed>>

\* Over 100 packets: wait 100 ms, then read the next packet all the same.
ReadSize == /\ reader = "size"
            /\ reader' = "read"
            /\ UNCHANGED <<file, pos, created, decoderVars, queue, working, live, crashed>>

ReadPacket == /\ reader = "read"
              /\ pos < Len(file)
              /\ pos' = pos + 1
              /\ live' = live \cup {pos'}
              /\ reader' = IF file[pos'] \in Streams THEN "push" ELSE "size"
              /\ UNCHANGED <<file, created, decoderVars, queue, working, crashed>>

Push == /\ reader = "push"
        /\ queue' = [queue EXCEPT ![file[pos]] = Append(@, pos)]
        /\ reader' = "size"
        /\ UNCHANGED <<file, pos, created, decoderVars, working, live, crashed>>

\* Mutant of StopVideo: the thread does not leave its loop.
StopVideoLoops == /\ reader = "read"
                  /\ pos = Len(file)
                  /\ working' = [s \in Streams |-> FALSE]
                  /\ reader' = "size"
                  /\ UNCHANGED <<file, pos, created, decoderVars, queue, live, crashed>>

\* Mutant of StopVideo: the blank packet of the end of the file is pushed.
StopVideoPushes == /\ reader = "read"
                   /\ pos = Len(file)
                   /\ working' = [working EXCEPT !["video"] = FALSE]
                   /\ queue' = [queue EXCEPT !["video"] = Append(@, pos + 1)]
                   /\ reader' = "stop audio"
                   /\ UNCHANGED <<file, pos, created, decoderVars, live, crashed>>

\* The end of the file: the packet just allocated is not freed.
StopVideo == /\ reader = "read"
             /\ pos = Len(file)
             /\ working' = [working EXCEPT !["video"] = FALSE]
             /\ live' = live \cup {Len(file) + 1}
             /\ reader' = "stop audio"
             /\ UNCHANGED <<file, pos, created, decoderVars, queue, crashed>>

StopAudio == /\ reader = "stop audio"
             /\ working' = [working EXCEPT !["audio"] = FALSE]
             /\ reader' = "done"
             /\ UNCHANGED <<file, pos, created, decoderVars, queue, live, crashed>>

-----------------------------------------------------------------------------
(* videoDecoding_packet() and audioDecoding_packet() *)

Goto(s, to) == decoder' = [decoder EXCEPT ![s] = to]

While(s) == /\ decoder[s] = "while"
            /\ Goto(s, IF start[s] THEN "pull" ELSE "delete")
            /\ UNCHANGED <<readerVars, deleted, start, packet, decoded, queue, working,
                           live, crashed>>

PullNull(s) == /\ decoder[s] = "pull"
               /\ s \notin created
               /\ crashed' = TRUE
               /\ UNCHANGED <<readerVars, decoderVars, queue, working, live>>

\* Mutant of Pull: the thread wrongly waits for a second packet.
PullTooLate(s) == /\ decoder[s] = "pull"
                  /\ s \in created
                  /\ Len(queue[s]) > 1
                  /\ packet' = [packet EXCEPT ![s] = Head(queue[s])]
                  /\ queue' = [queue EXCEPT ![s] = Tail(@)]
                  /\ Goto(s, "working?")
                  /\ UNCHANGED <<readerVars, deleted, start, decoded, working, live, crashed>>

\* Mutant of TakeFrom: back() is copied, front() is popped.
TakeFromBack(s) == /\ queue[s] # <<>>
                   /\ packet' = [packet EXCEPT ![s] = queue[s][Len(queue[s])]]
                   /\ queue' = [queue EXCEPT ![s] = Tail(@)]

\* AVPacketQueue::pull() waits for a packet, whose data moves to outPacket.
TakeFrom(s) == /\ queue[s] # <<>>
               /\ packet' = [packet EXCEPT ![s] = Head(queue[s])]
               /\ queue' = [queue EXCEPT ![s] = Tail(@)]

Pull(s) == /\ decoder[s] = "pull"
           /\ s \in created
           /\ TakeFrom(s)
           /\ Goto(s, "working?")
           /\ UNCHANGED <<readerVars, deleted, start, decoded, working, live, crashed>>

CheckWorking(s) == /\ decoder[s] = "working?"
                   /\ Goto(s, IF working[s] THEN "decode" ELSE "size?")
                   /\ UNCHANGED <<readerVars, deleted, start, packet, decoded, queue,
                                  working, live, crashed>>

\* The queue no longer works and is empty: this packet is the last.
CheckSize(s) == /\ decoder[s] = "size?"
                /\ start' = [start EXCEPT ![s] = @ /\ queue[s] # <<>>]
                /\ Goto(s, "decode")
                /\ UNCHANGED <<readerVars, deleted, packet, decoded, queue, working, live,
                               crashed>>

\* Mutant of CheckEnd: size() == 0 && !isWorking().
CheckEndSwapped(s) ==
  /\ \/ /\ decoder[s] = "working?"
        /\ Goto(s, IF queue[s] = <<>> THEN "size?" ELSE "decode")
        /\ UNCHANGED start
     \/ /\ decoder[s] = "size?"
        /\ Goto(s, "decode")
        /\ start' = [start EXCEPT ![s] = @ /\ working[s]]
  /\ UNCHANGED <<readerVars, deleted, packet, decoded, queue, working, live, crashed>>

\* !isWorking() && size() == 0, in this order.
CheckEnd(s) == CheckWorking(s) \/ CheckSize(s)

\* Mutant of Decode: the packet is not freed when the decoder fails.
DecodeLeaks(s) == /\ decoder[s] = "decode"
                  /\ decoded' = [decoded EXCEPT ![s] = Append(@, packet[s])]
                  /\ packet' = [packet EXCEPT ![s] = 0]
                  /\ live' \in {live, live \ {packet[s]}}
                  /\ Goto(s, "while")
                  /\ UNCHANGED <<readerVars, deleted, start, queue, working, crashed>>

\* avcodec_send_packet(), avcodec_receive_frame() and the output: whether they
\* succeed or not, the packet is freed.
Decode(s) == /\ decoder[s] = "decode"
             /\ decoded' = [decoded EXCEPT ![s] = Append(@, packet[s])]
             /\ packet' = [packet EXCEPT ![s] = 0]
             /\ live' = live \ {packet[s]}
             /\ Goto(s, "while")
             /\ UNCHANGED <<readerVars, deleted, start, queue, working, crashed>>

\* AVPacketQueue::freeAVPacket(), the destructor, frees what is still queued.
FreeAVPacket(s) == /\ queue' = [queue EXCEPT ![s] = <<>>]
                   /\ live' = live \ {queue[s][i] : i \in 1 .. Len(queue[s])}

Delete(s) == /\ decoder[s] = "delete"
             /\ deleted' = deleted \cup {s}
             /\ FreeAVPacket(s)
             /\ Goto(s, "done")
             /\ UNCHANGED <<readerVars, start, packet, decoded, working, crashed>>

-----------------------------------------------------------------------------
Reader == CreateQueue \/ ReadSize \/ ReadPacket \/ Push \/ StopVideo \/ StopAudio

Decoder(s) == \/ While(s) \/ PullNull(s) \/ Pull(s) \/ CheckEnd(s)
              \/ Decode(s) \/ Delete(s)

\* A crash ends the process and its three threads.
Next == ~crashed /\ (Reader \/ \E s \in Streams : Decoder(s))

Spec == Init /\ [][Next]_vars

\* The threads that can go on do.
LiveSpec == /\ Spec
            /\ WF_vars(~crashed /\ Reader)
            /\ \A s \in Streams : WF_vars(~crashed /\ Decoder(s))

-----------------------------------------------------------------------------
PacketsOf(s) == {p \in 1 .. Len(file) : file[p] = s}

Queued(s) == {queue[s][i] : i \in 1 .. Len(queue[s])}

\* Every variable has its type.
TypeOK == /\ file \in Seq(Streams \cup {"other"}) /\ Len(file) <= MaxPackets
          /\ pos \in 0 .. Len(file)
          /\ reader \in {"create", "size", "read", "push", "stop audio", "done"}
          /\ created \subseteq Streams /\ deleted \subseteq Streams
          /\ queue \in [Streams -> Seq(1 .. MaxPackets)]
          /\ working \in [Streams -> BOOLEAN]
          /\ decoder \in [Streams -> {"while", "pull", "working?", "size?", "decode",
                                      "delete", "done"}]
          /\ start \in [Streams -> BOOLEAN]
          /\ packet \in [Streams -> 0 .. MaxPackets]
          /\ decoded \in [Streams -> Seq(1 .. MaxPackets)]
          /\ live \subseteq 1 .. MaxPackets + 1
          /\ crashed \in BOOLEAN

\* The queues the reading thread is about to call a function of.
Touched == CASE reader \in {"size", "read"} -> Streams
             [] reader = "push"             -> {file[pos]}
             [] reader = "stop audio"       -> {"audio"}
             [] reader \in {"create", "done"} -> {}

\* A decoding thread deletes its queue while the reading thread may still run,
\* but never a queue that thread is going to use.
NoUseAfterDelete == Touched \cap deleted = {}

\* A decoding thread that ends has decoded every packet of its stream, in the
\* file's order, and its queue was empty when it was deleted.
EndsWithAllDecoded == \A s \in Streams : decoder[s] \in {"delete", "done"} =>
  /\ queue[s] = <<>>
  /\ \A i, j \in 1 .. Len(decoded[s]) : i < j => decoded[s][i] < decoded[s][j]
  /\ {decoded[s][i] : i \in 1 .. Len(decoded[s])} = PacketsOf(s)

Earlier(p, q) == p < q

Ended(s) == decoder[s] \in {"delete", "done"}

Video == INSTANCE Playback WITH
           Before <- Earlier, frames <- PacketsOf("video"), lossy <- FALSE,
           played <- decoded["video"], ended <- Ended("video")

Sound == INSTANCE Playback WITH
           Before <- Earlier, frames <- PacketsOf("audio"), lossy <- FALSE,
           played <- decoded["audio"], ended <- Ended("audio")

\* For each stream the pipeline implements Playback with the stream's packets:
\* the next packet decoded is always the very next one of the file, and the
\* decoding thread takes for the end of its stream nothing but the end.
ImplementsPlayback == Video!Spec /\ Sound!Spec

\* Each packet of a played stream is in its queue, in the hands of one thread,
\* or freed; only the packets of other streams and the one allocated at the end
\* of the file leak.
StreamPacketsFreed == \A s \in Streams :
  {p \in live \cap 1 .. Len(file) : file[p] = s} =
    Queued(s) \cup ({packet[s]} \ {0})
              \cup (IF reader = "push" /\ file[pos] = s THEN {pos} ELSE {})

\* A packet that has been pushed is decoded, unless the threads crash at once.
PushedIsDecoded == ([]~crashed) =>
  \A s \in Streams : \A p \in 1 .. MaxPackets :
    p \in Queued(s) ~> \E i \in 1 .. Len(decoded[s]) : decoded[s][i] = p

\* Playing a file with packets of both streams, the decoding threads find out
\* that they can stop (Player.cpp:355-357) and end.  A thread that took its last packet
\* before stopWorking() calls pull() again and waits for ever: stopWorking()
\* signals nobody.
DecodingEnds == []~crashed /\ (\A s \in Streams : \E p \in 1 .. Len(file) : file[p] = s)
                  => \A s \in Streams : <>(decoder[s] = "done")
=============================================================================
