---------------------------- MODULE FFAudioJNINative ----------------------------
(***************************************************************************)
(* Several FFAudios in one process.  Every FFAudioActivity that is created *)
(* (a first start, a rotation of the screen) starts a thread that calls    *)
(* prepare() of FFAudioJNINative.cpp, and nothing waits for the thread of  *)
(* the activity before.  All of them use the global ffAudio and the static *)
(* outAudioBuffer.  A session is one such activity: its thread, the        *)
(* FFAudio this thread constructs, the memory the constructor allocates,   *)
(* the OpenSL player and the reading thread this thread creates.  What     *)
(* happens inside one FFAudio is the matter of the module FFAudio; here    *)
(* packets are only counted, and every session plays the same file.        *)
(***************************************************************************)
EXTENDS Integers

CONSTANTS Sessions, NoSession,
          Limit,      \* readingThread pauses while the queue holds more (50)
          Packets     \* the most audio packets a file has (a bound)

ASSUME SessionsAssumption == NoSession \notin Sessions
ASSUME BoundsAssumption == Limit \in Nat /\ Packets \in Nat

VARIABLES
  prepare,         \* prepare[s]: where the call of prepare() is
  this,            \* this[s]: the FFAudio whose member prepare() it is in
  ffAudio,         \* the global of FFAudioJNINative.cpp
  outAudioBuffer,  \* FFAudio::outAudioBuffer: whose memory it points to
  samples,         \* samples[b]: whose frame is in the memory b
  reader,          \* reader[s]: the reading thread that s has created
  readerOf,        \* readerOf[s]: the FFAudio whose start() s has called
  callback,        \* callback[s]: slBufferQueueCallback() of s's player
  playerOf,        \* playerOf[s]: the FFAudio that is its pContext
  slQueued,        \* slQueued[s]: the memory s's player holds
  unread,          \* unread[o]: the packets left in formatContext of o
  queue,           \* queue[o]: the packets in audioQueue of o
  working,         \* working[o]: audioQueue->working of o
  isDecoding,      \* isDecoding[o]: the member of o, shared by all its players
  number,          \* history: number[o]: o was published as the how manieth
  overlapped,      \* history: two calls of prepare() have overlapped
  mixed            \* history: an FFAudio was constructed beside one in use

globals == <<ffAudio, outAudioBuffer>>
historyVars == <<number, overlapped, mixed>>
readerVars == <<reader, readerOf, unread, working>>
playerVars == <<callback, playerOf, slQueued, samples, isDecoding>>
vars == <<prepare, this, globals, readerVars, playerVars, queue, historyVars>>

Init == /\ prepare = [s \in Sessions |-> "onCreate"]
        /\ this = [s \in Sessions |-> NoSession]
        /\ ffAudio = NoSession
        /\ outAudioBuffer = NoSession
        /\ samples = [b \in Sessions |-> NoSession]
        /\ reader = [s \in Sessions |-> "none"]
        /\ readerOf = [s \in Sessions |-> NoSession]
        /\ callback = [s \in Sessions |-> "off"]
        /\ playerOf = [s \in Sessions |-> NoSession]
        /\ slQueued = [s \in Sessions |-> NoSession]
        /\ \E n \in 0 .. Packets : unread = [o \in Sessions |-> n]
        /\ queue = [o \in Sessions |-> 0]
        /\ working = [o \in Sessions |-> TRUE]
        /\ isDecoding = [o \in Sessions |-> FALSE]
        /\ number = [o \in Sessions |-> 0]
        /\ overlapped = FALSE
        /\ mixed = FALSE

-----------------------------------------------------------------------------
(* onCreate() and prepare() *)

Goto(s, from, to) == prepare[s] = from /\ prepare' = [prepare EXCEPT ![s] = to]

\* The file is opened, its first audio stream and a decoder are found.  The
\* results are not checked: a file that is missing leaves a null context, one
\* without audio the index -1, and following either ends the process.
Open(s) == /\ \/ Goto(s, "onCreate", "construct")
              \/ Goto(s, "onCreate", "crash")
           /\ UNCHANGED <<this, globals, readerVars, playerVars, queue, historyVars>>

\* From the constructor to start() a call works on the globals.
Preparing(s) == prepare[s] \in {"publish", "prepare", "opensl", "start"}

Playing(s) == callback[s] \in {"idle", "decode", "convert", "enqueue"}

\* Mutant of Construct: the constructor assigns a local outAudioBuffer.
ConstructShadowed(s) ==
  /\ Goto(s, "construct", "publish")
  /\ overlapped' = (overlapped \/ \E t \in Sessions : Preparing(t))
  /\ mixed' = (mixed \/ \E t \in Sessions : Preparing(t) \/ Playing(t))
  /\ UNCHANGED <<this, globals, readerVars, playerVars, queue, number>>

\* The constructor replaces the static buffer; nothing frees the old one.
Construct(s) ==
  /\ Goto(s, "construct", "publish")
  /\ outAudioBuffer' = s
  /\ overlapped' = (overlapped \/ \E t \in Sessions : Preparing(t))
  /\ mixed' = (mixed \/ \E t \in Sessions : Preparing(t) \/ Playing(t))
  /\ UNCHANGED <<this, ffAudio, readerVars, playerVars, queue, number>>

NextNumber == IF ffAudio = NoSession THEN 1 ELSE number[ffAudio] + 1

\* Mutant of Publish: only the first FFAudio is kept.
PublishFirst(s) == /\ Goto(s, "publish", "prepare")
                   /\ ffAudio' = IF ffAudio = NoSession THEN s ELSE ffAudio
                   /\ number' = [number EXCEPT ![s] = NextNumber]
                   /\ UNCHANGED <<this, outAudioBuffer, readerVars, playerVars, queue,
                                  overlapped, mixed>>

\* ffAudio = new FFAudio(...)
Publish(s) == /\ Goto(s, "publish", "prepare")
              /\ ffAudio' = s
              /\ number' = [number EXCEPT ![s] = NextNumber]
              /\ UNCHANGED <<this, outAudioBuffer, readerVars, playerVars, queue,
                             overlapped, mixed>>

\* ffAudio->prepare() on what ffAudio is now; avcodec_open2() may fail.
Prepare(s) == /\ \/ Goto(s, "prepare", "opensl")
                 \/ Goto(s, "prepare", "start")
              /\ this' = [this EXCEPT ![s] = ffAudio]
              /\ UNCHANGED <<globals, readerVars, playerVars, queue, historyVars>>

\* prepareOpenSL() makes a player that calls back with this, and gives it what
\* outAudioBuffer is now; or it fails on the way.
OpenSL(s) == /\ Goto(s, "opensl", "start")
             /\ \/ /\ playerOf' = [playerOf EXCEPT ![s] = this[s]]
                   /\ slQueued' = [slQueued EXCEPT ![s] = outAudioBuffer]
                   /\ callback' = [callback EXCEPT ![s] = "idle"]
                \/ UNCHANGED <<playerOf, slQueued, callback>>
             /\ UNCHANGED <<this, globals, readerVars, samples, isDecoding, queue,
                            historyVars>>

\* Mutant of Start: a static isReading keeps a second thread from reading.
StartOnce(s) == /\ Goto(s, "start", "done")
                /\ IF \E t \in Sessions : reader[t] = "running"
                   THEN UNCHANGED <<reader, readerOf>>
                   ELSE /\ readerOf' = [readerOf EXCEPT ![s] = ffAudio]
                        /\ reader' = [reader EXCEPT ![s] = "running"]
                /\ UNCHANGED <<this, globals, unread, working, playerVars, queue,
                               historyVars>>

\* ffAudio->start() on what ffAudio is by then; pthread_create() may fail.
Start(s) == /\ Goto(s, "start", "done")
            /\ readerOf' = [readerOf EXCEPT ![s] = ffAudio]
            /\ \/ reader' = [reader EXCEPT ![s] = "running"]
               \/ UNCHANGED reader
            /\ UNCHANGED <<this, globals, unread, working, playerVars, queue, historyVars>>

-----------------------------------------------------------------------------
(* readingThread() of the FFAudio readerOf[s], as in the module FFAudio *)

ReadPacket(s) == LET o == readerOf[s]
                 IN  /\ reader[s] = "running"
                     /\ queue[o] <= Limit \/ ~working[o]
                     /\ unread[o] > 0
                     /\ unread' = [unread EXCEPT ![o] = @ - 1]
                     /\ queue' = [queue EXCEPT ![o] = @ + 1]
                     /\ UNCHANGED <<prepare, this, globals, reader, readerOf, working,
                                    playerVars, historyVars>>

\* Mutant of ReadEnd: stopWorking() is not called.
ReadEndSilent(s) == LET o == readerOf[s]
                    IN  /\ reader[s] = "running"
                        /\ queue[o] <= Limit \/ ~working[o]
                        /\ unread[o] = 0
                        /\ reader' = [reader EXCEPT ![s] = "stopped"]
                        /\ UNCHANGED <<prepare, this, globals, readerOf, unread, working,
                                       playerVars, queue, historyVars>>

ReadEnd(s) == LET o == readerOf[s]
              IN  /\ reader[s] = "running"
                  /\ queue[o] <= Limit \/ ~working[o]
                  /\ unread[o] = 0
                  /\ working' = [working EXCEPT ![o] = FALSE]
                  /\ reader' = [reader EXCEPT ![s] = "stopped"]
                  /\ UNCHANGED <<prepare, this, globals, readerOf, unread, playerVars, queue,
                                 historyVars>>

-----------------------------------------------------------------------------
(* slBufferQueueCallback() of the player of session s *)

Move(s, from, to) == callback[s] = from /\ callback' = [callback EXCEPT ![s] = to]

SLPlayed(s) == /\ Move(s, "idle", "decode")
               /\ slQueued[s] # NoSession
               /\ slQueued' = [slQueued EXCEPT ![s] = NoSession]
               /\ isDecoding' = [isDecoding EXCEPT ![playerOf[s]] = TRUE]
               /\ UNCHANGED <<prepare, this, globals, readerVars, playerOf, samples, queue,
                              historyVars>>

\* decodeAudioPacket() up to swr_convert(): a packet that gives no frame is
\* followed by the next one, and while there is none the callback polls.
Decode(s) == LET o == playerOf[s]
             IN  /\ \/ Move(s, "decode", "convert")
                    \/ Move(s, "decode", "decode")
                 /\ isDecoding[o]
                 /\ queue[o] > 0
                 /\ queue' = [queue EXCEPT ![o] = @ - 1]
                 /\ UNCHANGED <<prepare, this, globals, readerVars, playerOf, slQueued,
                                samples, isDecoding, historyVars>>

\* Nothing is left to decode, or another player of the same FFAudio has cleared
\* isDecoding: Enqueue() refuses a buffer of no bytes.
DecodeEnd(s) == LET o == playerOf[s]
                IN  /\ Move(s, "decode", "ended")
                    /\ \/ ~working[o] /\ queue[o] = 0
                       \/ ~isDecoding[o]
                    /\ UNCHANGED <<prepare, this, globals, readerVars, playerOf, slQueued,
                                   samples, isDecoding, queue, historyVars>>

\* Mutant of Convert: a failed conversion plays the buffer as it is.
ConvertUnchecked(s) ==
  /\ Move(s, "convert", "enqueue")
  /\ \/ samples' = [samples EXCEPT ![outAudioBuffer] = playerOf[s]]
     \/ UNCHANGED samples
  /\ isDecoding' = [isDecoding EXCEPT ![playerOf[s]] = FALSE]
  /\ UNCHANGED <<prepare, this, globals, readerVars, playerOf, slQueued, queue, historyVars>>

\* swr_convert(swrContext, &outAudioBuffer, ...) writes where outAudioBuffer
\* points, and decodeAudioPacket() returns; or it fails.
Convert(s) ==
  /\ \/ /\ Move(s, "convert", "enqueue")
        /\ samples' = [samples EXCEPT ![outAudioBuffer] = playerOf[s]]
        /\ isDecoding' = [isDecoding EXCEPT ![playerOf[s]] = FALSE]
     \/ Move(s, "convert", "decode") /\ UNCHANGED <<samples, isDecoding>>
  /\ UNCHANGED <<prepare, this, globals, readerVars, playerOf, slQueued, queue, historyVars>>

\* Enqueue(bufferQueue, outAudioBuffer, bufferSize), which may refuse.
EnqueueBuffer(s) == /\ \/ /\ Move(s, "enqueue", "idle")
                          /\ slQueued' = [slQueued EXCEPT ![s] = outAudioBuffer]
                       \/ Move(s, "enqueue", "ended") /\ UNCHANGED slQueued
                    /\ UNCHANGED <<prepare, this, globals, readerVars, playerOf, samples,
                                   isDecoding, queue, historyVars>>

-----------------------------------------------------------------------------
PrepareThread(s) == \/ Open(s) \/ Construct(s) \/ Publish(s) \/ Prepare(s) \/ OpenSL(s)
                    \/ Start(s)

ReadingThread(s) == ReadPacket(s) \/ ReadEnd(s)

PlayerThread(s) == \/ SLPlayed(s) \/ Decode(s) \/ DecodeEnd(s) \/ Convert(s)
                   \/ EnqueueBuffer(s)

Crashed == \E s \in Sessions : prepare[s] = "crash"

Next == /\ ~Crashed
        /\ \E s \in Sessions : PrepareThread(s) \/ ReadingThread(s) \/ PlayerThread(s)

Spec == Init /\ [][Next]_vars

\* No thread is stopped for ever; nothing makes an activity be created.
LiveSpec == /\ Spec
            /\ \A s \in Sessions :
                 /\ WF_vars(~Crashed /\ prepare[s] # "onCreate" /\ PrepareThread(s))
                 /\ WF_vars(~Crashed /\ ReadingThread(s))
                 /\ WF_vars(~Crashed /\ PlayerThread(s))

-----------------------------------------------------------------------------
SessionOrNone == Sessions \cup {NoSession}

\* Every variable has its type; a thread or a player that runs has its FFAudio,
\* and OpenSL is never given the null pointer.
TypeOK == /\ prepare \in [Sessions -> {"onCreate", "construct", "publish", "prepare",
                                       "opensl", "start", "done", "crash"}]
          /\ this \in [Sessions -> SessionOrNone]
          /\ ffAudio \in SessionOrNone /\ outAudioBuffer \in SessionOrNone
          /\ samples \in [Sessions -> SessionOrNone]
          /\ reader \in [Sessions -> {"none", "running", "stopped"}]
          /\ readerOf \in [Sessions -> SessionOrNone]
          /\ callback \in [Sessions -> {"off", "idle", "decode", "convert", "enqueue",
                                        "ended"}]
          /\ playerOf \in [Sessions -> SessionOrNone]
          /\ slQueued \in [Sessions -> SessionOrNone]
          /\ unread \in [Sessions -> 0 .. Packets]
          /\ queue \in [Sessions -> 0 .. Packets]
          /\ working \in [Sessions -> BOOLEAN]
          /\ isDecoding \in [Sessions -> BOOLEAN]
          /\ number \in [Sessions -> Nat]
          /\ overlapped \in BOOLEAN /\ mixed \in BOOLEAN
          /\ \A s \in Sessions : /\ reader[s] # "none" => readerOf[s] # NoSession
                                 /\ callback[s] # "off" => playerOf[s] # NoSession
                                 /\ callback[s] = "idle" => slQueued[s] # NoSession

\* As long as no two calls of prepare() have overlapped, each call prepares and
\* starts the FFAudio it has constructed, although it reads the global three
\* times: no format context has two reading threads and no codec context two
\* players, which neither is made for.
OwnFFAudio == ~overlapped => \A s \in Sessions :
  /\ this[s] \in {s, NoSession}
  /\ playerOf[s] \in {s, NoSession}
  /\ readerOf[s] \in {s, NoSession}

\* Even when calls overlap, none prepares an FFAudio older than its own, nor
\* starts one older than it has prepared.
NeverOlder == \A s \in Sessions :
  /\ this[s] # NoSession => number[this[s]] >= number[s]
  /\ readerOf[s] # NoSession => number[readerOf[s]] >= number[this[s]]

\* What overlapping calls may do to an FFAudio: one whose call has returned without
\* anybody having prepared it, or having called its start(), has been overtaken by
\* a newer one, in calls that overlapped.  The newest one is never left without a
\* player or a reading thread in this way, and without overlap none is.
OnlyOvertakenIsLeft == \A s \in Sessions : prepare[s] = "done" =>
  \/ /\ \E t \in Sessions : this[t] = s
     /\ \E t \in Sessions : readerOf[t] = s
  \/ overlapped /\ \E t \in Sessions : number[t] > number[s]

\* What the callback gives OpenSL is what it has just decoded (FFAudio.cpp:368:
\* read a packet, decode it, then hand the decoded pcm data down).
EnqueuesWhatItDecoded == \A s \in Sessions :
  callback[s] = "enqueue" => samples[outAudioBuffer] = playerOf[s]

\* It is, as long as no FFAudio has been constructed while another one was being
\* prepared or played: one that has ended never touches the buffer again.
OwnSoundWhenAlone == ~mixed => EnqueuesWhatItDecoded

\* As long as calls of prepare() do not overlap, each player whose FFAudio has
\* a reading thread comes to the end of the file, or of OpenSL's patience,
\* however many other sessions there are.
SessionsEnd == []~(overlapped \/ Crashed) => \A s \in Sessions :
  Playing(s) /\ reader[s] # "none" ~> callback[s] = "ended"
=============================================================================
