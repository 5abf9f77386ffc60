# A TLA+ model of AndroidFFmpegStudy

AndroidFFmpegStudy is an Android application with two media players written in
C++ on top of FFmpeg: `FFAudio` (sound of a file through OpenSL ES, the one the
build of today compiles) and `Player` (video and sound, the first version).
Both are pipelines of threads around packet queues. This directory models
those pipelines in TLA+, down to the reference-counted buffers that packets and
frames are made of, checks them with TLC and proves with TLAPS every invariant
and every refinement the passing runs check.

Paths below are relative to `src/app/src/main/` unless they start with `src/`.

## 1. Inventory

| Component | State | Operations | Talks to |
|---|---|---|---|
| `AVPacketQueue` (`jni/cpp/ffaudio/AVPacketQueue.cpp`, `jni/h/queue/av_packet_queue.h`; an older copy in `jni/cpp/`) | `packetQueue`, `working`, a mutex, a condition variable | `push`, `pull`, `size`, `stopWorking`, `isWorking`, destructor (`freeAVPacket`) | reading thread (producer), OpenSL callback or decoding thread (consumer) |
| `FFAudio` (`jni/cpp/ffaudio/FFAudio.cpp`) | format and codec contexts, queue, `outAudioBuffer` (static), OpenSL objects, `isReading`, `isDecoding` | `prepare`, `start`, `readingThread`, `prepareOpenSL`, `slBufferQueueCallback`, `decodeAudioPacket`, `createOpenSLSampleRate`, `release` | libavformat, libavcodec, libswresample, OpenSL ES |
| `FFAudioJNINative` (`jni/cpp/ffaudio/FFAudioJNINative.cpp`) | `javaVM`, the global reference of the activity, the global `ffAudio` | `JNI_OnLoad`, `initCallJava`, `prepare` (opens the file, chooses the stream, calls `FFAudio::prepare` and `start`) | Java activity, `FFAudio`, `CallJava` |
| `CallJava` (`jni/cpp/ffaudio/CallJava.cpp`) | cached `JavaVM`, object, whether a thread was attached | `callPrepare`, `callFinish`, ten `Call*MethodV` | the Java VM |
| `Player` (`jni/cpp/Player.cpp`) | two queues, two codec contexts, `videoStart`, `audioStart` | `getStreamInfo`, `reading_packet`, `videoDecoding_packet`, `audioDecoding_packet` | the queue, native window, AudioTrack |
| JNI glue of `Player` (`jni/cpp/ffmpeg.cpp`, not compiled by `CMakeLists.txt`) | a global reference | `play`, `destroy` | `FFmpegActivity` |
| Activities (`java/com/ming/ffmpeg/`; only `FFAudioActivity` is in the manifest) | surface, text views | `onCreate`, `surfaceCreated` | the natives |
| Decoder state of libavcodec (`src/source_code/libavcodec/decode.c`) | packet slot, rest of a packet, frame decoded ahead | `avcodec_send_packet`, `avcodec_receive_frame` | both players |
| Buffers of libavutil (`src/source_code/libavutil/buffer.c`) | reference counts, the pool's list, its mutex and counter | `av_buffer_pool_init`, `_get`, `_uninit`, `av_buffer_ref`, `_unref`, `_is_writable` | packets (`av_packet_ref`), audio frames (`libavcodec/get_buffer.c`) |
| The rest of FFmpeg (`src/source_code/`, headers in `jni/h/ffmpeg`) | third-party | demuxers, codecs, converters | both players |
| Scratch tests (`jni/h/test/test.h`) | none | exercises | none |
| `src/reference/` | an example by someone else | - | not built |

What is hard in this code:

* **`AVPacketQueue`**. Several threads, one condition variable, one signal for
  each `push`. Correct means: first-in first-out, the packet popped is the one
  copied, no packet lost, leaked or freed twice, no wakeup lost.
  `av_packet_ref` may fail between `front()` and `pop()`.
* **`FFAudio`**. The reading thread and OpenSL's callback thread both poll. The
  callback decides to stop from two separate reads (`isWorking`, `size`), the
  reading thread decides to go on from a size it read earlier, and every buffer
  given to OpenSL is the same memory. Each call in the decoding loop may fail.
  Correct means: the queue is bounded, the callback never blocks, it stops only
  at the true end, the buffer is not written while it is played, frames are
  played in order, once, and all of them, every packet is freed, playback ends.
* **The decoder's send/receive protocol**. `decodeAudioPacket` receives one frame
  for each packet sent, whatever the packet contains.
* **Several sessions**. Each activity starts a thread of its own in `prepare()`,
  which reads the global `ffAudio` again for each call, while players of earlier
  activities still call back. Correct means: everybody works on the `FFAudio` it
  should, and OpenSL is given what was decoded.
* **Reference counts and the pool**. An entry returns to the pool before its
  releaser has finished with it and is counted only after the lock is given
  up. Correct means: counts are true, a writer is alone, nothing is used after
  it was freed, the pool is freed once, last.
* **`Player`**. Decoding threads start before their queues exist, look for the end
  only after a blocking `pull`, and delete their queue while the reading thread
  may still run. Correct means: nobody uses a deleted queue, a thread that ends
  has decoded everything, every packet is freed, the threads end.
* **JNI**. Threads attached to the VM in nested calls, environments that belong
  to one thread, global references that are overwritten.

The full list, line by line, is under `hazards` in `PROJECT.json`.

## 2. Modules

| Module | Models | Role |
|---|---|---|
| `PacketFifo` | what an `AVPacketQueue` promises | abstract specification |
| `PacketQueue` | `AVPacketQueue` at the grain of mutex and condition variable | implements `PacketFifo` |
| `Playback` | what playing a stream of a file promises | abstract specification |
| `Decoder` | packets and frames inside an `AVCodecContext` | operators, no state |
| `FFAudio` | set-up, reading thread, callback, OpenSL, decoder | composes `PacketFifo` and `Decoder`, implements `Playback` and one session of `FFAudioJNINative` |
| `FFAudioJNINative` | several activities, their `prepare()` threads, readers and players around the globals | component, abstracts each `FFAudio` |
| `SharedBuffers` | what a pool of shared buffers promises the threads that use it | abstract specification |
| `AVBufferPool` | reference-counted buffers and their pool | implements `SharedBuffers` |
| `Player` | the three threads and the life of the two queues | implements `Playback`, once for each stream |
| `CallJava` | calls of Java methods from native threads | component |
| `DistinctLists` | - | lemmas on lists without repetition |
| `PacketQueue_proofs`, `FFAudio_proofs`, `FFAudioOrder_proofs`, `FFAudioJNINative_proofs`, `AVBufferPool_proofs`, `Player_proofs`, `CallJava_proofs` | - | theorems (section 4) |

The composition is by contract. `PacketQueue` is shown, by TLC and by proof, to
implement `PacketFifo`; `FFAudio` uses `Audio == INSTANCE PacketFifo` for its
queue (`Audio!Put` is `push`, `Audio!Take` is `pull`) and `Codec == INSTANCE Decoder`
for its codec context, so what it assumes of the queue is what the queue has
been proved to do; and `FFAudio` as a whole is shown, again by TLC and by proof, to
implement `Playback`. `FFAudioJNINative` is the level above: it has many instances and
little of each, and `FFAudio` is shown to be one of them, so what the level above assumes of
an instance is what an instance does. `Player` implements `Playback` twice and
`AVBufferPool` implements `SharedBuffers`.

A step is what a thread does between two accesses to what threads share. Each
"mutant" is a variant of one action with a bug somebody could write; it stands
beside the action and is no part of the specification.

### PacketQueue

`pc[t]` is the place of thread `t` in the code of a call. `push` is `LockPush`,
`Enqueue`, `Signal`, `Unlock`; `pull` is `LockPull`, then `PullWait`/`Relock`
while the queue is empty, `PullFront`, `PullPop`, `PullFree`, `Unlock`; `size` is
`LockSize`, `Unlock`. A critical section takes several steps on purpose: mutual
exclusion is something the model has to get from the mutex.
`pthread_cond_wait` releases and blocks in one step, may return without a
signal (`SpuriousWakeup`), and takes the mutex again before it returns.
`heap` is the memory of the packets; a thread that follows a freed packet goes
to the pc `"undefined"` and stays there. `av_packet_ref` in `pull` may fail: then
`pop()` is skipped and `av_packet_free` is not. `got` and `refFailed` are history
variables. `stopWorking` takes no lock and signals nobody, as in the code.

### Decoder

`SendPacket` and `ReceiveFrame` translate `avcodec_send_packet` and
`avcodec_receive_frame` of `src/source_code/libavcodec/decode.c` with the three
places where data can wait: the packet slot of the bitstream filter, the rest
of the packet in work, and the frame decoded ahead. A packet is the sequence
of frames it decodes to; `Corrupt(f)` marks a call of the decoder that fails.
Left out: draining (the players never send the null packet), frame threads,
codecs with a `receive_frame` callback, timestamps.

### FFAudio and Playback

The constant `Kinds` says what packets a file may hold: `frame`, `silent` (no
frame), `double` (two frames), `corrupt`, `unconvertible` (`swr_convert` fails)
and `video` (any packet of a stream that is not audio). `Init` ranges over every
file of up to `MaxPackets` of them.

| Actor | Variables | Actions and code |
|---|---|---|
| `prepare()` | `setup` | `Begin` (opens the file, constructs the `FFAudio`, publishes it; a file without audio ends the process), `OpenCodec`, `OpenSL`, `PrimeSL` (first `Enqueue`), `Start` (`pthread_create`); each may fail, none stops the next |
| `readingThread()` | `reader`, `packetSize`, `pos` | `ReaderSize`, `ReaderCheck`, `ReaderRead`, `ReaderPush`, `ReaderStop` |
| callback | `callback`, `packet`, `codec`, `frame` | `CheckEnd` (`isWorking`, then `size`), `CheckSize`, `Pull`, `Send`, `Receive`, `Convert`, `EnqueueBuffer`, `EnqueueNothing` |
| OpenSL ES | `sl`, `slQueued`, `played` | `SLPlayed` calls back when a buffer has been played (external, modelled from its use) |

`live` holds the packets whose memory has not been freed. At the end
`decodeAudioPacket` returns 0 and `Enqueue` is called with no bytes; Android's
OpenSL refuses that, which is what ends the callbacks (`sl = "ended"`).

`Playback` knows neither packets nor threads: the frames that can be played are
heard one after the other, each the next one in the file's order, and the end
comes after the last. `FFAudio` implements it with `frames` as `Playable`, the
frames that can be decoded and converted, and `ended` as `sl = "ended"`. It is `lossy` for
files with packets of two frames, which section 5 explains: then order and
non-repetition remain.

The unlocked `bool working` is read and written as one step: each access lies
next to a call that takes the queue's mutex, so no build can keep it in a
register for ever. Audio packets of a second audio stream count as audio,
because the code tests the codec type and not the stream's index.

The last part of the module is the refinement mapping to `FFAudioJNINative` with one
session, `It`. The reading thread's loop is one step there, from one packet put
into the queue to the next; sending a packet and receiving its frame are one step too, taken
when the packet is pulled. Whether a frame will come of it must therefore be
known at the pull: `GivesFrame` computes it from the decoder's context and the
packet. `Unread` counts the audio packets of the file that are still to be
put into the queue. `Begin` is there for this: the other steps would do without it,
the session would not.

### FFAudioJNINative

A session is one `FFAudioActivity`: its `prepare()` thread, the `FFAudio` that thread
constructs, the memory its constructor allocates, the player and the reading
thread it creates. All of these are named by the session.

| Actor | Variables | Actions and code |
|---|---|---|
| `prepare()` of session `s` | `prepare[s]`, `this[s]`, globals `ffAudio` and `outAudioBuffer` | `Open` (null context or index -1 ends the process), `Construct` (replaces the static buffer), `Publish` (`ffAudio = new ...`), `Prepare` (reads the global), `OpenSL`, `Start` (reads it again) |
| reading thread | `reader`, `readerOf`, `unread`, `working` | `ReadPacket`, `ReadEnd` |
| player | `callback`, `playerOf`, `slQueued`, `samples`, `isDecoding` | `SLPlayed`, `Decode`, `DecodeEnd`, `Convert` (reads `outAudioBuffer`), `EnqueueBuffer` (reads it again) |

What the module `FFAudio` shows of one instance is not repeated: packets are only
counted, and whether one gives a frame is a choice. All sessions play the same file, of
any number of audio packets up to `Packets`. `number`, `overlapped` and
`mixed` are history: which `FFAudio` is newer, whether two calls of `prepare()`
have overlapped, whether an `FFAudio` was constructed beside one in use. Where two
threads share one codec or format context, which happens once calls overlap,
the library itself may be corrupted; the model keeps the counts apart
and the properties say nothing about what is heard in that case.

### AVBufferPool and SharedBuffers

`entry[e]` stands for a `BufferPoolEntry` with its data and the `AVBuffer` embedded in it;
`first[e]` for the separate `AVBuffer` of the first allocation, which is freed when
the entry first comes back. `noFree[e]` is `BUFFER_FLAG_NO_FREE`, the flag that says which of the
two is in use. References (`target`, `holder`) are held by threads and may be
handed on (`Hand`), as packets are through the queue.

`av_buffer_pool_get` is `GetLock`, `GetReuse`/`GetAlloc`/`GetFail`, `GetUnlock`,
`GetCount`; `av_buffer_ref` is `Ref`; `av_buffer_is_writable` and the write that
follows are `IsWritable` and `Written`; `av_buffer_unref` is `Unref`, and for the
last reference `ReadFlag`, `ReleaseLock`, `ReleasePush`, `ChangedUnlock`, `Drop`,
`PoolFree`, `BufferFree`; `av_buffer_pool_uninit` is `UninitLock`, `UninitFlush` and the same
`ChangedUnlock`, `Drop`, `PoolFree`. An entry that was freed is not allocated again, so
that a use after free cannot hide behind a new allocation.

`SharedBuffers` has neither counters nor a mutex nor a list: `Get` gives a buffer that nobody
refers to, `Share`, `Hand` and `Drop` do what they say, `Write` needs the only
reference, and `Free` frees buffers that nobody refers to once the owner has given up
the pool. It is what `libavutil/buffer.h` tells its users (lines 50-64 and
85-89). The mapping takes a reference, a buffer's memory and the owner's handle as they
are; everything else of `AVBufferPool` is hidden.

### Player

`Decoder(s)` is the code of both decoding threads, which differ only in what they
do with a frame. `created` and `deleted` are the life of each queue; `pull` through
the null pointer of a queue not created yet is `PullNull`, which ends the process
(`crashed`). The reading thread's pause over 100 packets does not keep it from
reading on, so `ReadSize` has no guard. `Delete` is `delete queue` with the
destructor, which frees what is still queued.

`Playback` is instantiated for each stream: its frames are the stream's packets, played
when they are decoded, and its end is the decoding thread leaving its loop. What the
decoder and the output do with a packet is not followed further.

A failed `av_packet_ref` in `pull` is a matter of `PacketQueue`; `FFAudio` and
`Player` take the pulls that succeed.

### CallJava

`calls[t]` is the stack of the calls thread `t` is in: a Java method may be native
and call Java again. A frame holds what `callPrepare` returned, the env and
`hasThreadAttach`. `CallOnMain`, `CallOnChild` and `CallAttaching` are the three
ways out of `callPrepare` that go on with the call, one for each of the ten
`Call<Type>MethodV`, which differ in the type of the result only; the ways out
that return a null env change nothing. Any thread may pass `MAIN_THREAD` and is then given
the main thread's env, because `callPrepare` does not look who asks; a native
thread in such a call is not attached by it, and may be by a call nested in it. `Finish` is the end of the method and
`callFinish`. `InitCallJava` is `initCallJava`; its four assignments are one step,
since a thread that sees only some of them returns from `callPrepare`. Whether the
VM lets a thread use another one's env is not modelled. `GetEnv` finds the
thread attached or not: its third result, `JNI_EVERSION`, would leave `env`
uninitialised (lines 18-28), but no Android VM gives it for `JNI_VERSION_1_6`.

## 3. Runs

Each passing run's properties have a mutant which TLC finds under the same
configuration.

| Run | Question | Bounds |
|---|---|---|
| `queue` | Does `pull` pop what it copied, has each packet one owner, is a thread awake for each packet, does the queue implement `PacketFifo`, does each packet pushed leave it? | 2 producers, 2 consumers, 3 packets; failing references, spurious wakeups |
| `queue_freed` | Is every packet in the queue alive? **Violated** after one failed reference | 1 producer, 1 consumer, 2 packets |
| `ffaudio_play` | Bound of the queue, no blocking `pull`, true end, exclusive buffer, order and completeness of frames, freed packets; does `FFAudio` implement `Playback` and the session of `FFAudioJNINative`; does playback end? | every file of up to 4 packets of 6 kinds, `Limit` 1 |
| `ffaudio_frames` | Is a packet the decoder refuses kept to be sent again? **Violated**: after a packet of two frames the next one waits in the decoder, the third is refused and freed | 3 packets |
| `ffaudio_leak` | Is every packet of the file freed? **Violated** by packets that are not audio | 2 packets |
| `ffaudio_start` | Is a packet put into the queue decoded? **Violated** when OpenSL could not be prepared | 2 packets |
| `sessions` | Does each activity prepare and start its own `FFAudio`, or at least none older; which `FFAudio` may be left without a player or reading thread; is OpenSL given what was decoded; do players end? | 2 sessions, files of up to 2 packets, `Limit` 1 |
| `sessions_buffer` | Is OpenSL always given what was decoded? **Violated** by a constructor that replaces the static buffer | 2 sessions, 2 packets |
| `buffer_pool` | Are the counts true, is a writer alone, is nothing leaked, reused in use, or used after it was freed, is the pool freed last, and is everything freed in the end; does the pool implement `SharedBuffers`? | 2 threads, 2 entries, 3 references |
| `player_play` | No use of a deleted queue, nothing skipped, packets freed, every packet pushed decoded, each stream played as `Playback` says | every file of up to 3 packets of 3 streams |
| `player_end` | Do the decoding threads end? **Violated** when the last packet is taken before `stopWorking` | 2 packets |
| `calljava_calls` | Is the thread whose env a call uses attached until the call ends, and every thread as before after its calls? | 2 Java and 2 native threads, 3 nested calls, 2 activities |

Why the bounds are enough. In `PacketQueue` the hard cases need a consumer asleep
while a second one takes the packet meant for it, and two producers that
signal one after the other: two of each, and three packets, so that one is in
the queue, one in a producer's hands and one in a consumer's. In `FFAudio` the
limit is 50 in the code and 1 in the runs: what matters is that the queue can be
empty, at the limit, over it by one, and that files are longer than that. Four
packets fill the decoder (one packet of two frames and the next), have one refused and
leave one to come; `ffaudio_frames` needs three. Two sessions are enough for one to overtake the other at
each read of a global, so that one `FFAudio` is left without a reading thread, and
a session can start after the first has ended. In
`AVBufferPool` two entries let one be in the pool while the other is out, and three
references give one buffer two while the other buffer has one. In `Player` three
packets let one stream be over while the other is not. In `CallJava` a thread's
calls concern no other thread; three levels are an outermost call, a nested one
and one nested in that. The invariants are proved without these bounds besides.

Fairness. Threads that can go on do (weak fairness of each thread).

* In `PacketQueue` taking the mutex is strongly fair: other threads poll `size()`
  in loops, so the lock is free again and again but not continuously, and a lock
  that starves a waiter for ever is not one the players could run on. A
  consumer calls `pull` again, as the callback does; nothing makes a producer
  push or a reference succeed.
* In `FFAudio` OpenSL plays what it holds (`WF_vars(SLPlayed)`), but it may refuse a
  buffer at any time, after which nothing is promised (`sl = "refused"`).
* In `FFAudioJNINative` each session's `prepare()` thread goes on once it is past
  `onCreate`, as do its reading thread and its player; nothing makes an
  activity be created. `SessionsEnd` is stated for behaviours in which no calls of
  `prepare()` overlap.
* In `AVBufferPool` a thread goes on inside a call, and the lock is strongly fair
  as above. Nothing makes a thread drop its references or the owner give up
  the pool: `AllFreed` begins when that has been done.
* `PlaybackEnds` and `PushedIsDecoded` are stated for the runs where the pipeline
  was started and no thread has crashed.

Deadlock is not checked where the system really stops: playback ends, the
process crashes, the pool has been freed, a thread that used freed memory
keeps the mutex, or a thread waits for ever, which `player_end` shows.

## 4. Proofs

For every value of the constants, from the assumptions the modules name only:
`ThreadsAssumption`, `PacketsAssumption` and `FiniteAssumption` (finitely many
threads, which counting needs) in `PacketQueue`; `KindsAssumption` and
`BoundsAssumption` in `FFAudio`; `SessionsAssumption` and `BoundsAssumption` in
`FFAudioJNINative`; `NoThreadAssumption`, `NoEntryAssumption` and `FiniteAssumption` in
`AVBufferPool`; `MaxPacketsAssumption` in `Player`; `ThreadsAssumption` and
`BoundsAssumption` in `CallJava`.

* `PacketQueue_proofs`. `IInv` is types, plus *the thread in a critical section is
  the holder of the mutex* (`MutexInv`), plus *the packet a consumer is about to
  pop is the head of a queue that is not empty*. Mutual exclusion is what makes
  the last part inductive: between `front()` and `pop()` only the holder can
  change the queue. From it `TypeCorrect`, `PopIsCopied`, and `QueueIsFifo`: every step
  of the queue is a step of `PacketFifo` or a stutter. `OwnInv` restates ownership
  with one condition for each packet and each thread, which steps disturb one
  at a time (`PacketsAreOwnedOnce`). `WakeInv` adds that only a waiting consumer is in
  the wait set; `NoWakeupIsLost` then counts: a push adds a packet and a signaller,
  a signal turns a signaller into an awake consumer, or nobody sleeps; a pop
  takes a packet and an awake consumer away. `PulledInv` (a packet that a consumer
  got is freed, or about to be by the consumer that pulled it) gives `PacketsArePulledOnce`,
  which no run checks: no packet is given to two consumers, nor twice to one.
* `FFAudio_proofs`. `IInv` adds to the types four parts. `StreamInv`: what goes
  through the queue are audio packets. `ReaderInv`: while the reading thread
  decides, the queue is no longer than the size it read before, and it stops
  `working` last of all, at the end of the file. `CallbackInv`: what the callback
  has seen stays true until it acts on it, because `working` never becomes true
  again and only the callback takes packets. `BufferInv`: OpenSL and the callback
  never both hold the one buffer. From it `QueueIsBounded`,
  `PullIsImmediate`, `EndIsDrained`, `BufferIsExclusive`, and `TypeCorrect`, which
  rests on lemmas on `Decoder` (`DecodeFromType`, `DecodeNextType`,
  `SendPacketType`, `ReceiveFrameType`): a context of well-typed packets stays so
  and what comes out is a frame, never an error.
* `FFAudioOrder_proofs`. Follows a frame from the file to the loudspeaker.
  `PacketOrderInv`: the callback's packet, those in the queue and the reading
  thread's are in the file's order. `FrameOrderInv`: played, converted, received and
  held in the decoder, in this order, are all before one another, and the decoder
  itself keeps order (`DecodeFromOrder`, `DecodeNextOrder`, `SendOrder`,
  `ReceiveOrder`). `AheadInv`: packets still to be sent come after all these
  frames. `OriginInv`: frames come from the file, and none that cannot be
  played is. `MemoryInv`: an audio packet is live in one of three places, and a packet
  of another stream from when it is read. For files
  without packets of two frames, `EmptyInv` says that the decoder is empty between
  a receive and the next send, and `CompleteInv` that each playable frame has been
  played, is on its way, or is in a packet to come; at the end nothing is to
  come. From these `AudioPacketsAreFreed`, `FramesPlayedInOrder`, `EveryFrameIsPlayed`
  and `SoundIsPlayback`: `FFAudio` implements `Playback`, for every file. `FFAudioIsSession` is the
  second refinement, for every file and `Limit`: each step of the reading thread, the callback,
  `prepare()` and OpenSL is a step of the session or cannot be seen there.
  `FrameIsForeseen` is its heart: what `GivesFrame` says at the pull is what `Send` and
  `Receive` then do. That OpenSL gives the callback nothing to do before it plays or after it
  refused (`EndInv`), and that the reading thread pushes only while the queue is at
  most `Limit` long (`ReaderInv`), are what the session's guards need.
* `FFAudioJNINative_proofs`. `NumberInv`: the global is the newest `FFAudio` published,
  and only published ones are prepared or started, so a later read never finds
  an older one (`NoneIsOlder`). Numbers are given once (`UniqueInv`), so a call that
  ends up with another `FFAudio` than its own has found a newer one, and has
  overlapped: only an overtaken `FFAudio` is left without a player or a reading
  thread (`NewestIsServed`). `AloneInv` and `BusyInv`: without overlap one call at a time
  is between constructor and `start()`, and without mixing one session at a time
  is in use, so the globals are its own (`FFAudioIsOwn`, `SoundIsOwn`). `PlaceInv` and
  `CountInv` give the types (`TypeCorrect`).
* `AVBufferPool_proofs`. `FreshInv`: a reference just obtained, or being written
  through, is the only one (`WriterIsAlone`); with it `ReferencesAreCounted` and
  `EntryIsOwnedOnce`. `AVBufferInv`: a separate `AVBuffer` has one thread at most that will free
  it, and is not in use by then; reading the flag before the entry goes back is
  what makes it inductive. `CountsBuffers`: the pool's counter is 1 for the owner,
  plus the buffers out of the pool that have been counted, plus the threads
  that have still to count themselves out; so nobody who is inside the pool's code is
  left when it reaches 0 (`FreedOnce`). From these `NothingUsedAfterFree`,
  `PoolIsFreedLast` and `TypeCorrect` (no counter falls below 0). `BuffersAreShared` is the
  refinement of `SharedBuffers`: a buffer on the list or never used has no reference
  (`EntryIsOwnedOnce` gives that for `Get`), the counter 1 means one reference
  (`ReferencesAreCounted`, for `Write`), and a flush frees only after the handle is gone
  and only buffers nobody refers to.
* `Player_proofs`. `StopInv` is the chain by which the end of the file is noticed: the
  reading thread stops the queues, a decoding thread sees its queue stopped and
  then empty, only then it ends. `OrderInv` and `CoverInv` say that the packets
  decoded, the one in hand and those queued are, in this order, the packets of
  the stream that have been pushed. From them `DeletedIsUnused`, `EndIsComplete`,
  `PacketsAreFreed`, `TypeCorrect` and `StreamsArePlayback`: both streams implement
  `Playback`.
* `CallJava_proofs`. The call that attached a thread is the first of its calls in
  progress to use the thread's own env (`FlagInv`; those further out have passed
  `MAIN_THREAD`), every use of that env is nested in it (`BroughtIn`), and the VM
  knows its own threads and those a call in progress has attached (`AttachedBy`).
  From them `CallsStayAttached`, `CallsRestore` and `TypeCorrect`, for any depth
  of nesting.
* What a run finds violated is bounded by a theorem that says when it holds, or
  what follows. `FreedWhenPulled` (of `queue_freed`): until a reference has failed,
  no packet in the queue has been freed. `OnlyOthersLeak` (of `ffaudio_leak`): the live packets
  are those in use and all those of other streams, no more and no less; and
  `AudioFilesDoNotLeak`: without such packets nothing leaks. `StuckForEver` (of
  `ffaudio_frames`): the refusal is permanent; a decoder that still holds a packet when the
  callback sends the next one never gives a frame again. `SilentForEver` (of `ffaudio_start`): without
  OpenSL nothing is ever pulled or played. `StarvedForEver` (of `player_end`): a
  decoding thread that waits at an empty stopped queue waits for ever.
* `DistinctLists`. What `Tail`, adding in front and `Append` do to the elements of a
  list without repetition; used by the queue, the pool and the frames.

Only model-checked: what holds under fairness (`PushedIsPulled`, `PlaybackEnds`,
`PushedIsDecoded`, `SessionsEnd`, `AllFreed`), which is out of the prover's reach. Every
invariant of a passing run and all five refinements (`ImplementsFifo`, the two
`ImplementsPlayback`, `ImplementsSession`, `ImplementsSharedBuffers`) are proved.

## 5. Disagreements found

Six runs end in a violation; `findings` in `PROJECT.json` quotes the comment or
the documentation each contradicts.

* `queue_freed`: a failed `av_packet_ref` leaves a freed packet at the head of the
  queue (`AVPacketQueue.cpp:35`).
* `ffaudio_frames`: a packet the decoder refuses is freed and not sent again
  (`FFAudio.cpp:324-329`). The run needs one packet of two frames: one frame is received for each
  packet sent, so the second frame is still there when the next packet is sent,
  that packet waits, and the third is refused. A refusal skips the receive, so the
  decoder stays full: that every later packet is refused too is not in the run but in
  `StuckForEver`. `PlaysEveryFrame` of `ffaudio_play` says that without such packets no
  frame is lost.
* `ffaudio_leak`: packets of other streams are never freed (`FFAudio.cpp:264`).
* `ffaudio_start`: when the decoder or OpenSL could not be prepared the reading
  thread still runs, without a consumer (`FFAudioJNINative.cpp:75`).
* `sessions_buffer`: a second `FFAudio` replaces the static buffer between the first
  one's conversion and its `Enqueue` (`FFAudio.cpp:55`).
* `player_end`: `Player`'s decoding threads do not end when the last packet is taken before
  `stopWorking` (`Player.cpp:354`).

## 6. Not modelled, and the plan

Not modelled, and why:

* **FFmpeg beyond `Decoder` and `AVBufferPool`.** The repository carries the whole of FFmpeg:
  4,100 of its files and 1.6 million lines are codecs, demuxers, tables and
  assembly that somebody else maintains. They are a library to this program,
  pure computation on bytes for the most part; the players' correctness depends
  on two of its state machines, and these are modelled. That is why the share
  of all lines that is mapped is far below one percent, and stays there: of the program's
  own native code the pipelines, queues, JNI calls and lifecycles are covered.
* **`release()`** (`FFAudio.cpp:212`). Nothing calls it. What it would do beside running
  threads has no schedule to model. `isReading` goes with it: apart from `release` only a
  reading thread at the end of the file clears it, where another one would end too.
* **A second play of `Player`**, `FFmpegActivity` and `cpp/ffmpeg.cpp`. The manifest does not
  declare the activity and `CMakeLists.txt` does not compile the file.
* **The destructor's mutex.** `freeAVPacket` locks and destroys the queue's mutex; the
  model of `Player` takes the destructor as one step.
* **Two threads in one codec or format context**, which sessions that overlap lead to:
  the library promises nothing then, and the model does not guess. For the same
  reason `Decode` of `FFAudioJNINative` takes `size` and `pull` (`FFAudio.cpp:312`, `316`) in one step:
  of two players on one `FFAudio` one could block in `pull`, which `PullNeverBlocks`
  excludes for one player, and nothing is promised of players that overlap.
* **`swr_convert` returning 0** (`FFAudio.cpp:345-362`), which would make the callback give
  OpenSL a buffer of no bytes and so end playback. With equal rates in and out, which
  the constructor sets (`FFAudio.cpp:48-53`), a frame that is not empty gives samples.
* **A decoder call that fails after it has given a frame** (`decode.c:704-706`, validation
  and discarding): `Decoder` has a frame or an error for each call.
* **Allocation failures** other than `av_packet_ref` and those of
  `av_buffer_pool_get`; buffers outside a pool, `av_buffer_realloc`,
  `av_buffer_replace`, the read-only flag and custom allocators.
* **Draining the decoder**: no player sends the null packet, so frames the decoder holds
  back at the end are lost. Codecs with frame threads or a `receive_frame` callback.
* **Content**: samples, pictures, rates, channel layouts, timestamps, the table of
  `createOpenSLSampleRate`, OpenSL's objects, the native window, AudioTrack. Scratch
  exercises and `src/reference/`, which are not run or not built.

What could follow, in order: the destructor's mutex at the grain of `PacketQueue`;
`decodeAudioPacket` over a `Decoder` with draining, should the players come to use
it; `release()`, should something come to call it; `av_buffer_replace` and
`av_buffer_realloc` in `AVBufferPool`.
