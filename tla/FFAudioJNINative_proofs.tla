------------------------ MODULE FFAudioJNINative_proofs ------------------------
(***************************************************************************)
(* Proofs about FFAudioJNINative for any number of sessions: what the      *)
(* global FFAudio and the static buffer still guarantee to each of them.   *)
(***************************************************************************)
EXTENDS FFAudioJNINative, TLAPS

\* The places before the session's FFAudio has been published.
Unpublished == {"onCreate", "construct", "publish", "crash"}

\* What a call of prepare() has set by the time it has come to a place.
PlaceInv == \A s \in Sessions :
  /\ prepare[s] \in Unpublished \cup {"prepare"} => this[s] = NoSession
  /\ prepare[s] \in {"opensl", "start", "done"} => this[s] # NoSession
  /\ prepare[s] # "done" => readerOf[s] = NoSession /\ reader[s] = "none"
  /\ prepare[s] \notin Unpublished => ffAudio # NoSession
  /\ prepare[s] \notin {"onCreate", "construct", "crash"} => outAudioBuffer # NoSession
  /\ callback[s] # "off" => outAudioBuffer # NoSession

\* No packet is read twice.
CountInv == \A o \in Sessions : unread[o] + queue[o] <= Packets

\* The global holds the newest of the FFAudios that have been published, and
\* only such an FFAudio is ever prepared.
NumberInv == \A s \in Sessions :
  /\ prepare[s] \in Unpublished => number[s] = 0
  /\ ffAudio = NoSession => number[s] = 0
  /\ ffAudio # NoSession => number[s] <= number[ffAudio]
  /\ this[s] # NoSession => prepare[this[s]] \notin Unpublished
  /\ readerOf[s] # NoSession => prepare[readerOf[s]] \notin Unpublished

GlobalPublished == ffAudio # NoSession => prepare[ffAudio] \notin Unpublished

\* No two FFAudios have been published as the same; a call that has returned has
\* called some start().
UniqueInv == \A s \in Sessions :
  /\ prepare[s] \notin Unpublished => number[s] > 0
  /\ prepare[s] = "done" => readerOf[s] # NoSession
  /\ \A t \in Sessions : number[s] > 0 /\ number[s] = number[t] => s = t

\* While no calls have overlapped, the one in progress finds its own FFAudio.
AloneInv == ~overlapped => \A s \in Sessions :
  /\ \A t \in Sessions : Preparing(s) /\ Preparing(t) => s = t
  /\ prepare[s] \in {"prepare", "opensl", "start"} => ffAudio = s

Busy(s) == Preparing(s) \/ Playing(s)

\* While no FFAudio was constructed beside a busy one, at most one is busy.
BusyInv == ~mixed => \A s, t \in Sessions : Busy(s) /\ Busy(t) => s = t

IInv == /\ TypeOK /\ PlaceInv /\ CountInv
        /\ NumberInv /\ GlobalPublished /\ NeverOlder /\ UniqueInv
        /\ AloneInv /\ OwnFFAudio
        /\ BusyInv /\ OwnSoundWhenAlone

-----------------------------------------------------------------------------
LEMMA InitIInv == Init => IInv
  <1> SUFFICES ASSUME Init PROVE IInv
    OBVIOUS
  <1> USE SessionsAssumption, BoundsAssumption DEF Init
  <1>1. TypeOK
    <2>1. 0 \in 0 .. Packets /\ 0 \in Nat
      BY BoundsAssumption
    <2>2. /\ unread \in [Sessions -> 0 .. Packets] /\ queue \in [Sessions -> 0 .. Packets]
          /\ number \in [Sessions -> Nat]
      BY <2>1
    <2>3. QED
      BY <2>2 DEF TypeOK, SessionOrNone
  <1>2. PlaceInv /\ CountInv
    BY DEF PlaceInv, CountInv, Unpublished
  <1>3. NumberInv /\ GlobalPublished /\ NeverOlder /\ UniqueInv
    BY DEF NumberInv, GlobalPublished, NeverOlder, UniqueInv, Unpublished
  <1>4. AloneInv /\ OwnFFAudio
    BY DEF AloneInv, OwnFFAudio, Preparing
  <1>5. BusyInv /\ OwnSoundWhenAlone
    BY DEF BusyInv, Busy, Preparing, Playing, OwnSoundWhenAlone, EnqueuesWhatItDecoded
  <1>6. QED
    BY <1>1, <1>2, <1>3, <1>4, <1>5 DEF IInv

\* A step is one of the actions of one session, or changes nothing.
LEMMA StepCases ==
  ASSUME NEW P,
         \A s \in Sessions : Open(s) => P, \A s \in Sessions : Construct(s) => P,
         \A s \in Sessions : Publish(s) => P, \A s \in Sessions : Prepare(s) => P,
         \A s \in Sessions : OpenSL(s) => P, \A s \in Sessions : Start(s) => P,
         \A s \in Sessions : ReadPacket(s) => P, \A s \in Sessions : ReadEnd(s) => P,
         \A s \in Sessions : PlayerThread(s) => P,
         UNCHANGED vars => P,
         [Next]_vars
  PROVE  P
  BY DEF Next, PrepareThread, ReadingThread

-----------------------------------------------------------------------------
LEMMA TypeStep == IInv /\ [Next]_vars => TypeOK'
  <1> SUFFICES ASSUME IInv, [Next]_vars PROVE TypeOK'
    OBVIOUS
  <1> USE DEF TypeOK, SessionOrNone
  <1>t. TypeOK
    BY DEF IInv
  <1>1. ASSUME NEW s \in Sessions, Open(s) PROVE TypeOK'
    BY <1>1, <1>t DEF Open, Goto, globals, readerVars, playerVars, historyVars
  <1>2. ASSUME NEW s \in Sessions, Construct(s) PROVE TypeOK'
    BY <1>2, <1>t DEF Construct, Goto, readerVars, playerVars
  <1>3. ASSUME NEW s \in Sessions, Publish(s) PROVE TypeOK'
    <2>1. NextNumber \in Nat
      BY <1>t DEF NextNumber
    <2>2. QED
      BY <2>1, <1>3, <1>t DEF Publish, Goto, readerVars, playerVars
  <1>4. ASSUME NEW s \in Sessions, Prepare(s) PROVE TypeOK'
    BY <1>4, <1>t DEF Prepare, Goto, globals, readerVars, playerVars, historyVars
  <1>5. ASSUME NEW s \in Sessions, OpenSL(s) PROVE TypeOK'
    <2>1. this[s] # NoSession /\ outAudioBuffer # NoSession
      BY <1>5 DEF IInv, PlaceInv, OpenSL, Goto
    <2>2. QED
      BY <2>1, <1>5, <1>t DEF OpenSL, Goto, globals, readerVars, historyVars
  <1>6. ASSUME NEW s \in Sessions, Start(s) PROVE TypeOK'
    <2>1. ffAudio # NoSession
      BY <1>6 DEF IInv, PlaceInv, Start, Goto, Unpublished
    <2>2. QED
      BY <2>1, <1>6, <1>t DEF Start, Goto, globals, playerVars, historyVars
  <1>7. ASSUME NEW s \in Sessions, ReadPacket(s) PROVE TypeOK'
    <2>1. readerOf[s] \in Sessions
      BY <1>7, <1>t DEF ReadPacket
    <2>2. /\ unread[readerOf[s]] - 1 \in 0 .. Packets
          /\ queue[readerOf[s]] + 1 \in 0 .. Packets
      BY <2>1, <1>7, <1>t, BoundsAssumption DEF IInv, CountInv, ReadPacket
    <2>3. QED
      BY <2>1, <2>2, <1>7, <1>t DEF ReadPacket, globals, playerVars, historyVars
  <1>8. ASSUME NEW s \in Sessions, ReadEnd(s) PROVE TypeOK'
    BY <1>8, <1>t DEF ReadEnd, globals, playerVars, historyVars
  <1>9. ASSUME NEW s \in Sessions, PlayerThread(s) PROVE TypeOK'
    <2>1. callback[s] # "off" => outAudioBuffer # NoSession
      BY DEF IInv, PlaceInv
    <2>2. CASE SLPlayed(s)
      BY <2>2, <1>t DEF SLPlayed, Move, globals, readerVars, historyVars
    <2>3. CASE Decode(s)
      <3>1. callback[s] = "decode" /\ playerOf[s] \in Sessions
        BY <2>3, <1>t DEF Decode, Move
      <3>2. queue[playerOf[s]] - 1 \in 0 .. Packets
        BY <3>1, <2>3, <1>t, BoundsAssumption DEF Decode
      <3>3. QED
        BY <3>1, <3>2, <2>3, <1>t DEF Decode, Move, globals, readerVars, historyVars
    <2>4. CASE DecodeEnd(s)
      BY <2>4, <1>t DEF DecodeEnd, Move, globals, readerVars, historyVars
    <2>5. CASE Convert(s)
      BY <2>5, <1>t DEF Convert, Move, globals, readerVars, historyVars
    <2>6. CASE EnqueueBuffer(s)
      <3>1. outAudioBuffer \in Sessions
        BY <2>1, <2>6, <1>t DEF EnqueueBuffer, Move
      <3>2. CASE Move(s, "enqueue", "idle") /\ slQueued' = [slQueued EXCEPT ![s] = outAudioBuffer]
        <4>1. /\ slQueued' \in [Sessions -> Sessions \cup {NoSession}]
              /\ callback' \in [Sessions -> {"off", "idle", "decode", "convert", "enqueue",
                                            "ended"}]
          BY <3>1, <3>2, <1>t DEF Move
        <4>2. \A t \in Sessions : /\ callback'[t] = "idle" => slQueued'[t] # NoSession
                                  /\ callback'[t] # "off" => playerOf[t] # NoSession
          BY <3>1, <3>2, <1>t, SessionsAssumption DEF Move
        <4>3. QED
          BY <4>1, <4>2, <2>6, <1>t DEF EnqueueBuffer, globals, readerVars, historyVars
      <3>3. CASE Move(s, "enqueue", "ended") /\ UNCHANGED slQueued
        BY <3>3, <2>6, <1>t DEF EnqueueBuffer, Move, globals, readerVars, historyVars
      <3>4. QED
        BY <3>2, <3>3, <2>6 DEF EnqueueBuffer
    <2>7. QED
      BY <1>9, <2>2, <2>3, <2>4, <2>5, <2>6 DEF PlayerThread
  <1>10. ASSUME UNCHANGED vars PROVE TypeOK'
    BY <1>10, <1>t DEF vars, globals, readerVars, playerVars, historyVars
  <1> HIDE DEF TypeOK
  <1>11. QED
    BY <1>1, <1>2, <1>3, <1>4, <1>5, <1>6, <1>7, <1>8, <1>9, <1>10, StepCases

\* What the player of a session does concerns nobody's place and no number.
LEMMA PlayerFrame ==
  ASSUME TypeOK, NEW s \in Sessions, PlayerThread(s)
  PROVE  /\ UNCHANGED <<prepare, this, globals, readerVars, playerOf, historyVars>>
         /\ callback[s] # "off"
         /\ \A t \in Sessions : /\ t # s => callback'[t] = callback[t]
                                /\ Playing(t)' => Playing(t)
                                /\ callback'[t] # "off" => callback[t] # "off"
  <1> USE DEF TypeOK, Move, Playing, readerVars, historyVars, globals
  <1>1. CASE SLPlayed(s)
    BY <1>1 DEF SLPlayed
  <1>2. CASE Decode(s)
    BY <1>2 DEF Decode
  <1>3. CASE DecodeEnd(s)
    BY <1>3 DEF DecodeEnd
  <1>4. CASE Convert(s)
    BY <1>4 DEF Convert
  <1>5. CASE EnqueueBuffer(s)
    BY <1>5 DEF EnqueueBuffer
  <1>6. QED
    BY <1>1, <1>2, <1>3, <1>4, <1>5 DEF PlayerThread

LEMMA PlaceStep == IInv /\ [Next]_vars => PlaceInv'
  <1> SUFFICES ASSUME IInv, [Next]_vars PROVE PlaceInv'
    OBVIOUS
  <1> USE DEF PlaceInv, Unpublished, globals
  <1>t. TypeOK /\ PlaceInv
    BY DEF IInv
  <1>1. ASSUME NEW s \in Sessions, Open(s) PROVE PlaceInv'
    BY <1>1, <1>t DEF TypeOK, Open, Goto, readerVars, playerVars
  <1>2. ASSUME NEW s \in Sessions, Construct(s) PROVE PlaceInv'
    BY <1>2, <1>t, SessionsAssumption DEF TypeOK, Construct, Goto, readerVars, playerVars
  <1>3. ASSUME NEW s \in Sessions, Publish(s) PROVE PlaceInv'
    BY <1>3, <1>t, SessionsAssumption DEF TypeOK, Publish, Goto, readerVars, playerVars
  <1>4. ASSUME NEW s \in Sessions, Prepare(s) PROVE PlaceInv'
    BY <1>4, <1>t DEF TypeOK, Prepare, Goto, readerVars, playerVars
  <1>5. ASSUME NEW s \in Sessions, OpenSL(s) PROVE PlaceInv'
    BY <1>5, <1>t DEF TypeOK, OpenSL, Goto, readerVars
  <1>6. ASSUME NEW s \in Sessions, Start(s) PROVE PlaceInv'
    BY <1>6, <1>t DEF TypeOK, Start, Goto, playerVars
  <1>7. ASSUME NEW s \in Sessions, ReadPacket(s) PROVE PlaceInv'
    BY <1>7, <1>t DEF TypeOK, ReadPacket, playerVars
  <1>8. ASSUME NEW s \in Sessions, ReadEnd(s) PROVE PlaceInv'
    BY <1>8, <1>t DEF TypeOK, ReadEnd, playerVars
  <1>9. ASSUME NEW s \in Sessions, PlayerThread(s) PROVE PlaceInv'
    BY <1>9, <1>t, PlayerFrame DEF readerVars
  <1>10. ASSUME UNCHANGED vars PROVE PlaceInv'
    BY <1>10, <1>t DEF vars, readerVars, playerVars
  <1> HIDE DEF PlaceInv
  <1>11. QED
    BY <1>1, <1>2, <1>3, <1>4, <1>5, <1>6, <1>7, <1>8, <1>9, <1>10, StepCases

LEMMA CountStep == IInv /\ [Next]_vars => CountInv'
  <1> SUFFICES ASSUME IInv, [Next]_vars PROVE CountInv'
    OBVIOUS
  <1> USE DEF CountInv, readerVars
  <1>t. TypeOK /\ CountInv
    BY DEF IInv
  <1>1. ASSUME UNCHANGED <<unread, queue>> PROVE CountInv'
    BY <1>1, <1>t
  <1>2. ASSUME NEW s \in Sessions, ReadPacket(s) PROVE CountInv'
    BY <1>2, <1>t, BoundsAssumption DEF TypeOK, ReadPacket
  <1>3. ASSUME NEW s \in Sessions, Decode(s) PROVE CountInv'
    BY <1>3, <1>t, BoundsAssumption DEF TypeOK, Decode
  <1>4. ASSUME NEW s \in Sessions, PrepareThread(s) \/ ReadEnd(s) PROVE UNCHANGED <<unread, queue>>
    BY <1>4 DEF PrepareThread, Open, Construct, Publish, Prepare, OpenSL, Start, ReadEnd
  <1>5. ASSUME NEW s \in Sessions, SLPlayed(s) \/ DecodeEnd(s) \/ Convert(s) \/ EnqueueBuffer(s)
        PROVE  UNCHANGED <<unread, queue>>
    BY <1>5 DEF SLPlayed, DecodeEnd, Convert, EnqueueBuffer
  <1>6. ASSUME UNCHANGED vars PROVE UNCHANGED <<unread, queue>>
    BY <1>6 DEF vars
  <1> HIDE DEF CountInv
  <1>7. QED
    BY <1>1, <1>2, <1>3, <1>4, <1>5, <1>6 DEF Next, ReadingThread, PlayerThread

\* Publishing gives the newest FFAudio a number above all others; only calls of
\* prepare() read the global or a number.
LEMMA NumberStep == IInv /\ [Next]_vars => NumberInv' /\ GlobalPublished' /\ NeverOlder'
  <1> DEFINE NumbersOK == NumberInv /\ GlobalPublished /\ NeverOlder
  <1> SUFFICES ASSUME IInv, [Next]_vars PROVE NumbersOK'
    OBVIOUS
  <1> USE DEF NumberInv, GlobalPublished, NeverOlder, Unpublished, globals, historyVars
  <1>t. TypeOK /\ PlaceInv /\ NumberInv /\ GlobalPublished /\ NeverOlder
    BY DEF IInv
  <1>1. ASSUME NEW s \in Sessions, Open(s) PROVE NumbersOK'
    BY <1>1, <1>t DEF TypeOK, SessionOrNone, Open, Goto, readerVars
  <1>2. ASSUME NEW s \in Sessions, Construct(s) PROVE NumbersOK'
    BY <1>2, <1>t DEF TypeOK, SessionOrNone, Construct, Goto, readerVars
  <1>3. ASSUME NEW s \in Sessions, Publish(s) PROVE NumbersOK'
    <2>1. /\ NextNumber \in Nat /\ NextNumber > 0
          /\ \A t \in Sessions : number[t] \in Nat /\ number[t] < NextNumber
      BY <1>t DEF TypeOK, SessionOrNone, NextNumber
    <2>2. /\ prepare[s] = "publish" /\ prepare' = [prepare EXCEPT ![s] = "prepare"]
          /\ ffAudio' = s /\ number' = [number EXCEPT ![s] = NextNumber]
          /\ this' = this /\ readerOf' = readerOf
      BY <1>3 DEF Publish, Goto, readerVars
    <2>3. \A t \in Sessions : /\ this[t] # s /\ readerOf[t] # s
                              /\ prepare[t] \notin Unpublished => prepare'[t] \notin Unpublished
      BY <2>2, <1>t, SessionsAssumption DEF TypeOK
    <2>4. this[s] = NoSession /\ readerOf[s] = NoSession
      BY <2>2, <1>t DEF PlaceInv
    <2>5. NumberInv'
      BY <2>1, <2>2, <2>3, <1>t, SessionsAssumption DEF TypeOK, SessionOrNone
    <2>6. GlobalPublished'
      BY <2>2, <1>t DEF TypeOK
    <2>7. NeverOlder'
      BY <2>2, <2>3, <2>4, <1>t DEF TypeOK, SessionOrNone
    <2>8. QED
      BY <2>5, <2>6, <2>7
  <1>4. ASSUME NEW s \in Sessions, Prepare(s) PROVE NumbersOK'
    <2>1. /\ prepare[s] = "prepare" /\ prepare'[s] \in {"opensl", "start"}
          /\ \A t \in Sessions : t # s => prepare'[t] = prepare[t]
          /\ this' = [this EXCEPT ![s] = ffAudio]
          /\ UNCHANGED <<ffAudio, number, readerOf>>
      BY <1>4, <1>t DEF TypeOK, Prepare, Goto, readerVars
    <2>2. ffAudio \in Sessions /\ readerOf[s] = NoSession
      BY <2>1, <1>t DEF PlaceInv, TypeOK, SessionOrNone
    <2>3. QED
      BY <2>1, <2>2, <1>t DEF TypeOK, SessionOrNone
  <1>5. ASSUME NEW s \in Sessions, OpenSL(s) PROVE NumbersOK'
    BY <1>5, <1>t DEF TypeOK, SessionOrNone, OpenSL, Goto, readerVars
  <1>6. ASSUME NEW s \in Sessions, Start(s) PROVE NumbersOK'
    <2>1. /\ prepare[s] = "start" /\ prepare' = [prepare EXCEPT ![s] = "done"]
          /\ readerOf' = [readerOf EXCEPT ![s] = ffAudio]
          /\ UNCHANGED <<this, ffAudio, number>>
      BY <1>6 DEF Start, Goto
    <2>2. ffAudio \in Sessions /\ this[s] \in Sessions
      BY <2>1, <1>t DEF PlaceInv, TypeOK, SessionOrNone
    <2>3. QED
      BY <2>1, <2>2, <1>t DEF TypeOK, SessionOrNone
  <1>7. ASSUME UNCHANGED <<prepare, this, ffAudio, readerOf, number>> PROVE NumbersOK'
    BY <1>7, <1>t
  <1>8. ASSUME NEW s \in Sessions, ReadPacket(s) \/ ReadEnd(s)
        PROVE  UNCHANGED <<prepare, this, ffAudio, readerOf, number>>
    BY <1>8 DEF ReadPacket, ReadEnd
  <1>9. ASSUME NEW s \in Sessions, PlayerThread(s)
        PROVE  UNCHANGED <<prepare, this, ffAudio, readerOf, number>>
    BY <1>9, <1>t, PlayerFrame DEF readerVars
  <1>10. ASSUME UNCHANGED vars PROVE UNCHANGED <<prepare, this, ffAudio, readerOf, number>>
    BY <1>10 DEF vars, readerVars
  <1> HIDE DEF NumbersOK
  <1>11. NumbersOK'
    BY <1>1, <1>2, <1>3, <1>4, <1>5, <1>6, <1>7, <1>8, <1>9, <1>10, StepCases
  <1>12. QED
    BY <1>11

\* Publish() takes a number above all others; what has one has been published.
LEMMA UniqueStep == IInv /\ [Next]_vars => UniqueInv'
  <1> SUFFICES ASSUME IInv, [Next]_vars PROVE UniqueInv'
    OBVIOUS
  <1> USE DEF UniqueInv, Unpublished, globals, historyVars
  <1>t. TypeOK /\ PlaceInv /\ NumberInv /\ UniqueInv
    BY DEF IInv
  <1>1. ASSUME NEW s \in Sessions, Open(s) PROVE UniqueInv'
    BY <1>1, <1>t DEF TypeOK, Open, Goto, readerVars
  <1>2. ASSUME NEW s \in Sessions, Construct(s) PROVE UniqueInv'
    BY <1>2, <1>t DEF TypeOK, Construct, Goto, readerVars
  <1>3. ASSUME NEW s \in Sessions, Publish(s) PROVE UniqueInv'
    <2>1. /\ NextNumber \in Nat /\ NextNumber > 0
          /\ \A t \in Sessions : number[t] \in Nat /\ number[t] < NextNumber
      BY <1>t DEF TypeOK, SessionOrNone, NextNumber, NumberInv
    <2>2. /\ prepare' = [prepare EXCEPT ![s] = "prepare"]
          /\ number' = [number EXCEPT ![s] = NextNumber]
          /\ readerOf' = readerOf
      BY <1>3 DEF Publish, Goto, readerVars
    <2>3. \A t \in Sessions : t # s => prepare'[t] = prepare[t] /\ number'[t] = number[t]
      BY <2>2, <1>t DEF TypeOK
    <2>4. prepare'[s] = "prepare" /\ number'[s] = NextNumber
      BY <2>2, <1>t DEF TypeOK
    <2>5. ASSUME NEW t \in Sessions, NEW u \in Sessions,
                 number'[t] > 0, number'[t] = number'[u]
          PROVE  t = u
      BY <2>1, <2>3, <2>4, <2>5, <1>t
    <2>6. QED
      BY <2>1, <2>2, <2>3, <2>4, <2>5, <1>t
  <1>4. ASSUME NEW s \in Sessions, Prepare(s) PROVE UniqueInv'
    BY <1>4, <1>t DEF TypeOK, Prepare, Goto, readerVars
  <1>5. ASSUME NEW s \in Sessions, OpenSL(s) PROVE UniqueInv'
    BY <1>5, <1>t DEF TypeOK, OpenSL, Goto, readerVars
  <1>6. ASSUME NEW s \in Sessions, Start(s) PROVE UniqueInv'
    <2>1. ffAudio # NoSession
      BY <1>6, <1>t DEF PlaceInv, Start, Goto
    <2>2. QED
      BY <2>1, <1>6, <1>t DEF TypeOK, Start, Goto
  <1>7. ASSUME UNCHANGED <<prepare, readerOf, number>> PROVE UniqueInv'
    BY <1>7, <1>t
  <1>8. ASSUME NEW s \in Sessions, ReadPacket(s) \/ ReadEnd(s)
        PROVE  UNCHANGED <<prepare, readerOf, number>>
    BY <1>8 DEF ReadPacket, ReadEnd
  <1>9. ASSUME NEW s \in Sessions, PlayerThread(s) PROVE UNCHANGED <<prepare, readerOf, number>>
    BY <1>9, <1>t, PlayerFrame DEF readerVars
  <1>10. ASSUME UNCHANGED vars PROVE UNCHANGED <<prepare, readerOf, number>>
    BY <1>10 DEF vars, readerVars
  <1> HIDE DEF UniqueInv
  <1>11. QED
    BY <1>1, <1>2, <1>3, <1>4, <1>5, <1>6, <1>7, <1>8, <1>9, <1>10, StepCases

\* A constructor that finds a call in progress sets overlapped; otherwise the
\* call it belongs to is the only one, and the global stays what it sets.
LEMMA AloneStep == IInv /\ [Next]_vars => AloneInv' /\ OwnFFAudio'
  <1> DEFINE AloneOK == AloneInv /\ OwnFFAudio
  <1> SUFFICES ASSUME IInv, [Next]_vars PROVE AloneOK'
    OBVIOUS
  <1> USE DEF AloneInv, OwnFFAudio, Preparing, globals, historyVars
  <1>t. TypeOK /\ AloneInv /\ OwnFFAudio /\ PlaceInv
    BY DEF IInv
  <1>1. ASSUME NEW s \in Sessions, Open(s) PROVE AloneOK'
    BY <1>1, <1>t DEF TypeOK, Open, Goto, readerVars, playerVars
  <1>2. ASSUME NEW s \in Sessions, Construct(s) PROVE AloneOK'
    BY <1>2, <1>t DEF TypeOK, Construct, Goto, readerVars, playerVars
  <1>3. ASSUME NEW s \in Sessions, Publish(s) PROVE AloneOK'
    BY <1>3, <1>t DEF TypeOK, Publish, Goto, readerVars, playerVars
  <1>4. ASSUME NEW s \in Sessions, Prepare(s) PROVE AloneOK'
    BY <1>4, <1>t DEF TypeOK, Prepare, Goto, readerVars, playerVars
  <1>5. ASSUME NEW s \in Sessions, OpenSL(s) PROVE AloneOK'
    BY <1>5, <1>t DEF TypeOK, OpenSL, Goto, readerVars
  <1>6. ASSUME NEW s \in Sessions, Start(s) PROVE AloneOK'
    BY <1>6, <1>t DEF TypeOK, Start, Goto, playerVars
  <1>7. ASSUME UNCHANGED <<prepare, this, ffAudio, readerOf, playerOf, overlapped>> PROVE AloneOK'
    BY <1>7, <1>t
  <1>8. ASSUME NEW s \in Sessions, ReadPacket(s) \/ ReadEnd(s)
        PROVE  UNCHANGED <<prepare, this, ffAudio, readerOf, playerOf, overlapped>>
    BY <1>8 DEF ReadPacket, ReadEnd, playerVars
  <1>9. ASSUME NEW s \in Sessions, PlayerThread(s)
        PROVE  UNCHANGED <<prepare, this, ffAudio, readerOf, playerOf, overlapped>>
    BY <1>9, <1>t, PlayerFrame DEF readerVars
  <1>10. ASSUME UNCHANGED vars
         PROVE  UNCHANGED <<prepare, this, ffAudio, readerOf, playerOf, overlapped>>
    BY <1>10 DEF vars, readerVars, playerVars
  <1> HIDE DEF AloneOK
  <1>11. AloneOK'
    BY <1>1, <1>2, <1>3, <1>4, <1>5, <1>6, <1>7, <1>8, <1>9, <1>10, StepCases
  <1>12. QED
    BY <1>11

\* A constructor that finds a busy session sets mixed; otherwise the session it
\* belongs to is the only busy one.  Then what one player has converted stays
\* in the buffer until it has given it to OpenSL.
LEMMA BusyStep == IInv /\ [Next]_vars => BusyInv' /\ OwnSoundWhenAlone'
  <1> DEFINE BusyOK == BusyInv /\ OwnSoundWhenAlone
  <1> SUFFICES ASSUME IInv, [Next]_vars PROVE BusyOK'
    OBVIOUS
  <1> USE DEF BusyInv, Busy, OwnSoundWhenAlone, EnqueuesWhatItDecoded, globals, historyVars
  <1>t. TypeOK /\ BusyInv /\ OwnSoundWhenAlone
    BY DEF IInv
  \* All but a constructor: nobody becomes busy, and no buffer is replaced.
  <1>a. ASSUME UNCHANGED <<mixed, callback, playerOf, outAudioBuffer, samples>>,
               \A t \in Sessions : Preparing(t)' => Preparing(t)
        PROVE  BusyOK'
    BY <1>a, <1>t DEF Playing
  <1>1. ASSUME NEW s \in Sessions, Open(s) PROVE BusyOK'
    BY <1>1, <1>a, <1>t DEF TypeOK, Preparing, Open, Goto, readerVars, playerVars
  <1>2. ASSUME NEW s \in Sessions, Construct(s) PROVE BusyOK'
    <2>1. /\ mixed' = (mixed \/ \E t \in Sessions : Busy(t))
          /\ callback' = callback
          /\ \A t \in Sessions : t # s => (Preparing(t)' => Preparing(t))
      BY <1>2, <1>t DEF TypeOK, Construct, Goto, Preparing, playerVars
    <2>2. CASE \E t \in Sessions : Busy(t)
      BY <2>1, <2>2
    <2>3. CASE ~ \E t \in Sessions : Busy(t)
      BY <2>1, <2>3 DEF Playing
    <2>4. QED
      BY <2>2, <2>3
  <1>3. ASSUME NEW s \in Sessions, Publish(s) PROVE BusyOK'
    BY <1>3, <1>a, <1>t DEF TypeOK, Preparing, Publish, Goto, readerVars, playerVars
  <1>4. ASSUME NEW s \in Sessions, Prepare(s) PROVE BusyOK'
    BY <1>4, <1>a, <1>t DEF TypeOK, Preparing, Prepare, Goto, readerVars, playerVars
  <1>5. ASSUME NEW s \in Sessions, OpenSL(s) PROVE BusyOK'
    <2>1. /\ Preparing(s) /\ UNCHANGED <<mixed, outAudioBuffer, samples>>
          /\ \A t \in Sessions : Preparing(t)' => Preparing(t)
          /\ \A t \in Sessions : t # s => callback'[t] = callback[t] /\ playerOf'[t] = playerOf[t]
          /\ callback'[s] = "enqueue" => callback[s] = "enqueue" /\ playerOf'[s] = playerOf[s]
      BY <1>5, <1>t DEF TypeOK, Preparing, OpenSL, Goto
    <2>2. \A t \in Sessions : Busy(t)' => Busy(t)
      BY <2>1 DEF Playing
    <2>3. QED
      BY <2>1, <2>2, <1>t
  <1>6. ASSUME NEW s \in Sessions, Start(s) PROVE BusyOK'
    BY <1>6, <1>a, <1>t DEF TypeOK, Preparing, Start, Goto, playerVars
  <1>7. ASSUME NEW s \in Sessions, ReadPacket(s) PROVE BusyOK'
    BY <1>7, <1>a DEF Preparing, ReadPacket, playerVars
  <1>8. ASSUME NEW s \in Sessions, ReadEnd(s) PROVE BusyOK'
    BY <1>8, <1>a DEF Preparing, ReadEnd, playerVars
  <1>9. ASSUME NEW s \in Sessions, PlayerThread(s) PROVE BusyOK'
    <2>1. \A t \in Sessions : Busy(t)' => Busy(t)
      BY <1>9, <1>t, PlayerFrame DEF Preparing
    <2>2. /\ UNCHANGED <<mixed, outAudioBuffer, playerOf>>
          /\ \A t \in Sessions : t # s => callback'[t] = callback[t]
      BY <1>9, <1>t, PlayerFrame
    <2>3. CASE samples' = samples /\ callback'[s] # "enqueue"
      BY <2>1, <2>2, <2>3, <1>t
    <2>4. CASE /\ callback[s] = "convert" /\ callback'[s] = "enqueue"
               /\ samples' = [samples EXCEPT ![outAudioBuffer] = playerOf[s]]
      <3>1. outAudioBuffer \in Sessions
        BY <2>4 DEF IInv, PlaceInv, TypeOK, SessionOrNone
      <3>2. \A t \in Sessions : ~mixed /\ callback'[t] = "enqueue" => t = s
        BY <2>2, <2>4, <1>t DEF Playing
      <3>3. samples'[outAudioBuffer] = playerOf[s]
        BY <3>1, <2>4, <1>t DEF TypeOK
      <3>4. QED
        BY <2>1, <2>2, <3>2, <3>3, <1>t
    <2>5. \/ samples' = samples /\ callback'[s] # "enqueue"
          \/ /\ callback[s] = "convert" /\ callback'[s] = "enqueue"
             /\ samples' = [samples EXCEPT ![outAudioBuffer] = playerOf[s]]
      BY <1>9, <1>t DEF TypeOK, PlayerThread, SLPlayed, Decode, DecodeEnd, Convert,
                        EnqueueBuffer, Move
    <2>6. QED
      BY <2>3, <2>4, <2>5
  <1>10. ASSUME UNCHANGED vars PROVE BusyOK'
    BY <1>10, <1>a DEF vars, Preparing, playerVars
  <1> HIDE DEF BusyOK
  <1>11. BusyOK'
    BY <1>1, <1>2, <1>3, <1>4, <1>5, <1>6, <1>7, <1>8, <1>9, <1>10, StepCases
  <1>12. QED
    BY <1>11

-----------------------------------------------------------------------------
THEOREM Invariance == Spec => []IInv
  <1>1. IInv /\ [Next]_vars => IInv'
    BY TypeStep, PlaceStep, CountStep, NumberStep, UniqueStep, AloneStep, BusyStep DEF IInv
  <1>2. QED
    BY InitIInv, <1>1, PTL DEF Spec

\* Every variable of every session has its type, and OpenSL is never given the
\* null pointer, for any number of activities.
THEOREM TypeCorrect == Spec => []TypeOK
  <1>1. IInv => TypeOK
    BY DEF IInv
  <1>2. QED
    BY Invariance, <1>1, PTL

\* prepare() of FFAudioJNINative.cpp reads the global three times and finds its
\* own FFAudio each time, if no two calls have overlapped.
THEOREM FFAudioIsOwn == Spec => []OwnFFAudio
  <1>1. IInv => OwnFFAudio
    BY DEF IInv
  <1>2. QED
    BY Invariance, <1>1, PTL

\* However the calls of prepare() overlap, none turns to an older FFAudio.
THEOREM NoneIsOlder == Spec => []NeverOlder
  <1>1. IInv => NeverOlder
    BY DEF IInv
  <1>2. QED
    BY Invariance, <1>1, PTL

\* However the calls overlap, an FFAudio that nobody has prepared and started when
\* its call returns has been overtaken by a newer one: the newest is never left.
THEOREM NewestIsServed == Spec => []OnlyOvertakenIsLeft
  <1>1. ASSUME IInv, NEW s \in Sessions, prepare[s] = "done"
        PROVE  \/ this[s] = s /\ readerOf[s] = s
               \/ overlapped /\ \E t \in Sessions : number[t] > number[s]
    <2>1. this[s] \in Sessions /\ readerOf[s] \in Sessions
      BY <1>1 DEF IInv, TypeOK, SessionOrNone, PlaceInv, UniqueInv
    <2>2. /\ number[s] \in Nat /\ number[this[s]] \in Nat /\ number[readerOf[s]] \in Nat
          /\ number[s] > 0
      BY <1>1, <2>1 DEF IInv, TypeOK, UniqueInv, Unpublished
    <2>3. number[this[s]] >= number[s] /\ number[readerOf[s]] >= number[this[s]]
      BY <1>1, <2>1, SessionsAssumption DEF IInv, NeverOlder
    <2>4. CASE number[readerOf[s]] = number[s]
      <3>1. number[this[s]] = number[s]
        BY <2>2, <2>3, <2>4
      <3>2. this[s] = s /\ readerOf[s] = s
        BY <1>1, <2>1, <2>2, <2>4, <3>1 DEF IInv, UniqueInv
      <3>3. QED
        BY <3>2
    <2>5. CASE number[readerOf[s]] # number[s]
      <3>1. readerOf[s] # s /\ number[readerOf[s]] > number[s]
        BY <2>2, <2>3, <2>5
      <3>2. overlapped
        BY <1>1, <2>1, <3>1, SessionsAssumption DEF IInv, OwnFFAudio
      <3>3. QED
        BY <2>1, <3>1, <3>2
    <2>6. QED
      BY <2>4, <2>5
  <1>2. IInv => OnlyOvertakenIsLeft
    BY <1>1 DEF OnlyOvertakenIsLeft
  <1>3. QED
    BY <1>2, Invariance, PTL

\* slBufferQueueCallback() gives OpenSL what it has decoded, if no FFAudio was
\* constructed beside one that was being prepared or played.
THEOREM SoundIsOwn == Spec => []OwnSoundWhenAlone
  <1>1. IInv => OwnSoundWhenAlone
    BY DEF IInv
  <1>2. QED
    BY Invariance, <1>1, PTL

=============================================================================
