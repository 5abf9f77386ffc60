---------------------------- MODULE CallJava_proofs ----------------------------
(***************************************************************************)
(* Proofs about CallJava for any threads and any depth of nested calls:    *)
(* what a thread is to the VM before, during and after its calls.          *)
(***************************************************************************)
EXTENDS CallJava, SequenceTheorems, TLAPS

\* The env of the main thread is known before the object is.
InitialisedInv == Initialised => mainThreadEnv = Main

\* A call works with the env of its own thread or with the main thread's.
EnvInv == \A t \in Threads : \A i \in 1 .. Len(calls[t]) : calls[t][i].env \in {t, Main}

\* A call attaches only a thread the VM has not started, and is then the first
\* of the thread's calls in progress to work with its env; those further out have
\* passed MAIN_THREAD.  So no two calls have attached the same thread.
FlagInv == \A t \in Threads : \A i \in 1 .. Len(calls[t]) :
  calls[t][i].hasThreadAttach => /\ t \notin JavaThreads
                                 /\ calls[t][i].env = t
                                 /\ \A j \in 1 .. i - 1 : calls[t][j].env # t

\* Where such a thread uses its own env, that call or one further out attached it.
BroughtIn == \A t \in Threads \ JavaThreads : \A i \in 1 .. Len(calls[t]) :
  calls[t][i].env = t => \E j \in 1 .. i : calls[t][j].hasThreadAttach

HasFlagged(t) == \E i \in 1 .. Len(calls[t]) : calls[t][i].hasThreadAttach

\* The VM knows its own threads and those that a call in progress attached.
AttachedBy == \A t \in Threads : t \in attached <=> t \in JavaThreads \/ HasFlagged(t)

StackInv == EnvInv /\ FlagInv /\ BroughtIn

IInv == TypeOK /\ InitialisedInv /\ StackInv /\ AttachedBy

Frame == [env : Threads, hasThreadAttach : BOOLEAN]

LEMMA InitIInv == Init => IInv
  <1> SUFFICES ASSUME Init PROVE IInv
    OBVIOUS
  <1> USE ThreadsAssumption, BoundsAssumption DEF Init, Threads
  <1>1. TypeOK
    BY DEF TypeOK, NoObject
  <1>2. InitialisedInv /\ StackInv /\ AttachedBy
    BY DEF InitialisedInv, Initialised, StackInv, EnvInv, FlagInv, BroughtIn, AttachedBy,
           HasFlagged
  <1>3. QED
    BY <1>1, <1>2 DEF IInv

LEMMA InitCallJavaStep == IInv /\ InitCallJava => IInv'
  <1> SUFFICES ASSUME IInv, InitCallJava PROVE IInv'
    OBVIOUS
  <1> USE BoundsAssumption DEF IInv, InitCallJava
  <1>1. TypeOK'
    <2>1. created' \in 1 .. MaxActivities /\ created' = created + 1 /\ created \in Nat
      BY DEF TypeOK
    <2>2. globalRefs' \subseteq 1 .. created'
      <3>1. globalRefs \subseteq 1 .. created
        BY DEF TypeOK
      <3>2. QED
        BY <2>1, <3>1
    <2>3. globalJavaObject' \in 0 .. created'
      BY <2>1
    <2>4. created' \in 0 .. MaxActivities
      BY <2>1
    <2>5. /\ mainThreadEnv' \in {Main, NoThread} /\ attached' \subseteq Threads
          /\ calls' \in [Threads -> Seq([env : Threads, hasThreadAttach : BOOLEAN])]
      BY DEF TypeOK
    <2> HIDE DEF InitCallJava
    <2>6. QED
      BY <2>2, <2>3, <2>4, <2>5 DEF TypeOK
  <1>2. InitialisedInv'
    BY DEF InitialisedInv
  <1>3. StackInv' /\ AttachedBy'
    BY DEF StackInv, EnvInv, FlagInv, BroughtIn, AttachedBy, HasFlagged
  <1>4. QED
    BY <1>1, <1>2, <1>3

\* What Enter() does to the calls of a thread.
LEMMA EnterCalls ==
  ASSUME TypeOK, NEW t \in Threads, NEW env \in Threads, NEW flag \in BOOLEAN,
         Enter(t, env, flag)
  PROVE  /\ calls' \in [Threads -> Seq(Frame)]
         /\ Len(calls[t]) \in Nat /\ Len(calls'[t]) = Len(calls[t]) + 1
         /\ calls'[t] # <<>>
         /\ calls[t] # <<>> <=> Len(calls[t]) # 0
         /\ \A i \in 1 .. Len(calls[t]) : calls'[t][i] = calls[t][i]
         /\ calls'[t][Len(calls[t]) + 1] = [env |-> env, hasThreadAttach |-> flag]
         /\ \A u \in Threads \ {t} : calls'[u] = calls[u]
         /\ UNCHANGED jniVars
  <1> DEFINE f == [env |-> env, hasThreadAttach |-> flag]
  <1>1. f \in Frame
    BY DEF Frame
  <1>2. calls \in [Threads -> Seq(Frame)] /\ calls[t] \in Seq(Frame)
    BY DEF TypeOK, Frame
  <1>3. calls' = [calls EXCEPT ![t] = Append(calls[t], f)]
    BY DEF Enter
  <1> HIDE DEF f
  <1>4. calls'[t] = Append(calls[t], f) /\ \A u \in Threads \ {t} : calls'[u] = calls[u]
    BY <1>2, <1>3
  <1>5. calls' \in [Threads -> Seq(Frame)]
    BY <1>1, <1>2, <1>3
  <1>6. /\ Len(calls'[t]) = Len(calls[t]) + 1 /\ Len(calls[t]) \in Nat
        /\ \A i \in 1 .. Len(calls[t]) : calls'[t][i] = calls[t][i]
        /\ calls'[t][Len(calls[t]) + 1] = f
        /\ calls[t] # <<>> <=> Len(calls[t]) # 0
    BY <1>1, <1>2, <1>4
  <1>7. calls'[t] # <<>>
    BY <1>1, <1>2, <1>4
  <1>8. QED
    BY <1>4, <1>5, <1>6, <1>7 DEF Enter, f

\* A new call keeps what IInv says of the stacks if it attaches a thread that no
\* call has used its own env on, or uses an env the VM has given out already.
LEMMA PushStep ==
  ASSUME IInv, NEW t \in Threads, NEW env \in {t, Main}, NEW flag \in BOOLEAN,
         Enter(t, env, flag),
         flag => /\ t \notin JavaThreads /\ env = t
                 /\ \A i \in 1 .. Len(calls[t]) : calls[t][i].env # t,
         ~flag => t \in JavaThreads \/ env # t \/ HasFlagged(t)
  PROVE  /\ StackInv'
         /\ HasFlagged(t)' <=> HasFlagged(t) \/ flag
         /\ \A u \in Threads \ {t} : HasFlagged(u)' <=> HasFlagged(u)
  <1> USE ThreadsAssumption
  <1>1. TypeOK /\ EnvInv /\ FlagInv /\ BroughtIn
    BY DEF IInv, StackInv
  <1>2. env \in Threads
    BY DEF Threads
  <1> DEFINE n == Len(calls[t])
  <1>3. /\ n \in Nat /\ Len(calls'[t]) = n + 1
        /\ \A i \in 1 .. n : calls'[t][i] = calls[t][i]
        /\ calls'[t][n + 1] = [env |-> env, hasThreadAttach |-> flag]
        /\ \A u \in Threads \ {t} : calls'[u] = calls[u]
    BY <1>1, <1>2, EnterCalls
  <1>4. calls'[t][n + 1].env = env /\ calls'[t][n + 1].hasThreadAttach = flag
    BY <1>3
  <1> HIDE DEF n
  <1>5. ASSUME NEW i \in 1 .. Len(calls'[t])
        PROVE  (i \in 1 .. n /\ calls'[t][i] = calls[t][i]) \/ i = n + 1
    BY <1>3
  <1>6. n + 1 \in 1 .. Len(calls'[t]) /\ \A i \in 1 .. n : i \in 1 .. Len(calls'[t])
    BY <1>3
  <1>7. \A i \in 1 .. n + 1 : \A j \in 1 .. i - 1 : j \in 1 .. n
    BY <1>3
  <1>8. EnvInv'
    BY <1>1, <1>3, <1>4, <1>5 DEF EnvInv, n
  <1>9. FlagInv'
    <2> SUFFICES ASSUME NEW u \in Threads, NEW i \in 1 .. Len(calls'[u]),
                        calls'[u][i].hasThreadAttach
                 PROVE  /\ u \notin JavaThreads /\ calls'[u][i].env = u
                        /\ \A j \in 1 .. i - 1 : calls'[u][j].env # u
      BY DEF FlagInv
    <2>1. CASE u # t
      BY <1>1, <1>3, <2>1 DEF FlagInv
    <2>2. CASE u = t /\ i \in 1 .. n
      <3>1. \A j \in 1 .. i - 1 : j \in 1 .. n
        BY <1>3, <1>7, <2>2
      <3>2. calls[t][i].hasThreadAttach
        BY <1>3, <2>2
      <3>3. /\ t \notin JavaThreads /\ calls[t][i].env = t
            /\ \A j \in 1 .. i - 1 : calls[t][j].env # t
        BY <1>1, <2>2, <3>2 DEF FlagInv, n
      <3>4. QED
        BY <1>3, <2>2, <3>1, <3>3
    <2>3. CASE u = t /\ i = n + 1
      <3>1. flag
        BY <1>4, <2>3
      <3>2. \A j \in 1 .. i - 1 : j \in 1 .. n
        BY <1>3, <2>3
      <3>3. QED
        BY <1>3, <1>4, <2>3, <3>1, <3>2 DEF n
    <2>4. QED
      BY <1>5, <2>1, <2>2, <2>3
  <1>10. /\ HasFlagged(t)' <=> HasFlagged(t) \/ flag
         /\ \A u \in Threads \ {t} : HasFlagged(u)' <=> HasFlagged(u)
    BY <1>3, <1>4, <1>5, <1>6 DEF HasFlagged, n
  <1>11. BroughtIn'
    <2> SUFFICES ASSUME NEW u \in Threads \ JavaThreads, NEW i \in 1 .. Len(calls'[u]),
                        calls'[u][i].env = u
                 PROVE  \E j \in 1 .. i : calls'[u][j].hasThreadAttach
      BY DEF BroughtIn
    <2>1. CASE u # t
      BY <1>1, <1>3, <2>1 DEF BroughtIn
    <2>2. CASE u = t /\ i \in 1 .. n
      <3>1. calls[t][i].env = t
        BY <1>3, <2>2
      <3>2. PICK j \in 1 .. i : calls[t][j].hasThreadAttach
        BY <1>1, <2>2, <3>1 DEF BroughtIn, n
      <3>3. j \in 1 .. n
        BY <1>3, <2>2
      <3>4. QED
        BY <1>3, <2>2, <3>2, <3>3
    <2>3. CASE u = t /\ i = n + 1
      <3>1. env = t
        BY <1>4, <2>3
      <3>2. HasFlagged(t)'
        BY <1>10, <2>3, <3>1
      <3>3. QED
        BY <1>3, <2>3, <3>2 DEF HasFlagged
    <2>4. QED
      BY <1>5, <2>1, <2>2, <2>3
  <1>12. QED
    BY <1>8, <1>9, <1>10, <1>11 DEF StackInv

\* What Enter() leaves alone.
LEMMA EnterTypes ==
  ASSUME IInv, NEW t \in Threads, NEW env \in Threads, NEW flag \in BOOLEAN,
         Enter(t, env, flag), attached' \subseteq Threads
  PROVE  TypeOK' /\ InitialisedInv'
  BY EnterCalls DEF IInv, TypeOK, Frame, InitialisedInv, Initialised, jniVars

\* A call on any thread with the env of the main thread, which stays attached.
LEMMA CallOnMainStep == ASSUME IInv, NEW t \in Threads, CallOnMain(t) PROVE IInv'
  <1>1. /\ TypeOK /\ mainThreadEnv = Main /\ Main \in Threads /\ Main \in JavaThreads
        /\ Enter(t, Main, FALSE) /\ attached' = attached /\ attached \subseteq Threads
    BY ThreadsAssumption DEF CallOnMain, IInv, InitialisedInv, TypeOK, Threads
  <1>2. t \in JavaThreads \/ Main # t
    BY <1>1
  <1>3. /\ StackInv'
        /\ HasFlagged(t)' <=> HasFlagged(t)
        /\ \A u \in Threads \ {t} : HasFlagged(u)' <=> HasFlagged(u)
    BY <1>1, <1>2, PushStep
  <1>4. TypeOK' /\ InitialisedInv'
    BY <1>1, EnterTypes
  <1>5. AttachedBy'
    BY <1>1, <1>3 DEF IInv, AttachedBy
  <1>6. QED
    BY <1>3, <1>4, <1>5 DEF IInv

\* A call with its own env on a thread the VM knows.
LEMMA CallOnChildStep == ASSUME IInv, NEW t \in Threads, CallOnChild(t) PROVE IInv'
  <1>1. /\ Enter(t, t, FALSE) /\ attached' = attached /\ attached \subseteq Threads
        /\ t \in JavaThreads \/ HasFlagged(t)
    BY DEF CallOnChild, IInv, TypeOK, AttachedBy
  <1>2. /\ StackInv'
        /\ HasFlagged(t)' <=> HasFlagged(t)
        /\ \A u \in Threads \ {t} : HasFlagged(u)' <=> HasFlagged(u)
    BY <1>1, PushStep
  <1>3. TypeOK' /\ InitialisedInv'
    BY <1>1, EnterTypes
  <1>4. AttachedBy'
    BY <1>1, <1>2 DEF IInv, AttachedBy
  <1>5. QED
    BY <1>2, <1>3, <1>4 DEF IInv

\* The thread is attached by this call: none of its calls has used its env.
LEMMA CallAttachingStep == ASSUME IInv, NEW t \in Threads, CallAttaching(t) PROVE IInv'
  <1>1. /\ TypeOK /\ Enter(t, t, TRUE) /\ t \notin attached
        /\ attached' = attached \cup {t} /\ attached' \subseteq Threads
    BY DEF CallAttaching, IInv, TypeOK
  <1>2. t \notin JavaThreads /\ ~HasFlagged(t)
    BY <1>1 DEF IInv, AttachedBy
  <1>3. ASSUME NEW i \in 1 .. Len(calls[t]), calls[t][i].env = t PROVE FALSE
    <2>1. PICK j \in 1 .. i : calls[t][j].hasThreadAttach
      BY <1>2, <1>3 DEF IInv, StackInv, BroughtIn
    <2>2. Len(calls[t]) \in Nat
      BY <1>1 DEF TypeOK
    <2>3. j \in 1 .. Len(calls[t])
      BY <2>2
    <2>4. QED
      BY <1>2, <2>1, <2>3 DEF HasFlagged
  <1>4. /\ StackInv' /\ HasFlagged(t)'
        /\ \A u \in Threads \ {t} : HasFlagged(u)' <=> HasFlagged(u)
    BY <1>1, <1>2, <1>3, PushStep
  <1>5. TypeOK' /\ InitialisedInv'
    BY <1>1, EnterTypes
  <1>6. AttachedBy'
    BY <1>1, <1>4 DEF IInv, AttachedBy
  <1>7. QED
    BY <1>4, <1>5, <1>6 DEF IInv

\* What Finish() does to the calls of a thread.
LEMMA FinishCalls ==
  ASSUME TypeOK, NEW t \in Threads, Finish(t)
  PROVE  /\ calls' \in [Threads -> Seq(Frame)]
         /\ Len(calls[t]) \in Nat \ {0} /\ Len(calls'[t]) = Len(calls[t]) - 1
         /\ calls[t] # <<>>
         /\ calls'[t] = <<>> <=> Len(calls[t]) = 1
         /\ \A i \in 1 .. Len(calls[t]) - 1 : calls'[t][i] = calls[t][i]
         /\ \A u \in Threads \ {t} : calls'[u] = calls[u]
  <1> DEFINE n == Len(calls[t])
             rest == SubSeq(calls[t], 1, n - 1)
  <1>1. calls \in [Threads -> Seq(Frame)] /\ calls[t] \in Seq(Frame) /\ calls[t] # <<>>
    BY DEF TypeOK, Frame, Finish
  <1>2. n \in Nat \ {0}
    BY <1>1
  <1>3. \A i \in 1 .. n - 1 : i \in 1 .. n
    BY <1>2
  <1>4. /\ rest \in Seq(Frame) /\ Len(rest) = n - 1
        /\ \A i \in 1 .. n - 1 : rest[i] = calls[t][i]
    <2>1. \A i \in 1 .. n - 1 : calls[t][i] \in Frame
      BY <1>1, <1>3
    <2>2. /\ rest \in Seq(Frame)
          /\ Len(rest) = IF 1 <= n - 1 THEN (n - 1) - 1 + 1 ELSE 0
          /\ \A i \in 1 .. (n - 1) - 1 + 1 : rest[i] = calls[t][1 + i - 1]
      BY <1>1, <1>2, <1>3, SubSeqProperties
    <2>3. QED
      BY <1>2, <2>2
  <1>5. calls' = [calls EXCEPT ![t] = rest]
    BY DEF Finish
  <1> HIDE DEF rest
  <1>6. calls'[t] = rest /\ calls' \in [Threads -> Seq(Frame)]
        /\ \A u \in Threads \ {t} : calls'[u] = calls[u]
    BY <1>1, <1>4, <1>5
  <1>7. rest = <<>> <=> Len(rest) = 0
    BY <1>4, EmptySeq
  <1>8. QED
    BY <1>1, <1>2, <1>4, <1>6, <1>7

LEMMA FinishStep == ASSUME IInv, NEW t \in Threads, Finish(t) PROVE IInv'
  <1> USE DEF IInv
  <1>1. TypeOK
    OBVIOUS
  <1>2. attached' \subseteq attached /\ attached \ {t} \subseteq attached'
    BY DEF Finish
  <1>3. TypeOK' /\ InitialisedInv'
    BY <1>1, <1>2, FinishCalls DEF Finish, TypeOK, Frame, InitialisedInv, Initialised, jniVars
  <1>4. /\ Len(calls[t]) \in Nat \ {0} /\ Len(calls'[t]) = Len(calls[t]) - 1
        /\ calls[t] # <<>>
        /\ calls'[t] = <<>> <=> Len(calls[t]) = 1
        /\ \A i \in 1 .. Len(calls[t]) - 1 : calls'[t][i] = calls[t][i]
        /\ \A u \in Threads \ {t} : calls'[u] = calls[u]
    BY <1>1, FinishCalls
  <1> DEFINE n == Len(calls[t])
  <1>5. ASSUME NEW i \in 1 .. Len(calls'[t])
        PROVE  i \in 1 .. n /\ i # n /\ calls'[t][i] = calls[t][i]
    BY <1>4
  <1>6. /\ n \in 1 .. n
        /\ \A i \in 1 .. n : i # n => i \in 1 .. Len(calls'[t]) /\ i \in 1 .. n - 1
    BY <1>4
  <1>7. \A i \in 1 .. Len(calls'[t]) : \A j \in 1 .. i : j \in 1 .. Len(calls'[t])
    BY <1>4
  <1>8. StackInv'
    <2> USE DEF StackInv
    <2>1. EnvInv'
      BY <1>4, <1>5 DEF EnvInv
    <2>2. FlagInv'
      <3> SUFFICES ASSUME NEW u \in Threads, NEW i \in 1 .. Len(calls'[u]),
                          calls'[u][i].hasThreadAttach
                   PROVE  /\ u \notin JavaThreads /\ calls'[u][i].env = u
                          /\ \A j \in 1 .. i - 1 : calls'[u][j].env # u
        BY DEF FlagInv
      <3>1. CASE u = t
        <4>1. \A j \in 1 .. i - 1 : j \in 1 .. Len(calls'[t])
          BY <1>4, <3>1
        <4>2. QED
          BY <1>5, <3>1, <4>1 DEF FlagInv
      <3>2. CASE u # t
        BY <1>4, <3>2 DEF FlagInv
      <3>3. QED
        BY <3>1, <3>2
    <2>3. BroughtIn'
      <3> SUFFICES ASSUME NEW u \in Threads \ JavaThreads, NEW i \in 1 .. Len(calls'[u]),
                          calls'[u][i].env = u
                   PROVE  \E j \in 1 .. i : calls'[u][j].hasThreadAttach
        BY DEF BroughtIn
      <3>1. CASE u = t
        <4>1. PICK j \in 1 .. i : calls[t][j].hasThreadAttach
          BY <1>5, <3>1 DEF BroughtIn
        <4>2. QED
          BY <1>5, <1>7, <3>1, <4>1
      <3>2. CASE u # t
        BY <1>4, <3>2 DEF BroughtIn
      <3>3. QED
        BY <3>1, <3>2
    <2>4. QED
      BY <2>1, <2>2, <2>3
  <1>9. AttachedBy'
    <2>1. \A u \in Threads \ {t} : /\ HasFlagged(u)' <=> HasFlagged(u)
                                   /\ u \in attached' <=> u \in attached
      BY <1>2, <1>4 DEF HasFlagged
    <2>2. Innermost(t) = calls[t][n]
      BY DEF Innermost
    <2>3. t \in attached' <=> t \in JavaThreads \/ HasFlagged(t)'
      <3>1. CASE Innermost(t).hasThreadAttach
        <4>1. t \notin JavaThreads /\ t \notin attached'
          BY <1>6, <2>2, <3>1 DEF StackInv, FlagInv, Finish
        <4>2. ASSUME NEW i \in 1 .. Len(calls'[t]), calls'[t][i].hasThreadAttach PROVE FALSE
          <5>1. i \in 1 .. n - 1 /\ calls[t][i].hasThreadAttach
            BY <1>5, <1>6, <4>2
          <5>2. calls[t][i].env = t
            BY <1>5, <5>1 DEF StackInv, FlagInv
          <5>3. calls[t][i].env # t
            BY <1>6, <2>2, <3>1, <5>1 DEF StackInv, FlagInv
          <5>4. QED
            BY <5>2, <5>3
        <4>3. QED
          BY <4>1, <4>2 DEF HasFlagged
      <3>2. CASE ~Innermost(t).hasThreadAttach
        <4>1. attached' = attached
          BY <3>2 DEF Finish
        <4>2. HasFlagged(t)' <=> HasFlagged(t)
          BY <1>5, <1>6, <2>2, <3>2 DEF HasFlagged
        <4>3. QED
          BY <4>1, <4>2 DEF AttachedBy
      <3>3. QED
        BY <3>1, <3>2
    <2>4. QED
      BY <2>1, <2>3 DEF AttachedBy
  <1>10. QED
    BY <1>3, <1>8, <1>9

LEMMA NextIInv == IInv /\ [Next]_vars => IInv'
  <1> SUFFICES ASSUME IInv, [Next]_vars PROVE IInv'
    OBVIOUS
  <1>1. CASE UNCHANGED vars
    <2>1. TypeOK' /\ InitialisedInv'
      BY <1>1 DEF vars, IInv, TypeOK, InitialisedInv, Initialised
    <2>2. EnvInv' /\ FlagInv' /\ BroughtIn' /\ AttachedBy'
      BY <1>1 DEF vars, IInv, StackInv, EnvInv, FlagInv, BroughtIn, AttachedBy, HasFlagged
    <2>3. QED
      BY <2>1, <2>2 DEF IInv, StackInv
  <1>2. QED
    BY <1>1, InitCallJavaStep, CallOnMainStep, CallOnChildStep, CallAttachingStep, FinishStep
       DEF Next

\* The inductive invariant holds in every run.
THEOREM Invariance == Spec => []IInv
  BY InitIInv, NextIInv, PTL DEF Spec

\* No call of CallJava goes on without the env of a thread.
THEOREM TypeCorrect == Spec => []TypeOK
  <1>1. IInv => TypeOK
    BY DEF IInv
  <1>2. QED
    BY <1>1, Invariance, PTL

\* However calls nest, and whichever env they take, callFinish() never detaches a
\* thread while a call in progress works with its env.
THEOREM CallsStayAttached == Spec => []AttachedInCall
  <1>1. ASSUME IInv, NEW t \in Threads, NEW i \in 1 .. Len(calls[t])
        PROVE  calls[t][i].env \in attached
    <2>1. calls[t][i].env \in {t, Main} /\ Main \in attached
      BY <1>1, ThreadsAssumption DEF IInv, StackInv, EnvInv, AttachedBy, Threads
    <2>2. CASE calls[t][i].env = t /\ t \notin JavaThreads
      <3>1. PICK j \in 1 .. i : calls[t][j].hasThreadAttach
        BY <1>1, <2>2 DEF IInv, StackInv, BroughtIn
      <3>2. Len(calls[t]) \in Nat
        BY <1>1 DEF IInv, TypeOK
      <3>3. HasFlagged(t)
        <4>1. j \in 1 .. Len(calls[t])
          BY <3>2
        <4>2. QED
          BY <3>1, <4>1 DEF HasFlagged
      <3>4. QED
        BY <1>1, <2>2, <3>3 DEF IInv, AttachedBy
    <2>3. CASE calls[t][i].env = t /\ t \in JavaThreads
      BY <1>1, <2>3 DEF IInv, AttachedBy
    <2>4. QED
      BY <2>1, <2>2, <2>3
  <1>2. IInv => AttachedInCall
    BY <1>1 DEF AttachedInCall
  <1>3. QED
    BY <1>2, Invariance, PTL

\* After its outermost call a thread is attached exactly if the VM started it.
THEOREM CallsRestore == Spec => []RestoredAfterCall
  <1>1. IInv => RestoredAfterCall
    BY DEF IInv, AttachedBy, HasFlagged, RestoredAfterCall
  <1>2. QED
    BY <1>1, Invariance, PTL
=============================================================================
