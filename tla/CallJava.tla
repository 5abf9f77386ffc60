-------------------------------- MODULE CallJava --------------------------------
(***************************************************************************)
(* CallJava (cpp/ffaudio/CallJava.cpp): native code calls a method of the  *)
(* activity on any thread.  A thread the Java VM does not know has to be   *)
(* attached for the time of the call; the method called may be native and  *)
(* call Java again, so that calls nest.  initCallJava() of                 *)
(* FFAudioJNINative.cpp gives the object the methods are called on, once   *)
(* for every activity that is created.                                     *)
(***************************************************************************)
EXTENDS Integers, Sequences

CONSTANTS JavaThreads,     \* threads the VM has started and keeps attached
          NativeThreads,   \* threads of pthread_create() and of OpenSL ES
          Main,            \* the thread that creates the activities
          NoThread,
          MaxActivities,   \* how often an activity is created (a bound)
          MaxDepth         \* how deep calls nest (a bound)

ASSUME ThreadsAssumption == /\ JavaThreads \cap NativeThreads = {}
                            /\ Main \in JavaThreads
                            /\ NoThread \notin JavaThreads \cup NativeThreads
ASSUME BoundsAssumption == MaxActivities \in Nat /\ MaxDepth \in Nat

Threads == JavaThreads \cup NativeThreads

\* Global references are numbered as they are created.
NoObject == 0

VARIABLES
  mainThreadEnv,     \* callJava->mainThreadEnv: whose JNIEnv, or NoThread
  globalJavaObject,  \* callJava->globalJavaObject and globalObject
  globalRefs,        \* the global references that have not been deleted
  created,           \* how many activities have been created
  attached,          \* the threads the VM knows
  calls              \* calls[t]: the calls thread t is in, the innermost last

vars == <<mainThreadEnv, globalJavaObject, globalRefs, created, attached, calls>>

jniVars == <<mainThreadEnv, globalJavaObject, globalRefs, created>>

Init == /\ mainThreadEnv = NoThread
        /\ globalJavaObject = NoObject
        /\ globalRefs = {}
        /\ created = 0
        /\ attached = JavaThreads
        /\ calls = [t \in Threads |-> <<>>]

-----------------------------------------------------------------------------
\* initCallJava(), which onCreate() calls: NewGlobalRef(thiz) replaces the
\* reference of the activity before.
InitCallJava == /\ created < MaxActivities
                /\ calls[Main] = <<>>
                /\ created' = created + 1
                /\ mainThreadEnv' = Main
                /\ globalJavaObject' = created'
                /\ globalRefs' = globalRefs \cup {created'}
                /\ UNCHANGED <<attached, calls>>

-----------------------------------------------------------------------------
(* callPrepare(): without a VM, an env or an object, or when the thread     *)
(* cannot be attached, it returns no env and the call ends as it began.     *)

Initialised == mainThreadEnv # NoThread /\ globalJavaObject # NoObject

\* Call<Type>MethodV() with the env and the flag that callPrepare() returned.
Enter(t, env, hasThreadAttach) ==
  /\ Len(calls[t]) < MaxDepth
  /\ calls' = [calls EXCEPT ![t] =
                 Append(@, [env |-> env, hasThreadAttach |-> hasThreadAttach])]
  /\ UNCHANGED jniVars

\* Mutant of CallOnMain: the pointers are not checked.
CallOnMainUnchecked(t) == /\ Enter(t, mainThreadEnv, FALSE)
                          /\ UNCHANGED attached

\* ThreadWhere::MAIN_THREAD: the env of initCallJava(), on whatever thread.
CallOnMain(t) == /\ Initialised
                 /\ Enter(t, mainThreadEnv, FALSE)
                 /\ UNCHANGED attached

\* Mutant of CallOnChild: the flag is set on every child thread.
CallOnChildFlagged(t) == /\ Initialised
                         /\ t \in attached
                         /\ Enter(t, t, TRUE)
                         /\ UNCHANGED attached

\* ThreadWhere::CHILD_THREAD: GetEnv() finds the thread attached.
CallOnChild(t) == /\ Initialised
                  /\ t \in attached
                  /\ Enter(t, t, FALSE)
                  /\ UNCHANGED attached

\* ThreadWhere::CHILD_THREAD: AttachCurrentThread() after JNI_EDETACHED.
CallAttaching(t) == /\ Initialised
                    /\ t \notin attached
                    /\ Enter(t, t, TRUE)
                    /\ attached' = attached \cup {t}

Innermost(t) == calls[t][Len(calls[t])]

\* Mutant of Finish: the thread stays attached.
FinishAttached(t) == /\ calls[t] # <<>>
                     /\ calls' = [calls EXCEPT ![t] = SubSeq(@, 1, Len(@) - 1)]
                     /\ UNCHANGED <<jniVars, attached>>

\* The method returns; callFinish() detaches the thread if this call has
\* attached it.
Finish(t) == /\ calls[t] # <<>>
             /\ calls' = [calls EXCEPT ![t] = SubSeq(@, 1, Len(@) - 1)]
             /\ attached' = IF Innermost(t).hasThreadAttach
                            THEN attached \ {t} ELSE attached
             /\ UNCHANGED jniVars

Next == \/ InitCallJava
        \/ \E t \in Threads : \/ CallOnMain(t) \/ CallOnChild(t) \/ CallAttaching(t)
                              \/ Finish(t)

Spec == Init /\ [][Next]_vars

-----------------------------------------------------------------------------
\* Every variable has its type; no call goes on without an env.
TypeOK == /\ mainThreadEnv \in {Main, NoThread}
          /\ created \in 0 .. MaxActivities
          /\ globalJavaObject \in 0 .. created
          /\ globalRefs \subseteq 1 .. created
          /\ attached \subseteq Threads
          /\ calls \in [Threads -> Seq([env : Threads, hasThreadAttach : BOOLEAN])]

\* The env each call works with, the outer ones included, belongs to a thread
\* the VM knows for as long as the call lasts: however calls with MAIN_THREAD and
\* CHILD_THREAD nest, one that ends does not detach a thread another one needs.
AttachedInCall ==
  \A t \in Threads : \A i \in 1 .. Len(calls[t]) : calls[t][i].env \in attached

\* After its outermost call a thread is as it was before: the VM's own threads
\* stay attached, and no native thread is left attached when it may end.
RestoredAfterCall == \A t \in Threads :
  calls[t] = <<>> => (t \in attached <=> t \in JavaThreads)
=============================================================================
