-------------------------- MODULE VLCObjectProofs --------------------------
(***************************************************************************)
(* Theorems about VLCObject, for any number of references, threads,        *)
(* listeners and events.  IInv is the inductive invariant: the count is    *)
(* the number of references held; the thread that tears down is alone and  *)
(* nobody holds a reference any more; a thread inside a native method      *)
(* holds one; and a JNI callback runs under the event manager's lock for   *)
(* an event that is still attached, so that detaching the last event means *)
(* that no callback is left.                                               *)
(***************************************************************************)
EXTENDS VLCObject, FiniteSetTheorems, TLAPS

TearingDown(t) == pc[t] \in {"detach", "free", "freeing"}

NativeHolds == \A t \in Threads : pc[t] = "native" => HoldsRef(t)

CallbackAttached ==
  callback # None => emLock = EventThread /\ callback \in attached

DetachedFirst ==
  (native = "freed" \/ \E t \in Threads : pc[t] \in {"free", "freeing"})
    => attached = {}

IInv ==
  /\ TypeOK
  /\ CountIsHeld
  /\ SingleTeardown
  /\ NativeHolds
  /\ CallbackAttached
  /\ DetachedFirst

\* A finite set loses one member when a reference is dropped, and gains one
\* when a reference is taken.
LEMMA HeldAdd ==
  ASSUME TypeOK, NEW r \in Refs \ Held, NEW t \in Threads,
         holder' = [holder EXCEPT ![r] = t]
  PROVE  /\ Held' = Held \cup {r}
         /\ Cardinality(Held') = Cardinality(Held) + 1
         /\ Cardinality(Held) \in Nat
<1>1. IsFiniteSet(Held)
  BY RefsAssumption, FS_Subset DEF Held
<1>2. Held' = Held \cup {r}
  BY ThreadsAssumption DEF Held, TypeOK
<1>3. r \notin Held
  OBVIOUS
<1>4. Cardinality(Held \cup {r}) = Cardinality(Held) + 1
  BY <1>1, <1>3, FS_AddElement
<1> QED BY <1>1, <1>2, <1>4, FS_CardinalityType

LEMMA HeldRemove ==
  ASSUME TypeOK, NEW r \in Refs, holder[r] # None,
         holder' = [holder EXCEPT ![r] = None]
  PROVE  /\ Held' = Held \ {r}
         /\ Cardinality(Held') = Cardinality(Held) - 1
         /\ Cardinality(Held) \in Nat
         /\ Cardinality(Held) = 1 => Held' = {}
<1>1. IsFiniteSet(Held)
  BY RefsAssumption, FS_Subset DEF Held
<1>2. Held' = Held \ {r}
  BY DEF Held, TypeOK
<1>3. r \in Held
  BY DEF Held
<1>4. Cardinality(Held \ {r}) = Cardinality(Held) - 1
  BY <1>1, <1>3, FS_RemoveElement
<1>5. IsFiniteSet(Held \ {r})
  BY <1>1, FS_Subset
<1>6. Cardinality(Held) \in Nat
  BY <1>1, FS_CardinalityType
<1>7. Cardinality(Held \ {r}) = 0 => Held \ {r} = {}
  BY <1>5, FS_EmptySet
<1> QED BY <1>2, <1>4, <1>6, <1>7

\* A count of zero, a thread that tears down: nobody holds a reference.
LEMMA HeldEmpty ==
  ASSUME TypeOK, Held = {}, CountIsHeld
  PROVE  mNativeRefCount = 0
BY FS_EmptySet DEF CountIsHeld

LEMMA AssignListenerType ==
  ASSUME TypeOK, NEW l \in Listeners \cup {None}, NEW h \in Loopers,
         AssignListener(l, h)
  PROVE  /\ queue' \in Seq(Runnable)
         /\ mEventListener' \in Listeners \cup {None}
         /\ mHandler' \in Loopers \cup {None}
BY DEF TypeOK, AssignListener

LEMMA InitIInv == Init => IInv
<1> SUFFICES ASSUME Init PROVE IInv
  OBVIOUS
<1>1. PICK r \in Refs, t \in Threads :
        holder = [x \in Refs |-> IF x = r THEN t ELSE None]
  BY DEF Init
<1>2. TypeOK
  BY <1>1, ThreadsAssumption DEF Init, TypeOK
<1>3. Held = {r}
  BY <1>1, ThreadsAssumption DEF Held
<1>4. CountIsHeld
  BY <1>3, FS_Singleton DEF CountIsHeld, Init
<1>5. SingleTeardown /\ NativeHolds /\ CallbackAttached /\ DetachedFirst
  BY DEF Init, SingleTeardown, NativeHolds, CallbackAttached, DetachedFirst
<1> QED BY <1>2, <1>4, <1>5 DEF IInv
-----------------------------------------------------------------------------
LEMMA RetainIInv ==
  ASSUME IInv, NEW t \in Threads, Retain(t)
  PROVE  IInv'
<1> USE DEF IInv
<1>1. PICK r \in Refs \ Held : holder' = [holder EXCEPT ![r] = t]
  BY DEF Retain
<1>2. /\ Held' = Held \cup {r}
      /\ Cardinality(Held') = Cardinality(Held) + 1
      /\ Cardinality(Held) \in Nat
  BY <1>1, HeldAdd
<1>3. TypeOK'
  BY <1>1 DEF Retain, TypeOK, listenerVars
<1>4. CountIsHeld'
  BY <1>2 DEF Retain, CountIsHeld
<1>5. Held # {}
  BY HeldEmpty DEF Retain
<1>6. SingleTeardown'
  BY <1>5 DEF Retain, SingleTeardown
<1>7. NativeHolds'
  BY <1>1, ThreadsAssumption DEF Retain, NativeHolds, HoldsRef, Held, TypeOK
<1>8. CallbackAttached' /\ DetachedFirst'
  BY DEF Retain, CallbackAttached, DetachedFirst
<1> QED BY <1>3, <1>4, <1>6, <1>7, <1>8

LEMMA ReleaseIInv ==
  ASSUME IInv, NEW t \in Threads, Release(t)
  PROVE  IInv'
<1> USE DEF IInv
<1>1. PICK r \in Refs : /\ holder[r] = t
                        /\ holder' = [holder EXCEPT ![r] = None]
  BY DEF Release
<1>2. holder[r] # None
  BY <1>1, ThreadsAssumption
<1>3. /\ Held' = Held \ {r}
      /\ Cardinality(Held') = Cardinality(Held) - 1
      /\ Cardinality(Held) = 1 => Held' = {}
  BY <1>1, <1>2, HeldRemove
<1>4. /\ queue' \in Seq(Runnable)
      /\ mEventListener' \in Listeners \cup {None}
      /\ mHandler' \in Loopers \cup {None}
  <2>1. CASE LastReference
    BY <2>1, AssignListenerType, ThreadsAssumption DEF Release
  <2>2. CASE ~ LastReference
    BY <2>2 DEF Release, listenerVars, TypeOK
  <2> QED BY <2>1, <2>2
<1>5. TypeOK'
  BY <1>1, <1>4 DEF Release, TypeOK
<1>6. CountIsHeld'
  BY <1>3 DEF Release, CountIsHeld
<1>7. Held # {}
  BY <1>1, <1>2 DEF Held
<1>8. native # "freed" /\ \A u \in Threads : ~ TearingDown(u)
  BY <1>7 DEF SingleTeardown, TearingDown
<1>9. SingleTeardown'
  BY <1>3, <1>8 DEF Release, LastReference, SingleTeardown, TearingDown,
     CountIsHeld, TypeOK
<1>10. NativeHolds'
  <2> SUFFICES ASSUME NEW u \in Threads, pc'[u] = "native" PROVE HoldsRef(u)'
    BY DEF NativeHolds
  <2>1. pc[u] = "native" /\ u # t
    BY DEF Release, TypeOK
  <2>2. PICK q \in Refs : holder[q] = u
    BY <2>1 DEF NativeHolds, HoldsRef
  <2>3. holder'[q] = u
    BY <1>1, <2>1, <2>2 DEF TypeOK
  <2> QED BY <2>3 DEF HoldsRef
<1>11. CallbackAttached' /\ DetachedFirst'
  BY <1>8 DEF Release, CallbackAttached, DetachedFirst, TearingDown, TypeOK
<1> QED BY <1>5, <1>6, <1>9, <1>10, <1>11

LEMMA TeardownIInv ==
  ASSUME IInv, NEW t \in Threads, Teardown(t)
  PROVE  IInv'
<1> USE DEF IInv
<1>1. TearingDown(t)
  BY DEF Teardown, DetachEvent, DetachDone, FreeBegin, FreeEnd, TearingDown
<1>2. Held = {} /\ \A u \in Threads : TearingDown(u) => u = t
  BY <1>1 DEF SingleTeardown, TearingDown
<1>3. CASE DetachEvent(t)
  <2>1. callback = None
    BY <1>3, ThreadsAssumption DEF DetachEvent, CallbackAttached
  <2>2. PICK e \in attached : attached' = attached \ {e}
    BY <1>3 DEF DetachEvent
  <2>3. TypeOK'
    BY <1>3, <2>2 DEF DetachEvent, TypeOK, listenerVars
  <2>4. DetachedFirst'
    BY <1>3, <2>2 DEF DetachEvent, DetachedFirst
  <2> QED
    BY <1>3, <2>1, <2>3, <2>4 DEF DetachEvent, CountIsHeld, SingleTeardown,
       NativeHolds, CallbackAttached, Held, HoldsRef
<1>4. CASE DetachDone(t)
  <2>1. TypeOK'
    BY <1>4 DEF DetachDone, TypeOK, listenerVars
  <2>2. SingleTeardown'
    BY <1>2, <1>4 DEF DetachDone, SingleTeardown, TearingDown, Held, TypeOK
  <2> QED
    BY <1>4, <2>1, <2>2 DEF DetachDone, CountIsHeld, NativeHolds,
       CallbackAttached, DetachedFirst, Held, HoldsRef, TypeOK
<1>5. CASE FreeBegin(t)
  <2>1. TypeOK'
    BY <1>5 DEF FreeBegin, TypeOK, listenerVars
  <2>2. SingleTeardown'
    BY <1>2, <1>5 DEF FreeBegin, SingleTeardown, TearingDown, Held, TypeOK
  <2> QED
    BY <1>5, <2>1, <2>2 DEF FreeBegin, CountIsHeld, NativeHolds,
       CallbackAttached, DetachedFirst, Held, HoldsRef, TypeOK
<1>6. CASE FreeEnd(t)
  <2>1. TypeOK'
    BY <1>6 DEF FreeEnd, TypeOK, listenerVars
  <2>2. SingleTeardown'
    BY <1>2, <1>6 DEF FreeEnd, SingleTeardown, TearingDown, Held, TypeOK
  <2> QED
    BY <1>6, <2>1, <2>2 DEF FreeEnd, CountIsHeld, NativeHolds,
       CallbackAttached, DetachedFirst, Held, HoldsRef, TypeOK
<1> QED BY <1>3, <1>4, <1>5, <1>6 DEF Teardown

LEMMA CallIInv ==
  ASSUME IInv, NEW t \in Threads,
         \/ NativeCall(t) \/ NativeReturn(t)
         \/ \E l \in Listeners \cup {None}, h \in Loopers : SetEventListener(t, l, h)
  PROVE  IInv'
<1> USE DEF IInv
<1>1. CASE NativeCall(t)
  <2>1. TypeOK' /\ SingleTeardown'
    BY <1>1 DEF NativeCall, TypeOK, listenerVars, SingleTeardown, Held
  <2>2. NativeHolds'
    BY <1>1 DEF NativeCall, NativeHolds, HoldsRef, TypeOK
  <2> QED
    BY <1>1, <2>1, <2>2 DEF NativeCall, CountIsHeld, CallbackAttached,
       DetachedFirst, Held, TypeOK
<1>2. CASE NativeReturn(t)
  <2>1. TypeOK' /\ SingleTeardown'
    BY <1>2 DEF NativeReturn, TypeOK, listenerVars, SingleTeardown, Held
  <2>2. NativeHolds'
    BY <1>2 DEF NativeReturn, NativeHolds, HoldsRef, TypeOK
  <2> QED
    BY <1>2, <2>1, <2>2 DEF NativeReturn, CountIsHeld, CallbackAttached,
       DetachedFirst, Held, TypeOK
<1>3. ASSUME NEW l \in Listeners \cup {None}, NEW h \in Loopers,
             SetEventListener(t, l, h)
      PROVE  IInv'
  <2>1. TypeOK'
    BY <1>3, AssignListenerType DEF SetEventListener, TypeOK
  <2> QED
    BY <1>3, <2>1 DEF SetEventListener, CountIsHeld, SingleTeardown, NativeHolds,
       CallbackAttached, DetachedFirst, Held, HoldsRef
<1> QED BY <1>1, <1>2, <1>3

LEMMA EventIInv ==
  ASSUME IInv, \/ \E e \in Events : EmitEvent(e)
               \/ Dispatch
               \/ \E l \in Loopers : LooperStart(l) \/ LooperEnd(l)
  PROVE  IInv'
<1> USE DEF IInv
<1>1. ASSUME NEW e \in Events, EmitEvent(e) PROVE IInv'
  <2>1. TypeOK'
    BY <1>1 DEF EmitEvent, TypeOK, listenerVars
  <2> QED
    BY <1>1, <2>1 DEF EmitEvent, CountIsHeld, SingleTeardown, NativeHolds,
       CallbackAttached, DetachedFirst, Held, HoldsRef
<1>2. CASE Dispatch
  <2>1. queue' \in Seq(Runnable)
    <3>1. CASE UNCHANGED queue
      BY <3>1 DEF TypeOK
    <3>2. CASE /\ mEventListener # None /\ mHandler # None
               /\ queue' = Append(queue, [listener |-> mEventListener,
                                          looper |-> mHandler])
      <4>1. [listener |-> mEventListener, looper |-> mHandler] \in Runnable
        BY <3>2 DEF TypeOK, Runnable
      <4>2. queue \in Seq(Runnable)
        BY DEF TypeOK
      <4> QED BY <3>2, <4>1, <4>2
    <3> QED BY <1>2, <3>1, <3>2 DEF Dispatch, Deliverable
  <2>2. TypeOK'
    BY <1>2, <2>1 DEF Dispatch, TypeOK
  <2> QED
    BY <1>2, <2>2 DEF Dispatch, CountIsHeld, SingleTeardown, NativeHolds,
       CallbackAttached, DetachedFirst, Held, HoldsRef
<1>3. ASSUME NEW l \in Loopers, LooperStart(l) PROVE IInv'
  <2>1. queue' \in Seq(Runnable) /\ Head(queue) \in Runnable
    BY <1>3 DEF LooperStart, TypeOK
  <2>2. TypeOK'
    BY <1>3, <2>1 DEF LooperStart, TypeOK, Runnable
  <2> QED
    BY <1>3, <2>2 DEF LooperStart, CountIsHeld, SingleTeardown, NativeHolds,
       CallbackAttached, DetachedFirst, Held, HoldsRef
<1>4. ASSUME NEW l \in Loopers, LooperEnd(l) PROVE IInv'
  <2>1. TypeOK'
    BY <1>4 DEF LooperEnd, TypeOK, listenerVars
  <2> QED
    BY <1>4, <2>1 DEF LooperEnd, CountIsHeld, SingleTeardown, NativeHolds,
       CallbackAttached, DetachedFirst, Held, HoldsRef
<1> QED BY <1>1, <1>2, <1>3, <1>4

LEMMA StutterIInv ==
  ASSUME IInv, UNCHANGED vars
  PROVE  IInv'
BY DEF IInv, vars, TypeOK, CountIsHeld, SingleTeardown, NativeHolds,
   CallbackAttached, DetachedFirst, Held, HoldsRef

LEMMA NextIInv == IInv /\ [Next]_vars => IInv'
<1> SUFFICES ASSUME IInv, [Next]_vars PROVE IInv'
  OBVIOUS
<1>1. CASE Next
  BY <1>1, RetainIInv, ReleaseIInv, TeardownIInv, CallIInv, EventIInv DEF Next
<1>2. CASE UNCHANGED vars
  BY <1>2, StutterIInv
<1> QED BY <1>1, <1>2

\* IInv holds in every reachable state.
THEOREM Inductive == Spec => []IInv
BY InitIInv, NextIInv, PTL DEF Spec
-----------------------------------------------------------------------------
\* Every variable keeps its type (VLCObject.java:30-45).
THEOREM TypeCorrect == Spec => []TypeOK
<1>1. IInv => TypeOK
  BY DEF IInv
<1> QED BY <1>1, Inductive, PTL

\* mNativeRefCount is exact for any number of threads that retain and release
\* (VLCObject.java:58-92).
THEOREM CountCorrect == Spec => []CountIsHeld
<1>1. IInv => CountIsHeld
  BY DEF IInv
<1> QED BY <1>1, Inductive, PTL

\* release() tears the object down once, and only when nobody holds it
\* (VLCObject.java:73-92).
THEOREM TeardownOnce == Spec => []SingleTeardown
<1>1. IInv => SingleTeardown
  BY DEF IInv
<1> QED BY <1>1, Inductive, PTL

\* No native method and no event callback touches a freed vlcjni_object
\* (libvlcjni-vlcobject.c:148-240).
THEOREM MemorySafe == Spec => []NoUseAfterFree
<1>1. IInv => NoUseAfterFree
  <2> SUFFICES ASSUME IInv, native = "freed" PROVE NoUseAfterFree
    BY DEF NoUseAfterFree
  <2>1. Held = {}
    BY DEF IInv, SingleTeardown
  <2>2. \A t \in Threads : ~ HoldsRef(t)
    BY <2>1, ThreadsAssumption DEF Held, HoldsRef
  <2>3. callback = None
    BY DEF IInv, DetachedFirst, CallbackAttached
  <2> QED BY <2>2, <2>3 DEF IInv, NativeHolds, NoUseAfterFree
<1> QED BY <1>1, Inductive, PTL
-----------------------------------------------------------------------------
LEMMA AssignListenerQueue ==
  ASSUME NEW l, NEW h, AssignListener(l, h)
  PROVE  QueueMatchesListener'
BY DEF AssignListener, QueueMatchesListener

LEMMA NextQueue ==
  ASSUME TypeOK, QueueMatchesListener, [Next]_vars
  PROVE  QueueMatchesListener'
<1> DEFINE Kept == UNCHANGED <<queue, mEventListener>>
<1>0. Kept => QueueMatchesListener'
  BY DEF QueueMatchesListener
<1>1. CASE \E t \in Threads : Release(t)
  <2>1. PICK t \in Threads : Release(t)
    BY <1>1
  <2>2. CASE LastReference
    BY <2>1, <2>2, AssignListenerQueue DEF Release
  <2>3. CASE ~ LastReference
    BY <2>1, <2>3, <1>0 DEF Release, listenerVars
  <2> QED BY <2>2, <2>3
<1>2. CASE \E t \in Threads, l \in Listeners \cup {None}, h \in Loopers :
              SetEventListener(t, l, h)
  BY <1>2, AssignListenerQueue DEF SetEventListener
<1>3. CASE Dispatch
  <2>1. CASE UNCHANGED queue
    BY <1>3, <2>1, <1>0 DEF Dispatch
  <2>2. CASE queue' = Append(queue, [listener |-> mEventListener,
                                     looper |-> mHandler])
    <3> SUFFICES ASSUME NEW i \in DOMAIN queue'
                 PROVE  queue'[i].listener = mEventListener'
      BY DEF QueueMatchesListener
    <3>1. queue \in Seq(Runnable) /\ mEventListener' = mEventListener
      BY <1>3 DEF TypeOK, Dispatch
    <3>2. CASE i \in DOMAIN queue
      BY <2>2, <3>1, <3>2 DEF QueueMatchesListener
    <3>3. CASE i = Len(queue) + 1
      BY <2>2, <3>1, <3>3
    <3> QED BY <2>2, <3>1, <3>2, <3>3
  <2> QED BY <1>3, <2>1, <2>2 DEF Dispatch
<1>4. CASE \E l \in Loopers : LooperStart(l)
  <2>1. /\ queue \in Seq(Runnable) /\ queue # <<>>
        /\ queue' = Tail(queue) /\ mEventListener' = mEventListener
    BY <1>4 DEF LooperStart, TypeOK
  <2> SUFFICES ASSUME NEW i \in DOMAIN queue'
               PROVE  queue'[i].listener = mEventListener'
    BY DEF QueueMatchesListener
  <2>2. i + 1 \in DOMAIN queue /\ queue'[i] = queue[i + 1]
    BY <2>1
  <2> QED BY <2>1, <2>2 DEF QueueMatchesListener
<1>5. CASE \E t \in Threads : Retain(t) \/ Teardown(t) \/ NativeCall(t) \/ NativeReturn(t)
  BY <1>5, <1>0 DEF Retain, Teardown, DetachEvent, DetachDone, FreeBegin, FreeEnd,
     NativeCall, NativeReturn, listenerVars
<1>6. CASE \/ \E e \in Events : EmitEvent(e)
           \/ \E l \in Loopers : LooperEnd(l)
           \/ UNCHANGED vars
  BY <1>6, <1>0 DEF EmitEvent, LooperEnd, listenerVars, vars
<1> QED BY <1>1, <1>2, <1>3, <1>4, <1>5, <1>6 DEF Next

\* A listener that was replaced or cleared is never started again
\* (VLCObject.java:109-117).
THEOREM NoStaleListener == Spec => []QueueMatchesListener
<1>1. Init => QueueMatchesListener
  BY DEF Init, QueueMatchesListener
<1>2. TypeOK /\ QueueMatchesListener /\ [Next]_vars => QueueMatchesListener'
  BY NextQueue
<1> QED BY <1>1, <1>2, TypeCorrect, PTL DEF Spec
-----------------------------------------------------------------------------
(* The refinement.  A step of the wrapper is a step of the abstract object  *)
(* or leaves it alone; MapInv is what the mapping needs to know.            *)

MapInv == IInv /\ QueueMatchesListener

LEMMA CountZero ==
  ASSUME IInv
  PROVE  /\ mNativeRefCount = 0 <=> Held = {}
         /\ native = "freed" => mNativeRefCount = 0
<1>1. IsFiniteSet(Held)
  BY RefsAssumption, FS_Subset DEF Held
<1>2. Cardinality(Held) = 0 <=> Held = {}
  BY <1>1, FS_EmptySet
<1> QED BY <1>2 DEF IInv, CountIsHeld, SingleTeardown

LEMMA InitMaps == Init => Lifetime!Init
BY DEF Init, Lifetime!Init

LEMMA RetainMaps ==
  ASSUME MapInv, NEW t \in Threads, Retain(t)
  PROVE  Lifetime!Take(t)
<1>1. native # "freed" /\ mNativeRefCount > 0
  BY CountZero DEF MapInv, Retain
<1>2. mNativeRefCount \in Nat
  BY DEF MapInv, IInv, TypeOK
<1>3. mNativeRefCount # 0 /\ mNativeRefCount' # 0
  BY <1>1, <1>2 DEF Retain
<1> QED BY <1>1, <1>3 DEF Retain, Lifetime!Take, Held, listenerVars

LEMMA ReleaseMaps ==
  ASSUME MapInv, NEW t \in Threads, Release(t)
  PROVE  Lifetime!Drop(t)
<1> USE DEF MapInv
<1>1. native # "freed" /\ mNativeRefCount # 0 /\ mNativeRefCount \in Nat
  BY CountZero DEF Release, IInv, TypeOK
<1>2. IInv'
  BY ReleaseIInv
<1>3. mNativeRefCount' = 0 <=> \A r \in Refs : holder'[r] = None
  <2>1. (mNativeRefCount = 0 <=> Held = {})'
    <3>1. IsFiniteSet(Held')
      BY RefsAssumption, FS_Subset DEF Held
    <3>2. Cardinality(Held') = 0 <=> Held' = {}
      BY <3>1, FS_EmptySet
    <3> QED BY <1>2, <3>2 DEF IInv, CountIsHeld
  <2> QED BY <2>1 DEF Held
<1>4. \E r \in Refs : holder[r] = t /\ holder' = [holder EXCEPT ![r] = None]
  BY DEF Release
<1>5. UNCHANGED <<native, running, callback>>
  BY DEF Release
<1>6. {u \in Threads : pc'[u] = "native"} = {u \in Threads : pc[u] = "native"}
  BY DEF Release, IInv, TypeOK
<1>7. CASE LastReference
  <2>1. mNativeRefCount' = 0 /\ mEventListener' = None
    BY <1>7 DEF Release, LastReference, AssignListener
  <2> QED BY <1>1, <1>3, <1>4, <1>5, <1>6, <2>1 DEF Lifetime!Drop
<1>8. CASE ~ LastReference
  <2>1. mNativeRefCount' # 0 /\ mEventListener' = mEventListener
    BY <1>1, <1>8 DEF Release, LastReference, listenerVars
  <2> QED BY <1>1, <1>3, <1>4, <1>5, <1>6, <2>1 DEF Lifetime!Drop
<1> QED BY <1>7, <1>8

LEMMA TeardownMaps ==
  ASSUME MapInv, NEW t \in Threads, Teardown(t)
  PROVE  Lifetime!Free \/ UNCHANGED Lifetime!lifetimeVars
<1> USE DEF MapInv
<1>1. CASE FreeEnd(t)
  <2>1. Held = {} /\ mNativeRefCount = 0
    BY <1>1, CountZero DEF FreeEnd, IInv, SingleTeardown
  <2>2. \A u \in Threads : pc[u] # "native"
    BY <2>1, ThreadsAssumption DEF IInv, NativeHolds, HoldsRef, Held
  <2>3. callback = None
    BY <1>1 DEF FreeEnd, IInv, DetachedFirst, CallbackAttached
  <2>4. \A u \in Threads : pc'[u] # "native"
    BY <1>1, <2>2 DEF FreeEnd, IInv, TypeOK
  <2>5. /\ native' = "freed"
        /\ UNCHANGED <<holder, mNativeRefCount, mEventListener, running, callback>>
    BY <1>1 DEF FreeEnd, listenerVars
  <2> QED BY <2>1, <2>2, <2>3, <2>4, <2>5
          DEF Lifetime!Free, Lifetime!lifetimeVars
<1>2. CASE DetachEvent(t) \/ DetachDone(t) \/ FreeBegin(t)
  <2>1. {u \in Threads : pc'[u] = "native"} = {u \in Threads : pc[u] = "native"}
    BY <1>2 DEF DetachEvent, DetachDone, FreeBegin, IInv, TypeOK
  <2>2. UNCHANGED <<holder, mNativeRefCount, mEventListener, running, callback, native>>
    BY <1>2 DEF DetachEvent, DetachDone, FreeBegin, listenerVars
  <2> QED BY <2>1, <2>2 DEF Lifetime!lifetimeVars
<1> QED BY <1>1, <1>2 DEF Teardown

LEMMA CallMaps ==
  ASSUME MapInv, NEW t \in Threads,
         \/ NativeCall(t) \/ NativeReturn(t)
         \/ \E l \in Listeners \cup {None}, h \in Loopers : SetEventListener(t, l, h)
  PROVE  Lifetime!Enter(t) \/ Lifetime!Leave(t) \/ Lifetime!Install(t)
<1> USE DEF MapInv
<1>1. HoldsRef(t) => native # "freed" /\ mNativeRefCount # 0
  BY CountZero, ThreadsAssumption DEF HoldsRef, Held
<1>2. CASE NativeCall(t)
  <2>1. {u \in Threads : pc'[u] = "native"}
          = {u \in Threads : pc[u] = "native"} \cup {t}
    BY <1>2 DEF NativeCall, IInv, TypeOK
  <2>2. /\ HoldsRef(t) /\ pc[t] = "idle"
        /\ UNCHANGED <<holder, mNativeRefCount, mEventListener, running, callback, native>>
    BY <1>2 DEF NativeCall, listenerVars
  <2> QED BY <1>1, <2>1, <2>2 DEF Lifetime!Enter, Lifetime!Owns, HoldsRef
<1>3. CASE NativeReturn(t)
  <2>1. {u \in Threads : pc'[u] = "native"}
          = {u \in Threads : pc[u] = "native"} \ {t}
    BY <1>3 DEF NativeReturn, IInv, TypeOK
  <2>2. /\ pc[t] = "native"
        /\ UNCHANGED <<holder, mNativeRefCount, mEventListener, running, callback, native>>
    BY <1>3 DEF NativeReturn, listenerVars
  <2> QED BY <2>1, <2>2 DEF Lifetime!Leave
<1>4. ASSUME NEW l \in Listeners \cup {None}, NEW h \in Loopers,
             SetEventListener(t, l, h)
      PROVE  Lifetime!Install(t)
  <2>1. /\ HoldsRef(t) /\ mEventListener' \in Listeners \cup {None}
        /\ UNCHANGED <<holder, mNativeRefCount, running, callback, native, pc>>
    BY <1>4 DEF SetEventListener, AssignListener
  <2> QED BY <1>1, <2>1 DEF Lifetime!Install, Lifetime!Owns, HoldsRef
<1> QED BY <1>2, <1>3, <1>4

LEMMA EventMaps ==
  ASSUME MapInv, \/ \E e \in Events : EmitEvent(e)
                 \/ Dispatch
                 \/ \E l \in Loopers : LooperStart(l) \/ LooperEnd(l)
  PROVE  Lifetime!Notify \/ \E l \in Loopers : Lifetime!Hear(l)
<1> USE DEF MapInv
<1>1. CASE \E e \in Events : EmitEvent(e)
  <2>1. PICK e \in Events : EmitEvent(e)
    BY <1>1
  <2>2. native # "freed"
    BY <2>1 DEF EmitEvent, IInv, DetachedFirst
  <2>3. /\ callback = None /\ callback' # None
        /\ UNCHANGED <<holder, mNativeRefCount, mEventListener, running, native, pc>>
    BY <2>1, ThreadsAssumption DEF EmitEvent, listenerVars
  <2> QED BY <2>2, <2>3 DEF Lifetime!Notify
<1>2. CASE Dispatch
  <2>1. native # "freed"
    BY <1>2 DEF Dispatch, IInv, CallbackAttached, DetachedFirst
  <2>2. /\ callback # None /\ callback' = None
        /\ UNCHANGED <<holder, mNativeRefCount, mEventListener, running, native, pc>>
    BY <1>2 DEF Dispatch
  <2> QED BY <2>1, <2>2 DEF Lifetime!Notify
<1>3. ASSUME NEW l \in Loopers, LooperStart(l) PROVE Lifetime!Hear(l)
  <2>1. queue \in Seq(Runnable) /\ queue # <<>>
    BY <1>3 DEF LooperStart, IInv, TypeOK
  <2>2. Head(queue).listener = mEventListener
    BY <2>1 DEF QueueMatchesListener
  <2>3. /\ running' = [running EXCEPT ![l] = mEventListener]
        /\ UNCHANGED <<holder, mNativeRefCount, mEventListener, callback, native, pc>>
    BY <1>3, <2>2 DEF LooperStart
  <2> QED BY <2>3 DEF Lifetime!Hear
<1>4. ASSUME NEW l \in Loopers, LooperEnd(l) PROVE Lifetime!Hear(l)
  BY <1>4 DEF LooperEnd, listenerVars, Lifetime!Hear
<1> QED BY <1>1, <1>2, <1>3, <1>4

LEMMA NextMaps ==
  ASSUME MapInv, [Next]_vars
  PROVE  [Lifetime!Next]_(Lifetime!lifetimeVars)
<1>1. CASE UNCHANGED vars
  BY <1>1 DEF vars, Lifetime!lifetimeVars
<1>2. CASE Next
  BY <1>2, RetainMaps, ReleaseMaps, TeardownMaps, CallMaps, EventMaps
     DEF Next, Lifetime!Next
<1> QED BY <1>1, <1>2

\* The wrapper implements the abstract object: alive while referenced, freed
\* once with nobody inside, heard by its listener only (VLCObject.java:58-165).
THEOREM LifetimeImplemented == Spec => ImplementsLifetime
<1>1. Spec => []MapInv
  BY Inductive, NoStaleListener, PTL DEF MapInv
<1>2. MapInv /\ [Next]_vars => [Lifetime!Next]_(Lifetime!lifetimeVars)
  BY NextMaps
<1> QED BY <1>1, <1>2, InitMaps, PTL DEF Spec, ImplementsLifetime, Lifetime!Spec
=============================================================================
