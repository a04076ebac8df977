----------------------------- MODULE VLCObject -----------------------------
(***************************************************************************)
(* A Java wrapper of a libvlc object: org.videolan.libvlc.VLCObject and    *)
(* its JNI half libvlcjni-vlcobject.c.                                     *)
(*                                                                         *)
(* Application threads retain, release and use the native object and       *)
(* install event listeners.  A libvlc thread emits events: it calls the    *)
(* JNI callback while it holds the lock of libvlc's event manager, and     *)
(* the callback posts a runnable to the Handler of the listener under the  *)
(* monitor of the wrapper.  The last release() tears the object down in    *)
(* three phases: clear the listener under the monitor, detach the events   *)
(* outside of it, free the native object under it again.                   *)
(*                                                                         *)
(* A block that holds the monitor and waits for nothing is one step, so    *)
(* the monitor is a variable only for the phases that take several.        *)
(***************************************************************************)
EXTENDS Naturals, Sequences, FiniteSets

CONSTANTS
  Refs,       \* the references that can be alive at once
  Threads,    \* threads that call the Java API
  Loopers,    \* the threads that run a Handler, the main thread among them
  Main,       \* the Android main thread
  Listeners,  \* event listeners
  Events,     \* event types attached to the native object
  EventThread,\* the libvlc thread that emits events
  None,       \* null
  MaxQueue    \* bound: runnables waiting in the Handler

ASSUME ThreadsAssumption ==
  /\ Loopers \subseteq Threads
  /\ Main \in Loopers
  /\ EventThread \notin Threads
  /\ None \notin Threads \cup Listeners \cup Events \cup {EventThread}
ASSUME RefsAssumption == IsFiniteSet(Refs) /\ Refs # {}
ASSUME MaxQueueAssumption == MaxQueue \in Nat

VARIABLES
  mNativeRefCount,  \* VLCObject.mNativeRefCount
  mEventListener,   \* VLCObject.mEventListener
  mHandler,         \* the looper of VLCObject.mHandler
  queue,            \* messages posted through mHandler, oldest first
  running,          \* the listener each looper is calling
  monitor,          \* owner of the Java monitor across steps
  emLock,           \* owner of the lock of libvlc's event manager
  callback,         \* the event whose JNI callback is running
  attached,         \* events still attached to the event manager
  native,           \* the vlcjni_object behind mInstance
  pc,               \* where each thread is in an API call
  holder            \* who holds each reference (environment)

vars == <<mNativeRefCount, mEventListener, mHandler, queue, running, monitor,
          emLock, callback, attached, native, pc, holder>>

listenerVars == <<mEventListener, mHandler, queue>>

Runnable == [listener : Listeners, looper : Loopers]

TypeOK ==
  /\ mNativeRefCount \in Nat
  /\ mEventListener \in Listeners \cup {None}
  /\ mHandler \in Loopers \cup {None}
  /\ queue \in Seq(Runnable)
  /\ running \in [Loopers -> Listeners \cup {None}]
  /\ monitor \in Threads \cup {None}
  /\ emLock \in {EventThread, None}
  /\ callback \in Events \cup {None}
  /\ attached \in SUBSET Events
  /\ native \in {"alive", "freed"}
  /\ pc \in [Threads -> {"idle", "native", "detach", "free", "freeing"}]
  /\ holder \in [Refs -> Threads \cup {None}]

Held == {r \in Refs : holder[r] # None}
HoldsRef(t) == \E r \in Refs : holder[r] = t

(***************************************************************************)
(* The constructor: one reference, events attached by the subclass's       *)
(* native constructor (VLCJniObject_newFromJavaLibVlc, _attachEvents).     *)
(***************************************************************************)
Init ==
  /\ mNativeRefCount = 1
  /\ mEventListener = None
  /\ mHandler = None
  /\ queue = <<>>
  /\ running = [l \in Loopers |-> None]
  /\ monitor = None
  /\ emLock = None
  /\ callback = None
  /\ attached = Events
  /\ native = "alive"
  /\ pc = [t \in Threads |-> "idle"]
  /\ \E r \in Refs, t \in Threads :
        holder = [x \in Refs |-> IF x = r THEN t ELSE None]

-----------------------------------------------------------------------------
(* The API, called by any thread that the monitor lets in.                  *)

\* Mutant of Retain: a reference handed out without counting it.
RetainUncounted(t) ==
  /\ pc[t] = "idle" /\ monitor = None
  /\ mNativeRefCount > 0
  /\ \E r \in Refs \ Held : holder' = [holder EXCEPT ![r] = t]
  /\ UNCHANGED <<mNativeRefCount, listenerVars, running, monitor, emLock,
                 callback, attached, native, pc>>

\* retain(): a thread that reaches the wrapper takes a reference of its own;
\* nothing happens once the count is zero.
Retain(t) ==
  /\ pc[t] = "idle" /\ monitor = None
  /\ mNativeRefCount > 0
  /\ \E r \in Refs \ Held : holder' = [holder EXCEPT ![r] = t]
  /\ mNativeRefCount' = mNativeRefCount + 1
  /\ UNCHANGED <<listenerVars, running, monitor, emLock, callback, attached,
                 native, pc>>

\* Mutant of AssignListener: the messages of the old listener stay queued.
AssignListenerKeepsQueue(l, h) ==
  /\ mEventListener' = l
  /\ mHandler' = IF l = None THEN None
                 ELSE IF mHandler = None THEN h ELSE mHandler
  /\ UNCHANGED queue

\* The assignments of setEventListener(l, h): messages of the current Handler
\* are removed, a null listener drops the Handler, and a Handler is created
\* only when there is none.
AssignListener(l, h) ==
  /\ queue' = <<>>
  /\ mEventListener' = l
  /\ mHandler' = IF l = None THEN None
                 ELSE IF mHandler = None THEN h ELSE mHandler

SetEventListener(t, l, h) ==
  /\ pc[t] = "idle" /\ monitor = None
  /\ HoldsRef(t)
  /\ AssignListener(l, h)
  /\ UNCHANGED <<mNativeRefCount, running, monitor, emLock, callback,
                 attached, native, pc, holder>>

\* Mutant of LastReference: an off-by-one in the test of refCount.
LastReferenceEarly == mNativeRefCount <= 2

\* refCount == 0 after the decrement of release().
LastReference == mNativeRefCount = 1

\* Mutant of Release: the events are detached inside the synchronized block.
ReleaseHoldingMonitor(t) ==
  /\ pc[t] = "idle" /\ monitor = None
  /\ mNativeRefCount > 0
  /\ \E r \in Refs : /\ holder[r] = t
                     /\ holder' = [holder EXCEPT ![r] = None]
  /\ mNativeRefCount' = mNativeRefCount - 1
  /\ IF LastReference
     THEN /\ AssignListener(None, Main)
          /\ pc' = [pc EXCEPT ![t] = "detach"]
          /\ monitor' = t
     ELSE UNCHANGED <<listenerVars, pc, monitor>>
  /\ UNCHANGED <<running, emLock, callback, attached, native>>

\* release(), its first synchronized block: the thread that drops the last
\* reference clears the listener and goes on to tear the object down.
Release(t) ==
  /\ pc[t] = "idle" /\ monitor = None
  /\ mNativeRefCount > 0
  /\ \E r \in Refs : /\ holder[r] = t
                     /\ holder' = [holder EXCEPT ![r] = None]
  /\ mNativeRefCount' = mNativeRefCount - 1
  /\ IF LastReference
     THEN /\ AssignListener(None, Main)
          /\ pc' = [pc EXCEPT ![t] = "detach"]
     ELSE UNCHANGED <<listenerVars, pc>>
  /\ UNCHANGED <<running, monitor, emLock, callback, attached, native>>

\* nativeDetachEvents(), one libvlc_event_detach(): it takes the lock of the
\* event manager and so waits for a callback that is running.
DetachEvent(t) ==
  /\ pc[t] = "detach" /\ emLock = None
  /\ \E e \in attached : attached' = attached \ {e}
  /\ UNCHANGED <<mNativeRefCount, listenerVars, running, monitor, emLock,
                 callback, native, pc, holder>>

\* Mutant of DetachDone: the loop of nativeDetachEvents() ends too early.
DetachDoneEarly(t) ==
  /\ pc[t] = "detach"
  /\ pc' = [pc EXCEPT ![t] = "free"]
  /\ UNCHANGED <<mNativeRefCount, listenerVars, running, monitor, emLock,
                 callback, attached, native, holder>>

\* nativeDetachEvents() returns.
DetachDone(t) ==
  /\ pc[t] = "detach" /\ attached = {}
  /\ pc' = [pc EXCEPT ![t] = "free"]
  /\ UNCHANGED <<mNativeRefCount, listenerVars, running, monitor, emLock,
                 callback, attached, native, holder>>

\* release(), its second synchronized block; the monitor is reentrant.
FreeBegin(t) ==
  /\ pc[t] = "free" /\ monitor \in {None, t}
  /\ monitor' = t
  /\ pc' = [pc EXCEPT ![t] = "freeing"]
  /\ UNCHANGED <<mNativeRefCount, listenerVars, running, emLock, callback,
                 attached, native, holder>>

\* onReleaseNative() of the subclass, then VLCJniObject_release(): the
\* structures are freed, mInstance is cleared and the block is left.
FreeEnd(t) ==
  /\ pc[t] = "freeing"
  /\ native' = "freed"
  /\ monitor' = None
  /\ pc' = [pc EXCEPT ![t] = "idle"]
  /\ UNCHANGED <<mNativeRefCount, listenerVars, running, emLock, callback,
                 attached, holder>>

\* A native method of the subclass: VLCJniObject_getInstance() reads the
\* pointer, the call uses it later and returns.
NativeCall(t) ==
  /\ pc[t] = "idle" /\ HoldsRef(t)
  /\ pc' = [pc EXCEPT ![t] = "native"]
  /\ UNCHANGED <<mNativeRefCount, listenerVars, running, monitor, emLock,
                 callback, attached, native, holder>>

NativeReturn(t) ==
  /\ pc[t] = "native"
  /\ pc' = [pc EXCEPT ![t] = "idle"]
  /\ UNCHANGED <<mNativeRefCount, listenerVars, running, monitor, emLock,
                 callback, attached, native, holder>>
-----------------------------------------------------------------------------
(* The libvlc event thread.                                                 *)

\* libvlc_event_send(): the callback runs under the event manager's lock.
EmitEvent(e) ==
  /\ emLock = None /\ callback = None
  /\ e \in attached
  /\ Len(queue) < MaxQueue
  /\ emLock' = EventThread
  /\ callback' = e
  /\ UNCHANGED <<mNativeRefCount, listenerVars, running, monitor, attached,
                 native, pc, holder>>

\* Mutant of Deliverable: the null tests of dispatchEventFromNative() dropped.
DeliverableUnguarded == mNativeRefCount > 0

\* The object is not released and has a listener and a Handler.
Deliverable == mNativeRefCount > 0 /\ mEventListener # None /\ mHandler # None

\* dispatchEventFromNative(), synchronized: a released object ignores the
\* event, and so does one whose onEventNative() returns null or that has no
\* listener; otherwise a runnable bound to the listener is posted.
Dispatch ==
  /\ callback # None /\ monitor = None
  /\ \/ /\ Deliverable
        /\ queue' = Append(queue, [listener |-> mEventListener,
                                   looper |-> mHandler])
     \/ UNCHANGED queue
  /\ callback' = None
  /\ emLock' = None
  /\ UNCHANGED <<mNativeRefCount, mEventListener, mHandler, running,
                 monitor, attached, native, pc, holder>>
-----------------------------------------------------------------------------
(* The Handler's looper: dequeue a runnable, run listener.onEvent().  The   *)
(* listener may itself call the API, so the looper thread's API steps are   *)
(* enabled while a runnable runs.                                           *)

LooperStart(l) ==
  /\ running[l] = None /\ pc[l] = "idle"
  /\ queue # <<>> /\ Head(queue).looper = l
  /\ running' = [running EXCEPT ![l] = Head(queue).listener]
  /\ queue' = Tail(queue)
  /\ UNCHANGED <<mNativeRefCount, mEventListener, mHandler, monitor,
                 emLock, callback, attached, native, pc, holder>>

LooperEnd(l) ==
  /\ running[l] # None /\ pc[l] = "idle"
  /\ running' = [running EXCEPT ![l] = None]
  /\ UNCHANGED <<mNativeRefCount, listenerVars, monitor, emLock, callback,
                 attached, native, pc, holder>>
-----------------------------------------------------------------------------
Teardown(t) == DetachEvent(t) \/ DetachDone(t) \/ FreeBegin(t) \/ FreeEnd(t)

Next ==
  \/ \E t \in Threads :
       \/ Retain(t) \/ Release(t) \/ Teardown(t)
       \/ NativeCall(t) \/ NativeReturn(t)
       \/ \E l \in Listeners \cup {None}, h \in Loopers :
             SetEventListener(t, l, h)
  \/ \E e \in Events : EmitEvent(e)
  \/ Dispatch
  \/ \E l \in Loopers : LooperStart(l) \/ LooperEnd(l)

\* The threads of the teardown and the libvlc thread keep running.  A lock
\* that is free again and again is obtained in the end, hence SF where a step
\* takes one.
Fairness ==
  /\ \A t \in Threads : /\ SF_vars(DetachEvent(t)) /\ WF_vars(DetachDone(t))
                        /\ SF_vars(FreeBegin(t)) /\ WF_vars(FreeEnd(t))
  /\ SF_vars(Dispatch)

Spec == Init /\ [][Next]_vars

FairSpec == Spec /\ Fairness
-----------------------------------------------------------------------------
(* Properties.                                                              *)

\* The count is the number of references held, so no release() comes too
\* early or too late (VLCObject.java:58-92).
CountIsHeld == mNativeRefCount = Cardinality(Held)

\* Only one thread tears the object down, only when nobody holds it, and the
\* native structures live until that thread frees them.
SingleTeardown ==
  /\ \A t, u \in Threads :
        /\ pc[t] \in {"detach", "free", "freeing"}
        /\ pc[u] \in {"detach", "free", "freeing"}
        => t = u
  /\ (native = "freed" \/ \E t \in Threads : pc[t] \in {"detach", "free", "freeing"})
        => Held = {}

\* A thread in a native method, and the JNI callback, never touch a freed
\* vlcjni_object (VLCJniObject_release, libvlcjni-vlcobject.c:148).
NoUseAfterFree ==
  native = "freed" => /\ \A t \in Threads : pc[t] # "native"
                      /\ callback = None

\* Every waiting runnable is for the listener that is installed: replacing or
\* clearing a listener also cancels what was posted for the old one, so an
\* old listener is never started (VLCObject.java:109-117, :160).
QueueMatchesListener ==
  \A i \in DOMAIN queue : queue[i].listener = mEventListener

\* Once the count is zero, the object is freed: detaching outside of the
\* monitor never waits for a callback that waits for the monitor
\* (VLCObject.java:85-91).
ReleaseCompletes == mNativeRefCount = 0 ~> native = "freed"

\* The threads, locks and phases of the wrapper implement an object that is
\* alive while it is referenced, is freed once with nobody inside, and sends its
\* events to the installed listener (VLCObject.java:58-165).
Lifetime == INSTANCE NativeLifetime WITH
  owner     <- holder,
  busy      <- {t \in Threads : pc[t] = "native"},
  notifying <- callback # None,
  life      <- IF native = "freed" THEN "freed"
               ELSE IF mNativeRefCount = 0 THEN "releasing" ELSE "alive",
  installed <- mEventListener,
  hears     <- running

ImplementsLifetime == Lifetime!Spec

=============================================================================
