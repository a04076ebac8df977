------------------------------ MODULE Renderers ------------------------------
(***************************************************************************)
(* The renderers (Chromecasts and the like) that playback can be sent to:  *)
(* RendererDelegate.kt, which follows the network through                  *)
(* ExternalMonitor.java, and RendererDiscoverer.java, which turns what     *)
(* libvlc finds into RendererItems.                                        *)
(*                                                                         *)
(* start() and stop() are called on the main thread when the network comes *)
(* and goes.  start() is a coroutine: it waits for the libvlc instance on  *)
(* another thread, and between the attempts to start a discoverer, and the *)
(* main thread serves other calls meanwhile, a stop() or a second start()  *)
(* among them.  libvlc's threads announce and withdraw renderers at any    *)
(* time.  overtaken is history: a stop() found a start() that was waiting. *)
(* A stop() that finds none makes a new beginning.                         *)
(*                                                                         *)
(* A Java object that nobody refers to any more may stand for a new one;   *)
(* the fields of a discoverer that was stopped, and the discoverer of an   *)
(* item that is gone, are reset for that.  What libvlc tells a discoverer  *)
(* without a listener reaches nobody.                                      *)
(***************************************************************************)
EXTENDS Naturals, Sequences

CONSTANTS
  Services,    \* how many discoveries libvlc offers
  Attempts,    \* how often start() tries to start one
  Discoverers, \* RendererDiscoverer objects
  Items,       \* RendererItem objects
  Starts,      \* calls of start(): as many may wait at a time
  None         \* null

ASSUME CountsAssumption == Services \in Nat \ {0} /\ Attempts \in Nat \ {0}
ASSUME ObjectsAssumption == None \notin Discoverers \cup Items

VARIABLES
  connected,    \* ExternalMonitor: what the last broadcast said
  subscribed,   \* whether RendererDelegate is told of it
  started, mDiscoverers, renderers, selectedRenderer,
  pc,           \* of a start(): where it is
  next,         \* of a start(): the service it is at
  rd,           \* of a start(): the discoverer it tries to start
  tries,        \* of a start(): the attempts it made
  service,      \* of a discoverer: which service, 0 for a free object
  listener,     \* of a discoverer: whether RendererDelegate listens to it
  running,      \* of a discoverer: whether libvlc runs it, and is listened to
  index,        \* of a discoverer: the renderers libvlc has announced
  queue,        \* of a discoverer: the events posted to the main thread
  alive,        \* of an item: whether it was not released yet
  of,           \* of an item: the discoverer that announced it
  overtaken     \* history: see above

netVars == <<connected, subscribed>>
listVars == <<renderers, selectedRenderer>>
startVars == <<pc, next, rd, tries>>
discVars == <<mDiscoverers, service, listener>>
itemVars == <<index, queue, alive, of>>
vars == <<netVars, started, overtaken, listVars, startVars, discVars, running, itemVars>>

Event == [type: {"ItemAdded", "ItemDeleted"}, item: Items]

TypeOK ==
  /\ connected \in BOOLEAN /\ subscribed \in BOOLEAN
  /\ started \in BOOLEAN /\ overtaken \in BOOLEAN
  /\ mDiscoverers \in SUBSET Discoverers
  /\ renderers \in SUBSET Items /\ selectedRenderer \in Items \cup {None}
  /\ pc \in [Starts -> {"idle", "libvlc", "running", "delay"}]
  /\ next \in [Starts -> 1..Services]
  /\ rd \in [Starts -> Discoverers \cup {None}]
  /\ tries \in [Starts -> 0..Attempts - 1]
  /\ service \in [Discoverers -> 0..Services]
  /\ listener \in [Discoverers -> BOOLEAN]
  /\ running \in [Discoverers -> BOOLEAN]
  /\ index \in [Discoverers -> SUBSET Items]
  /\ queue \in [Discoverers -> Seq(Event)]
  /\ alive \in [Items -> BOOLEAN]
  /\ of \in [Items -> Discoverers \cup {None}]

\* The delegate may come to life when the network is up already.
Init ==
  /\ connected \in BOOLEAN /\ subscribed = FALSE
  /\ started = FALSE /\ overtaken = FALSE
  /\ mDiscoverers = {} /\ renderers = {} /\ selectedRenderer = None
  /\ pc = [c \in Starts |-> "idle"] /\ next = [c \in Starts |-> 1]
  /\ rd = [c \in Starts |-> None] /\ tries = [c \in Starts |-> 0]
  /\ service = [d \in Discoverers |-> 0]
  /\ listener = [d \in Discoverers |-> FALSE]
  /\ running = [d \in Discoverers |-> FALSE]
  /\ index = [d \in Discoverers |-> {}] /\ queue = [d \in Discoverers |-> <<>>]
  /\ alive = [i \in Items |-> FALSE] /\ of = [i \in Items |-> None]

\* The coroutine that has the main thread keeps it until it waits.
MainFree == \A c \in Starts : pc[c] # "running"

Queued(d) == {queue[d][k].item : k \in DOMAIN queue[d]}

FreeDiscoverer(d) ==
  d \notin mDiscoverers /\ ~listener[d] /\ \A c \in Starts : rd[c] # d

\* Which of the free objects is taken makes no difference.
NewDiscoverer ==
  LET free == {d \in Discoverers : FreeDiscoverer(d)}
  IN IF free = {} THEN {} ELSE {CHOOSE d \in free : TRUE}

FreeItem(i) ==
  /\ i \notin renderers /\ i # selectedRenderer
  /\ \A d \in Discoverers : i \notin index[d] /\ i \notin Queued(d)

-----------------------------------------------------------------------------
(* start().                                                                 *)

\* The call, until it waits for the libvlc instance.
Start ==
  IF started THEN UNCHANGED <<started, startVars>>
  ELSE /\ started' = TRUE
       /\ \E c \in Starts : pc[c] = "idle" /\ pc' = [pc EXCEPT ![c] = "libvlc"]
       /\ UNCHANGED <<next, rd, tries>>

LibVLCReady(c) ==
  /\ pc[c] = "libvlc" /\ MainFree
  /\ pc' = [pc EXCEPT ![c] = "running"]
  /\ UNCHANGED <<netVars, started, overtaken, listVars, next, rd, tries, discVars,
                 running, itemVars>>

\* On to the next service, or the end of the loop.
Proceed(c) ==
  /\ IF next[c] = Services
     THEN pc' = [pc EXCEPT ![c] = "idle"] /\ next' = [next EXCEPT ![c] = 1]
     ELSE pc' = [pc EXCEPT ![c] = "running"] /\ next' = [next EXCEPT ![c] = @ + 1]
  /\ rd' = [rd EXCEPT ![c] = None] /\ tries' = [tries EXCEPT ![c] = 0]

\* An attempt to start d fails, and start() waits before the next one.
Wait(c, d) ==
  /\ pc' = [pc EXCEPT ![c] = "delay"] /\ rd' = [rd EXCEPT ![c] = d]
  /\ UNCHANGED <<running, next>>

\* Mutant of Attempt: a service that cannot be started ends the loop.
AttemptOrLeave(c, d, heard) ==
  \/ running' = [running EXCEPT ![d] = heard] /\ Proceed(c)
  \/ /\ tries[c] + 1 = Attempts /\ UNCHANGED running
     /\ pc' = [pc EXCEPT ![c] = "idle"] /\ next' = [next EXCEPT ![c] = 1]
     /\ rd' = [rd EXCEPT ![c] = None] /\ tries' = [tries EXCEPT ![c] = 0]
  \/ tries[c] + 1 < Attempts /\ Wait(c, d) /\ tries' = [tries EXCEPT ![c] = @ + 1]

\* Mutant of Attempt: one attempt too many.
AttemptOnceMore(c, d, heard) ==
  \/ running' = [running EXCEPT ![d] = heard] /\ Proceed(c)
  \/ tries[c] = Attempts /\ Proceed(c) /\ UNCHANGED running
  \/ tries[c] < Attempts /\ Wait(c, d) /\ tries' = [tries EXCEPT ![c] = @ + 1]

\* retry(): the attempt succeeds, was the last one, or is followed by another.
Attempt(c, d, heard) ==
  \/ running' = [running EXCEPT ![d] = heard] /\ Proceed(c)
  \/ tries[c] + 1 = Attempts /\ Proceed(c) /\ UNCHANGED running
  \/ tries[c] + 1 < Attempts /\ Wait(c, d) /\ tries' = [tries EXCEPT ![c] = @ + 1]

Create(c) ==
  /\ pc[c] = "running"
  /\ \E d \in NewDiscoverer :
       /\ mDiscoverers' = mDiscoverers \cup {d}
       /\ service' = [service EXCEPT ![d] = next[c]]
       /\ listener' = [listener EXCEPT ![d] = TRUE]
       /\ Attempt(c, d, TRUE)
  /\ UNCHANGED <<netVars, started, overtaken, listVars, itemVars>>

\* A stop() may have come first: the discoverer is started all the same.
Retry(c) ==
  /\ pc[c] = "delay" /\ MainFree
  /\ Attempt(c, rd[c], listener[rd[c]])
  /\ UNCHANGED <<netVars, started, overtaken, listVars, discVars, itemVars>>

-----------------------------------------------------------------------------
(* stop().                                                                  *)

Waiting == \E c \in Starts : pc[c] # "idle"

\* What stop() does to one that was started, but for the list.
StopDiscoverers ==
  /\ started' = FALSE /\ overtaken' = Waiting
  /\ mDiscoverers' = {}
  /\ service' = [d \in Discoverers |-> IF d \in mDiscoverers THEN 0 ELSE service[d]]
  /\ listener' = [d \in Discoverers |-> listener[d] /\ d \notin mDiscoverers]
  /\ running' = [d \in Discoverers |-> running[d] /\ d \notin mDiscoverers]
  /\ index' = [d \in Discoverers |-> IF d \in mDiscoverers THEN {} ELSE index[d]]
  /\ of' = [i \in Items |-> IF of[i] \in mDiscoverers THEN None ELSE of[i]]

\* Mutant of Stop: the listeners stay, and what they were to be told.
StopStillListening ==
  IF ~started THEN UNCHANGED <<started, overtaken, discVars, running, itemVars, listVars>>
  ELSE /\ started' = FALSE /\ overtaken' = Waiting
       /\ mDiscoverers' = {} /\ UNCHANGED <<service, listener>>
       /\ running' = [d \in Discoverers |-> running[d] /\ d \notin mDiscoverers]
       /\ alive' = [i \in Items |-> alive[i] /\ i \notin renderers] /\ renderers' = {}
       /\ UNCHANGED <<index, of, queue, selectedRenderer>>

\* Mutant of Stop: the events that are posted are not removed.
StopQueueKept ==
  IF ~started THEN UNCHANGED <<started, overtaken, discVars, running, itemVars, listVars>>
  ELSE /\ StopDiscoverers
       /\ alive' = [i \in Items |-> alive[i] /\ i \notin renderers] /\ renderers' = {}
       /\ UNCHANGED <<queue, selectedRenderer>>

\* The listeners go, and what they were to be told; the items of the list are
\* released, but the one that was selected stays selected.
Stop ==
  IF ~started THEN UNCHANGED <<started, overtaken, discVars, running, itemVars, listVars>>
  ELSE /\ StopDiscoverers
       /\ queue' = [d \in Discoverers |-> IF d \in mDiscoverers THEN <<>> ELSE queue[d]]
       /\ alive' = [i \in Items |-> alive[i] /\ i \notin renderers] /\ renderers' = {}
       /\ UNCHANGED selectedRenderer

-----------------------------------------------------------------------------
(* The network.                                                             *)

\* The delegate is used for the first time.
Subscribe ==
  /\ ~subscribed /\ MainFree
  /\ subscribed' = TRUE
  /\ UNCHANGED <<connected, started, overtaken, listVars, startVars, discVars, running,
                 itemVars>>

Connect ==
  /\ ~connected /\ MainFree
  /\ connected' = TRUE
  /\ IF subscribed THEN Start ELSE UNCHANGED <<started, startVars>>
  /\ UNCHANGED <<subscribed, overtaken, listVars, discVars, running, itemVars>>

Disconnect ==
  /\ connected /\ MainFree
  /\ connected' = FALSE
  /\ IF subscribed THEN Stop
     ELSE UNCHANGED <<started, overtaken, discVars, running, itemVars, listVars>>
  /\ UNCHANGED <<subscribed, startVars>>

-----------------------------------------------------------------------------
(* libvlc's threads, and the events they post.                              *)

Post(d, type, i) ==
  /\ running[d]
  /\ queue' = [queue EXCEPT ![d] = Append(@, [type |-> type, item |-> i])]

Announce(d) ==
  /\ \E i \in Items :
       /\ FreeItem(i)
       /\ alive' = [alive EXCEPT ![i] = TRUE] /\ of' = [of EXCEPT ![i] = d]
       /\ index' = [index EXCEPT ![d] = @ \cup {i}]
       /\ Post(d, "ItemAdded", i)
  /\ UNCHANGED <<netVars, started, overtaken, listVars, startVars, discVars, running>>

Withdraw(d) ==
  /\ \E i \in index[d] :
       /\ index' = [index EXCEPT ![d] = @ \ {i}]
       /\ Post(d, "ItemDeleted", i)
  /\ UNCHANGED <<netVars, started, overtaken, listVars, startVars, discVars, running,
                 alive, of>>

Handle(d, type) ==
  /\ MainFree /\ queue[d] # <<>> /\ Head(queue[d]).type = type
  /\ queue' = [queue EXCEPT ![d] = Tail(@)]
  /\ UNCHANGED <<netVars, started, overtaken, selectedRenderer, startVars, discVars,
                 running, index>>

OnItemAdded(d) ==
  /\ Handle(d, "ItemAdded")
  /\ renderers' = renderers \cup {Head(queue[d]).item}
  /\ UNCHANGED <<alive, of>>

\* Mutant of OnItemDeleted: the item stays in the list.
OnItemDeletedListed(d) ==
  /\ Handle(d, "ItemDeleted")
  /\ alive' = [alive EXCEPT ![Head(queue[d]).item] = FALSE]
  /\ UNCHANGED <<renderers, of>>

OnItemDeleted(d) ==
  /\ Handle(d, "ItemDeleted")
  /\ renderers' = renderers \ {Head(queue[d]).item}
  /\ alive' = [alive EXCEPT ![Head(queue[d]).item] = FALSE]
  /\ of' = [of EXCEPT ![Head(queue[d]).item] = None]

SelectRenderer ==
  /\ MainFree
  /\ selectedRenderer' \in renderers \cup {None}
  /\ UNCHANGED <<netVars, started, overtaken, renderers, startVars, discVars, running,
                 itemVars>>

-----------------------------------------------------------------------------
Next ==
  \/ Subscribe \/ Connect \/ Disconnect \/ SelectRenderer
  \/ \E c \in Starts : LibVLCReady(c) \/ Create(c) \/ Retry(c)
  \/ \E d \in Discoverers : Announce(d) \/ Withdraw(d) \/ OnItemAdded(d) \/ OnItemDeleted(d)

\* A coroutine whose wait is over is a message of the main thread's looper.
Fairness ==
  \A c \in Starts : WF_vars(LibVLCReady(c)) /\ WF_vars(Create(c)) /\ WF_vars(Retry(c))

Spec == Init /\ [][Next]_vars /\ Fairness

-----------------------------------------------------------------------------
(* Safety.                                                                  *)

\* A renderer the user can choose was not released, and whoever found it is
\* still listened to, so that it leaves the list when it leaves the network
\* (RendererDelegate.kt:68-94).
ListedAreServed ==
  \A i \in renderers : alive[i] /\ of[i] \in Discoverers /\ listener[of[i]]

\* What the events posted by d will have done to the list of renderers.
WillBeListed(d, i) ==
  LET about == {k \in DOMAIN queue[d] : queue[d][k].item = i}
  IN \/ about = {} /\ i \in renderers
     \/ \E k \in about : queue[d][k].type = "ItemAdded" /\ \A l \in about : l <= k

\* When its events have arrived, the list holds just the renderers that a
\* discoverer has announced and not withdrawn, through any number of starts
\* and stops (RendererDiscoverer.java:101-123, RendererDelegate.kt:87-94).
ListFollowsNetwork ==
  \A d \in Discoverers : listener[d] =>
    /\ \A i \in index[d] : WillBeListed(d, i)
    /\ \A i \in Items : of[i] = d /\ WillBeListed(d, i) => i \in index[d]

\* Unless a start() is overtaken by a stop(), nothing is looked for and nothing
\* listed while stopped, and each service is looked for once while started
\* (RendererDelegate.kt:56-75).
DiscoveryFollowsStart ==
  ~overtaken =>
    /\ ~started => renderers = {} /\ \A d \in Discoverers : ~listener[d]
    /\ \A d, e \in Discoverers :
         listener[d] /\ listener[e] /\ service[d] = service[e] => d = e

-----------------------------------------------------------------------------
(* Liveness.                                                                *)

\* Every service has a discoverer that is listened to and was started, or
\* tried as often as start() tries.
Complete ==
  \A n \in 1..Services : \E d \in Discoverers :
    listener[d] /\ service[d] = n /\ \A c \in Starts : rd[c] # d

\* Once the network is up every service gets its discoverer, whatever fails to
\* start, unless the network goes again (RendererDelegate.kt:56-66).
DiscoveryCompletes == started ~> ~started \/ Complete
=============================================================================
