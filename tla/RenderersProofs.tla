--------------------------- MODULE RenderersProofs ---------------------------
(***************************************************************************)
(* Theorems about Renderers, for any number of services, attempts, objects *)
(* and waiting calls.  The events of a discoverer say of an item first     *)
(* that it was added and then that it was deleted, nothing else and        *)
(* nothing twice (Ordered); the index of the discoverer is what the list   *)
(* and these events make of it together (ItemInv); and unless a stop()     *)
(* overtook a start(), at most one start() is at work and it has created   *)
(* the discoverers of the services before the one it is at (StartInv).     *)
(***************************************************************************)
EXTENDS Renderers, TLAPS

Types == {"ItemAdded", "ItemDeleted"}

\* The events q say of item i what type says.
Has(q, type, i) == \E k \in DOMAIN q : q[k].type = type /\ q[k].item = i

Ordered(q) ==
  \A j, k \in DOMAIN q : j < k /\ q[j].item = q[k].item
    => q[j].type = "ItemAdded" /\ q[k].type = "ItemDeleted"

DiscInv ==
  \A d \in Discoverers :
    /\ listener[d] <=> d \in mDiscoverers
    /\ running[d] => d \in mDiscoverers
    /\ d \notin mDiscoverers => index[d] = {} /\ queue[d] = <<>>

ListInv == \A i \in renderers : alive[i] /\ of[i] \in mDiscoverers

ItemInv(d, i) ==
  /\ \A type \in Types : Has(queue[d], type, i) => of[i] = d
  /\ Has(queue[d], "ItemAdded", i) => alive[i] /\ i \notin renderers
  /\ i \in index[d] => of[i] = d
  /\ of[i] = d =>
       (i \in index[d] <=> /\ ~Has(queue[d], "ItemDeleted", i)
                           /\ Has(queue[d], "ItemAdded", i) \/ i \in renderers)

QueueInv ==
  \A d \in Discoverers : Ordered(queue[d]) /\ \A i \in Items : ItemInv(d, i)

Active(c) == pc[c] # "idle"

\* The discoverers of the services before the one c is at, and of that one if
\* it is being retried.
Behind(c) ==
  \A d \in mDiscoverers :
    \/ service[d] < next[c]
    \/ pc[c] = "delay" /\ service[d] = next[c]

StartInv ==
  /\ \A c \in Starts : pc[c] = "delay" => rd[c] \in Discoverers
  /\ ~overtaken =>
       /\ ~started => mDiscoverers = {} /\ \A c \in Starts : ~Active(c)
       /\ \A c, e \in Starts : Active(c) /\ Active(e) => c = e
       /\ \A c \in Starts : Active(c) => Behind(c)
       /\ \A d, e \in mDiscoverers : service[d] = service[e] => d = e

IInv == TypeOK /\ DiscInv /\ ListInv /\ QueueInv /\ StartInv

-----------------------------------------------------------------------------
(* Queues of events.                                                        *)

LEMMA EmptyQueue ==
  <<>> \in Seq(Event) /\ Ordered(<<>>) /\ \A type, i : ~Has(<<>>, type, i)
BY DEF Ordered, Has

LEMMA AppendEvent ==
  ASSUME NEW q \in Seq(Event), NEW e \in Event
  PROVE  /\ Append(q, e) \in Seq(Event)
         /\ \A type, i : Has(Append(q, e), type, i)
                           <=> Has(q, type, i) \/ (e.type = type /\ e.item = i)
         /\ /\ Ordered(q)
            /\ \A type \in Types : Has(q, type, e.item)
                 => type = "ItemAdded" /\ e.type = "ItemDeleted"
            => Ordered(Append(q, e))
<1> DEFINE r == Append(q, e)
<1>1. /\ r \in Seq(Event) /\ Len(q) \in Nat /\ DOMAIN q = 1..Len(q)
      /\ DOMAIN r = 1..(Len(q) + 1) /\ r[Len(q) + 1] = e
      /\ \A k \in DOMAIN q : r[k] = q[k]
  OBVIOUS
<1>2. ASSUME NEW k \in DOMAIN r, k \notin DOMAIN q PROVE k = Len(q) + 1
  BY <1>1, <1>2
<1>3. \A k \in DOMAIN q : k \in DOMAIN r
  BY <1>1
<1>4. Len(q) + 1 \in DOMAIN r
  BY <1>1
<1> HIDE DEF r
<1>5. ASSUME NEW type, NEW i
      PROVE  Has(r, type, i) <=> Has(q, type, i) \/ (e.type = type /\ e.item = i)
  <2>1. ASSUME NEW k \in DOMAIN r, r[k].type = type, r[k].item = i
        PROVE  Has(q, type, i) \/ (e.type = type /\ e.item = i)
    <3>1. CASE k \in DOMAIN q
      BY <1>1, <2>1, <3>1 DEF Has
    <3>2. CASE k \notin DOMAIN q
      BY <1>1, <1>2, <2>1, <3>2
    <3> QED BY <3>1, <3>2
  <2>2. Has(q, type, i) => Has(r, type, i)
    BY <1>1, <1>3 DEF Has
  <2>3. e.type = type /\ e.item = i => Has(r, type, i)
    BY <1>1, <1>4 DEF Has
  <2> QED BY <2>1, <2>2, <2>3 DEF Has
<1>6. ASSUME Ordered(q),
             \A type \in Types : Has(q, type, e.item)
               => type = "ItemAdded" /\ e.type = "ItemDeleted",
             NEW j \in DOMAIN r, NEW k \in DOMAIN r, j < k, r[j].item = r[k].item
      PROVE  r[j].type = "ItemAdded" /\ r[k].type = "ItemDeleted"
  <2>1. j \in DOMAIN q /\ r[j] = q[j]
    BY <1>1, <1>6
  <2>2. CASE k \in DOMAIN q
    BY <1>1, <1>6, <2>1, <2>2 DEF Ordered
  <2>3. CASE k \notin DOMAIN q
    <3>1. r[k] = e
      BY <1>1, <1>2, <2>3
    <3>2. q[j] \in Event
      BY <1>1, <2>1
    <3>3. q[j].type \in Types
      BY <3>2 DEF Event, Types
    <3>4. q[j].item = e.item
      BY <1>6, <2>1, <3>1
    <3>5. Has(q, q[j].type, e.item)
      BY <2>1, <3>4 DEF Has
    <3> QED BY <1>6, <2>1, <3>1, <3>3, <3>5
  <2> QED BY <2>2, <2>3
<1> QED BY <1>1, <1>5, <1>6 DEF Ordered, r

LEMMA TailEvent ==
  ASSUME NEW q \in Seq(Event), q # <<>>
  PROVE  /\ Tail(q) \in Seq(Event) /\ Head(q) \in Event
         /\ \A type, i : Has(q, type, i)
              <=> Has(Tail(q), type, i) \/ (Head(q).type = type /\ Head(q).item = i)
         /\ Ordered(q) =>
              /\ Ordered(Tail(q))
              /\ \A type \in Types : Has(Tail(q), type, Head(q).item)
                   => Head(q).type = "ItemAdded" /\ type = "ItemDeleted"
<1> DEFINE r == Tail(q)
<1>1. /\ r \in Seq(Event) /\ Head(q) \in Event /\ Head(q) = q[1]
      /\ Len(q) \in Nat /\ Len(q) > 0 /\ DOMAIN q = 1..Len(q)
      /\ DOMAIN r = 1..(Len(q) - 1)
      /\ \A k \in DOMAIN r : k + 1 \in DOMAIN q /\ r[k] = q[k + 1]
  OBVIOUS
<1>2. ASSUME NEW k \in DOMAIN q, k # 1 PROVE k - 1 \in DOMAIN r /\ q[k] = r[k - 1]
  BY <1>1, <1>2
<1>3. 1 \in DOMAIN q
  BY <1>1
<1>4. \A j, k \in DOMAIN r : j < k => j + 1 < k + 1
  BY <1>1
<1>5. \A k \in DOMAIN r : 1 < k + 1
  BY <1>1
<1> HIDE DEF r
<1>6. ASSUME NEW type, NEW i
      PROVE  Has(q, type, i) <=> Has(r, type, i) \/ (Head(q).type = type /\ Head(q).item = i)
  <2>1. ASSUME NEW k \in DOMAIN q, q[k].type = type, q[k].item = i
        PROVE  Has(r, type, i) \/ (Head(q).type = type /\ Head(q).item = i)
    <3>1. CASE k = 1
      BY <1>1, <2>1, <3>1
    <3>2. CASE k # 1
      BY <1>2, <2>1, <3>2 DEF Has
    <3> QED BY <3>1, <3>2
  <2>2. Has(r, type, i) => Has(q, type, i)
    BY <1>1 DEF Has
  <2>3. Head(q).type = type /\ Head(q).item = i => Has(q, type, i)
    BY <1>1, <1>3 DEF Has
  <2> QED BY <2>1, <2>2, <2>3 DEF Has
<1>7. ASSUME Ordered(q) PROVE Ordered(r)
  BY <1>1, <1>4, <1>7 DEF Ordered
<1>8. ASSUME Ordered(q), NEW type \in Types, Has(r, type, Head(q).item)
      PROVE  Head(q).type = "ItemAdded" /\ type = "ItemDeleted"
  <2>1. PICK k \in DOMAIN r : r[k].type = type /\ r[k].item = Head(q).item
    BY <1>8 DEF Has
  <2>2. /\ 1 \in DOMAIN q /\ k + 1 \in DOMAIN q /\ 1 < k + 1
        /\ q[k + 1] = r[k] /\ q[1] = Head(q)
    BY <1>1, <1>3, <1>5, <2>1
  <2> QED BY <1>8, <2>1, <2>2 DEF Ordered
<1> QED BY <1>1, <1>6, <1>7, <1>8 DEF r

\* An item that is free is not the subject of any event.
LEMMA FreeItemHas ==
  ASSUME NEW i \in Items, FreeItem(i), NEW d \in Discoverers, NEW type
  PROVE  ~Has(queue[d], type, i)
BY DEF FreeItem, Queued, Has

LEMMA NewDiscovererFree ==
  ASSUME NEW d \in NewDiscoverer
  PROVE  d \in Discoverers /\ FreeDiscoverer(d)
<1> DEFINE free == {e \in Discoverers : FreeDiscoverer(e)}
<1>1. free # {} /\ d = CHOOSE e \in free : TRUE
  BY DEF NewDiscoverer
<1>2. (CHOOSE e \in free : TRUE) \in free
  BY <1>1
<1> QED BY <1>1, <1>2

-----------------------------------------------------------------------------
(* start().                                                                 *)

\* What an attempt does to the call that makes it.
LEMMA AttemptCases ==
  ASSUME TypeOK, NEW c \in Starts, NEW d \in Discoverers, NEW heard \in BOOLEAN,
         Attempt(c, d, heard)
  PROVE  /\ running' = running \/ running' = [running EXCEPT ![d] = heard]
         /\ \A e \in Starts \ {c} :
              pc'[e] = pc[e] /\ next'[e] = next[e] /\ rd'[e] = rd[e]
         /\ \/ pc'[c] = "idle"
            \/ pc'[c] = "running" /\ next'[c] = next[c] + 1
            \/ pc'[c] = "delay" /\ next'[c] = next[c] /\ rd'[c] = d
<1>1. CASE Proceed(c)
  BY <1>1 DEF Attempt, Proceed, Wait, TypeOK
<1>2. CASE Wait(c, d)
  BY <1>2 DEF Attempt, Proceed, Wait, TypeOK
<1> QED BY <1>1, <1>2 DEF Attempt

LEMMA AttemptTypes ==
  ASSUME TypeOK, NEW c \in Starts, NEW d \in Discoverers, NEW heard \in BOOLEAN,
         Attempt(c, d, heard)
  PROVE  /\ pc' \in [Starts -> {"idle", "libvlc", "running", "delay"}]
         /\ next' \in [Starts -> 1..Services]
         /\ rd' \in [Starts -> Discoverers \cup {None}]
         /\ tries' \in [Starts -> 0..Attempts - 1]
         /\ running' \in [Discoverers -> BOOLEAN]
<1> USE CountsAssumption
<1>1. /\ pc \in [Starts -> {"idle", "libvlc", "running", "delay"}]
      /\ next \in [Starts -> 1..Services] /\ next[c] \in 1..Services
      /\ rd \in [Starts -> Discoverers \cup {None}]
      /\ tries \in [Starts -> 0..Attempts - 1] /\ tries[c] \in 0..Attempts - 1
      /\ running \in [Discoverers -> BOOLEAN]
  BY DEF TypeOK
<1>2. running' \in [Discoverers -> BOOLEAN]
  BY <1>1 DEF Attempt, Wait
<1>3. CASE Proceed(c)
  <2>1. next[c] # Services => next[c] + 1 \in 1..Services
    BY <1>1
  <2>2. 1 \in 1..Services /\ 0 \in 0..Attempts - 1
    OBVIOUS
  <2> QED BY <1>1, <1>2, <1>3, <2>1, <2>2 DEF Proceed
<1>4. CASE tries[c] + 1 < Attempts /\ Wait(c, d) /\ tries' = [tries EXCEPT ![c] = @ + 1]
  <2>1. tries[c] + 1 \in 0..Attempts - 1
    BY <1>1, <1>4
  <2> QED BY <1>1, <1>2, <1>4, <2>1 DEF Wait
<1> QED BY <1>3, <1>4 DEF Attempt

-----------------------------------------------------------------------------
(* Types.                                                                   *)

LEMMA HandleTypes ==
  ASSUME TypeOK, NEW d \in Discoverers, NEW type, Handle(d, type)
  PROVE  /\ queue' \in [Discoverers -> Seq(Event)]
         /\ Head(queue[d]) \in Event /\ Head(queue[d]).item \in Items
         /\ Head(queue[d]).type = type
<1>1. queue[d] \in Seq(Event) /\ queue[d] # <<>>
  BY DEF TypeOK, Handle
<1>2. Tail(queue[d]) \in Seq(Event) /\ Head(queue[d]) \in Event
  BY <1>1, TailEvent
<1> QED BY <1>2 DEF TypeOK, Handle, Event

LEMMA PostTypes ==
  ASSUME TypeOK, NEW d \in Discoverers, NEW type \in Types, NEW i \in Items,
         Post(d, type, i)
  PROVE  queue' \in [Discoverers -> Seq(Event)]
<1>1. queue[d] \in Seq(Event) /\ [type |-> type, item |-> i] \in Event
  BY DEF TypeOK, Event, Types
<1>2. Append(queue[d], [type |-> type, item |-> i]) \in Seq(Event)
  BY <1>1
<1> QED BY <1>2 DEF TypeOK, Post

LEMMA NextTypes ==
  ASSUME TypeOK, \A c \in Starts : pc[c] = "delay" => rd[c] \in Discoverers, Next
  PROVE  TypeOK'
<1>1. CASE Subscribe
  BY <1>1 DEF Subscribe, TypeOK, netVars, listVars, startVars, discVars, itemVars
<1>2. CASE SelectRenderer
  BY <1>2 DEF SelectRenderer, TypeOK, netVars, listVars, startVars, discVars, itemVars
<1>3. CASE Connect
  BY <1>3 DEF Connect, Start, TypeOK, netVars, listVars, startVars, discVars, itemVars
<1>4. CASE Disconnect
  <2>1. CASE UNCHANGED <<started, overtaken, discVars, running, itemVars, listVars>>
    BY <1>4, <2>1 DEF Disconnect, TypeOK, listVars, startVars, discVars, itemVars
  <2>2. CASE started /\ Stop
    <3>1. started' \in BOOLEAN /\ overtaken' \in BOOLEAN
      BY <2>2 DEF Stop, StopDiscoverers, Waiting
    <3>2. queue' \in [Discoverers -> Seq(Event)]
      BY <2>2, EmptyQueue DEF Stop, TypeOK
    <3>3. /\ mDiscoverers' \in SUBSET Discoverers
          /\ service' \in [Discoverers -> 0..Services]
      <4>1. 0 \in 0..Services
        BY CountsAssumption
      <4>2. service \in [Discoverers -> 0..Services]
        BY DEF TypeOK
      <4>3. /\ mDiscoverers' = {}
            /\ service' = [d \in Discoverers |-> IF d \in mDiscoverers THEN 0 ELSE service[d]]
        BY <2>2 DEF Stop, StopDiscoverers
      <4> QED BY <4>1, <4>2, <4>3
    <3>7. /\ listener' \in [Discoverers -> BOOLEAN]
          /\ running' \in [Discoverers -> BOOLEAN]
      <4>1. /\ listener' = [d \in Discoverers |-> listener[d] /\ d \notin mDiscoverers]
            /\ running' = [d \in Discoverers |-> running[d] /\ d \notin mDiscoverers]
        BY <2>2 DEF Stop, StopDiscoverers
      <4> QED BY <4>1
    <3>4. index' \in [Discoverers -> SUBSET Items]
      BY <2>2 DEF Stop, StopDiscoverers, TypeOK
    <3>5. /\ of' \in [Items -> Discoverers \cup {None}]
          /\ alive' \in [Items -> BOOLEAN]
          /\ renderers' \in SUBSET Items /\ selectedRenderer' \in Items \cup {None}
      BY <2>2 DEF Stop, StopDiscoverers, TypeOK
    <3>6. /\ connected' \in BOOLEAN /\ subscribed' \in BOOLEAN
          /\ UNCHANGED <<pc, next, rd, tries>>
      BY <1>4 DEF Disconnect, TypeOK, startVars
    <3> QED BY <3>1, <3>2, <3>3, <3>4, <3>5, <3>6, <3>7 DEF TypeOK
  <2> QED BY <1>4, <2>1, <2>2 DEF Disconnect, Stop
<1>5. ASSUME NEW c \in Starts, LibVLCReady(c) PROVE TypeOK'
  BY <1>5 DEF LibVLCReady, TypeOK, netVars, listVars, startVars, discVars, itemVars
<1>6. ASSUME NEW c \in Starts, Create(c) PROVE TypeOK'
  <2>1. PICK d \in NewDiscoverer :
          /\ mDiscoverers' = mDiscoverers \cup {d}
          /\ service' = [service EXCEPT ![d] = next[c]]
          /\ listener' = [listener EXCEPT ![d] = TRUE]
          /\ Attempt(c, d, TRUE)
    BY <1>6 DEF Create
  <2>2. d \in Discoverers
    BY NewDiscovererFree
  <2>3. next[c] \in 0..Services
    BY CountsAssumption DEF TypeOK
  <2>4. /\ pc' \in [Starts -> {"idle", "libvlc", "running", "delay"}]
        /\ next' \in [Starts -> 1..Services]
        /\ rd' \in [Starts -> Discoverers \cup {None}]
        /\ tries' \in [Starts -> 0..Attempts - 1]
        /\ running' \in [Discoverers -> BOOLEAN]
    BY <2>1, <2>2, AttemptTypes
  <2>5. /\ mDiscoverers' \in SUBSET Discoverers
        /\ service' \in [Discoverers -> 0..Services]
        /\ listener' \in [Discoverers -> BOOLEAN]
    BY <2>1, <2>2, <2>3 DEF TypeOK
  <2>6. UNCHANGED <<netVars, started, overtaken, listVars, itemVars>>
    BY <1>6 DEF Create
  <2> QED
    BY <2>4, <2>5, <2>6 DEF TypeOK, netVars, listVars, itemVars
<1>7. ASSUME NEW c \in Starts, Retry(c) PROVE TypeOK'
  <2>1. rd[c] \in Discoverers /\ Attempt(c, rd[c], listener[rd[c]])
    BY <1>7 DEF Retry
  <2>2. listener[rd[c]] \in BOOLEAN
    BY <2>1 DEF TypeOK
  <2>4. /\ pc' \in [Starts -> {"idle", "libvlc", "running", "delay"}]
        /\ next' \in [Starts -> 1..Services]
        /\ rd' \in [Starts -> Discoverers \cup {None}]
        /\ tries' \in [Starts -> 0..Attempts - 1]
        /\ running' \in [Discoverers -> BOOLEAN]
    BY <2>1, <2>2, AttemptTypes
  <2>5. UNCHANGED <<netVars, started, overtaken, listVars, discVars, itemVars>>
    BY <1>7 DEF Retry
  <2> QED
    BY <2>4, <2>5 DEF TypeOK, netVars, listVars, discVars, itemVars
<1>8. ASSUME NEW d \in Discoverers, Announce(d) PROVE TypeOK'
  <2>1. PICK i \in Items :
          /\ alive' = [alive EXCEPT ![i] = TRUE] /\ of' = [of EXCEPT ![i] = d]
          /\ index' = [index EXCEPT ![d] = @ \cup {i}]
          /\ Post(d, "ItemAdded", i)
    BY <1>8 DEF Announce
  <2>2. queue' \in [Discoverers -> Seq(Event)]
    BY <2>1, PostTypes DEF Types
  <2>3. /\ alive' \in [Items -> BOOLEAN] /\ of' \in [Items -> Discoverers \cup {None}]
        /\ index' \in [Discoverers -> SUBSET Items]
    BY <2>1 DEF TypeOK
  <2>5. UNCHANGED <<netVars, started, overtaken, listVars, startVars, discVars, running>>
    BY <1>8 DEF Announce
  <2> QED
    BY <2>2, <2>3, <2>5 DEF TypeOK, netVars, listVars, startVars, discVars
<1>9. ASSUME NEW d \in Discoverers, Withdraw(d) PROVE TypeOK'
  <2>1. PICK i \in index[d] :
          index' = [index EXCEPT ![d] = @ \ {i}] /\ Post(d, "ItemDeleted", i)
    BY <1>9 DEF Withdraw
  <2>2. i \in Items
    BY <2>1 DEF TypeOK
  <2>3. queue' \in [Discoverers -> Seq(Event)]
    BY <2>1, <2>2, PostTypes DEF Types
  <2>4. index' \in [Discoverers -> SUBSET Items]
    BY <2>1 DEF TypeOK
  <2>5. UNCHANGED <<netVars, started, overtaken, listVars, startVars, discVars, running>>
    BY <1>9 DEF Withdraw
  <2>6. UNCHANGED <<alive, of>>
    BY <1>9 DEF Withdraw
  <2> QED
    BY <2>3, <2>4, <2>5, <2>6 DEF TypeOK, netVars, listVars, startVars, discVars
<1>10. ASSUME NEW d \in Discoverers, OnItemAdded(d) PROVE TypeOK'
  <2>1. Handle(d, "ItemAdded")
    BY <1>10 DEF OnItemAdded
  <2>2. /\ queue' \in [Discoverers -> Seq(Event)] /\ Head(queue[d]).item \in Items
    BY <2>1, HandleTypes
  <2>3. /\ renderers' \in SUBSET Items /\ UNCHANGED <<alive, of>>
    BY <1>10, <2>2 DEF OnItemAdded, TypeOK
  <2>4. UNCHANGED <<netVars, started, overtaken, selectedRenderer, startVars, discVars,
                    running, index>>
    BY <2>1 DEF Handle
  <2> QED
    BY <2>2, <2>3, <2>4 DEF TypeOK, netVars, startVars, discVars
<1>11. ASSUME NEW d \in Discoverers, OnItemDeleted(d) PROVE TypeOK'
  <2>1. Handle(d, "ItemDeleted")
    BY <1>11 DEF OnItemDeleted
  <2>2. /\ queue' \in [Discoverers -> Seq(Event)] /\ Head(queue[d]).item \in Items
    BY <2>1, HandleTypes
  <2>3. /\ renderers' \in SUBSET Items /\ alive' \in [Items -> BOOLEAN]
        /\ of' \in [Items -> Discoverers \cup {None}]
    BY <1>11, <2>2 DEF OnItemDeleted, TypeOK
  <2>4. UNCHANGED <<netVars, started, overtaken, selectedRenderer, startVars, discVars,
                    running, index>>
    BY <2>1 DEF Handle
  <2> QED
    BY <2>2, <2>3, <2>4 DEF TypeOK, netVars, startVars, discVars
<1> QED
  BY <1>1, <1>2, <1>3, <1>4, <1>5, <1>6, <1>7, <1>8, <1>9, <1>10, <1>11 DEF Next

-----------------------------------------------------------------------------
(* The calls of start().                                                    *)

LEMMA StartFrame ==
  ASSUME StartInv, UNCHANGED <<started, overtaken, startVars, discVars>>
  PROVE  StartInv'
BY DEF StartInv, Active, Behind, startVars, discVars

LEMMA StartCalled ==
  ASSUME TypeOK, StartInv, Start, UNCHANGED <<overtaken, discVars>>
  PROVE  StartInv'
<1>1. CASE UNCHANGED <<started, startVars>>
  BY <1>1, StartFrame
<1>2. CASE ~started /\ started'
  <2>1. PICK c \in Starts : pc[c] = "idle" /\ pc' = [pc EXCEPT ![c] = "libvlc"]
    BY <1>2 DEF Start
  <2>2. /\ UNCHANGED <<next, rd, mDiscoverers, service, overtaken>>
        /\ \A e \in Starts : pc'[e] = IF e = c THEN "libvlc" ELSE pc[e]
    BY <1>2, <2>1 DEF Start, TypeOK, discVars
  <2> QED BY <1>2, <2>1, <2>2 DEF StartInv, Active, Behind
<1> QED BY <1>1, <1>2 DEF Start

LEMMA StartReady ==
  ASSUME TypeOK, StartInv, NEW c \in Starts, LibVLCReady(c)
  PROVE  StartInv'
<1>1. /\ UNCHANGED <<next, rd, mDiscoverers, service, started, overtaken>>
      /\ pc[c] = "libvlc"
      /\ \A e \in Starts : pc'[e] = IF e = c THEN "running" ELSE pc[e]
  BY DEF LibVLCReady, TypeOK, discVars
<1> QED BY <1>1 DEF StartInv, Active, Behind

LEMMA StartCreates ==
  ASSUME TypeOK, StartInv, NEW c \in Starts, NEW d \in Discoverers, d \notin mDiscoverers,
         pc[c] = "running", Attempt(c, d, TRUE), UNCHANGED <<started, overtaken>>,
         mDiscoverers' = mDiscoverers \cup {d},
         service' = [service EXCEPT ![d] = next[c]]
  PROVE  StartInv'
<1>1. /\ \A e \in Starts \ {c} : pc'[e] = pc[e] /\ next'[e] = next[e] /\ rd'[e] = rd[e]
      /\ \/ pc'[c] = "idle"
         \/ pc'[c] = "running" /\ next'[c] = next[c] + 1
         \/ pc'[c] = "delay" /\ next'[c] = next[c] /\ rd'[c] = d
  BY AttemptCases
<1>2. /\ \A e \in mDiscoverers : service'[e] = service[e] /\ service[e] \in Nat
      /\ service'[d] = next[c] /\ next[c] \in Nat
  BY DEF TypeOK
<1>3. \A e \in Starts : pc'[e] = "delay" => rd'[e] \in Discoverers
  BY <1>1 DEF StartInv
<1>4. ASSUME ~overtaken'
      PROVE  /\ started'
             /\ \A a, e \in Starts : Active(a)' /\ Active(e)' => a = e
             /\ \A e \in Starts : Active(e)' => Behind(e)'
             /\ \A a, e \in mDiscoverers' : service'[a] = service'[e] => a = e
  <2>1. /\ ~overtaken /\ Active(c)
        /\ \A a, e \in mDiscoverers : service[a] = service[e] => a = e
    BY <1>4 DEF StartInv, Active
  <2>2. started' /\ \A e \in Starts \ {c} : ~Active(e)'
    BY <1>1, <2>1 DEF StartInv, Active
  <2>3. \A e \in mDiscoverers : service[e] < next[c]
    BY <2>1 DEF StartInv, Behind
  <2>4. Active(c)' => Behind(c)'
    BY <1>1, <1>2, <2>3 DEF Behind, Active
  <2>5. \A a, e \in mDiscoverers' : service'[a] = service'[e] => a = e
    BY <1>2, <2>1, <2>3
  <2> QED BY <2>2, <2>4, <2>5
<1> QED BY <1>3, <1>4 DEF StartInv

LEMMA StartRetries ==
  ASSUME TypeOK, StartInv, NEW c \in Starts, Retry(c)
  PROVE  StartInv'
<1>1. /\ pc[c] = "delay" /\ rd[c] \in Discoverers /\ listener[rd[c]] \in BOOLEAN
      /\ Attempt(c, rd[c], listener[rd[c]])
      /\ UNCHANGED <<mDiscoverers, service, started, overtaken>>
  BY DEF Retry, StartInv, TypeOK, discVars
<1>2. /\ \A e \in Starts \ {c} : pc'[e] = pc[e] /\ next'[e] = next[e] /\ rd'[e] = rd[e]
      /\ \/ pc'[c] = "idle"
         \/ pc'[c] = "running" /\ next'[c] = next[c] + 1
         \/ pc'[c] = "delay" /\ next'[c] = next[c] /\ rd'[c] = rd[c]
  BY <1>1, AttemptCases
<1>3. next[c] \in Nat /\ \A e \in mDiscoverers : service[e] \in Nat
  BY DEF TypeOK
<1>4. \A e \in Starts : pc'[e] = "delay" => rd'[e] \in Discoverers
  BY <1>1, <1>2 DEF StartInv
<1>5. ASSUME ~overtaken'
      PROVE  /\ started'
             /\ \A a, e \in Starts : Active(a)' /\ Active(e)' => a = e
             /\ \A e \in Starts : Active(e)' => Behind(e)'
             /\ \A a, e \in mDiscoverers' : service'[a] = service'[e] => a = e
  <2>1. /\ ~overtaken /\ Active(c)
        /\ \A a, e \in mDiscoverers : service[a] = service[e] => a = e
    BY <1>1, <1>5 DEF StartInv, Active
  <2>2. started' /\ \A e \in Starts \ {c} : ~Active(e)'
    BY <1>1, <1>2, <2>1 DEF StartInv, Active
  <2>3. Behind(c)
    BY <2>1 DEF StartInv
  <2>4. Active(c)' => Behind(c)'
    BY <1>1, <1>2, <1>3, <2>3 DEF Behind, Active
  <2> QED BY <1>1, <2>1, <2>2, <2>4
<1> QED BY <1>4, <1>5 DEF StartInv

LEMMA StartStopped ==
  ASSUME StartInv, StopDiscoverers, UNCHANGED startVars
  PROVE  StartInv'
BY DEF StartInv, StopDiscoverers, Waiting, Active, startVars

-----------------------------------------------------------------------------
(* The events of libvlc and the list.                                       *)

LEMMA QueueFrame ==
  ASSUME QueueInv, UNCHANGED <<queue, of, alive, renderers, index>>
  PROVE  QueueInv'
BY DEF QueueInv, ItemInv

LEMMA EventsStopped ==
  ASSUME TypeOK, DiscInv, QueueInv, started, Stop
  PROVE  DiscInv' /\ ListInv' /\ QueueInv'
<1>1. /\ mDiscoverers' = {} /\ renderers' = {}
      /\ \A d \in Discoverers :
           queue'[d] = <<>> /\ index'[d] = {} /\ ~listener'[d] /\ ~running'[d]
  <2>1. /\ mDiscoverers' = {} /\ renderers' = {}
        /\ queue' = [d \in Discoverers |-> IF d \in mDiscoverers THEN <<>> ELSE queue[d]]
        /\ listener' = [d \in Discoverers |-> listener[d] /\ d \notin mDiscoverers]
        /\ running' = [d \in Discoverers |-> running[d] /\ d \notin mDiscoverers]
        /\ index' = [d \in Discoverers |-> IF d \in mDiscoverers THEN {} ELSE index[d]]
    BY DEF Stop, StopDiscoverers
  <2> QED BY <2>1 DEF DiscInv
<1>2. \A d \in Discoverers : Ordered(queue'[d]) /\ \A type, i : ~Has(queue'[d], type, i)
  BY <1>1, EmptyQueue
<1>3. ASSUME NEW d \in Discoverers, NEW i \in Items PROVE ItemInv(d, i)'
  BY <1>1, <1>2, <1>3 DEF ItemInv
<1> QED BY <1>1, <1>2, <1>3 DEF DiscInv, ListInv, QueueInv

LEMMA EventAnnounced ==
  ASSUME TypeOK, DiscInv, ListInv, QueueInv, NEW d \in Discoverers, Announce(d)
  PROVE  DiscInv' /\ ListInv' /\ QueueInv'
<1>1. PICK i \in Items :
        /\ FreeItem(i)
        /\ alive' = [alive EXCEPT ![i] = TRUE] /\ of' = [of EXCEPT ![i] = d]
        /\ index' = [index EXCEPT ![d] = @ \cup {i}]
        /\ Post(d, "ItemAdded", i)
  BY DEF Announce
<1> DEFINE e == [type |-> "ItemAdded", item |-> i]
<1>2. e \in Event /\ e.type = "ItemAdded" /\ e.item = i
  BY DEF Event
<1> HIDE DEF e
<1>3. /\ running[d] /\ UNCHANGED <<mDiscoverers, listener, running, renderers>>
      /\ queue[d] \in Seq(Event)
      /\ \A x \in Discoverers : queue'[x] = IF x = d THEN Append(queue[d], e) ELSE queue[x]
      /\ \A x \in Discoverers : index'[x] = IF x = d THEN index[d] \cup {i} ELSE index[x]
      /\ \A k \in Items : alive'[k] = IF k = i THEN TRUE ELSE alive[k]
      /\ \A k \in Items : of'[k] = IF k = i THEN d ELSE of[k]
      /\ renderers \subseteq Items
  BY <1>1 DEF Announce, Post, TypeOK, discVars, listVars, e
<1>4. /\ i \notin renderers /\ \A x \in Discoverers : i \notin index[x]
      /\ \A x \in Discoverers : \A type : ~Has(queue[x], type, i)
  BY <1>1, FreeItemHas DEF FreeItem
<1>5. \A type, k : Has(Append(queue[d], e), type, k)
                     <=> Has(queue[d], type, k) \/ (type = "ItemAdded" /\ k = i)
  BY <1>2, <1>3, AppendEvent
<1>6. Ordered(Append(queue[d], e))
  BY <1>2, <1>3, <1>4, AppendEvent DEF QueueInv
<1>7. ASSUME NEW x \in Discoverers, NEW k \in Items PROVE ItemInv(x, k)'
  <2>1. ItemInv(x, k)
    BY DEF QueueInv
  <2>2. CASE x = d
    <3>1. /\ queue'[x] = Append(queue[d], e) /\ index'[x] = index[x] \cup {i}
          /\ renderers' = renderers /\ renderers \subseteq Items
      BY <1>3, <2>2
    <3>2. CASE k = i
      <4>1. /\ of'[k] = x /\ alive'[k] /\ k \in index'[x] /\ k \notin renderers'
        BY <1>3, <1>4, <2>2, <3>1, <3>2
      <4>2. Has(queue'[x], "ItemAdded", k) /\ ~Has(queue'[x], "ItemDeleted", k)
        BY <1>4, <1>5, <2>2, <3>1, <3>2
      <4> QED BY <4>1, <4>2 DEF ItemInv
    <3>3. CASE k # i
      <4>1. /\ of'[k] = of[k] /\ alive'[k] = alive[k] /\ (k \in index'[x] <=> k \in index[x])
        BY <1>3, <2>2, <3>1, <3>3
      <4>2. \A type : Has(queue'[x], type, k) <=> Has(queue[x], type, k)
        BY <1>5, <2>2, <3>1, <3>3
      <4> QED BY <2>1, <3>1, <4>1, <4>2 DEF ItemInv
    <3> QED BY <3>2, <3>3
  <2>3. CASE x # d /\ k = i
    <3>1. of'[k] # x /\ k \notin index'[x] /\ queue'[x] = queue[x]
      BY <1>3, <1>4, <2>3
    <3>2. \A t : ~Has(queue'[x], t, k)
      BY <1>4, <2>3, <3>1
    <3> QED BY <3>1, <3>2 DEF ItemInv
  <2>4. CASE x # d /\ k # i
    <3>1. /\ queue'[x] = queue[x] /\ index'[x] = index[x] /\ renderers' = renderers
          /\ of'[k] = of[k] /\ alive'[k] = alive[k]
      BY <1>3, <2>4
    <3> QED BY <2>1, <3>1 DEF ItemInv
  <2> QED BY <2>2, <2>3, <2>4
<1>8. QueueInv'
  BY <1>3, <1>6, <1>7 DEF QueueInv
<1>9. DiscInv' /\ ListInv'
  BY <1>3, <1>4 DEF DiscInv, ListInv
<1> QED BY <1>8, <1>9

LEMMA EventWithdrawn ==
  ASSUME TypeOK, DiscInv, ListInv, QueueInv, NEW d \in Discoverers, Withdraw(d)
  PROVE  DiscInv' /\ ListInv' /\ QueueInv'
<1>1. PICK i \in index[d] :
        index' = [index EXCEPT ![d] = @ \ {i}] /\ Post(d, "ItemDeleted", i)
  BY DEF Withdraw
<1> DEFINE e == [type |-> "ItemDeleted", item |-> i]
<1>2. i \in Items /\ e \in Event /\ e.type = "ItemDeleted" /\ e.item = i
  BY DEF Event, TypeOK
<1> HIDE DEF e
<1>3. /\ running[d] /\ UNCHANGED <<mDiscoverers, listener, running, renderers, alive, of>>
      /\ queue[d] \in Seq(Event)
      /\ \A x \in Discoverers : queue'[x] = IF x = d THEN Append(queue[d], e) ELSE queue[x]
      /\ \A x \in Discoverers : index'[x] = IF x = d THEN index[d] \ {i} ELSE index[x]
  BY <1>1 DEF Withdraw, Post, TypeOK, discVars, listVars, e
<1>4. of[i] = d /\ ~Has(queue[d], "ItemDeleted", i)
  BY <1>1, <1>2 DEF QueueInv, ItemInv
<1>5. \A type, k : Has(Append(queue[d], e), type, k)
                     <=> Has(queue[d], type, k) \/ (type = "ItemDeleted" /\ k = i)
  BY <1>2, <1>3, AppendEvent
<1>6. Ordered(Append(queue[d], e))
  BY <1>2, <1>3, <1>4, AppendEvent DEF QueueInv, Types
<1>7. ASSUME NEW x \in Discoverers, NEW k \in Items PROVE ItemInv(x, k)'
  <2>1. ItemInv(x, k)
    BY DEF QueueInv
  <2>2. CASE x = d
    BY <1>3, <1>4, <1>5, <2>1, <2>2 DEF ItemInv, Types
  <2>3. CASE x # d
    BY <1>3, <2>1, <2>3 DEF ItemInv
  <2> QED BY <2>2, <2>3
<1>8. QueueInv'
  BY <1>3, <1>6, <1>7 DEF QueueInv
<1>9. DiscInv' /\ ListInv'
  BY <1>3 DEF DiscInv, ListInv
<1> QED BY <1>8, <1>9

\* What an event that is handled leaves of the queue.
LEMMA EventHandled ==
  ASSUME TypeOK, DiscInv, QueueInv, NEW d \in Discoverers, NEW type \in Types,
         Handle(d, type), NEW i, i = Head(queue[d]).item
  PROVE  /\ i \in Items /\ of[i] = d /\ d \in mDiscoverers
         /\ \A x \in Discoverers \ {d} : queue'[x] = queue[x]
         /\ Ordered(queue'[d])
         /\ \A t, k : Has(queue[d], t, k) <=> Has(queue'[d], t, k) \/ (t = type /\ k = i)
         /\ \A t \in Types : Has(queue'[d], t, i) => type = "ItemAdded" /\ t = "ItemDeleted"
<1>1. /\ queue[d] \in Seq(Event) /\ queue[d] # <<>> /\ Head(queue[d]).type = type
      /\ queue'[d] = Tail(queue[d])
      /\ \A x \in Discoverers \ {d} : queue'[x] = queue[x]
  BY DEF Handle, TypeOK
<1>2. i \in Items
  BY HandleTypes
<1>3. Ordered(queue[d]) /\ ItemInv(d, i)
  BY <1>2 DEF QueueInv
<1>4. \A t, k : Has(queue[d], t, k) <=> Has(queue'[d], t, k) \/ (t = type /\ k = i)
  BY <1>1, TailEvent
<1>5. /\ Ordered(queue'[d])
      /\ \A t \in Types : Has(queue'[d], t, i) => type = "ItemAdded" /\ t = "ItemDeleted"
  BY <1>1, <1>3, TailEvent
<1>6. of[i] = d
  BY <1>3, <1>4 DEF ItemInv
<1>7. d \in mDiscoverers
  BY <1>1 DEF DiscInv
<1> QED BY <1>1, <1>2, <1>4, <1>5, <1>6, <1>7

LEMMA EventAdded ==
  ASSUME TypeOK, DiscInv, ListInv, QueueInv, NEW d \in Discoverers, OnItemAdded(d)
  PROVE  DiscInv' /\ ListInv' /\ QueueInv'
<1> DEFINE i == Head(queue[d]).item
<1>1. Handle(d, "ItemAdded") /\ "ItemAdded" \in Types
  BY DEF OnItemAdded, Types
<1>2. /\ i \in Items /\ of[i] = d /\ d \in mDiscoverers
      /\ \A x \in Discoverers \ {d} : queue'[x] = queue[x]
      /\ Ordered(queue'[d])
      /\ \A t, k : Has(queue[d], t, k)
                     <=> Has(queue'[d], t, k) \/ (t = "ItemAdded" /\ k = i)
      /\ \A t \in Types : Has(queue'[d], t, i) => t = "ItemDeleted"
  BY <1>1, EventHandled
<1>3. /\ UNCHANGED <<mDiscoverers, listener, running, index, alive, of>>
      /\ renderers' = renderers \cup {i}
  BY <1>1 DEF OnItemAdded, Handle, discVars
<1> HIDE DEF i
<1>4. alive[i]
  BY <1>2 DEF QueueInv, ItemInv
<1>5. ASSUME NEW x \in Discoverers, NEW k \in Items PROVE ItemInv(x, k)'
  <2>1. ItemInv(x, k)
    BY DEF QueueInv
  <2>2. CASE x = d
    BY <1>2, <1>3, <2>1, <2>2 DEF ItemInv, Types
  <2>3. CASE x # d
    BY <1>2, <1>3, <2>1, <2>3 DEF ItemInv, Types
  <2> QED BY <2>2, <2>3
<1>6. QueueInv'
  BY <1>2, <1>5 DEF QueueInv
<1>7. DiscInv'
  BY <1>2, <1>3 DEF DiscInv
<1>8. ListInv'
  BY <1>2, <1>3, <1>4 DEF ListInv
<1> QED BY <1>6, <1>7, <1>8

LEMMA EventDeleted ==
  ASSUME TypeOK, DiscInv, ListInv, QueueInv, NEW d \in Discoverers, OnItemDeleted(d)
  PROVE  DiscInv' /\ ListInv' /\ QueueInv'
<1> DEFINE i == Head(queue[d]).item
<1>1. Handle(d, "ItemDeleted") /\ "ItemDeleted" \in Types
  BY DEF OnItemDeleted, Types
<1>2. /\ i \in Items /\ of[i] = d /\ d \in mDiscoverers
      /\ \A x \in Discoverers \ {d} : queue'[x] = queue[x]
      /\ Ordered(queue'[d])
      /\ \A t, k : Has(queue[d], t, k)
                     <=> Has(queue'[d], t, k) \/ (t = "ItemDeleted" /\ k = i)
      /\ \A t \in Types : ~Has(queue'[d], t, i)
  BY <1>1, EventHandled
<1>3. /\ UNCHANGED <<mDiscoverers, listener, running, index>>
      /\ renderers' = renderers \ {i} /\ renderers \subseteq Items
      /\ \A k \in Items : alive'[k] = IF k = i THEN FALSE ELSE alive[k]
      /\ \A k \in Items : of'[k] = IF k = i THEN None ELSE of[k]
  BY <1>1 DEF OnItemDeleted, Handle, TypeOK, discVars
<1> HIDE DEF i
<1>4. \A x \in Discoverers : i \notin index[x]
  BY <1>2 DEF QueueInv, ItemInv
<1>5. ASSUME NEW x \in Discoverers, NEW k \in Items PROVE ItemInv(x, k)'
  <2>1. ItemInv(x, k) /\ x # None
    BY ObjectsAssumption DEF QueueInv
  <2>2. CASE k = i
    <3>1. of'[k] # x /\ k \notin index'[x] /\ k \notin renderers'
      BY <1>2, <1>3, <1>4, <2>1, <2>2
    <3>2. \A t \in Types : ~Has(queue'[x], t, k)
      BY <1>2, <2>1, <2>2 DEF ItemInv
    <3> QED BY <3>1, <3>2 DEF ItemInv, Types
  <2>3. CASE k # i /\ x = d
    BY <1>2, <1>3, <2>1, <2>3 DEF ItemInv, Types
  <2>4. CASE k # i /\ x # d
    BY <1>2, <1>3, <2>1, <2>4 DEF ItemInv, Types
  <2> QED BY <2>2, <2>3, <2>4
<1>6. QueueInv'
  BY <1>2, <1>5 DEF QueueInv
<1>7. DiscInv'
  BY <1>2, <1>3 DEF DiscInv
<1>8. ListInv'
  BY <1>3 DEF ListInv
<1> QED BY <1>6, <1>7, <1>8

-----------------------------------------------------------------------------
(* The invariant.                                                           *)

LEMMA CreateInv ==
  ASSUME IInv, NEW c \in Starts, Create(c)
  PROVE  DiscInv' /\ ListInv' /\ QueueInv' /\ StartInv'
<1>1. PICK d \in NewDiscoverer :
        /\ mDiscoverers' = mDiscoverers \cup {d}
        /\ service' = [service EXCEPT ![d] = next[c]]
        /\ listener' = [listener EXCEPT ![d] = TRUE]
        /\ Attempt(c, d, TRUE)
  BY DEF Create
<1>2. d \in Discoverers /\ d \notin mDiscoverers
  BY NewDiscovererFree DEF FreeDiscoverer
<1>3. running' = running \/ running' = [running EXCEPT ![d] = TRUE]
  BY <1>1, <1>2, AttemptCases DEF IInv
<1>4. pc[c] = "running" /\ UNCHANGED <<started, overtaken, listVars, itemVars>>
  BY DEF Create
<1>5. DiscInv'
  BY <1>1, <1>2, <1>3, <1>4 DEF IInv, DiscInv, TypeOK, itemVars
<1>6. ListInv'
  BY <1>1, <1>4 DEF IInv, ListInv, listVars, itemVars
<1>7. QueueInv'
  BY <1>4, QueueFrame DEF IInv, listVars, itemVars
<1>8. StartInv'
  BY <1>1, <1>2, <1>4, StartCreates DEF IInv
<1> QED BY <1>5, <1>6, <1>7, <1>8

LEMMA RetryInv ==
  ASSUME IInv, NEW c \in Starts, Retry(c)
  PROVE  DiscInv' /\ ListInv' /\ QueueInv' /\ StartInv'
<1>1. /\ rd[c] \in Discoverers /\ listener[rd[c]] \in BOOLEAN
      /\ Attempt(c, rd[c], listener[rd[c]])
      /\ UNCHANGED <<listVars, discVars, itemVars>>
  BY DEF Retry, IInv, StartInv, TypeOK
<1>2. running' = running \/ running' = [running EXCEPT ![rd[c]] = listener[rd[c]]]
  BY <1>1, AttemptCases DEF IInv
<1>3. DiscInv'
  <2>1. \A d \in Discoverers : running'[d] => running[d] \/ listener[d]
    BY <1>1, <1>2 DEF IInv, TypeOK
  <2>2. UNCHANGED <<listener, mDiscoverers, index, queue>>
    BY <1>1 DEF discVars, itemVars
  <2> QED BY <2>1, <2>2 DEF IInv, DiscInv
<1>4. ListInv' /\ QueueInv'
  BY <1>1, QueueFrame DEF IInv, ListInv, listVars, discVars, itemVars
<1>5. StartInv'
  BY StartRetries DEF IInv
<1> QED BY <1>3, <1>4, <1>5

LEMMA InitInv == ASSUME Init PROVE IInv
<1> USE DEF Init
<1>1. TypeOK
  <2>1. 1 \in 1..Services /\ 0 \in 0..Services /\ 0 \in 0..Attempts - 1
    BY CountsAssumption
  <2>2. queue \in [Discoverers -> Seq(Event)]
    BY EmptyQueue
  <2> QED BY <2>1, <2>2 DEF TypeOK
<1>2. DiscInv /\ ListInv
  BY DEF DiscInv, ListInv
<1>3. QueueInv
  BY EmptyQueue, ObjectsAssumption DEF QueueInv, ItemInv
<1>4. StartInv
  BY DEF StartInv, Active
<1> QED BY <1>1, <1>2, <1>3, <1>4 DEF IInv

LEMMA StepInv == ASSUME IInv, [Next]_vars PROVE IInv'
<1> USE DEF IInv
<1>1. CASE UNCHANGED vars
  BY <1>1, QueueFrame, StartFrame
  DEF TypeOK, DiscInv, ListInv, vars, netVars, listVars, startVars, discVars, itemVars
<1>2. CASE Next
  <2>1. TypeOK'
    BY <1>2, NextTypes DEF StartInv
  <2>2. CASE Subscribe \/ SelectRenderer
    BY <2>1, <2>2, QueueFrame, StartFrame
    DEF Subscribe, SelectRenderer, DiscInv, ListInv, listVars, discVars, itemVars
  <2>3. CASE Connect
    <3>1. StartInv'
      BY <2>3, StartCalled, StartFrame DEF Connect
    <3> QED
      BY <2>1, <2>3, <3>1, QueueFrame
      DEF Connect, DiscInv, ListInv, listVars, discVars, itemVars
  <2>4. CASE Disconnect
    <3>1. CASE UNCHANGED <<started, overtaken, discVars, running, itemVars, listVars>>
      BY <2>1, <2>4, <3>1, QueueFrame, StartFrame
      DEF Disconnect, DiscInv, ListInv, listVars, discVars, itemVars
    <3>2. CASE started /\ Stop
      <4>1. DiscInv' /\ ListInv' /\ QueueInv'
        BY <3>2, EventsStopped
      <4>2. StartInv'
        BY <2>4, <3>2, StartStopped DEF Disconnect, Stop
      <4> QED BY <2>1, <4>1, <4>2
    <3> QED BY <2>4, <3>1, <3>2 DEF Disconnect, Stop
  <2>5. ASSUME NEW c \in Starts, LibVLCReady(c) PROVE IInv'
    BY <2>1, <2>5, StartReady, QueueFrame
    DEF LibVLCReady, DiscInv, ListInv, listVars, discVars, itemVars
  <2>6. ASSUME NEW c \in Starts, Create(c) \/ Retry(c) PROVE IInv'
    BY <2>1, <2>6, CreateInv, RetryInv
  <2>7. ASSUME NEW d \in Discoverers,
               Announce(d) \/ Withdraw(d) \/ OnItemAdded(d) \/ OnItemDeleted(d)
        PROVE  IInv'
    <3>1. DiscInv' /\ ListInv' /\ QueueInv'
      BY <2>7, EventAnnounced, EventWithdrawn, EventAdded, EventDeleted
    <3>2. StartInv'
      BY <2>7, StartFrame DEF Announce, Withdraw, OnItemAdded, OnItemDeleted, Handle
    <3> QED BY <2>1, <3>1, <3>2
  <2> QED BY <1>2, <2>2, <2>3, <2>4, <2>5, <2>6, <2>7 DEF Next
<1> QED BY <1>1, <1>2

LEMMA Inductive == Spec => []IInv
BY InitInv, StepInv, PTL DEF Spec

-----------------------------------------------------------------------------
(* The theorems.                                                            *)

\* Every variable keeps its type; tries in particular: start() tries no
\* discoverer more often than it says (Kextensions.kt:29-39).
THEOREM TypeCorrect == Spec => []TypeOK
<1>1. IInv => TypeOK
  BY DEF IInv
<1> QED BY <1>1, Inductive, PTL

\* The renderers of the list were not released and are followed by a
\* discoverer that is listened to (RendererDelegate.kt:68-94).
THEOREM ListServed == Spec => []ListedAreServed
<1>1. IInv => ListedAreServed
  BY DEF IInv, ListInv, DiscInv, TypeOK, ListedAreServed
<1> QED BY <1>1, Inductive, PTL

\* The events that wait agree with the ordering of QueueInv: the last one about
\* an item says that it was added if and only if none says that it was deleted.
LEMMA LastEvent ==
  ASSUME TypeOK, NEW d \in Discoverers, NEW i \in Items, Ordered(queue[d])
  PROVE  WillBeListed(d, i)
           <=> /\ ~Has(queue[d], "ItemDeleted", i)
               /\ Has(queue[d], "ItemAdded", i) \/ i \in renderers
<1> DEFINE q == queue[d]
           about == {k \in DOMAIN q : q[k].item = i}
<1>1. /\ DOMAIN q \subseteq Nat /\ "ItemAdded" # "ItemDeleted"
      /\ \A k \in DOMAIN q : q[k].type = "ItemAdded" \/ q[k].type = "ItemDeleted"
  <2>1. q \in Seq(Event)
    BY DEF TypeOK
  <2>2. \A k \in DOMAIN q : q[k] \in Event
    BY <2>1
  <2> QED BY <2>1, <2>2 DEF Event
<1>2. about = {} <=> ~Has(q, "ItemAdded", i) /\ ~Has(q, "ItemDeleted", i)
  BY <1>1 DEF Has
<1>3. ASSUME NEW k \in about, q[k].type = "ItemAdded", \A l \in about : l <= k
      PROVE  Has(q, "ItemAdded", i) /\ ~Has(q, "ItemDeleted", i)
  <2>1. Has(q, "ItemAdded", i)
    BY <1>3 DEF Has
  <2>2. ASSUME NEW l \in about, q[l].type = "ItemDeleted" PROVE FALSE
    <3>1. l < k
      BY <1>1, <1>3, <2>2
    <3> QED BY <1>1, <1>3, <2>2, <3>1 DEF Ordered
  <2> QED BY <2>1, <2>2 DEF Has
<1>4. ASSUME NEW k \in about, q[k].type = "ItemAdded", ~Has(q, "ItemDeleted", i)
      PROVE  \A l \in about : l <= k
  <2>1. ASSUME NEW l \in about, k < l PROVE FALSE
    BY <1>4, <2>1 DEF Ordered, Has
  <2> QED BY <1>1, <2>1
<1>5. WillBeListed(d, i) <=>
        \/ about = {} /\ i \in renderers
        \/ \E k \in about : q[k].type = "ItemAdded" /\ \A l \in about : l <= k
  BY DEF WillBeListed
<1>6. Has(q, "ItemAdded", i) => \E k \in about : q[k].type = "ItemAdded"
  BY DEF Has
<1> HIDE DEF q, about
<1>7. CASE Has(q, "ItemAdded", i)
  BY <1>2, <1>3, <1>4, <1>5, <1>6, <1>7 DEF q
<1>8. CASE ~Has(q, "ItemAdded", i)
  BY <1>2, <1>3, <1>5, <1>8 DEF q
<1> QED BY <1>7, <1>8

\* The list is what was announced and not withdrawn, once the events have
\* arrived (RendererDiscoverer.java:101-123, RendererDelegate.kt:87-94).
THEOREM ListFollows == Spec => []ListFollowsNetwork
<1>1. ASSUME IInv, NEW d \in Discoverers
      PROVE  /\ \A i \in index[d] : WillBeListed(d, i)
             /\ \A i \in Items : of[i] = d /\ WillBeListed(d, i) => i \in index[d]
  <2>1. index[d] \subseteq Items
    BY <1>1 DEF IInv, TypeOK
  <2>2. \A i \in Items : ItemInv(d, i) /\ Ordered(queue[d])
    BY <1>1 DEF IInv, QueueInv
  <2>3. \A i \in Items : WillBeListed(d, i)
          <=> /\ ~Has(queue[d], "ItemDeleted", i)
              /\ Has(queue[d], "ItemAdded", i) \/ i \in renderers
    BY <1>1, <2>2, LastEvent DEF IInv
  <2> QED BY <2>1, <2>2, <2>3 DEF ItemInv
<1>2. IInv => ListFollowsNetwork
  BY <1>1 DEF ListFollowsNetwork
<1> QED BY <1>2, Inductive, PTL

\* Nothing is looked for while stopped and nothing twice while started, unless
\* a stop() overtook a start() (RendererDelegate.kt:56-75).
THEOREM StartFollows == Spec => []DiscoveryFollowsStart
<1>1. IInv => DiscoveryFollowsStart
  <2> SUFFICES ASSUME IInv, ~overtaken
               PROVE  /\ ~started => renderers = {} /\ \A d \in Discoverers : ~listener[d]
                      /\ \A d, e \in Discoverers :
                           listener[d] /\ listener[e] /\ service[d] = service[e] => d = e
    BY DEF DiscoveryFollowsStart
  <2>1. \A d \in Discoverers : listener[d] <=> d \in mDiscoverers
    BY DEF IInv, DiscInv
  <2>2. ~started => mDiscoverers = {} /\ renderers = {}
    BY DEF IInv, StartInv, ListInv
  <2>3. \A d, e \in mDiscoverers : service[d] = service[e] => d = e
    BY DEF IInv, StartInv
  <2> QED BY <2>1, <2>2, <2>3
<1> QED BY <1>1, Inductive, PTL
=============================================================================
