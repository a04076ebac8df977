--------------------------- MODULE NativeLifetime ---------------------------
(***************************************************************************)
(* What a libvlc object promises those who share it, whatever locks its    *)
(* wrapper takes: it is alive as long as somebody owns a reference, it is  *)
(* freed once, when no native call and no callback is inside it, and an    *)
(* event reaches the listener that is installed at that moment or nobody.  *)
(* VLCObject implements this.                                              *)
(***************************************************************************)
EXTENDS FiniteSets

CONSTANTS Refs, Threads, Loopers, Listeners, None

VARIABLES
  owner,      \* who owns each reference
  busy,       \* threads inside a native call
  notifying,  \* libvlc is inside its callback
  life,       \* "alive", "releasing" or "freed"
  installed,  \* the event listener
  hears       \* the listener each looper is calling

lifetimeVars == <<owner, busy, notifying, life, installed, hears>>

Owns(t) == \E r \in Refs : owner[r] = t

Init ==
  /\ \E r \in Refs, t \in Threads :
        owner = [x \in Refs |-> IF x = r THEN t ELSE None]
  /\ busy = {}
  /\ notifying = FALSE
  /\ life = "alive"
  /\ installed = None
  /\ hears = [l \in Loopers |-> None]

\* A free reference is taken while the object is alive.
Take(t) ==
  /\ life = "alive"
  /\ \E r \in Refs : owner[r] = None /\ owner' = [owner EXCEPT ![r] = t]
  /\ UNCHANGED <<busy, notifying, life, installed, hears>>

\* A reference is dropped; nobody listens to an object nobody owns.
Drop(t) ==
  /\ life = "alive"
  /\ \E r \in Refs : owner[r] = t /\ owner' = [owner EXCEPT ![r] = None]
  /\ IF \A r \in Refs : owner'[r] = None
     THEN life' = "releasing" /\ installed' = None
     ELSE UNCHANGED <<life, installed>>
  /\ UNCHANGED <<busy, notifying, hears>>

\* A native call is entered by an owner and left.
Enter(t) ==
  /\ life = "alive" /\ Owns(t) /\ t \notin busy
  /\ busy' = busy \cup {t}
  /\ UNCHANGED <<owner, notifying, life, installed, hears>>

Leave(t) ==
  /\ t \in busy
  /\ busy' = busy \ {t}
  /\ UNCHANGED <<owner, notifying, life, installed, hears>>

Install(t) ==
  /\ life = "alive" /\ Owns(t)
  /\ installed' \in Listeners \cup {None}
  /\ UNCHANGED <<owner, busy, notifying, life, hears>>

\* libvlc notifies an object that is not freed.
Notify ==
  /\ life # "freed"
  /\ notifying' = ~ notifying
  /\ UNCHANGED <<owner, busy, life, installed, hears>>

\* A looper starts the installed listener, or ends.
Hear(l) ==
  /\ hears' \in {[hears EXCEPT ![l] = x] : x \in {installed, None}}
  /\ UNCHANGED <<owner, busy, notifying, life, installed>>

Free ==
  /\ life = "releasing" /\ busy = {} /\ ~ notifying
  /\ life' = "freed"
  /\ UNCHANGED <<owner, busy, notifying, installed, hears>>

Next ==
  \/ \E t \in Threads : Take(t) \/ Drop(t) \/ Enter(t) \/ Leave(t) \/ Install(t)
  \/ Notify \/ Free
  \/ \E l \in Loopers : Hear(l)

Spec == Init /\ [][Next]_lifetimeVars
=============================================================================
