----------------------------- MODULE MediaCache -----------------------------
(***************************************************************************)
(* A libvlc Media: Media.java and libvlcjni-media.c.                       *)
(*                                                                         *)
(* The Java object caches what libvlc knows of the media.  A getter looks  *)
(* for the value under the monitor, asks libvlc without it and stores the  *)
(* answer under the monitor again; an event of libvlc invalidates what is  *)
(* cached.  A media is parsed once, synchronously or not; while it is, its *)
(* other events are not dispatched, and what is cached is dropped at the   *)
(* end.                                                                    *)
(*                                                                         *)
(* A value is a version: 0 is what libvlc answers, or the cache holds,     *)
(* when there is none (null, -1).  A block that holds the monitor, or the  *)
(* mutex of the JNI object, is one action.  The life of the object and of  *)
(* its listener is VLCObject's.                                            *)
(***************************************************************************)
EXTENDS Integers, Functions

CONSTANTS
  Clients,   \* the application's threads
  Fields,    \* what is asked of the media
  MaxVersion, \* bound: how often libvlc changes a value
  MaxChanges  \* bound: how often it changes any

\* The values that libvlc announces, those that the end of parsing drops, and
\* the one whose event is never dispatched.
Announced == {"duration", "state", "meta", "artwork"}
PostParsed == {"tracks", "duration", "state", "type"}
Muted == {"artwork"}

ASSUME FieldsAssumption == Fields \subseteq Announced \cup PostParsed
ASSUME BoundsAssumption == MaxVersion \in Nat /\ MaxChanges \in Nat

VARIABLES
  native,          \* the values of libvlc
  cache,           \* mDuration, mState, mType, mNativeTracks, mNativeMetas
  mParseStatus,
  b_parsing_sync,
  b_parsing_async,
  parser,          \* what libvlc's preparser does with the media
  event,           \* where each thread of libvlc is with the event it raises
  client,          \* where each client is, and with what
  told,            \* the listener has got ParsedChanged
  raced,           \* history: what was outdated when it was cached
  refused,         \* history: libvlc refused to parse
  bypassed         \* history: changes that were not dispatched while parsing

valueVars == <<native, cache, raced, bypassed>>
parseVars == <<mParseStatus, b_parsing_sync, b_parsing_async, parser, refused>>
vars == <<valueVars, parseVars, event, client, told>>

\* The threads of libvlc that raise events: the preparser, and a player's input.
Raisers == {"preparser", "input"}
Versions == 0..MaxVersion
NoEvent == [at |-> "none", of |-> "none"]

TypeOK ==
  /\ native \in [Fields -> Versions] /\ cache \in [Fields -> Versions]
  /\ mParseStatus \subseteq {"PARSING", "PARSED"}
  /\ b_parsing_sync \in BOOLEAN /\ b_parsing_async \in BOOLEAN
  /\ parser \in {"idle", "parsing", "ended"}
  /\ event \in [Raisers -> [at : {"none", "raised", "dispatched"},
                            of : Fields \cup {"none", "parsed"}]]
  /\ client \in [Clients -> [at : {"idle", "missed", "asked", "flag", "request",
                                   "accepted", "woken"},
                             of : Fields \cup {"none", "sync", "async"},
                             got : Versions]]
  /\ told \in BOOLEAN /\ refused \in BOOLEAN
  /\ raced \subseteq Fields /\ bypassed \subseteq Fields

Idle == [at |-> "idle", of |-> "none", got |-> 0]

Init ==
  /\ native = [f \in Fields |-> 0] /\ cache = [f \in Fields |-> 0]
  /\ mParseStatus = {} /\ b_parsing_sync = FALSE /\ b_parsing_async = FALSE
  /\ parser = "idle" /\ event = [r \in Raisers |-> NoEvent]
  /\ client = [c \in Clients |-> Idle]
  /\ told = FALSE /\ refused = FALSE /\ raced = {} /\ bypassed = {}

Goes(c, from, to) ==
  /\ client[c].at = from
  /\ client' = [client EXCEPT ![c].at = to]

-----------------------------------------------------------------------------
(* getDuration(), getState(), getType(), getTracks(), getMeta().            *)

\* The value is not cached.
Miss(c, f) ==
  /\ client[c].at = "idle" /\ cache[f] = 0
  /\ client' = [client EXCEPT ![c] = [at |-> "missed", of |-> f, got |-> 0]]
  /\ UNCHANGED <<valueVars, parseVars, event, told>>

Ask(c) ==
  LET f == client[c].of IN
  /\ client[c].at = "missed"
  /\ client' = [client EXCEPT ![c] = [at |-> "asked", of |-> f, got |-> native[f]]]
  /\ UNCHANGED <<valueVars, parseVars, event, told>>

\* Mutant of Store: a count is stored for an index.
StoreHigher(c) ==
  LET f == client[c].of IN
  /\ client[c].at = "asked"
  /\ cache' = [cache EXCEPT ![f] = client[c].got + 1]
  /\ raced' = IF client[c].got = native[f] THEN raced \ {f} ELSE raced \cup {f}
  /\ client' = [client EXCEPT ![c] = Idle]
  /\ UNCHANGED <<native, bypassed, parseVars, event, told>>

Store(c) ==
  LET f == client[c].of IN
  /\ client[c].at = "asked"
  /\ cache' = [cache EXCEPT ![f] = client[c].got]
  /\ raced' = IF client[c].got = native[f] THEN raced \ {f} ELSE raced \cup {f}
  /\ client' = [client EXCEPT ![c] = Idle]
  /\ UNCHANGED <<native, bypassed, parseVars, event, told>>

-----------------------------------------------------------------------------
(* parse() and parseAsync().                                                *)

Drop(fields) ==
  /\ cache' = [f \in Fields |-> IF f \in fields THEN 0 ELSE cache[f]]
  /\ raced' = raced \ fields

\* Mutant of PostParse: what was cached before is kept.
PostParseKeeps ==
  mParseStatus' = {"PARSED"} /\ UNCHANGED <<cache, raced>>

\* postParse(): the first time, what is cached is dropped.
PostParse ==
  IF "PARSED" \in mParseStatus THEN UNCHANGED <<mParseStatus, cache, raced>>
  ELSE mParseStatus' = {"PARSED"} /\ Drop(PostParsed)

\* Mutant of Gate: the status is tested, and set later.
GateOpen(c, how) ==
  /\ client[c].at = "idle" /\ "PARSED" \notin mParseStatus
  /\ mParseStatus' = mParseStatus \cup {"PARSING"}
  /\ client' = [client EXCEPT ![c] = [at |-> "flag", of |-> how, got |-> 0]]
  /\ UNCHANGED <<valueVars, b_parsing_sync, b_parsing_async, parser, refused,
                 event, told>>

\* A media that is parsed, or that someone parses, is not parsed again.
Gate(c, how) ==
  /\ client[c].at = "idle" /\ mParseStatus = {}
  /\ mParseStatus' = {"PARSING"}
  /\ client' = [client EXCEPT ![c] = [at |-> "flag", of |-> how, got |-> 0]]
  /\ UNCHANGED <<valueVars, b_parsing_sync, b_parsing_async, parser, refused,
                 event, told>>

SetParsing(c) ==
  /\ Goes(c, "flag", "request")
  /\ b_parsing_sync' = (b_parsing_sync \/ client[c].of = "sync")
  /\ b_parsing_async' = (b_parsing_async \/ client[c].of = "async")
  /\ UNCHANGED <<valueVars, mParseStatus, parser, refused, event, told>>

\* libvlc_media_parse_with_options(): the flags stay as they are if it fails.
Request(c) ==
  /\ client[c].at = "request"
  /\ \/ /\ parser' = "parsing" /\ UNCHANGED refused
        /\ client' = [client EXCEPT ![c] =
                        IF @.of = "sync" THEN [@ EXCEPT !.at = "accepted"] ELSE Idle]
     \/ /\ refused' = TRUE /\ UNCHANGED parser
        /\ client' = [client EXCEPT ![c] = Idle]
  /\ UNCHANGED <<valueVars, mParseStatus, b_parsing_sync, b_parsing_async,
                 event, told>>

\* nativeParse() waits for the end of parsing, whenever that was.
Wait(c) ==
  /\ ~b_parsing_sync /\ Goes(c, "accepted", "woken")
  /\ UNCHANGED <<valueVars, parseVars, event, told>>

Parsed(c) ==
  /\ client[c].at = "woken"
  /\ client' = [client EXCEPT ![c] = Idle]
  /\ PostParse
  /\ UNCHANGED <<native, bypassed, b_parsing_sync, b_parsing_async, parser,
                 refused, event, told>>

-----------------------------------------------------------------------------
(* libvlc changes a value and raises its event, in a thread of its own.     *)

Changes == FoldFunction(+, 0, native)

Raise(r, of) == event' = [event EXCEPT ![r] = [at |-> "raised", of |-> of]]

\* Only parsing changes a value without an event.
Change(r, f) ==
  /\ event[r] = NoEvent
  /\ native[f] < MaxVersion /\ Changes < MaxChanges
  /\ r = "preparser" => parser = "parsing"
  /\ r = "input" => f \in Announced
  /\ native' = [native EXCEPT ![f] = @ + 1]
  /\ IF f \in Announced THEN Raise(r, f) ELSE UNCHANGED event
  /\ UNCHANGED <<cache, raced, bypassed, parseVars, client, told>>

\* Done, failed, skipped or timed out.
ParseEnds ==
  /\ parser = "parsing" /\ event["preparser"] = NoEvent
  /\ parser' = "ended" /\ Raise("preparser", "parsed")
  /\ UNCHANGED <<valueVars, mParseStatus, b_parsing_sync, b_parsing_async, refused,
                 client, told>>

Dispatching(r) ==
  event' = [event EXCEPT ![r] = [at |-> "dispatched", of |-> event[r].of]]
Dispatched(r) == event' = [event EXCEPT ![r] = NoEvent]

\* Mutant of OnParsedChanged: a synchronous parsing is left at once.
OnParsedChangedEarly(r) ==
  /\ event[r].of = "parsed"
  /\ IF b_parsing_sync
     THEN Dispatched(r) /\ UNCHANGED <<b_parsing_sync, b_parsing_async>>
     ELSE Dispatching(r) /\ b_parsing_sync' = FALSE /\ b_parsing_async' = FALSE
  /\ UNCHANGED bypassed

\* Parsing is over; who waits for it needs no event.
OnParsedChanged(r) ==
  /\ event[r].of = "parsed"
  /\ IF b_parsing_sync THEN Dispatched(r) ELSE Dispatching(r)
  /\ b_parsing_sync' = FALSE /\ b_parsing_async' = FALSE
  /\ UNCHANGED bypassed

\* Any other event is not dispatched while parsing.
OnChanged(r) ==
  /\ event[r].of # "parsed"
  /\ IF b_parsing_sync \/ b_parsing_async
     THEN Dispatched(r) /\ bypassed' = bypassed \cup {event[r].of}
     ELSE /\ UNCHANGED bypassed
          /\ IF event[r].of \in Muted THEN Dispatched(r) ELSE Dispatching(r)
  /\ UNCHANGED <<b_parsing_sync, b_parsing_async>>

\* Media_event_cb(): libvlc calls it for one event at a time.
Media_event_cb(r) ==
  /\ event[r].at = "raised" /\ \A s \in Raisers : event[s].at # "dispatched"
  /\ OnParsedChanged(r) \/ OnChanged(r)
  /\ UNCHANGED <<native, cache, raced, mParseStatus, parser, refused, client, told>>

\* onEventNative(): the event drops what is cached, and goes to the listener.
OnEventNative(r) ==
  /\ event[r].at = "dispatched" /\ Dispatched(r)
  /\ IF event[r].of = "parsed" THEN PostParse /\ told' = TRUE
     ELSE Drop({event[r].of}) /\ UNCHANGED <<mParseStatus, told>>
  /\ UNCHANGED <<native, bypassed, b_parsing_sync, b_parsing_async, parser,
                 refused, client>>

-----------------------------------------------------------------------------
ClientStep(c) ==
  Ask(c) \/ Store(c) \/ SetParsing(c) \/ Request(c) \/ Wait(c) \/ Parsed(c)

Next ==
  \/ \E c \in Clients :
       \/ \E f \in Fields : Miss(c, f)
       \/ \E how \in {"sync", "async"} : Gate(c, how)
       \/ ClientStep(c)
  \/ \E r \in Raisers :
       \/ \E f \in Fields : Change(r, f)
       \/ Media_event_cb(r) \/ OnEventNative(r)
  \/ ParseEnds

\* A thread that has begun goes on, and libvlc ends what it parses.
Fairness ==
  /\ \A c \in Clients : WF_vars(ClientStep(c))
  /\ \A r \in Raisers : SF_vars(Media_event_cb(r)) /\ WF_vars(OnEventNative(r))
  /\ SF_vars(ParseEnds)

Spec == Init /\ [][Next]_vars /\ Fairness

-----------------------------------------------------------------------------
Parsing(c) == client[c].of \in {"sync", "async"}
Outdated(f) == cache[f] \notin {0, native[f]}
EventUnderWay(f) == \E r \in Raisers : event[r].of = f

\* The end of parsing is still to drop what is cached.
DropUnderWay ==
  \/ parser = "parsing" \/ EventUnderWay("parsed")
  \/ \E c \in Clients : Parsing(c)

\* What is cached and outdated will be dropped, by the event of the change or
\* at the end of parsing.  But a getter may store an answer that was outdated
\* by then, a refused request leaves the events bypassed for good, and the end
\* of parsing does not drop the metas whose events were bypassed.
OutdatedIsDropped ==
  \A f \in Fields :
    Outdated(f) => \/ EventUnderWay(f)
                   \/ f \in PostParsed /\ DropUnderWay
                   \/ f \in raced \/ refused
                   \/ f \notin PostParsed /\ (f \in bypassed \/ f \in Muted)

\* However many threads ask for it and however the first request ends, libvlc
\* is asked to parse once, and the listener is told of no synchronous parsing.
ParsedOnce ==
  /\ \A c, d \in Clients : Parsing(c) /\ Parsing(d) => c = d
  /\ parser # "idle" \/ refused =>
       \A c \in Clients : client[c].at \notin {"flag", "request"}
  /\ told => \A c \in Clients : client[c].of # "sync"

\* Once libvlc has begun to parse, parse() returns, though the event may come
\* before the caller waits for it; and after parseAsync() the media is parsed
\* when the listener is told so.
ParsingEnds ==
  parser = "parsing" ~>
    "PARSED" \in mParseStatus /\ \A c \in Clients : ~Parsing(c)

\* libvlcjni-media.c:66: "bypass all others events while parsing, since we'll
\* fetch alls info when parsing is done".
FetchedWhenParsed ==
  "PARSED" \in mParseStatus =>
    \A f \in bypassed : Outdated(f) => f \in raced \/ EventUnderWay(f)
=============================================================================
