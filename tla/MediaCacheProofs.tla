-------------------------- MODULE MediaCacheProofs --------------------------
(***************************************************************************)
(* Theorems about MediaCache, for any number of clients and changes.       *)
(***************************************************************************)
EXTENDS MediaCache, TLAPS

\* Where a client is says what it does.
ClientInv ==
  \A c \in Clients :
    /\ client[c].at = "idle" => client[c].of = "none"
    /\ client[c].at \in {"missed", "asked"} => client[c].of \in Fields
    /\ client[c].at \in {"flag", "request"} => Parsing(c)
    /\ client[c].at \in {"accepted", "woken"} => client[c].of = "sync"

EventInv ==
  \A r \in Raisers :
    /\ (event[r].at = "none") <=> (event[r].of = "none")
    /\ event[r].of = "parsed" => r = "preparser" /\ parser = "ended"

\* The status follows the one request there is.
StatusInv ==
  /\ mParseStatus = {} =>
       parser = "idle" /\ ~refused /\ \A c \in Clients : ~Parsing(c)
  /\ "PARSED" \in mParseStatus =>
       /\ parser = "ended" /\ ~EventUnderWay("parsed")
       /\ \A c \in Clients : ~Parsing(c)
  /\ told => "PARSED" \in mParseStatus

\* libvlc parses after the request, the caller wakes after it has parsed.
RequestInv ==
  /\ refused => parser = "idle"
  /\ \A c \in Clients :
       /\ client[c].at \in {"flag", "request"} => parser = "idle" /\ ~refused
       /\ client[c].at \in {"accepted", "woken"} => parser # "idle" /\ ~refused
       /\ client[c].at = "woken" => parser = "ended" /\ ~EventUnderWay("parsed")

\* The flags are up from before the request until libvlc has parsed.
FlagInv ==
  /\ b_parsing_sync =>
       refused \/ \E c \in Clients : client[c].of = "sync" /\ client[c].at # "woken"
  /\ b_parsing_async => refused \/ DropUnderWay
  /\ b_parsing_async => \A c \in Clients : client[c].of # "sync"
  /\ \A c \in Clients :
       /\ client[c].at = "request" /\ client[c].of = "sync" => b_parsing_sync
       /\ client[c].at = "accepted" /\ (parser = "parsing" \/ EventUnderWay("parsed"))
            => b_parsing_sync
  /\ \A r \in Raisers :
       event[r].of = "parsed" /\ event[r].at = "dispatched" =>
         ~b_parsing_async /\ \A c \in Clients : ~Parsing(c)

OnlyOne == \A c, d \in Clients : Parsing(c) /\ Parsing(d) => c = d

IInv == /\ TypeOK
        /\ ClientInv /\ EventInv /\ StatusInv /\ RequestInv /\ FlagInv /\ OnlyOne
        /\ OutdatedIsDropped

-----------------------------------------------------------------------------
LEMMA FieldNames ==
  /\ \A f \in Fields : f \notin {"none", "parsed", "sync", "async"}
  /\ \A f \in Fields : f \notin Announced => f \in PostParsed
  /\ \A f \in Fields : f \in Muted => f \notin PostParsed
BY FieldsAssumption DEF Announced, PostParsed, Muted

LEMMA Initially == Init => IInv
<1> SUFFICES ASSUME Init PROVE IInv
  OBVIOUS
<1>1. TypeOK
  <2>1. 0 \in Versions
    BY BoundsAssumption DEF Versions
  <2>2. native \in [Fields -> Versions] /\ cache \in [Fields -> Versions]
    BY <2>1 DEF Init
  <2>3. NoEvent \in [at : {"none", "raised", "dispatched"},
                     of : Fields \cup {"none", "parsed"}]
    BY DEF NoEvent
  <2>4. Idle \in [at : {"idle", "missed", "asked", "flag", "request",
                        "accepted", "woken"},
                  of : Fields \cup {"none", "sync", "async"}, got : Versions]
    BY <2>1 DEF Idle
  <2> QED
    BY <2>2, <2>3, <2>4 DEF Init, TypeOK
<1>2. \A c \in Clients : ~Parsing(c) /\ client[c] = Idle
  BY DEF Init, Idle, Parsing
<1>3. \A r \in Raisers : event[r].at = "none" /\ event[r].of = "none"
  BY DEF Init, NoEvent
<1>4. ~EventUnderWay("parsed")
  BY <1>3 DEF EventUnderWay
<1>5. ClientInv /\ EventInv /\ StatusInv /\ RequestInv /\ OnlyOne
  BY <1>2, <1>3, <1>4 DEF Init, Idle, ClientInv, EventInv, StatusInv, RequestInv, OnlyOne
<1>6. FlagInv
  BY <1>2, <1>3 DEF Init, Idle, FlagInv
<1>7. OutdatedIsDropped
  BY DEF Init, OutdatedIsDropped, Outdated
<1> QED
  BY <1>1, <1>5, <1>6, <1>7 DEF IInv

\* What a getter does is nothing to those who parse.
LEMMA GetterKeeps ==
  ASSUME IInv, NEW c \in Clients,
         ~Parsing(c), client' \in [Clients -> [at : {"idle", "missed", "asked", "flag",
                               "request", "accepted", "woken"},
                             of : Fields \cup {"none", "sync", "async"},
                             got : Versions]],
         \/ client'[c].at \in {"missed", "asked"} /\ client'[c].of \in Fields
         \/ client'[c] = Idle,
         \A d \in Clients : d # c => client'[d] = client[d],
         UNCHANGED <<parseVars, event, told>>
  PROVE  /\ ClientInv' /\ EventInv' /\ StatusInv' /\ RequestInv' /\ FlagInv' /\ OnlyOne'
         /\ DropUnderWay' <=> DropUnderWay
         /\ \A f : EventUnderWay(f)' <=> EventUnderWay(f)
<1> USE DEF IInv, parseVars
<1>1. ~Parsing(c)'
  BY FieldNames DEF Parsing, Idle
<1>2. \A d \in Clients : Parsing(d)' <=> Parsing(d)
  BY <1>1 DEF Parsing
<1>3. \A f : EventUnderWay(f)' <=> EventUnderWay(f)
  BY DEF EventUnderWay
<1>4. DropUnderWay' <=> DropUnderWay
  BY <1>2, <1>3 DEF DropUnderWay
<1>5. ClientInv'
  BY <1>2 DEF ClientInv, Idle
<1>6. EventInv'
  BY DEF EventInv
<1>7. StatusInv'
  BY <1>2, <1>3 DEF StatusInv
<1>8. RequestInv'
  BY <1>3 DEF RequestInv, Idle
<1>9. OnlyOne'
  BY <1>2 DEF OnlyOne
<1>10. FlagInv'
  <2>1. \A d \in Clients : client[d].of = "sync" => client'[d] = client[d]
    BY DEF Parsing
  <2>2. b_parsing_sync' => refused' \/ \E d \in Clients :
           client'[d].of = "sync" /\ client'[d].at # "woken"
    BY <2>1 DEF FlagInv
  <2>3. b_parsing_async' => refused' \/ DropUnderWay'
    BY <1>4 DEF FlagInv
  <2>4. \A d \in Clients :
          client'[d].at \in {"request", "accepted"} => client'[d] = client[d]
    BY DEF Idle
  <2>5. \A d \in Clients :
       /\ client'[d].at = "request" /\ client'[d].of = "sync" => b_parsing_sync'
       /\ client'[d].at = "accepted" /\ (parser' = "parsing" \/ EventUnderWay("parsed")')
            => b_parsing_sync'
    BY <2>4, <1>3 DEF FlagInv
  <2>6. \A r \in Raisers :
          event'[r].of = "parsed" /\ event'[r].at = "dispatched" =>
            ~b_parsing_async' /\ \A d \in Clients : ~Parsing(d)'
    BY <1>2 DEF FlagInv
  <2>7. b_parsing_async' => \A d \in Clients : client'[d].of # "sync"
    BY <1>2, FieldNames DEF FlagInv, Parsing
  <2> QED
    BY <2>2, <2>3, <2>5, <2>6, <2>7 DEF FlagInv
<1> QED
  BY <1>3, <1>4, <1>5, <1>6, <1>7, <1>8, <1>9, <1>10

LEMMA MissStep ==
  ASSUME IInv, NEW c \in Clients, NEW f \in Fields, Miss(c, f)
  PROVE  IInv'
<1> USE DEF IInv
<1>1. client' = [client EXCEPT ![c] = [at |-> "missed", of |-> f, got |-> 0]]
      /\ UNCHANGED <<valueVars, parseVars, event, told>> /\ client[c].at = "idle"
  BY DEF Miss
<1>2. TypeOK'
  BY <1>1, BoundsAssumption DEF TypeOK, valueVars, parseVars, Versions
<1>3. ~Parsing(c)
  BY <1>1 DEF ClientInv, Parsing
<1>4. /\ ClientInv' /\ EventInv' /\ StatusInv' /\ RequestInv' /\ FlagInv' /\ OnlyOne'
      /\ DropUnderWay' <=> DropUnderWay
      /\ \A g : EventUnderWay(g)' <=> EventUnderWay(g)
  <2>1. client'[c].at \in {"missed", "asked"} /\ client'[c].of \in Fields
    BY <1>1 DEF TypeOK
  <2>2. \A d \in Clients : d # c => client'[d] = client[d]
    BY <1>1 DEF TypeOK
  <2> QED
    BY <1>1, <1>2, <1>3, <2>1, <2>2, GetterKeeps DEF TypeOK
<1>5. OutdatedIsDropped'
  BY <1>1, <1>4 DEF OutdatedIsDropped, Outdated, valueVars, parseVars
<1> QED
  BY <1>2, <1>4, <1>5

LEMMA AskStep == ASSUME IInv, NEW c \in Clients, Ask(c) PROVE IInv'
<1> USE DEF IInv
<1> DEFINE new == [at |-> "asked", of |-> client[c].of, got |-> native[client[c].of]]
<1>1. /\ client[c].at = "missed" /\ client' = [client EXCEPT ![c] = new]
      /\ UNCHANGED <<valueVars, parseVars, event, told>>
  BY DEF Ask
<1>2. client[c].of \in Fields /\ ~Parsing(c)
  BY <1>1, FieldNames DEF ClientInv, Parsing
<1>3. TypeOK'
  <2>1. native[client[c].of] \in Versions
    BY <1>2 DEF TypeOK
  <2>2. new \in [at : {"idle", "missed", "asked", "flag", "request",
                       "accepted", "woken"},
                 of : Fields \cup {"none", "sync", "async"}, got : Versions]
    BY <1>2, <2>1
  <2> HIDE DEF new
  <2> QED
    BY <1>1, <2>2 DEF TypeOK, valueVars, parseVars
<1>4. /\ ClientInv' /\ EventInv' /\ StatusInv' /\ RequestInv' /\ FlagInv' /\ OnlyOne'
      /\ DropUnderWay' <=> DropUnderWay
      /\ \A g : EventUnderWay(g)' <=> EventUnderWay(g)
  <2>1. client'[c].at \in {"missed", "asked"} /\ client'[c].of \in Fields
    BY <1>1, <1>2 DEF TypeOK
  <2>2. \A d \in Clients : d # c => client'[d] = client[d]
    BY <1>1 DEF TypeOK
  <2> QED
    BY <1>1, <1>2, <1>3, <2>1, <2>2, GetterKeeps DEF TypeOK
<1>5. OutdatedIsDropped'
  BY <1>1, <1>4 DEF OutdatedIsDropped, Outdated, valueVars, parseVars
<1> QED
  BY <1>3, <1>4, <1>5

LEMMA StoreStep == ASSUME IInv, NEW c \in Clients, Store(c) PROVE IInv'
<1> USE DEF IInv
<1> DEFINE f == client[c].of
<1>1. /\ client[c].at = "asked"
      /\ cache' = [cache EXCEPT ![f] = client[c].got]
      /\ raced' = IF client[c].got = native[f] THEN raced \ {f} ELSE raced \cup {f}
      /\ client' = [client EXCEPT ![c] = Idle]
      /\ UNCHANGED <<native, bypassed, parseVars, event, told>>
  BY DEF Store
<1>2. f \in Fields /\ ~Parsing(c)
  BY <1>1, FieldNames DEF ClientInv, Parsing
<1>3. TypeOK'
  BY <1>1, <1>2, BoundsAssumption DEF TypeOK, parseVars, Idle, Versions
<1>4. /\ ClientInv' /\ EventInv' /\ StatusInv' /\ RequestInv' /\ FlagInv' /\ OnlyOne'
      /\ DropUnderWay' <=> DropUnderWay
      /\ \A g : EventUnderWay(g)' <=> EventUnderWay(g)
  <2>1. client'[c] = Idle
    BY <1>1 DEF TypeOK
  <2>2. \A d \in Clients : d # c => client'[d] = client[d]
    BY <1>1 DEF TypeOK
  <2> QED
    BY <1>1, <1>2, <1>3, <2>1, <2>2, GetterKeeps DEF TypeOK
<1>5. OutdatedIsDropped'
  <2> HIDE DEF f
  <2>1. \A g \in Fields : g # f => cache'[g] = cache[g] /\ (g \in raced' <=> g \in raced)
    BY <1>1 DEF TypeOK
  <2>2. f \notin raced' => cache'[f] = native'[f]
    BY <1>1, <1>2 DEF TypeOK
  <2>3. \A g \in Fields : Outdated(g)' /\ g \notin raced' => Outdated(g) /\ g \notin raced
    BY <1>1, <2>1, <2>2 DEF Outdated
  <2> QED
    BY <1>1, <1>4, <2>3 DEF OutdatedIsDropped, parseVars
<1> QED
  BY <1>3, <1>4, <1>5

-----------------------------------------------------------------------------
\* A step that leaves the values alone leaves what is outdated to be dropped.
LEMMA StillDropped ==
  ASSUME OutdatedIsDropped, UNCHANGED valueVars, refused => refused',
         \A f : EventUnderWay(f) => EventUnderWay(f)',
         DropUnderWay => DropUnderWay' \/ refused'
  PROVE  OutdatedIsDropped'
<1> SUFFICES ASSUME NEW f \in Fields, Outdated(f)'
             PROVE  \/ EventUnderWay(f)'
                    \/ f \in PostParsed /\ DropUnderWay'
                    \/ f \in raced' \/ refused'
                    \/ f \notin PostParsed /\ (f \in bypassed' \/ f \in Muted)
  BY DEF OutdatedIsDropped
<1>1. UNCHANGED <<native, cache, raced, bypassed>>
  BY DEF valueVars
<1>2. Outdated(f)
  BY <1>1 DEF Outdated
<1>3. \/ EventUnderWay(f)
      \/ f \in PostParsed /\ DropUnderWay
      \/ f \in raced \/ refused
      \/ f \notin PostParsed /\ (f \in bypassed \/ f \in Muted)
  BY <1>2 DEF OutdatedIsDropped
<1> QED
  BY <1>1, <1>3

ClientTypes == [at : {"idle", "missed", "asked", "flag", "request", "accepted", "woken"},
                of : Fields \cup {"none", "sync", "async"}, got : Versions]

LEMMA GateStep ==
  ASSUME IInv, NEW c \in Clients, NEW how \in {"sync", "async"}, Gate(c, how)
  PROVE  IInv'
<1> USE DEF IInv
<1> DEFINE new == [at |-> "flag", of |-> how, got |-> 0]
<1>1. /\ client[c].at = "idle" /\ mParseStatus = {} /\ mParseStatus' = {"PARSING"}
      /\ client' = [client EXCEPT ![c] = new]
      /\ UNCHANGED <<valueVars, b_parsing_sync, b_parsing_async, parser, refused,
                     event, told>>
  BY DEF Gate
<1>2. TypeOK'
  <2>1. new \in ClientTypes
    BY BoundsAssumption DEF ClientTypes, Versions
  <2> HIDE DEF new
  <2> QED
    BY <1>1, <2>1 DEF TypeOK, valueVars, ClientTypes
<1>3. parser = "idle" /\ ~refused /\ \A d \in Clients : ~Parsing(d)
  BY <1>1 DEF StatusInv
<1>4. client'[c] = new /\ \A d \in Clients : d # c => client'[d] = client[d]
  BY <1>1 DEF TypeOK
<1>5. Parsing(c)' /\ \A d \in Clients : d # c => ~Parsing(d)'
  BY <1>3, <1>4 DEF Parsing
<1>6. \A f : EventUnderWay(f)' <=> EventUnderWay(f)
  BY <1>1 DEF EventUnderWay
<1>7. ~EventUnderWay("parsed") /\ ~told
  BY <1>1, <1>3 DEF EventInv, EventUnderWay, StatusInv
<1>8. ClientInv' /\ OnlyOne'
  BY <1>4, <1>5 DEF ClientInv, OnlyOne, Parsing
<1>9. EventInv' /\ StatusInv'
  BY <1>1, <1>7 DEF EventInv, StatusInv
<1>10. RequestInv'
  BY <1>1, <1>3, <1>4, <1>6 DEF RequestInv
<1>11. FlagInv'
  <2>1. ~b_parsing_sync /\ ~b_parsing_async
    <3>1. ~DropUnderWay
      BY <1>3, <1>7 DEF DropUnderWay
    <3> QED
      BY <1>3, <3>1 DEF FlagInv, Parsing
  <2>2. \A d \in Clients : client'[d].at \notin {"request", "accepted"}
    BY <1>3, <1>4 DEF ClientInv, Parsing
  <2>3. \A r \in Raisers : event[r].of # "parsed"
    BY <1>7 DEF EventUnderWay
  <2>4. DropUnderWay'
    BY <1>5 DEF DropUnderWay
  <2> QED
    BY <1>1, <2>1, <2>2, <2>3, <2>4 DEF FlagInv
<1>12. OutdatedIsDropped'
  <2>1. DropUnderWay'
    BY <1>5 DEF DropUnderWay
  <2> QED
    BY <1>1, <1>6, <2>1, StillDropped
<1> QED
  BY <1>2, <1>8, <1>9, <1>10, <1>11, <1>12

LEMMA SetParsingStep == ASSUME IInv, NEW c \in Clients, SetParsing(c) PROVE IInv'
<1> USE DEF IInv
<1>1. /\ client[c].at = "flag" /\ client' = [client EXCEPT ![c].at = "request"]
      /\ b_parsing_sync' = (b_parsing_sync \/ client[c].of = "sync")
      /\ b_parsing_async' = (b_parsing_async \/ client[c].of = "async")
      /\ UNCHANGED <<valueVars, mParseStatus, parser, refused, event, told>>
  BY DEF SetParsing, Goes
<1>2. /\ client'[c].at = "request" /\ client'[c].of = client[c].of
      /\ \A d \in Clients : d # c => client'[d] = client[d]
      /\ client' \in [Clients -> ClientTypes]
  BY <1>1 DEF TypeOK, ClientTypes
<1>3. b_parsing_sync' \in BOOLEAN /\ b_parsing_async' \in BOOLEAN
  BY <1>1 DEF TypeOK
<1>4. TypeOK'
  BY <1>1, <1>2, <1>3 DEF TypeOK, valueVars, ClientTypes
<1>5. \A d \in Clients : Parsing(d)' <=> Parsing(d)
  BY <1>2 DEF Parsing
<1>6. \A f : EventUnderWay(f)' <=> EventUnderWay(f)
  BY <1>1 DEF EventUnderWay
<1>7. DropUnderWay' <=> DropUnderWay
  BY <1>1, <1>5, <1>6 DEF DropUnderWay
<1>8. Parsing(c) /\ DropUnderWay
  BY <1>1 DEF ClientInv, DropUnderWay
<1>9. ClientInv' /\ OnlyOne'
  BY <1>2, <1>5, <1>8 DEF ClientInv, OnlyOne, Parsing
<1>10. EventInv' /\ StatusInv'
  BY <1>1, <1>5, <1>6 DEF EventInv, StatusInv
<1>11. RequestInv'
  BY <1>1, <1>2, <1>6 DEF RequestInv
<1>12. FlagInv'
  <2>1. b_parsing_sync' => refused' \/ \E d \in Clients :
          client'[d].of = "sync" /\ client'[d].at # "woken"
    <3>1. CASE client[c].of = "sync"
      BY <1>2, <3>1
    <3>2. CASE client[c].of # "sync"
      <4>1. b_parsing_sync' => b_parsing_sync
        BY <1>1, <3>2
      <4>2. b_parsing_sync => refused \/ \E d \in Clients :
              client[d].of = "sync" /\ client[d].at # "woken"
        BY DEF FlagInv
      <4>3. \A d \in Clients : client[d].of = "sync" => client'[d] = client[d]
        BY <1>2, <3>2
      <4> QED
        BY <1>1, <4>1, <4>2, <4>3
    <3> QED
      BY <3>1, <3>2
  <2>2. \A d \in Clients : d # c => ~Parsing(d)
    BY <1>8 DEF OnlyOne
  <2>3. \A d \in Clients :
       /\ client'[d].at = "request" /\ client'[d].of = "sync" => b_parsing_sync'
       /\ client'[d].at = "accepted" /\ (parser' = "parsing" \/ EventUnderWay("parsed")')
            => b_parsing_sync'
    BY <1>1, <1>2, <2>2 DEF ClientInv, Parsing
  <2>4. \A r \in Raisers :
          event'[r].of = "parsed" /\ event'[r].at = "dispatched" =>
            ~b_parsing_async' /\ \A d \in Clients : ~Parsing(d)'
    BY <1>1, <1>8 DEF FlagInv
  <2>5. b_parsing_async' => \A d \in Clients : client'[d].of # "sync"
    BY <1>1, <1>2, <2>2 DEF FlagInv, Parsing
  <2> QED
    BY <1>7, <1>8, <2>1, <2>3, <2>4, <2>5 DEF FlagInv
<1>13. OutdatedIsDropped'
  BY <1>1, <1>6, <1>7, StillDropped
<1> QED
  BY <1>4, <1>9, <1>10, <1>11, <1>12, <1>13

LEMMA RequestStep == ASSUME IInv, NEW c \in Clients, Request(c) PROVE IInv'
<1> USE DEF IInv
<1>1. /\ client[c].at = "request"
      /\ UNCHANGED <<valueVars, mParseStatus, b_parsing_sync, b_parsing_async,
                     event, told>>
  BY DEF Request
<1>2. Parsing(c) /\ parser = "idle" /\ ~refused
  BY <1>1 DEF ClientInv, RequestInv
<1>3. \A d \in Clients : d # c => ~Parsing(d)
  BY <1>2 DEF OnlyOne
<1>4. /\ mParseStatus # {} /\ "PARSED" \notin mParseStatus /\ ~told
      /\ \A r \in Raisers : event[r].of # "parsed"
  BY <1>2 DEF StatusInv, EventInv
<1>5. \A f : EventUnderWay(f)' <=> EventUnderWay(f)
  BY <1>1 DEF EventUnderWay
<1>6. ~EventUnderWay("parsed")
  BY <1>4 DEF EventUnderWay
<1>7. /\ \A d \in Clients : d # c => client'[d] = client[d]
      /\ client' \in [Clients -> ClientTypes]
      /\ \/ /\ parser' = "parsing" /\ refused' = refused
            /\ client[c].of = "sync"
            /\ client'[c].of = "sync" /\ client'[c].at = "accepted"
         \/ /\ parser' = "parsing" /\ refused' = refused
            /\ client[c].of # "sync" /\ client'[c] = Idle
         \/ parser' = parser /\ refused' = TRUE /\ client'[c] = Idle
  <2>1. Idle \in ClientTypes
    BY BoundsAssumption DEF Idle, ClientTypes, Versions
  <2>2. CASE /\ refused' = TRUE /\ UNCHANGED parser
             /\ client' = [client EXCEPT ![c] = Idle]
    BY <2>1, <2>2 DEF TypeOK, ClientTypes
  <2>3. CASE /\ parser' = "parsing" /\ UNCHANGED refused
             /\ client' = [client EXCEPT ![c] =
                  IF @.of = "sync" THEN [@ EXCEPT !.at = "accepted"] ELSE Idle]
    <3>1. CASE client[c].of = "sync"
      BY <2>3, <3>1 DEF TypeOK, ClientTypes
    <3>2. CASE client[c].of # "sync"
      BY <2>1, <2>3, <3>2 DEF TypeOK, ClientTypes
    <3> QED
      BY <3>1, <3>2
  <2> QED
    BY <2>2, <2>3 DEF Request
<1>8. TypeOK'
  <2>1. parser' \in {"idle", "parsing", "ended"} /\ refused' \in BOOLEAN
    BY <1>7 DEF TypeOK
  <2> QED
    BY <1>1, <1>7, <2>1 DEF TypeOK, valueVars, ClientTypes
<1>9. ClientInv'
  BY <1>7, FieldNames DEF ClientInv, Parsing, Idle
<1>10. \A d \in Clients : d # c => ~Parsing(d)'
  BY <1>3, <1>7 DEF Parsing
<1>11. OnlyOne'
  BY <1>10 DEF OnlyOne
<1>12. EventInv' /\ StatusInv'
  BY <1>1, <1>4, <1>6 DEF EventInv, StatusInv
<1>13. \A d \in Clients : d # c =>
         client'[d].at \notin {"flag", "request", "accepted", "woken"}
  BY <1>3, <1>7 DEF ClientInv, Parsing
<1>14. RequestInv'
  BY <1>2, <1>5, <1>6, <1>7, <1>13 DEF RequestInv, Idle
<1>15. refused' \/ DropUnderWay'
  BY <1>7 DEF DropUnderWay
<1>16. FlagInv'
  <2>1. b_parsing_sync' => refused' \/ \E d \in Clients :
          client'[d].of = "sync" /\ client'[d].at # "woken"
    <3>1. CASE client[c].of = "sync"
      BY <1>7, <3>1
    <3>2. CASE client[c].of # "sync"
      BY <1>1, <1>2, <1>3, <3>2 DEF FlagInv, Parsing
    <3> QED
      BY <3>1, <3>2
  <2>2. \A d \in Clients :
       /\ client'[d].at = "request" /\ client'[d].of = "sync" => b_parsing_sync'
       /\ client'[d].at = "accepted" /\ (parser' = "parsing" \/ EventUnderWay("parsed")')
            => b_parsing_sync'
    BY <1>1, <1>7, <1>13 DEF FlagInv, Idle
  <2>3. \A r \in Raisers : event'[r].of # "parsed"
    BY <1>1, <1>4
  <2>4. b_parsing_async' => \A d \in Clients : client'[d].of # "sync"
    BY <1>1, <1>7 DEF FlagInv, Idle
  <2> QED
    BY <1>15, <2>1, <2>2, <2>3, <2>4 DEF FlagInv
<1>17. OutdatedIsDropped'
  BY <1>1, <1>5, <1>7, <1>15, StillDropped
<1> QED
  BY <1>8, <1>9, <1>11, <1>12, <1>14, <1>16, <1>17

LEMMA WaitStep == ASSUME IInv, NEW c \in Clients, Wait(c) PROVE IInv'
<1> USE DEF IInv
<1>1. /\ client[c].at = "accepted" /\ ~b_parsing_sync
      /\ client' = [client EXCEPT ![c].at = "woken"]
      /\ UNCHANGED <<valueVars, parseVars, event, told>>
  BY DEF Wait, Goes
<1>2. /\ client'[c].at = "woken" /\ client'[c].of = client[c].of
      /\ \A d \in Clients : d # c => client'[d] = client[d]
      /\ client' \in [Clients -> ClientTypes]
  BY <1>1 DEF TypeOK, ClientTypes
<1>3. TypeOK'
  BY <1>1, <1>2 DEF TypeOK, valueVars, parseVars, ClientTypes
<1>4. \A d \in Clients : Parsing(d)' <=> Parsing(d)
  BY <1>2 DEF Parsing
<1>5. \A f : EventUnderWay(f)' <=> EventUnderWay(f)
  BY <1>1 DEF EventUnderWay
<1>6. DropUnderWay' <=> DropUnderWay
  BY <1>1, <1>4, <1>5 DEF DropUnderWay, parseVars
<1>7. parser = "ended" /\ ~EventUnderWay("parsed")
  BY <1>1 DEF RequestInv, FlagInv, TypeOK
<1>8. ClientInv' /\ OnlyOne'
  BY <1>1, <1>2, <1>4 DEF ClientInv, OnlyOne
<1>9. EventInv' /\ StatusInv'
  BY <1>1, <1>4, <1>5 DEF EventInv, StatusInv, parseVars
<1>10. RequestInv'
  BY <1>1, <1>2, <1>5, <1>7 DEF RequestInv, parseVars
<1>11. FlagInv'
  BY <1>1, <1>2, <1>4, <1>5, <1>6 DEF FlagInv, parseVars
<1>12. OutdatedIsDropped'
  BY <1>1, <1>5, <1>6, StillDropped DEF parseVars
<1> QED
  BY <1>3, <1>8, <1>9, <1>10, <1>11, <1>12

-----------------------------------------------------------------------------
\* Dropping fields leaves nothing outdated in them.
LEMMA DropFacts ==
  ASSUME TypeOK, NEW fields, Drop(fields), UNCHANGED native
  PROVE  /\ cache' \in [Fields -> Versions] /\ raced' \subseteq Fields
         /\ \A f \in Fields : f \in fields => ~Outdated(f)'
         /\ \A f \in Fields : f \notin fields =>
              (Outdated(f)' <=> Outdated(f)) /\ (f \in raced' <=> f \in raced)
<1>1. \A f \in Fields : cache'[f] = IF f \in fields THEN 0 ELSE cache[f]
  BY DEF Drop
<1>2. cache' \in [Fields -> Versions]
  <2>1. 0 \in Versions
    BY BoundsAssumption DEF Versions
  <2> QED
    BY <2>1 DEF Drop, TypeOK
<1>3. raced' = raced \ fields
  BY DEF Drop
<1> QED
  BY <1>1, <1>2, <1>3 DEF Outdated, TypeOK

LEMMA ParsedStep == ASSUME IInv, NEW c \in Clients, Parsed(c) PROVE IInv'
<1> USE DEF IInv
<1>1. /\ client[c].at = "woken" /\ client' = [client EXCEPT ![c] = Idle]
      /\ PostParse
      /\ UNCHANGED <<native, bypassed, b_parsing_sync, b_parsing_async, parser,
                     refused, event, told>>
  BY DEF Parsed
<1>2. Parsing(c) /\ parser = "ended" /\ ~EventUnderWay("parsed") /\ ~refused
  BY <1>1 DEF ClientInv, RequestInv, Parsing
<1>3. "PARSED" \notin mParseStatus /\ ~told
  BY <1>2 DEF StatusInv
<1>4. mParseStatus' = {"PARSED"} /\ Drop(PostParsed)
  BY <1>1, <1>3 DEF PostParse
<1>5. \A d \in Clients : d # c => ~Parsing(d) /\ client'[d] = client[d]
  BY <1>1, <1>2 DEF OnlyOne, TypeOK
<1>6. client'[c] = Idle
  BY <1>1 DEF TypeOK
<1>7. \A d \in Clients : ~Parsing(d)'
  BY <1>5, <1>6, FieldNames DEF Parsing, Idle
<1>8. \A f : EventUnderWay(f)' <=> EventUnderWay(f)
  BY <1>1 DEF EventUnderWay
<1>9. TypeOK'
  <2>1. Idle \in ClientTypes
    BY BoundsAssumption DEF Idle, ClientTypes, Versions
  <2>2. cache' \in [Fields -> Versions] /\ raced' \subseteq Fields
    BY <1>1, <1>4, DropFacts
  <2> HIDE DEF Idle
  <2> QED
    BY <1>1, <1>4, <2>1, <2>2 DEF TypeOK, ClientTypes
<1>10. \A d \in Clients : client'[d].at \notin {"flag", "request", "accepted", "woken"}
  BY <1>5, <1>6 DEF ClientInv, Parsing, Idle
<1>11. ClientInv' /\ OnlyOne'
  BY <1>5, <1>6, <1>7 DEF ClientInv, OnlyOne, Idle
<1>12. EventInv' /\ StatusInv' /\ RequestInv'
  BY <1>1, <1>2, <1>4, <1>7, <1>8, <1>10 DEF EventInv, StatusInv, RequestInv
<1>13. FlagInv'
  <2>1. ~b_parsing_sync
    BY <1>1, <1>2, <1>5 DEF FlagInv, Parsing
  <2>2. \A r \in Raisers : event[r].of # "parsed"
    BY <1>2 DEF EventUnderWay
  <2>3. ~b_parsing_async
    <3>1. client[c].of = "sync"
      BY <1>1 DEF ClientInv
    <3> QED
      BY <3>1 DEF FlagInv
  <2> QED
    BY <1>1, <1>10, <2>1, <2>2, <2>3 DEF FlagInv
<1>14. OutdatedIsDropped'
  <2> SUFFICES ASSUME NEW f \in Fields, Outdated(f)'
               PROVE  \/ EventUnderWay(f)'
                      \/ f \in PostParsed /\ DropUnderWay'
                      \/ f \in raced' \/ refused'
                      \/ f \notin PostParsed /\ (f \in bypassed' \/ f \in Muted)
    BY DEF OutdatedIsDropped
  <2>1. f \notin PostParsed /\ Outdated(f) /\ (f \in raced' <=> f \in raced)
    BY <1>1, <1>4, DropFacts
  <2> QED
    BY <1>1, <1>8, <2>1 DEF OutdatedIsDropped
<1> QED
  BY <1>9, <1>11, <1>12, <1>13, <1>14

-----------------------------------------------------------------------------
EventTypes == [at : {"none", "raised", "dispatched"}, of : Fields \cup {"none", "parsed"}]

LEMMA ChangeStep ==
  ASSUME IInv, NEW r \in Raisers, NEW f \in Fields, Change(r, f)
  PROVE  IInv'
<1> USE DEF IInv
<1>1. /\ event[r] = NoEvent /\ native[f] < MaxVersion
      /\ r = "preparser" => parser = "parsing"
      /\ r = "input" => f \in Announced
      /\ native' = [native EXCEPT ![f] = @ + 1]
      /\ IF f \in Announced THEN Raise(r, f) ELSE UNCHANGED event
      /\ UNCHANGED <<cache, raced, bypassed, parseVars, client, told>>
  BY DEF Change
<1>2. event' \in [Raisers -> EventTypes]
  <2> DEFINE new == [at |-> "raised", of |-> f]
  <2>1. new \in EventTypes
    BY DEF EventTypes
  <2>2. event' = [event EXCEPT ![r] = new] \/ event' = event
    BY <1>1 DEF Raise
  <2> HIDE DEF new
  <2> QED
    BY <2>1, <2>2 DEF TypeOK, EventTypes
<1>3. TypeOK'
  <2>1. native' \in [Fields -> Versions]
    BY <1>1, BoundsAssumption DEF TypeOK, Versions
  <2> QED
    BY <1>1, <1>2, <2>1 DEF TypeOK, parseVars, EventTypes
<1>4. \A s \in Raisers :
         \/ event'[s] = event[s]
         \/ s = r /\ event'[s].at = "raised" /\ event'[s].of = f
  BY <1>1 DEF Raise, TypeOK
<1>5. f \notin {"none", "parsed", "sync", "async"}
  BY FieldNames
<1>6. \A g : g # "none" /\ EventUnderWay(g) => EventUnderWay(g)'
  BY <1>1, <1>4 DEF EventUnderWay, NoEvent
<1>7. EventUnderWay("parsed")' <=> EventUnderWay("parsed")
  BY <1>1, <1>4, <1>5 DEF EventUnderWay, NoEvent
<1>8. \A d \in Clients : Parsing(d)' <=> Parsing(d)
  BY <1>1 DEF Parsing
<1>9. DropUnderWay' <=> DropUnderWay
  BY <1>1, <1>7, <1>8 DEF DropUnderWay, parseVars
<1>10. ClientInv' /\ OnlyOne'
  BY <1>1, <1>8 DEF ClientInv, OnlyOne
<1>11. EventInv'
  BY <1>1, <1>4, <1>5 DEF EventInv, parseVars
<1>12. StatusInv' /\ RequestInv'
  BY <1>1, <1>7, <1>8 DEF StatusInv, RequestInv, parseVars
<1>13. FlagInv'
  <2>1. \A s \in Raisers : event'[s].of = "parsed" => event'[s] = event[s]
    BY <1>4, <1>5
  <2> QED
    BY <1>1, <1>7, <1>8, <1>9, <2>1 DEF FlagInv, parseVars
<1>14. OutdatedIsDropped'
  <2> SUFFICES ASSUME NEW g \in Fields, Outdated(g)'
               PROVE  \/ EventUnderWay(g)'
                      \/ g \in PostParsed /\ DropUnderWay'
                      \/ g \in raced' \/ refused'
                      \/ g \notin PostParsed /\ (g \in bypassed' \/ g \in Muted)
    BY DEF OutdatedIsDropped
  <2>1. CASE g = f /\ f \in Announced
    BY <1>1, <2>1 DEF EventUnderWay, Raise, TypeOK
  <2>2. CASE g = f /\ f \notin Announced
    <3>1. r = "preparser" /\ parser = "parsing" /\ f \in PostParsed
      BY <1>1, <2>2, FieldNames DEF Raisers
    <3> QED
      BY <2>2, <3>1, <1>9 DEF DropUnderWay
  <2>3. CASE g # f
    <3>1. Outdated(g)
      BY <1>1, <2>3 DEF Outdated, TypeOK
    <3> QED
      BY <1>1, <1>6, <1>9, <3>1, FieldNames DEF OutdatedIsDropped, parseVars
  <2> QED
    BY <2>1, <2>2, <2>3
<1> QED
  BY <1>3, <1>10, <1>11, <1>12, <1>13, <1>14

LEMMA ParseEndsStep == IInv /\ ParseEnds => IInv'
<1> SUFFICES ASSUME IInv, ParseEnds PROVE IInv'
  OBVIOUS
<1> USE DEF IInv
<1> DEFINE new == [at |-> "raised", of |-> "parsed"]
<1>1. /\ parser = "parsing" /\ event["preparser"] = NoEvent /\ parser' = "ended"
      /\ event' = [event EXCEPT !["preparser"] = new]
      /\ UNCHANGED <<valueVars, mParseStatus, b_parsing_sync, b_parsing_async,
                     refused, client, told>>
  BY DEF ParseEnds, Raise
<1>2. TypeOK'
  <2>1. new \in EventTypes
    BY DEF EventTypes
  <2> HIDE DEF new
  <2> QED
    BY <1>1, <2>1 DEF TypeOK, valueVars, EventTypes
<1>3. /\ event'["preparser"].of = "parsed" /\ event'["preparser"].at = "raised"
      /\ \A s \in Raisers : s # "preparser" => event'[s] = event[s]
  BY <1>1 DEF TypeOK, Raisers
<1>4. EventUnderWay("parsed")' /\ DropUnderWay'
  BY <1>3 DEF EventUnderWay, DropUnderWay, Raisers
<1>5. \A g : g # "none" /\ EventUnderWay(g) => EventUnderWay(g)'
  BY <1>1, <1>3 DEF EventUnderWay, NoEvent
<1>6. \A d \in Clients : Parsing(d)' <=> Parsing(d)
  BY <1>1 DEF Parsing
<1>7. "PARSED" \notin mParseStatus /\ mParseStatus # {}
      /\ \A s \in Raisers : event[s].of # "parsed"
  BY <1>1 DEF StatusInv, EventInv
<1>8. ClientInv' /\ OnlyOne'
  BY <1>1, <1>6 DEF ClientInv, OnlyOne
<1>9. EventInv'
  BY <1>1, <1>3, <1>7 DEF EventInv
<1>10. StatusInv' /\ RequestInv'
  BY <1>1, <1>6, <1>7 DEF StatusInv, RequestInv
<1>11. FlagInv'
  BY <1>1, <1>3, <1>4, <1>7 DEF FlagInv
<1>12. OutdatedIsDropped'
  <2>1. \A f \in Fields : EventUnderWay(f) => EventUnderWay(f)'
    BY <1>5, FieldNames
  <2>2. UNCHANGED <<native, cache, raced, bypassed>>
    BY <1>1 DEF valueVars
  <2>3. \A f \in Fields : Outdated(f)' => Outdated(f)
    BY <2>2 DEF Outdated
  <2> QED
    BY <1>1, <1>4, <2>1, <2>2, <2>3 DEF OutdatedIsDropped
<1> QED
  BY <1>2, <1>8, <1>9, <1>10, <1>11, <1>12

\* The callback of an event other than ParsedChanged.
LEMMA ChangedStep ==
  ASSUME IInv, NEW r \in Raisers, Media_event_cb(r), OnChanged(r)
  PROVE  IInv'
<1> USE DEF IInv
<1> DEFINE f == event[r].of
<1>1. /\ event[r].at = "raised" /\ f # "parsed"
      /\ UNCHANGED <<native, cache, raced, mParseStatus, parser, refused, client,
                     told, b_parsing_sync, b_parsing_async>>
  BY DEF Media_event_cb, OnChanged
<1>2. f \in Fields
  BY <1>1 DEF EventInv, TypeOK
<1>3. /\ event' \in [Raisers -> EventTypes] /\ bypassed' \subseteq Fields
      /\ \A s \in Raisers : s # r => event'[s] = event[s]
      /\ \/ event'[r].of = "none" /\ event'[r].at = "none"
         \/ event'[r].of = f /\ event'[r].at = "dispatched"
      /\ \A g \in Fields : g \in bypassed => g \in bypassed'
      /\ \/ event'[r].of = f
         \/ f \in Muted
         \/ f \in bypassed' /\ (b_parsing_sync \/ b_parsing_async)
  <2>1. NoEvent \in EventTypes
    BY DEF NoEvent, EventTypes
  <2>2. CASE Dispatched(r) /\ bypassed' = bypassed \cup {f}
             /\ (b_parsing_sync \/ b_parsing_async)
    BY <1>2, <2>1, <2>2 DEF Dispatched, TypeOK, EventTypes, NoEvent
  <2>3. CASE Dispatched(r) /\ f \in Muted /\ UNCHANGED bypassed
    BY <2>1, <2>3 DEF Dispatched, TypeOK, EventTypes, NoEvent
  <2>4. CASE Dispatching(r) /\ UNCHANGED bypassed
    <3>1. event' = [event EXCEPT ![r] = [at |-> "dispatched", of |-> f]]
      BY <2>4 DEF Dispatching
    <3>2. [at |-> "dispatched", of |-> f] \in EventTypes
      BY <1>2 DEF EventTypes
    <3> QED
      BY <2>4, <3>1, <3>2 DEF TypeOK, EventTypes
  <2> QED
    BY <2>2, <2>3, <2>4 DEF OnChanged
<1> HIDE DEF f
<1>4. TypeOK'
  BY <1>1, <1>3 DEF TypeOK, EventTypes
<1>5. f \notin {"none", "parsed"} /\ event[r].of = f
  BY <1>2, FieldNames DEF f
<1>6. EventUnderWay("parsed")' <=> EventUnderWay("parsed")
  BY <1>3, <1>5 DEF EventUnderWay
<1>7. \A g \in Fields : g # f /\ EventUnderWay(g) => EventUnderWay(g)'
  BY <1>3, <1>5 DEF EventUnderWay
<1>8. \A d \in Clients : Parsing(d)' <=> Parsing(d)
  BY <1>1 DEF Parsing
<1>9. DropUnderWay' <=> DropUnderWay
  BY <1>1, <1>6, <1>8 DEF DropUnderWay
<1>10. ClientInv' /\ OnlyOne'
  BY <1>1, <1>8 DEF ClientInv, OnlyOne
<1>11. EventInv'
  BY <1>1, <1>3, <1>5 DEF EventInv
<1>12. StatusInv' /\ RequestInv'
  BY <1>1, <1>6, <1>8 DEF StatusInv, RequestInv
<1>13. FlagInv'
  <2>1. \A s \in Raisers : event'[s].of = "parsed" => event'[s] = event[s]
    BY <1>3, <1>5
  <2> QED
    BY <1>1, <1>6, <1>8, <1>9, <2>1 DEF FlagInv
<1>14. OutdatedIsDropped'
  <2> SUFFICES ASSUME NEW g \in Fields, Outdated(g)'
               PROVE  \/ EventUnderWay(g)'
                      \/ g \in PostParsed /\ DropUnderWay'
                      \/ g \in raced' \/ refused'
                      \/ g \notin PostParsed /\ (g \in bypassed' \/ g \in Muted)
    BY DEF OutdatedIsDropped
  <2>1. Outdated(g)
    BY <1>1 DEF Outdated
  <2>2. CASE g # f
    BY <1>1, <1>3, <1>7, <1>9, <2>1, <2>2 DEF OutdatedIsDropped
  <2>3. CASE g = f
    <3>1. CASE event'[r].of = f
      BY <2>3, <3>1 DEF EventUnderWay
    <3>2. CASE f \in Muted
      BY <2>3, <3>2, FieldNames
    <3>3. CASE f \in bypassed' /\ (b_parsing_sync \/ b_parsing_async)
      <4>1. refused \/ DropUnderWay
        BY <3>3 DEF FlagInv, DropUnderWay, Parsing
      <4> QED
        BY <1>1, <1>9, <2>3, <3>3, <4>1
    <3> QED
      BY <1>3, <3>1, <3>2, <3>3
  <2> QED
    BY <2>2, <2>3
<1> QED
  BY <1>4, <1>10, <1>11, <1>12, <1>13, <1>14

\* The callback of ParsedChanged.
LEMMA ParsedChangedStep ==
  ASSUME IInv, NEW r \in Raisers, Media_event_cb(r), OnParsedChanged(r)
  PROVE  IInv'
<1> USE DEF IInv
<1>1. /\ event[r].at = "raised" /\ event[r].of = "parsed"
      /\ ~b_parsing_sync' /\ ~b_parsing_async'
      /\ b_parsing_sync' \in BOOLEAN /\ b_parsing_async' \in BOOLEAN
      /\ UNCHANGED <<native, cache, raced, bypassed, mParseStatus, parser, refused,
                     client, told>>
  BY DEF Media_event_cb, OnParsedChanged
<1>2. /\ event' \in [Raisers -> EventTypes]
      /\ \A s \in Raisers : s # r => event'[s] = event[s]
      /\ \/ b_parsing_sync /\ event'[r].of = "none" /\ event'[r].at = "none"
         \/ ~b_parsing_sync /\ event'[r].of = "parsed" /\ event'[r].at = "dispatched"
  <2>1. NoEvent \in EventTypes /\ [at |-> "dispatched", of |-> "parsed"] \in EventTypes
    BY DEF NoEvent, EventTypes
  <2>2. CASE b_parsing_sync /\ Dispatched(r)
    BY <2>1, <2>2 DEF Dispatched, TypeOK, EventTypes, NoEvent
  <2>3. CASE ~b_parsing_sync /\ Dispatching(r)
    <3>1. event' = [event EXCEPT ![r] = [at |-> "dispatched", of |-> "parsed"]]
      BY <1>1, <2>3 DEF Dispatching
    <3> QED
      BY <2>1, <2>3, <3>1 DEF TypeOK, EventTypes
  <2> QED
    BY <2>2, <2>3 DEF OnParsedChanged
<1>3. TypeOK'
  BY <1>1, <1>2 DEF TypeOK, EventTypes
<1>4. r = "preparser" /\ parser = "ended" /\ EventUnderWay("parsed") /\ ~refused
  BY <1>1 DEF EventInv, EventUnderWay, RequestInv
<1>5. \A s \in Raisers : s # r => event[s].of # "parsed"
  BY <1>4 DEF EventInv
<1>6. \A d \in Clients : Parsing(d)' <=> Parsing(d)
  BY <1>1 DEF Parsing
<1>7. \A g : g # "parsed" /\ EventUnderWay(g) => EventUnderWay(g)'
  BY <1>1, <1>2 DEF EventUnderWay
<1>8. EventUnderWay("parsed")' => EventUnderWay("parsed")
  BY <1>4
<1>9. ClientInv' /\ OnlyOne'
  BY <1>1, <1>6 DEF ClientInv, OnlyOne
<1>10. EventInv'
  BY <1>1, <1>2, <1>4 DEF EventInv
<1>11. StatusInv' /\ RequestInv'
  BY <1>1, <1>4, <1>6 DEF StatusInv, RequestInv
<1>12. b_parsing_sync => \E d \in Clients : Parsing(d)
  BY <1>4 DEF FlagInv, Parsing
<1>13. ~b_parsing_sync => \A d \in Clients : ~Parsing(d)
  <2> SUFFICES ASSUME ~b_parsing_sync, NEW d \in Clients, Parsing(d) PROVE FALSE
    OBVIOUS
  <2>1. client[d].at \in {"flag", "request", "accepted", "woken"}
    BY FieldNames DEF ClientInv, Parsing, TypeOK
  <2>2. client[d].at = "accepted"
    BY <1>4, <2>1 DEF RequestInv
  <2> QED
    BY <1>4, <2>2 DEF FlagInv
<1>14. \A d \in Clients : client[d].at # "request"
  BY <1>4 DEF RequestInv
<1>15. EventUnderWay("parsed")' => ~b_parsing_sync
  BY <1>2, <1>5 DEF EventUnderWay
<1>16. FlagInv'
  <2>1. \A d \in Clients :
          ~(client'[d].at = "accepted" /\ (parser' = "parsing" \/ EventUnderWay("parsed")'))
    BY <1>1, <1>4, <1>13, <1>15 DEF ClientInv, Parsing
  <2>2. \A s \in Raisers :
          event'[s].of = "parsed" /\ event'[s].at = "dispatched" =>
            ~b_parsing_async' /\ \A d \in Clients : ~Parsing(d)'
    BY <1>1, <1>2, <1>5, <1>6, <1>13
  <2> QED
    BY <1>1, <1>14, <2>1, <2>2 DEF FlagInv
<1>17. OutdatedIsDropped'
  <2>1. DropUnderWay'
    <3>1. CASE b_parsing_sync
      BY <1>6, <1>12, <3>1 DEF DropUnderWay
    <3>2. CASE ~b_parsing_sync
      BY <1>2, <3>2 DEF DropUnderWay, EventUnderWay
    <3> QED
      BY <3>1, <3>2
  <2>2. \A f \in Fields : EventUnderWay(f) => EventUnderWay(f)'
    BY <1>7, FieldNames
  <2>3. \A f \in Fields : Outdated(f)' => Outdated(f)
    BY <1>1 DEF Outdated
  <2> QED
    BY <1>1, <2>1, <2>2, <2>3 DEF OutdatedIsDropped
<1> QED
  BY <1>3, <1>9, <1>10, <1>11, <1>16, <1>17

LEMMA EventStep ==
  ASSUME IInv, NEW r \in Raisers, OnEventNative(r)
  PROVE  IInv'
<1> USE DEF IInv
<1> DEFINE f == event[r].of
<1>1. /\ event[r].at = "dispatched" /\ event' = [event EXCEPT ![r] = NoEvent]
      /\ UNCHANGED <<native, bypassed, b_parsing_sync, b_parsing_async, parser,
                     refused, client>>
      /\ \/ f = "parsed" /\ PostParse /\ told' = TRUE
         \/ f # "parsed" /\ Drop({f}) /\ UNCHANGED <<mParseStatus, told>>
  BY DEF OnEventNative, Dispatched
<1>2. f = "parsed" => /\ r = "preparser" /\ parser = "ended"
                      /\ EventUnderWay("parsed") /\ \A d \in Clients : ~Parsing(d)
  BY <1>1 DEF EventInv, EventUnderWay, FlagInv
<1>3. f = "parsed" => mParseStatus' = {"PARSED"} /\ Drop(PostParsed) /\ told' = TRUE
  BY <1>1, <1>2 DEF StatusInv, PostParse
<1>4. /\ event'[r].of = "none" /\ event'[r].at = "none"
      /\ \A s \in Raisers : s # r => event'[s] = event[s]
      /\ event' \in [Raisers -> EventTypes]
  <2>1. NoEvent \in EventTypes
    BY DEF NoEvent, EventTypes
  <2> QED
    BY <1>1, <2>1 DEF TypeOK, EventTypes, NoEvent
<1>5. f # "none" /\ (f # "parsed" => f \in Fields)
  BY <1>1 DEF EventInv, TypeOK
<1> HIDE DEF f
<1>6. TypeOK'
  <2>1. cache' \in [Fields -> Versions] /\ raced' \subseteq Fields
    BY <1>1, <1>3, DropFacts
  <2>2. mParseStatus' \subseteq {"PARSING", "PARSED"} /\ told' \in BOOLEAN
    BY <1>1, <1>3 DEF TypeOK
  <2> QED
    BY <1>1, <1>4, <2>1, <2>2 DEF TypeOK, EventTypes
<1>7. \A d \in Clients : Parsing(d)' <=> Parsing(d)
  BY <1>1 DEF Parsing
<1>8. \A g : g # f /\ EventUnderWay(g) => EventUnderWay(g)'
  BY <1>4 DEF EventUnderWay, f
<1>9. EventUnderWay("parsed")' => EventUnderWay("parsed")
  BY <1>4 DEF EventUnderWay
<1>10. f = "parsed" => ~EventUnderWay("parsed")'
  BY <1>2, <1>4 DEF EventUnderWay, EventInv
<1>11. ClientInv' /\ OnlyOne'
  BY <1>1, <1>7 DEF ClientInv, OnlyOne
<1>12. EventInv'
  BY <1>1, <1>4 DEF EventInv
<1>13. StatusInv'
  <2>1. CASE f = "parsed"
    BY <1>1, <1>2, <1>3, <1>7, <1>10, <2>1 DEF StatusInv
  <2>2. CASE f # "parsed"
    BY <1>1, <1>7, <1>9, <2>2 DEF StatusInv
  <2> QED
    BY <2>1, <2>2
<1>14. RequestInv'
  BY <1>1, <1>9 DEF RequestInv
<1>15. FlagInv'
  <2>1. CASE f = "parsed"
    <3>1. \A d \in Clients : client[d].at \notin {"request", "accepted"}
      BY <1>2, <2>1 DEF ClientInv, Parsing
    <3>2. ~b_parsing_sync
      BY <1>2, <2>1 DEF FlagInv, Parsing, RequestInv, EventUnderWay
    <3>3. ~b_parsing_async
      BY <1>1, <2>1 DEF FlagInv, f
    <3>4. \A s \in Raisers : event'[s].of # "parsed"
      BY <1>10, <2>1 DEF EventUnderWay
    <3> QED
      BY <1>1, <3>1, <3>2, <3>3, <3>4 DEF FlagInv
  <2>2. CASE f # "parsed"
    <3>1. DropUnderWay => DropUnderWay'
      BY <1>1, <1>7, <1>8, <2>2 DEF DropUnderWay
    <3>2. \A s \in Raisers : event'[s].of = "parsed" => event'[s] = event[s]
      BY <1>4
    <3> QED
      BY <1>1, <1>7, <1>9, <3>1, <3>2 DEF FlagInv
  <2> QED
    BY <2>1, <2>2
<1>16. OutdatedIsDropped'
  <2> SUFFICES ASSUME NEW g \in Fields, Outdated(g)'
               PROVE  \/ EventUnderWay(g)'
                      \/ g \in PostParsed /\ DropUnderWay'
                      \/ g \in raced' \/ refused'
                      \/ g \notin PostParsed /\ (g \in bypassed' \/ g \in Muted)
    BY DEF OutdatedIsDropped
  <2>1. CASE f = "parsed"
    <3>1. g \notin PostParsed /\ Outdated(g) /\ (g \in raced' <=> g \in raced)
      BY <1>1, <1>3, <2>1, DropFacts
    <3>2. EventUnderWay(g) => EventUnderWay(g)'
      BY <1>8, <2>1, FieldNames
    <3> QED
      BY <1>1, <3>1, <3>2 DEF OutdatedIsDropped
  <2>2. CASE f # "parsed"
    <3>1. g # f /\ Outdated(g) /\ (g \in raced' <=> g \in raced)
      BY <1>1, <2>2, DropFacts
    <3>2. DropUnderWay => DropUnderWay'
      BY <1>1, <1>7, <1>8, <2>2 DEF DropUnderWay
    <3> QED
      BY <1>1, <1>8, <3>1, <3>2 DEF OutdatedIsDropped
  <2> QED
    BY <2>1, <2>2
<1> QED
  BY <1>6, <1>11, <1>12, <1>13, <1>14, <1>15, <1>16

LEMMA StutterStep == IInv /\ UNCHANGED vars => IInv'
<1> SUFFICES ASSUME IInv, UNCHANGED vars PROVE IInv'
  OBVIOUS
<1> USE DEF IInv, vars, valueVars, parseVars
<1>1. TypeOK' /\ ClientInv' /\ EventInv' /\ OnlyOne'
  BY DEF TypeOK, ClientInv, EventInv, OnlyOne, Parsing
<1>2. \A f : EventUnderWay(f)' <=> EventUnderWay(f)
  BY DEF EventUnderWay
<1>3. \A c \in Clients : Parsing(c)' <=> Parsing(c)
  BY DEF Parsing
<1>4. DropUnderWay' <=> DropUnderWay
  BY <1>2, <1>3 DEF DropUnderWay
<1>5. StatusInv' /\ RequestInv' /\ FlagInv'
  BY <1>2, <1>3, <1>4 DEF StatusInv, RequestInv, FlagInv
<1>6. OutdatedIsDropped'
  BY <1>2, <1>4, StillDropped
<1> QED
  BY <1>1, <1>5, <1>6

\* The strengthened invariant is inductive.
THEOREM Inductive == Spec => []IInv
<1>1. IInv /\ [Next]_vars => IInv'
  <2> SUFFICES ASSUME IInv, [Next]_vars PROVE IInv'
    OBVIOUS
  <2>1. CASE \E c \in Clients, f \in Fields : Miss(c, f)
    BY <2>1, MissStep
  <2>2. CASE \E c \in Clients, how \in {"sync", "async"} : Gate(c, how)
    BY <2>2, GateStep
  <2>3. CASE \E c \in Clients : ClientStep(c)
    BY <2>3, AskStep, StoreStep, SetParsingStep, RequestStep, WaitStep, ParsedStep
       DEF ClientStep
  <2>4. CASE \E r \in Raisers, f \in Fields : Change(r, f)
    BY <2>4, ChangeStep
  <2>5. CASE \E r \in Raisers : Media_event_cb(r)
    <3>1. PICK r \in Raisers : Media_event_cb(r)
      BY <2>5
    <3>2. OnParsedChanged(r) \/ OnChanged(r)
      BY <3>1 DEF Media_event_cb
    <3> QED
      BY <3>1, <3>2, ParsedChangedStep, ChangedStep
  <2>6. CASE \E r \in Raisers : OnEventNative(r)
    BY <2>6, EventStep
  <2>7. CASE ParseEnds
    BY <2>7, ParseEndsStep
  <2>8. CASE UNCHANGED vars
    BY <2>8, StutterStep
  <2> QED
    BY <2>1, <2>2, <2>3, <2>4, <2>5, <2>6, <2>7, <2>8 DEF Next
<1> QED
  BY <1>1, Initially, PTL DEF Spec

\* Every variable keeps its type.
THEOREM TypeCorrect == Spec => []TypeOK
<1>1. IInv => TypeOK
  BY DEF IInv
<1> QED
  BY <1>1, Inductive, PTL

\* What is cached and outdated will be dropped, with the exceptions the
\* property names.
THEOREM CacheIsDropped == Spec => []OutdatedIsDropped
<1>1. IInv => OutdatedIsDropped
  BY DEF IInv
<1> QED
  BY <1>1, Inductive, PTL

\* libvlc parses once, and no listener hears of a synchronous parsing.
THEOREM OneParsing == Spec => []ParsedOnce
<1>1. IInv => ParsedOnce
  <2> SUFFICES ASSUME IInv PROVE ParsedOnce
    OBVIOUS
  <2>1. parser # "idle" \/ refused =>
          \A c \in Clients : client[c].at \notin {"flag", "request"}
    BY DEF IInv, RequestInv
  <2>2. told => \A c \in Clients : client[c].of # "sync"
    BY DEF IInv, StatusInv, Parsing
  <2> QED
    BY <2>1, <2>2 DEF IInv, OnlyOne, ParsedOnce
<1> QED
  BY <1>1, Inductive, PTL
=============================================================================
