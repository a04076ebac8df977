-------------------------- MODULE PlaylistManager --------------------------
(***************************************************************************)
(* The playlist of VLC for Android: PlaylistManager.kt, the list it        *)
(* listens to (MediaWrapperList.java) and the part of PlayerController.kt  *)
(* that starts, stops and expands a media.                                 *)
(*                                                                         *)
(* Everything runs on the main thread: a call, with the list callbacks it  *)
(* triggers, is one step.  The exceptions are the two places where a       *)
(* coroutine suspends and the main thread serves other calls meanwhile:    *)
(* expand() waits for the sub-items of the media that ended, fetched on    *)
(* the "vlc-player" thread, and loadLastPlaylist() waits for the saved     *)
(* list to be decoded.                                                     *)
(*                                                                         *)
(* The state is one record, so that a handler that calls others is written *)
(* as their composition.  An operator that may choose (a random index)     *)
(* returns the set of states it can end in.  status tells a main thread    *)
(* that loops forever ("hang") or died of an exception ("crash").  missed  *)
(* is history: playIndex() was given a position that is not in the list,   *)
(* and nothing was started or stopped since.  Indices are those of the     *)
(* code, from 0.  All media are audio or streams: the hand-over of a video *)
(* to its activity is not part of this module.                             *)
(***************************************************************************)
EXTENDS Integers, Sequences, SequencesExt

CONSTANTS
  Media,         \* media, named by their location
  NoMedia,       \* null
  Children,      \* the sub-items libvlc finds in a media
  Lists,         \* the lists a user loads, appends or inserts
  MaxLen,        \* bound: media in the playlist
  MaxPrevious,   \* bound: entries in the stack of played indices
  MaxExpansions, \* bound: expand() calls in flight
  RepeatChoices  \* bound: the repeat modes a user picks

ASSUME MediaAssumption == NoMedia \notin Media
ASSUME ListsAssumption ==
  /\ Children \in [Media -> Seq(Media)]
  /\ Lists \subseteq Seq(Media)
ASSUME BoundsAssumption ==
  /\ {MaxLen, MaxPrevious, MaxExpansions} \subseteq Nat
  /\ RepeatChoices \subseteq {"none", "one", "all"}

VARIABLES
  pl,         \* the playlist, the player and what is saved of them
  expansions, \* expand() calls that wait for their sub-items, oldest first
  lastList    \* the list loadLastPlaylist() is decoding, or <<>>

vars == <<pl, expansions, lastList>>

Repeats == {"none", "one", "all"}

\* Positions in a list, and -1 for none.
Index == Nat \cup {-1}

State ==
  [mediaList: Seq(Media), currentIndex: Index, nextIndex: Index, prevIndex: Index,
   previous: Seq(Index), shuffling: BOOLEAN, repeating: Repeats, expanding: BOOLEAN,
   listening: BOOLEAN, loadingLastPlaylist: BOOLEAN, loaded: Media \cup {NoMedia},
   player: {"stopped", "opening", "playing", "paused", "ended"}, heard: BOOLEAN,
   missed: BOOLEAN, status: {"ok", "hang", "crash"},
   saved: [list: Seq(Media), position: Index, song: BOOLEAN, shuffling: BOOLEAN,
           repeating: Repeats]]

TypeOK ==
  /\ pl \in State
  /\ expansions \in Seq([media: Media, stage: {"queued", "detached", "done"}])
  /\ lastList \in Seq(Media)

NothingSaved == [list |-> <<>>, position |-> 0, song |-> FALSE,
                 shuffling |-> FALSE, repeating |-> "none"]

\* A new process: the fields of the class, what is saved on the device aside.
Fresh(saved) ==
  [mediaList |-> <<>>, currentIndex |-> -1, nextIndex |-> -1, prevIndex |-> -1,
   previous |-> <<>>, shuffling |-> FALSE, repeating |-> "none",
   expanding |-> FALSE, listening |-> FALSE, loadingLastPlaylist |-> FALSE,
   loaded |-> NoMedia, player |-> "stopped", heard |-> TRUE, missed |-> FALSE,
   status |-> "ok",
   saved |-> saved]

Init ==
  /\ pl = Fresh(NothingSaved)
  /\ expansions = <<>>
  /\ lastList = <<>>

-----------------------------------------------------------------------------
(* Reading the list.                                                        *)

Size(s) == Len(s.mediaList)
IsValidPosition(s, i) == i \in 0..Size(s) - 1
GetMedia(s, i) == IF IsValidPosition(s, i) THEN s.mediaList[i + 1] ELSE NoMedia
HasCurrentMedia(s) == IsValidPosition(s, s.currentIndex)

\* What follows a handler runs in every state the handler can end in, unless
\* the main thread never comes back from it.
Then(S, Op(_)) == UNION {IF s.status = "ok" THEN Op(s) ELSE {s} : s \in S}

\* A loop of n passes, each in every state the one before it can end in.
Loop(S, n, Pass(_, _)) ==
  LET after[i \in 0..n] ==
        IF i = 0 THEN S ELSE Then(after[i - 1], LAMBDA s : Pass(s, i))
  IN after[n]

-----------------------------------------------------------------------------
(* What is saved on the device.                                             *)

SavePosition(s, reset) ==
  IF s.mediaList = <<>> THEN s
  ELSE [s EXCEPT !.saved.position = IF reset THEN 0 ELSE s.currentIndex,
                 !.saved.shuffling = s.shuffling,
                 !.saved.repeating = s.repeating]

SaveMediaList(s) ==
  IF HasCurrentMedia(s) THEN [s EXCEPT !.saved.list = s.mediaList] ELSE s

\* saveCurrentMedia(): only whether there is one is ever read back.
SaveCurrentMedia(s) ==
  [s EXCEPT !.saved.song = IsValidPosition(s, IF s.currentIndex > 0 THEN s.currentIndex ELSE 0)]

-----------------------------------------------------------------------------
(* determinePrevAndNextIndices().                                           *)

\* The entries of the stack down to the topmost one that is still a position.
Pruned(s) ==
  LET valid == {i \in DOMAIN s.previous : IsValidPosition(s, s.previous[i])}
  IN IF valid = {} THEN <<>> ELSE SubSeq(s.previous, 1, Max(valid))

Top(stack) == IF stack = <<>> THEN -1 ELSE Last(stack)

\* The test of "we've played all songs already in shuffle".
PlayedAll(s, stack) == Len(stack) + 1 = Size(s)

\* The random index: drawn until it is neither the current one nor played.
DetermineShuffled(s) ==
  LET stack == Pruned(s)
      t == [s EXCEPT !.previous = stack, !.prevIndex = Top(stack)]
  IN IF PlayedAll(s, stack) /\ s.repeating = "none"
     THEN {t}
     ELSE LET left == IF PlayedAll(s, stack) THEN <<>> ELSE stack
              free == (0..Size(s) - 1) \ ({s.currentIndex} \cup Range(left))
          IN IF free = {}
             THEN {[t EXCEPT !.previous = left, !.status = "hang"]}
             ELSE {[t EXCEPT !.previous = left, !.nextIndex = i] : i \in free}

\* Mutant of DetermineInOrder: the first item has a predecessor.
DetermineInOrderUnguarded(s) ==
  [s EXCEPT !.prevIndex = s.currentIndex - 1,
            !.nextIndex = IF s.currentIndex + 1 < Size(s) THEN s.currentIndex + 1
                          ELSE IF s.repeating = "none" THEN -1 ELSE 0]

\* Mutant of DetermineInOrder: the last item has a successor.
DetermineInOrderPastEnd(s) ==
  [s EXCEPT !.prevIndex = IF s.currentIndex > 0 THEN s.currentIndex - 1 ELSE -1,
            !.nextIndex = IF s.currentIndex < Size(s) THEN s.currentIndex + 1
                          ELSE IF s.repeating = "none" THEN -1 ELSE 0]

DetermineInOrder(s) ==
  [s EXCEPT !.prevIndex = IF s.currentIndex > 0 THEN s.currentIndex - 1 ELSE -1,
            !.nextIndex = IF s.currentIndex + 1 < Size(s) THEN s.currentIndex + 1
                          ELSE IF s.repeating = "none" THEN -1 ELSE 0]

\* Nothing was expanded.
Determine(s) ==
  LET t == [s EXCEPT !.nextIndex = -1, !.prevIndex = -1,
                     !.shuffling = s.shuffling /\ Size(s) > 2]
  IN IF s.repeating = "one"
     THEN {[t EXCEPT !.nextIndex = s.currentIndex, !.prevIndex = s.currentIndex]}
     ELSE IF t.shuffling THEN DetermineShuffled(t) ELSE {DetermineInOrder(t)}

-----------------------------------------------------------------------------
(* Playing and stopping.                                                    *)

\* player.startPlayback(): the media replaces the one of the player, and the
\* player's listener is installed.
StartPlayback(s, m) ==
  [s EXCEPT !.loaded = m, !.player = "opening", !.heard = TRUE, !.missed = FALSE]

\* playIndex(): with an index out of range the current one is reset, but
\* nothing is played, and what played goes on.
PlayIndex(s, i) ==
  IF Size(s) = 0 THEN {s}
  ELSE IF ~ IsValidPosition(s, i) THEN {[s EXCEPT !.currentIndex = 0, !.missed = TRUE]}
  ELSE LET t == StartPlayback([s EXCEPT !.currentIndex = i], GetMedia(s, i))
       IN Then(Determine(t), LAMBDA u : {SaveCurrentMedia(u)})

\* stop(): the media player is replaced by a new one; the listener is removed
\* before the list is cleared, so that no callback runs.
StopPlayback(s) ==
  LET t == IF HasCurrentMedia(s) THEN SavePosition(s, FALSE) ELSE s
  IN [t EXCEPT !.loaded = NoMedia, !.player = "stopped", !.heard = TRUE,
               !.listening = FALSE, !.previous = <<>>, !.currentIndex = -1,
               !.mediaList = <<>>, !.missed = FALSE]

\* next().
PlayNext(s) ==
  LET t == [s EXCEPT !.previous = Append(s.previous, s.currentIndex),
                     !.currentIndex = s.nextIndex]
  IN IF HasCurrentMedia(t) THEN PlayIndex(t, t.currentIndex) ELSE {StopPlayback(t)}

-----------------------------------------------------------------------------
(* MediaWrapperList, with the callbacks of PlaylistManager.                 *)

\* Mutant of Shifted: the current media itself is not shifted.
ShiftedPast(s, i, d) == IF s.currentIndex > i /\ ~ s.expanding THEN s.currentIndex + d
                                                     ELSE s.currentIndex

\* currentIndex after an item was added or removed at i.
Shifted(s, i, d) == IF s.currentIndex >= i /\ ~ s.expanding THEN s.currentIndex + d
                                                 ELSE s.currentIndex

\* Mutant of OnItemAdded: the list is not saved.
OnItemAddedUnsaved(s, i) == Determine([s EXCEPT !.currentIndex = Shifted(s, i, 1)])

OnItemAdded(s, i) ==
  Then(Determine([s EXCEPT !.currentIndex = Shifted(s, i, 1)]),
       LAMBDA t : {SaveMediaList(t)})

\* Mutant of OnItemRemoved: currentRemoved is computed after the shift.
OnItemRemovedLate(s, i) ==
  LET shifted == [s EXCEPT !.currentIndex = Shifted(s, i, -1)]
      Replace(t) == IF shifted.currentIndex # i \/ s.expanding THEN {t}
                    ELSE IF t.nextIndex # -1 THEN PlayNext(t)
                    ELSE IF t.currentIndex # -1 THEN PlayIndex(t, t.currentIndex)
                    ELSE {StopPlayback(t)}
  IN Then(Then(Determine(shifted), Replace), LAMBDA t : {SaveMediaList(t)})

\* When the current item is removed, the next one is played, or the one
\* before it, or nothing.
OnItemRemoved(s, i) ==
  LET shifted == [s EXCEPT !.currentIndex = Shifted(s, i, -1)]
      Replace(t) == IF s.currentIndex # i \/ s.expanding THEN {t}
                    ELSE IF t.nextIndex # -1 THEN PlayNext(t)
                    ELSE IF t.currentIndex # -1 THEN PlayIndex(t, t.currentIndex)
                    ELSE {StopPlayback(t)}
  IN Then(Then(Determine(shifted), Replace), LAMBDA t : {SaveMediaList(t)})

\* Mutant of OnItemMoved: a move upwards does not count the gap it leaves.
OnItemMovedNoGap(s, before, after) ==
  LET c == s.currentIndex
      moved == IF c = before THEN after
               ELSE IF c \in after..before - 1 THEN c + 1
               ELSE IF c \in before + 1..after - 1 THEN c - 1 ELSE c
  IN Then(Determine([s EXCEPT !.currentIndex = moved, !.previous = <<>>]),
          LAMBDA t : {SaveMediaList(t)})

OnItemMoved(s, before, after) ==
  LET c == s.currentIndex
      moved == IF c = before THEN IF after > before THEN after - 1 ELSE after
               ELSE IF c \in after..before - 1 THEN c + 1
               ELSE IF c \in before + 1..after - 1 THEN c - 1 ELSE c
  IN Then(Determine([s EXCEPT !.currentIndex = moved, !.previous = <<>>]),
          LAMBDA t : {SaveMediaList(t)})

\* insert(): an index outside of the list throws.
ListInsert(s, i, m) ==
  IF i \notin 0..Size(s) THEN {[s EXCEPT !.status = "crash"]}
  ELSE LET t == [s EXCEPT !.mediaList = InsertAt(s.mediaList, i + 1, m)]
       IN IF t.listening THEN OnItemAdded(t, i) ELSE {t}

ListAdd(s, m) == ListInsert(s, Size(s), m)

ListRemove(s, i) ==
  IF ~ IsValidPosition(s, i) THEN {s}
  ELSE LET t == [s EXCEPT !.mediaList = RemoveAt(s.mediaList, i + 1)]
       IN IF t.listening THEN OnItemRemoved(t, i) ELSE {t}

\* remove(location): the first occurrence that is left, as long as there is
\* one; a callback may have emptied the list meanwhile.
At(s, m) == {i \in 0..Size(s) - 1 : GetMedia(s, i) = m}

ListRemoveFirst(s, m) == IF At(s, m) = {} THEN {s} ELSE ListRemove(s, Min(At(s, m)))

ListRemoveLocation(s, m) == Loop({s}, Size(s), LAMBDA t, i : ListRemoveFirst(t, m))

ListMove(s, start, end) ==
  LET m == GetMedia(s, start)
      without == RemoveAt(s.mediaList, start + 1)
      at == IF start >= end THEN end ELSE end - 1
      t == [s EXCEPT !.mediaList = InsertAt(without, at + 1, m)]
  IN IF t.listening THEN OnItemMoved(t, start, end) ELSE {t}

\* load(): the list is filled before the listener is added.  loadLocations()
\* drops locations that are not valid, so that the list can be empty and the
\* position beyond it.
LoadList(s, list, position) ==
  LET t == [s EXCEPT !.mediaList = list, !.previous = <<>>, !.listening = FALSE]
      u == [t EXCEPT !.listening = TRUE,
                     !.currentIndex = IF IsValidPosition(t, position) THEN position ELSE 0]
  IN IF list = <<>> THEN {t}
     ELSE Then(PlayIndex(u, position), Determine)

-----------------------------------------------------------------------------
(* The calls of the user interface, the media session and the receivers.    *)

\* A call leaves the playlist in one of the states of S.
Call(S) ==
  /\ pl.status = "ok"
  /\ \E s \in S : Len(s.previous) <= MaxPrevious /\ pl' = s
  /\ UNCHANGED <<expansions, lastList>>

Load(list, position) == Call(LoadList(pl, list, position))

SkipNext == Call(PlayNext(pl))

Stop == Call({StopPlayback(pl)})

\* previous(force): whether the position allows it is left open.
Previous ==
  LET s == [pl EXCEPT !.currentIndex = pl.prevIndex,
                      !.previous = IF @ = <<>> THEN @ ELSE Front(@)]
  IN /\ pl.prevIndex # -1 /\ pl.currentIndex > 0
     /\ Call(IF HasCurrentMedia(s) THEN PlayIndex(s, s.currentIndex)
             ELSE {[s EXCEPT !.player = "stopped"]})

Shuffle ==
  Call(Determine(SavePosition([pl EXCEPT
         !.previous = IF pl.shuffling THEN <<>> ELSE @, !.shuffling = ~ @], FALSE)))

SetRepeatType(r) ==
  Call(Determine(SavePosition([pl EXCEPT !.repeating = r], FALSE)))

PlayAt(i) == Call(PlayIndex(pl, i))

\* append(), insertNext(): without a current media the list is loaded.
AppendList(list) ==
  IF ~ HasCurrentMedia(pl) THEN Call(LoadList(pl, list, 0))
  ELSE /\ Size(pl) + Len(list) <= MaxLen
       /\ Call(Loop({pl}, Len(list), LAMBDA s, i : ListAdd(s, list[i])))

InsertNext(list) ==
  LET at == pl.currentIndex
  IN IF ~ HasCurrentMedia(pl) THEN Call(LoadList(pl, list, 0))
     ELSE /\ Size(pl) + Len(list) <= MaxLen
          /\ Call(Loop({pl}, Len(list), LAMBDA s, i : ListInsert(s, at + i, list[i])))

MoveItem(start, end) ==
  /\ IsValidPosition(pl, start) /\ end \in 0..Size(pl)
  /\ Call(Then(ListMove(pl, start, end), Determine))

\* insertItem() undoes a remove().
InsertItem(i, m) ==
  /\ i \in 0..Size(pl) /\ Size(pl) < MaxLen
  /\ Call(Then(ListInsert(pl, i, m), Determine))

RemoveItem(i) ==
  /\ IsValidPosition(pl, i)
  /\ Call(Then(ListRemove(pl, i), Determine))

RemoveLocation(m) == Call(Then(ListRemoveLocation(pl, m), Determine))

Pause ==
  /\ pl.player = "playing"
  /\ Call({SavePosition([pl EXCEPT !.player = "paused"], FALSE)})

\* The Playing event: newMedia is set by every playback and never reset.
OnPlaying(s) ==
  SaveCurrentMedia(SavePosition(SaveMediaList([s EXCEPT !.player = "playing"]), TRUE))

\* play(): a paused player goes on, one that stopped or ended starts over.
Play ==
  /\ pl.mediaList # <<>> /\ pl.loaded # NoMedia
  /\ \/ pl.player = "paused" /\ Call({OnPlaying(pl)})
     \/ pl.player \in {"stopped", "ended"} /\ Call({[pl EXCEPT !.player = "opening"]})

-----------------------------------------------------------------------------
(* loadLastPlaylist().                                                      *)

\* It returns at once when nothing is saved, and the latch stays set.
LoadLastPlaylist ==
  /\ pl.status = "ok" /\ ~ pl.loadingLastPlaylist
  /\ pl' = [pl EXCEPT !.loadingLastPlaylist = TRUE]
  /\ lastList' = IF pl.saved.song THEN pl.saved.list ELSE <<>>
  /\ UNCHANGED expansions

\* The decoded list is back: the rest of the settings is read only now.
LastPlaylistDecoded ==
  /\ pl.status = "ok" /\ lastList # <<>>
  /\ \E s \in LoadList([pl EXCEPT !.shuffling = pl.saved.shuffling,
                                  !.repeating = pl.saved.repeating],
                       lastList, pl.saved.position) :
        pl' = [s EXCEPT !.loadingLastPlaylist = FALSE]
  /\ lastList' = <<>>
  /\ UNCHANGED expansions

-----------------------------------------------------------------------------
(* The events of the media player.                                          *)

\* Playing: heard only while the player's listener is installed.
PlayerPlaying ==
  /\ pl.player = "opening"
  /\ Call({IF pl.heard THEN OnPlaying(pl) ELSE [pl EXCEPT !.player = "playing"]})

PlayerError ==
  /\ pl.player \in {"opening", "playing"}
  /\ Call(IF pl.heard THEN PlayNext([pl EXCEPT !.player = "ended"])
          ELSE {[pl EXCEPT !.player = "ended"]})

\* Nothing follows what ended: it is resumed from the start of the list.
ResetAtEnd(s) == {IF s.nextIndex = -1 THEN SavePosition(s, TRUE) ELSE s}

\* EndReached, until expand() suspends.
PlayerEnd ==
  /\ pl.status = "ok" /\ pl.player = "playing"
  /\ Len(expansions) < MaxExpansions
  /\ LET s == [pl EXCEPT !.player = "ended"]
     IN IF ~ pl.heard
        THEN pl' = s /\ UNCHANGED expansions
        ELSE IF HasCurrentMedia(s)
        THEN /\ pl' = [s EXCEPT !.expanding = TRUE]
             /\ expansions' = Append(expansions, [media |-> s.loaded, stage |-> "queued"])
        ELSE /\ pl' \in Then(Then(Determine(s), ResetAtEnd), PlayNext)
             /\ UNCHANGED expansions
  /\ UNCHANGED lastList

\* The "vlc-player" thread: the player's listener is removed while the
\* sub-items are fetched and installed again afterwards.
First(stage) == {i \in DOMAIN expansions :
                   /\ expansions[i].stage = stage
                   /\ \A j \in 1..i - 1 : expansions[j].stage = "done"}

ExpandDetach ==
  \E i \in First("queued") :
    /\ expansions' = [expansions EXCEPT ![i].stage = "detached"]
    /\ pl' = [pl EXCEPT !.heard = FALSE]
    /\ UNCHANGED lastList

ExpandAttach ==
  \E i \in First("detached") :
    /\ expansions' = [expansions EXCEPT ![i].stage = "done"]
    /\ pl' = [pl EXCEPT !.heard = TRUE]
    /\ UNCHANGED lastList

\* expand() resumes: its media, by then the one at currentIndex, is replaced
\* by the sub-items.
Expand(s, children) ==
  Loop(ListRemove(s, s.currentIndex), Len(children),
       LAMBDA t, i : ListInsert(t, t.currentIndex, Reverse(children)[i]))

\* The rest of determinePrevAndNextIndices(true) and of the EndReached handler.
ExpandResume ==
  /\ pl.status = "ok"
  /\ expansions # <<>> /\ Head(expansions).stage = "done"
  /\ LET children == Children[Head(expansions).media]
         Found(s) == {[s EXCEPT !.nextIndex = s.currentIndex, !.prevIndex = -1,
                                !.expanding = FALSE]}
         S == IF children = <<>> THEN Determine([pl EXCEPT !.expanding = FALSE])
              ELSE Then(Expand(pl, children), Found)
     IN \E s \in Then(Then(S, ResetAtEnd), PlayNext) :
          /\ Len(s.previous) <= MaxPrevious /\ Size(s) <= MaxLen
          /\ pl' = s
  /\ expansions' = Tail(expansions)
  /\ UNCHANGED lastList

-----------------------------------------------------------------------------
\* The process is killed and started again; only what was saved is left.
Restart ==
  /\ pl.saved.song
  /\ pl' = Fresh(pl.saved)
  /\ expansions' = <<>>
  /\ lastList' = <<>>

Edit ==
  \/ \E list \in Lists : AppendList(list) \/ InsertNext(list)
  \/ \E i, j \in 0..MaxLen : MoveItem(i, j)
  \/ \E i \in 0..MaxLen, m \in Media : InsertItem(i, m)

Delete ==
  \/ \E i \in 0..MaxLen : RemoveItem(i)
  \/ \E m \in Media : RemoveLocation(m)

User ==
  \/ \E list \in Lists, i \in -1..MaxLen : Load(list, i)
  \/ SkipNext \/ Previous \/ Stop \/ Shuffle \/ Pause \/ Play
  \/ \E r \in RepeatChoices : SetRepeatType(r)
  \/ \E i \in -1..MaxLen : PlayAt(i)

Player == PlayerPlaying \/ PlayerError \/ PlayerEnd

Expansion == ExpandDetach \/ ExpandAttach \/ ExpandResume

Session == User \/ Edit \/ Delete \/ Player \/ Expansion

Next == Session \/ Restart \/ LoadLastPlaylist \/ LastPlaylistDecoded

Spec == Init /\ [][Next]_vars

\* One process that never resumes a saved playlist, for what it can be checked
\* of longer lists.
SessionSpec == Init /\ [][Session]_vars
-----------------------------------------------------------------------------
(* Properties.                                                              *)

\* Neither expand() nor the main thread is busy.
Settled == pl.status = "ok" /\ ~ pl.expanding /\ expansions = <<>>

\* Whatever is loaded, inserted, moved, removed, expanded or resumed, currentIndex
\* follows the media that the player plays (PlaylistManager.kt:325-351, :412-424).
\* Two cases are not covered, in which the code leaves the old media playing:
\* playIndex() with a position out of the list (:227-234), until something is
\* started or stopped, and a manager that does not listen to its list since an
\* empty one was loaded (:97-105).
CurrentIsPlaying ==
  Settled /\ pl.listening /\ ~ pl.missed
  /\ pl.player \in {"opening", "playing", "paused"}
    => GetMedia(pl, pl.currentIndex) = pl.loaded

\* What next() and previous() would play is in the list, also after the list
\* shrank or grew under them or the position was out of it, for a manager that
\* listens to its list (PlaylistManager.kt:433-495).
NeighboursValid ==
  Settled /\ pl.listening /\ HasCurrentMedia(pl)
    => \A i \in {pl.nextIndex, pl.prevIndex} : i = -1 \/ IsValidPosition(pl, i)

\* Removing an item other than the current one does not disturb the playback
\* (PlaylistManager.kt:335-351).
RemovalKeepsPlaying ==
  [][Settled /\ Size(pl') < Size(pl) =>
       \A i \in 0..MaxLen : RemoveItem(i) /\ i # pl.currentIndex
         => pl'.loaded = pl.loaded /\ pl'.player = pl.player]_vars

\* The list on the device is the one that plays, so that it survives the
\* process, the first one and one that resumes it (saveMediaList,
\* PlaylistManager.kt:401-410), with the same two exceptions as
\* CurrentIsPlaying: what plays is then not of the list.
SavedListIsPlayed ==
  Settled /\ pl.listening /\ ~ pl.missed /\ pl.player = "playing" /\ pl.heard
    => pl.saved.list = pl.mediaList

\* The comment on shuffle (PlaylistManager.kt:466-467): with all songs played,
\* "either reshuffle or stop"; the search for a random index ends.
ShuffleEnds == pl.status # "hang"

\* The comment on expand() (PlaylistManager.kt:497-500): "Expand the current
\* media".  So when there are sub-items to put in the place of the current media,
\* that is the media they were fetched of.
ExpandsCurrentMedia ==
  \A i \in DOMAIN expansions :
     expansions[i].stage = "done" /\ Children[expansions[i].media] # <<>>
       /\ HasCurrentMedia(pl) /\ ~ pl.missed
       => GetMedia(pl, pl.currentIndex) = expansions[i].media
=============================================================================
