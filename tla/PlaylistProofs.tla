--------------------------- MODULE PlaylistProofs ---------------------------
(***************************************************************************)
(* Theorems about PlaylistManager, for lists of any length: its types, its *)
(* neighbours, the list on the device and the media that plays.            *)
(*                                                                         *)
(* A handler is an operator on states, so that most lemmas say what a      *)
(* handler makes of a state.  The relations they use are, from the         *)
(* strongest to the weakest, Same, Steady, Keeps and Follows; Plays is     *)
(* what a playback that starts or stops ends in.  What a loop of handlers  *)
(* ends in is shown by the least pass that would leave a set of states.    *)
(***************************************************************************)
EXTENDS PlaylistManager, FiniteSetTheorems, WellFoundedInduction, TLAPS

Saved == [list: Seq(Media), position: Index, song: BOOLEAN, shuffling: BOOLEAN,
          repeating: Repeats]

\* t is s but for the neighbours, the stack, the modes and what is saved.
Steady(s, t) ==
  /\ t \in State
  /\ t.mediaList = s.mediaList /\ t.currentIndex = s.currentIndex
  /\ t.loaded = s.loaded /\ t.player = s.player /\ t.heard = s.heard
  /\ t.listening = s.listening /\ t.expanding = s.expanding /\ t.missed = s.missed
  /\ s.status # "ok" => t.status # "ok"
  /\ t.saved.list = s.saved.list \/ t.saved.list = s.mediaList

\* t is s but for the modes and what is saved.
Same(s, t) ==
  /\ Steady(s, t) /\ t.status = s.status
  /\ t.nextIndex = s.nextIndex /\ t.prevIndex = s.prevIndex

Neighbours(t) ==
  \A i \in {t.nextIndex, t.prevIndex} : i = -1 \/ IsValidPosition(t, i)

\* Next and previous are known, if there is something current.
Pointed(t) == t.status = "ok" /\ t.listening /\ HasCurrentMedia(t) => Neighbours(t)

\* Only a player that stopped may have no media.
Loaded(s) == s.player # "stopped" => s.loaded \in Media

\* There is something at the position, and unless playIndex() missed it, it is
\* the media of the player, whatever the player does.
Followed(s) ==
  s.status = "ok" /\ s.listening
    => /\ GetMedia(s, s.currentIndex) \in Media
       /\ ~ s.missed => GetMedia(s, s.currentIndex) = s.loaded

\* And the list that plays is the one on the device.
Good(s) ==
  /\ Followed(s)
  /\ s.status = "ok" /\ s.listening /\ ~ s.missed /\ s.player = "playing" /\ s.heard
       => s.saved.list = s.mediaList

\* An edit that made t of s did not lose track of what plays.
Follows(s, t) ==
  /\ t \in State /\ t.expanding = s.expanding
  /\ Loaded(s) => Loaded(t)
  /\ ~ s.expanding /\ Followed(s) => Followed(t)

\* Nor did the copy on the device.
Keeps(s, t) ==
  /\ t \in State /\ t.expanding = s.expanding
  /\ Loaded(s) => Loaded(t)
  /\ ~ s.expanding /\ Good(s) => Good(t)

\* What is left of a playback that was started or stopped.
Plays(s, t) ==
  /\ t \in State /\ t.expanding = s.expanding
  /\ Loaded(t) /\ Good(t) /\ Pointed(t)

\* The media at position i of a list, as GetMedia has it.
MediaAt(l, i) == IF i \in 0..Len(l) - 1 THEN l[i + 1] ELSE NoMedia

LEMMA GetMediaAt ==
  \A t : GetMedia(t, t.currentIndex) = MediaAt(t.mediaList, t.currentIndex)
BY DEF GetMedia, IsValidPosition, Size, MediaAt

-----------------------------------------------------------------------------
(* The relations.                                                           *)

LEMMA SteadyTwice ==
  ASSUME NEW s, NEW t, NEW u, Steady(s, t), Steady(t, u)
  PROVE  Steady(s, u)
BY DEF Steady

LEMMA SteadyFollowed ==
  ASSUME NEW s, NEW t, Steady(s, t)
  PROVE  /\ Followed(s) => Followed(t)
         /\ Good(s) => Good(t)
         /\ Loaded(s) => Loaded(t)
         /\ HasCurrentMedia(s) = HasCurrentMedia(t)
<1>1. GetMedia(s, s.currentIndex) = GetMedia(t, t.currentIndex)
  BY GetMediaAt DEF Steady
<1>2. Followed(s) => Followed(t)
  BY <1>1 DEF Steady, Followed
<1>3. Good(s) => Good(t)
  BY <1>2 DEF Steady, Good
<1> QED BY <1>2, <1>3 DEF Steady, Loaded, HasCurrentMedia, IsValidPosition, Size

LEMMA SteadyKeeps ==
  ASSUME NEW s, NEW t, Steady(s, t)
  PROVE  Keeps(s, t) /\ Follows(s, t)
<1>1. t \in State /\ t.expanding = s.expanding
  BY DEF Steady
<1> QED BY <1>1, SteadyFollowed DEF Keeps, Follows

LEMMA KeepsTwice ==
  ASSUME NEW s, NEW t, NEW u, Keeps(s, t), Keeps(t, u)
  PROVE  Keeps(s, u)
BY DEF Keeps

LEMMA FollowsTwice ==
  ASSUME NEW s, NEW t, NEW u, Follows(s, t), Follows(t, u)
  PROVE  Follows(s, u)
BY DEF Follows

\* A main thread that does not come back owes nothing.
LEMMA DeadKeeps ==
  ASSUME NEW s, NEW t \in State, t.expanding = s.expanding,
         Loaded(s) => Loaded(t), t.status # "ok"
  PROVE  Keeps(s, t)
BY DEF Keeps, Good, Followed

-----------------------------------------------------------------------------
(* Positions and the stack of played indices.                               *)

\* A set of positions that is not empty has a least one and a greatest one.
LEMMA LeastOfPositions ==
  ASSUME NEW S, S \subseteq Nat, S # {}
  PROVE  \E k \in S : \A y \in S : k <= y
<1>1. PICK k \in S : \A y \in S : ~ (<<y, k>> \in OpToRel(<, Nat))
  BY NatLessThanWellFounded, WFMin
<1>2. \A y \in S : ~ (y < k)
  BY <1>1 DEF OpToRel
<1> QED BY <1>2

LEMMA MaxOfPositions ==
  ASSUME NEW n \in Nat, NEW S, S \subseteq 1..n, S # {}
  PROVE  Max(S) \in S
<1> DEFINE T == {y \in 0..n : n - y \in S}
<1>1. T \subseteq Nat
  OBVIOUS
<1>2. \A x \in S : x \in Nat /\ n - x \in T
  OBVIOUS
<1>3. T # {}
  BY <1>2
<1>4. PICK k \in T : \A y \in T : k <= y
  BY <1>1, <1>3, LeastOfPositions
<1>5. n - k \in S
  OBVIOUS
<1>6. ASSUME NEW x \in S PROVE n - k >= x
  <2>1. k \in Nat /\ x \in Nat /\ k <= n - x
    BY <1>1, <1>2, <1>4
  <2> QED BY <2>1
<1> QED BY <1>5, <1>6 DEF Max

LEMMA PrefixOfStack ==
  ASSUME NEW p \in Seq(Index), NEW n \in DOMAIN p
  PROVE  LET q == SubSeq(p, 1, n)
         IN q \in Seq(Index) /\ q # <<>> /\ Last(q) = p[n]
<1> DEFINE q == SubSeq(p, 1, n)
<1>1. n \in 1..Len(p) /\ Len(p) \in Nat /\ \A k \in 1..n : p[k] \in Index
  OBVIOUS
<1>2. q = [k \in 1..n |-> p[k]]
  BY <1>1
<1>3. Len(q) = n /\ q[n] = p[n] /\ q \in Seq(Index)
  BY <1>1, <1>2
<1> QED BY <1>1, <1>3 DEF Last

LEMMA TopIsPosition ==
  ASSUME NEW s \in State
  PROVE  /\ Pruned(s) \in Seq(Index)
         /\ Top(Pruned(s)) = -1 \/ IsValidPosition(s, Top(Pruned(s)))
<1> DEFINE valid == {i \in DOMAIN s.previous : IsValidPosition(s, s.previous[i])}
           p == s.previous
<1>1. p \in Seq(Index) /\ Len(p) \in Nat /\ DOMAIN p = 1..Len(p)
  BY DEF State
<1>2. CASE valid = {}
  BY <1>2 DEF Pruned, Top
<1>3. CASE valid # {}
  <2>1. Max(valid) \in valid
    BY <1>1, <1>3, MaxOfPositions
  <2>2. Pruned(s) = SubSeq(p, 1, Max(valid))
    BY <1>3 DEF Pruned
  <2>3. Pruned(s) \in Seq(Index) /\ Pruned(s) # <<>> /\ Last(Pruned(s)) = p[Max(valid)]
    BY <1>1, <2>1, <2>2, PrefixOfStack
  <2>5. IsValidPosition(s, p[Max(valid)])
    BY <2>1
  <2> QED BY <2>3, <2>5 DEF Top
<1> QED BY <1>2, <1>3

-----------------------------------------------------------------------------
(* determinePrevAndNextIndices().                                           *)

LEMMA ShuffledSteady ==
  ASSUME NEW s \in State
  PROVE  \A t \in DetermineShuffled(s) : Steady(s, t) /\ (s.nextIndex = -1 => Neighbours(t))
<1> DEFINE stack == Pruned(s)
           t == [s EXCEPT !.previous = stack, !.prevIndex = Top(stack)]
           left == IF PlayedAll(s, stack) THEN <<>> ELSE stack
           free == (0..Size(s) - 1) \ ({s.currentIndex} \cup Range(left))
           top == Top(stack)
<1>1. stack \in Seq(Index) /\ left \in Seq(Index)
  BY TopIsPosition
<1>2. Size(s) \in Nat /\ top \in Index /\ (top = -1 \/ top \in 0..Size(s) - 1)
  <2>1. Size(s) \in Nat
    BY DEF Size, State
  <2> QED BY <2>1, TopIsPosition DEF IsValidPosition, Index
<1>3. free \subseteq 0..Size(s) - 1 /\ free \subseteq Index
  BY <1>2 DEF Index
<1>4. \A t2 \in DetermineShuffled(s) :
        \/ t2 = t
        \/ t2 = [t EXCEPT !.previous = left, !.status = "hang"]
        \/ \E i \in free : t2 = [t EXCEPT !.previous = left, !.nextIndex = i]
  BY DEF DetermineShuffled
<1>5. t = [s EXCEPT !.previous = stack, !.prevIndex = top]
  OBVIOUS
<1> HIDE DEF stack, left, free, top, t
<1>6. t \in State /\ Steady(s, t) /\ t.nextIndex = s.nextIndex /\ t.prevIndex = top
  BY <1>1, <1>2, <1>5 DEF State, Steady
<1>7. LET h == [t EXCEPT !.previous = left, !.status = "hang"]
      IN Steady(s, h) /\ h.nextIndex = s.nextIndex /\ h.prevIndex = top
  BY <1>1, <1>6 DEF State, Steady
<1>8. ASSUME NEW i \in free
      PROVE  LET h == [t EXCEPT !.previous = left, !.nextIndex = i]
             IN Steady(s, h) /\ h.nextIndex = i /\ h.prevIndex = top
  <2>1. i \in Index
    BY <1>3
  <2> QED BY <1>1, <1>6, <2>1 DEF State, Steady
<1>9. ASSUME NEW h, Steady(s, h), h.prevIndex = top,
             h.nextIndex = s.nextIndex \/ h.nextIndex \in free
      PROVE  s.nextIndex = -1 => Neighbours(h)
  BY <1>2, <1>3, <1>9 DEF Neighbours, IsValidPosition, Size, Steady
<1> DEFINE hang == [t EXCEPT !.previous = left, !.status = "hang"]
           drawn(i) == [t EXCEPT !.previous = left, !.nextIndex = i]
           Wanted(h) == Steady(s, h) /\ (s.nextIndex = -1 => Neighbours(h))
<1>10. Wanted(t)
  BY <1>6, <1>9
<1>11. Wanted(hang)
  BY <1>7, <1>9
<1>12. \A i \in free : Wanted(drawn(i))
  BY <1>8, <1>9
<1>13. \A t2 \in DetermineShuffled(s) :
         t2 = t \/ t2 = hang \/ \E i \in free : t2 = drawn(i)
  BY <1>4
<1>14. \A t2 \in DetermineShuffled(s) : Wanted(t2)
  <2> HIDE DEF hang, drawn, Wanted
  <2> QED BY <1>10, <1>11, <1>12, <1>13
<1> QED BY <1>14

LEMMA InOrderSteady ==
  ASSUME NEW s \in State
  PROVE  LET t == DetermineInOrder(s)
         IN Steady(s, t) /\ (HasCurrentMedia(s) => Neighbours(t))
<1>1. Size(s) \in Nat /\ s.currentIndex \in Index
  BY DEF Size, State
<1> DEFINE p == IF s.currentIndex > 0 THEN s.currentIndex - 1 ELSE -1
           n == IF s.currentIndex + 1 < Size(s) THEN s.currentIndex + 1
                ELSE IF s.repeating = "none" THEN -1 ELSE 0
<1>2. p \in Index /\ n \in Index
  BY <1>1 DEF Index
<1>3. HasCurrentMedia(s) =>
        (p = -1 \/ p \in 0..Size(s) - 1) /\ (n = -1 \/ n \in 0..Size(s) - 1)
  BY <1>1 DEF HasCurrentMedia, IsValidPosition, Index
<1>4. DetermineInOrder(s) = [s EXCEPT !.prevIndex = p, !.nextIndex = n]
  BY DEF DetermineInOrder
<1> HIDE DEF p, n
<1> DEFINE t == [s EXCEPT !.prevIndex = p, !.nextIndex = n]
<1>5. Steady(s, t) /\ t.prevIndex = p /\ t.nextIndex = n
  BY <1>2 DEF State, Steady
<1> QED BY <1>3, <1>4, <1>5 DEF Neighbours, IsValidPosition, Size, Steady

\* Whatever mode is on, determinePrevAndNextIndices() leaves the list, the
\* current position and the player alone.
LEMMA DetermineSteady ==
  ASSUME NEW s \in State
  PROVE  \A t \in Determine(s) : Steady(s, t) /\ (HasCurrentMedia(s) => Neighbours(t))
<1> DEFINE b == s.shuffling /\ Size(s) > 2
           nowhere == -1
           u == [s EXCEPT !.nextIndex = nowhere, !.prevIndex = nowhere, !.shuffling = b]
           v == [u EXCEPT !.nextIndex = s.currentIndex, !.prevIndex = s.currentIndex]
<1>1. u \in State /\ Steady(s, u) /\ u.nextIndex = nowhere /\ u.repeating = s.repeating
  <2>1. b \in BOOLEAN
    OBVIOUS
  <2>2. nowhere \in Index
    BY DEF Index
  <2>3. u = [s EXCEPT !.nextIndex = nowhere, !.prevIndex = nowhere, !.shuffling = b]
    OBVIOUS
  <2> HIDE DEF b, u, nowhere
  <2>4. u \in State /\ u.nextIndex = nowhere /\ u.repeating = s.repeating
    BY <2>1, <2>2, <2>3 DEF State
  <2>5. Steady(s, u)
    BY <2>3, <2>4 DEF State, Steady
  <2> QED BY <2>4, <2>5
<1>2. /\ Steady(s, v) /\ v.nextIndex = s.currentIndex /\ v.prevIndex = s.currentIndex
      /\ v.mediaList = s.mediaList
  <2>1. s.currentIndex \in Index
    BY DEF State
  <2> HIDE DEF u
  <2> QED BY <1>1, <2>1 DEF State, Steady
<1>3. Determine(s) = IF s.repeating = "one" THEN {v}
                     ELSE IF u.shuffling THEN DetermineShuffled(u) ELSE {DetermineInOrder(u)}
  BY DEF Determine
<1>4. HasCurrentMedia(s) = HasCurrentMedia(u)
  BY <1>1, SteadyFollowed
<1> HIDE DEF u, v
<1>5. CASE s.repeating = "one"
  BY <1>2, <1>3, <1>5 DEF Neighbours, HasCurrentMedia, IsValidPosition, Size
<1>6. CASE s.repeating # "one" /\ u.shuffling
  BY <1>1, <1>3, <1>6, ShuffledSteady, SteadyTwice
<1>7. CASE s.repeating # "one" /\ ~ u.shuffling
  BY <1>1, <1>3, <1>4, <1>7, InOrderSteady, SteadyTwice
<1> QED BY <1>5, <1>6, <1>7

LEMMA DeterminePointed ==
  ASSUME NEW s \in State
  PROVE  \A t \in Determine(s) : Steady(s, t) /\ Pointed(t)
BY DetermineSteady, SteadyFollowed DEF Pointed

\* In every mode, in order, repeating or shuffling, the next and the previous
\* position of a list with a current media are positions of the list or -1
\* (PlaylistManager.kt:433-495).
THEOREM NeighboursDetermined ==
  ASSUME NEW s \in State, HasCurrentMedia(s)
  PROVE  \A t \in Determine(s) :
           \A i \in {t.nextIndex, t.prevIndex} : i = -1 \/ IsValidPosition(t, i)
BY DetermineSteady DEF Neighbours

LEMMA DrawLeft ==
  ASSUME NEW n \in Nat, NEW c, NEW q \in Seq(Index), Len(q) + 1 < n
  PROVE  (0..n - 1) \ ({c} \cup Range(q)) # {}
<1> SUFFICES ASSUME 0..n - 1 \subseteq {c} \cup Range(q)
             PROVE  FALSE
  OBVIOUS
<1> DEFINE f == [i \in 0..n - 1 |->
                   IF i = c THEN 0 ELSE CHOOSE k \in DOMAIN q : q[k] = i]
<1>1. Len(q) \in Nat /\ DOMAIN q = 1..Len(q)
  OBVIOUS
<1>2. \A i \in 0..n - 1 : IF i = c THEN f[i] = 0
                          ELSE f[i] \in 1..Len(q) /\ q[f[i]] = i
  BY <1>1 DEF Range
<1>3. f \in [0..n - 1 -> 0..Len(q)]
  BY <1>1, <1>2
<1>4. \A i, j \in 0..n - 1 : f[i] = f[j] => i = j
  BY <1>1, <1>2
<1>5. /\ IsFiniteSet(0..n - 1) /\ Cardinality(0..n - 1) = n
      /\ IsFiniteSet(0..Len(q)) /\ Cardinality(0..Len(q)) = Len(q) + 1
  BY <1>1, FS_Interval
<1> HIDE DEF f
<1>6. \E i, j \in 0..n - 1 : i # j /\ f[i] = f[j]
  BY <1>3, <1>5, FS_PigeonHole
<1> QED BY <1>4, <1>6

LEMMA DrawEnds ==
  ASSUME NEW s \in State, s.status = "ok", Len(Pruned(s)) < Size(s), Size(s) > 2
  PROVE  \A t \in DetermineShuffled(s) : t.status = "ok"
<1> DEFINE stack == Pruned(s)
           t == [s EXCEPT !.previous = stack, !.prevIndex = Top(stack)]
           left == IF PlayedAll(s, stack) THEN <<>> ELSE stack
           free == (0..Size(s) - 1) \ ({s.currentIndex} \cup Range(left))
           last == PlayedAll(s, stack) /\ s.repeating = "none"
           hang == [t EXCEPT !.previous = left, !.status = "hang"]
           drawn(i) == [t EXCEPT !.previous = left, !.nextIndex = i]
<1>1. DetermineShuffled(s) =
        IF last THEN {t} ELSE IF free = {} THEN {hang} ELSE {drawn(i) : i \in free}
  BY DEF DetermineShuffled
<1>2. t.status = "ok" /\ \A i : drawn(i).status = "ok"
  BY DEF State
<1>3. Size(s) \in Nat /\ stack \in Seq(Index) /\ Len(stack) \in Nat
  BY TopIsPosition DEF Size, State
<1>4. left \in Seq(Index) /\ Len(left) + 1 < Size(s)
  BY <1>3 DEF PlayedAll
<1>5. free # {}
  BY <1>3, <1>4, DrawLeft
<1> HIDE DEF t, left, free, last, hang, drawn
<1> QED BY <1>1, <1>2, <1>5

\* The search for a random index (PlaylistManager.kt:478-481) ends whenever the
\* stack of played indices has fewer entries than the list: what ShuffleEnds
\* says of every state needs a stack that never gets as long as the list.
THEOREM SearchEnds ==
  ASSUME NEW s \in State, s.status = "ok", Len(Pruned(s)) < Size(s)
  PROVE  \A t \in Determine(s) : t.status = "ok"
<1> DEFINE nowhere == -1
           b == s.shuffling /\ Size(s) > 2
           u == [s EXCEPT !.nextIndex = nowhere, !.prevIndex = nowhere, !.shuffling = b]
           once == [u EXCEPT !.nextIndex = s.currentIndex, !.prevIndex = s.currentIndex]
<1>1. Determine(s) = IF s.repeating = "one" THEN {once}
                     ELSE IF u.shuffling THEN DetermineShuffled(u) ELSE {DetermineInOrder(u)}
  BY DEF Determine
<1>2. /\ u \in State /\ u.status = "ok" /\ u.shuffling = b
      /\ u.previous = s.previous /\ u.mediaList = s.mediaList
  <2>1. b \in BOOLEAN
    OBVIOUS
  <2>2. nowhere \in Index
    BY DEF Index
  <2>3. u = [s EXCEPT !.nextIndex = nowhere, !.prevIndex = nowhere, !.shuffling = b]
    OBVIOUS
  <2> HIDE DEF b, u, nowhere
  <2> QED BY <2>1, <2>2, <2>3 DEF State
<1>3. once.status = "ok" /\ DetermineInOrder(u).status = "ok"
  <2> HIDE DEF u
  <2> QED BY <1>2 DEF State, DetermineInOrder
<1> HIDE DEF u, once
<1>4. Size(u) = Size(s) /\ Pruned(u) = Pruned(s)
  BY <1>2 DEF Size, Pruned, IsValidPosition
<1>5. u.shuffling => \A t \in DetermineShuffled(u) : t.status = "ok"
  BY <1>2, <1>4, DrawEnds
<1> QED BY <1>1, <1>3, <1>5

-----------------------------------------------------------------------------
(* Editing the list.                                                        *)

LEMMA ConcatElement ==
  ASSUME NEW p \in Seq(Media), NEW q \in Seq(Media)
  PROVE  /\ p \o q \in Seq(Media) /\ Len(p \o q) = Len(p) + Len(q)
         /\ \A k \in 1..Len(p) + Len(q) :
              (p \o q)[k] = IF k <= Len(p) THEN p[k] ELSE q[k - Len(p)]
OBVIOUS

LEMMA PartElement ==
  ASSUME NEW l \in Seq(Media), NEW i \in 1..Len(l) + 1, NEW j \in 0..Len(l), i <= j + 1
  PROVE  /\ SubSeq(l, i, j) \in Seq(Media) /\ Len(SubSeq(l, i, j)) = j - i + 1
         /\ \A k \in 1..j - i + 1 : SubSeq(l, i, j)[k] = l[k + i - 1]
<1>1. Len(l) \in Nat /\ \A k \in 1..Len(l) : l[k] \in Media
  OBVIOUS
<1> DEFINE n == j - i + 1
           part == [k \in 1..n |-> l[k + i - 1]]
<1>2. SubSeq(l, i, j) = part
  BY <1>1
<1>3. n \in Nat /\ \A k \in 1..n : l[k + i - 1] \in Media
  BY <1>1
<1>4. part \in Seq(Media) /\ Len(part) = n
  <2>1. part \in [1..n -> Media]
    BY <1>3
  <2> HIDE DEF n
  <2>2. DOMAIN part = 1..n
    OBVIOUS
  <2> HIDE DEF part
  <2> QED BY <1>3, <2>1, <2>2
<1> QED BY <1>2, <1>4

LEMMA InsertElement ==
  ASSUME NEW l \in Seq(Media), NEW i \in 0..Len(l), NEW m \in Media
  PROVE  LET r == InsertAt(l, i + 1, m)
         IN /\ r \in Seq(Media) /\ Len(r) = Len(l) + 1
            /\ \A k \in 1..Len(l) + 1 :
                 r[k] = IF k <= i THEN l[k] ELSE IF k = i + 1 THEN m ELSE l[k - 1]
<1> DEFINE a == SubSeq(l, 1, (i + 1) - 1)
           z == SubSeq(l, i + 1, Len(l))
           b == a \o <<m>>
           r == b \o z
<1>1. InsertAt(l, i + 1, m) = r
  BY DEF InsertAt
<1>2. Len(l) \in Nat /\ i \in Nat /\ (i + 1) - 1 = i
  OBVIOUS
<1>3. a \in Seq(Media) /\ Len(a) = i /\ \A k \in 1..i : a[k] = l[k]
  BY <1>2, PartElement
<1>4. /\ z \in Seq(Media) /\ Len(z) = Len(l) - i
      /\ \A k \in 1..Len(l) - i : z[k] = l[k + i]
  BY <1>2, PartElement
<1> HIDE DEF a, z
<1>5. b \in Seq(Media) /\ Len(b) = i + 1 /\ b[i + 1] = m /\ \A k \in 1..i : b[k] = l[k]
  BY <1>2, <1>3
<1> HIDE DEF b
<1>6. /\ r \in Seq(Media) /\ Len(r) = Len(l) + 1
      /\ \A k \in 1..Len(l) + 1 : r[k] = IF k <= i + 1 THEN b[k] ELSE z[k - (i + 1)]
  BY <1>2, <1>4, <1>5, ConcatElement
<1> HIDE DEF r
<1>7. ASSUME NEW k \in 1..Len(l) + 1
      PROVE  r[k] = IF k <= i THEN l[k] ELSE IF k = i + 1 THEN m ELSE l[k - 1]
  <2>1. CASE k <= i + 1
    BY <1>2, <1>5, <1>6, <2>1
  <2>2. CASE k > i + 1
    <3>1. k - (i + 1) \in 1..Len(l) - i /\ k - (i + 1) + i = k - 1
      BY <1>2, <2>2
    <3>2. r[k] = z[k - (i + 1)] /\ ~ (k <= i) /\ k # i + 1
      BY <1>2, <1>6, <2>2
    <3>3. z[k - (i + 1)] = l[k - 1]
      BY <1>4, <3>1
    <3> QED BY <3>2, <3>3
  <2> QED BY <2>1, <2>2
<1> QED BY <1>1, <1>6, <1>7

LEMMA RemoveElement ==
  ASSUME NEW l \in Seq(Media), NEW i \in 0..Len(l) - 1
  PROVE  LET r == RemoveAt(l, i + 1)
         IN /\ r \in Seq(Media) /\ Len(r) = Len(l) - 1
            /\ \A k \in 1..Len(l) - 1 : r[k] = IF k <= i THEN l[k] ELSE l[k + 1]
<1> DEFINE a == SubSeq(l, 1, (i + 1) - 1)
           z == SubSeq(l, i + 1 + 1, Len(l))
           r == a \o z
<1>1. RemoveAt(l, i + 1) = r
  BY DEF RemoveAt
<1>2. Len(l) \in Nat /\ i \in Nat /\ (i + 1) - 1 = i
  OBVIOUS
<1>3. a \in Seq(Media) /\ Len(a) = i /\ \A k \in 1..i : a[k] = l[k]
  BY <1>2, PartElement
<1>4. /\ z \in Seq(Media) /\ Len(z) = Len(l) - i - 1
      /\ \A k \in 1..Len(l) - i - 1 : z[k] = l[k + i + 1]
  BY <1>2, PartElement
<1> HIDE DEF a, z
<1>5. /\ r \in Seq(Media) /\ Len(r) = Len(l) - 1
      /\ \A k \in 1..Len(l) - 1 : r[k] = IF k <= i THEN a[k] ELSE z[k - i]
  <2>1. Len(a) + Len(z) = Len(l) - 1
    BY <1>2, <1>3, <1>4
  <2>2. a \in Seq(Media) /\ z \in Seq(Media) /\ Len(a) = i
    BY <1>3, <1>4
  <2>3. /\ r \in Seq(Media) /\ Len(r) = Len(a) + Len(z)
        /\ \A k \in 1..Len(a) + Len(z) :
             r[k] = IF k <= Len(a) THEN a[k] ELSE z[k - Len(a)]
    BY <2>2, ConcatElement
  <2> HIDE DEF r
  <2> QED BY <2>1, <2>2, <2>3
<1> HIDE DEF r
<1>6. ASSUME NEW k \in 1..Len(l) - 1
      PROVE  r[k] = IF k <= i THEN l[k] ELSE l[k + 1]
  <2>1. CASE k <= i
    BY <1>2, <1>3, <1>5, <2>1
  <2>2. CASE k > i
    <3>1. k - i \in 1..Len(l) - i - 1 /\ k - i + i + 1 = k + 1
      BY <1>2, <2>2
    <3> QED BY <1>2, <1>4, <1>5, <2>2, <3>1
  <2> QED BY <2>1, <2>2
<1> QED BY <1>1, <1>5, <1>6

\* What Shifted and OnItemMoved do to a position is what the edit does to the
\* media that is there.
LEMMA InsertShifts ==
  ASSUME NEW l \in Seq(Media), NEW i \in 0..Len(l), NEW m \in Media, NEW c \in Int
  PROVE  MediaAt(InsertAt(l, i + 1, m), IF c >= i THEN c + 1 ELSE c) = MediaAt(l, c)
<1> DEFINE r == InsertAt(l, i + 1, m)
<1>0. Len(l) \in Nat
  OBVIOUS
<1>1. /\ Len(r) = Len(l) + 1 /\ Len(l) \in Nat
      /\ \A k \in 1..Len(l) + 1 :
           r[k] = IF k <= i THEN l[k] ELSE IF k = i + 1 THEN m ELSE l[k - 1]
  <2> HIDE DEF r
  <2> QED BY <1>0, InsertElement DEF r
<1> HIDE DEF r
<1>2. CASE c >= i
  <2>1. c \in 0..Len(l) - 1 => r[c + 2] = l[c + 1]
    BY <1>1, <1>2
  <2> QED BY <1>1, <1>2, <2>1 DEF MediaAt, r
<1>3. CASE c < i
  <2>1. c \in 0..Len(l) - 1 => r[c + 1] = l[c + 1]
    BY <1>1, <1>3
  <2> QED BY <1>1, <1>3, <2>1 DEF MediaAt, r
<1> QED BY <1>2, <1>3

LEMMA RemoveShifts ==
  ASSUME NEW l \in Seq(Media), NEW i \in 0..Len(l) - 1, NEW c \in Int, c # i
  PROVE  MediaAt(RemoveAt(l, i + 1), IF c >= i THEN c - 1 ELSE c) = MediaAt(l, c)
<1> DEFINE r == RemoveAt(l, i + 1)
<1>1. /\ Len(r) = Len(l) - 1 /\ Len(l) \in Nat
      /\ \A k \in 1..Len(l) - 1 : r[k] = IF k <= i THEN l[k] ELSE l[k + 1]
  BY RemoveElement
<1> HIDE DEF r
<1>2. CASE c > i
  <2>1. c \in 0..Len(l) - 1 => r[c] = l[c + 1]
    BY <1>1, <1>2
  <2> QED BY <1>1, <1>2, <2>1 DEF MediaAt, r
<1>3. CASE c < i
  <2>1. c \in 0..Len(l) - 1 => r[c + 1] = l[c + 1]
    BY <1>1, <1>3
  <2> QED BY <1>1, <1>3, <2>1 DEF MediaAt, r
<1> QED BY <1>2, <1>3

Moved(c, before, after) ==
  IF c = before THEN IF after > before THEN after - 1 ELSE after
  ELSE IF c \in after..before - 1 THEN c + 1
  ELSE IF c \in before + 1..after - 1 THEN c - 1 ELSE c

LEMMA MoveShifts ==
  ASSUME NEW l \in Seq(Media), NEW b \in 0..Len(l) - 1, NEW a \in 0..Len(l), NEW c \in Int
  PROVE  LET r == InsertAt(RemoveAt(l, b + 1), (IF b >= a THEN a ELSE a - 1) + 1, MediaAt(l, b))
         IN r \in Seq(Media) /\ MediaAt(r, Moved(c, b, a)) = MediaAt(l, c)
<1> DEFINE w == RemoveAt(l, b + 1)
           at == IF b >= a THEN a ELSE a - 1
           m == MediaAt(l, b)
           r == InsertAt(w, at + 1, m)
<1>1. /\ w \in Seq(Media) /\ Len(w) = Len(l) - 1 /\ Len(l) \in Nat
      /\ \A k \in 1..Len(l) - 1 : w[k] = IF k <= b THEN l[k] ELSE l[k + 1]
  BY RemoveElement
<1>2. m \in Media /\ m = l[b + 1]
  BY DEF MediaAt
<1>3. at \in 0..Len(w)
  BY <1>1
<1> HIDE DEF w, m, at
<1>4. /\ r \in Seq(Media) /\ Len(r) = Len(w) + 1
      /\ \A k \in 1..Len(w) + 1 :
           r[k] = IF k <= at THEN w[k] ELSE IF k = at + 1 THEN m ELSE w[k - 1]
  <2>1. w \in Seq(Media) /\ m \in Media /\ at \in 0..Len(w)
    BY <1>1, <1>2, <1>3
  <2> HIDE DEF r
  <2> QED BY <2>1, InsertElement DEF r
<1> HIDE DEF r
<1> DEFINE d == Moved(c, b, a)
<1>5. d \in Int /\ (d \in 0..Len(l) - 1 <=> c \in 0..Len(l) - 1)
  BY <1>1 DEF Moved
<1>6. ASSUME c \in 0..Len(l) - 1 PROVE r[d + 1] = l[c + 1]
  <2>1. CASE c = b
    <3>1. d = at
      BY <2>1 DEF Moved, at
    <3>2. at + 1 \in 1..Len(w) + 1 /\ ~ at + 1 <= at
      BY <1>1, <1>3
    <3>3. r[at + 1] = m
      BY <1>4, <3>2
    <3> QED BY <1>2, <2>1, <3>1, <3>3
  <2>2. CASE c # b /\ c \in a..b - 1
    <3>1. d = c + 1 /\ at = a
      BY <2>2 DEF Moved, at
    <3>2. r[d + 1] = w[c + 1]
      BY <1>1, <1>3, <1>4, <1>6, <2>2, <3>1
    <3> QED BY <1>1, <1>6, <2>2, <3>2
  <2>3. CASE c # b /\ c \in b + 1..a - 1
    <3>1. d = c - 1 /\ at = a - 1
      BY <2>3 DEF Moved, at
    <3>2. c <= at /\ c \in 1..Len(w) + 1 /\ d + 1 = c
      BY <1>1, <1>3, <1>6, <2>3, <3>1
    <3>3. r[d + 1] = w[c]
      BY <1>4, <3>2
    <3> QED BY <1>1, <1>6, <2>3, <3>3
  <2>4. CASE c # b /\ c \notin a..b - 1 /\ c \notin b + 1..a - 1
    <3>1. d = c
      BY <2>4 DEF Moved
    <3>2. CASE c < b
      <4>1. c + 1 <= at
        BY <1>6, <2>4, <3>2 DEF at
      <4>2. r[d + 1] = w[c + 1]
        BY <1>1, <1>3, <1>4, <1>6, <3>1, <4>1
      <4> QED BY <1>1, <1>6, <3>2, <4>2
    <3>3. CASE c > b
      <4>1. c >= at + 1
        BY <1>6, <2>4, <3>3 DEF at
      <4>2. c + 1 # at + 1 /\ ~ (c + 1 <= at) /\ c + 1 \in 1..Len(w) + 1
        BY <1>1, <1>3, <1>6, <4>1
      <4>3. r[d + 1] = w[c]
        BY <1>4, <1>6, <3>1, <4>2
      <4> QED BY <1>1, <1>6, <3>3, <4>3
    <3> QED BY <2>4, <3>2, <3>3
  <2> QED BY <2>1, <2>2, <2>3, <2>4
<1>7. MediaAt(r, d) = MediaAt(l, c)
  BY <1>1, <1>4, <1>5, <1>6 DEF MediaAt
<1> QED BY <1>4, <1>7 DEF r, w, m, at

-----------------------------------------------------------------------------
(* What is saved.                                                           *)

LEMMA SavedSet ==
  ASSUME NEW s \in State, NEW v \in Saved,
         v.list = s.saved.list \/ v.list = s.mediaList
  PROVE  Same(s, [s EXCEPT !.saved = v])
BY DEF State, Saved, Steady, Same

LEMMA SameAsItself ==
  ASSUME NEW s \in State
  PROVE  Same(s, s)
BY DEF Same, Steady

LEMMA SaveMediaListSame ==
  ASSUME NEW s \in State
  PROVE  /\ Same(s, SaveMediaList(s))
         /\ HasCurrentMedia(s) => SaveMediaList(s).saved.list = s.mediaList
<1> DEFINE v == [s.saved EXCEPT !.list = s.mediaList]
           t == [s EXCEPT !.saved = v]
<1>1. s.saved \in Saved /\ s.mediaList \in Seq(Media)
  BY DEF State, Saved
<1>2. v \in Saved /\ v.list = s.mediaList
  BY <1>1 DEF Saved
<1>3. SaveMediaList(s) = IF HasCurrentMedia(s) THEN t ELSE s
  BY DEF SaveMediaList
<1>4. t.saved = v
  BY DEF State
<1> HIDE DEF v
<1>5. Same(s, t)
  BY <1>2, SavedSet
<1> HIDE DEF t
<1> QED BY <1>2, <1>3, <1>4, <1>5, SameAsItself

LEMMA SaveCurrentMediaSame ==
  ASSUME NEW s \in State
  PROVE  Same(s, SaveCurrentMedia(s)) /\ SaveCurrentMedia(s).saved.list = s.saved.list
<1> DEFINE song == IsValidPosition(s, IF s.currentIndex > 0 THEN s.currentIndex ELSE 0)
           v == [s.saved EXCEPT !.song = song]
           t == [s EXCEPT !.saved = v]
<1>1. s.saved \in Saved /\ song \in BOOLEAN
  BY DEF State, Saved, IsValidPosition
<1>2. v \in Saved /\ v.list = s.saved.list
  <2> HIDE DEF song
  <2> QED BY <1>1 DEF Saved
<1>3. SaveCurrentMedia(s) = t
  BY DEF SaveCurrentMedia
<1>4. t.saved = v
  BY DEF State
<1> HIDE DEF v
<1>5. Same(s, t)
  BY <1>2, SavedSet
<1> HIDE DEF t
<1> QED BY <1>2, <1>3, <1>4, <1>5

LEMMA SavePositionSame ==
  ASSUME NEW s \in State, NEW reset \in BOOLEAN
  PROVE  Same(s, SavePosition(s, reset)) /\ SavePosition(s, reset).saved.list = s.saved.list
<1> DEFINE n == IF reset THEN 0 ELSE s.currentIndex
           v == [s.saved EXCEPT !.position = n, !.shuffling = s.shuffling,
                                !.repeating = s.repeating]
           t == [s EXCEPT !.saved = v]
<1>1. s.saved \in Saved /\ s.shuffling \in BOOLEAN /\ s.repeating \in Repeats
  BY DEF State, Saved
<1>2. n \in Index
  BY DEF State, Index
<1>3. SavePosition(s, reset) = IF s.mediaList = <<>> THEN s ELSE t
  BY <1>1 DEF SavePosition, State, Saved
<1>4. v \in Saved /\ v.list = s.saved.list
  <2> HIDE DEF n
  <2> QED BY <1>1, <1>2 DEF Saved
<1>5. t.saved = v
  BY DEF State
<1> HIDE DEF v
<1>6. Same(s, t)
  BY <1>4, SavedSet
<1> HIDE DEF t
<1> QED BY <1>3, <1>4, <1>5, <1>6, SameAsItself

\* The list is saved again after every edit: what plays is then in the copy.
LEMMA SaveAfterEdit ==
  ASSUME NEW s, NEW t, Follows(s, t)
  PROVE  Keeps(s, SaveMediaList(t))
<1> DEFINE u == SaveMediaList(t)
<1>1. t \in State /\ Steady(t, u) /\ (HasCurrentMedia(t) => u.saved.list = t.mediaList)
  BY SaveMediaListSame DEF Follows, Same
<1>2. u.mediaList = t.mediaList /\ u.status = t.status
  BY SaveMediaListSame, <1>1 DEF Same, Steady
<1> HIDE DEF u
<1>3. Keeps(t, u) /\ Follows(t, u)
  BY <1>1, SteadyKeeps
<1>4. Follows(s, u)
  BY <1>3, FollowsTwice
<1>5. Followed(u) => Good(u)
  <2> SUFFICES ASSUME Followed(u), u.status = "ok", u.listening
               PROVE  u.saved.list = u.mediaList
    BY DEF Good
  <2>1. GetMedia(u, u.currentIndex) \in Media
    BY DEF Followed
  <2>2. HasCurrentMedia(u)
    BY <2>1, MediaAssumption DEF GetMedia, HasCurrentMedia
  <2>3. HasCurrentMedia(t)
    BY <1>1, <2>2, SteadyFollowed
  <2> QED BY <1>1, <1>2, <2>3
<1> QED BY <1>4, <1>5 DEF Follows, Keeps, Good, u

LEMMA ThenSave ==
  ASSUME NEW s, NEW S, \A t \in S : Follows(s, t)
  PROVE  \A u \in Then(S, LAMBDA t : {SaveMediaList(t)}) : Keeps(s, u)
<1>1. \A u \in UNION {IF t.status = "ok" THEN {SaveMediaList(t)} ELSE {t} : t \in S} :
        \E t \in S : u = SaveMediaList(t) \/ (u = t /\ t.status # "ok")
  <2> SUFFICES ASSUME NEW t \in S, NEW u \in IF t.status = "ok" THEN {SaveMediaList(t)} ELSE {t}
               PROVE  u = SaveMediaList(t) \/ (u = t /\ t.status # "ok")
    OBVIOUS
  <2> QED OBVIOUS
<1>2. \A t \in S : Keeps(s, SaveMediaList(t)) /\ (t.status # "ok" => Keeps(s, t))
  BY SaveAfterEdit, DeadKeeps DEF Follows
<1> QED BY <1>1, <1>2 DEF Then

LEMMA ThenDetermine ==
  ASSUME NEW s, NEW S, \A t \in S : Keeps(s, t)
  PROVE  \A u \in Then(S, Determine) : Keeps(s, u) /\ Pointed(u)
<1>1. \A u \in UNION {IF t.status = "ok" THEN Determine(t) ELSE {t} : t \in S} :
        \E t \in S : u \in Determine(t) \/ (u = t /\ t.status # "ok")
  <2> SUFFICES ASSUME NEW t \in S, NEW u \in IF t.status = "ok" THEN Determine(t) ELSE {t}
               PROVE  u \in Determine(t) \/ (u = t /\ t.status # "ok")
    OBVIOUS
  <2> QED OBVIOUS
<1>2. \A t \in S : /\ Keeps(s, t) /\ (t.status # "ok" => Pointed(t))
                   /\ \A u \in Determine(t) : Keeps(s, u) /\ Pointed(u)
  BY DeterminePointed, SteadyKeeps, KeepsTwice DEF Keeps, Pointed
<1> QED BY <1>1, <1>2 DEF Then

-----------------------------------------------------------------------------
(* Moving and inserting.                                                    *)

\* t is s with the list l and the position c.
Edited(s, t, l, c) ==
  /\ t \in State /\ t.mediaList = l /\ t.currentIndex = c
  /\ t.loaded = s.loaded /\ t.player = s.player /\ t.heard = s.heard
  /\ t.listening = s.listening /\ t.expanding = s.expanding /\ t.missed = s.missed
  /\ t.status = s.status

\* The same media is at the position.
LEMMA EditFollows ==
  ASSUME NEW s \in State, NEW t, NEW l, NEW c, Edited(s, t, l, c),
         ~ s.expanding => MediaAt(l, c) = MediaAt(s.mediaList, s.currentIndex)
  PROVE  Follows(s, t)
<1>1. Followed(s) /\ ~ s.expanding => Followed(t)
  BY GetMediaAt DEF Edited, Followed
<1> QED BY <1>1 DEF Edited, Follows, Loaded

\* Without a listener the position is not looked at.
LEMMA UnheardKeeps ==
  ASSUME NEW s \in State, NEW t, NEW l, NEW c, Edited(s, t, l, c), ~ s.listening
  PROVE  Keeps(s, t)
BY DEF Edited, Keeps, Loaded, Good, Followed

LEMMA ListSet ==
  ASSUME NEW s \in State, NEW l \in Seq(Media)
  PROVE  LET t == [s EXCEPT !.mediaList = l]
         IN /\ Edited(s, t, l, s.currentIndex)
            /\ t.nextIndex = s.nextIndex /\ t.prevIndex = s.prevIndex
BY DEF State, Edited

LEMMA PositionSet ==
  ASSUME NEW s \in State, NEW d \in Index
  PROVE  Edited(s, [s EXCEPT !.currentIndex = d], s.mediaList, d)
BY DEF State, Edited

LEMMA EditedTwice ==
  ASSUME NEW s, NEW t, NEW u, NEW k, NEW b, NEW l, NEW c,
         Edited(s, t, k, b), Edited(t, u, l, c)
  PROVE  Edited(s, u, l, c)
BY DEF Edited

LEMMA ListMoveKeeps ==
  ASSUME NEW s \in State, NEW b \in 0..Size(s) - 1, NEW a \in 0..Size(s)
  PROVE  \A t \in ListMove(s, b, a) : Keeps(s, t)
<1> DEFINE l == s.mediaList
           c == s.currentIndex
           r == InsertAt(RemoveAt(l, b + 1), (IF b >= a THEN a ELSE a - 1) + 1, MediaAt(l, b))
           t0 == [s EXCEPT !.mediaList = r]
           d == Moved(c, b, a)
           empty == <<>>
           p == [t0 EXCEPT !.currentIndex = d]
           u == [p EXCEPT !.previous = empty]
<1>1. l \in Seq(Media) /\ c \in Index /\ b \in 0..Len(l) - 1 /\ a \in 0..Len(l)
  BY DEF State, Size
<1>2. r \in Seq(Media) /\ MediaAt(r, d) = MediaAt(l, c)
  BY <1>1, MoveShifts DEF Index
<1>3. d \in Index
  BY <1>1 DEF Moved, Index
<1>4. ListMove(s, b, a) = IF t0.listening THEN OnItemMoved(t0, b, a) ELSE {t0}
  BY DEF ListMove, GetMedia, IsValidPosition, Size, MediaAt
<1> HIDE DEF r
<1>5. Edited(s, t0, r, c)
  BY <1>2, ListSet
<1>6. OnItemMoved(t0, b, a) = Then(Determine(u), LAMBDA t : {SaveMediaList(t)})
  BY <1>5 DEF OnItemMoved, Moved, Edited
<1>7. empty \in Seq(Index)
  OBVIOUS
<1> HIDE DEF t0, d, empty
<1>8. Edited(t0, p, r, d)
  BY <1>3, <1>5, PositionSet DEF Edited
<1> HIDE DEF p
<1>9. Edited(p, u, r, d)
  BY <1>7, <1>8 DEF State, Edited
<1> HIDE DEF u
<1>10. Edited(s, u, r, d)
  BY <1>5, <1>8, <1>9, EditedTwice
<1>11. \A t \in Determine(u) : Follows(s, t)
  <2>1. u \in State /\ Follows(s, u)
    BY <1>2, <1>10, EditFollows DEF Edited
  <2> QED BY <2>1, DetermineSteady, SteadyKeeps, FollowsTwice
<1>12. \A t \in OnItemMoved(t0, b, a) : Keeps(s, t)
  BY <1>6, <1>11, ThenSave
<1>13. ~ s.listening => Keeps(s, t0)
  BY <1>5, UnheardKeeps
<1>14. t0.listening = s.listening
  BY <1>5 DEF Edited
<1> QED BY <1>4, <1>12, <1>13, <1>14

\* What insert() makes of the list and the position.
LEMMA ListInsertEdits ==
  ASSUME NEW s \in State, NEW i \in 0..Size(s), NEW m \in Media
  PROVE  LET t0 == [s EXCEPT !.mediaList = InsertAt(s.mediaList, i + 1, m)]
             u == [t0 EXCEPT !.currentIndex = Shifted(t0, i, 1)]
         IN /\ Edited(s, t0, t0.mediaList, s.currentIndex)
            /\ Edited(s, u, t0.mediaList, u.currentIndex)
            /\ Size(t0) = Size(s) + 1
            /\ t0.nextIndex = s.nextIndex /\ t0.prevIndex = s.prevIndex
            /\ ~ s.expanding => /\ MediaAt(t0.mediaList, u.currentIndex)
                                     = MediaAt(s.mediaList, s.currentIndex)
                                /\ u.currentIndex = IF s.currentIndex >= i
                                      THEN s.currentIndex + 1 ELSE s.currentIndex
            /\ ListInsert(s, i, m) =
                 IF s.listening THEN Then(Determine(u), LAMBDA t : {SaveMediaList(t)})
                                ELSE {t0}
<1> DEFINE l == s.mediaList
           c == s.currentIndex
           r == InsertAt(l, i + 1, m)
           t0 == [s EXCEPT !.mediaList = r]
           d == Shifted(t0, i, 1)
           u == [t0 EXCEPT !.currentIndex = d]
<1>1. l \in Seq(Media) /\ c \in Index /\ i \in 0..Len(l)
  BY DEF State, Size
<1>2. /\ r \in Seq(Media) /\ Len(r) = Len(l) + 1
      /\ MediaAt(r, IF c >= i THEN c + 1 ELSE c) = MediaAt(l, c)
  <2>1. r \in Seq(Media) /\ Len(r) = Len(l) + 1
    BY <1>1, InsertElement
  <2>2. c \in Int
    BY <1>1 DEF Index
  <2>3. MediaAt(r, IF c >= i THEN c + 1 ELSE c) = MediaAt(l, c)
    <3> HIDE DEF l, c
    <3> QED BY <1>1, <2>2, InsertShifts
  <2> QED BY <2>1, <2>3
<1>3. ListInsert(s, i, m) =
        IF t0.listening THEN Then(Determine(u), LAMBDA t : {SaveMediaList(t)}) ELSE {t0}
  BY DEF ListInsert, OnItemAdded
<1> HIDE DEF r
<1>4. /\ Edited(s, t0, r, c) /\ t0.mediaList = r
      /\ t0.nextIndex = s.nextIndex /\ t0.prevIndex = s.prevIndex
  BY <1>2, ListSet DEF Edited
<1> HIDE DEF t0
<1>5. d \in Index /\ (~ s.expanding => d = IF c >= i THEN c + 1 ELSE c)
  BY <1>1, <1>4 DEF Shifted, Edited, Index
<1> HIDE DEF d
<1>6. Edited(t0, u, r, d)
  BY <1>4, <1>5, PositionSet DEF Edited
<1>7. Edited(s, u, r, d) /\ u.currentIndex = d
  BY <1>4, <1>6, EditedTwice DEF Edited
<1> HIDE DEF u
<1>8. Size(t0) = Size(s) + 1 /\ t0.listening = s.listening
  BY <1>2, <1>4 DEF Size, Edited
<1>9. ~ s.expanding => /\ MediaAt(t0.mediaList, u.currentIndex) = MediaAt(l, c)
                       /\ u.currentIndex = IF c >= i THEN c + 1 ELSE c
  BY <1>2, <1>4, <1>5, <1>7
<1>10. Edited(s, t0, t0.mediaList, c) /\ Edited(s, u, t0.mediaList, u.currentIndex)
  BY <1>4, <1>7
<1>11. ListInsert(s, i, m) =
         IF s.listening THEN Then(Determine(u), LAMBDA t : {SaveMediaList(t)}) ELSE {t0}
  BY <1>3, <1>8
<1> QED BY <1>4, <1>8, <1>9, <1>10, <1>11 DEF t0, u, d, r

LEMMA ListInsertOutside ==
  ASSUME NEW s \in State, NEW i, i \notin 0..Size(s), NEW m
  PROVE  \A t \in ListInsert(s, i, m) : Keeps(s, t) /\ t.status # "ok"
<1> DEFINE t == [s EXCEPT !.status = "crash"]
<1>1. ListInsert(s, i, m) = {t}
  BY DEF ListInsert
<1>2. t \in State /\ t.expanding = s.expanding /\ t.status = "crash"
  BY DEF State
<1>3. t.player = s.player /\ t.loaded = s.loaded
  BY DEF State
<1> HIDE DEF t
<1> QED BY <1>1, <1>2, <1>3, DeadKeeps DEF Loaded

LEMMA ListInsertKeeps ==
  ASSUME NEW s \in State, NEW i, NEW m \in Media
  PROVE  \A t \in ListInsert(s, i, m) : Keeps(s, t)
<1>1. CASE i \notin 0..Size(s)
  BY <1>1, ListInsertOutside
<1>2. CASE i \in 0..Size(s)
  <2> DEFINE t0 == [s EXCEPT !.mediaList = InsertAt(s.mediaList, i + 1, m)]
             u == [t0 EXCEPT !.currentIndex = Shifted(t0, i, 1)]
  <2>1. /\ Edited(s, t0, t0.mediaList, s.currentIndex)
        /\ Edited(s, u, t0.mediaList, u.currentIndex)
        /\ ~ s.expanding => MediaAt(t0.mediaList, u.currentIndex)
                              = MediaAt(s.mediaList, s.currentIndex)
        /\ ListInsert(s, i, m) =
             IF s.listening THEN Then(Determine(u), LAMBDA t : {SaveMediaList(t)}) ELSE {t0}
    BY <1>2, ListInsertEdits
  <2> HIDE DEF t0, u
  <2>2. \A t \in Determine(u) : Follows(s, t)
    <3>1. u \in State /\ Follows(s, u)
      BY <2>1, EditFollows DEF Edited
    <3> QED BY <3>1, DetermineSteady, SteadyKeeps, FollowsTwice
  <2>3. s.listening => \A t \in ListInsert(s, i, m) : Keeps(s, t)
    BY <2>1, <2>2, ThenSave
  <2>4. ~ s.listening => Keeps(s, t0)
    BY <2>1, UnheardKeeps
  <2> QED BY <2>1, <2>3, <2>4
<1> QED BY <1>1, <1>2

\* The list goes on with the listeners it has.
LEMMA ListInsertListens ==
  ASSUME NEW s \in State, NEW i, NEW m \in Media
  PROVE  \A t \in ListInsert(s, i, m) : t.status = "ok" => t.listening = s.listening
<1>1. CASE i \notin 0..Size(s)
  BY <1>1, ListInsertOutside
<1>2. CASE i \in 0..Size(s)
  <2> DEFINE t0 == [s EXCEPT !.mediaList = InsertAt(s.mediaList, i + 1, m)]
             u == [t0 EXCEPT !.currentIndex = Shifted(t0, i, 1)]
  <2>1. /\ Edited(s, t0, t0.mediaList, s.currentIndex)
        /\ Edited(s, u, t0.mediaList, u.currentIndex)
        /\ ListInsert(s, i, m) =
             IF s.listening THEN Then(Determine(u), LAMBDA t : {SaveMediaList(t)}) ELSE {t0}
    BY <1>2, ListInsertEdits
  <2> HIDE DEF t0, u
  <2>2. \A t \in Determine(u) : t \in State /\ t.listening = s.listening
    BY <2>1, DetermineSteady DEF Edited, Steady
  <2>3. \A t \in Then(Determine(u), LAMBDA w : {SaveMediaList(w)}) :
          \E w \in Determine(u) : t = w \/ t = SaveMediaList(w)
    BY DEF Then
  <2>4. \A w \in Determine(u) : SaveMediaList(w).listening = s.listening
    BY <2>2, SaveMediaListSame DEF Same, Steady
  <2>5. s.listening => \A t \in ListInsert(s, i, m) : t.listening = s.listening
    BY <2>1, <2>2, <2>3, <2>4
  <2>6. ~ s.listening => ListInsert(s, i, m) = {t0} /\ t0.listening = s.listening
    BY <2>1 DEF Edited
  <2> QED BY <2>5, <2>6
<1> QED BY <1>1, <1>2

\* An insertion does not lose the neighbours either.
LEMMA ListInsertPoints ==
  ASSUME NEW s \in State, NEW i, NEW m \in Media,
         ~ s.expanding, HasCurrentMedia(s), Neighbours(s)
  PROVE  \A t \in ListInsert(s, i, m) :
           t.status = "ok" => HasCurrentMedia(t) /\ Neighbours(t)
<1>1. CASE i \notin 0..Size(s)
  BY <1>1, ListInsertOutside
<1>2. CASE i \in 0..Size(s)
  <2> DEFINE t0 == [s EXCEPT !.mediaList = InsertAt(s.mediaList, i + 1, m)]
             u == [t0 EXCEPT !.currentIndex = Shifted(t0, i, 1)]
  <2>0. ListInsert(s, i, m) =
          IF s.listening THEN Then(Determine(u), LAMBDA t : {SaveMediaList(t)}) ELSE {t0}
    BY <1>2, ListInsertEdits
  <2>1. /\ Edited(s, t0, t0.mediaList, s.currentIndex)
        /\ Edited(s, u, t0.mediaList, u.currentIndex)
        /\ Size(t0) = Size(s) + 1
        /\ t0.nextIndex = s.nextIndex /\ t0.prevIndex = s.prevIndex
        /\ u.currentIndex = IF s.currentIndex >= i THEN s.currentIndex + 1 ELSE s.currentIndex
    BY <1>2, ListInsertEdits
  <2> HIDE DEF t0, u
  <2>2. /\ Len(s.mediaList) \in Nat /\ s.currentIndex \in 0..Len(s.mediaList) - 1
        /\ Len(t0.mediaList) = Len(s.mediaList) + 1 /\ i \in 0..Len(s.mediaList)
    BY <1>2, <2>1 DEF State, Size, HasCurrentMedia, IsValidPosition
  <2>3. HasCurrentMedia(t0) /\ Neighbours(t0)
    <3>1. t0.currentIndex = s.currentIndex
      BY <2>1 DEF Edited
    <3> QED BY <2>1, <2>2, <3>1 DEF HasCurrentMedia, Neighbours, IsValidPosition, Size
  <2>4. u \in State /\ u.mediaList = t0.mediaList
    BY <2>1 DEF Edited
  <2>5. HasCurrentMedia(u)
    <3>1. u.currentIndex \in 0..Len(u.mediaList) - 1
      BY <2>1, <2>2, <2>4
    <3> QED BY <3>1 DEF HasCurrentMedia, IsValidPosition, Size
  <2>6. \A t \in Determine(u) : t \in State /\ HasCurrentMedia(t) /\ Neighbours(t)
    BY <2>4, <2>5, DetermineSteady, SteadyFollowed DEF Steady
  <2>7. \A t \in Determine(u) : HasCurrentMedia(SaveMediaList(t)) /\ Neighbours(SaveMediaList(t))
    <3> SUFFICES ASSUME NEW t \in Determine(u)
                 PROVE  HasCurrentMedia(SaveMediaList(t)) /\ Neighbours(SaveMediaList(t))
      OBVIOUS
    <3>1. Same(t, SaveMediaList(t)) /\ HasCurrentMedia(t) /\ Neighbours(t)
      BY <2>6, SaveMediaListSame
    <3> QED BY <3>1, SteadyFollowed DEF Same, Steady, Neighbours, IsValidPosition, Size
  <2>8. \A t \in Then(Determine(u), LAMBDA w : {SaveMediaList(w)}) :
          \E w \in Determine(u) : t = w \/ t = SaveMediaList(w)
    BY DEF Then
  <2> QED BY <2>0, <2>3, <2>6, <2>7, <2>8
<1> QED BY <1>1, <1>2

-----------------------------------------------------------------------------
(* Playing, stopping and removing.                                          *)

LEMMA StartSet ==
  ASSUME NEW s \in State, NEW m \in Media
  PROVE  LET t == StartPlayback(s, m)
         IN /\ t \in State /\ t.loaded = m /\ t.player = "opening"
            /\ t.mediaList = s.mediaList /\ t.currentIndex = s.currentIndex
            /\ t.expanding = s.expanding /\ t.missed = FALSE
BY DEF StartPlayback, State

LEMMA PlayIndexPlays ==
  ASSUME NEW s \in State, NEW i \in 0..Size(s) - 1
  PROVE  \A t \in PlayIndex(s, i) : Plays(s, t)
<1> DEFINE m == GetMedia(s, i)
           p == [s EXCEPT !.currentIndex = i]
           u == StartPlayback(p, m)
<1>1. s.mediaList \in Seq(Media) /\ Size(s) = Len(s.mediaList) /\ i \in Index
  BY DEF State, Size, Index
<1>2. m = MediaAt(s.mediaList, i) /\ m \in Media
  BY <1>1 DEF GetMedia, IsValidPosition, MediaAt
<1>3. PlayIndex(s, i) = Then(Determine(u), LAMBDA t : {SaveCurrentMedia(t)})
  <2>1. Size(s) # 0 /\ IsValidPosition(s, i)
    BY <1>1 DEF IsValidPosition
  <2> QED BY <2>1 DEF PlayIndex
<1> HIDE DEF m
<1>4. Edited(s, p, s.mediaList, i)
  BY <1>1, PositionSet
<1> HIDE DEF p
<1>5. /\ u \in State /\ u.mediaList = s.mediaList /\ u.currentIndex = i
      /\ u.loaded = m /\ u.player = "opening"
      /\ u.expanding = s.expanding /\ u.missed = FALSE
  BY <1>2, <1>4, StartSet DEF Edited
<1> HIDE DEF u
<1>6. Good(u) /\ Loaded(u)
  BY <1>2, <1>5, GetMediaAt DEF Good, Followed, Loaded
<1>7. ASSUME NEW t, Steady(u, t), Pointed(t)
      PROVE  Plays(s, t)
  BY <1>5, <1>6, <1>7, SteadyFollowed DEF Plays, Steady
<1>8. ASSUME NEW t \in Determine(u)
      PROVE  Plays(s, t) /\ Plays(s, SaveCurrentMedia(t))
  <2>1. Steady(u, t) /\ Pointed(t)
    BY <1>5, DeterminePointed
  <2>2. Same(t, SaveCurrentMedia(t))
    BY <2>1, SaveCurrentMediaSame DEF Steady
  <2>3. Steady(u, SaveCurrentMedia(t))
    BY <2>1, <2>2, SteadyTwice DEF Same
  <2>4. Pointed(SaveCurrentMedia(t))
    BY <2>1, <2>2 DEF Same, Steady, Pointed, HasCurrentMedia, Neighbours, IsValidPosition, Size
  <2> QED BY <1>7, <2>1, <2>3, <2>4
<1>9. \A t \in PlayIndex(s, i) : \E v \in Determine(u) : t = v \/ t = SaveCurrentMedia(v)
  BY <1>3 DEF Then
<1> QED BY <1>8, <1>9

LEMMA StopPlays ==
  ASSUME NEW s \in State
  PROVE  Plays(s, StopPlayback(s))
<1> DEFINE t == IF HasCurrentMedia(s) THEN SavePosition(s, FALSE) ELSE s
<1>1. t \in State /\ t.expanding = s.expanding
  BY SavePositionSame DEF Same, Steady
<1> HIDE DEF t
<1> DEFINE w == StopPlayback(s)
           empty == <<>>
           nowhere == -1
<1>2. w = [t EXCEPT !.loaded = NoMedia, !.player = "stopped", !.heard = TRUE,
                    !.listening = FALSE, !.previous = empty, !.currentIndex = nowhere,
                    !.mediaList = empty, !.missed = FALSE]
  BY DEF StopPlayback, t
<1>3. empty \in Seq(Index) /\ empty \in Seq(Media) /\ nowhere \in Index
  BY DEF Index
<1> HIDE DEF w, empty, nowhere
<1>4. /\ w \in State /\ w.expanding = s.expanding
      /\ w.player = "stopped" /\ ~ w.listening
      /\ w.currentIndex = nowhere
  BY <1>1, <1>2, <1>3 DEF State
<1>5. ~ HasCurrentMedia(w)
  BY <1>4 DEF HasCurrentMedia, IsValidPosition, nowhere
<1>6. Plays(s, w)
  BY <1>4, <1>5 DEF Plays, Loaded, Good, Followed, Pointed
<1> QED BY <1>6 DEF w

LEMMA PlayNextPlays ==
  ASSUME NEW s \in State
  PROVE  \A t \in PlayNext(s) : Plays(s, t)
<1> DEFINE q == Append(s.previous, s.currentIndex)
           u == [s EXCEPT !.previous = q, !.currentIndex = s.nextIndex]
<1>1. q \in Seq(Index) /\ s.nextIndex \in Index
  BY DEF State
<1> HIDE DEF q
<1>2. u \in State /\ u.expanding = s.expanding
  BY <1>1 DEF State
<1>3. PlayNext(s) = IF HasCurrentMedia(u) THEN PlayIndex(u, u.currentIndex)
                    ELSE {StopPlayback(u)}
  BY DEF PlayNext, q
<1> HIDE DEF u
<1>4. HasCurrentMedia(u) => u.currentIndex \in 0..Size(u) - 1
  BY DEF HasCurrentMedia, IsValidPosition
<1> QED BY <1>2, <1>3, <1>4, PlayIndexPlays, StopPlays DEF Plays

\* When an item is removed, the position follows the media that plays, or
\* another one is played if it was that one.
LEMMA ListRemoveEdits ==
  ASSUME NEW s \in State, NEW i \in 0..Size(s) - 1
  PROVE  \A t \in ListRemove(s, i) :
           /\ Keeps(s, t)
           /\ i # s.currentIndex => t.loaded = s.loaded /\ t.player = s.player
<1> DEFINE l == s.mediaList
           c == s.currentIndex
           r == RemoveAt(l, i + 1)
           t0 == [s EXCEPT !.mediaList = r]
           d == Shifted(t0, i, -1)
           u == [t0 EXCEPT !.currentIndex = d]
           Replace(t) == IF t0.currentIndex # i \/ t0.expanding THEN {t}
                         ELSE IF t.nextIndex # -1 THEN PlayNext(t)
                         ELSE IF t.currentIndex # -1 THEN PlayIndex(t, t.currentIndex)
                         ELSE {StopPlayback(t)}
           R == Then(Determine(u), Replace)
           Undisturbed(t) == i # c => t.loaded = s.loaded /\ t.player = s.player
<1>1. l \in Seq(Media) /\ c \in Index /\ i \in 0..Len(l) - 1 /\ Len(l) \in Nat
  BY DEF State, Size
<1>2. /\ r \in Seq(Media) /\ Len(r) = Len(l) - 1
      /\ c # i => MediaAt(r, IF c >= i THEN c - 1 ELSE c) = MediaAt(l, c)
  <2>1. c \in Int
    BY <1>1 DEF Index
  <2> QED BY <1>1, <2>1, RemoveElement, RemoveShifts
<1>3. ListRemove(s, i) = IF t0.listening THEN OnItemRemoved(t0, i) ELSE {t0}
  BY DEF ListRemove, IsValidPosition
<1>4. OnItemRemoved(t0, i) = Then(R, LAMBDA t : {SaveMediaList(t)})
  BY DEF OnItemRemoved
<1> HIDE DEF r
<1>5. Edited(s, t0, r, c)
  BY <1>2, ListSet
<1> HIDE DEF t0
<1>6. d \in Index /\ (~ s.expanding => d = IF c >= i THEN c - 1 ELSE c)
  BY <1>1, <1>5 DEF Shifted, Edited, Index
<1> HIDE DEF d
<1>7. Edited(t0, u, r, d)
  BY <1>5, <1>6, PositionSet DEF Edited
<1> HIDE DEF u
<1>8. Edited(s, u, r, d)
  BY <1>5, <1>7, EditedTwice
\* The callback goes on with one of these states.
<1>9. ASSUME NEW t \in Determine(u), NEW v \in Replace(t)
      PROVE  Follows(s, v) /\ Undisturbed(v)
  <2>1. t \in State /\ Steady(u, t)
    BY <1>8, DetermineSteady DEF Steady, Edited
  <2>2. CASE c # i \/ s.expanding
    <3>1. Follows(s, u)
      BY <1>2, <1>6, <1>8, <2>2, EditFollows
    <3>2. v = t
      BY <1>5, <2>2 DEF Edited
    <3>3. Follows(s, v)
      BY <2>1, <3>1, <3>2, SteadyKeeps, FollowsTwice
    <3>4. v.loaded = s.loaded /\ v.player = s.player
      BY <1>8, <2>1, <3>2 DEF Steady, Edited
    <3> QED BY <3>3, <3>4
  <2>3. CASE c = i /\ ~ s.expanding
    <3>1. \A w : Plays(t, w) => Follows(s, w)
      BY <1>8, <2>1 DEF Plays, Follows, Steady, Good, Edited
    <3>2. t.currentIndex = c - 1 /\ Size(t) = Len(l) - 1
      BY <1>1, <1>2, <1>6, <1>8, <2>1, <2>3 DEF Steady, Size, Edited, Index
    <3>3. Replace(t) = IF t.nextIndex # -1 THEN PlayNext(t)
                       ELSE IF t.currentIndex # -1 THEN PlayIndex(t, t.currentIndex)
                       ELSE {StopPlayback(t)}
      BY <1>5, <2>3 DEF Edited
    <3> HIDE DEF Replace
    <3>4. CASE t.nextIndex # -1
      BY <1>9, <2>1, <2>3, <3>1, <3>3, <3>4, PlayNextPlays
    <3>5. CASE t.nextIndex = -1 /\ t.currentIndex # -1
      <4>1. t.currentIndex \in 0..Size(t) - 1
        BY <1>1, <2>3, <3>2, <3>5
      <4> QED BY <1>9, <2>1, <2>3, <3>1, <3>3, <3>5, <4>1, PlayIndexPlays
    <3>6. CASE t.nextIndex = -1 /\ t.currentIndex = -1
      BY <1>9, <2>1, <2>3, <3>1, <3>3, <3>6, StopPlays
    <3> QED BY <3>4, <3>5, <3>6
  <2> QED BY <2>2, <2>3
\* Or the main thread never comes back.
<1>10. ASSUME NEW t \in Determine(u), t.status # "ok"
       PROVE  Follows(s, t) /\ Undisturbed(t)
  <2>1. Steady(u, t)
    BY <1>8, DetermineSteady DEF Edited
  <2>2. t \in State /\ t.expanding = s.expanding
    BY <1>8, <2>1 DEF Steady, Edited
  <2>3. t.loaded = s.loaded /\ t.player = s.player
    BY <1>8, <2>1 DEF Steady, Edited
  <2> QED BY <1>10, <2>2, <2>3 DEF Follows, Followed, Loaded
<1>11. ASSUME NEW v \in R
       PROVE  Follows(s, v) /\ Undisturbed(v)
  <2>1. R = UNION {IF t.status = "ok" THEN Replace(t) ELSE {t} : t \in Determine(u)}
    BY DEF Then
  <2> HIDE DEF R, Replace, Undisturbed
  <2>2. PICK t \in Determine(u) : v \in IF t.status = "ok" THEN Replace(t) ELSE {t}
    BY <1>11, <2>1
  <2>3. v \in Replace(t) \/ (v = t /\ t.status # "ok")
    BY <2>2
  <2> QED BY <1>9, <1>10, <2>3
<1> HIDE DEF R, Replace
<1>12. \A t \in OnItemRemoved(t0, i) : Keeps(s, t)
  BY <1>4, <1>11, ThenSave
<1>13. \A t \in OnItemRemoved(t0, i) : Undisturbed(t)
  <2>1. \A t \in OnItemRemoved(t0, i) : \E v \in R : t = v \/ t = SaveMediaList(v)
    BY <1>4 DEF Then
  <2>2. \A v \in R : Undisturbed(v) /\ Undisturbed(SaveMediaList(v))
    BY <1>11, SaveMediaListSame DEF Follows, Same, Steady
  <2> HIDE DEF Undisturbed
  <2> QED BY <2>1, <2>2
<1>14. Undisturbed(t0) /\ t0.listening = s.listening
  BY <1>5 DEF Edited
<1>15. ~ s.listening => Keeps(s, t0)
  BY <1>5, UnheardKeeps
<1> QED BY <1>3, <1>12, <1>13, <1>14, <1>15

LEMMA ListRemoveKeeps ==
  ASSUME NEW s \in State, NEW i
  PROVE  \A t \in ListRemove(s, i) : Keeps(s, t)
<1>1. CASE IsValidPosition(s, i)
  BY <1>1, ListRemoveEdits DEF IsValidPosition
<1>2. CASE ~ IsValidPosition(s, i)
  BY <1>2 DEF ListRemove, Keeps
<1> QED BY <1>1, <1>2

LEMMA ListRemoveFirstKeeps ==
  ASSUME NEW s \in State, NEW m
  PROVE  \A t \in ListRemoveFirst(s, m) : Keeps(s, t)
BY ListRemoveKeeps DEF ListRemoveFirst, Keeps

\* A position out of the list: whatever plays goes on, and the first item is
\* the current one.
LEMMA PlayIndexMisses ==
  ASSUME NEW s \in State, NEW i, ~ IsValidPosition(s, i)
  PROVE  \A t \in PlayIndex(s, i) :
           /\ t \in State /\ t.expanding = s.expanding
           /\ t.mediaList = s.mediaList /\ t.status = s.status /\ t.listening = s.listening
           /\ t.nextIndex = s.nextIndex /\ t.prevIndex = s.prevIndex
           /\ Loaded(s) => Loaded(t)
           /\ s.mediaList = <<>> => t = s
           /\ s.mediaList # <<>> => t.missed /\ t.currentIndex = 0 /\ Good(t)
<1> DEFINE z == [s EXCEPT !.currentIndex = 0, !.missed = TRUE]
<1>1. Len(s.mediaList) \in Nat /\ 0 \in Index
  BY DEF State, Index
<1>2. PlayIndex(s, i) = IF Size(s) = 0 THEN {s} ELSE {z}
  BY DEF PlayIndex
<1>3. /\ z \in State /\ z.expanding = s.expanding /\ z.listening = s.listening
      /\ z.mediaList = s.mediaList /\ z.status = s.status
      /\ z.nextIndex = s.nextIndex /\ z.prevIndex = s.prevIndex
      /\ z.loaded = s.loaded /\ z.player = s.player
      /\ z.missed = TRUE /\ z.currentIndex = 0
  BY <1>1 DEF State
<1> HIDE DEF z
<1>4. Size(s) = 0 <=> s.mediaList = <<>>
  BY <1>1 DEF Size, State
<1>5. Loaded(s) => Loaded(z)
  BY <1>3 DEF Loaded
<1>6. ASSUME s.mediaList # <<>> PROVE Good(z)
  <2>1. s.mediaList \in Seq(Media) /\ 0 \in 0..Len(s.mediaList) - 1
    BY <1>1, <1>4, <1>6 DEF State, Size
  <2>2. GetMedia(z, z.currentIndex) \in Media
    BY <1>3, <2>1, GetMediaAt DEF MediaAt
  <2> QED BY <1>3, <2>2 DEF Good, Followed
<1> QED BY <1>2, <1>3, <1>4, <1>5, <1>6

\* load(): what is in range is played; a list without a media is not listened
\* to.
LEMMA LoadListPlays ==
  ASSUME NEW s \in State, NEW list \in Seq(Media), NEW i
  PROVE  \A t \in LoadList(s, list, i) :
           /\ t \in State /\ t.expanding = s.expanding
           /\ Loaded(s) => Loaded(t)
           /\ Good(t) /\ Pointed(t)
<1> DEFINE empty == <<>>
           t == [s EXCEPT !.mediaList = list, !.previous = empty, !.listening = FALSE]
           d == IF IsValidPosition(t, i) THEN i ELSE 0
           u == [t EXCEPT !.listening = TRUE, !.currentIndex = d]
           Wanted(v) == /\ v \in State /\ v.expanding = s.expanding
                        /\ Loaded(s) => Loaded(v)
                        /\ Good(v)
<1>1. LoadList(s, list, i) =
        IF list = <<>> THEN {t} ELSE Then(PlayIndex(u, i), Determine)
  BY DEF LoadList
<1>2. empty \in Seq(Index)
  OBVIOUS
<1> HIDE DEF empty
<1>3. /\ t \in State /\ t.mediaList = list /\ t.expanding = s.expanding
      /\ t.loaded = s.loaded /\ t.player = s.player /\ t.listening = FALSE
  BY <1>2 DEF State
<1> HIDE DEF t
<1>4. d \in Index
  BY DEF IsValidPosition, Index
<1> HIDE DEF d
<1>5. /\ u \in State /\ u.mediaList = list /\ u.expanding = s.expanding
      /\ u.loaded = s.loaded /\ u.player = s.player
  BY <1>3, <1>4 DEF State
<1> HIDE DEF u
<1>6. Wanted(t) /\ Pointed(t)
  BY <1>3 DEF Good, Followed, Pointed, Loaded
<1>7. ASSUME list # <<>>, NEW v \in PlayIndex(u, i)
      PROVE  Wanted(v)
  <2>1. CASE IsValidPosition(u, i)
    <3>1. Plays(u, v)
      BY <1>5, <1>7, <2>1, PlayIndexPlays DEF IsValidPosition
    <3> QED BY <1>5, <3>1 DEF Plays
  <2>2. CASE ~ IsValidPosition(u, i)
    <3>1. Loaded(s) => Loaded(u)
      BY <1>5 DEF Loaded
    <3> QED BY <1>5, <1>7, <2>2, <3>1, PlayIndexMisses
  <2> QED BY <2>1, <2>2
<1>8. ASSUME NEW v, Wanted(v), NEW w \in Determine(v)
      PROVE  Wanted(w) /\ Pointed(w)
  <2>1. Steady(v, w) /\ Pointed(w)
    BY <1>8, DeterminePointed
  <2> QED BY <1>8, <2>1, SteadyFollowed DEF Steady
<1>9. \A w \in Then(PlayIndex(u, i), Determine) : \E v \in PlayIndex(u, i) :
        w \in Determine(v) \/ (w = v /\ v.status # "ok")
  <2>1. \A w \in UNION {IF v.status = "ok" THEN Determine(v) ELSE {v} : v \in PlayIndex(u, i)} :
          \E v \in PlayIndex(u, i) : w \in IF v.status = "ok" THEN Determine(v) ELSE {v}
    OBVIOUS
  <2> QED BY <2>1 DEF Then
<1>10. list # <<>> => \A w \in Then(PlayIndex(u, i), Determine) : Wanted(w) /\ Pointed(w)
  <2>1. \A w : w.status # "ok" => Pointed(w)
    BY DEF Pointed
  <2> HIDE DEF Wanted
  <2> QED BY <1>7, <1>8, <1>9, <2>1
<1> QED BY <1>1, <1>6, <1>10

-----------------------------------------------------------------------------
(* Loops over a list of media.                                              *)

\* n passes that stay in X, and what they make of base, pass by pass.
Passes(n, X) == [1..n -> [X -> X]]

Runs(X, base, n, pass, g) ==
  /\ g \in [0..n -> X]
  /\ \A i \in 0..n : g[i] = IF i = 0 THEN base ELSE pass[i][g[i - 1]]

\* The passes of a loop can all be made.
LEMMA LoopExists ==
  ASSUME NEW X, NEW base \in X, NEW n \in Nat, NEW pass \in Passes(n, X)
  PROVE  \E g : Runs(X, base, n, pass, g)
<1> USE DEF Passes, Runs
<1> DEFINE Made(k) == \E g : Runs(X, base, k, pass, g)
           Stuck == {k \in 0..n : ~ Made(k)}
<1>1. ASSUME Stuck # {} PROVE FALSE
  <2>1. Stuck \subseteq Nat
    OBVIOUS
  <2>2. PICK k \in Stuck : \A j \in Stuck : k <= j
    <3> HIDE DEF Stuck
    <3> QED BY <1>1, <2>1, LeastOfPositions
  <2>3. Runs(X, base, 0, pass, [i \in 0..0 |-> base])
    OBVIOUS
  <2>4. k # 0
    BY <2>3
  <2>5. k \in 1..n /\ k - 1 \in 0..n
    BY <2>4
  <2>6. k - 1 \notin Stuck
    <3> HIDE DEF Stuck
    <3> QED BY <2>2, <2>5
  <2>7. PICK h : Runs(X, base, k - 1, pass, h)
    BY <2>5, <2>6
  <2> DEFINE g == [i \in 0..k |-> IF i = k THEN pass[k][h[k - 1]] ELSE h[i]]
  <2>8. pass[k][h[k - 1]] \in X
    BY <2>5, <2>7
  <2>9. g \in [0..k -> X]
    BY <2>5, <2>7, <2>8
  <2>10. ASSUME NEW i \in 0..k
         PROVE  g[i] = IF i = 0 THEN base ELSE pass[i][g[i - 1]]
    <3>1. CASE i = k
      BY <2>5, <3>1
    <3>2. CASE i # k
      <4>1. i \in 0..k - 1 /\ g[i] = h[i] /\ (i # 0 => g[i - 1] = h[i - 1])
        BY <2>5, <3>2
      <4> QED BY <2>7, <4>1
    <3> QED BY <3>1, <3>2
  <2>11. Runs(X, base, k, pass, g)
    BY <2>9, <2>10
  <2> QED BY <2>11
<1> QED BY <1>1

\* A loop that starts in X, and whose passes stay in X, ends in X.
LEMMA LoopStays ==
  ASSUME NEW X, NEW n \in Nat, NEW f, f[0] \in X,
         \A i \in 1..n : f[i - 1] \in X => f[i] \in X
  PROVE  f[n] \in X
<1> DEFINE Out == {k \in 0..n : f[k] \notin X}
<1>1. ASSUME Out # {} PROVE FALSE
  <2>0. Out \subseteq Nat
    OBVIOUS
  <2>1. PICK k \in Out : \A j \in Out : k <= j
    <3> HIDE DEF Out
    <3> QED BY <1>1, <2>0, LeastOfPositions
  <2>2. k \in 1..n /\ k - 1 \in 0..n
    BY <2>1
  <2>3. f[k - 1] \in X
    BY <2>1, <2>2
  <2> QED BY <2>2, <2>3
<1> QED BY <1>1

\* append().
LEMMA AppendStays ==
  ASSUME NEW K, K \subseteq State, NEW s \in K, NEW list \in Seq(Media),
         \A t \in K, m \in Media : t.status = "ok" => ListAdd(t, m) \subseteq K
  PROVE  Loop({s}, Len(list), LAMBDA t, i : ListAdd(t, list[i])) \subseteq K
<1> DEFINE n == Len(list)
           After(S, i) == UNION {IF t.status = "ok" THEN ListAdd(t, list[i]) ELSE {t} : t \in S}
           Eq(f) == f = [i \in 0..n |-> IF i = 0 THEN {s} ELSE After(f[i - 1], i)]
           f == CHOOSE h : Eq(h)
           pass == [i \in 1..n |-> [S \in SUBSET K |-> After(S, i)]]
<1>1. n \in Nat
  OBVIOUS
<1>2. \A i \in 1..n, S \in SUBSET K : After(S, i) \in SUBSET K
  <2>1. \A i \in 1..n : list[i] \in Media
    OBVIOUS
  <2> QED BY <2>1
<1>3. Loop({s}, Len(list), LAMBDA t, i : ListAdd(t, list[i])) = f[n]
  BY DEF Loop, Then
<1> HIDE DEF n, After
<1>4. pass \in Passes(n, SUBSET K)
  BY <1>2 DEF Passes
<1>5. PICK g : Runs(SUBSET K, {s}, n, pass, g)
  <2> HIDE DEF pass, f, Eq
  <2>1. {s} \in SUBSET K
    OBVIOUS
  <2> QED BY <1>1, <1>4, <2>1, LoopExists
<1>6. Eq(g)
  <2>1. \A i \in 0..n : g[i] = IF i = 0 THEN {s} ELSE After(g[i - 1], i)
    <3> SUFFICES ASSUME NEW i \in 0..n, i # 0 PROVE pass[i][g[i - 1]] = After(g[i - 1], i)
      <4> HIDE DEF pass, f, Eq
      <4> QED BY <1>5 DEF Runs
    <3>1. i \in 1..n /\ g[i - 1] \in SUBSET K
      BY <1>1, <1>5 DEF Runs
    <3> QED BY <3>1
  <2> QED BY <1>5, <2>1 DEF Runs
<1>7. Eq(f)
  <2> HIDE DEF Eq
  <2> QED BY <1>6
<1> HIDE DEF f
<1>8. f[0] \in SUBSET K /\ \A i \in 1..n : f[i - 1] \in SUBSET K => f[i] \in SUBSET K
  <2>1. \A i \in 0..n : f[i] = IF i = 0 THEN {s} ELSE After(f[i - 1], i)
    BY <1>7
  <2>2. f[0] = {s}
    BY <1>1, <2>1
  <2>3. \A i \in 1..n : f[i] = After(f[i - 1], i)
    BY <1>1, <2>1
  <2> QED BY <1>2, <2>2, <2>3
<1>9. f[n] \in SUBSET K
  BY <1>1, <1>8, LoopStays
<1> QED BY <1>3, <1>9 DEF n

\* insertNext().
LEMMA InsertNextStays ==
  ASSUME NEW K, K \subseteq State, NEW s \in K, NEW list \in Seq(Media),
         \A t \in K, m \in Media : \A j : t.status = "ok" => ListInsert(t, j, m) \subseteq K
  PROVE  Loop({s}, Len(list), LAMBDA t, i : ListInsert(t, s.currentIndex + i, list[i])) \subseteq K
<1> DEFINE n == Len(list)
           After(S, i) == UNION {IF t.status = "ok" THEN ListInsert(t, s.currentIndex + i, list[i]) ELSE {t} : t \in S}
           Eq(f) == f = [i \in 0..n |-> IF i = 0 THEN {s} ELSE After(f[i - 1], i)]
           f == CHOOSE h : Eq(h)
           pass == [i \in 1..n |-> [S \in SUBSET K |-> After(S, i)]]
<1>1. n \in Nat
  OBVIOUS
<1>2. \A i \in 1..n, S \in SUBSET K : After(S, i) \in SUBSET K
  <2>1. \A i \in 1..n : list[i] \in Media
    OBVIOUS
  <2> QED BY <2>1
<1>3. Loop({s}, Len(list), LAMBDA t, i : ListInsert(t, s.currentIndex + i, list[i])) = f[n]
  BY DEF Loop, Then
<1> HIDE DEF n, After
<1>4. pass \in Passes(n, SUBSET K)
  BY <1>2 DEF Passes
<1>5. PICK g : Runs(SUBSET K, {s}, n, pass, g)
  <2> HIDE DEF pass, f, Eq
  <2>1. {s} \in SUBSET K
    OBVIOUS
  <2> QED BY <1>1, <1>4, <2>1, LoopExists
<1>6. Eq(g)
  <2>1. \A i \in 0..n : g[i] = IF i = 0 THEN {s} ELSE After(g[i - 1], i)
    <3> SUFFICES ASSUME NEW i \in 0..n, i # 0 PROVE pass[i][g[i - 1]] = After(g[i - 1], i)
      <4> HIDE DEF pass, f, Eq
      <4> QED BY <1>5 DEF Runs
    <3>1. i \in 1..n /\ g[i - 1] \in SUBSET K
      BY <1>1, <1>5 DEF Runs
    <3> QED BY <3>1
  <2> QED BY <1>5, <2>1 DEF Runs
<1>7. Eq(f)
  <2> HIDE DEF Eq
  <2> QED BY <1>6
<1> HIDE DEF f
<1>8. f[0] \in SUBSET K /\ \A i \in 1..n : f[i - 1] \in SUBSET K => f[i] \in SUBSET K
  <2>1. \A i \in 0..n : f[i] = IF i = 0 THEN {s} ELSE After(f[i - 1], i)
    BY <1>7
  <2>2. f[0] = {s}
    BY <1>1, <2>1
  <2>3. \A i \in 1..n : f[i] = After(f[i - 1], i)
    BY <1>1, <2>1
  <2> QED BY <1>2, <2>2, <2>3
<1>9. f[n] \in SUBSET K
  BY <1>1, <1>8, LoopStays
<1> QED BY <1>3, <1>9 DEF n

\* remove(location).
LEMMA ListRemoveLocationStays ==
  ASSUME NEW K, K \subseteq State, NEW s \in K, NEW m,
         \A t \in K : ListRemoveFirst(t, m) \subseteq K
  PROVE  ListRemoveLocation(s, m) \subseteq K
<1> DEFINE n == Size(s)
           After(S, i) == UNION {IF t.status = "ok" THEN ListRemoveFirst(t, m) ELSE {t} : t \in S}
           Eq(f) == f = [i \in 0..n |-> IF i = 0 THEN {s} ELSE After(f[i - 1], i)]
           f == CHOOSE h : Eq(h)
           pass == [i \in 1..n |-> [S \in SUBSET K |-> After(S, i)]]
<1>1. n \in Nat
  BY DEF State, Size
<1>2. \A i \in 1..n, S \in SUBSET K : After(S, i) \in SUBSET K
  OBVIOUS
<1>3. ListRemoveLocation(s, m) = f[n]
  BY DEF ListRemoveLocation, Loop, Then
<1> HIDE DEF n, After
<1>4. pass \in Passes(n, SUBSET K)
  BY <1>2 DEF Passes
<1>5. PICK g : Runs(SUBSET K, {s}, n, pass, g)
  <2> HIDE DEF pass, f, Eq
  <2>1. {s} \in SUBSET K
    OBVIOUS
  <2> QED BY <1>1, <1>4, <2>1, LoopExists
<1>6. Eq(g)
  <2>1. \A i \in 0..n : g[i] = IF i = 0 THEN {s} ELSE After(g[i - 1], i)
    <3> SUFFICES ASSUME NEW i \in 0..n, i # 0 PROVE pass[i][g[i - 1]] = After(g[i - 1], i)
      <4> HIDE DEF pass, f, Eq
      <4> QED BY <1>5 DEF Runs
    <3>1. i \in 1..n /\ g[i - 1] \in SUBSET K
      BY <1>1, <1>5 DEF Runs
    <3> QED BY <3>1
  <2> QED BY <1>5, <2>1 DEF Runs
<1>7. Eq(f)
  <2> HIDE DEF Eq
  <2> QED BY <1>6
<1> HIDE DEF f
<1>8. f[0] \in SUBSET K /\ \A i \in 1..n : f[i - 1] \in SUBSET K => f[i] \in SUBSET K
  <2>1. \A i \in 0..n : f[i] = IF i = 0 THEN {s} ELSE After(f[i - 1], i)
    BY <1>7
  <2>2. f[0] = {s}
    BY <1>1, <2>1
  <2>3. \A i \in 1..n : f[i] = After(f[i - 1], i)
    BY <1>1, <2>1
  <2> QED BY <1>2, <2>2, <2>3
<1>9. f[n] \in SUBSET K
  BY <1>1, <1>8, LoopStays
<1> QED BY <1>3, <1>9 DEF n

\* expand().
LEMMA ExpandStays ==
  ASSUME NEW K, K \subseteq State, NEW s \in K, NEW children \in Seq(Media),
         ListRemove(s, s.currentIndex) \subseteq K,
         \A t \in K, m \in Media : \A j : t.status = "ok" => ListInsert(t, j, m) \subseteq K
  PROVE  Expand(s, children) \subseteq K
<1> DEFINE n == Len(children)
           After(S, i) == UNION {IF t.status = "ok" THEN ListInsert(t, t.currentIndex, Reverse(children)[i]) ELSE {t} : t \in S}
           Eq(f) == f = [i \in 0..n |-> IF i = 0 THEN ListRemove(s, s.currentIndex) ELSE After(f[i - 1], i)]
           f == CHOOSE h : Eq(h)
           pass == [i \in 1..n |-> [S \in SUBSET K |-> After(S, i)]]
<1>1. n \in Nat
  OBVIOUS
<1>2. \A i \in 1..n, S \in SUBSET K : After(S, i) \in SUBSET K
  <2>1. \A i \in 1..n : Reverse(children)[i] \in Media
    BY DEF Reverse
  <2> QED BY <2>1
<1>3. Expand(s, children) = f[n]
  BY DEF Expand, Loop, Then
<1> HIDE DEF n, After
<1>4. pass \in Passes(n, SUBSET K)
  BY <1>2 DEF Passes
<1>5. PICK g : Runs(SUBSET K, ListRemove(s, s.currentIndex), n, pass, g)
  <2> HIDE DEF pass, f, Eq
  <2>1. ListRemove(s, s.currentIndex) \in SUBSET K
    OBVIOUS
  <2> QED BY <1>1, <1>4, <2>1, LoopExists
<1>6. Eq(g)
  <2>1. \A i \in 0..n : g[i] = IF i = 0 THEN ListRemove(s, s.currentIndex) ELSE After(g[i - 1], i)
    <3> SUFFICES ASSUME NEW i \in 0..n, i # 0 PROVE pass[i][g[i - 1]] = After(g[i - 1], i)
      <4> HIDE DEF pass, f, Eq
      <4> QED BY <1>5 DEF Runs
    <3>1. i \in 1..n /\ g[i - 1] \in SUBSET K
      BY <1>1, <1>5 DEF Runs
    <3> QED BY <3>1
  <2> QED BY <1>5, <2>1 DEF Runs
<1>7. Eq(f)
  <2> HIDE DEF Eq
  <2> QED BY <1>6
<1> HIDE DEF f
<1>8. f[0] \in SUBSET K /\ \A i \in 1..n : f[i - 1] \in SUBSET K => f[i] \in SUBSET K
  <2>1. \A i \in 0..n : f[i] = IF i = 0 THEN ListRemove(s, s.currentIndex) ELSE After(f[i - 1], i)
    BY <1>7
  <2>2. f[0] = ListRemove(s, s.currentIndex)
    BY <1>1, <2>1
  <2>3. \A i \in 1..n : f[i] = After(f[i - 1], i)
    BY <1>1, <2>1
  <2> QED BY <1>2, <2>2, <2>3
<1>9. f[n] \in SUBSET K
  BY <1>1, <1>8, LoopStays
<1> QED BY <1>3, <1>9 DEF n

-----------------------------------------------------------------------------
(* The inductive invariant.                                                 *)

\* CurrentIsPlaying and SavedListIsPlayed are not inductive by themselves: a
\* player that stopped or ended may be started again, and what plays is then
\* still the media at the position.
IInv ==
  /\ TypeOK
  /\ Loaded(pl)
  /\ NeighboursValid
  /\ Settled => Good(pl)

\* What a call has to leave for it.
Serves(t) ==
  /\ t \in State /\ t.expanding = pl.expanding
  /\ Loaded(t)
  /\ Settled => Pointed(t) /\ Good(t)

LEMMA PointedValid == NeighboursValid <=> (Settled => Pointed(pl))
BY DEF NeighboursValid, Settled, Pointed, Neighbours

LEMMA KeepsServes ==
  ASSUME IInv, NEW t, Keeps(pl, t), Pointed(t)
  PROVE  Serves(t)
BY DEF IInv, Keeps, Serves, Settled

LEMMA PlaysServes ==
  ASSUME NEW s, NEW t, Plays(s, t), s.expanding = pl.expanding
  PROVE  Serves(t)
BY DEF Plays, Serves

LEMMA StepServes ==
  ASSUME IInv, pl.status = "ok", Serves(pl'), UNCHANGED <<expansions, lastList>>
  PROVE  IInv'
<1>1. TypeOK'
  BY DEF IInv, TypeOK, Serves
<1>2. Settled' => Settled
  BY DEF Settled, Serves
<1>3. NeighboursValid'
  BY <1>2 DEF Serves, NeighboursValid, Settled, Pointed, Neighbours
<1> QED BY <1>1, <1>2, <1>3 DEF IInv, Serves

LEMMA CallServes ==
  ASSUME IInv, NEW S, \A t \in S : Serves(t), Call(S)
  PROVE  IInv'
BY StepServes DEF Call

LEMMA SamePointed ==
  ASSUME NEW s, NEW t, Same(s, t), Pointed(s)
  PROVE  Pointed(t)
BY DEF Same, Steady, Pointed, HasCurrentMedia, Neighbours, IsValidPosition, Size

\* The calls that end in Determine.
LEMMA DetermineServes ==
  ASSUME IInv, NEW s, Steady(pl, s)
  PROVE  \A t \in Determine(s) : Serves(t)
<1>1. s \in State
  BY DEF Steady
<1>2. \A t \in Determine(s) : Keeps(pl, t) /\ Pointed(t)
  BY <1>1, DeterminePointed, SteadyTwice, SteadyKeeps
<1> QED BY <1>2, KeepsServes

LEMMA ThenDetermineServes ==
  ASSUME IInv, NEW S, \A t \in S : Keeps(pl, t)
  PROVE  \A t \in Then(S, Determine) : Serves(t)
BY ThenDetermine, KeepsServes

-----------------------------------------------------------------------------
(* The calls that play, stop and choose a mode.                             *)

LEMMA LoadServes ==
  ASSUME IInv, NEW list \in Lists, NEW i
  PROVE  \A t \in LoadList(pl, list, i) : Serves(t)
<1>1. list \in Seq(Media)
  BY ListsAssumption
<1>2. pl \in State /\ Loaded(pl)
  BY DEF IInv, TypeOK
<1> QED BY <1>1, <1>2, LoadListPlays DEF Serves

LEMMA PlayAtServes ==
  ASSUME IInv, NEW i
  PROVE  \A t \in PlayIndex(pl, i) : Serves(t)
<1>1. pl \in State /\ Loaded(pl)
  BY DEF IInv, TypeOK
<1>2. CASE IsValidPosition(pl, i)
  BY <1>1, <1>2, PlayIndexPlays, PlaysServes DEF IsValidPosition
<1>3. CASE ~ IsValidPosition(pl, i)
  <2> SUFFICES ASSUME NEW t \in PlayIndex(pl, i)
               PROVE  Serves(t)
    OBVIOUS
  <2>1. /\ t \in State /\ t.expanding = pl.expanding /\ Loaded(t)
        /\ t.mediaList = pl.mediaList /\ t.status = pl.status /\ t.listening = pl.listening
        /\ t.nextIndex = pl.nextIndex /\ t.prevIndex = pl.prevIndex
        /\ pl.mediaList = <<>> => t = pl
        /\ pl.mediaList # <<>> => Good(t)
    BY <1>1, <1>3, PlayIndexMisses
  <2>2. Settled => Good(t)
    BY <2>1 DEF IInv
  <2>3. ASSUME Settled, t.listening PROVE HasCurrentMedia(pl)
    <3>1. GetMedia(pl, pl.currentIndex) \in Media
      BY <2>1, <2>3 DEF IInv, Good, Followed, Settled
    <3> QED BY <3>1, MediaAssumption DEF GetMedia, HasCurrentMedia
  <2>4. Settled => Pointed(t)
    <3>1. Settled /\ t.listening => Neighbours(pl)
      BY <2>1, <2>3 DEF IInv, NeighboursValid, Neighbours
    <3> QED BY <2>1, <3>1 DEF Pointed, Neighbours, IsValidPosition, Size
  <2> QED BY <2>1, <2>2, <2>4 DEF Serves
<1> QED BY <1>2, <1>3

LEMMA PlayNextServes ==
  ASSUME NEW s \in State, s.expanding = pl.expanding
  PROVE  \A t \in PlayNext(s) : Serves(t)
BY PlayNextPlays, PlaysServes

LEMMA PlayerSet ==
  ASSUME NEW s \in State, NEW p \in {"stopped", "opening", "playing", "paused", "ended"}
  PROVE  LET t == [s EXCEPT !.player = p]
         IN /\ t \in State /\ t.player = p
            /\ t.mediaList = s.mediaList /\ t.currentIndex = s.currentIndex
            /\ t.nextIndex = s.nextIndex /\ t.prevIndex = s.prevIndex
            /\ t.expanding = s.expanding /\ t.missed = s.missed /\ t.loaded = s.loaded
            /\ t.listening = s.listening /\ t.heard = s.heard
            /\ t.status = s.status /\ t.saved = s.saved
BY DEF State

LEMMA PreviousServes ==
  ASSUME IInv, pl.status = "ok", pl.prevIndex # -1, pl.currentIndex > 0,
         NEW s, s = [pl EXCEPT !.currentIndex = pl.prevIndex,
                               !.previous = IF @ = <<>> THEN @ ELSE Front(@)],
         NEW t \in IF HasCurrentMedia(s) THEN PlayIndex(s, s.currentIndex)
                   ELSE {[s EXCEPT !.player = "stopped"]}
  PROVE  Serves(t)
<1> DEFINE q == IF pl.previous = <<>> THEN pl.previous ELSE Front(pl.previous)
<1>1. pl \in State /\ Loaded(pl) /\ pl.previous \in Seq(Index) /\ pl.prevIndex \in Index
  BY DEF IInv, TypeOK, State
<1>2. q \in Seq(Index)
  <2>1. \A p \in Seq(Index) : p # <<>> => Front(p) \in Seq(Index)
    BY DEF Front
  <2> QED BY <1>1, <2>1
<1>3. s = [pl EXCEPT !.currentIndex = pl.prevIndex, !.previous = q]
  OBVIOUS
<1> HIDE DEF q
<1>4. /\ s \in State /\ s.currentIndex = pl.prevIndex /\ s.mediaList = pl.mediaList
      /\ s.expanding = pl.expanding /\ s.missed = pl.missed /\ s.loaded = pl.loaded
      /\ s.listening = pl.listening
  BY <1>1, <1>2, <1>3 DEF State
<1>5. CASE HasCurrentMedia(s)
  <2>1. s.currentIndex \in 0..Size(s) - 1
    BY <1>5 DEF HasCurrentMedia, IsValidPosition
  <2> QED BY <1>4, <1>5, <2>1, PlayIndexPlays, PlaysServes
\* Only a playlist that is not settled, or does not play, gets here.
<1>6. CASE ~ HasCurrentMedia(s)
  <2>1. t = [s EXCEPT !.player = "stopped"]
    BY <1>6
  <2>2. /\ t \in State /\ t.currentIndex = s.currentIndex /\ t.mediaList = s.mediaList
        /\ t.expanding = pl.expanding
        /\ t.listening = pl.listening /\ t.player = "stopped"
    BY <1>4, <2>1, PlayerSet
  <2>3. ~ HasCurrentMedia(t)
    BY <1>6, <2>2 DEF HasCurrentMedia, IsValidPosition, Size
  <2>4. ASSUME Settled, Good(pl), pl.listening PROVE FALSE
    <3>1. ~ HasCurrentMedia(pl)
      BY <1>4, <1>6, <2>4 DEF IInv, NeighboursValid, HasCurrentMedia, IsValidPosition, Size
    <3>2. GetMedia(pl, pl.currentIndex) = NoMedia
      BY <3>1 DEF HasCurrentMedia, GetMedia
    <3> QED BY <2>4, <3>2, MediaAssumption DEF Good, Followed, Settled
  <2>5. Settled => Good(t)
    BY <2>2, <2>4 DEF IInv, Good, Followed
  <2> QED BY <2>2, <2>3, <2>5 DEF Serves, Loaded, Pointed
<1> QED BY <1>5, <1>6

LEMMA OnPlayingServes ==
  ASSUME IInv, pl.player \in {"opening", "paused"}
  PROVE  Serves(OnPlaying(pl))
<1> DEFINE p == [pl EXCEPT !.player = "playing"]
           u == SaveMediaList(p)
           v == SavePosition(u, TRUE)
           w == SaveCurrentMedia(v)
<1>1. pl \in State /\ Loaded(pl) /\ (Settled => Pointed(pl))
  BY PointedValid DEF IInv, TypeOK
<1>2. /\ p \in State /\ p.mediaList = pl.mediaList /\ p.currentIndex = pl.currentIndex
      /\ p.nextIndex = pl.nextIndex /\ p.prevIndex = pl.prevIndex
      /\ p.expanding = pl.expanding /\ p.missed = pl.missed /\ p.loaded = pl.loaded
      /\ p.listening = pl.listening /\ p.status = pl.status /\ p.saved = pl.saved
  BY <1>1, PlayerSet
<1>3. OnPlaying(pl) = w
  BY DEF OnPlaying
<1> HIDE DEF p
<1>4. Same(p, u) /\ (HasCurrentMedia(p) => u.saved.list = p.mediaList)
  BY <1>2, SaveMediaListSame
<1> HIDE DEF u
<1>5. Same(u, v) /\ v.saved.list = u.saved.list
  BY <1>4, SavePositionSame DEF Same, Steady
<1> HIDE DEF v
<1>6. Same(v, w) /\ w.saved.list = v.saved.list
  BY <1>5, SaveCurrentMediaSame DEF Same, Steady
<1> HIDE DEF w
<1>7. Same(p, w)
  BY <1>4, <1>5, <1>6, SteadyTwice DEF Same
<1>8. Pointed(pl) => Pointed(p)
  BY <1>2 DEF Pointed, HasCurrentMedia, Neighbours, IsValidPosition, Size
<1>9. Loaded(p)
  BY <1>1, <1>2 DEF Loaded
<1>10. ASSUME Good(pl) PROVE Good(w)
  <2>1. Followed(p)
    BY <1>2, <1>10, GetMediaAt DEF Good, Followed
  <2>2. Followed(w)
    BY <1>7, <2>1, SteadyFollowed DEF Same
  <2>3. p.status = "ok" /\ p.listening => HasCurrentMedia(p)
    BY <2>1, MediaAssumption DEF Followed, GetMedia, HasCurrentMedia
  <2>4. w.status = p.status /\ w.listening = p.listening /\ w.mediaList = p.mediaList
    BY <1>7 DEF Same, Steady
  <2> QED BY <1>4, <1>5, <1>6, <2>2, <2>3, <2>4 DEF Good
<1>11. w \in State /\ w.expanding = pl.expanding
  BY <1>2, <1>7 DEF Same, Steady
<1>12. Loaded(w) /\ (Settled => Pointed(w))
  BY <1>1, <1>7, <1>8, <1>9, SteadyFollowed, SamePointed DEF Same
<1> QED BY <1>3, <1>10, <1>11, <1>12 DEF Serves, IInv

\* Only the state of the player changes, and it does not play.
LEMMA PlayerSetServes ==
  ASSUME IInv, NEW p \in {"opening", "playing", "paused", "ended"},
         pl.player # "stopped" \/ pl.loaded \in Media,
         p = "playing" => ~ pl.heard
  PROVE  LET t == [pl EXCEPT !.player = p] IN Serves(t) /\ t.player = p
<1> DEFINE t == [pl EXCEPT !.player = p]
<1>1. pl \in State /\ Loaded(pl) /\ (Settled => Pointed(pl))
  BY PointedValid DEF IInv, TypeOK
<1>2. /\ t \in State /\ t.mediaList = pl.mediaList /\ t.currentIndex = pl.currentIndex
      /\ t.nextIndex = pl.nextIndex /\ t.prevIndex = pl.prevIndex /\ t.heard = pl.heard
      /\ t.expanding = pl.expanding /\ t.missed = pl.missed /\ t.loaded = pl.loaded
      /\ t.listening = pl.listening /\ t.status = pl.status /\ t.player = p
  BY <1>1 DEF State
<1> HIDE DEF t
<1>3. Pointed(pl) => Pointed(t)
  BY <1>2 DEF Pointed, HasCurrentMedia, Neighbours, IsValidPosition, Size
<1>4. Loaded(t)
  BY <1>1, <1>2 DEF Loaded
<1>5. Good(pl) => Good(t)
  BY <1>2, GetMediaAt DEF Good, Followed
<1>6. Serves(t)
  BY <1>1, <1>2, <1>3, <1>4, <1>5 DEF Serves, IInv
<1> QED BY <1>2, <1>6 DEF t

LEMMA SameServes ==
  ASSUME NEW s, NEW t, Serves(s), Same(s, t)
  PROVE  Serves(t)
BY SteadyFollowed, SamePointed DEF Serves, Same, Steady

LEMMA UserServes ==
  ASSUME IInv, User
  PROVE  IInv'
<1>1. pl \in State /\ Loaded(pl)
  BY DEF IInv, TypeOK
<1>2. \A S : (\A t \in S : Serves(t)) /\ Call(S) => IInv'
  BY CallServes
<1>3. ASSUME NEW list \in Lists, NEW i \in -1..MaxLen, Load(list, i)
      PROVE  IInv'
  BY <1>2, <1>3, LoadServes DEF Load
<1>4. CASE SkipNext
  BY <1>1, <1>2, <1>4, PlayNextServes DEF SkipNext
<1>5. CASE Previous
  <2> DEFINE s == [pl EXCEPT !.currentIndex = pl.prevIndex,
                             !.previous = IF @ = <<>> THEN @ ELSE Front(@)]
             S == IF HasCurrentMedia(s) THEN PlayIndex(s, s.currentIndex)
                  ELSE {[s EXCEPT !.player = "stopped"]}
  <2>1. pl.prevIndex # -1 /\ pl.currentIndex > 0 /\ Call(S)
    BY <1>5 DEF Previous
  <2>2. pl.status = "ok"
    BY <2>1 DEF Call
  <2>3. \A t \in S : Serves(t)
    BY <2>1, <2>2, PreviousServes
  <2> HIDE DEF S
  <2> QED BY <1>2, <2>1, <2>3
<1>6. CASE Stop
  <2>1. Serves(StopPlayback(pl))
    BY <1>1, StopPlays, PlaysServes
  <2> QED BY <1>2, <1>6, <2>1 DEF Stop
<1>7. CASE Shuffle
  <2> DEFINE q == IF pl.shuffling THEN <<>> ELSE pl.previous
             b == ~ pl.shuffling
             s == [pl EXCEPT !.previous = q, !.shuffling = b]
             u == SavePosition(s, FALSE)
  <2>1. q \in Seq(Index) /\ b \in BOOLEAN
    BY <1>1 DEF State
  <2>2. Call(Determine(u))
    BY <1>7 DEF Shuffle
  <2> HIDE DEF q, b
  <2>3. s \in State /\ Steady(pl, s)
    BY <1>1, <2>1 DEF State, Steady
  <2> HIDE DEF s
  <2>4. Steady(pl, u)
    BY <2>3, SavePositionSame, SteadyTwice DEF Same
  <2> HIDE DEF u
  <2> QED BY <1>2, <2>2, <2>4, DetermineServes
<1>8. CASE Pause
  <2> DEFINE p == [pl EXCEPT !.player = "paused"]
  <2>1. Call({SavePosition(p, FALSE)}) /\ pl.player = "playing"
    BY <1>8 DEF Pause
  <2>2. Serves(p)
    BY <2>1, PlayerSetServes
  <2> HIDE DEF p
  <2>3. Serves(SavePosition(p, FALSE))
    BY <2>2, SavePositionSame, SameServes DEF Serves
  <2> QED BY <1>2, <2>1, <2>3
<1>9. CASE Play
  <2>1. CASE pl.player = "paused" /\ Call({OnPlaying(pl)})
    BY <1>2, <2>1, OnPlayingServes
  <2>2. CASE pl.player \in {"stopped", "ended"} /\ Call({[pl EXCEPT !.player = "opening"]})
    <3>1. pl.loaded \in Media
      BY <1>1, <1>9 DEF Play, State
    <3>2. Serves([pl EXCEPT !.player = "opening"])
      BY <3>1, PlayerSetServes
    <3> QED BY <1>2, <2>2, <3>2
  <2> QED BY <1>9, <2>1, <2>2 DEF Play
<1>10. ASSUME NEW r \in RepeatChoices, SetRepeatType(r)
       PROVE  IInv'
  <2> DEFINE s == [pl EXCEPT !.repeating = r]
             u == SavePosition(s, FALSE)
  <2>1. r \in Repeats
    BY BoundsAssumption DEF Repeats
  <2>2. Call(Determine(u))
    BY <1>10 DEF SetRepeatType
  <2>3. s \in State /\ Steady(pl, s)
    BY <1>1, <2>1 DEF State, Steady
  <2> HIDE DEF s
  <2>4. Steady(pl, u)
    BY <2>3, SavePositionSame, SteadyTwice DEF Same
  <2> HIDE DEF u
  <2> QED BY <1>2, <2>2, <2>4, DetermineServes
<1>11. ASSUME NEW i \in -1..MaxLen, PlayAt(i)
       PROVE  IInv'
  BY <1>2, <1>11, PlayAtServes DEF PlayAt
<1> QED BY <1>3, <1>4, <1>5, <1>6, <1>7, <1>8, <1>9, <1>10, <1>11 DEF User

-----------------------------------------------------------------------------
(* The edits.                                                               *)

\* The passes of a loop of insertions: what they keep of pl.
LEMMA InsertLoopServes ==
  ASSUME IInv, HasCurrentMedia(pl)
  PROVE  LET K == {t \in State : /\ Keeps(pl, t)
                                 /\ Settled /\ t.status = "ok" /\ t.listening
                                      => HasCurrentMedia(t) /\ Neighbours(t)}
         IN /\ pl \in K
            /\ \A t \in K, m \in Media : \A j : t.status = "ok" => ListInsert(t, j, m) \subseteq K
            /\ \A t \in K : Serves(t)
<1> DEFINE K == {t \in State : /\ Keeps(pl, t)
                               /\ Settled /\ t.status = "ok" /\ t.listening
                                    => HasCurrentMedia(t) /\ Neighbours(t)}
<1>1. pl \in State /\ Loaded(pl) /\ (Settled /\ pl.listening => Neighbours(pl))
  BY DEF IInv, TypeOK, NeighboursValid, Neighbours
<1>2. pl \in K
  BY <1>1 DEF Keeps
<1>3. ASSUME NEW t \in K, NEW m \in Media, NEW j, t.status = "ok", NEW u \in ListInsert(t, j, m)
      PROVE  u \in K
  <2>1. t \in State /\ Keeps(pl, t)
    BY <1>3
  <2>2. Keeps(t, u) /\ u \in State
    BY <1>3, <2>1, ListInsertKeeps DEF Keeps
  <2>3. Keeps(pl, u)
    BY <2>1, <2>2, KeepsTwice
  <2>4. ASSUME Settled, u.status = "ok", u.listening
        PROVE  HasCurrentMedia(u) /\ Neighbours(u)
    <3>1. ~ t.expanding /\ t.listening
      BY <1>3, <2>1, <2>4, ListInsertListens DEF Settled, Keeps
    <3>2. HasCurrentMedia(t) /\ Neighbours(t)
      BY <1>3, <2>4, <3>1
    <3> QED BY <1>3, <2>1, <2>4, <3>1, <3>2, ListInsertPoints
  <2> QED BY <2>2, <2>3, <2>4
<1>4. \A t \in K : Serves(t)
  BY <1>1 DEF Keeps, Serves, Pointed, Settled, IInv
<1> QED BY <1>2, <1>3, <1>4

LEMMA EditServes ==
  ASSUME IInv, Edit
  PROVE  IInv'
<1> DEFINE K == {t \in State : /\ Keeps(pl, t)
                               /\ Settled /\ t.status = "ok" /\ t.listening
                                    => HasCurrentMedia(t) /\ Neighbours(t)}
<1>1. pl \in State /\ K \subseteq State
  BY DEF IInv, TypeOK
<1>2. \A S : (\A t \in S : Serves(t)) /\ Call(S) => IInv'
  BY CallServes
<1>3. HasCurrentMedia(pl) =>
        /\ pl \in K /\ \A t \in K : Serves(t)
        /\ \A t \in K, m \in Media : \A j : t.status = "ok" => ListInsert(t, j, m) \subseteq K
  BY InsertLoopServes
<1> HIDE DEF K
<1>4. ASSUME NEW list \in Lists, ~ HasCurrentMedia(pl), Call(LoadList(pl, list, 0))
      PROVE  IInv'
  BY <1>2, <1>4, LoadServes
<1>5. ASSUME NEW list \in Lists, AppendList(list)
      PROVE  IInv'
  <2> DEFINE S == Loop({pl}, Len(list), LAMBDA s, i : ListAdd(s, list[i]))
  <2>1. CASE ~ HasCurrentMedia(pl)
    BY <1>4, <1>5, <2>1 DEF AppendList
  <2>2. CASE HasCurrentMedia(pl)
    <3>1. Call(S)
      BY <1>5, <2>2 DEF AppendList
    <3>2. \A t \in K, m \in Media : t.status = "ok" => ListAdd(t, m) \subseteq K
      BY <1>3, <2>2 DEF ListAdd
    <3>3. list \in Seq(Media)
      BY ListsAssumption
    <3>4. S \subseteq K
      BY <1>1, <1>3, <2>2, <3>2, <3>3, AppendStays
    <3> HIDE DEF S
    <3> QED BY <1>2, <1>3, <2>2, <3>1, <3>4
  <2> QED BY <2>1, <2>2
<1>6. ASSUME NEW list \in Lists, InsertNext(list)
      PROVE  IInv'
  <2> DEFINE S == Loop({pl}, Len(list), LAMBDA t, i : ListInsert(t, pl.currentIndex + i, list[i]))
  <2>1. CASE ~ HasCurrentMedia(pl)
    BY <1>4, <1>6, <2>1 DEF InsertNext
  <2>2. CASE HasCurrentMedia(pl)
    <3>1. Call(S)
      BY <1>6, <2>2 DEF InsertNext
    <3>2. list \in Seq(Media)
      BY ListsAssumption
    <3>3. S \subseteq K
      BY <1>1, <1>3, <2>2, <3>2, InsertNextStays
    <3> HIDE DEF S
    <3> QED BY <1>2, <1>3, <2>2, <3>1, <3>3
  <2> QED BY <2>1, <2>2
<1>7. ASSUME NEW i \in 0..MaxLen, NEW j \in 0..MaxLen, MoveItem(i, j)
      PROVE  IInv'
  <2>1. Call(Then(ListMove(pl, i, j), Determine))
    BY <1>7 DEF MoveItem
  <2>2. \A t \in ListMove(pl, i, j) : Keeps(pl, t)
    BY <1>1, <1>7, ListMoveKeeps DEF MoveItem, IsValidPosition
  <2> QED BY <1>2, <2>1, <2>2, ThenDetermineServes
<1>8. ASSUME NEW i \in 0..MaxLen, NEW m \in Media, InsertItem(i, m)
      PROVE  IInv'
  <2>1. Call(Then(ListInsert(pl, i, m), Determine))
    BY <1>8 DEF InsertItem
  <2>2. \A t \in ListInsert(pl, i, m) : Keeps(pl, t)
    BY <1>1, ListInsertKeeps
  <2> QED BY <1>2, <2>1, <2>2, ThenDetermineServes
<1> QED BY <1>5, <1>6, <1>7, <1>8 DEF Edit

LEMMA DeleteServes ==
  ASSUME IInv, Delete
  PROVE  IInv'
<1>1. pl \in State
  BY DEF IInv, TypeOK
<1>2. \A S : (\A t \in S : Serves(t)) /\ Call(S) => IInv'
  BY CallServes
<1>3. ASSUME NEW i \in 0..MaxLen, RemoveItem(i)
      PROVE  IInv'
  <2>1. Call(Then(ListRemove(pl, i), Determine))
    BY <1>3 DEF RemoveItem
  <2>2. \A t \in ListRemove(pl, i) : Keeps(pl, t)
    BY <1>1, ListRemoveKeeps
  <2> QED BY <1>2, <2>1, <2>2, ThenDetermineServes
<1>4. ASSUME NEW m \in Media, RemoveLocation(m)
      PROVE  IInv'
  <2> DEFINE K == {t \in State : Keeps(pl, t)}
  <2>1. Call(Then(ListRemoveLocation(pl, m), Determine))
    BY <1>4 DEF RemoveLocation
  <2>2. K \subseteq State /\ pl \in K
    BY <1>1 DEF Keeps
  <2>3. \A t \in K : ListRemoveFirst(t, m) \subseteq K
    BY ListRemoveFirstKeeps, KeepsTwice DEF Keeps
  <2>4. \A t \in K : Keeps(pl, t)
    OBVIOUS
  <2> HIDE DEF K
  <2>5. ListRemoveLocation(pl, m) \subseteq K
    BY <2>2, <2>3, ListRemoveLocationStays
  <2> QED BY <1>2, <2>1, <2>4, <2>5, ThenDetermineServes
<1> QED BY <1>3, <1>4 DEF Delete

-----------------------------------------------------------------------------
(* The events of the player.                                                *)

LEMMA ResetSame ==
  ASSUME NEW s \in State
  PROVE  \A t \in ResetAtEnd(s) : Same(s, t)
BY SavePositionSame, SameAsItself DEF ResetAtEnd

LEMMA ThenReset ==
  ASSUME NEW S, NEW b, \A s \in S : s \in State /\ s.expanding = b /\ Loaded(s)
  PROVE  \A t \in Then(S, ResetAtEnd) : t \in State /\ t.expanding = b /\ Loaded(t)
<1>1. ASSUME NEW s \in S, NEW t \in ResetAtEnd(s)
      PROVE  t \in State /\ t.expanding = b /\ Loaded(t)
  BY <1>1, ResetSame, SteadyFollowed DEF Same, Steady
<1> QED BY <1>1 DEF Then

LEMMA PlayerServes ==
  ASSUME IInv, Player
  PROVE  IInv'
<1> DEFINE s == [pl EXCEPT !.player = "ended"]
<1>1. pl \in State /\ Loaded(pl)
  BY DEF IInv, TypeOK
<1>2. /\ s \in State /\ s.expanding = pl.expanding
      /\ s.loaded = pl.loaded /\ s.player = "ended" /\ s.status = pl.status
  BY <1>1 DEF State
<1>3. pl.player # "stopped" => Serves(s)
  BY PlayerSetServes
<1>4. \A S : (\A t \in S : Serves(t)) /\ Call(S) => IInv'
  BY CallServes
<1>5. CASE PlayerPlaying
  <2> DEFINE p == [pl EXCEPT !.player = "playing"]
  <2>1. pl.player = "opening" /\ Call({IF pl.heard THEN OnPlaying(pl) ELSE p})
    BY <1>5 DEF PlayerPlaying
  <2>2. CASE pl.heard
    BY <1>4, <2>1, <2>2, OnPlayingServes
  <2>3. CASE ~ pl.heard
    <3>1. Serves(p)
      BY <2>1, <2>3, PlayerSetServes
    <3> HIDE DEF p
    <3> QED BY <1>4, <2>1, <2>3, <3>1
  <2> QED BY <2>2, <2>3
<1>6. CASE PlayerError
  <2>1. pl.player # "stopped" /\ Call(IF pl.heard THEN PlayNext(s) ELSE {s})
    BY <1>6 DEF PlayerError
  <2> HIDE DEF s
  <2>2. \A t \in PlayNext(s) : Serves(t)
    BY <1>2, PlayNextServes
  <2> QED BY <1>3, <1>4, <2>1, <2>2
<1>7. CASE PlayerEnd
  <2>1. pl.status = "ok" /\ pl.player = "playing" /\ UNCHANGED lastList
    BY <1>7 DEF PlayerEnd
  <2>2. CASE pl' = s /\ UNCHANGED expansions
    <3> HIDE DEF s
    <3> QED BY <1>3, <2>1, <2>2, StepServes
  <2>3. CASE /\ pl' = [s EXCEPT !.expanding = TRUE]
             /\ expansions' = Append(expansions, [media |-> s.loaded, stage |-> "queued"])
    <3>1. pl' \in State /\ pl'.expanding /\ Loaded(pl')
      <4> HIDE DEF s
      <4>1. pl' \in State /\ pl'.expanding /\ pl'.loaded = s.loaded
        BY <1>2, <2>3 DEF State
      <4> QED BY <1>1, <1>2, <2>1, <4>1 DEF Loaded
    <3>2. s.loaded \in Media
      BY <1>1, <1>2, <2>1 DEF Loaded
    <3>3. expansions' \in Seq([media: Media, stage: {"queued", "detached", "done"}])
      <4> HIDE DEF s
      <4> QED BY <2>3, <3>2 DEF IInv, TypeOK
    <3>4. TypeOK' /\ ~ Settled'
      BY <2>1, <3>1, <3>3 DEF IInv, TypeOK, Settled
    <3> QED BY <3>1, <3>4 DEF IInv, NeighboursValid
  <2>4. CASE pl' \in Then(Then(Determine(s), ResetAtEnd), PlayNext) /\ UNCHANGED expansions
    <3> HIDE DEF s
    <3>1. \A v \in Determine(s) : v \in State /\ v.expanding = pl.expanding /\ Loaded(v)
      BY <1>1, <1>2, <2>1, DetermineSteady DEF Steady, Loaded
    <3>2. \A v \in Then(Determine(s), ResetAtEnd) :
            v \in State /\ v.expanding = pl.expanding /\ Loaded(v)
      BY <3>1, ThenReset
    <3> DEFINE R == Then(Determine(s), ResetAtEnd)
    <3> HIDE DEF R
    <3>3. PICK u \in R : pl' \in IF u.status = "ok" THEN PlayNext(u) ELSE {u}
      BY <2>4 DEF Then, R
    <3>4. u \in State /\ u.expanding = pl.expanding /\ Loaded(u)
      BY <3>2, <3>3 DEF R
    <3>5. CASE u.status = "ok"
      BY <2>1, <2>4, <3>3, <3>4, <3>5, PlayNextServes, StepServes
    <3>6. CASE u.status # "ok"
      <4>1. Serves(u)
        BY <3>4, <3>6 DEF Serves, Pointed, Good, Followed
      <4>2. pl' = u
        BY <3>3, <3>6
      <4> QED BY <2>1, <2>4, <4>1, <4>2, StepServes
    <3> QED BY <3>5, <3>6
  <2> QED BY <1>7, <2>2, <2>3, <2>4 DEF PlayerEnd
<1> QED BY <1>5, <1>6, <1>7 DEF Player

-----------------------------------------------------------------------------
(* The expansion of a media.                                                *)

Calls == [media: Media, stage: {"queued", "detached", "done"}]

\* The "vlc-player" thread only touches the listener and one call in flight.
LEMMA ThreadServes ==
  ASSUME IInv, NEW b \in BOOLEAN, pl' = [pl EXCEPT !.heard = b],
         NEW i \in DOMAIN expansions, NEW stage \in {"queued", "detached", "done"},
         expansions' = [expansions EXCEPT ![i].stage = stage], UNCHANGED lastList
  PROVE  IInv'
<1>1. pl \in State /\ Loaded(pl) /\ expansions \in Seq(Calls) /\ lastList \in Seq(Media)
  BY DEF IInv, TypeOK, Calls
<1>2. pl' \in State /\ Loaded(pl')
  <2>1. /\ pl' \in State
        /\ pl'.loaded = pl.loaded /\ pl'.player = pl.player
    BY <1>1 DEF State
  <2> QED BY <1>1, <2>1 DEF Loaded
<1> DEFINE c == [expansions[i] EXCEPT !.stage = stage]
<1>3. c \in Calls
  <2>1. expansions[i] \in Calls
    BY <1>1
  <2> QED BY <2>1 DEF Calls
<1>4. expansions' = [expansions EXCEPT ![i] = c]
  OBVIOUS
<1> HIDE DEF c
<1>5. expansions' \in Seq(Calls) /\ expansions' # <<>>
  BY <1>1, <1>3, <1>4
<1>6. TypeOK' /\ ~ Settled'
  BY <1>1, <1>2, <1>5 DEF TypeOK, Calls, Settled
<1> QED BY <1>2, <1>6 DEF IInv, NeighboursValid

LEMMA HeadAndTail ==
  ASSUME NEW S, NEW q \in Seq(S), q # <<>>
  PROVE  Head(q) \in S /\ Tail(q) \in Seq(S)
OBVIOUS

\* expand() ends by playing what is at the position, or the one after it.
LEMMA ResumeServes ==
  ASSUME IInv, ExpandResume
  PROVE  IInv'
<1> DEFINE children == Children[Head(expansions).media]
           Found(s) == {[s EXCEPT !.nextIndex = s.currentIndex, !.prevIndex = -1,
                                  !.expanding = FALSE]}
           S == IF children = <<>> THEN Determine([pl EXCEPT !.expanding = FALSE])
                ELSE Then(Expand(pl, children), Found)
           T == Then(S, ResetAtEnd)
           Typed(t) == t \in State /\ Loaded(t)
<1>1. pl \in State /\ Loaded(pl) /\ expansions \in Seq(Calls) /\ lastList \in Seq(Media)
  BY DEF IInv, TypeOK, Calls
<1>2. /\ expansions # <<>> /\ expansions' = Tail(expansions) /\ UNCHANGED lastList
      /\ pl' \in Then(T, PlayNext)
  BY DEF ExpandResume
<1>3. Head(expansions) \in Calls /\ expansions' \in Seq(Calls)
  BY <1>1, <1>2, HeadAndTail
<1>4. children \in Seq(Media)
  BY <1>3, ListsAssumption DEF Calls
<1> HIDE DEF children
<1>5. ASSUME NEW t \in Expand(pl, children)
      PROVE  Typed(t)
  <2> DEFINE K == {u \in State : Keeps(pl, u)}
  <2>1. K \subseteq State /\ pl \in K
    BY <1>1 DEF Keeps
  <2>2. \A u \in K, m \in Media : \A j : u.status = "ok" => ListInsert(u, j, m) \subseteq K
    BY ListInsertKeeps, KeepsTwice DEF Keeps
  <2>3. ListRemove(pl, pl.currentIndex) \subseteq K
    BY <1>1, ListRemoveKeeps DEF Keeps
  <2>4. \A u \in K : Typed(u)
    BY <1>1 DEF Keeps
  <2> HIDE DEF K
  <2>5. Expand(pl, children) \subseteq K
    BY <1>4, <2>1, <2>2, <2>3, ExpandStays
  <2> QED BY <1>5, <2>4, <2>5
<1>6. ASSUME NEW s, Typed(s), NEW t \in Found(s)
      PROVE  Typed(t)
  <2> DEFINE nowhere == -1
  <2>1. nowhere \in Index /\ s.currentIndex \in Index
    BY <1>6 DEF Index, State
  <2>2. t = [s EXCEPT !.nextIndex = s.currentIndex, !.prevIndex = nowhere, !.expanding = FALSE]
    BY <1>6
  <2> HIDE DEF nowhere
  <2>3. t \in State /\ t.loaded = s.loaded /\ t.player = s.player
    BY <1>6, <2>1, <2>2 DEF State
  <2> QED BY <1>6, <2>3 DEF Loaded
<1>7. ASSUME NEW t \in Determine([pl EXCEPT !.expanding = FALSE])
      PROVE  Typed(t)
  <2> DEFINE s == [pl EXCEPT !.expanding = FALSE]
  <2>1. s \in State /\ s.loaded = pl.loaded /\ s.player = pl.player
    BY <1>1 DEF State
  <2>2. t \in Determine(s)
    BY <1>7
  <2> HIDE DEF s
  <2>3. Steady(s, t) /\ Loaded(s)
    BY <1>1, <2>1, <2>2, DetermineSteady DEF Loaded
  <2> QED BY <2>1, <2>3, SteadyFollowed DEF Steady
<1>8. ASSUME NEW s, Typed(s), NEW t \in ResetAtEnd(s)
      PROVE  Typed(t)
  BY <1>8, ResetSame, SteadyFollowed DEF Same, Steady
<1> HIDE DEF Found, Typed
<1>9. \A t \in S : Typed(t)
  BY <1>5, <1>6, <1>7 DEF Then
<1> HIDE DEF S
<1>10. \A t \in T : Typed(t)
  BY <1>8, <1>9 DEF Then
<1> HIDE DEF T
<1>11. PICK t \in T : pl' \in IF t.status = "ok" THEN PlayNext(t) ELSE {t}
  BY <1>2 DEF Then
<1>12. /\ pl' \in State /\ Loaded(pl')
       /\ Good(pl') /\ Pointed(pl')
  <2>1. CASE t.status = "ok"
    BY <1>10, <1>11, <2>1, PlayNextPlays DEF Typed, Plays
  <2>2. CASE t.status # "ok"
    BY <1>10, <1>11, <2>2 DEF Typed, Good, Followed, Pointed
  <2> QED BY <2>1, <2>2
<1>13. TypeOK'
  BY <1>1, <1>2, <1>3, <1>12 DEF TypeOK, Calls
<1>14. NeighboursValid'
  BY <1>12 DEF NeighboursValid, Settled, Pointed, Neighbours
<1> QED BY <1>12, <1>13, <1>14 DEF IInv

LEMMA ExpansionServes ==
  ASSUME IInv, Expansion
  PROVE  IInv'
<1>1. CASE ExpandDetach
  BY <1>1, ThreadServes DEF ExpandDetach, First
<1>2. CASE ExpandAttach
  BY <1>2, ThreadServes DEF ExpandAttach, First
<1>3. CASE ExpandResume
  BY <1>3, ResumeServes
<1> QED BY <1>1, <1>2, <1>3 DEF Expansion

\* What happens in one process keeps the invariant.
LEMMA SessionServes ==
  ASSUME IInv, Session
  PROVE  IInv'
BY UserServes, EditServes, DeleteServes, PlayerServes, ExpansionServes DEF Session

-----------------------------------------------------------------------------
(* A saved playlist.                                                        *)

LEMMA FreshServes ==
  ASSUME NEW saved \in Saved
  PROVE  LET s == Fresh(saved)
         IN s \in State /\ Loaded(s) /\ Good(s) /\ Pointed(s)
<1> DEFINE nowhere == -1
           empty == <<>>
           s == [mediaList |-> empty, currentIndex |-> nowhere, nextIndex |-> nowhere,
                 prevIndex |-> nowhere, previous |-> empty, shuffling |-> FALSE,
                 repeating |-> "none", expanding |-> FALSE, listening |-> FALSE,
                 loadingLastPlaylist |-> FALSE, loaded |-> NoMedia, player |-> "stopped",
                 heard |-> TRUE, missed |-> FALSE, status |-> "ok", saved |-> saved]
<1>1. Fresh(saved) = s
  BY DEF Fresh
<1>2. nowhere \in Index /\ empty \in Seq(Media) /\ empty \in Seq(Index)
  BY DEF Index
<1> HIDE DEF nowhere, empty
<1>3. s \in State
  BY <1>2 DEF State, Saved, Repeats
<1>4. s.player = "stopped" /\ s.listening = FALSE /\ s.currentIndex = nowhere
  OBVIOUS
<1> HIDE DEF s
<1>5. ~ HasCurrentMedia(s)
  BY <1>4 DEF HasCurrentMedia, IsValidPosition, nowhere
<1> QED BY <1>1, <1>3, <1>4, <1>5 DEF Loaded, Good, Followed, Pointed

LEMMA InitServes ==
  ASSUME Init
  PROVE  IInv
<1>1. NothingSaved \in Saved
  BY DEF NothingSaved, Saved, Repeats, Index
<1>2. pl \in State /\ Loaded(pl) /\ Good(pl) /\ Pointed(pl)
  BY <1>1, FreshServes DEF Init
<1>3. TypeOK
  BY <1>2 DEF Init, TypeOK
<1> QED BY <1>2, <1>3, PointedValid DEF IInv

LEMMA RestartServes ==
  ASSUME IInv, Restart
  PROVE  IInv'
<1>1. pl.saved \in Saved
  BY DEF IInv, TypeOK, State, Saved
<1>2. pl' \in State /\ Loaded(pl') /\ Good(pl') /\ Pointed(pl')
  BY <1>1, FreshServes DEF Restart
<1>3. TypeOK'
  BY <1>2 DEF Restart, TypeOK
<1>4. NeighboursValid'
  BY <1>2 DEF NeighboursValid, Settled, Pointed, Neighbours
<1> QED BY <1>2, <1>3, <1>4 DEF IInv

LEMMA LoadLastServes ==
  ASSUME IInv, LoadLastPlaylist
  PROVE  IInv'
<1>1. pl \in State /\ Loaded(pl) /\ (Settled => Pointed(pl))
  BY PointedValid DEF IInv, TypeOK
<1>2. /\ pl.status = "ok" /\ pl' = [pl EXCEPT !.loadingLastPlaylist = TRUE]
      /\ lastList' = (IF pl.saved.song THEN pl.saved.list ELSE <<>>)
      /\ UNCHANGED expansions
  BY DEF LoadLastPlaylist
<1>3. Same(pl, pl')
  BY <1>1, <1>2 DEF State, Same, Steady
<1>4. pl' \in State /\ Loaded(pl') /\ (Good(pl) => Good(pl')) /\ (Pointed(pl) => Pointed(pl'))
  BY <1>1, <1>3, SteadyFollowed, SamePointed DEF Same, Steady
<1>5. lastList' \in Seq(Media)
  <2>1. pl.saved.list \in Seq(Media)
    BY <1>1 DEF State
  <2> QED BY <1>2, <2>1
<1>6. TypeOK'
  BY <1>2, <1>4, <1>5 DEF IInv, TypeOK
<1>7. Settled' => Settled
  BY <1>2, <1>3 DEF Settled, Same, Steady
<1>8. NeighboursValid'
  BY <1>1, <1>4, <1>7 DEF NeighboursValid, Settled, Pointed, Neighbours
<1> QED BY <1>4, <1>6, <1>7, <1>8 DEF IInv

LEMMA DecodedServes ==
  ASSUME IInv, LastPlaylistDecoded
  PROVE  IInv'
<1> DEFINE s == [pl EXCEPT !.shuffling = pl.saved.shuffling,
                           !.repeating = pl.saved.repeating]
           Landed(t) == [t EXCEPT !.loadingLastPlaylist = FALSE]
<1>1. pl \in State /\ Loaded(pl) /\ lastList \in Seq(Media)
  BY DEF IInv, TypeOK
<1>2. PICK t \in LoadList(s, lastList, pl.saved.position) : pl' = Landed(t)
  BY DEF LastPlaylistDecoded
<1>3. lastList # <<>> /\ lastList' = <<>> /\ UNCHANGED expansions
  BY DEF LastPlaylistDecoded
<1>4. s \in State /\ s.loaded = pl.loaded /\ s.player = pl.player
  BY <1>1 DEF State
<1> HIDE DEF s
<1>5. t \in State /\ Loaded(t) /\ Good(t) /\ Pointed(t)
  BY <1>1, <1>2, <1>3, <1>4, LoadListPlays DEF Loaded
<1>6. Same(t, pl')
  BY <1>2, <1>5 DEF State, Same, Steady
<1>7. pl' \in State /\ Loaded(pl') /\ Good(pl') /\ Pointed(pl')
  BY <1>5, <1>6, SteadyFollowed, SamePointed DEF Same, Steady
<1>8. TypeOK'
  BY <1>3, <1>7 DEF IInv, TypeOK
<1>9. NeighboursValid'
  BY <1>7 DEF NeighboursValid, Settled, Pointed, Neighbours
<1> QED BY <1>7, <1>8, <1>9 DEF IInv

LEMMA NextServes ==
  ASSUME IInv, [Next]_vars
  PROVE  IInv'
<1>1. CASE Session
  BY <1>1, SessionServes
<1>2. CASE UNCHANGED vars
  BY <1>2 DEF vars, IInv, TypeOK, Loaded, NeighboursValid, Settled, Good, Followed
<1> QED BY <1>1, <1>2, RestartServes, LoadLastServes, DecodedServes DEF Next

-----------------------------------------------------------------------------
(* The theorems.                                                            *)

LEMMA Invariant == Spec => []IInv
BY InitServes, NextServes, PTL DEF Spec

\* Every handler leaves a playlist of its type, whatever the length of the
\* list and the number of passes of its loops; no index falls below -1
\* (PlaylistManager.kt:325-351, :412-495).
THEOREM TypeCorrect == Spec => []TypeOK
BY Invariant, PTL DEF IInv

\* What next() and previous() would play is in the list or nothing, after
\* every call, event and expansion, at whatever position a list was loaded or
\* played, in a resumed playlist too (PlaylistManager.kt:433-495).
THEOREM NeighboursStayValid == Spec => []NeighboursValid
BY Invariant, PTL DEF IInv

\* The list that plays is the one on the device, in the first process and in
\* one that resumes it, as long as what plays is of the list: not after
\* playIndex() was given a position out of it, and not in a manager that does not
\* listen to it (PlaylistManager.kt:401-410, :222-234, :97-105).
THEOREM SavedListFollows == Spec => []SavedListIsPlayed
<1>1. IInv => SavedListIsPlayed
  BY DEF IInv, Good, SavedListIsPlayed, Settled
<1> QED BY <1>1, Invariant, PTL

\* currentIndex is the position of the media that the player plays, whatever
\* was loaded, resumed, inserted, moved, removed, appended or expanded before
\* (PlaylistManager.kt:325-351, :412-424, :497-520), with the same two
\* exceptions.
THEOREM IndexFollows == Spec => []CurrentIsPlaying
<1>1. IInv => CurrentIsPlaying
  BY DEF IInv, Good, Followed, CurrentIsPlaying, Settled
<1> QED BY <1>1, Invariant, PTL

\* Removing an item that is not the current one leaves the player and its
\* media alone, whatever the mode and the order (PlaylistManager.kt:335-351).
THEOREM RemovalDisturbsNothing == Spec => RemovalKeepsPlaying
<1>1. ASSUME TypeOK, NEW i \in 0..MaxLen, RemoveItem(i), i # pl.currentIndex
      PROVE  pl'.loaded = pl.loaded /\ pl'.player = pl.player
  <2>1. pl \in State /\ i \in 0..Size(pl) - 1
    BY <1>1 DEF TypeOK, RemoveItem, IsValidPosition
  <2>2. pl' \in Then(ListRemove(pl, i), Determine)
    BY <1>1 DEF RemoveItem, Call
  <2>3. PICK t \in ListRemove(pl, i) : pl' \in IF t.status = "ok" THEN Determine(t) ELSE {t}
    BY <2>2 DEF Then
  <2>4. t \in State /\ t.loaded = pl.loaded /\ t.player = pl.player
    BY <1>1, <2>1, <2>3, ListRemoveEdits DEF Keeps
  <2>5. pl' = t \/ Steady(t, pl')
    BY <2>3, <2>4, DetermineSteady
  <2> QED BY <2>4, <2>5 DEF Steady
<1>2. IInv => [Settled /\ Size(pl') < Size(pl) =>
                 \A i \in 0..MaxLen : RemoveItem(i) /\ i # pl.currentIndex
                   => pl'.loaded = pl.loaded /\ pl'.player = pl.player]_vars
  BY <1>1 DEF IInv
<1> QED BY <1>2, Invariant, PTL DEF RemovalKeepsPlaying
=============================================================================
