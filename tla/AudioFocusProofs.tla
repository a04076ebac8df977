-------------------------- MODULE AudioFocusProofs --------------------------
(***************************************************************************)
(* Theorems about AudioFocus, for queues of any length.  What makes the    *)
(* invariants inductive is what is still on its way: a LOSS is the last    *)
(* notice; a media that sounds without the focus has a Playing event ahead *)
(* that will request it, an event that says it cannot be paused, or a      *)
(* pause command; and no Paused event is the last word on a media that     *)
(* plays; and the last notice says what AudioManager has now, so that an   *)
(* application that ducked and has the full focus has a GAIN ahead.        *)
(***************************************************************************)
EXTENDS AudioFocus, TLAPS

LossIsLast ==
  \A i \in DOMAIN notices : notices[i] = "LOSS" => i = Len(notices) /\ focus = "none"

SoundAhead ==
  engine = "playing" /\ ~hasRenderer /\ pausable /\ ~mHasAudioFocus /\ ~denied
    => \/ "Playing" \in Elements(events)
       \/ "Unpausable" \in Elements(events)
       \/ "pause" \in Elements(commands)

PlayingAhead ==
  engine = "playing" /\ playbackState # "playing" => "Playing" \in Elements(events)

PlayingAfterPaused ==
  engine = "playing" =>
    \A i \in DOMAIN events : events[i] = "Paused" =>
      \E j \in DOMAIN events : j > i /\ events[j] = "Playing"

\* The last notice says what AudioManager has now.
LastIsFocus == notices # <<>> => notices[Len(notices)] = Notice(focus)

FocusInv == FocusAgrees /\ LossIsLast
VolumeInv == LastIsFocus /\ VolumeGivenBack
EngineInv == PlayingAhead /\ PlayingAfterPaused

IInv ==
  TypeOK /\ FocusInv /\ RendererFreesFocus /\ EngineInv /\ SoundAhead /\ VolumeInv

-----------------------------------------------------------------------------
\* What a queue holds when its head is taken or something is added.
LEMMA ElementsTail ==
  ASSUME NEW S, NEW s \in Seq(S), s # <<>>
  PROVE  /\ Tail(s) \in Seq(S) /\ Head(s) \in S
         /\ Elements(s) = Elements(Tail(s)) \cup {Head(s)}
         /\ DOMAIN Tail(s) = 1..(Len(s) - 1) /\ Len(Tail(s)) = Len(s) - 1
         /\ \A i \in DOMAIN Tail(s) : i + 1 \in DOMAIN s /\ Tail(s)[i] = s[i + 1]
<1>1. /\ Tail(s) \in Seq(S) /\ Head(s) \in S /\ Head(s) = s[1]
      /\ DOMAIN s = 1..Len(s) /\ Len(s) \in Nat /\ Len(s) > 0
      /\ DOMAIN Tail(s) = 1..(Len(s) - 1) /\ Len(Tail(s)) = Len(s) - 1
      /\ \A i \in DOMAIN Tail(s) : i + 1 \in DOMAIN s /\ Tail(s)[i] = s[i + 1]
  OBVIOUS
<1>2. ASSUME NEW i \in DOMAIN s, i # 1
      PROVE  i - 1 \in DOMAIN Tail(s) /\ s[i] = Tail(s)[i - 1]
  BY <1>1, <1>2
<1>3. ASSUME NEW i \in DOMAIN s PROVE s[i] \in Elements(Tail(s)) \cup {Head(s)}
  <2>1. CASE i = 1
    BY <1>1, <2>1
  <2>2. CASE i # 1
    BY <1>2, <2>2 DEF Elements
  <2> QED BY <2>1, <2>2
<1>4. Elements(Tail(s)) \cup {Head(s)} \subseteq Elements(s)
  BY <1>1 DEF Elements
<1>5. Elements(s) = Elements(Tail(s)) \cup {Head(s)}
  BY <1>3, <1>4 DEF Elements
<1> QED BY <1>1, <1>5

LEMMA ElementsAppend ==
  ASSUME NEW S, NEW s \in Seq(S), NEW x \in S
  PROVE  /\ Append(s, x) \in Seq(S)
         /\ Elements(Append(s, x)) = Elements(s) \cup {x}
         /\ Len(Append(s, x)) = Len(s) + 1
         /\ DOMAIN Append(s, x) = 1..(Len(s) + 1) /\ DOMAIN s = 1..Len(s)
         /\ Append(s, x)[Len(s) + 1] = x
         /\ \A i \in DOMAIN s : Append(s, x)[i] = s[i]
<1>1. /\ Append(s, x) \in Seq(S) /\ Len(s) \in Nat
      /\ Len(Append(s, x)) = Len(s) + 1
      /\ DOMAIN Append(s, x) = 1..(Len(s) + 1) /\ DOMAIN s = 1..Len(s)
      /\ Append(s, x)[Len(s) + 1] = x
      /\ \A i \in DOMAIN s : Append(s, x)[i] = s[i]
  OBVIOUS
<1>2. ASSUME NEW i \in DOMAIN Append(s, x), i \notin DOMAIN s
      PROVE  i = Len(s) + 1
  BY <1>1, <1>2
<1>3. ASSUME NEW i \in DOMAIN Append(s, x) PROVE Append(s, x)[i] \in Elements(s) \cup {x}
  BY <1>1, <1>2 DEF Elements
<1>4. Elements(s) \cup {x} \subseteq Elements(Append(s, x))
  <2>1. \A i \in DOMAIN s : i \in DOMAIN Append(s, x)
    BY <1>1
  <2>2. Len(s) + 1 \in DOMAIN Append(s, x)
    BY <1>1
  <2> QED BY <1>1, <2>1, <2>2 DEF Elements
<1>5. Elements(Append(s, x)) = Elements(s) \cup {x}
  BY <1>3, <1>4 DEF Elements
<1> QED BY <1>1, <1>5

LEMMA EmptyQueue == Elements(<<>>) = {} /\ \A S : <<>> \in Seq(S)
<1>1. Elements(<<>>) = {}
  BY DEF Elements
<1>2. \A S : <<>> \in Seq(S)
  OBVIOUS
<1> QED BY <1>1, <1>2

-----------------------------------------------------------------------------
(* Types.                                                                   *)

FocusTypes ==
  /\ mHasAudioFocus \in BOOLEAN /\ denied \in BOOLEAN /\ leftOver \in BOOLEAN
  /\ focus \in {"none", "gain", "transient", "duck"}
  /\ notices \in Seq(Notices)

LEMMA ChangeAudioFocusTypes ==
  ASSUME TypeOK, NEW acquire \in BOOLEAN, NEW renderer \in BOOLEAN,
         NEW pending \in Seq(Notices), ChangeAudioFocus(acquire, renderer, pending)
  PROVE  FocusTypes'
<1> USE DEF TypeOK, FocusTypes
<1>1. CASE RequestAudioFocus(pending)
  BY <1>1 DEF RequestAudioFocus
<1>2. CASE AbandonAudioFocus
  BY <1>2, EmptyQueue DEF AbandonAudioFocus
<1>3. CASE KeepAudioFocus(pending)
  BY <1>3 DEF KeepAudioFocus
<1> QED BY <1>1, <1>2, <1>3 DEF ChangeAudioFocus

LEMMA CommandTypes ==
  ASSUME TypeOK, Play \/ Pause \/ UNCHANGED commands
  PROVE  commands' \in Seq(Commands)
<1> USE DEF TypeOK
<1>1. CASE Play
  BY <1>1 DEF Play, Commands, HasMedia
<1>2. CASE Pause
  BY <1>2 DEF Pause, Commands, HasMedia, IsPlaying
<1> QED BY <1>1, <1>2

LEMMA NextTypes ==
  ASSUME TypeOK, [Next]_vars
  PROVE  TypeOK'
<1> USE DEF TypeOK, playerVars, focusVars, lossVars, volumeVars, deviceVars
<1>1. CASE UserPlay \/ UserPause \/ HeadsetPlug
  BY <1>1, CommandTypes DEF UserPlay, UserPause, HeadsetPlug
<1>2. ASSUME NEW state \in {"stopped", "playing", "paused"}, StartPlayback(state)
      PROVE  TypeOK'
  BY <1>2, EmptyQueue DEF StartPlayback
<1>3. CASE StopPlayback
  BY <1>3, ChangeAudioFocusTypes, EmptyQueue DEF StopPlayback, FocusTypes
<1>4. CASE VolumeKey
  BY <1>4 DEF VolumeKey
<1>5. CASE Execute
  BY <1>5 DEF Execute, Executed, Commands, Events
<1>6. CASE Opened
  <2>1. CASE events' = Append(events, "Playing")
    BY <1>6, <2>1 DEF Opened, Events
  <2>2. CASE events' = Append(Append(events, "Unpausable"), "Playing")
    BY <1>6, <2>2 DEF Opened, Events
  <2> QED BY <1>6, <2>1, <2>2 DEF Opened
<1>19. CASE Ended
  <2>1. CASE events' = Append(events, "EndReached")
    BY <1>19, <2>1 DEF Ended, Events
  <2>2. CASE events' = Append(events, "EncounteredError")
    BY <1>19, <2>2 DEF Ended, Events
  <2> QED BY <1>19, <2>1, <2>2 DEF Ended
<1>7. CASE OnPlaying
  <2>1. ChangeAudioFocus(TRUE, hasRenderer, notices) /\ notices \in Seq(Notices)
    BY <1>7 DEF OnPlaying
  <2>2. FocusTypes'
    BY <2>1, ChangeAudioFocusTypes
  <2>3. events' \in Seq(Events) /\ playbackState' = "playing"
    BY <1>7, ElementsTail DEF OnPlaying, Handle
  <2>4. UNCHANGED <<pausable, engine, commands, lossVars, volumeVars, deviceVars>>
    BY <1>7 DEF OnPlaying
  <2> QED BY <2>2, <2>3, <2>4 DEF FocusTypes
<1>8. CASE OnPaused \/ OnPausableChanged
  <2>1. events' \in Seq(Events)
    <3>1. events # <<>> /\ events \in Seq(Events) /\ events' = Tail(events)
      BY <1>8 DEF OnPaused, OnPausableChanged, Handle
    <3> QED BY <3>1, ElementsTail
  <2>2. CASE OnPaused
    BY <2>1, <2>2 DEF OnPaused
  <2>3. CASE OnPausableChanged
    <3>1. pausable' = FALSE /\ UNCHANGED <<playbackState, engine, commands, hasRenderer>>
      BY <2>3 DEF OnPausableChanged
    <3>2. UNCHANGED <<focusVars, lossVars, volumeVars, unplugged, isAmazon>>
      BY <2>3 DEF OnPausableChanged
    <3>3. pausable' \in BOOLEAN
      BY <3>1
    <3>4. UNCHANGED <<playbackState, engine, commands, hasRenderer>>
      BY <3>1
    <3> QED BY <2>1, <3>2, <3>3, <3>4
  <2> QED BY <1>8, <2>2, <2>3
<1>9. CASE FocusChanges
  BY <1>9 DEF FocusChanges, Notice, Notices
<1>10. CASE OnLoss
  <2>1. Tail(notices) \in Seq(Notices)
    BY <1>10 DEF OnLoss, Notified
  <2>2. ChangeAudioFocus(FALSE, hasRenderer, Tail(notices)) /\ Pause
    BY <1>10 DEF OnLoss
  <2>3. FocusTypes'
    BY <2>1, <2>2, ChangeAudioFocusTypes
  <2>4. commands' \in Seq(Commands)
    BY <2>2, CommandTypes
  <2>5. /\ UNCHANGED <<playbackState, pausable, engine, events, deviceVars>>
        /\ UNCHANGED <<lossVars, volumeVars>>
    BY <1>10 DEF OnLoss, Notified
  <2> QED BY <2>3, <2>4, <2>5 DEF FocusTypes
<1>11. ASSUME PausePlayback
       PROVE  /\ commands' \in Seq(Commands)
              /\ mLossTransient' \in BOOLEAN /\ wasPlaying' \in BOOLEAN
  BY <1>11, CommandTypes DEF PausePlayback, IsPlaying
<1>12. CASE OnLossTransient
  BY <1>11, <1>12 DEF OnLossTransient, Notified, KeepAudioFocus
<1>13. CASE OnCanDuck
  <2>1. Tail(notices) \in Seq(Notices)
    BY <1>13 DEF OnCanDuck, Notified
  <2>2. AudioDuckLevel \in Volumes
    BY DeviceAssumption DEF Volumes
  <2>3. commands' \in Seq(Commands) /\ mLossTransient' \in BOOLEAN /\ wasPlaying' \in BOOLEAN
    BY <1>11, <1>13 DEF OnCanDuck, Duck
  <2>4. /\ leftOver' \in BOOLEAN /\ volume' \in Volumes
        /\ mLossTransientVolume' \in Volumes \cup {NoVolume}
    BY <1>13, <2>2 DEF OnCanDuck, Duck
  <2> QED BY <1>13, <2>1, <2>3, <2>4 DEF OnCanDuck, Notified
<1>14. CASE OnGain
  <2>1. Tail(notices) \in Seq(Notices) /\ commands' \in Seq(Commands)
    BY <1>14, CommandTypes DEF OnGain, Notified
  <2>2. volume' \in Volumes /\ mLossTransientVolume' \in Volumes \cup {NoVolume}
    BY <1>14 DEF OnGain, RestoreVolume
  <2>3. /\ UNCHANGED <<playbackState, pausable, engine, events, deviceVars>>
        /\ UNCHANGED <<mHasAudioFocus, focus, denied, wasPlaying>>
    BY <1>14 DEF OnGain, Notified
  <2>4. notices' = Tail(notices) /\ leftOver' = FALSE /\ mLossTransient' = FALSE
    BY <1>14 DEF OnGain
  <2>5. leftOver' \in BOOLEAN /\ mLossTransient' \in BOOLEAN
    BY <2>4
  <2>6. notices' \in Seq(Notices)
    BY <2>1, <2>4
  <2> QED BY <2>1, <2>2, <2>3, <2>5, <2>6
<1>15. CASE SetRenderer
  <2>1. PICK renderer \in BOOLEAN :
           /\ hasRenderer' = renderer
           /\ \/ \E acquire \in BOOLEAN : ChangeAudioFocus(acquire, renderer, notices)
              \/ KeepAudioFocus(notices)
    BY <1>15 DEF SetRenderer
  <2>2. FocusTypes'
    BY <2>1, ChangeAudioFocusTypes DEF KeepAudioFocus, FocusTypes
  <2> QED BY <1>15, <2>1, <2>2 DEF SetRenderer, FocusTypes
<1>16. CASE BecomingNoisy
  BY <1>16, CommandTypes DEF BecomingNoisy, IsPlaying
<1>17. CASE UNCHANGED vars
  BY <1>17 DEF vars
<1>18. CASE UserStart \/ UserStop \/ OnEndReached \/ OnEncounteredError
  BY <1>2, <1>3, <1>18 DEF UserStart, UserStop, OnEndReached, OnEncounteredError
<1> QED BY <1>1, <1>4, <1>5, <1>6, <1>7, <1>8, <1>9, <1>10, <1>12, <1>13, <1>14, <1>15,
           <1>16, <1>17, <1>18, <1>19 DEF Next

-----------------------------------------------------------------------------
(* The focus.                                                               *)

\* changeAudioFocus() keeps the two views of the focus together, provided no
\* notice that is left says LOSS.
LEMMA ChangeAudioFocusAgrees ==
  ASSUME TypeOK, FocusInv, NEW acquire \in BOOLEAN, NEW renderer \in BOOLEAN,
         ChangeAudioFocus(acquire, renderer, notices)
  PROVE  /\ FocusInv'
         /\ renderer \/ ~acquire => ~mHasAudioFocus'
         /\ acquire /\ ~renderer => mHasAudioFocus' \/ denied'
<1> USE DEF FocusInv, FocusAgrees, LossIsLast, TypeOK
<1>1. CASE acquire /\ ~renderer <=> mHasAudioFocus
  BY <1>1 DEF ChangeAudioFocus, KeepAudioFocus, Elements
<1>2. CASE acquire /\ ~renderer /\ ~mHasAudioFocus
  BY <1>2 DEF ChangeAudioFocus, RequestAudioFocus, Elements
<1>3. CASE ~(acquire /\ ~renderer) /\ mHasAudioFocus
  BY <1>3, EmptyQueue DEF ChangeAudioFocus, AbandonAudioFocus
<1> QED BY <1>1, <1>2, <1>3

\* A notice other than LOSS is taken off the queue.
LEMMA OtherNotice ==
  ASSUME TypeOK, FocusInv, notices # <<>>, Head(notices) # "LOSS",
         notices' = Tail(notices), UNCHANGED <<mHasAudioFocus, focus>>
  PROVE  FocusInv'
<1>1. FocusAgrees'
  BY ElementsTail DEF FocusInv, FocusAgrees, TypeOK
<1>2. ASSUME NEW i \in DOMAIN Tail(notices), Tail(notices)[i] = "LOSS"
      PROVE  i = Len(Tail(notices)) /\ focus = "none"
  <2>1. /\ i + 1 \in DOMAIN notices /\ notices[i + 1] = "LOSS"
        /\ Len(Tail(notices)) = Len(notices) - 1 /\ i \in Int
    BY <1>2, ElementsTail DEF TypeOK
  <2>2. i + 1 = Len(notices) /\ focus = "none"
    BY <2>1 DEF FocusInv, LossIsLast
  <2>3. \A n \in Nat : i + 1 = n => i = n - 1
    BY <2>1
  <2>4. Len(notices) \in Nat
    BY DEF TypeOK
  <2> QED BY <2>1, <2>2, <2>3, <2>4
<1> QED BY <1>1, <1>2 DEF FocusInv, LossIsLast

LEMMA NextFocus ==
  ASSUME TypeOK, FocusInv, RendererFreesFocus, [Next]_vars
  PROVE  FocusInv' /\ RendererFreesFocus'
<1> USE DEF deviceVars
<1> DEFINE Same == UNCHANGED <<mHasAudioFocus, focus, notices, hasRenderer>>
<1>0. Same => FocusInv' /\ RendererFreesFocus'
  BY DEF FocusInv, FocusAgrees, LossIsLast, RendererFreesFocus
<1>1. CASE UserPlay \/ UserPause \/ VolumeKey \/ HeadsetPlug \/ BecomingNoisy
  BY <1>0, <1>1 DEF UserPlay, UserPause, VolumeKey, HeadsetPlug, BecomingNoisy, focusVars
<1>2. CASE Execute \/ Opened \/ Ended \/ OnPaused \/ OnPausableChanged
  BY <1>0, <1>2 DEF Execute, Opened, Ended, OnPaused, OnPausableChanged, focusVars
<1>3. ASSUME NEW state, StartPlayback(state)
      PROVE  FocusInv' /\ RendererFreesFocus'
  BY <1>0, <1>3 DEF StartPlayback, focusVars
<1>4. CASE StopPlayback
  <2>1. ChangeAudioFocus(FALSE, hasRenderer, notices) /\ hasRenderer \in BOOLEAN
    BY <1>4 DEF StopPlayback, TypeOK
  <2>2. FocusInv' /\ ~mHasAudioFocus'
    BY <2>1, ChangeAudioFocusAgrees
  <2> QED BY <2>2 DEF RendererFreesFocus
<1>5. CASE UserStart \/ UserStop \/ OnEndReached \/ OnEncounteredError
  BY <1>3, <1>4, <1>5 DEF UserStart, UserStop, OnEndReached, OnEncounteredError
<1>6. CASE OnPlaying
  <2>1. /\ ChangeAudioFocus(TRUE, hasRenderer, notices)
        /\ hasRenderer \in BOOLEAN /\ hasRenderer' = hasRenderer
    BY <1>6 DEF OnPlaying, TypeOK
  <2>2. FocusInv' /\ (hasRenderer => ~mHasAudioFocus')
    BY <2>1, ChangeAudioFocusAgrees
  <2> QED BY <2>1, <2>2 DEF RendererFreesFocus
<1>7. CASE FocusChanges
  <2>1. PICK kind \in {"none", "transient", "duck", "gain"} \ {focus} :
           focus' = kind /\ notices' = Append(notices, Notice(kind))
    BY <1>7 DEF FocusChanges
  <2>2. focus # "none" /\ UNCHANGED <<mHasAudioFocus, hasRenderer>>
    BY <1>7 DEF FocusChanges
  <2>3. /\ Notice(kind) \in Notices /\ (Notice(kind) = "LOSS" <=> kind = "none")
        /\ notices \in Seq(Notices) /\ Len(notices) \in Nat
    BY DEF Notice, Notices, TypeOK
  <2>4. mHasAudioFocus /\ \A i \in DOMAIN notices : notices[i] # "LOSS"
    BY <2>2 DEF FocusInv, FocusAgrees, LossIsLast
  <2>5. "LOSS" \notin Elements(notices)
    BY <2>4 DEF Elements
  <2>6. "LOSS" \in Elements(notices') <=> kind = "none"
    BY <2>1, <2>3, <2>5, ElementsAppend
  <2>7. FocusAgrees'
    BY <2>1, <2>2, <2>4, <2>6 DEF FocusAgrees
  <2>8. ASSUME NEW i \in DOMAIN notices', notices'[i] = "LOSS"
        PROVE  i = Len(notices') /\ focus' = "none"
    <3>1. i = Len(notices) + 1
      BY <2>1, <2>3, <2>4, <2>8, ElementsAppend
    <3> QED BY <2>1, <2>3, <2>8, <3>1, ElementsAppend
  <2> QED BY <2>2, <2>7, <2>8 DEF FocusInv, LossIsLast, RendererFreesFocus
<1>8. CASE OnLoss
  <2>1. /\ notices # <<>> /\ Head(notices) = "LOSS" /\ hasRenderer \in BOOLEAN
        /\ ChangeAudioFocus(FALSE, hasRenderer, Tail(notices))
    BY <1>8 DEF OnLoss, Notified, TypeOK
  <2>2. mHasAudioFocus
    BY <2>1, ElementsTail DEF FocusInv, FocusAgrees, TypeOK
  <2>3. AbandonAudioFocus
    BY <2>1, <2>2 DEF ChangeAudioFocus
  <2> QED BY <2>3, EmptyQueue
          DEF AbandonAudioFocus, FocusInv, FocusAgrees, LossIsLast, RendererFreesFocus
<1>9. CASE OnLossTransient \/ OnCanDuck \/ OnGain
  <2>1. /\ notices # <<>> /\ Head(notices) # "LOSS" /\ notices' = Tail(notices)
        /\ UNCHANGED <<mHasAudioFocus, focus, hasRenderer>>
    BY <1>9 DEF OnLossTransient, OnCanDuck, OnGain, Notified, KeepAudioFocus
  <2> QED BY <2>1, OtherNotice DEF RendererFreesFocus
<1>10. CASE SetRenderer
  <2>1. PICK renderer \in BOOLEAN :
           /\ hasRenderer' = renderer
           /\ \/ ~hasRenderer /\ renderer /\ ChangeAudioFocus(FALSE, renderer, notices)
              \/ ~renderer /\ ChangeAudioFocus(TRUE, renderer, notices)
              \/ (renderer => hasRenderer) /\ KeepAudioFocus(notices)
    BY <1>10 DEF SetRenderer
  <2>2. CASE KeepAudioFocus(notices) /\ (renderer => hasRenderer)
    BY <2>1, <2>2
       DEF KeepAudioFocus, FocusInv, FocusAgrees, LossIsLast, RendererFreesFocus
  <2>3. CASE renderer /\ ChangeAudioFocus(FALSE, renderer, notices)
    BY <2>1, <2>3, ChangeAudioFocusAgrees DEF RendererFreesFocus
  <2>4. CASE ~renderer /\ ChangeAudioFocus(TRUE, renderer, notices)
    BY <2>1, <2>4, ChangeAudioFocusAgrees DEF RendererFreesFocus
  <2> QED BY <2>1, <2>2, <2>3, <2>4
<1>11. CASE UNCHANGED vars
  BY <1>0, <1>11 DEF vars, focusVars
<1> QED BY <1>1, <1>2, <1>5, <1>6, <1>7, <1>8, <1>9, <1>10, <1>11 DEF Next

-----------------------------------------------------------------------------
(* The player.                                                              *)

\* The order of the events that are left is that of the queue.
LEMMA ShiftPlaying ==
  ASSUME events \in Seq(Events), events # <<>>, events' = Tail(events),
         engine' = engine, PlayingAfterPaused
  PROVE  PlayingAfterPaused'
<1> SUFFICES ASSUME engine = "playing",
                    NEW i \in DOMAIN Tail(events), Tail(events)[i] = "Paused"
             PROVE  \E j \in DOMAIN Tail(events) : j > i /\ Tail(events)[j] = "Playing"
  BY DEF PlayingAfterPaused
<1>1. i + 1 \in DOMAIN events /\ events[i + 1] = "Paused"
  BY ElementsTail
<1>2. PICK j \in DOMAIN events : j > i + 1 /\ events[j] = "Playing"
  BY <1>1 DEF PlayingAfterPaused
<1>3. j - 1 \in DOMAIN Tail(events) /\ j - 1 > i /\ Tail(events)[j - 1] = events[j]
  BY <1>2
<1> QED BY <1>2, <1>3

\* An event other than Playing and Paused is taken off the queue.
LEMMA OtherEvent ==
  ASSUME TypeOK, EngineInv, NEW type \in Events \ {"Playing", "Paused"}, Handle(type),
         UNCHANGED <<engine, playbackState>>
  PROVE  EngineInv'
<1>1. /\ events # <<>> /\ events \in Seq(Events) /\ events' = Tail(events)
      /\ Head(events) # "Playing"
  BY DEF TypeOK, Handle
<1>2. PlayingAhead'
  BY <1>1, ElementsTail DEF EngineInv, PlayingAhead
<1>3. PlayingAfterPaused'
  BY <1>1, ShiftPlaying DEF EngineInv
<1> QED BY <1>2, <1>3 DEF EngineInv

LEMMA NextEngine ==
  ASSUME TypeOK, EngineInv, [Next]_vars
  PROVE  EngineInv'
<1> USE DEF EngineInv, deviceVars
<1> DEFINE Same == UNCHANGED <<engine, playbackState, events>>
<1>0. Same => EngineInv'
  BY DEF PlayingAhead, PlayingAfterPaused
<1>1. CASE UserPlay \/ UserPause \/ VolumeKey \/ HeadsetPlug \/ BecomingNoisy \/ SetRenderer
  BY <1>0, <1>1 DEF UserPlay, UserPause, VolumeKey, HeadsetPlug, BecomingNoisy,
     SetRenderer, playerVars
<1>2. CASE FocusChanges \/ OnLoss \/ OnLossTransient \/ OnCanDuck \/ OnGain
  BY <1>0, <1>2 DEF FocusChanges, OnLoss, OnLossTransient, OnCanDuck, OnGain, Notified,
     playerVars
<1>3. ASSUME engine' # "playing" PROVE EngineInv'
  BY <1>3 DEF PlayingAhead, PlayingAfterPaused
<1>4. CASE UserStart \/ UserStop \/ OnEndReached \/ OnEncounteredError
  BY <1>3, <1>4 DEF UserStart, UserStop, OnEndReached, OnEncounteredError, StartPlayback,
     StopPlayback
<1>5. ASSUME engine' = "playing", engine # "playing", NEW s \in Seq(Events),
             events' = Append(s, "Playing")
      PROVE  EngineInv'
  <2>1. "Playing" \in Elements(events')
    BY <1>5, ElementsAppend DEF Events
  <2>2. ASSUME NEW i \in DOMAIN events', events'[i] = "Paused"
        PROVE  \E j \in DOMAIN events' : j > i /\ events'[j] = "Playing"
    <3>1. /\ DOMAIN events' = 1..(Len(s) + 1) /\ Len(s) \in Nat
          /\ events'[Len(s) + 1] = "Playing"
      BY <1>5, ElementsAppend DEF Events
    <3>2. i # Len(s) + 1 /\ Len(s) + 1 \in DOMAIN events'
      BY <2>2, <3>1
    <3> QED BY <3>1, <3>2
  <2> QED BY <2>1, <2>2 DEF PlayingAhead, PlayingAfterPaused
<1>6. CASE Execute
  <2>1. CASE engine' = "playing" /\ engine # "playing"
    BY <1>5, <1>6, <2>1 DEF Execute, TypeOK
  <2>2. CASE engine' = engine
    BY <1>0, <1>6, <2>2 DEF Execute
  <2> QED BY <1>3, <1>6, <2>1, <2>2 DEF Execute
<1>7. CASE Opened
  <2>1. events \in Seq(Events) /\ Append(events, "Unpausable") \in Seq(Events)
    BY DEF TypeOK, Events
  <2> QED BY <1>5, <1>7, <2>1 DEF Opened
<1>8. CASE Ended
  BY <1>3, <1>8 DEF Ended
<1>9. CASE OnPlaying
  <2>1. /\ events # <<>> /\ events \in Seq(Events) /\ events' = Tail(events)
        /\ engine' = engine /\ playbackState' = "playing"
    BY <1>9 DEF OnPlaying, Handle, TypeOK
  <2> QED BY <2>1, ShiftPlaying DEF PlayingAhead
<1>10. CASE OnPaused
  <2>1. /\ events # <<>> /\ events \in Seq(Events) /\ events' = Tail(events)
        /\ engine' = engine /\ Head(events) = "Paused"
    BY <1>10 DEF OnPaused, Handle, TypeOK
  <2>2. engine = "playing" => "Playing" \in Elements(events)
    <3>1. 1 \in DOMAIN events /\ events[1] = "Paused"
      BY <2>1
    <3> QED BY <3>1 DEF PlayingAfterPaused, Elements
  <2>3. PlayingAhead'
    BY <2>1, <2>2, ElementsTail DEF PlayingAhead
  <2> QED BY <2>1, <2>3, ShiftPlaying
<1>11. CASE OnPausableChanged
  BY <1>11, OtherEvent DEF OnPausableChanged, Events
<1>12. CASE UNCHANGED vars
  BY <1>0, <1>12 DEF vars, playerVars
<1> QED BY <1>1, <1>2, <1>4, <1>6, <1>7, <1>8, <1>9, <1>10, <1>11, <1>12 DEF Next

-----------------------------------------------------------------------------
(* Sound.                                                                   *)

LEMMA NextSound ==
  ASSUME TypeOK, RendererFreesFocus, EngineInv, FocusInv, SoundAhead, [Next]_vars
  PROVE  SoundAhead'
<1> USE DEF deviceVars
<1>1. ASSUME UNCHANGED <<engine, events, hasRenderer, pausable, mHasAudioFocus, denied>>,
             \/ UNCHANGED commands
             \/ \E c \in Commands : commands' = Append(commands, c)
      PROVE  SoundAhead'
  <2>1. Elements(commands) \subseteq Elements(commands')
    <3>1. ASSUME NEW c \in Commands, commands' = Append(commands, c)
          PROVE  Elements(commands) \subseteq Elements(commands')
      BY <3>1, ElementsAppend DEF TypeOK
    <3> QED BY <1>1, <3>1
  <2> QED BY <1>1, <2>1 DEF SoundAhead
<1>2. ASSUME Play \/ Pause \/ UNCHANGED commands
      PROVE  UNCHANGED commands \/ \E c \in Commands : commands' = Append(commands, c)
  BY <1>2 DEF Play, Pause, Commands
<1>3. CASE UserPlay \/ UserPause \/ VolumeKey \/ HeadsetPlug \/ BecomingNoisy
  BY <1>1, <1>2, <1>3 DEF UserPlay, UserPause, VolumeKey, HeadsetPlug, BecomingNoisy,
     playerVars, focusVars
<1>4. CASE FocusChanges \/ OnLossTransient
  BY <1>1, <1>2, <1>4 DEF FocusChanges, OnLossTransient, PausePlayback, Notified,
     KeepAudioFocus, playerVars
<1>5. CASE OnCanDuck \/ OnGain
  BY <1>1, <1>2, <1>5 DEF OnCanDuck, OnGain, Duck, PausePlayback, Notified
<1>6. ASSUME engine' # "playing" PROVE SoundAhead'
  BY <1>6 DEF SoundAhead
<1>7. CASE UserStart \/ UserStop \/ OnEndReached \/ OnEncounteredError \/ Ended
  BY <1>6, <1>7 DEF UserStart, UserStop, OnEndReached, OnEncounteredError, StartPlayback,
     StopPlayback, Ended
<1>8. ASSUME NEW s \in Seq(Events), events' = Append(s, "Playing") PROVE SoundAhead'
  BY <1>8, ElementsAppend DEF SoundAhead, Events
<1>9. CASE Opened
  <2>1. events \in Seq(Events) /\ Append(events, "Unpausable") \in Seq(Events)
    BY DEF TypeOK, Events
  <2> QED BY <1>8, <1>9, <2>1 DEF Opened
<1>10. CASE Execute
  <2>1. CASE engine' = "playing" /\ engine # "playing"
    BY <1>8, <1>10, <2>1 DEF Execute, TypeOK
  <2>2. CASE engine' = "playing" /\ engine = "playing"
    <3>1. /\ commands # <<>> /\ commands' = Tail(commands) /\ events' = events
          /\ UNCHANGED <<hasRenderer, pausable, mHasAudioFocus, denied>>
      BY <1>10, <2>2 DEF Execute, focusVars
    <3>2. Head(commands) # "pause"
      BY <1>10, <2>2 DEF Execute, Executed
    <3>3. "pause" \in Elements(commands) => "pause" \in Elements(commands')
      BY <3>1, <3>2, ElementsTail DEF TypeOK
    <3> QED BY <2>2, <3>1, <3>3 DEF SoundAhead
  <2> QED BY <1>6, <2>1, <2>2
<1>11. CASE OnPlaying
  <2>1. ChangeAudioFocus(TRUE, hasRenderer, notices) /\ UNCHANGED hasRenderer
    BY <1>11 DEF OnPlaying
  <2>2. ~hasRenderer => mHasAudioFocus' \/ denied'
    BY <2>1, ChangeAudioFocusAgrees DEF TypeOK
  <2> QED BY <2>1, <2>2 DEF SoundAhead
<1>12. CASE OnPaused
  <2>1. /\ events # <<>> /\ events' = Tail(events) /\ Head(events) = "Paused"
        /\ UNCHANGED <<engine, hasRenderer, pausable, mHasAudioFocus, denied, commands>>
    BY <1>12 DEF OnPaused, Handle, focusVars
  <2>2. Elements(events) = Elements(events') \cup {"Paused"}
    BY <2>1, ElementsTail DEF TypeOK
  <2> QED BY <2>1, <2>2 DEF SoundAhead
<1>13. CASE OnPausableChanged
  BY <1>13 DEF OnPausableChanged, SoundAhead
<1>14. CASE OnLoss
  <2>1. /\ UNCHANGED <<engine, events, pausable, playbackState, hasRenderer>> /\ Pause
    BY <1>14 DEF OnLoss, Notified
  <2>2. CASE engine = "playing" /\ playbackState # "playing"
    BY <2>1, <2>2 DEF SoundAhead, EngineInv, PlayingAhead
  <2>3. CASE engine = "playing" /\ playbackState = "playing" /\ pausable
    <3>1. commands' = Append(commands, "pause")
      BY <2>1, <2>3 DEF Pause, IsPlaying, HasMedia
    <3>2. "pause" \in Elements(commands')
      BY <3>1, ElementsAppend DEF TypeOK, Commands
    <3> QED BY <3>2 DEF SoundAhead
  <2>4. CASE engine # "playing" \/ ~pausable
    BY <2>1, <2>4 DEF SoundAhead
  <2> QED BY <2>2, <2>3, <2>4
<1>15. CASE SetRenderer
  <2>1. UNCHANGED <<engine, events, pausable, playbackState, commands>>
    BY <1>15 DEF SetRenderer, playerVars
  <2>2. CASE hasRenderer'
    BY <2>2 DEF SoundAhead
  <2>3. CASE ~hasRenderer' /\ ~hasRenderer
    <3>1. UNCHANGED <<mHasAudioFocus, denied, hasRenderer>>
      BY <1>15, <2>3 DEF SetRenderer, KeepAudioFocus, TypeOK
    <3> QED BY <2>1, <3>1 DEF SoundAhead
  <2>4. CASE ~hasRenderer' /\ hasRenderer /\ IsPlaying
    <3>1. ChangeAudioFocus(TRUE, FALSE, notices)
      <4>1. PICK renderer \in BOOLEAN :
               /\ hasRenderer' = renderer
               /\ IF ~hasRenderer /\ renderer
                  THEN ChangeAudioFocus(FALSE, renderer, notices)
                  ELSE IF hasRenderer /\ ~renderer /\ IsPlaying
                       THEN ChangeAudioFocus(TRUE, renderer, notices)
                       ELSE KeepAudioFocus(notices)
        BY <1>15 DEF SetRenderer
      <4>2. renderer = FALSE
        BY <2>4, <4>1
      <4> QED BY <2>4, <4>1, <4>2
    <3> QED BY <3>1, ChangeAudioFocusAgrees DEF SoundAhead
  <2>5. CASE ~IsPlaying
    BY <2>1, <2>5 DEF SoundAhead, EngineInv, PlayingAhead, IsPlaying
  <2> QED BY <2>2, <2>3, <2>4, <2>5
<1>16. CASE UNCHANGED vars
  BY <1>1, <1>16 DEF vars, playerVars, focusVars
<1> QED BY <1>3, <1>4, <1>5, <1>7, <1>9, <1>10, <1>11, <1>12, <1>13, <1>14, <1>15, <1>16
        DEF Next

-----------------------------------------------------------------------------
(* The volume.                                                              *)

\* A notice is taken off the queue: the last one stays the last.
LEMMA ShiftNotices ==
  ASSUME TypeOK, LastIsFocus, notices # <<>>, notices' = Tail(notices), focus' = focus
  PROVE  /\ LastIsFocus'
         /\ notices' = <<>> => Head(notices) = Notice(focus)
<1>1. /\ notices \in Seq(Notices) /\ Len(notices) \in Nat /\ Len(notices) > 0
      /\ Head(notices) = notices[1] /\ Len(Tail(notices)) = Len(notices) - 1
  BY DEF TypeOK
<1>2. CASE Len(notices) = 1
  <2>1. Tail(notices) = <<>>
    BY <1>1, <1>2
  <2> QED BY <1>1, <1>2, <2>1 DEF LastIsFocus
<1>3. CASE Len(notices) > 1
  <2>1. /\ Len(notices) - 1 \in DOMAIN Tail(notices)
        /\ Tail(notices)[Len(notices) - 1] = notices[Len(notices)]
        /\ Tail(notices) # <<>>
    <3>1. Len(notices) - 1 \in DOMAIN Tail(notices)
      <4>1. DOMAIN Tail(notices) = 1..(Len(notices) - 1)
        BY <1>1, ElementsTail
      <4> QED BY <1>1, <1>3, <4>1
    <3>2. Tail(notices)[Len(notices) - 1] = notices[Len(notices) - 1 + 1]
      BY <1>1, <3>1, ElementsTail
    <3>3. Len(notices) - 1 + 1 = Len(notices)
      BY <1>1
    <3>4. Tail(notices) # <<>>
      <4>1. Len(Tail(notices)) # 0
        BY <1>1, <1>3
      <4>2. Len(<<>>) = 0
        OBVIOUS
      <4> QED BY <4>1, <4>2, Zenon
    <3>5. Tail(notices)[Len(notices) - 1] = notices[Len(notices)]
      BY <3>2, <3>3, Zenon
    <3> QED BY <3>1, <3>4, <3>5
  <2> QED BY <1>1, <2>1 DEF LastIsFocus, Notice
<1> QED BY <1>1, <1>2, <1>3

\* A request finds the queue empty, and leaves the volume of before behind.
LEMMA ChangeAudioFocusVolume ==
  ASSUME TypeOK, FocusInv, VolumeInv, NEW acquire \in BOOLEAN, NEW renderer \in BOOLEAN,
         ChangeAudioFocus(acquire, renderer, notices), UNCHANGED mLossTransientVolume
  PROVE  VolumeInv'
<1> USE DEF VolumeInv
<1>1. CASE KeepAudioFocus(notices)
  BY <1>1 DEF KeepAudioFocus, LastIsFocus, VolumeGivenBack, Notice
<1>2. CASE AbandonAudioFocus
  BY <1>2 DEF AbandonAudioFocus, LastIsFocus, VolumeGivenBack
<1>3. CASE ~mHasAudioFocus /\ RequestAudioFocus(notices)
  <2>1. focus = "none" /\ "LOSS" \notin Elements(notices)
    BY <1>3 DEF FocusInv, FocusAgrees
  <2>2. notices = <<>>
    <3> SUFFICES ASSUME notices # <<>> PROVE FALSE
      OBVIOUS
    <3>1. notices[Len(notices)] = "LOSS"
      BY <2>1 DEF LastIsFocus, Notice
    <3>2. Len(notices) \in DOMAIN notices
      BY DEF TypeOK
    <3> QED BY <2>1, <3>1, <3>2 DEF Elements
  <2>3. notices' = <<>> /\ (UNCHANGED focus \/ leftOver' = (mLossTransientVolume # NoVolume))
    BY <1>3, <2>2 DEF RequestAudioFocus
  <2>4. focus' = "gain" /\ mLossTransientVolume # NoVolume => leftOver'
    BY <2>1, <2>3
  <2> QED BY <2>3, <2>4 DEF LastIsFocus, VolumeGivenBack
<1> QED BY <1>1, <1>2, <1>3 DEF ChangeAudioFocus

LEMMA NextVolume ==
  ASSUME TypeOK, FocusInv, VolumeInv, [Next]_vars
  PROVE  VolumeInv'
<1> USE DEF VolumeInv, focusVars, volumeVars, deviceVars
<1>0. UNCHANGED <<focus, notices, leftOver, mLossTransientVolume>> => VolumeInv'
  <2> SUFFICES ASSUME UNCHANGED <<focus, notices, leftOver, mLossTransientVolume>>
               PROVE  VolumeInv'
    OBVIOUS
  <2>1. LastIsFocus'
    BY DEF LastIsFocus, Notice
  <2>2. VolumeGivenBack'
    BY Zenon DEF VolumeGivenBack
  <2> QED BY <2>1, <2>2
<1>1. CASE UserPlay \/ UserPause \/ VolumeKey \/ HeadsetPlug \/ BecomingNoisy
  <2>1. UNCHANGED focusVars /\ UNCHANGED mLossTransientVolume
    BY <1>1 DEF UserPlay, UserPause, VolumeKey, HeadsetPlug, BecomingNoisy
  <2> QED BY <1>0, <2>1
<1>2. CASE Execute \/ Opened \/ Ended \/ OnPaused \/ OnPausableChanged
  BY <1>0, <1>2 DEF Execute, Opened, Ended, OnPaused, OnPausableChanged
<1>3. ASSUME NEW state, StartPlayback(state) PROVE VolumeInv'
  BY <1>0, <1>3 DEF StartPlayback
<1>4. CASE StopPlayback
  BY <1>4, ChangeAudioFocusVolume DEF StopPlayback, TypeOK
<1>5. CASE UserStart \/ UserStop \/ OnEndReached \/ OnEncounteredError
  BY <1>3, <1>4, <1>5 DEF UserStart, UserStop, OnEndReached, OnEncounteredError
<1>6. CASE OnPlaying
  BY <1>6, ChangeAudioFocusVolume DEF OnPlaying, TypeOK
<1>7. CASE FocusChanges
  <2>1. PICK kind \in {"none", "transient", "duck", "gain"} \ {focus} :
           focus' = kind /\ notices' = Append(notices, Notice(kind))
    BY <1>7 DEF FocusChanges
  <2>2. notices \in Seq(Notices) /\ Notice(kind) \in Notices
    BY DEF TypeOK, Notice, Notices
  <2>3. /\ notices' # <<>> /\ notices'[Len(notices')] = Notice(kind)
        /\ Notice(focus') = Notice(kind)
    BY <2>1, <2>2 DEF Notice
  <2> QED BY <2>1, <2>3 DEF LastIsFocus, VolumeGivenBack, Notice
<1>8. CASE OnLoss
  <2>1. /\ notices # <<>> /\ Head(notices) = "LOSS" /\ UNCHANGED mLossTransientVolume
        /\ ChangeAudioFocus(FALSE, hasRenderer, Tail(notices))
    BY <1>8 DEF OnLoss, Notified
  <2>2. mHasAudioFocus
    BY <2>1, ElementsTail DEF FocusInv, FocusAgrees, TypeOK
  <2> QED BY <2>1, <2>2
          DEF ChangeAudioFocus, AbandonAudioFocus, LastIsFocus, VolumeGivenBack
<1>9. CASE OnLossTransient \/ OnCanDuck
  <2>1. /\ notices # <<>> /\ notices' = Tail(notices) /\ focus' = focus
        /\ Head(notices) \in {"LOSS_TRANSIENT", "CAN_DUCK"}
    BY <1>9 DEF OnLossTransient, OnCanDuck, Notified, KeepAudioFocus
  <2>2. LastIsFocus' /\ (notices' = <<>> => focus # "gain")
    BY <2>1, ShiftNotices DEF Notice
  <2> QED BY <2>1, <2>2 DEF VolumeGivenBack
<1>10. CASE OnGain
  <2>1. /\ notices # <<>> /\ notices' = Tail(notices) /\ focus' = focus
        /\ RestoreVolume
    BY <1>10 DEF OnGain, Notified
  <2>2. mLossTransientVolume' = NoVolume
    BY <2>1 DEF RestoreVolume
  <2> QED BY <2>1, <2>2, ShiftNotices DEF VolumeGivenBack
<1>11. CASE SetRenderer
  <2>1. PICK renderer \in BOOLEAN :
           \/ \E acquire \in BOOLEAN : ChangeAudioFocus(acquire, renderer, notices)
           \/ KeepAudioFocus(notices)
    BY <1>11 DEF SetRenderer
  <2>2. UNCHANGED mLossTransientVolume
    BY <1>11 DEF SetRenderer
  <2> QED BY <1>0, <2>1, <2>2, ChangeAudioFocusVolume DEF KeepAudioFocus
<1>12. CASE UNCHANGED vars
  BY <1>0, <1>12 DEF vars
<1> QED BY <1>1, <1>2, <1>5, <1>6, <1>7, <1>8, <1>9, <1>10, <1>11, <1>12 DEF Next

-----------------------------------------------------------------------------
(* The theorems.                                                            *)

\* The strengthened invariant holds in every state (PlaybackService.java:302-398).
THEOREM Inductive == Spec => []IInv
<1>1. Init => IInv
  <2> SUFFICES ASSUME Init PROVE IInv
    OBVIOUS
  <2>1. TypeOK
    <3>1. MaxVolume \in Volumes
      BY DeviceAssumption DEF Volumes
    <3>2. commands \in Seq(Commands) /\ events \in Seq(Events) /\ notices \in Seq(Notices)
      BY EmptyQueue DEF Init
    <3> QED BY <3>1, <3>2 DEF Init, TypeOK
  <2>2. FocusInv /\ RendererFreesFocus /\ EngineInv /\ SoundAhead
    BY EmptyQueue DEF Init, FocusInv, FocusAgrees, LossIsLast, RendererFreesFocus,
       EngineInv, PlayingAhead, PlayingAfterPaused, SoundAhead
  <2>3. VolumeInv
    BY DEF Init, VolumeInv, LastIsFocus, VolumeGivenBack
  <2> QED BY <2>1, <2>2, <2>3 DEF IInv
<1>2. IInv /\ [Next]_vars => IInv'
  BY NextTypes, NextFocus, NextEngine, NextSound, NextVolume DEF IInv
<1> QED BY <1>1, <1>2, PTL DEF Spec

\* Every variable keeps its type.
THEOREM TypeCorrect == Spec => []TypeOK
<1>1. IInv => TypeOK
  BY DEF IInv
<1> QED BY <1>1, Inductive, PTL

\* The flag of the service and the focus AudioManager has for it agree
\* (PlaybackService.java:379-398).
THEOREM FocusInAgreement == Spec => []FocusAgrees
<1>1. IInv => FocusAgrees
  BY DEF IInv, FocusInv
<1> QED BY <1>1, Inductive, PTL

\* Casting holds no focus (PlaybackService.java:385, 1769).
THEOREM CastingFreesFocus == Spec => []RendererFreesFocus
<1>1. IInv => RendererFreesFocus
  BY DEF IInv
<1> QED BY <1>1, Inductive, PTL

\* Nothing sounds for good without the focus, however the queues interleave
\* (PlaybackService.java:316-322, 494, 1769-1770).
THEOREM SoundHasFocus == Spec => []NoSoundWithoutFocus
<1>1. IInv => NoSoundWithoutFocus
  BY EmptyQueue DEF IInv, SoundAhead, NoSoundWithoutFocus
<1> QED BY <1>1, Inductive, PTL

\* Whoever has had the focus all along gets back the volume it had before it
\* ducked (PlaybackService.java:328-360).
THEOREM VolumeRestored == Spec => []VolumeGivenBack
<1>1. IInv => VolumeGivenBack
  BY DEF IInv, VolumeInv
<1> QED BY <1>1, Inductive, PTL
=============================================================================
