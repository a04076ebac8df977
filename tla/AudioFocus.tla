----------------------------- MODULE AudioFocus -----------------------------
(***************************************************************************)
(* Who may make sound: PlaybackService.java against Android's audio focus. *)
(*                                                                         *)
(* The service requests the focus when libvlc reports that it plays, gives *)
(* it back when playback stops or moves to a renderer (a Chromecast), and  *)
(* pauses or ducks when another application takes it.  Everything of the   *)
(* service runs on the main thread; three queues make it asynchronous: the *)
(* commands libvlc has not executed, the events it has posted and the      *)
(* notices AudioManager has posted.  A handler with the calls it makes is  *)
(* one action.                                                             *)
(*                                                                         *)
(* The playlist is reduced to the media its player has: a new one starts   *)
(* (load(), playIndex(), next()) or playback stops.                        *)
(***************************************************************************)
EXTENDS Integers, Sequences

CONSTANTS
  AudioDuckLevel, \* the volume to duck to
  MaxVolume,      \* the loudest volume
  MaxCommands,    \* bound: commands libvlc has not executed
  MaxEvents,      \* bound: libvlc events the main thread has not handled
  MaxNotices      \* bound: focus changes the main thread has not handled

ASSUME DeviceAssumption ==
  AudioDuckLevel \in Nat /\ MaxVolume \in Nat /\ AudioDuckLevel < MaxVolume
ASSUME BoundsAssumption ==
  /\ MaxCommands \in Nat /\ MaxEvents \in Nat /\ MaxNotices \in Nat

VARIABLES
  isAmazon,      \* AndroidDevices.isAmazon
  playbackState, \* what the last event said of the player
  pausable,      \* whether the media can be paused
  hasRenderer,   \* whether playback goes to a renderer
  engine,        \* what libvlc really does
  commands,      \* play and pause commands on their way to libvlc
  events,        \* libvlc events on their way to the main thread
  mHasAudioFocus, mLossTransient, wasPlaying, mLossTransientVolume,
  volume,        \* the volume of the music stream
  unplugged,     \* wasPlaying of the headset receiver
  focus,         \* AudioManager: the focus this application has
  notices,       \* AudioManager: focus changes on their way to the main thread
  denied,        \* history: the last request of the focus was refused
  leftOver       \* history: mLossTransientVolume is from an earlier grant

playerVars == <<playbackState, pausable, engine, commands, events>>
focusVars == <<mHasAudioFocus, focus, notices, denied, leftOver>>
lossVars == <<mLossTransient, wasPlaying>>
volumeVars == <<volume, mLossTransientVolume>>
deviceVars == <<hasRenderer, unplugged, isAmazon>>
vars == <<playerVars, focusVars, lossVars, volumeVars, deviceVars>>

Commands == {"play", "pause"}
Events == {"Playing", "Paused", "Unpausable", "EndReached", "EncounteredError"}
Notices == {"LOSS", "LOSS_TRANSIENT", "CAN_DUCK", "GAIN"}
Volumes == 0..MaxVolume
NoVolume == -1

TypeOK ==
  /\ playbackState \in {"stopped", "playing", "paused"}
  /\ pausable \in BOOLEAN /\ hasRenderer \in BOOLEAN
  /\ engine \in {"idle", "opening", "playing", "paused", "ended"}
  /\ commands \in Seq(Commands)
  /\ events \in Seq(Events)
  /\ mHasAudioFocus \in BOOLEAN /\ mLossTransient \in BOOLEAN
  /\ wasPlaying \in BOOLEAN /\ unplugged \in BOOLEAN /\ isAmazon \in BOOLEAN
  /\ volume \in Volumes /\ mLossTransientVolume \in Volumes \cup {NoVolume}
  /\ focus \in {"none", "gain", "transient", "duck"}
  /\ notices \in Seq(Notices)
  /\ denied \in BOOLEAN /\ leftOver \in BOOLEAN

Init ==
  /\ isAmazon \in BOOLEAN
  /\ playbackState = "stopped" /\ pausable = FALSE /\ hasRenderer = FALSE
  /\ engine = "idle" /\ commands = <<>> /\ events = <<>>
  /\ mHasAudioFocus = FALSE /\ mLossTransient = FALSE
  /\ wasPlaying = FALSE /\ unplugged = FALSE
  /\ volume = MaxVolume /\ mLossTransientVolume = NoVolume
  /\ focus = "none" /\ notices = <<>>
  /\ denied = FALSE /\ leftOver = FALSE

Elements(s) == {s[i] : i \in DOMAIN s}

HasMedia == engine # "idle"
IsPlaying == playbackState = "playing"

-----------------------------------------------------------------------------
(* changeAudioFocus(): renderer is what hasRenderer() returns when it is    *)
(* called and pending the notices that are left.                            *)

RequestAudioFocus(pending) ==
  /\ \/ /\ mHasAudioFocus' = TRUE /\ focus' = "gain" /\ denied' = FALSE
        /\ leftOver' = (mLossTransientVolume # NoVolume)
     \/ /\ denied' = TRUE
        /\ UNCHANGED <<mHasAudioFocus, focus, leftOver>>
  /\ notices' = pending

\* AudioManager forgets the listener, and what it had to tell it.
AbandonAudioFocus ==
  /\ mHasAudioFocus' = FALSE /\ focus' = "none" /\ notices' = <<>>
  /\ UNCHANGED <<denied, leftOver>>

KeepAudioFocus(pending) ==
  notices' = pending /\ UNCHANGED <<mHasAudioFocus, focus, denied, leftOver>>

\* Mutant of ChangeAudioFocus: the focus is requested for a renderer too.
ChangeAudioFocusAlways(acquire, renderer, pending) ==
  \/ acquire /\ ~mHasAudioFocus /\ RequestAudioFocus(pending)
  \/ ~acquire /\ mHasAudioFocus /\ AbandonAudioFocus
  \/ (acquire <=> mHasAudioFocus) /\ KeepAudioFocus(pending)

\* Mutant of ChangeAudioFocus: the flag is not reset.
ChangeAudioFocusFlagKept(acquire, renderer, pending) ==
  \/ acquire /\ ~renderer /\ ~mHasAudioFocus /\ RequestAudioFocus(pending)
  \/ /\ ~(acquire /\ ~renderer) /\ mHasAudioFocus
     /\ focus' = "none" /\ notices' = <<>>
     /\ UNCHANGED <<mHasAudioFocus, denied, leftOver>>
  \/ (acquire /\ ~renderer <=> mHasAudioFocus) /\ KeepAudioFocus(pending)

ChangeAudioFocus(acquire, renderer, pending) ==
  \/ acquire /\ ~renderer /\ ~mHasAudioFocus /\ RequestAudioFocus(pending)
  \/ ~(acquire /\ ~renderer) /\ mHasAudioFocus /\ AbandonAudioFocus
  \/ (acquire /\ ~renderer <=> mHasAudioFocus) /\ KeepAudioFocus(pending)

-----------------------------------------------------------------------------
(* play(), pause(), a new media and the end of playback.                    *)

Play ==
  commands' = IF HasMedia THEN Append(commands, "play") ELSE commands

Pause ==
  commands' = IF IsPlaying /\ HasMedia /\ pausable
              THEN Append(commands, "pause") ELSE commands

UserPlay ==
  /\ Len(commands) < MaxCommands
  /\ Play
  /\ UNCHANGED <<playbackState, pausable, engine, events, focusVars, lossVars,
                 volumeVars, deviceVars>>

UserPause ==
  /\ Len(commands) < MaxCommands
  /\ Pause
  /\ UNCHANGED <<playbackState, pausable, engine, events, focusVars, lossVars,
                 volumeVars, deviceVars>>

\* startPlayback(): the listener is taken off, and the events with it, while
\* the media changes.  The state stays what the last event said.
StartPlayback(state) ==
  /\ playbackState' = state /\ pausable' = TRUE
  /\ engine' = "opening" /\ commands' = <<>> /\ events' = <<>>
  /\ UNCHANGED <<focusVars, lossVars, volumeVars, deviceVars>>

\* PlaylistManager.stop() and onPlaybackStopped(): a new MediaPlayer.
StopPlayback ==
  /\ playbackState' = "stopped"
  /\ engine' = "idle" /\ commands' = <<>> /\ events' = <<>>
  /\ ChangeAudioFocus(FALSE, hasRenderer, notices)
  /\ UNCHANGED <<pausable, lossVars, volumeVars, deviceVars>>

UserStart == StartPlayback(playbackState)

UserStop == StopPlayback

VolumeKey ==
  /\ \E v \in Volumes : volume' = v
  /\ UNCHANGED <<playerVars, focusVars, lossVars, mLossTransientVolume,
                 deviceVars>>

-----------------------------------------------------------------------------
(* libvlc: it executes the commands in order and posts what happens.  Only  *)
(* a media that plays can be paused; playing one that ended opens it again. *)

Executed(command) ==
  CASE command = "play" /\ engine = "paused" -> "playing"
    [] command = "play" /\ engine = "ended" -> "opening"
    [] command = "pause" /\ engine = "playing" -> "paused"
    [] OTHER -> engine

Execute ==
  /\ commands # <<>> /\ Len(events) < MaxEvents
  /\ engine' = Executed(Head(commands))
  /\ commands' = Tail(commands)
  /\ events' = CASE engine' = "playing" /\ engine # "playing" -> Append(events, "Playing")
                 [] engine' = "paused" /\ engine # "paused" -> Append(events, "Paused")
                 [] OTHER -> events
  /\ UNCHANGED <<playbackState, pausable, focusVars, lossVars, volumeVars,
                 deviceVars>>

\* The media opened, and is one that can be paused or not.
Opened ==
  /\ engine = "opening" /\ Len(events) + 1 < MaxEvents
  /\ engine' = "playing"
  /\ \/ events' = Append(events, "Playing")
     \/ events' = Append(Append(events, "Unpausable"), "Playing")
  /\ UNCHANGED <<playbackState, pausable, commands, focusVars, lossVars, volumeVars,
                 deviceVars>>

\* The media cannot be opened, or comes to its end.
Ended ==
  /\ engine \in {"opening", "playing"} /\ Len(events) < MaxEvents
  /\ engine' = "ended"
  /\ \/ engine = "playing" /\ events' = Append(events, "EndReached")
     \/ events' = Append(events, "EncounteredError")
  /\ UNCHANGED <<playbackState, pausable, commands, focusVars, lossVars, volumeVars,
                 deviceVars>>

-----------------------------------------------------------------------------
(* The events, as PlayerController, PlaylistManager and the service handle  *)
(* them in turn.                                                            *)

Handle(type) == events # <<>> /\ Head(events) = type /\ events' = Tail(events)

\* Mutant of OnPlaying: the focus is requested only for the first media.
OnPlayingFirst ==
  /\ Handle("Playing")
  /\ playbackState' = "playing"
  /\ ChangeAudioFocus(playbackState = "stopped" \/ mHasAudioFocus, hasRenderer, notices)
  /\ UNCHANGED <<pausable, engine, commands, lossVars, volumeVars, deviceVars>>

OnPlaying ==
  /\ Handle("Playing")
  /\ playbackState' = "playing"
  /\ ChangeAudioFocus(TRUE, hasRenderer, notices)
  /\ UNCHANGED <<pausable, engine, commands, lossVars, volumeVars, deviceVars>>

OnPaused ==
  /\ Handle("Paused")
  /\ playbackState' = "paused"
  /\ UNCHANGED <<pausable, engine, commands, focusVars, lossVars, volumeVars,
                 deviceVars>>

OnPausableChanged ==
  /\ Handle("Unpausable")
  /\ pausable' = FALSE
  /\ UNCHANGED <<playbackState, engine, commands, focusVars, lossVars, volumeVars,
                 deviceVars>>

\* next(): another media, or the end of the list.
OnEndReached ==
  /\ events # <<>> /\ Head(events) = "EndReached"
  /\ StartPlayback(playbackState) \/ StopPlayback

OnEncounteredError ==
  /\ events # <<>> /\ Head(events) = "EncounteredError"
  /\ StartPlayback("stopped") \/ StopPlayback

-----------------------------------------------------------------------------
(* AudioManager: other applications come and go.                            *)

Notice(kind) ==
  CASE kind = "none" -> "LOSS" [] kind = "transient" -> "LOSS_TRANSIENT"
    [] kind = "duck" -> "CAN_DUCK" [] kind = "gain" -> "GAIN"

FocusChanges ==
  /\ focus # "none" /\ Len(notices) < MaxNotices
  /\ \E kind \in {"none", "transient", "duck", "gain"} \ {focus} :
       focus' = kind /\ notices' = Append(notices, Notice(kind))
  /\ UNCHANGED <<playerVars, mHasAudioFocus, denied, leftOver, lossVars, volumeVars,
                 deviceVars>>

-----------------------------------------------------------------------------
(* onAudioFocusChange().                                                    *)

Notified(change) ==
  /\ notices # <<>> /\ Head(notices) = change
  /\ Len(commands) < MaxCommands
  /\ UNCHANGED <<playbackState, pausable, engine, events, deviceVars>>

OnLoss ==
  /\ Notified("LOSS")
  /\ ChangeAudioFocus(FALSE, hasRenderer, Tail(notices))
  /\ Pause
  /\ UNCHANGED <<lossVars, volumeVars>>

PausePlayback ==
  IF mLossTransient THEN UNCHANGED <<commands, lossVars>>
  ELSE /\ mLossTransient' = TRUE
       /\ wasPlaying' = IsPlaying
       /\ IF IsPlaying THEN Pause ELSE UNCHANGED commands

OnLossTransient ==
  /\ Notified("LOSS_TRANSIENT")
  /\ KeepAudioFocus(Tail(notices))
  /\ PausePlayback
  /\ UNCHANGED volumeVars

\* The setting audio_ducking may be off.
Duck ==
  /\ \/ /\ volume > AudioDuckLevel
        /\ mLossTransientVolume' = volume /\ volume' = AudioDuckLevel
        /\ leftOver' = FALSE
     \/ UNCHANGED <<volumeVars, leftOver>>
  /\ UNCHANGED <<commands, lossVars>>

OnCanDuck ==
  /\ Notified("CAN_DUCK")
  /\ notices' = Tail(notices)
  /\ UNCHANGED <<mHasAudioFocus, focus, denied>>
  /\ \/ ~IsPlaying /\ UNCHANGED <<commands, lossVars, volumeVars, leftOver>>
     \/ IsPlaying /\ isAmazon /\ PausePlayback /\ UNCHANGED <<volumeVars, leftOver>>
     \/ IsPlaying /\ ~isAmazon /\ Duck

\* Mutant of RestoreVolume: there may be nothing to restore.
RestoreVolumeAlways ==
  volume' = mLossTransientVolume /\ mLossTransientVolume' = NoVolume

\* Mutant of RestoreVolume: only what was paused gets its volume back.
RestoreVolumeIfPaused ==
  IF mLossTransientVolume # NoVolume /\ mLossTransient
  THEN volume' = mLossTransientVolume /\ mLossTransientVolume' = NoVolume
  ELSE UNCHANGED volumeVars

RestoreVolume ==
  IF mLossTransientVolume # NoVolume
  THEN volume' = mLossTransientVolume /\ mLossTransientVolume' = NoVolume
  ELSE UNCHANGED volumeVars

\* The setting resume_playback may be off.
OnGain ==
  /\ Notified("GAIN")
  /\ RestoreVolume
  /\ notices' = Tail(notices) /\ leftOver' = FALSE
  /\ UNCHANGED <<mHasAudioFocus, focus, denied>>
  /\ (mLossTransient /\ wasPlaying /\ Play) \/ UNCHANGED commands
  /\ mLossTransient' = FALSE
  /\ UNCHANGED wasPlaying

-----------------------------------------------------------------------------
(* The renderer and the headset.                                            *)

SetRenderer ==
  /\ \E renderer \in BOOLEAN :
       /\ hasRenderer' = renderer
       /\ IF ~hasRenderer /\ renderer THEN ChangeAudioFocus(FALSE, renderer, notices)
          ELSE IF hasRenderer /\ ~renderer /\ IsPlaying
               THEN ChangeAudioFocus(TRUE, renderer, notices)
               ELSE KeepAudioFocus(notices)
  /\ UNCHANGED <<playerVars, lossVars, volumeVars, unplugged, isAmazon>>

BecomingNoisy ==
  /\ Len(commands) < MaxCommands
  /\ unplugged' = IsPlaying
  /\ Pause
  /\ UNCHANGED <<playbackState, pausable, engine, events, focusVars, lossVars,
                 volumeVars, hasRenderer, isAmazon>>

\* With the setting enable_play_on_headset_insertion.
HeadsetPlug ==
  /\ unplugged /\ HasMedia /\ Len(commands) < MaxCommands
  /\ Play
  /\ UNCHANGED <<playbackState, pausable, engine, events, focusVars, lossVars,
                 volumeVars, deviceVars>>

-----------------------------------------------------------------------------
Next ==
  \/ UserPlay \/ UserPause \/ UserStart \/ UserStop \/ VolumeKey
  \/ Execute \/ Opened \/ Ended
  \/ OnPlaying \/ OnPaused \/ OnPausableChanged \/ OnEndReached \/ OnEncounteredError
  \/ FocusChanges \/ OnLoss \/ OnLossTransient \/ OnCanDuck \/ OnGain
  \/ SetRenderer \/ BecomingNoisy \/ HeadsetPlug

Spec == Init /\ [][Next]_vars

-----------------------------------------------------------------------------
(* Safety.                                                                  *)

\* mHasAudioFocus is the service's copy of what AudioManager knows: it holds
\* the focus, in whatever form, or a LOSS is on its way to tell it otherwise
\* (PlaybackService.java:379-398).
FocusAgrees ==
  mHasAudioFocus <=> (focus # "none" \/ "LOSS" \in Elements(notices))

\* When nothing is on its way any more, a media that sounds on the device does
\* so with the audio focus, unless the request was refused or the media is one
\* that cannot be paused (PlaybackService.java:316-322, 494, 1769-1770).
NoSoundWithoutFocus ==
  engine = "playing" /\ commands = <<>> /\ events = <<>> /\ ~hasRenderer /\ pausable
    => mHasAudioFocus \/ denied

\* An application that casts leaves the focus of the device to the others
\* (PlaybackService.java:385, 1769).
RendererFreesFocus == hasRenderer => ~mHasAudioFocus

\* Whoever has had the focus all along has its volume back when the one that
\* made it duck is gone (PlaybackService.java:328-360).
VolumeGivenBack ==
  focus = "gain" /\ notices = <<>> /\ mLossTransientVolume # NoVolume => leftOver

-----------------------------------------------------------------------------
(* What the comments and settings say of it.                                *)

\* "Pause playback during alerts and notifications": a transient loss of the
\* focus pauses the media that plays (PlaybackService.java:314, 324-327).
AlertPauses ==
  [][OnLossTransient /\ IsPlaying /\ engine = "playing" /\ pausable
       => commands' = Append(commands, "pause")]_vars
=============================================================================
