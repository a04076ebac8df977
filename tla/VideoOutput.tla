------------------------------ MODULE VideoOutput ------------------------------
(***************************************************************************)
(* The video output of a MediaPlayer (libvlc): the window that collects    *)
(* the surfaces of the views (AWindow.java) and the player that waits for  *)
(* them (MediaPlayer.java).                                                *)
(*                                                                         *)
(*   main   the main thread: it attaches and detaches views, receives the  *)
(*          callbacks of the surfaces, and may call the player;            *)
(*   app    another thread of the application, which calls the player;     *)
(*   vout   libvlc's video output thread, before Android 4.0: it has the   *)
(*          main thread set the geometry of the buffers and waits for it;  *)
(*   libvlc's event thread, which keeps the count of video outputs.        *)
(*                                                                         *)
(* A view is a SurfaceView, as in every activity and popup of the program. *)
(* The helper of a view and the window hold the same surface (mSurface and *)
(* mSurfaces): mSurfaces stands for both.  The layout listener, the mouse, *)
(* the audio output and the texture thread of a TextureView are left out:  *)
(* nothing below reads them.                                               *)
(*                                                                         *)
(* takenBack is history: attachViews() lowered the sign that a thread was  *)
(* woken up for before that thread could see it.                           *)
(***************************************************************************)
EXTENDS Naturals

CONSTANTS MaxPosted,  \* bound: runnables in the main thread's queue
          MaxVout     \* bound: video outputs at a time

ASSUME BoundAssumption == MaxPosted \in Nat \ {0} /\ MaxVout \in Nat

VARIABLES mSurfacesState, mSurfaceHelpers, mSurfaces, valid, dying,
          main, then, app,
          mPlaying, mPlayRequested, mVoutCount, running, track,
          configured, abort, posted, vout, takenBack

window   == <<mSurfacesState, mSurfaceHelpers, mSurfaces, valid, dying>>
player   == <<mPlaying, mPlayRequested>>
libvlc   == <<running, track>>
geometry == <<configured, abort, posted, vout, takenBack>>
vars     == <<window, main, then, app, player, mVoutCount, libvlc, geometry>>

Ids == {"video", "subtitles"}

\* What the main thread does next; "idle": it waits in its looper.
MainSteps == {"idle", "attach", "attachVideo", "attachSubtitles",
              "callbacks", "created", "play", "enable", "nativePlay", "nativeStop",
              "abort", "release", "destroyed", "disable"}

TypeOfWindow ==
    /\ mSurfacesState \in {"INIT", "ATTACHED", "READY"}
    /\ mSurfaceHelpers \in SUBSET Ids
    /\ mSurfaces \in SUBSET Ids
    /\ valid \in SUBSET Ids
    /\ dying \in SUBSET Ids

TypeOfThreads ==
    /\ main \in MainSteps
    /\ then \in {"idle", "created"}
    /\ app \in {"idle", "nativePlay", "nativeStop"}
    /\ vout \in {"idle", "checked", "waiting"}

TypeOfPlayer ==
    /\ mPlaying \in BOOLEAN
    /\ mPlayRequested \in BOOLEAN
    /\ mVoutCount \in 0..MaxVout
    /\ running \in BOOLEAN
    /\ track \in BOOLEAN
    /\ configured \in BOOLEAN
    /\ abort \in BOOLEAN
    /\ posted \in 0..MaxPosted
    /\ takenBack \in BOOLEAN

TypeOK == TypeOfWindow /\ TypeOfThreads /\ TypeOfPlayer

Init ==
    /\ mSurfacesState = "INIT"
    /\ mSurfaceHelpers = {}
    /\ mSurfaces = {}
    /\ valid \in SUBSET Ids
    /\ dying = {}
    /\ main = "idle"
    /\ then = "idle"
    /\ app = "idle"
    /\ mPlaying = FALSE
    /\ mPlayRequested = FALSE
    /\ mVoutCount = 0
    /\ running = FALSE
    /\ track = FALSE
    /\ configured = FALSE
    /\ abort = FALSE
    /\ posted = 0
    /\ vout = "idle"
    /\ takenBack = FALSE

------------------------------------------------------------------------------
(* The window: views are attached, and surfaces come and go.               *)

\* Mutant of areSurfacesWaiting: views that are attached are taken for missing.
areSurfacesWaitingAlways == mSurfacesState # "INIT"

areSurfacesWaiting == mSurfacesState = "ATTACHED"
areViewsAttached   == mSurfacesState # "INIT"

\* setVideoView(), setSubtitlesView() and the state that attachViews() sets: the
\* activity shows the video and the subtitles, the popup the video only.
AttachViews(ids) ==
    /\ main = "idle"
    /\ mSurfacesState = "INIT"
    /\ mSurfacesState' = "ATTACHED"
    /\ mSurfaceHelpers' = ids
    /\ main' = "attach"
    /\ UNCHANGED <<mSurfaces, valid, dying, then, app, player, mVoutCount, libvlc,
                   geometry>>

\* attachViews(): the signs of the last video output are taken back, whether or
\* not the thread that they are for has seen them.
ResetGeometry ==
    /\ main = "attach"
    /\ main' = "attachVideo"
    /\ configured' = FALSE
    /\ abort' = FALSE
    /\ takenBack' = (takenBack \/ (vout = "waiting" /\ posted = 0))
    /\ UNCHANGED <<window, then, app, player, mVoutCount, libvlc, posted, vout>>

\* onSurfaceCreated(): all the surfaces are there, or the next step is `next`.
\* The window's own callbacks come first, then the player's.
OnSurfaceCreated(surfaces, next) ==
    IF mSurfaceHelpers \subseteq surfaces
    THEN mSurfacesState' = "READY" /\ main' = "callbacks"
    ELSE UNCHANGED mSurfacesState /\ main' = next

\* Mutant of SetSurface: the state is looked at before the surface is stored.
SetSurfaceLate(id, isValid, next) ==
    IF isValid /\ id \notin mSurfaces
    THEN /\ mSurfaces' = mSurfaces \union {id}
         /\ OnSurfaceCreated(mSurfaces, next)
    ELSE /\ main' = next
         /\ UNCHANGED <<mSurfaces, mSurfacesState>>

\* SurfaceHelper.setSurface(): a surface that is valid and new to the window.
SetSurface(id, isValid, next) ==
    IF isValid /\ id \notin mSurfaces
    THEN /\ mSurfaces' = mSurfaces \union {id}
         /\ OnSurfaceCreated(mSurfaces \union {id}, next)
    ELSE /\ main' = next
         /\ UNCHANGED <<mSurfaces, mSurfacesState>>

\* The loop of attachViews() over the views.
AttachHelper ==
    /\ \/ /\ main = "attachVideo"
          /\ SetSurface("video", "video" \in valid,
                        IF "subtitles" \in mSurfaceHelpers
                        THEN "attachSubtitles" ELSE "idle")
       \/ /\ main = "attachSubtitles"
          /\ SetSurface("subtitles", "subtitles" \in valid, "idle")
    /\ UNCHANGED <<mSurfaceHelpers, valid, dying, then, app, player, mVoutCount,
                   libvlc, geometry>>

\* Android creates the surface of a view, and tells the helper if there is one.
SurfaceCreated(id) ==
    /\ main = "idle"
    /\ id \notin valid
    /\ valid' = valid \union {id}
    /\ \/ id \in mSurfaceHelpers /\ SetSurface(id, TRUE, "idle")
       \/ id \notin mSurfaceHelpers /\ UNCHANGED <<mSurfaces, mSurfacesState, main>>
    /\ UNCHANGED <<mSurfaceHelpers, dying, then, app, player, mVoutCount, libvlc,
                   geometry>>

\* detachViews(): the state is set and the main thread's queue is emptied.
\* `lost` is the surface on whose account the views are detached, if any.
StartDetach(lost) ==
    /\ mSurfacesState' = "INIT"
    /\ posted' = 0
    /\ dying' = lost
    /\ main' = "abort"
    /\ UNCHANGED <<mSurfaceHelpers, mSurfaces, valid, then, app, player, mVoutCount,
                   libvlc, configured, abort, vout, takenBack>>

\* Mutant of AbortGeometry: a thread that waits for its buffers is not told.
AbortGeometrySilent ==
    /\ main = "abort"
    /\ main' = "release"
    /\ UNCHANGED <<window, then, app, player, mVoutCount, libvlc, geometry>>

\* detachViews(), with the window's lock: who waits for its buffers is told.
AbortGeometry ==
    /\ main = "abort"
    /\ main' = "release"
    /\ abort' = TRUE
    /\ UNCHANGED <<window, then, app, player, mVoutCount, libvlc,
                   configured, posted, vout, takenBack>>

DetachViews == main = "idle" /\ areViewsAttached /\ StartDetach({})

\* Mutant of SurfaceDestroyed: only a window that is ready is detached.
SurfaceDestroyedWhenReady(id) ==
    /\ main = "idle"
    /\ id \in valid
    /\ \/ /\ mSurfacesState = "READY"
          /\ StartDetach({id})
       \/ /\ mSurfacesState # "READY"
          /\ valid' = valid \ {id}
          /\ UNCHANGED <<mSurfacesState, mSurfaceHelpers, mSurfaces, dying, main, then,
                         app, player, mVoutCount, libvlc, geometry>>

\* Android destroys a surface once the callback of its helper has returned.
SurfaceDestroyed(id) ==
    /\ main = "idle"
    /\ id \in valid
    /\ \/ /\ id \in mSurfaceHelpers
          /\ StartDetach({id})
       \/ /\ id \notin mSurfaceHelpers
          /\ valid' = valid \ {id}
          /\ UNCHANGED <<mSurfacesState, mSurfaceHelpers, mSurfaces, dying, main, then,
                         app, player, mVoutCount, libvlc, geometry>>

ReleaseHelpers ==
    /\ main = "release"
    /\ mSurfaceHelpers' = {}
    /\ mSurfaces' = {}
    /\ main' = "destroyed"
    /\ UNCHANGED <<mSurfacesState, valid, dying, then, app, player, mVoutCount,
                   libvlc, geometry>>

\* detachViews() returns, and the surface that made it run is gone.
EndDetach ==
    /\ valid' = valid \ dying
    /\ dying' = {}
    /\ main' = "idle"

------------------------------------------------------------------------------
(* The player.  Its fields are read and written with its monitor held; the *)
(* calls into libvlc come after.                                           *)

\* The monitor's part of play(): the thread goes on with nativePlay(), or with
\* `done` when the play is postponed until the surfaces are there.
PlayOrWait(next, done) ==
    IF ~mPlaying /\ areSurfacesWaiting
    THEN mPlayRequested' = TRUE /\ UNCHANGED mPlaying /\ next = done
    ELSE /\ mPlayRequested' = (mPlayRequested \/ ~mPlaying)
         /\ mPlaying' = TRUE
         /\ next = "nativePlay"

\* play() on the main thread: from its looper, from the player's own callback
\* ("play"), or from one of the window (PopupManager.onSurfacesCreated).
MainPlay ==
    /\ \/ main \in {"idle", "play"} /\ then' = "idle"
       \/ main = "callbacks" /\ then' = "created"
    /\ PlayOrWait(main', then')
    /\ UNCHANGED <<window, app, mVoutCount, libvlc, geometry>>

AppPlay ==
    /\ app = "idle"
    /\ PlayOrWait(app', "idle")
    /\ UNCHANGED <<window, main, then, mVoutCount, libvlc, geometry>>

\* The monitor's part of stop().
StopRequested == mPlayRequested' = FALSE /\ mPlaying' = FALSE

MainStop ==
    /\ main = "idle" /\ main' = "nativeStop" /\ then' = "idle"
    /\ StopRequested
    /\ UNCHANGED <<window, app, mVoutCount, libvlc, geometry>>

AppStop ==
    /\ app = "idle" /\ app' = "nativeStop"
    /\ StopRequested
    /\ UNCHANGED <<window, main, then, mVoutCount, libvlc, geometry>>

\* libvlc plays the media from its start, with its video track, unless it plays.
NativePlay(step) ==
    /\ step = "nativePlay"
    /\ running' = TRUE
    /\ track' = (track \/ ~running)

NativeStop(step) ==
    /\ step = "nativeStop"
    /\ running' = FALSE
    /\ track' = FALSE

MainNative ==
    /\ NativePlay(main) \/ NativeStop(main)
    /\ main' = then
    /\ UNCHANGED <<window, then, app, player, mVoutCount, geometry>>

AppNative ==
    /\ NativePlay(app) \/ NativeStop(app)
    /\ app' = "idle"
    /\ UNCHANGED <<window, main, then, player, mVoutCount, geometry>>

\* setVideoTrack() of the first video track, or of none: not before the
\* surfaces are ready.  Without a media that plays there is no track to set.
SetVideoTrack(on) ==
    /\ UNCHANGED running
    /\ IF running /\ (on => areViewsAttached /\ ~areSurfacesWaiting)
       THEN track' = on
       ELSE UNCHANGED track

\* setVideoTrackEnabled(), called by the activity and the popup.
SetVideoTrackEnabled(on) ==
    /\ main \in {"idle", "callbacks"}
    /\ SetVideoTrack(on)
    /\ UNCHANGED <<window, main, then, app, player, mVoutCount, geometry>>

\* The window's callbacks have returned; the player's is next.
CallbacksDone ==
    /\ main = "callbacks"
    /\ main' = "created"
    /\ UNCHANGED <<window, then, app, player, mVoutCount, libvlc, geometry>>

\* Mutant of OnSurfacesCreated: the two tests in the other order.
OnSurfacesCreatedSwapped ==
    /\ main = "created"
    /\ main' = IF mVoutCount = 0 THEN "enable"
               ELSE IF ~mPlaying /\ mPlayRequested THEN "play" ELSE "idle"
    /\ UNCHANGED <<window, then, app, player, mVoutCount, libvlc, geometry>>

\* MediaPlayer's onSurfacesCreated(), with the monitor: what is to be done.
OnSurfacesCreated ==
    /\ main = "created"
    /\ main' = IF ~mPlaying /\ mPlayRequested THEN "play"
               ELSE IF mVoutCount = 0 THEN "enable" ELSE "idle"
    /\ UNCHANGED <<window, then, app, player, mVoutCount, libvlc, geometry>>

EnableVideo ==
    /\ main = "enable"
    /\ SetVideoTrack(TRUE)
    /\ main' = "idle"
    /\ UNCHANGED <<window, then, app, player, mVoutCount, geometry>>

\* MediaPlayer's onSurfacesDestroyed(), the last callback of detachViews().
OnSurfacesDestroyed ==
    /\ main = "destroyed"
    /\ IF mVoutCount > 0
       THEN main' = "disable" /\ UNCHANGED <<valid, dying>>
       ELSE EndDetach
    /\ UNCHANGED <<mSurfacesState, mSurfaceHelpers, mSurfaces, then, app, player,
                   mVoutCount, libvlc, geometry>>

DisableVideo ==
    /\ main = "disable"
    /\ SetVideoTrack(FALSE)
    /\ EndDetach
    /\ UNCHANGED <<mSurfacesState, mSurfaceHelpers, mSurfaces, then, app, player,
                   mVoutCount, geometry>>

------------------------------------------------------------------------------
(* Events of libvlc: onEventNative(), with the monitor.                    *)

\* Mutant of VoutEvent: outputs are added up.
VoutEventAdds(n) ==
    /\ n > 0 => running
    /\ mVoutCount' = mVoutCount + n
    /\ UNCHANGED <<window, main, then, app, player, libvlc, geometry>>

VoutEvent(n) ==
    /\ n > 0 => running
    /\ mVoutCount' = n
    /\ UNCHANGED <<window, main, then, app, player, libvlc, geometry>>

\* EndReached and EncounteredError: libvlc has ended by itself.
Ended ==
    /\ running
    /\ running' = FALSE
    /\ track' = FALSE
    /\ mVoutCount' = 0
    /\ UNCHANGED <<window, main, then, app, player, geometry>>

------------------------------------------------------------------------------
(* setBuffersGeometry() on the video output thread.                        *)

GeometryCheck ==
    /\ vout = "idle"
    /\ mSurfaces # {}
    /\ ~configured /\ ~abort
    /\ vout' = "checked"
    /\ UNCHANGED <<window, main, then, app, player, mVoutCount, libvlc,
                   configured, abort, posted, takenBack>>

GeometryPost ==
    /\ vout = "checked"
    /\ posted < MaxPosted
    /\ posted' = posted + 1
    /\ vout' = "waiting"
    /\ UNCHANGED <<window, main, then, app, player, mVoutCount, libvlc,
                   configured, abort, takenBack>>

GeometryRun ==
    /\ main = "idle"
    /\ posted > 0
    /\ posted' = posted - 1
    /\ configured' = TRUE
    /\ UNCHANGED <<window, main, then, app, player, mVoutCount, libvlc, abort, vout,
                   takenBack>>


GeometryReturn ==
    /\ vout = "waiting"
    /\ configured \/ abort
    /\ vout' = "idle"
    /\ configured' = FALSE
    /\ takenBack' = FALSE
    /\ UNCHANGED <<window, main, then, app, player, mVoutCount, libvlc, abort, posted>>

------------------------------------------------------------------------------

\* What a thread does on its own once it has begun.
MainGoesOn == \/ ResetGeometry \/ AttachHelper \/ CallbacksDone
              \/ OnSurfacesCreated \/ EnableVideo \/ MainNative
              \/ AbortGeometry \/ ReleaseHelpers
              \/ OnSurfacesDestroyed \/ DisableVideo
              \/ main = "play" /\ MainPlay

\* What users, Android and libvlc may do.
Calls == \/ \E ids \in {{"video"}, Ids} : AttachViews(ids)
         \/ DetachViews
         \/ \E id \in Ids : SurfaceCreated(id) \/ SurfaceDestroyed(id)
         \/ main # "play" /\ MainPlay
         \/ AppPlay \/ MainStop \/ AppStop
         \/ \E on \in BOOLEAN : SetVideoTrackEnabled(on)
         \/ \E n \in 0..MaxVout : VoutEvent(n)
         \/ Ended
         \/ GeometryCheck

Next == MainGoesOn \/ AppNative \/ GeometryPost \/ GeometryRun \/ GeometryReturn \/ Calls

\* The main thread finishes what it has begun, and its looper serves the queue in
\* order, so that calls that keep coming do not hold back a runnable for good; no
\* call and no event has to come.
Fairness == WF_vars(MainGoesOn) /\ SF_vars(GeometryRun) /\ WF_vars(GeometryReturn)

Spec == Init /\ [][Next]_vars /\ Fairness

------------------------------------------------------------------------------
(* Properties.                                                             *)

\* The window has exactly the surfaces that Android has made for its views, and
\* it is ready exactly when it has them all: none is missed because it was there
\* before the views were attached, because another view got its own first, or
\* because views were detached and attached again.
SurfacesFollowViews ==
    main = "idle" =>
       /\ mSurfaces = mSurfaceHelpers \intersect valid
       /\ mSurfacesState = IF mSurfaceHelpers = {} THEN "INIT"
                           ELSE IF mSurfaceHelpers \subseteq valid THEN "READY"
                           ELSE "ATTACHED"

\* A thread of libvlc that asks for a surface (getVideoSurface) never gets one
\* that Android has destroyed, whatever detaches the views meanwhile.
SurfacesAreAlive == mSurfaces \subseteq valid

\* A play that was postponed because surfaces were missing is not forgotten when
\* they get ready: the main thread is then on its way to it.  play() tests the
\* state with the player's monitor held, onSurfaceCreated() changes it without.
PostponedPlayKept ==
    mPlayRequested /\ ~mPlaying /\ mSurfacesState = "READY"
       => main \in {"callbacks", "created", "play"}

\* Whoever waits for its buffers has an answer on its way, whatever is attached
\* and detached meanwhile: its runnable in the main thread's queue, a sign that is
\* up, or a main thread that emptied the queue and has yet to raise it.  The code
\* breaks this in one way, which is left out: attachViews() lowers the signs
\* (AWindow.java:326-327) before the thread that detachViews() woke up runs.
AnswerOnItsWay ==
    vout = "waiting" /\ ~takenBack
       => posted > 0 \/ configured \/ abort \/ main = "abort"


\* A play that was postponed is made once the surfaces are ready, unless it is
\* stopped: the callbacks of the main thread end with it.
PostponedPlayStarts ==
    (mPlayRequested /\ ~mPlaying /\ mSurfacesState = "READY")
       ~> (mPlaying \/ ~mPlayRequested)

==============================================================================
