-------------------------- MODULE VideoOutputProofs -------------------------
(***************************************************************************)
(* Theorems about VideoOutput, for queues and outputs of any number.       *)
(***************************************************************************)
EXTENDS VideoOutput, TLAPS

\* The window has every surface that is valid, and a state to match.
Settled ==
  /\ mSurfaces = mSurfaceHelpers \intersect valid
  /\ mSurfacesState = IF mSurfaceHelpers = {} THEN "INIT"
                      ELSE IF mSurfaceHelpers \subseteq valid THEN "READY"
                      ELSE "ATTACHED"

\* Half-way through attachViews(): the surfaces that were looked at so far.
Attaching ==
  /\ mSurfacesState = "ATTACHED"
  /\ mSurfaceHelpers \in {{"video"}, Ids}
  /\ main \in {"attach", "attachVideo"} => mSurfaces = {}
  /\ main = "attachSubtitles" =>
       mSurfaceHelpers = Ids /\ mSurfaces = {"video"} \intersect valid

AttachSteps == {"attach", "attachVideo", "attachSubtitles"}

\* Half-way through detachViews(): first the state, then the surfaces.
Detaching ==
  /\ mSurfacesState = "INIT"
  /\ mSurfaces \subseteq valid
  /\ main \notin {"abort", "release"} => mSurfaces = {} /\ mSurfaceHelpers = {}

DetachSteps == {"abort", "release", "destroyed", "disable"}

\* The surfaces are ready when callbacks run, and when they return to them.
CallbackSteps == {"callbacks", "created", "play", "enable"}

WindowOfMain ==
  /\ main \in AttachSteps => Attaching
  /\ main \in DetachSteps => Detaching
  /\ main \notin AttachSteps \union DetachSteps => Settled
  /\ dying # {} => main \in DetachSteps
  /\ main \in CallbackSteps => mSurfacesState = "READY"
  /\ main \in {"nativePlay", "nativeStop"} /\ then = "created"
       => mSurfacesState = "READY"

IInv == TypeOK /\ WindowOfMain /\ PostponedPlayKept /\ AnswerOnItsWay

-----------------------------------------------------------------------------
\* The actions, each once.
LEMMA NextCases ==
  ASSUME Next
  PROVE  \/ \E ids \in {{"video"}, Ids} : AttachViews(ids)
         \/ \E id \in Ids : SurfaceCreated(id) \/ SurfaceDestroyed(id)
         \/ DetachViews \/ ResetGeometry \/ AttachHelper
         \/ AbortGeometry \/ ReleaseHelpers
         \/ CallbacksDone \/ OnSurfacesCreated \/ OnSurfacesDestroyed
         \/ EnableVideo \/ DisableVideo
         \/ MainPlay \/ AppPlay \/ MainStop \/ AppStop \/ MainNative \/ AppNative
         \/ \E on \in BOOLEAN : SetVideoTrackEnabled(on)
         \/ \E n \in 0..MaxVout : VoutEvent(n)
         \/ Ended
         \/ GeometryCheck \/ GeometryPost \/ GeometryRun \/ GeometryReturn
  BY DEF Next, Calls, MainGoesOn

\* Every action keeps the types of the window, of the threads and of the player.
LEMMA TypeStep ==
  ASSUME TypeOK, Next
  PROVE  TypeOK'
<1> USE DEF window, player, libvlc, geometry
<1>1. CASE \E ids \in {{"video"}, Ids} : AttachViews(ids)
  <2>1. TypeOfWindow'
    BY <1>1 DEF AttachViews, TypeOK, TypeOfWindow, Ids
  <2>2. TypeOfThreads'
    BY <1>1 DEF AttachViews, TypeOK, TypeOfThreads, MainSteps
  <2>3. TypeOfPlayer'
    BY <1>1, BoundAssumption DEF AttachViews, TypeOK, TypeOfPlayer
  <2> QED
    BY <2>1, <2>2, <2>3 DEF TypeOK
<1>2. CASE DetachViews
  <2>1. TypeOfWindow'
    BY <1>2 DEF DetachViews, StartDetach, TypeOK, TypeOfWindow
  <2>2. TypeOfThreads'
    BY <1>2 DEF DetachViews, StartDetach, TypeOK, TypeOfThreads, MainSteps
  <2>3. TypeOfPlayer'
    BY <1>2, BoundAssumption DEF DetachViews, StartDetach, TypeOK, TypeOfPlayer
  <2> QED
    BY <2>1, <2>2, <2>3 DEF TypeOK
<1>3. CASE \E id \in Ids : SurfaceCreated(id)
  <2>1. TypeOfWindow'
    BY <1>3 DEF SurfaceCreated, SetSurface, OnSurfaceCreated, TypeOK, TypeOfWindow, Ids
  <2>2. TypeOfThreads'
    BY <1>3 DEF SurfaceCreated, SetSurface, OnSurfaceCreated, TypeOK, TypeOfThreads, MainSteps
  <2>3. TypeOfPlayer'
    BY <1>3 DEF SurfaceCreated, SetSurface, OnSurfaceCreated, TypeOK, TypeOfPlayer
  <2> QED
    BY <2>1, <2>2, <2>3 DEF TypeOK
<1>4. ASSUME NEW id \in Ids, SurfaceDestroyed(id)
      PROVE  TypeOK'
  <2>1. TypeOfWindow'
    BY <1>4 DEF SurfaceDestroyed, StartDetach, TypeOK, TypeOfWindow
  <2>2. TypeOfThreads'
    BY <1>4 DEF SurfaceDestroyed, StartDetach, TypeOK, TypeOfThreads, MainSteps
  <2>3. CASE StartDetach({id})
    BY <2>1, <2>2, <2>3, BoundAssumption DEF StartDetach, TypeOK, TypeOfPlayer
  <2>4. CASE UNCHANGED <<player, mVoutCount, libvlc, geometry>>
    BY <2>1, <2>2, <2>4 DEF TypeOK, TypeOfPlayer
  <2> QED
    BY <1>4, <2>3, <2>4 DEF SurfaceDestroyed
<1>5. CASE AttachHelper
  <2>1. TypeOfWindow'
    BY <1>5 DEF AttachHelper, SetSurface, OnSurfaceCreated, TypeOK, TypeOfWindow, Ids
  <2>2. TypeOfThreads'
    BY <1>5 DEF AttachHelper, SetSurface, OnSurfaceCreated, TypeOK, TypeOfThreads, MainSteps
  <2>3. TypeOfPlayer'
    BY <1>5 DEF AttachHelper, SetSurface, OnSurfaceCreated, TypeOK, TypeOfPlayer
  <2> QED
    BY <2>1, <2>2, <2>3 DEF TypeOK
<1>6. CASE ReleaseHelpers
  <2>1. TypeOfWindow'
    BY <1>6 DEF ReleaseHelpers, TypeOK, TypeOfWindow
  <2>2. TypeOfThreads'
    BY <1>6 DEF ReleaseHelpers, TypeOK, TypeOfThreads, MainSteps
  <2>3. TypeOfPlayer'
    BY <1>6 DEF ReleaseHelpers, TypeOK, TypeOfPlayer
  <2> QED
    BY <2>1, <2>2, <2>3 DEF TypeOK
<1>7. CASE CallbacksDone
  <2>1. TypeOfWindow'
    BY <1>7 DEF CallbacksDone, TypeOK, TypeOfWindow
  <2>2. TypeOfThreads'
    BY <1>7 DEF CallbacksDone, TypeOK, TypeOfThreads, MainSteps
  <2>3. TypeOfPlayer'
    BY <1>7 DEF CallbacksDone, TypeOK, TypeOfPlayer
  <2> QED
    BY <2>1, <2>2, <2>3 DEF TypeOK
<1>8. CASE OnSurfacesCreated
  <2>1. TypeOfWindow'
    BY <1>8 DEF OnSurfacesCreated, TypeOK, TypeOfWindow
  <2>2. TypeOfThreads'
    BY <1>8 DEF OnSurfacesCreated, TypeOK, TypeOfThreads, MainSteps
  <2>3. TypeOfPlayer'
    BY <1>8 DEF OnSurfacesCreated, TypeOK, TypeOfPlayer
  <2> QED
    BY <2>1, <2>2, <2>3 DEF TypeOK
<1>9. CASE EnableVideo
  <2>1. TypeOfWindow'
    BY <1>9 DEF EnableVideo, SetVideoTrack, TypeOK, TypeOfWindow
  <2>2. TypeOfThreads'
    BY <1>9 DEF EnableVideo, SetVideoTrack, TypeOK, TypeOfThreads, MainSteps
  <2>3. TypeOfPlayer'
    BY <1>9 DEF EnableVideo, SetVideoTrack, TypeOK, TypeOfPlayer
  <2> QED
    BY <2>1, <2>2, <2>3 DEF TypeOK
<1>10. CASE OnSurfacesDestroyed
  <2>1. TypeOfWindow'
    BY <1>10 DEF OnSurfacesDestroyed, EndDetach, TypeOK, TypeOfWindow
  <2>2. TypeOfThreads'
    BY <1>10 DEF OnSurfacesDestroyed, EndDetach, TypeOK, TypeOfThreads, MainSteps
  <2>3. TypeOfPlayer'
    BY <1>10 DEF OnSurfacesDestroyed, EndDetach, TypeOK, TypeOfPlayer
  <2> QED
    BY <2>1, <2>2, <2>3 DEF TypeOK
<1>11. CASE DisableVideo
  <2>1. TypeOfWindow'
    BY <1>11 DEF DisableVideo, SetVideoTrack, EndDetach, TypeOK, TypeOfWindow
  <2>2. TypeOfThreads'
    BY <1>11 DEF DisableVideo, SetVideoTrack, EndDetach, TypeOK, TypeOfThreads, MainSteps
  <2>3. TypeOfPlayer'
    BY <1>11 DEF DisableVideo, SetVideoTrack, EndDetach, TypeOK, TypeOfPlayer
  <2> QED
    BY <2>1, <2>2, <2>3 DEF TypeOK
<1>12. CASE MainPlay
  <2>1. TypeOfWindow'
    BY <1>12 DEF MainPlay, PlayOrWait, areSurfacesWaiting, TypeOK, TypeOfWindow
  <2>2. TypeOfThreads'
    BY <1>12 DEF MainPlay, PlayOrWait, areSurfacesWaiting, TypeOK, TypeOfThreads, MainSteps
  <2>3. TypeOfPlayer'
    BY <1>12 DEF MainPlay, PlayOrWait, areSurfacesWaiting, TypeOK, TypeOfPlayer
  <2> QED
    BY <2>1, <2>2, <2>3 DEF TypeOK
<1>13. CASE AppPlay
  <2>1. TypeOfWindow'
    BY <1>13 DEF AppPlay, PlayOrWait, areSurfacesWaiting, TypeOK, TypeOfWindow
  <2>2. TypeOfThreads'
    BY <1>13 DEF AppPlay, PlayOrWait, areSurfacesWaiting, TypeOK, TypeOfThreads, MainSteps
  <2>3. TypeOfPlayer'
    BY <1>13 DEF AppPlay, PlayOrWait, areSurfacesWaiting, TypeOK, TypeOfPlayer
  <2> QED
    BY <2>1, <2>2, <2>3 DEF TypeOK
<1>14. CASE MainStop
  <2>1. TypeOfWindow'
    BY <1>14 DEF MainStop, StopRequested, TypeOK, TypeOfWindow
  <2>2. TypeOfThreads'
    BY <1>14 DEF MainStop, StopRequested, TypeOK, TypeOfThreads, MainSteps
  <2>3. TypeOfPlayer'
    BY <1>14 DEF MainStop, StopRequested, TypeOK, TypeOfPlayer
  <2> QED
    BY <2>1, <2>2, <2>3 DEF TypeOK
<1>15. CASE AppStop
  <2>1. TypeOfWindow'
    BY <1>15 DEF AppStop, StopRequested, TypeOK, TypeOfWindow
  <2>2. TypeOfThreads'
    BY <1>15 DEF AppStop, StopRequested, TypeOK, TypeOfThreads, MainSteps
  <2>3. TypeOfPlayer'
    BY <1>15 DEF AppStop, StopRequested, TypeOK, TypeOfPlayer
  <2> QED
    BY <2>1, <2>2, <2>3 DEF TypeOK
<1>16. CASE MainNative
  <2>1. TypeOfWindow'
    BY <1>16 DEF MainNative, NativePlay, NativeStop, TypeOK, TypeOfWindow
  <2>2. TypeOfThreads'
    BY <1>16 DEF MainNative, NativePlay, NativeStop, TypeOK, TypeOfThreads, MainSteps
  <2>3. TypeOfPlayer'
    BY <1>16 DEF MainNative, NativePlay, NativeStop, TypeOK, TypeOfPlayer
  <2> QED
    BY <2>1, <2>2, <2>3 DEF TypeOK
<1>17. CASE AppNative
  <2>1. TypeOfWindow'
    BY <1>17 DEF AppNative, NativePlay, NativeStop, TypeOK, TypeOfWindow
  <2>2. TypeOfThreads'
    BY <1>17 DEF AppNative, NativePlay, NativeStop, TypeOK, TypeOfThreads, MainSteps
  <2>3. TypeOfPlayer'
    BY <1>17 DEF AppNative, NativePlay, NativeStop, TypeOK, TypeOfPlayer
  <2> QED
    BY <2>1, <2>2, <2>3 DEF TypeOK
<1>18. CASE \E on \in BOOLEAN : SetVideoTrackEnabled(on)
  <2>1. TypeOfWindow'
    BY <1>18 DEF SetVideoTrackEnabled, SetVideoTrack, TypeOK, TypeOfWindow
  <2>2. TypeOfThreads'
    BY <1>18 DEF SetVideoTrackEnabled, SetVideoTrack, TypeOK, TypeOfThreads, MainSteps
  <2>3. TypeOfPlayer'
    BY <1>18 DEF SetVideoTrackEnabled, SetVideoTrack, TypeOK, TypeOfPlayer
  <2> QED
    BY <2>1, <2>2, <2>3 DEF TypeOK
<1>19. CASE \E n \in 0..MaxVout : VoutEvent(n)
  <2>1. TypeOfWindow'
    BY <1>19 DEF VoutEvent, TypeOK, TypeOfWindow
  <2>2. TypeOfThreads'
    BY <1>19 DEF VoutEvent, TypeOK, TypeOfThreads, MainSteps
  <2>3. TypeOfPlayer'
    BY <1>19, BoundAssumption DEF VoutEvent, TypeOK, TypeOfPlayer
  <2> QED
    BY <2>1, <2>2, <2>3 DEF TypeOK
<1>20. CASE Ended
  <2>1. TypeOfWindow'
    BY <1>20 DEF Ended, TypeOK, TypeOfWindow
  <2>2. TypeOfThreads'
    BY <1>20 DEF Ended, TypeOK, TypeOfThreads, MainSteps
  <2>3. mVoutCount' \in 0..MaxVout
    <3>1. mVoutCount' = 0
      BY <1>20 DEF Ended
    <3> QED
      BY <3>1, BoundAssumption
  <2>4. TypeOfPlayer'
    BY <1>20, <2>3 DEF Ended, TypeOK, TypeOfPlayer
  <2> QED
    BY <2>1, <2>2, <2>4 DEF TypeOK
<1>21. CASE GeometryCheck
  <2>1. TypeOfWindow'
    BY <1>21 DEF GeometryCheck, TypeOK, TypeOfWindow
  <2>2. TypeOfThreads'
    BY <1>21 DEF GeometryCheck, TypeOK, TypeOfThreads, MainSteps
  <2>3. TypeOfPlayer'
    BY <1>21 DEF GeometryCheck, TypeOK, TypeOfPlayer
  <2> QED
    BY <2>1, <2>2, <2>3 DEF TypeOK
<1>22. CASE GeometryPost
  <2>1. TypeOfWindow'
    BY <1>22 DEF GeometryPost, TypeOK, TypeOfWindow
  <2>2. TypeOfThreads'
    BY <1>22 DEF GeometryPost, TypeOK, TypeOfThreads, MainSteps
  <2>3. TypeOfPlayer'
    BY <1>22, BoundAssumption DEF GeometryPost, TypeOK, TypeOfPlayer
  <2> QED
    BY <2>1, <2>2, <2>3 DEF TypeOK
<1>23. CASE GeometryRun
  <2>1. TypeOfWindow'
    BY <1>23 DEF GeometryRun, TypeOK, TypeOfWindow
  <2>2. TypeOfThreads'
    BY <1>23 DEF GeometryRun, TypeOK, TypeOfThreads, MainSteps
  <2>3. TypeOfPlayer'
    BY <1>23, BoundAssumption DEF GeometryRun, TypeOK, TypeOfPlayer
  <2> QED
    BY <2>1, <2>2, <2>3 DEF TypeOK
<1>24. CASE GeometryReturn
  <2>1. TypeOfWindow'
    BY <1>24 DEF GeometryReturn, TypeOK, TypeOfWindow
  <2>2. TypeOfThreads'
    BY <1>24 DEF GeometryReturn, TypeOK, TypeOfThreads, MainSteps
  <2>3. TypeOfPlayer'
    BY <1>24 DEF GeometryReturn, TypeOK, TypeOfPlayer
  <2> QED
    BY <2>1, <2>2, <2>3 DEF TypeOK
<1>25. CASE ResetGeometry
  <2>1. TypeOfWindow'
    BY <1>25 DEF ResetGeometry, TypeOK, TypeOfWindow
  <2>2. TypeOfThreads'
    BY <1>25 DEF ResetGeometry, TypeOK, TypeOfThreads, MainSteps
  <2>3. TypeOfPlayer'
    BY <1>25 DEF ResetGeometry, TypeOK, TypeOfPlayer
  <2> QED
    BY <2>1, <2>2, <2>3 DEF TypeOK
<1>26. CASE AbortGeometry
  <2>1. TypeOfWindow'
    BY <1>26 DEF AbortGeometry, TypeOK, TypeOfWindow
  <2>2. TypeOfThreads'
    BY <1>26 DEF AbortGeometry, TypeOK, TypeOfThreads, MainSteps
  <2>3. TypeOfPlayer'
    BY <1>26 DEF AbortGeometry, TypeOK, TypeOfPlayer
  <2> QED
    BY <2>1, <2>2, <2>3 DEF TypeOK
<1> QED
  BY <1>1, <1>2, <1>3, <1>4, <1>5, <1>6, <1>7, <1>8, <1>9, <1>10, <1>11,
       <1>12, <1>13, <1>14, <1>15, <1>16, <1>17, <1>18, <1>19, <1>20, <1>21,
       <1>22, <1>23, <1>24, <1>25, <1>26, NextCases

\* The window is as the main thread's place in its callbacks says.
LEMMA WindowStep ==
  ASSUME IInv, Next
  PROVE  WindowOfMain'
<1> USE DEF window, player, libvlc, geometry
<1>1. CASE \E ids \in {{"video"}, Ids} : AttachViews(ids)
  BY <1>1 DEF AttachViews, IInv, WindowOfMain, AttachSteps, DetachSteps, Attaching, Settled, CallbackSteps, Ids
<1>2. CASE DetachViews
  BY <1>2 DEF DetachViews, StartDetach, IInv, WindowOfMain, AttachSteps, DetachSteps, Detaching, Settled, CallbackSteps
<1>3. CASE \E id \in Ids : SurfaceCreated(id)
  BY <1>3 DEF SurfaceCreated, SetSurface, OnSurfaceCreated, IInv, WindowOfMain, AttachSteps, DetachSteps, Settled, CallbackSteps, Ids
<1>4. CASE \E id \in Ids : SurfaceDestroyed(id)
  BY <1>4 DEF SurfaceDestroyed, StartDetach, IInv, WindowOfMain, AttachSteps, DetachSteps, Detaching, Settled, CallbackSteps
<1>5. CASE AttachHelper
  BY <1>5 DEF AttachHelper, SetSurface, OnSurfaceCreated, IInv, WindowOfMain, AttachSteps, DetachSteps, Attaching, Settled, CallbackSteps, Ids
<1>6. CASE ReleaseHelpers
  BY <1>6 DEF ReleaseHelpers, IInv, WindowOfMain, AttachSteps, DetachSteps, Detaching, Settled, CallbackSteps
<1>7. CASE CallbacksDone
  BY <1>7 DEF CallbacksDone, IInv, WindowOfMain, AttachSteps, DetachSteps, Settled, CallbackSteps
<1>8. CASE OnSurfacesCreated
  BY <1>8 DEF OnSurfacesCreated, IInv, WindowOfMain, AttachSteps, DetachSteps, Settled, CallbackSteps
<1>9. CASE EnableVideo
  BY <1>9 DEF EnableVideo, SetVideoTrack, IInv, WindowOfMain, AttachSteps, DetachSteps, Settled, CallbackSteps
<1>10. CASE OnSurfacesDestroyed
  BY <1>10 DEF OnSurfacesDestroyed, EndDetach, IInv, WindowOfMain, AttachSteps, DetachSteps, Detaching, Settled, CallbackSteps
<1>11. CASE DisableVideo
  BY <1>11 DEF DisableVideo, SetVideoTrack, EndDetach, IInv, WindowOfMain, AttachSteps, DetachSteps, Detaching, Settled, CallbackSteps
<1>12. CASE MainPlay
  BY <1>12 DEF MainPlay, PlayOrWait, areSurfacesWaiting, IInv, WindowOfMain, AttachSteps, DetachSteps, Settled, CallbackSteps, TypeOK, TypeOfThreads
<1>13. CASE MainStop
  BY <1>13 DEF MainStop, StopRequested, IInv, WindowOfMain, AttachSteps, DetachSteps, Settled, CallbackSteps
<1>14. CASE MainNative
  BY <1>14 DEF MainNative, NativePlay, NativeStop, IInv, WindowOfMain, AttachSteps, DetachSteps, Settled, CallbackSteps, TypeOK, TypeOfThreads
<1>17. CASE ResetGeometry
  BY <1>17 DEF ResetGeometry, IInv, WindowOfMain, AttachSteps, DetachSteps, Attaching, Settled, CallbackSteps
<1>18. CASE AbortGeometry
  BY <1>18 DEF AbortGeometry, IInv, WindowOfMain, AttachSteps, DetachSteps, Detaching, Settled, CallbackSteps
<1>15. CASE UNCHANGED <<window, main, then>>
  BY <1>15 DEF IInv, WindowOfMain, AttachSteps, DetachSteps, Settled, Attaching, Detaching
<1>16. ASSUME \/ AppPlay
              \/ AppStop
              \/ AppNative
              \/ \E on \in BOOLEAN : SetVideoTrackEnabled(on)
              \/ \E n \in 0..MaxVout : VoutEvent(n)
              \/ Ended
              \/ GeometryCheck
              \/ GeometryPost
              \/ GeometryRun
              \/ GeometryReturn
      PROVE  UNCHANGED <<window, main, then>>
  BY <1>16 DEF AppPlay, PlayOrWait, areSurfacesWaiting, AppStop,
       StopRequested, AppNative, NativePlay, NativeStop, SetVideoTrackEnabled,
       SetVideoTrack, VoutEvent, Ended, GeometryCheck, GeometryPost,
       GeometryRun, GeometryReturn
<1> QED
  BY <1>1, <1>2, <1>3, <1>4, <1>5, <1>6, <1>7, <1>8, <1>9, <1>10, <1>11,
       <1>12, <1>13, <1>14, <1>15, <1>16, <1>17, <1>18, NextCases

\* Surfaces get ready only in steps that lead to the player's callback, and what
\* that callback decides is done before the main thread is idle again.
LEMMA KeptStep ==
  ASSUME IInv, Next
  PROVE  PostponedPlayKept'
<1> USE DEF window, player, libvlc, geometry
<1>1. CASE \E ids \in {{"video"}, Ids} : AttachViews(ids)
  BY <1>1 DEF AttachViews, IInv, PostponedPlayKept
<1>2. CASE DetachViews
  BY <1>2 DEF DetachViews, StartDetach, IInv, PostponedPlayKept
<1>3. CASE \E id \in Ids : SurfaceCreated(id)
  BY <1>3 DEF SurfaceCreated, SetSurface, OnSurfaceCreated, IInv, PostponedPlayKept
<1>4. ASSUME NEW id \in Ids, SurfaceDestroyed(id)
      PROVE  PostponedPlayKept'
  <2>1. CASE StartDetach({id})
    BY <2>1 DEF StartDetach, PostponedPlayKept
  <2>2. CASE UNCHANGED <<mSurfacesState, main, player>>
    BY <2>2 DEF IInv, PostponedPlayKept
  <2> QED
    BY <1>4, <2>1, <2>2 DEF SurfaceDestroyed
<1>5. CASE AttachHelper
  BY <1>5 DEF AttachHelper, SetSurface, OnSurfaceCreated, IInv, PostponedPlayKept, WindowOfMain, AttachSteps, DetachSteps, Attaching
<1>6. CASE CallbacksDone
  BY <1>6 DEF CallbacksDone, IInv, PostponedPlayKept
<1>7. CASE OnSurfacesCreated
  BY <1>7 DEF OnSurfacesCreated, IInv, PostponedPlayKept
<1>8. CASE EnableVideo
  BY <1>8 DEF EnableVideo, SetVideoTrack, IInv, PostponedPlayKept
<1>9. CASE OnSurfacesDestroyed
  BY <1>9 DEF OnSurfacesDestroyed, EndDetach, IInv, PostponedPlayKept, WindowOfMain, AttachSteps, DetachSteps, Detaching
<1>10. CASE DisableVideo
  BY <1>10 DEF DisableVideo, SetVideoTrack, EndDetach, IInv, PostponedPlayKept, WindowOfMain, AttachSteps, DetachSteps, Detaching
<1>11. CASE MainPlay
  BY <1>11 DEF MainPlay, PlayOrWait, areSurfacesWaiting, IInv, PostponedPlayKept, WindowOfMain, AttachSteps, DetachSteps, CallbackSteps, TypeOK, TypeOfWindow
<1>12. CASE AppPlay
  BY <1>12 DEF AppPlay, PlayOrWait, areSurfacesWaiting, IInv, PostponedPlayKept, TypeOK, TypeOfWindow
<1>13. CASE MainStop
  BY <1>13 DEF MainStop, StopRequested, IInv, PostponedPlayKept
<1>14. CASE AppStop
  BY <1>14 DEF AppStop, StopRequested, IInv, PostponedPlayKept
<1>15. CASE MainNative
  BY <1>15 DEF MainNative, NativePlay, NativeStop, IInv, PostponedPlayKept
<1>16. CASE ReleaseHelpers
  BY <1>16 DEF ReleaseHelpers, IInv, PostponedPlayKept, WindowOfMain, AttachSteps, DetachSteps, Detaching
<1>19. CASE ResetGeometry
  BY <1>19 DEF ResetGeometry, IInv, PostponedPlayKept
<1>20. CASE AbortGeometry
  BY <1>20 DEF AbortGeometry, IInv, PostponedPlayKept
<1>17. CASE UNCHANGED <<mSurfacesState, main, player>>
  BY <1>17 DEF IInv, PostponedPlayKept
<1>18. ASSUME \/ AppNative
              \/ \E on \in BOOLEAN : SetVideoTrackEnabled(on)
              \/ \E n \in 0..MaxVout : VoutEvent(n)
              \/ Ended
              \/ GeometryCheck
              \/ GeometryPost
              \/ GeometryRun
              \/ GeometryReturn
      PROVE  UNCHANGED <<mSurfacesState, main, player>>
  BY <1>18 DEF AppNative, NativePlay, NativeStop, SetVideoTrackEnabled,
       SetVideoTrack, VoutEvent, Ended, GeometryCheck, GeometryPost,
       GeometryRun, GeometryReturn
<1> QED
  BY <1>1, <1>2, <1>3, <1>4, <1>5, <1>6, <1>7, <1>8, <1>9, <1>10, <1>11,
       <1>12, <1>13, <1>14, <1>15, <1>16, <1>17, <1>18, <1>19, <1>20, NextCases

\* A thread begins to wait with its runnable in the queue; what takes the one
\* answer away gives, or is about to give, another.
LEMMA AnswerStep ==
  ASSUME IInv, Next
  PROVE  AnswerOnItsWay'
<1> USE DEF window, player, libvlc, geometry
<1>0. posted \in Nat
  BY DEF IInv, TypeOK, TypeOfPlayer
<1>1. CASE \E ids \in {{"video"}, Ids} : AttachViews(ids)
  BY <1>1 DEF AttachViews, IInv, AnswerOnItsWay
<1>2. CASE ResetGeometry
  <2>1. takenBack' <=> takenBack \/ (vout = "waiting" /\ posted = 0)
    BY <1>2 DEF ResetGeometry
  <2>2. vout' = vout /\ posted' = posted
    BY <1>2 DEF ResetGeometry
  <2>3. vout' = "waiting" /\ ~takenBack' => posted' # 0
    BY <2>1, <2>2
  <2> QED
    BY <1>0, <2>2, <2>3 DEF AnswerOnItsWay
<1>3. CASE DetachViews
  BY <1>3 DEF DetachViews, StartDetach, AnswerOnItsWay
<1>4. CASE \E id \in Ids : SurfaceDestroyed(id)
  BY <1>4 DEF SurfaceDestroyed, StartDetach, IInv, AnswerOnItsWay
<1>5. CASE AbortGeometry
  BY <1>5 DEF AbortGeometry, AnswerOnItsWay
<1>6. CASE GeometryCheck
  BY <1>6 DEF GeometryCheck, AnswerOnItsWay
<1>7. CASE GeometryPost
  BY <1>0, <1>7 DEF GeometryPost, AnswerOnItsWay
<1>8. CASE GeometryRun
  BY <1>8 DEF GeometryRun, AnswerOnItsWay
<1>9. CASE GeometryReturn
  BY <1>9 DEF GeometryReturn, AnswerOnItsWay
<1>10. CASE UNCHANGED geometry /\ main # "abort"
  BY <1>10 DEF IInv, AnswerOnItsWay
<1>11. ASSUME \/ \E id \in Ids : SurfaceCreated(id)
              \/ AttachHelper
              \/ ReleaseHelpers
              \/ CallbacksDone
              \/ OnSurfacesCreated
              \/ EnableVideo
              \/ OnSurfacesDestroyed
              \/ DisableVideo
              \/ MainPlay
              \/ MainStop
              \/ MainNative
              \/ \E on \in BOOLEAN : SetVideoTrackEnabled(on)
       PROVE  UNCHANGED geometry /\ main # "abort"
  BY <1>11 DEF SurfaceCreated, SetSurface, OnSurfaceCreated, AttachHelper,
       ReleaseHelpers, CallbacksDone, OnSurfacesCreated, EnableVideo,
       OnSurfacesDestroyed, EndDetach, DisableVideo, MainPlay, MainStop,
       MainNative, NativePlay, NativeStop, SetVideoTrackEnabled
\* The other threads, with the main thread wherever it is.
<1>12. CASE UNCHANGED <<geometry, main>>
  BY <1>12 DEF IInv, AnswerOnItsWay
<1>13. ASSUME \/ AppPlay
              \/ AppStop
              \/ AppNative
              \/ \E n \in 0..MaxVout : VoutEvent(n)
              \/ Ended
       PROVE  UNCHANGED <<geometry, main>>
  BY <1>13 DEF AppPlay, AppStop, AppNative, VoutEvent, Ended
<1> QED
  BY <1>1, <1>2, <1>3, <1>4, <1>5, <1>6, <1>7, <1>8, <1>9, <1>10, <1>11,
       <1>12, <1>13, NextCases

-----------------------------------------------------------------------------

LEMMA InitInv == Init => IInv
<1> SUFFICES ASSUME Init PROVE IInv
  OBVIOUS
<1>1. TypeOfWindow /\ TypeOfThreads
  BY DEF Init, TypeOfWindow, TypeOfThreads, MainSteps
<1>2. TypeOfPlayer
  <2>1. 0 \in 0..MaxVout /\ 0 \in 0..MaxPosted
    BY BoundAssumption
  <2> QED
    BY <2>1 DEF Init, TypeOfPlayer
<1>3. WindowOfMain
  BY DEF Init, WindowOfMain, AttachSteps, DetachSteps, Settled, CallbackSteps
<1>4. PostponedPlayKept /\ AnswerOnItsWay
  BY DEF Init, PostponedPlayKept, AnswerOnItsWay
<1> QED
  BY <1>1, <1>2, <1>3, <1>4 DEF IInv, TypeOK

LEMMA StutterInv ==
  ASSUME IInv, UNCHANGED vars
  PROVE  IInv'
  BY DEF IInv, TypeOK, TypeOfWindow, TypeOfThreads, TypeOfPlayer, WindowOfMain, AttachSteps, DetachSteps, Settled,
         Attaching, Detaching, PostponedPlayKept, AnswerOnItsWay,
         vars, window, player, libvlc, geometry

\* The invariant of every state that the window and the player reach.
THEOREM Invariance == Spec => []IInv
<1>1. IInv /\ [Next]_vars => IInv'
  <2>1. IInv /\ Next => IInv'
    BY TypeStep, WindowStep, KeptStep, AnswerStep DEF IInv
  <2> QED
    BY <2>1, StutterInv
<1> QED
  BY InitInv, <1>1, PTL DEF Spec

\* The variables keep their types, whatever the bounds.
THEOREM TypeCorrect == Spec => []TypeOK
<1>1. IInv => TypeOK
  BY DEF IInv
<1> QED
  BY <1>1, Invariance, PTL

\* An idle main thread leaves a window that has all the surfaces of its views.
THEOREM WindowFollows == Spec => []SurfacesFollowViews
<1>1. IInv => SurfacesFollowViews
  BY DEF IInv, WindowOfMain, AttachSteps, DetachSteps, Settled, SurfacesFollowViews
<1> QED
  BY <1>1, Invariance, PTL

\* libvlc is never given a surface that Android has destroyed.
THEOREM NoDeadSurface == Spec => []SurfacesAreAlive
<1>1. IInv => SurfacesAreAlive
  BY DEF IInv, WindowOfMain, AttachSteps, DetachSteps, Settled, Attaching, Detaching,
         SurfacesAreAlive, TypeOK, TypeOfThreads, MainSteps
<1> QED
  BY <1>1, Invariance, PTL

\* No play is lost to surfaces that get ready between a test and a return.
THEOREM PlayKept == Spec => []PostponedPlayKept
<1>1. IInv => PostponedPlayKept
  BY DEF IInv
<1> QED
  BY <1>1, Invariance, PTL

\* A thread that waits for its buffers has its answer in the queue, up or about to
\* be raised, whatever the number of runnables that are left of earlier waits;
\* attachViews() alone takes it back (AWindow.java:320-354, :548-599).
THEOREM NoneLeftWaiting == Spec => []AnswerOnItsWay
<1>1. IInv => AnswerOnItsWay
  BY DEF IInv
<1> QED
  BY <1>1, Invariance, PTL

=============================================================================
