----------------------------- MODULE Thumbnailer ----------------------------
(***************************************************************************)
(* thumbnailer.c: one picture of a media, taken half-way through it.       *)
(*                                                                         *)
(* nativeGetThumbnail() plays the media with callbacks of its own and      *)
(* waits on a condition variable, first for a video output and then for a  *)
(* picture.  The video output thread of libvlc sets the format up and      *)
(* displays pictures, its input thread reports the position; the three     *)
(* share a thumbnailer_sys_t whose flags, and nothing else, are behind a   *)
(* mutex.  A critical section of a callback is one action, as it holds     *)
(* nothing else; the fields outside the mutex are written by actions of    *)
(* their own.                                                              *)
(***************************************************************************)
EXTENDS Integers

CONSTANTS
  FrameWidth, FrameHeight, \* the frame asked for, in pixels
  MinWidth, MaxWidth,      \* the videos that are accepted
  MinHeight, MaxHeight,
  VideoWidths,             \* bound: the dimensions libvlc reports
  VideoHeights

ASSUME FrameAssumption == FrameWidth \in Nat \ {0} /\ FrameHeight \in Nat \ {0}
ASSUME LimitAssumption ==
  /\ MinWidth \in Nat \ {0} /\ MaxWidth \in Nat
  /\ MinHeight \in Nat \ {0} /\ MaxHeight \in Nat
ASSUME VideoAssumption == VideoWidths \subseteq Nat /\ VideoHeights \subseteq Nat

VARIABLES
  pc,        \* where nativeGetThumbnail() is
  timedOut,  \* ret = ETIMEDOUT
  waiting,   \* the caller is in the wait set of doneCondVar
  player,    \* what libvlc does with the media player
  vout,      \* where the video output thread is
  state,     \* the THUMB_ flags, under doneMutex
  size,      \* thumbWidth (as thumbPitch), thumbHeight and blackBorders
  thumbData, \* the buffer libvlc renders to
  frameData, \* the frame: not allocated, black, or with the picture in it
  result     \* the byte array that is returned

callerVars == <<pc, timedOut, player, result>>
bufferVars == <<size, thumbData, frameData>>
vars == <<callerVars, waiting, vout, state, bufferVars>>

Flags == {"THUMB_SEEKED", "THUMB_VOUT", "THUMB_DONE"}
Sizes == [width : Nat, height : Nat, borders : Nat]

TypeOK ==
  /\ pc \in {"create", "lock", "testVout", "waitVout", "testFrame", "waitFrame",
             "unlock", "stop", "stopping", "release", "collect", "free", "end"}
  /\ timedOut \in BOOLEAN /\ waiting \in BOOLEAN
  /\ player \in {"none", "playing", "stopping", "stopped"}
  /\ vout \in {"none", "setUp", "failed", "open", "allocate", "copy", "copied"}
  /\ state \subseteq Flags
  /\ size \in Sizes
  /\ thumbData \in BOOLEAN
  /\ frameData \in {"null", "black", "picture"}
  /\ result \in {"null", "black", "picture"}

Init ==
  /\ pc = "create" /\ timedOut = FALSE /\ waiting = FALSE
  /\ player = "none" /\ vout = "none" /\ state = {}
  /\ size = [width |-> 0, height |-> 0, borders |-> 0]
  /\ thumbData = FALSE /\ frameData = "null" /\ result = "null"

\* Mutant of MutexHeld: the mutex is released after the player has stopped.
MutexHeldInStop ==
  pc \in {"testVout", "testFrame", "unlock", "stop", "stopping"}

\* The caller has doneMutex; it waits without it.
MutexHeld == pc \in {"testVout", "testFrame", "unlock"}

-----------------------------------------------------------------------------
(* The video output and the input thread of libvlc, which call back.        *)

\* Mutant of Signal: nobody is woken.
SignalNobody(flag) == state' = state \cup {flag} /\ UNCHANGED waiting

\* Mutant of Signal: it replaces the flags that were set.
SignalOnly(flag) == state' = {flag} /\ waiting' = FALSE

\* state |= flag and pthread_cond_signal(), between lock and unlock.
Signal(flag) ==
  /\ ~MutexHeld
  /\ state' = state \cup {flag} /\ waiting' = FALSE

SizeAccepted(width, height) ==
  width \in MinWidth..MaxWidth /\ height \in MinHeight..MaxHeight

\* What a product of a quotient gives in float: when it is exact, the last
\* bit of the quotient may put it just below.
Scaled(length, a, b) ==
  {q \in 0..(length * a) : q * b <= length * a /\ length * a <= q * b + b}

\* Mutant of ThumbSizes: the taller of the two is scaled by its width.
ThumbSizesSwapped(width, height) ==
  IF FrameWidth * height < width * FrameHeight
  THEN {[width |-> w, height |-> FrameHeight,
         borders |-> (FrameWidth - w) \div 2]
        : w \in Scaled(FrameHeight, width, height)}
  ELSE {[width |-> FrameWidth, height |-> q + 1,
         borders |-> ((FrameHeight - (q + 1)) \div 2) * FrameWidth]
        : q \in Scaled(FrameWidth, height, width)}

\* Mutant of ThumbSizes: every video is taken to be wider than the frame.
ThumbSizesWide(width, height) ==
  {[width |-> FrameWidth, height |-> q + 1,
    borders |-> ((FrameHeight - (q + 1)) \div 2) * FrameWidth]
   : q \in Scaled(FrameWidth, height, width)}

\* The picture is as wide as the frame, or as tall.
ThumbSizes(width, height) ==
  IF FrameWidth * height < width * FrameHeight
  THEN {[width |-> FrameWidth, height |-> q + 1,
         borders |-> ((FrameHeight - (q + 1)) \div 2) * FrameWidth]
        : q \in Scaled(FrameWidth, height, width)}
  ELSE {[width |-> w, height |-> FrameHeight,
         borders |-> (FrameWidth - w) \div 2]
        : w \in Scaled(FrameHeight, width, height)}

\* thumbnailer_setup(): a video without dimensions, or out of range, is refused.
Setup ==
  /\ player = "playing" /\ vout = "none"
  /\ \E width \in VideoWidths, height \in VideoHeights :
       IF SizeAccepted(width, height)
       THEN /\ size' \in ThumbSizes(width, height)
            /\ thumbData' \in BOOLEAN
            /\ vout' = IF thumbData' THEN "setUp" ELSE "failed"
       ELSE vout' = "failed" /\ UNCHANGED <<size, thumbData>>
  /\ UNCHANGED <<callerVars, waiting, state, frameData>>

SetUp ==
  /\ vout = "setUp" /\ vout' = "open"
  /\ Signal("THUMB_VOUT")
  /\ UNCHANGED <<callerVars, bufferVars>>

\* libvlc may ask again, for another format.
SetupFails ==
  /\ vout = "failed" /\ vout' = "none"
  /\ Signal("THUMB_DONE")
  /\ UNCHANGED <<callerVars, bufferVars>>

\* thumbnailer_display(): frames shown before the seek are skipped.
Display ==
  /\ player = "playing" /\ vout = "open" /\ ~MutexHeld
  /\ {"THUMB_SEEKED", "THUMB_VOUT"} \subseteq state
  /\ vout' = "allocate"
  /\ UNCHANGED <<callerVars, waiting, state, bufferVars>>

\* calloc(): what frameData was before is forgotten, not freed.
Allocate ==
  /\ vout = "allocate"
  /\ \/ frameData' = "black" /\ vout' = "copy"
     \/ frameData' = "null" /\ vout' = "copied"
  /\ UNCHANGED <<callerVars, waiting, state, size, thumbData>>

Copy ==
  /\ vout = "copy" /\ vout' = "copied"
  /\ frameData' = "picture"
  /\ UNCHANGED <<callerVars, waiting, state, size, thumbData>>

\* Mutant of DisplayDone: a frame that could not be allocated is not signalled.
DisplayDoneSilently ==
  /\ vout = "copied" /\ vout' = "open"
  /\ IF frameData = "null" THEN UNCHANGED <<state, waiting>> ELSE Signal("THUMB_DONE")
  /\ UNCHANGED <<callerVars, bufferVars>>

DisplayDone ==
  /\ vout = "copied" /\ vout' = "open"
  /\ Signal("THUMB_DONE")
  /\ UNCHANGED <<callerVars, bufferVars>>

\* The format changes: the video output closes, and is set up again.
Close ==
  /\ player = "playing" /\ vout = "open" /\ vout' = "none"
  /\ UNCHANGED <<callerVars, waiting, state, bufferVars>>

\* thumbnailer_event(): the position is THUMBNAIL_POSITION or more.
PositionChanged ==
  /\ player = "playing"
  /\ Signal("THUMB_SEEKED")
  /\ UNCHANGED <<callerVars, vout, bufferVars>>

-----------------------------------------------------------------------------
(* nativeGetThumbnail(), which the caller's thread runs.                    *)

CallerGoes(from, to) == pc = from /\ pc' = to

\* The player is made and plays, or cannot be made.
Create ==
  /\ pc = "create"
  /\ \/ pc' = "lock" /\ player' = "playing"
     \/ pc' = "free" /\ UNCHANGED player
  /\ UNCHANGED <<timedOut, result, waiting, vout, state, bufferVars>>

Lock ==
  /\ CallerGoes("lock", "testVout")
  /\ UNCHANGED <<timedOut, player, result, waiting, vout, state, bufferVars>>

\* Mutant of Await: the flag is not tested before the caller waits.
AwaitUntested(flag, wait, found, late) ==
  IF timedOut THEN pc' = late /\ UNCHANGED waiting
  ELSE pc' = wait /\ waiting' = TRUE

\* The test of a loop around pthread_cond_timedwait().
Await(flag, wait, found, late) ==
  IF flag \in state THEN pc' = found /\ UNCHANGED waiting
  ELSE IF timedOut THEN pc' = late /\ UNCHANGED waiting
  ELSE pc' = wait /\ waiting' = TRUE

TestVout ==
  /\ pc = "testVout"
  /\ Await("THUMB_VOUT", "waitVout", "testFrame", "unlock")
  /\ timedOut' = (timedOut /\ pc' # "testFrame")
  /\ UNCHANGED <<player, result, vout, state, bufferVars>>

TestFrame ==
  /\ pc = "testFrame"
  /\ Await("THUMB_DONE", "waitFrame", "unlock", "unlock")
  /\ UNCHANGED <<timedOut, player, result, vout, state, bufferVars>>

\* pthread_cond_timedwait() returns: signalled, spuriously, or as time is up.
Return ==
  /\ \/ CallerGoes("waitVout", "testVout")
     \/ CallerGoes("waitFrame", "testFrame")
  /\ waiting' = FALSE
  /\ UNCHANGED <<player, result, vout, state, bufferVars>>

Woken == ~waiting /\ Return /\ UNCHANGED timedOut
WokenSpuriously == waiting /\ Return /\ UNCHANGED timedOut
Timeout == Return /\ timedOut' = TRUE

Unlock ==
  /\ CallerGoes("unlock", "stop")
  /\ UNCHANGED <<timedOut, player, result, waiting, vout, state, bufferVars>>

\* Mutant of Stop: it returns while a callback runs.
StopAtOnce ==
  /\ CallerGoes("stop", "release") /\ player' = "stopped"
  /\ UNCHANGED <<timedOut, result, waiting, vout, state, bufferVars>>

\* libvlc_media_player_stop(): no callback starts any more.
Stop ==
  /\ CallerGoes("stop", "stopping") /\ player' = "stopping"
  /\ UNCHANGED <<timedOut, result, waiting, vout, state, bufferVars>>

\* It returns when the callback that runs has ended, and the output is closed.
Stopped ==
  /\ CallerGoes("stopping", "release") /\ vout \in {"none", "open"}
  /\ player' = "stopped" /\ vout' = "none"
  /\ UNCHANGED <<timedOut, result, waiting, state, bufferVars>>

Release ==
  /\ CallerGoes("release", "collect") /\ player' = "none"
  /\ UNCHANGED <<timedOut, result, waiting, vout, state, bufferVars>>

\* Mutant of Collect: it does not ask whether the frame is done.
CollectAny ==
  /\ CallerGoes("collect", "free")
  /\ result' = frameData
  /\ UNCHANGED <<timedOut, player, waiting, vout, state, bufferVars>>

\* The frame is copied to an array of bytes, if one can be had.
Collect ==
  /\ CallerGoes("collect", "free")
  /\ result' \in IF "THUMB_DONE" \in state THEN {frameData, "null"} ELSE {"null"}
  /\ UNCHANGED <<timedOut, player, waiting, vout, state, bufferVars>>

Free ==
  /\ CallerGoes("free", "end")
  /\ thumbData' = FALSE /\ frameData' = "null"
  /\ UNCHANGED <<timedOut, player, result, waiting, vout, state, size>>

VoutNext == Setup \/ SetUp \/ SetupFails \/ Display \/ Allocate \/ Copy
            \/ DisplayDone \/ Close
CallerNext ==
  \/ Create \/ Lock \/ TestVout \/ TestFrame \/ Woken \/ WokenSpuriously \/ Timeout
  \/ Unlock \/ Stop \/ Stopped \/ Release \/ Collect \/ Free

Next == VoutNext \/ PositionChanged \/ CallerNext

\* Each thread takes its next step, once it is in a callback or has begun; a
\* wait ends at its deadline, which no other return from it puts off.
Fairness ==
  /\ WF_vars(SetUp \/ SetupFails \/ Allocate \/ Copy \/ DisplayDone)
  /\ WF_vars(Create \/ Lock \/ TestVout \/ TestFrame \/ Woken \/ Unlock
             \/ Stop \/ Stopped \/ Release \/ Collect \/ Free)
  /\ SF_vars(Timeout)

Spec == Init /\ [][Next]_vars /\ Fairness

-----------------------------------------------------------------------------
\* The picture, copied from where its borders end, is a rectangle of the frame.
InFrame(s) ==
  \E row \in 0..FrameHeight, column \in 0..FrameWidth :
    /\ s.borders = row * FrameWidth + column
    /\ row + s.height <= FrameHeight
    /\ column + s.width <= FrameWidth

\* thumbnailer_display() copies into the frame and nothing past it, and no row
\* of the picture runs into the next row.
CopyStaysInFrame == vout = "copy" => InFrame(size)

\* A caller that waits has not missed what it waits for: a flag that was set
\* before the wait, or between the test and the wait, has ended it.
NoLostWakeup ==
  waiting => /\ pc = "waitVout" => "THUMB_VOUT" \notin state
             /\ pc = "waitFrame" => "THUMB_DONE" \notin state

\* A thumbnail that is returned is a whole picture, though the flag is tested
\* and the frame read without the mutex, and though a picture that comes while
\* the player is stopped replaces the frame.
ResultIsWhole == result # "black"

\* thumbnailer_sys_t is not freed while a callback of libvlc uses it.
NoUseAfterFree ==
  pc \in {"collect", "free", "end"} => vout = "none" /\ player = "none"

\* The caller gets its answer, however the video output, the seek and the
\* stopping of the player interleave and whatever fails.
ThumbnailEnds == <>(pc = "end")
=============================================================================
