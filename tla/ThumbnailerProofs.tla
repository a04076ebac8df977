-------------------------- MODULE ThumbnailerProofs -------------------------
(***************************************************************************)
(* Theorems about Thumbnailer, for frames and videos of any size.          *)
(***************************************************************************)
EXTENDS Thumbnailer, TLAPS

\* What the player does follows from where the caller is.
PlayerOfCaller ==
  /\ pc \in {"create", "collect", "free", "end"} => player = "none"
  /\ pc = "stopping" => player = "stopping"
  /\ pc = "release" => player = "stopped"

\* Without a player no callback runs; the output is closed.
VoutOfCaller == pc \in {"create", "release", "collect", "free", "end"} => vout = "none"

\* A black frame is one that is being copied to.
FrameOfVout == frameData = "black" => vout = "copy"

\* From the set-up on the picture fits.
SizeOfVout == vout \in {"setUp", "open", "allocate", "copy", "copied"} => InFrame(size)

WaitingOfCaller == waiting => pc \in {"waitVout", "waitFrame"}

IInv ==
  /\ TypeOK
  /\ PlayerOfCaller /\ VoutOfCaller /\ FrameOfVout /\ SizeOfVout
  /\ WaitingOfCaller /\ NoLostWakeup /\ ResultIsWhole

-----------------------------------------------------------------------------
\* A product that does not exceed another has the smaller factor.
LEMMA FactorBelow ==
  ASSUME NEW q \in Nat, NEW n \in Nat, NEW b \in Nat, q * b < n * b
  PROVE  q < n
<1>1. SUFFICES ASSUME n <= q PROVE n * b <= q * b
  OBVIOUS
<1>2. q = n + (q - n) /\ q - n \in Nat
  BY <1>1
<1>3. q * b = n * b + (q - n) * b
  BY <1>2
<1>4. (q - n) * b >= 0
  BY <1>2
<1> QED
  BY <1>3, <1>4

LEMMA FactorAtMost ==
  ASSUME NEW q \in Nat, NEW n \in Nat, NEW b \in Nat, b > 0, q * b <= n * b
  PROVE  q <= n
<1>1. SUFFICES ASSUME n + 1 <= q PROVE n * b < q * b
  OBVIOUS
<1>2. q * b = n * b + b + (q - (n + 1)) * b /\ q - (n + 1) \in Nat
  BY <1>1
<1>3. (q - (n + 1)) * b >= 0
  BY <1>2
<1> QED
  BY <1>2, <1>3

\* Halving what is left beside the picture leaves room for it.
LEMMA HalfFits ==
  ASSUME NEW total \in Nat, NEW part \in Nat, part <= total
  PROVE  /\ (total - part) \div 2 \in Nat
         /\ (total - part) \div 2 + part <= total
<1> DEFINE rest == total - part
<1>1. rest \in Nat
  OBVIOUS
<1>2. rest \div 2 \in Nat /\ rest \div 2 <= rest
  BY <1>1
<1> QED
  BY <1>2

\* Whatever the ratio of the video, the picture is a rectangle of the frame.
LEMMA ThumbSizesFit ==
  ASSUME NEW width \in Nat, NEW height \in Nat, width > 0, height > 0,
         NEW s \in ThumbSizes(width, height)
  PROVE  s \in Sizes /\ InFrame(s)
<1> USE FrameAssumption
<1>1. CASE FrameWidth * height < width * FrameHeight
  <2>1. PICK q \in Scaled(FrameWidth, height, width) :
          s = [width |-> FrameWidth, height |-> q + 1,
               borders |-> ((FrameHeight - (q + 1)) \div 2) * FrameWidth]
    BY <1>1 DEF ThumbSizes
  <2>2. q \in Nat /\ q * width <= FrameWidth * height
    BY DEF Scaled
  <2>3. q * width < FrameHeight * width
    BY <2>2, <1>1
  <2>4. q < FrameHeight
    BY <2>2, <2>3, FactorBelow
  <2> DEFINE row == (FrameHeight - (q + 1)) \div 2
  <2>5. row \in Nat /\ row + (q + 1) <= FrameHeight
    <3>1. q + 1 \in Nat /\ FrameHeight \in Nat /\ q + 1 <= FrameHeight
      BY <2>2, <2>4
    <3> HIDE DEF row
    <3> QED
      BY <3>1, HalfFits DEF row
  <2> HIDE DEF row
  <2>6. s = [width |-> FrameWidth, height |-> q + 1, borders |-> row * FrameWidth]
    BY <2>1 DEF row
  <2>7. s \in Sizes
    BY <2>2, <2>5, <2>6 DEF Sizes
  <2>8. s.borders = row * FrameWidth + 0
    BY <2>5, <2>6
  <2>9. row + s.height <= FrameHeight /\ row \in 0..FrameHeight
    BY <2>2, <2>5, <2>6
  <2>10. 0 + s.width <= FrameWidth /\ 0 \in 0..FrameWidth
    BY <2>6
  <2> QED
    BY <2>7, <2>8, <2>9, <2>10 DEF InFrame
<1>2. CASE ~(FrameWidth * height < width * FrameHeight)
  <2>1. PICK w \in Scaled(FrameHeight, width, height) :
          s = [width |-> w, height |-> FrameHeight,
               borders |-> (FrameWidth - w) \div 2]
    BY <1>2 DEF ThumbSizes
  <2>2. w \in Nat /\ w * height <= FrameHeight * width
    BY DEF Scaled
  <2>3. w * height <= FrameWidth * height
    BY <2>2, <1>2
  <2>4. w <= FrameWidth
    BY <2>2, <2>3, FactorAtMost
  <2> DEFINE column == (FrameWidth - w) \div 2
  <2>5. column \in Nat /\ column + w <= FrameWidth
    <3>1. FrameWidth \in Nat
      OBVIOUS
    <3> HIDE DEF column
    <3> QED
      BY <3>1, <2>2, <2>4, HalfFits DEF column
  <2> HIDE DEF column
  <2>6. s = [width |-> w, height |-> FrameHeight, borders |-> column]
    BY <2>1 DEF column
  <2>7. s \in Sizes
    BY <2>2, <2>5, <2>6 DEF Sizes
  <2>8. s.borders = 0 * FrameWidth + column /\ 0 \in 0..FrameHeight
    BY <2>5, <2>6
  <2>9. 0 + s.height <= FrameHeight
    BY <2>6
  <2>10. column + s.width <= FrameWidth /\ column \in 0..FrameWidth
    BY <2>2, <2>5, <2>6
  <2> QED
    BY <2>7, <2>8, <2>9, <2>10 DEF InFrame
<1> QED
  BY <1>1, <1>2

LEMMA Initially == Init => IInv
<1> SUFFICES ASSUME Init PROVE IInv
  OBVIOUS
<1>1. size \in Sizes
  BY DEF Init, Sizes
<1>2. TypeOK
  BY <1>1 DEF Init, TypeOK
<1> QED
  BY <1>2 DEF Init, IInv, PlayerOfCaller, VoutOfCaller, FrameOfVout, SizeOfVout,
             WaitingOfCaller, NoLostWakeup, ResultIsWhole

\* What every step of the video output that leaves the size alone preserves.
LEMMA VoutSteps ==
  ASSUME IInv, SetUp \/ SetupFails \/ Display \/ Allocate \/ Copy
               \/ DisplayDone \/ Close \/ PositionChanged
  PROVE  IInv'
<1> USE DEF IInv, TypeOK, Flags, callerVars, bufferVars, Signal
<1>1. InFrame(size)' <=> InFrame(size)
  BY DEF SetUp, SetupFails, Display, Allocate, Copy, DisplayDone, Close,
         PositionChanged, InFrame
<1>2. TypeOK'
  <2>1. state' \subseteq Flags /\ waiting' \in BOOLEAN
    BY DEF SetUp, SetupFails, Display, Allocate, Copy, DisplayDone, Close, PositionChanged
  <2>2. /\ vout' \in {"none", "setUp", "failed", "open", "allocate", "copy", "copied"}
        /\ frameData' \in {"null", "black", "picture"}
    BY DEF SetUp, SetupFails, Display, Allocate, Copy, DisplayDone, Close, PositionChanged
  <2>3. UNCHANGED <<callerVars, size, thumbData>>
    BY DEF SetUp, SetupFails, Display, Allocate, Copy, DisplayDone, Close, PositionChanged
  <2> QED
    BY <2>1, <2>2, <2>3
<1>3. PlayerOfCaller'
  BY DEF SetUp, SetupFails, Display, Allocate, Copy, DisplayDone, Close,
         PositionChanged, PlayerOfCaller
<1>4. VoutOfCaller'
  BY DEF SetUp, SetupFails, Display, Allocate, Copy, DisplayDone, Close,
         PositionChanged, PlayerOfCaller, VoutOfCaller
<1>5. FrameOfVout'
  BY DEF SetUp, SetupFails, Display, Allocate, Copy, DisplayDone, Close,
         PositionChanged, FrameOfVout
<1>6. SizeOfVout'
  BY <1>1 DEF SetUp, SetupFails, Display, Allocate, Copy, DisplayDone, Close,
         PositionChanged, SizeOfVout
<1>7. WaitingOfCaller' /\ NoLostWakeup' /\ ResultIsWhole'
  BY DEF SetUp, SetupFails, Display, Allocate, Copy, DisplayDone, Close,
         PositionChanged, WaitingOfCaller, NoLostWakeup, ResultIsWhole
<1> QED
  BY <1>2, <1>3, <1>4, <1>5, <1>6, <1>7

LEMMA SetupStep == IInv /\ Setup => IInv'
<1> SUFFICES ASSUME IInv, Setup PROVE IInv'
  OBVIOUS
<1> USE DEF IInv, TypeOK, callerVars, bufferVars, Setup
<1>1. /\ size' \in Sizes
      /\ vout' \in {"setUp", "failed"}
      /\ thumbData' \in BOOLEAN
      /\ vout' = "setUp" => InFrame(size)'
  <2>1. PICK width \in VideoWidths, height \in VideoHeights :
          IF SizeAccepted(width, height)
          THEN /\ size' \in ThumbSizes(width, height)
               /\ thumbData' \in BOOLEAN
               /\ vout' = IF thumbData' THEN "setUp" ELSE "failed"
          ELSE vout' = "failed" /\ UNCHANGED <<size, thumbData>>
    OBVIOUS
  <2>2. CASE SizeAccepted(width, height)
    <3>1. width \in Nat /\ height \in Nat /\ width > 0 /\ height > 0
      BY <2>2, VideoAssumption, LimitAssumption DEF SizeAccepted
    <3>2. size' \in Sizes /\ InFrame(size')
      BY <2>1, <2>2, <3>1, ThumbSizesFit
    <3> QED
      BY <2>1, <2>2, <3>2 DEF InFrame
  <2>3. CASE ~SizeAccepted(width, height)
    BY <2>1, <2>3
  <2> QED
    BY <2>2, <2>3
<1>2. UNCHANGED <<callerVars, waiting, state, frameData>>
  OBVIOUS
<1>3. player = "playing" /\ vout = "none"
  OBVIOUS
<1> HIDE DEF Setup
<1>4. TypeOK'
  BY <1>1, <1>2
<1>5. PlayerOfCaller' /\ VoutOfCaller'
  BY <1>2, <1>3 DEF PlayerOfCaller, VoutOfCaller
<1>6. FrameOfVout'
  BY <1>2, <1>3 DEF FrameOfVout
<1>7. SizeOfVout'
  BY <1>1 DEF SizeOfVout
<1>8. WaitingOfCaller' /\ NoLostWakeup' /\ ResultIsWhole'
  BY <1>2 DEF WaitingOfCaller, NoLostWakeup, ResultIsWhole
<1> QED
  BY <1>4, <1>5, <1>6, <1>7, <1>8

LEMMA CallerSteps == IInv /\ CallerNext => IInv'
<1> SUFFICES ASSUME IInv, CallerNext PROVE IInv'
  OBVIOUS
<1> USE DEF IInv, TypeOK, bufferVars
<1>1. SizeOfVout' /\ size' \in Sizes
  <2>1. size' = size /\ (vout' = vout \/ vout' = "none")
    BY DEF CallerNext, Create, Lock, TestVout, TestFrame, Woken, WokenSpuriously,
           Timeout, Return, Unlock, Stop, Stopped, Release, Collect, Free
  <2> QED
    BY <2>1 DEF SizeOfVout, InFrame
<1>2. CASE Create
  BY <1>1, <1>2 DEF Create, PlayerOfCaller, VoutOfCaller, FrameOfVout,
     WaitingOfCaller, NoLostWakeup, ResultIsWhole
<1>3. CASE Lock
  BY <1>1, <1>3 DEF Lock, CallerGoes, PlayerOfCaller, VoutOfCaller, FrameOfVout,
     WaitingOfCaller, NoLostWakeup, ResultIsWhole
<1>4. CASE TestVout
  BY <1>1, <1>4 DEF TestVout, Await, PlayerOfCaller, VoutOfCaller, FrameOfVout,
     WaitingOfCaller, NoLostWakeup, ResultIsWhole
<1>5. CASE TestFrame
  BY <1>1, <1>5 DEF TestFrame, Await, PlayerOfCaller, VoutOfCaller, FrameOfVout,
     WaitingOfCaller, NoLostWakeup, ResultIsWhole
<1>6. CASE Woken \/ WokenSpuriously \/ Timeout
  BY <1>1, <1>6 DEF Woken, WokenSpuriously, Timeout, Return, CallerGoes,
     PlayerOfCaller, VoutOfCaller, FrameOfVout,
     WaitingOfCaller, NoLostWakeup, ResultIsWhole
<1>7. CASE Unlock \/ Stop
  BY <1>1, <1>7 DEF Unlock, Stop, CallerGoes, PlayerOfCaller, VoutOfCaller,
     FrameOfVout, WaitingOfCaller, NoLostWakeup, ResultIsWhole
<1>8. CASE Stopped \/ Release
  BY <1>1, <1>8 DEF Stopped, Release, CallerGoes, PlayerOfCaller, VoutOfCaller,
     FrameOfVout, WaitingOfCaller, NoLostWakeup, ResultIsWhole
<1>9. CASE Collect
  <2>1. vout = "none" /\ frameData # "black"
    BY <1>9 DEF Collect, CallerGoes, VoutOfCaller, FrameOfVout
  <2> QED
    BY <1>1, <1>9, <2>1 DEF Collect, CallerGoes, PlayerOfCaller, VoutOfCaller,
       FrameOfVout, WaitingOfCaller, NoLostWakeup, ResultIsWhole
<1>10. CASE Free
  BY <1>1, <1>10 DEF Free, CallerGoes, PlayerOfCaller, VoutOfCaller, FrameOfVout,
     WaitingOfCaller, NoLostWakeup, ResultIsWhole
<1> QED
  BY <1>2, <1>3, <1>4, <1>5, <1>6, <1>7, <1>8, <1>9, <1>10 DEF CallerNext

LEMMA StutterSteps == IInv /\ UNCHANGED vars => IInv'
BY DEF IInv, TypeOK, vars, callerVars, bufferVars, PlayerOfCaller, VoutOfCaller,
       FrameOfVout, SizeOfVout, InFrame, WaitingOfCaller, NoLostWakeup, ResultIsWhole

\* The strengthened invariant is inductive.
THEOREM Inductive == Spec => []IInv
<1>1. IInv /\ [Next]_vars => IInv'
  <2> SUFFICES ASSUME IInv, [Next]_vars PROVE IInv'
    OBVIOUS
  <2>1. CASE SetUp \/ SetupFails \/ Display \/ Allocate \/ Copy
               \/ DisplayDone \/ Close \/ PositionChanged
    BY <2>1, VoutSteps
  <2> QED
    BY <2>1, SetupStep, CallerSteps, StutterSteps DEF Next, VoutNext
<1> QED
  BY <1>1, Initially, PTL DEF Spec

\* Every variable keeps its type, the borders of the picture are no negative
\* (in the code: wrapped) number.
THEOREM TypeCorrect == Spec => []TypeOK
<1>1. IInv => TypeOK
  BY DEF IInv
<1> QED
  BY <1>1, Inductive, PTL

\* thumbnailer_display() writes inside the frame, for every frame and video.
THEOREM CopyInFrame == Spec => []CopyStaysInFrame
<1>1. IInv => CopyStaysInFrame
  BY DEF IInv, SizeOfVout, CopyStaysInFrame
<1> QED
  BY <1>1, Inductive, PTL

\* The caller never waits for a flag that is set.
THEOREM WaitsForWhatIsMissing == Spec => []NoLostWakeup
<1>1. IInv => NoLostWakeup
  BY DEF IInv
<1> QED
  BY <1>1, Inductive, PTL

\* A thumbnail that is returned was copied to its end.
THEOREM WholeThumbnail == Spec => []ResultIsWhole
<1>1. IInv => ResultIsWhole
  BY DEF IInv
<1> QED
  BY <1>1, Inductive, PTL

\* No callback runs when the structure it uses is freed.
THEOREM FreedAfterUse == Spec => []NoUseAfterFree
<1>1. IInv => NoUseAfterFree
  BY DEF IInv, PlayerOfCaller, VoutOfCaller, NoUseAfterFree
<1> QED
  BY <1>1, Inductive, PTL
=============================================================================
