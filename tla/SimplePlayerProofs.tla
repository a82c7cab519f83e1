------------------------- MODULE SimplePlayerProofs -------------------------
(***************************************************************************)
(* Proofs about SimplePlayer, for any number of clicks, every set of       *)
(* files, every decoder delay and every outcome of undefined behaviour.    *)
(***************************************************************************)
EXTENDS SimplePlayer, FiniteSetTheorems, SequenceTheorems, TLAPS

LEMMA SessionCount == 0 \in Nat /\ Clicks \in Nat /\ Sessions \subseteq Nat \ {0}
BY BoundsAssumption DEF Sessions

LEMMA PixelSizes == NoWhere \in Sizes /\ \A z \in Sizes : z.w \in Nat /\ z.h \in Nat
BY DEF NoWhere, Sizes

(***************************************************************************)
(* Type correctness: threads and booleans.                                 *)
(***************************************************************************)
LEMMA InitThreads == Init => ThreadsOK
<1>. SUFFICES ASSUME Init PROVE ThreadsOK
  OBVIOUS
<1>1. {locked, dirty, evicted, raced, crashed} \subseteq BOOLEAN
  BY Zenon DEF Init
<1>2. /\ clip \in [Sessions -> Clips] /\ ui = "idle" /\ clicks \in 0 .. Clicks
      /\ pc \in [Sessions -> PcOf] /\ gl \in GLPcs
  BY SessionCount DEF Init, PcOf, GLPcs
<1>. QED BY <1>1, <1>2 DEF ThreadsOK

Bool(b) == b \in BOOLEAN

LEMMA Booleans ==
    ASSUME ThreadsOK, Next
    PROVE  Bool(locked') /\ Bool(dirty') /\ Bool(evicted') /\ Bool(raced') /\ Bool(crashed')
<1>. USE DEF Bool, hazards, Move, MoveGL, Lock, Unlock, ListOp
<1>0. Bool(locked) /\ Bool(dirty) /\ Bool(evicted) /\ Bool(raced) /\ Bool(crashed)
  BY DEF ThreadsOK
<1>1. CASE OnClick
  BY <1>0, <1>1, Zenon DEF OnClick, Click, InitWidth, InitHeight, InitMutex, StartThread
<1>2. ASSUME NEW s \in Sessions, Session(s)
      PROVE  Bool(locked') /\ Bool(dirty') /\ Bool(evicted') /\ Bool(raced') /\ Bool(crashed')
  <2>1. CASE OpenFails(s) BY <1>0, <2>1, Zenon DEF OpenFails
  <2>2. CASE Open(s) BY <1>0, <2>2, Zenon DEF Open
  <2>3. CASE NoPicture(s) BY <1>0, <2>3, Zenon DEF NoPicture
  <2>4. CASE Picture(s) BY <1>0, <2>4, Zenon DEF Picture
  <2>5. CASE EndOfFile(s) BY <1>0, <2>5, Zenon DEF EndOfFile
  <2>6. CASE FlushPicture(s) BY <1>0, <2>6, Zenon DEF FlushPicture
  <2>7. CASE FlushEnds(s) BY <1>0, <2>7, Zenon DEF FlushEnds
  <2>8. CASE LockFrames(s) BY <1>0, <2>8, Zenon DEF LockFrames
  <2>9. CASE Push(s) BY <1>0, <2>9, Zenon DEF Push
  <2>10. CASE Request(s) BY <1>0, <2>10, Zenon DEF Request
  <2>. QED
    BY <1>2, <2>1, <2>2, <2>3, <2>4, <2>5, <2>6, <2>7, <2>8, <2>9, <2>10 DEF Session
<1>3. CASE Render
  <2>1. CASE DrawFrame BY <1>0, <2>1, Zenon DEF DrawFrame
  <2>2. CASE RenderLock BY <1>0, <2>2, Zenon DEF RenderLock
  <2>3. CASE RenderPop BY <1>0, <2>3, Zenon DEF RenderPop
  <2>4. CASE RenderCompare BY <1>0, <2>4, Zenon DEF RenderCompare
  <2>5. CASE RenderWidth BY <1>0, <2>5, Zenon DEF RenderWidth
  <2>6. CASE RenderHeight BY <1>0, <2>6, Zenon DEF RenderHeight
  <2>7. CASE RenderSetup BY <1>0, <2>7, Zenon DEF RenderSetup
  <2>8. CASE RenderUpload BY <1>0, <2>8, Zenon DEF RenderUpload
  <2>. QED BY <1>3, <2>1, <2>2, <2>3, <2>4, <2>5, <2>6, <2>7, <2>8 DEF Render
<1>. QED BY <1>1, <1>2, <1>3 DEF Next

LEMMA NextThreads == ASSUME ThreadsOK, Next PROVE ThreadsOK'
<1>1. /\ clip' \in [Sessions -> Clips]
      /\ ui' \in {"idle", "width", "height", "mutex", "start"}
      /\ clicks' \in 0 .. Clicks
      /\ ui' # "idle" => clicks' < Clicks
      /\ pc' \in [Sessions -> PcOf]
      /\ gl' \in GLPcs
  <2>. USE SessionCount DEF ThreadsOK, PcOf, GLPcs, Sessions, Move, MoveGL
  <2>1. CASE OnClick
    BY <2>1 DEF OnClick, Click, InitWidth, InitHeight, InitMutex, StartThread
  <2>2. ASSUME NEW s \in Sessions, Session(s)
        PROVE  /\ clip' = clip /\ ui' = ui /\ clicks' = clicks /\ gl' = gl
               /\ pc' \in [Sessions -> PcOf]
    BY <2>2 DEF Session, OpenFails, Open, NoPicture, Picture, EndOfFile, FlushPicture,
       FlushEnds, LockFrames, Push, Request
  <2>3. CASE Render
    BY <2>3 DEF Render, DrawFrame, RenderLock, RenderPop, RenderCompare, RenderWidth,
       RenderHeight, RenderSetup, RenderUpload
  <2>. QED BY <2>1, <2>2, <2>3 DEF Next
<1>2. {locked', dirty', evicted', raced', crashed'} \subseteq BOOLEAN
  BY Booleans DEF Bool
<1>. QED BY <1>1, <1>2 DEF ThreadsOK

(***************************************************************************)
(* Type correctness: the decoders.                                         *)
(***************************************************************************)
LEMMA NextDecoding == ASSUME DecodingOK, Next PROVE DecodingOK'
<1>1. CASE OnClick
  BY <1>1 DEF OnClick, Click, InitWidth, InitHeight, InitMutex, StartThread, DecodingOK,
     decoding
<1>2. ASSUME NEW s \in Sessions, Session(s) PROVE DecodingOK'
  <2>. USE DEF DecodingOK, decoding, Move
  <2>1. CASE OpenFails(s) \/ Open(s) \/ LockFrames(s) \/ Request(s)
    BY <2>1 DEF OpenFails, Open, LockFrames, Request
  <2>2. CASE NoPicture(s)
    <3>1. nread' \in [Sessions -> Nat] /\ nread[s] + 1 \in Nat
      BY <2>2 DEF NoPicture
    <3>2. decoder' \in [Sessions -> SUBSET Nat] /\ lost' \in [Sessions -> SUBSET Nat]
      BY <2>2, <3>1 DEF NoPicture
    <3>. QED BY <2>2, <3>1, <3>2 DEF NoPicture
  <2>3. CASE Picture(s)
    <3>1. nread' \in [Sessions -> Nat] /\ nread[s] + 1 \in Nat
      BY <2>3 DEF Picture
    <3>2. PICK pic \in Earliest(s, decoder[s] \union {nread[s] + 1}) :
             /\ decoder' = [decoder EXCEPT ![s] = (@ \union {nread[s] + 1}) \ {pic}]
             /\ hand' = [hand EXCEPT ![s] = pic]
      BY <2>3 DEF Picture
    <3>3. pic \in Nat
      BY <3>1, <3>2 DEF Earliest
    <3>4. decoder' \in [Sessions -> SUBSET Nat] /\ hand' \in [Sessions -> Nat]
      BY <3>1, <3>2, <3>3
    <3>. QED BY <2>3, <3>1, <3>4 DEF Picture
  <2>4. CASE EndOfFile(s)
    BY <2>4 DEF EndOfFile
  <2>5. CASE FlushPicture(s)
    <3>1. PICK pic \in Earliest(s, decoder[s]) :
             /\ decoder' = [decoder EXCEPT ![s] = @ \ {pic}]
             /\ hand' = [hand EXCEPT ![s] = pic]
      BY <2>5 DEF FlushPicture
    <3>2. pic \in Nat
      BY <3>1 DEF Earliest
    <3>3. decoder' \in [Sessions -> SUBSET Nat] /\ hand' \in [Sessions -> Nat]
      BY <3>1, <3>2
    <3>. QED BY <2>5, <3>3 DEF FlushPicture
  <2>6. CASE FlushEnds(s)
    BY <2>6 DEF FlushEnds
  <2>7. CASE Push(s)
    BY <2>7 DEF Push
  <2>. QED BY <1>2, <2>1, <2>2, <2>3, <2>4, <2>5, <2>6, <2>7 DEF Session
<1>3. CASE Render
  BY <1>3 DEF Render, DrawFrame, RenderLock, RenderPop, RenderCompare, RenderWidth,
     RenderHeight, RenderSetup, RenderUpload, MoveGL, DecodingOK, decoding
<1>. QED BY <1>1, <1>2, <1>3 DEF Next

(***************************************************************************)
(* Type correctness: the list and the screen.                              *)
(***************************************************************************)
LEMMA ListTypes ==
    ASSUME NEW q \in Seq(Frames)
    PROVE  /\ \A f \in Frames : Append(q, f) \in Seq(Frames)
           /\ q # <<>> => Head(q) \in Frames /\ Tail(q) \in Seq(Frames)
BY AppendProperties

LEMMA FrameTypes ==
    /\ \A f \in Frames : f.size \in Sizes /\ f.size.w \in Nat /\ f.size.h \in Nat
    /\ NoFrame.size.w \in Nat /\ NoFrame.size.h \in Nat
BY DEF Frames, Sizes, NoFrame, NoWhere

LEMMA NextScreen == ASSUME TypeOK, Next PROVE ScreenOK'
<1>. USE DEF ScreenOK, painting
<1>1. CASE OnClick
  <2>1. frame_size' \in Sizes
    BY <1>1 DEF TypeOK, OnClick, Click, InitWidth, InitHeight, InitMutex, StartThread, Sizes
  <2>. QED
    BY <1>1, <2>1 DEF TypeOK, OnClick, Click, InitWidth, InitHeight, InitMutex, StartThread
<1>2. ASSUME NEW s \in Sessions, Session(s) PROVE ScreenOK'
  <2>1. CASE Push(s)
    <3>1. [s |-> s, pic |-> hand[s], size |-> clip[s].size] \in Frames
      BY ClipsAssumption DEF TypeOK, ThreadsOK, DecodingOK, Frames
    <3>2. frames' \in Seq(Frames)
      BY <2>1, <3>1, ListTypes DEF TypeOK, Push, ListOp, PushBack
    <3>. QED BY <2>1, <3>2 DEF TypeOK, Push, Move
  <2>2. CASE ~Push(s)
    BY <1>2, <2>2 DEF TypeOK, Session, OpenFails, Open, NoPicture, Picture, EndOfFile,
       FlushPicture, FlushEnds, LockFrames, Request, Move
  <2>. QED BY <2>1, <2>2
<1>3. CASE Render
  <2>1. CASE RenderPop
    <3>1. frames' \in Seq(Frames)
      BY <2>1, ListTypes DEF TypeOK, RenderPop, ListOp, PopFront
    <3>2. /\ glframe' \in Frames \union {NoFrame}
          /\ gl' \in {"size", "width", "height", "setup", "upload"} => glframe' \in Frames
      BY <2>1, ListTypes DEF TypeOK, RenderPop, MoveGL
    <3>. QED BY <2>1, <3>1, <3>2 DEF TypeOK, RenderPop
  <2>2. CASE RenderUpload
    BY <2>2, ListTypes DEF TypeOK, RenderUpload, MoveGL
  <2>3. CASE RenderWidth \/ RenderHeight
    <3>1. frame_size' \in Sizes
      BY <2>3, FrameTypes DEF TypeOK, RenderWidth, RenderHeight, MoveGL, Sizes
    <3>. QED BY <2>3, <3>1 DEF TypeOK, RenderWidth, RenderHeight, MoveGL
  <2>4. CASE DrawFrame \/ RenderLock \/ RenderCompare \/ RenderSetup
    BY <2>4 DEF TypeOK, DrawFrame, RenderLock, RenderCompare, RenderSetup, MoveGL
  <2>. QED BY <1>3, <2>1, <2>2, <2>3, <2>4 DEF Render
<1>. QED BY <1>1, <1>2, <1>3 DEF Next

LEMMA InitType == Init => TypeOK
<1>. SUFFICES ASSUME Init PROVE TypeOK
  OBVIOUS
<1>1. ThreadsOK
  BY InitThreads
<1>2. DecodingOK
  BY DEF Init, DecodingOK
<1>3. ScreenOK
  BY PixelSizes DEF Init, ScreenOK
<1>. QED BY <1>1, <1>2, <1>3 DEF TypeOK

LEMMA NextType == ASSUME TypeOK, [Next]_vars PROVE TypeOK'
<1>1. CASE Next
  BY <1>1, NextThreads, NextDecoding, NextScreen DEF TypeOK
<1>2. CASE UNCHANGED vars
  BY <1>2 DEF TypeOK, ThreadsOK, DecodingOK, ScreenOK, vars, decoding, painting, hazards
<1>. QED BY <1>1, <1>2

\* Type correctness of any number of sessions of the simple player.
THEOREM SimpleTypeCorrect == Spec => []TypeOK
<1>. QED BY InitType, NextType, PTL DEF Spec

(***************************************************************************)
(* The mutex.  It does not know its holder, so the invariant says who is   *)
(* inside: nobody, the GL thread or one session.                           *)
(***************************************************************************)
OneInside ==
    /\ locked <=> (InsideGL \/ \E s \in Sessions : Inside(s))
    /\ \A s, t \in Sessions : Inside(s) /\ Inside(t) => s = t
    /\ \A s \in Sessions : ~(Inside(s) /\ InsideGL)

Unborn == \A s \in Sessions : s > clicks => pc[s] = "unborn"

HoldersInv == Unborn /\ (~evicted => OneInside)

LEMMA InitHolders == Init => HoldersInv
BY DEF Init, HoldersInv, Unborn, OneInside, Inside, InsideGL

LEMMA NextUnborn == ASSUME ThreadsOK, Unborn, [Next]_vars PROVE Unborn'
<1>. USE SessionCount DEF Unborn, ThreadsOK
<1>1. CASE OnClick
  BY <1>1 DEF OnClick, Click, InitWidth, InitHeight, InitMutex, StartThread
<1>2. ASSUME NEW s \in Sessions, Session(s) PROVE Unborn'
  BY <1>2 DEF Session, OpenFails, Open, NoPicture, Picture, EndOfFile, FlushPicture,
     FlushEnds, LockFrames, Push, Request, Move
<1>3. CASE Render
  BY <1>3 DEF Render, DrawFrame, RenderLock, RenderPop, RenderCompare, RenderWidth,
     RenderHeight, RenderSetup, RenderUpload, MoveGL
<1>4. CASE UNCHANGED vars
  BY <1>4 DEF vars
<1>. QED BY <1>1, <1>2, <1>3, <1>4 DEF Next

LEMMA NextHolders ==
    ASSUME ThreadsOK, HoldersInv, [Next]_vars
    PROVE  HoldersInv'
<1>1. Unborn'
  BY NextUnborn DEF HoldersInv
<1>2. SUFFICES ASSUME ~evicted' PROVE OneInside'
  BY <1>1 DEF HoldersInv
<1>. USE DEF OneInside, Inside, InsideGL
<1>3. CASE OnClick
  <2>1. CASE InitMutex
    <3>1. ~evicted /\ ~locked /\ ~locked'
      BY <1>2, <2>1 DEF InitMutex
    <3>. QED BY <2>1, <3>1 DEF InitMutex, HoldersInv
  <2>2. CASE StartThread
    <3>1. ~evicted /\ pc' = [pc EXCEPT ![clicks'] = "open"] /\ gl' = gl /\ locked' = locked
      BY <1>2, <2>2 DEF StartThread, hazards
    <3>2. clicks' \in Sessions /\ clicks' > clicks
      BY <2>2, SessionCount DEF StartThread, ThreadsOK, Sessions
    <3>3. \A s \in Sessions : pc'[s] = "push" <=> pc[s] = "push"
      BY <3>1, <3>2 DEF HoldersInv, Unborn, ThreadsOK
    <3>. QED BY <3>1, <3>3 DEF HoldersInv
  <2>3. CASE Click \/ InitWidth \/ InitHeight
    BY <1>2, <2>3 DEF Click, InitWidth, InitHeight, hazards, HoldersInv
  <2>. QED BY <1>3, <2>1, <2>2, <2>3 DEF OnClick
<1>4. ASSUME NEW s \in Sessions, Session(s) PROVE OneInside'
  <2>1. CASE LockFrames(s)
    <3>1. ~evicted /\ ~locked /\ locked' /\ gl' = gl
          /\ pc' = [pc EXCEPT ![s] = "push"]
      BY <1>2, <2>1 DEF LockFrames, Move, Lock, hazards
    <3>2. OneInside
      BY <3>1 DEF HoldersInv
    <3>. QED BY <3>1, <3>2 DEF ThreadsOK
  <2>2. CASE Push(s)
    <3>1. ~evicted /\ pc[s] = "push" /\ ~locked' /\ gl' = gl
          /\ pc' = [pc EXCEPT ![s] = "request"]
      BY <1>2, <2>2 DEF Push, Move, Unlock
    <3>2. OneInside
      BY <3>1 DEF HoldersInv
    <3>. QED BY <3>1, <3>2 DEF ThreadsOK
  <2>3. CASE ~LockFrames(s) /\ ~Push(s)
    <3>1. ~evicted /\ locked' = locked /\ gl' = gl
      BY <1>2, <1>4, <2>3 DEF Session, OpenFails, Open, NoPicture, Picture, EndOfFile,
         FlushPicture, FlushEnds, Request, Move, hazards
    <3>2. \A t \in Sessions : pc'[t] = "push" <=> pc[t] = "push"
      BY <1>4, <2>3 DEF Session, OpenFails, Open, NoPicture, Picture, EndOfFile,
         FlushPicture, FlushEnds, Request, Move, ThreadsOK
    <3>. QED BY <3>1, <3>2 DEF HoldersInv
  <2>. QED BY <2>1, <2>2, <2>3
<1>5. CASE Render
  <2>1. ~evicted /\ pc' = pc /\ OneInside
    BY <1>2, <1>5 DEF Render, DrawFrame, RenderLock, RenderPop, RenderCompare, RenderWidth,
       RenderHeight, RenderSetup, RenderUpload, MoveGL, HoldersInv
  <2>2. CASE RenderLock
    BY <2>1, <2>2 DEF RenderLock, MoveGL, Lock
  <2>3. CASE RenderPop
    BY <2>1, <2>3 DEF RenderPop, MoveGL, Unlock
  <2>4. CASE ~RenderLock /\ ~RenderPop
    <3>1. locked' = locked /\ gl # "pop" /\ gl' # "pop"
      BY <1>5, <2>4 DEF Render, DrawFrame, RenderCompare, RenderWidth, RenderHeight,
         RenderSetup, RenderUpload, MoveGL
    <3>. QED BY <2>1, <3>1
  <2>. QED BY <2>2, <2>3, <2>4
<1>6. CASE UNCHANGED vars
  BY <1>2, <1>6 DEF vars, hazards, HoldersInv
<1>. QED BY <1>3, <1>4, <1>5, <1>6 DEF Next

\* From the thread inside to the count of Exclusive.
LEMMA HoldersCount == ASSUME OneInside PROVE Holders = (IF locked THEN 1 ELSE 0)
<1>. DEFINE I == {s \in Sessions : Inside(s)}
<1>1. CASE I = {}
  <2>1. Cardinality(I) = 0
    BY <1>1, FS_EmptySet
  <2>. QED BY <1>1, <2>1 DEF OneInside, Holders
<1>2. CASE I # {}
  <2>1. PICK s \in Sessions : Inside(s)
    BY <1>2
  <2>2. I = {s} /\ ~InsideGL /\ locked
    BY <2>1 DEF OneInside
  <2>3. Cardinality(I) = 1
    BY <2>2, FS_Singleton
  <2>. QED BY <2>2, <2>3 DEF Holders
<1>. QED BY <1>1, <1>2

\* Mutual exclusion on the list: unless a second init has set up the mutex
\* while a thread held it, one thread at most is inside, whatever the number
\* of sessions that share the list.
THEOREM SimpleMutexHeld == Spec => []Exclusive
<1>1. Init => ThreadsOK /\ HoldersInv
  BY InitThreads, InitHolders
<1>2. ThreadsOK /\ HoldersInv /\ [Next]_vars => (ThreadsOK /\ HoldersInv)'
  <2>1. ThreadsOK /\ UNCHANGED vars => ThreadsOK'
    BY DEF ThreadsOK, vars, hazards
  <2>. QED BY <2>1, NextThreads, NextHolders
<1>3. HoldersInv => Exclusive
  BY HoldersCount DEF HoldersInv, Exclusive
<1>. QED BY <1>1, <1>2, <1>3, PTL DEF Spec

(***************************************************************************)
(* The sizes.  Between RenderWidth and RenderSetup the frame size may be   *)
(* larger than the textures, never when a picture is uploaded.             *)
(***************************************************************************)
SizesInv ==
    /\ gl \notin {"height", "setup"} => frame_size.w <= texture.w
    /\ gl # "setup" => frame_size.h <= texture.h
    /\ gl \in {"height", "setup", "upload"} => frame_size.w <= glframe.size.w
    /\ gl \in {"setup", "upload"} => frame_size.h <= glframe.size.h

LEMMA SizeTypes ==
    ASSUME ScreenOK
    PROVE  /\ frame_size \in Sizes /\ frame_size.w \in Nat /\ frame_size.h \in Nat
           /\ texture.w \in Nat /\ texture.h \in Nat
           /\ glframe.size.w \in Nat /\ glframe.size.h \in Nat
BY PixelSizes, FrameTypes DEF ScreenOK

LEMMA InitSizes == Init => SizesInv
BY DEF Init, SizesInv, NoWhere

LEMMA NextSizes == ASSUME TypeOK, SizesInv, [Next]_vars PROVE SizesInv'
<1>. USE SizeTypes DEF TypeOK, SizesInv, painting
<1>1. CASE OnClick
  <2>1. CASE InitWidth
    <3>1. frame_size'.w = 0 /\ frame_size'.h = frame_size.h
      BY <2>1 DEF InitWidth, Sizes
    <3>. QED BY <2>1, <3>1 DEF InitWidth
  <2>2. CASE InitHeight
    <3>1. frame_size'.h = 0 /\ frame_size'.w = frame_size.w
      BY <2>2 DEF InitHeight, Sizes
    <3>. QED BY <2>2, <3>1 DEF InitHeight
  <2>. QED BY <1>1, <2>1, <2>2 DEF OnClick, Click, InitMutex, StartThread
<1>2. ASSUME NEW s \in Sessions, Session(s) PROVE SizesInv'
  BY <1>2 DEF Session, OpenFails, Open, NoPicture, Picture, EndOfFile, FlushPicture,
     FlushEnds, LockFrames, Push, Request, Move
<1>3. CASE Render
  <2>1. CASE DrawFrame \/ RenderLock \/ RenderUpload
    BY <2>1 DEF DrawFrame, RenderLock, RenderUpload, MoveGL
  <2>2. CASE RenderPop
    BY <2>2 DEF RenderPop, MoveGL
  <2>3. CASE RenderCompare
    BY <2>3 DEF RenderCompare, MoveGL, SameSize
  <2>4. CASE RenderWidth
    <3>1. frame_size'.w = glframe.size.w /\ frame_size'.h = frame_size.h
      BY <2>4 DEF RenderWidth, Sizes
    <3>. QED BY <2>4, <3>1 DEF RenderWidth, MoveGL
  <2>5. CASE RenderHeight
    <3>1. frame_size'.h = glframe.size.h /\ frame_size'.w = frame_size.w
      BY <2>5 DEF RenderHeight, Sizes
    <3>. QED BY <2>5, <3>1 DEF RenderHeight, MoveGL
  <2>6. CASE RenderSetup
    BY <2>6 DEF RenderSetup, MoveGL
  <2>. QED BY <1>3, <2>1, <2>2, <2>3, <2>4, <2>5, <2>6 DEF Render
<1>4. CASE UNCHANGED vars
  BY <1>4 DEF vars
<1>. QED BY <1>1, <1>2, <1>3, <1>4 DEF Next

\* What an upload reads and writes stays inside the picture and inside the
\* textures, however init on the UI thread races with the GL thread.
THEOREM UploadsStayInside == Spec => NoOverrun
<1>. DEFINE Inside2 == drawn' # drawn =>
           /\ frame_size.w <= texture.w /\ frame_size.w <= glframe.size.w
           /\ frame_size.h <= texture.h /\ frame_size.h <= glframe.size.h
<1>1. TypeOK /\ SizesInv /\ [Next]_vars => [Inside2]_vars
  <2>. SUFFICES ASSUME SizesInv, Next, drawn' # drawn PROVE Inside2
    BY DEF vars, painting
  <2>1. ~OnClick
    BY DEF OnClick, Click, InitWidth, InitHeight, InitMutex, StartThread, painting
  <2>2. \A s \in Sessions : ~Session(s)
    BY DEF Session, OpenFails, Open, NoPicture, Picture, EndOfFile, FlushPicture,
       FlushEnds, LockFrames, Push, Request, Move, painting
  <2>3. gl = "upload"
    BY <2>1, <2>2 DEF Next, Render, DrawFrame, RenderLock, RenderPop, RenderCompare,
       RenderWidth, RenderHeight, RenderSetup, RenderUpload, MoveGL, painting
  <2>. QED BY <2>3 DEF SizesInv
<1>2. Init => TypeOK /\ SizesInv
  BY InitType, InitSizes
<1>3. TypeOK /\ SizesInv /\ [Next]_vars => (TypeOK /\ SizesInv)'
  BY NextType, NextSizes
<1>. QED BY <1>1, <1>2, <1>3, PTL DEF Spec, NoOverrun

(***************************************************************************)
(* The sessions: a thread holds a picture exactly between the decoder and  *)
(* the list, what is in the decoder or was refused has been read, and a    *)
(* session that is done has nothing left in its decoder.                   *)
(***************************************************************************)
Holding(s) == hand[s] # 0 <=> pc[s] \in {"lock", "push"}
Read(s) ==
    /\ nread[s] <= Len(clip[s].pts)
    /\ decoder[s] \subseteq 1 .. nread[s] /\ lost[s] \subseteq 1 .. nread[s]
    /\ decoder[s] \intersect lost[s] = {}
    /\ hand[s] # 0 => hand[s] \in 1 .. nread[s] /\ hand[s] \notin decoder[s] \union lost[s]
Ended(s) ==
    /\ draining[s] => nread[s] = Len(clip[s].pts)
    /\ pc[s] = "done" => draining[s] /\ decoder[s] = {}

SessionsInv ==
    /\ gl \in {"wait", "lock", "pop"} => glframe = NoFrame
    /\ \A s \in Sessions : Holding(s) /\ Read(s) /\ Ended(s)

LEMMA ClipTypes ==
    ASSUME ThreadsOK, NEW s \in Sessions
    PROVE  /\ Len(clip[s].pts) \in Nat /\ DOMAIN clip[s].pts = 1 .. Len(clip[s].pts)
           /\ \A p \in Files(s) : Pts(s, p) \in Nat
           /\ clip[s].size \in Sizes
<1>1. clip[s].pts \in Seq(Nat) /\ clip[s].size \in Sizes
  BY ClipsAssumption DEF ThreadsOK
<1>. QED BY <1>1 DEF Files, Pts

LEMMA InitSessions == Init => SessionsInv
<1>. SUFFICES ASSUME Init PROVE SessionsInv
  OBVIOUS
<1>1. ASSUME NEW s \in Sessions PROVE Holding(s) /\ Read(s) /\ Ended(s)
  <2>1. Len(clip[s].pts) \in Nat
    BY InitThreads, ClipTypes
  <2>. QED BY <2>1 DEF Init, Holding, Read, Ended
<1>. QED BY <1>1 DEF Init, SessionsInv

\* A step of one session does not touch the others.
LEMMA OthersRest ==
    ASSUME TypeOK, NEW s \in Sessions, Session(s), NEW t \in Sessions, t # s
    PROVE  /\ pc'[t] = pc[t] /\ nread'[t] = nread[t] /\ draining'[t] = draining[t]
           /\ decoder'[t] = decoder[t] /\ hand'[t] = hand[t] /\ lost'[t] = lost[t]
<1>. USE DEF TypeOK, ThreadsOK, DecodingOK, Move, decoding
<1>1. pc'[t] = pc[t]
  BY DEF Session, OpenFails, Open, NoPicture, Picture, EndOfFile, FlushPicture, FlushEnds,
     LockFrames, Push, Request
<1>2. CASE OpenFails(s) \/ Open(s) \/ LockFrames(s) \/ Request(s)
  BY <1>1, <1>2 DEF OpenFails, Open, LockFrames, Request
<1>3. CASE NoPicture(s) BY <1>1, <1>3 DEF NoPicture
<1>4. CASE Picture(s) BY <1>1, <1>4 DEF Picture
<1>5. CASE EndOfFile(s) BY <1>1, <1>5 DEF EndOfFile
<1>6. CASE FlushPicture(s) BY <1>1, <1>6 DEF FlushPicture
<1>7. CASE FlushEnds(s) BY <1>1, <1>7 DEF FlushEnds
<1>8. CASE Push(s) BY <1>1, <1>8 DEF Push
<1>. QED BY <1>2, <1>3, <1>4, <1>5, <1>6, <1>7, <1>8 DEF Session

LEMMA StepHolds ==
    ASSUME TypeOK, SessionsInv, NEW s \in Sessions, Session(s)
    PROVE  Holding(s)' /\ Read(s)' /\ Ended(s)'
<1>. USE DEF TypeOK, ThreadsOK, DecodingOK, Move, decoding, Holding, Read, Ended
<1>0. Holding(s) /\ Read(s) /\ Ended(s) /\ clip' = clip /\ Len(clip[s].pts) \in Nat
      /\ DOMAIN clip[s].pts = 1 .. Len(clip[s].pts)
  BY ClipTypes DEF SessionsInv, Session, OpenFails, Open, NoPicture, Picture, EndOfFile,
     FlushPicture, FlushEnds, LockFrames, Push, Request
<1>1. CASE OpenFails(s) \/ Open(s) \/ LockFrames(s) \/ Request(s)
  <2>1. /\ nread' = nread /\ draining' = draining /\ decoder' = decoder /\ hand' = hand
        /\ lost' = lost /\ (pc[s] \in {"lock", "push"} <=> pc'[s] \in {"lock", "push"})
        /\ pc'[s] # "done"
    BY <1>1 DEF OpenFails, Open, LockFrames, Request
  <2>. QED BY <1>0, <2>1
<1>2. CASE NoPicture(s)
  <2>1. /\ nread'[s] = nread[s] + 1 /\ nread[s] + 1 \in DOMAIN clip[s].pts
        /\ \/ lost'[s] = lost[s] \union {nread[s] + 1} /\ decoder'[s] = decoder[s]
           \/ decoder'[s] = decoder[s] \union {nread[s] + 1} /\ lost'[s] = lost[s]
        /\ hand'[s] = hand[s] /\ draining'[s] = draining[s] /\ ~draining[s]
        /\ pc[s] = "next" /\ pc'[s] = "next"
    BY <1>2 DEF NoPicture
  <2>2. nread[s] + 1 \in 1 .. nread[s] + 1 /\ nread[s] + 1 \notin 1 .. nread[s]
        /\ \A p \in 1 .. nread[s] : p \in 1 .. nread[s] + 1
    BY <1>0
  <2>3. nread'[s] <= Len(clip'[s].pts) /\ hand'[s] = 0
    BY <1>0, <2>1
  <2>4. /\ decoder'[s] \subseteq 1 .. nread'[s] /\ lost'[s] \subseteq 1 .. nread'[s]
        /\ decoder'[s] \intersect lost'[s] = {}
    BY <1>0, <2>1, <2>2
  <2>. QED BY <1>0, <2>1, <2>3, <2>4
<1>3. CASE Picture(s)
  <2>1. PICK pic \in Earliest(s, decoder[s] \union {nread[s] + 1}) :
          /\ decoder'[s] = (decoder[s] \union {nread[s] + 1}) \ {pic}
          /\ hand'[s] = pic
    BY <1>3 DEF Picture
  <2>2. /\ nread'[s] = nread[s] + 1 /\ nread[s] + 1 \in DOMAIN clip[s].pts
        /\ lost'[s] = lost[s] /\ draining'[s] = draining[s] /\ ~draining[s]
        /\ pc[s] = "next" /\ pc'[s] = "lock"
    BY <1>3 DEF Picture
  <2>3. pic \in decoder[s] \union {nread[s] + 1} BY <2>1 DEF Earliest
  <2>4. pic \in 1 .. nread[s] + 1 /\ pic \notin lost[s] /\ pic # 0 BY <1>0, <2>3
  <2>. QED BY <1>0, <2>1, <2>2, <2>4
<1>4. CASE EndOfFile(s) BY <1>0, <1>4 DEF EndOfFile
<1>5. CASE FlushPicture(s)
  <2>1. PICK pic \in Earliest(s, decoder[s]) :
          decoder'[s] = decoder[s] \ {pic} /\ hand'[s] = pic
    BY <1>5 DEF FlushPicture
  <2>2. /\ nread'[s] = nread[s] /\ lost'[s] = lost[s] /\ draining'[s] = draining[s]
        /\ pc[s] = "next" /\ pc'[s] = "lock"
    BY <1>5 DEF FlushPicture
  <2>3. pic \in decoder[s] BY <2>1 DEF Earliest
  <2>. QED BY <1>0, <2>1, <2>2, <2>3
<1>6. CASE FlushEnds(s)
  <2>1. /\ lost'[s] = lost[s] \union decoder[s] /\ decoder'[s] = {} /\ draining[s]
        /\ nread'[s] = nread[s] /\ draining'[s] = draining[s] /\ hand'[s] = hand[s]
        /\ pc[s] = "next" /\ pc'[s] = "done"
    BY <1>6 DEF FlushEnds
  <2>. QED BY <1>0, <2>1
<1>7. CASE Push(s) BY <1>0, <1>7 DEF Push
<1>. QED BY <1>1, <1>2, <1>3, <1>4, <1>5, <1>6, <1>7 DEF Session

LEMMA NextSessions ==
    ASSUME TypeOK, Unborn, SessionsInv, [Next]_vars
    PROVE  SessionsInv'
<1>. USE DEF SessionsInv
<1>1. CASE OnClick
  <2>1. UNCHANGED <<clip, decoding, gl, glframe>>
    BY <1>1 DEF OnClick, Click, InitWidth, InitHeight, InitMutex, StartThread, painting
  <2>2. \A s \in Sessions : pc'[s] = pc[s] \/ (pc[s] = "unborn" /\ pc'[s] = "open")
    <3>1. CASE StartThread
      <4>1. clicks' \in Sessions /\ clicks' > clicks /\ pc' = [pc EXCEPT ![clicks'] = "open"]
        BY <3>1, SessionCount DEF StartThread, TypeOK, ThreadsOK, Sessions
      <4>. QED BY <4>1 DEF Unborn, TypeOK, ThreadsOK
    <3>. QED BY <1>1, <3>1 DEF OnClick, Click, InitWidth, InitHeight, InitMutex
  <2>. QED BY <2>1, <2>2 DEF Holding, Read, Ended, decoding
<1>2. ASSUME NEW s \in Sessions, Session(s) PROVE SessionsInv'
  <2>1. UNCHANGED <<clip, gl, glframe>>
    BY <1>2 DEF Session, OpenFails, Open, NoPicture, Picture, EndOfFile, FlushPicture,
       FlushEnds, LockFrames, Push, Request, Move, painting
  <2>2. ASSUME NEW t \in Sessions, t # s PROVE Holding(t)' /\ Read(t)' /\ Ended(t)'
    <3>1. /\ pc'[t] = pc[t] /\ nread'[t] = nread[t] /\ draining'[t] = draining[t]
          /\ decoder'[t] = decoder[t] /\ hand'[t] = hand[t] /\ lost'[t] = lost[t]
      BY <1>2, <2>2, OthersRest
    <3>2. Holding(t) /\ Read(t) /\ Ended(t)
      BY <2>2
    <3>. QED BY <2>1, <3>1, <3>2 DEF Holding, Read, Ended
  <2>. QED BY <1>2, <2>1, <2>2, StepHolds
<1>3. CASE Render
  <2>1. UNCHANGED <<clip, pc, decoding>>
    BY <1>3 DEF Render, DrawFrame, RenderLock, RenderPop, RenderCompare, RenderWidth,
       RenderHeight, RenderSetup, RenderUpload, MoveGL
  <2>2. gl' \in {"wait", "lock", "pop"} => glframe' = NoFrame
    BY <1>3 DEF Render, DrawFrame, RenderLock, RenderPop, RenderCompare, RenderWidth,
       RenderHeight, RenderSetup, RenderUpload, MoveGL, painting
  <2>. QED BY <2>1, <2>2 DEF Holding, Read, Ended, decoding
<1>4. CASE UNCHANGED vars
  BY <1>4 DEF vars, decoding, painting, Holding, Read, Ended
<1>. QED BY <1>1, <1>2, <1>3, <1>4 DEF Next

(***************************************************************************)
(* The line of pictures, as a sequence: who is in it, once, and in which   *)
(* order; and what appending a picture adds.                               *)
(***************************************************************************)
PicsIn(q, s)  == {q[i].pic : i \in {k \in DOMAIN q : q[k].s = s}}
Once(q)       == \A i, j \in DOMAIN q : q[i].s = q[j].s /\ q[i].pic = q[j].pic => i = j
InTurn(q, s)  == \A i, j \in DOMAIN q : i < j /\ q[i].s = s /\ q[j].s = s =>
                     Pts(s, q[i].pic) <= Pts(s, q[j].pic)

LEMMA InPicsIn == \A q, s, x : x \in PicsIn(q, s) <=> \E i \in DOMAIN q : q[i].s = s /\ q[i].pic = x
BY DEF PicsIn

LEMMA Appended ==
    ASSUME NEW q \in Seq(Frames), NEW f \in Frames, NEW r, r = Append(q, f)
    PROVE  /\ r \in Seq(Frames) /\ DOMAIN q = 1 .. Len(q) /\ DOMAIN r = 1 .. Len(q) + 1
           /\ Len(q) \in Nat /\ r[Len(q) + 1] = f /\ \A i \in 1 .. Len(q) : r[i] = q[i]
BY AppendProperties

LEMMA AppendPics ==
    ASSUME NEW q \in Seq(Frames), NEW f \in Frames, NEW r, NEW s \in Sessions, r = Append(q, f)
    PROVE  \A x : x \in PicsIn(r, s) <=> x \in PicsIn(q, s) \/ (f.s = s /\ x = f.pic)
<1>0. \A x : x \in PicsIn(r, s) <=> \E i \in DOMAIN r : r[i].s = s /\ r[i].pic = x
  BY DEF PicsIn
<1>1. ASSUME NEW x \in PicsIn(r, s) PROVE x \in PicsIn(q, s) \/ (f.s = s /\ x = f.pic)
  <2>1. PICK i \in DOMAIN r : r[i].s = s /\ r[i].pic = x
    BY <1>0, <1>1, Zenon
  <2>2. CASE i = Len(q) + 1 BY <2>1, <2>2, Appended
  <2>3. CASE i # Len(q) + 1
    <3>1. i \in DOMAIN q /\ q[i] = r[i] BY <2>3, Appended
    <3>. QED BY <2>1, <3>1, InPicsIn
  <2>. QED BY <2>2, <2>3
<1>2. ASSUME NEW x \in PicsIn(q, s) PROVE x \in PicsIn(r, s)
  <2>1. PICK i \in DOMAIN q : q[i].s = s /\ q[i].pic = x
    BY <1>2, InPicsIn
  <2>2. i \in DOMAIN r /\ r[i] = q[i] BY Appended
  <2>. QED BY <2>1, <2>2, InPicsIn
<1>3. f.s = s => f.pic \in PicsIn(r, s)
  <2>1. Len(q) + 1 \in DOMAIN r /\ r[Len(q) + 1] = f BY Appended
  <2>. QED BY <1>0, <2>1
<1>. QED BY <1>1, <1>2, <1>3

LEMMA AppendOnce ==
    ASSUME NEW q \in Seq(Frames), NEW f \in Frames, NEW r, r = Append(q, f),
           Once(q), f.pic \notin PicsIn(q, f.s)
    PROVE  Once(r)
<1>1. ASSUME NEW i \in DOMAIN r, NEW j \in DOMAIN r, r[i].s = r[j].s, r[i].pic = r[j].pic
      PROVE  i = j
  <2>1. CASE i \in DOMAIN q /\ j \in DOMAIN q BY <1>1, <2>1, Appended DEF Once
  <2>2. CASE i \notin DOMAIN q /\ j \notin DOMAIN q BY <2>2, Appended
  <2>3. CASE i \in DOMAIN q /\ j \notin DOMAIN q
    <3>1. r[j] = f /\ r[i] = q[i] BY <2>3, Appended
    <3>. QED BY <1>1, <2>3, <3>1, InPicsIn
  <2>4. CASE i \notin DOMAIN q /\ j \in DOMAIN q
    <3>1. r[i] = f /\ r[j] = q[j] BY <2>4, Appended
    <3>. QED BY <1>1, <2>4, <3>1, InPicsIn
  <2>. QED BY <2>1, <2>2, <2>3, <2>4
<1>. QED BY <1>1 DEF Once

LEMMA AppendInTurn ==
    ASSUME NEW q \in Seq(Frames), NEW f \in Frames, NEW r, r = Append(q, f), NEW s \in Sessions,
           InTurn(q, s), f.s = s => \A p \in PicsIn(q, s) : Pts(s, p) <= Pts(s, f.pic)
    PROVE  InTurn(r, s)
<1>1. ASSUME NEW i \in DOMAIN r, NEW j \in DOMAIN r, i < j, r[i].s = s, r[j].s = s
      PROVE  Pts(s, r[i].pic) <= Pts(s, r[j].pic)
  <2>1. i \in DOMAIN q /\ r[i] = q[i] BY <1>1, Appended
  <2>2. CASE j \in DOMAIN q BY <1>1, <2>1, <2>2, Appended DEF InTurn
  <2>3. CASE j \notin DOMAIN q
    <3>1. r[j] = f BY <2>3, Appended
    <3>2. q[i].pic \in PicsIn(q, s) BY <1>1, <2>1, InPicsIn
    <3>. QED BY <1>1, <2>1, <3>1, <3>2
  <2>. QED BY <2>2, <2>3
<1>. QED BY <1>1 DEF InTurn

\* The GL thread moves a picture within the line; only a push adds one.
LEMMA LineParts ==
    ASSUME NEW d \in Seq(Frames), NEW q \in Seq(Frames), NEW f \in Frames
    PROVE  /\ (d \o <<>>) \o q = d \o q /\ (d \o <<>>) \o q \in Seq(Frames)
           /\ (d \o <<f>>) \o q = Append(d, f) \o q /\ (d \o <<f>>) \o q \in Seq(Frames)
           /\ q # <<>> => (d \o <<>>) \o q = (d \o <<Head(q)>>) \o Tail(q)
           /\ (d \o <<>>) \o Append(q, f) = Append((d \o <<>>) \o q, f)
           /\ \A g \in Frames :
                 (d \o <<f>>) \o Append(q, g) = Append((d \o <<f>>) \o q, g)
<1>1. d \o <<>> = d /\ Append(d, f) = d \o <<f>> /\ Append(d, f) \in Seq(Frames)
  BY ConcatEmptySeq, AppendIsConcat, AppendProperties
<1>2. d \o q \in Seq(Frames) /\ Append(d, f) \o q \in Seq(Frames)
  BY <1>1, ConcatProperties
<1>3. ASSUME q # <<>> PROVE d \o q = (d \o <<Head(q)>>) \o Tail(q)
  <2>1. Tail(q) \in Seq(Frames) /\ <<Head(q)>> \in Seq(Frames) /\ q = <<Head(q)>> \o Tail(q)
    BY <1>3
  <2>. QED BY <2>1, ConcatAssociative
<1>4. ASSUME NEW e \in Seq(Frames), NEW g \in Frames PROVE e \o Append(q, g) = Append(e \o q, g)
  <2>1. Append(q, g) = q \o <<g>> /\ <<g>> \in Seq(Frames) BY AppendIsConcat
  <2>2. e \o q \in Seq(Frames) BY ConcatProperties
  <2>3. Append(e \o q, g) = (e \o q) \o <<g>> BY <2>2, AppendIsConcat
  <2>. QED BY <2>1, <2>3, ConcatAssociative
<1>5. (d \o <<>>) \o Append(q, f) = Append((d \o <<>>) \o q, f)
  BY <1>1, <1>4
<1>6. ASSUME NEW g \in Frames PROVE (d \o <<f>>) \o Append(q, g) = Append((d \o <<f>>) \o q, g)
  <2>1. d \o <<f>> \in Seq(Frames) BY <1>1
  <2>. QED BY <2>1, <1>4
<1>. QED BY <1>1, <1>2, <1>3, <1>5, <1>6

GLPart == IF glframe = NoFrame THEN <<>> ELSE <<glframe>>

LEMMA LineIs ==
    /\ Line = (drawn \o GLPart) \o frames /\ Line' = (drawn' \o GLPart') \o frames'
    /\ glframe = NoFrame => GLPart = <<>>
    /\ glframe # NoFrame => GLPart = <<glframe>>
    /\ glframe' = NoFrame => GLPart' = <<>>
    /\ glframe' # NoFrame => GLPart' = <<glframe'>>
BY DEF Line, GLPart

LEMMA NoFrameIsNone == \A f \in Frames : f # NoFrame
BY DEF Frames, NoFrame, Sessions

LEMMA LineType == ASSUME TypeOK PROVE Line \in Seq(Frames)
<1>1. drawn \in Seq(Frames) /\ frames \in Seq(Frames) /\ glframe \in Frames \union {NoFrame}
  BY DEF TypeOK, ScreenOK
<1>2. CASE glframe = NoFrame
  <2>1. drawn \o <<>> = drawn BY <1>1, ConcatEmptySeq
  <2>. QED BY <1>1, <1>2, <2>1, LineIs, ConcatProperties
<1>3. CASE glframe \in Frames
  BY <1>1, <1>3, LineParts, LineIs, NoFrameIsNone
<1>. QED BY <1>1, <1>2, <1>3

LEMMA LineStays ==
    ASSUME TypeOK, SessionsInv, Next, ~raced', \A s \in Sessions : ~Push(s)
    PROVE  Line' = Line
<1>1. drawn \in Seq(Frames) /\ frames \in Seq(Frames) /\ glframe \in Frames \union {NoFrame}
  BY DEF TypeOK, ScreenOK
<1>2. CASE RenderPop /\ frames # <<>>
  <2>1. /\ glframe = NoFrame /\ drawn' = drawn /\ frames' = Tail(frames)
        /\ glframe' = Head(frames) /\ Head(frames) \in Frames
    BY <1>1, <1>2 DEF RenderPop, MoveGL, ListOp, PopFront, SessionsInv
  <2>2. (drawn \o <<>>) \o frames = (drawn \o <<Head(frames)>>) \o Tail(frames)
    BY <1>1, <1>2, <2>1, LineParts
  <2>. QED BY <2>1, <2>2, LineIs, NoFrameIsNone
<1>3. CASE RenderUpload
  <2>1. /\ glframe \in Frames /\ drawn' = Append(drawn, glframe) /\ frames' = frames
        /\ glframe' = NoFrame /\ drawn' \in Seq(Frames)
    BY <1>1, <1>3, AppendProperties DEF RenderUpload, MoveGL, TypeOK, ScreenOK
  <2>2. (drawn \o <<glframe>>) \o frames = Append(drawn, glframe) \o frames
    BY <1>1, <2>1, LineParts
  <2>3. (drawn' \o <<>>) \o frames = drawn' \o frames
    BY <1>1, <2>1, LineParts
  <2>. QED BY <2>1, <2>2, <2>3, LineIs, NoFrameIsNone
<1>4. CASE UNCHANGED <<drawn, glframe, frames>>
  BY <1>4 DEF Line
<1>5. CASE OnClick
  BY <1>4, <1>5 DEF OnClick, Click, InitWidth, InitHeight, InitMutex, StartThread, painting
<1>6. ASSUME NEW s \in Sessions, Session(s) PROVE Line' = Line
  BY <1>4, <1>6 DEF Session, OpenFails, Open, NoPicture, Picture, EndOfFile, FlushPicture,
     FlushEnds, LockFrames, Request, Move, painting
<1>7. CASE RenderPop /\ frames = <<>>
  BY <1>4, <1>7 DEF RenderPop, ListOp
<1>8. CASE Render
  BY <1>2, <1>3, <1>4, <1>7, <1>8 DEF Render, DrawFrame, RenderLock, RenderCompare,
     RenderWidth, RenderHeight, RenderSetup, painting
<1>. QED BY <1>5, <1>6, <1>8 DEF Next

LEMMA LineGrows ==
    ASSUME TypeOK, ~raced', NEW s \in Sessions, Push(s)
    PROVE  \E f \in Frames : f.s = s /\ f.pic = hand[s] /\ Line' = Append(Line, f)
<1>1. drawn \in Seq(Frames) /\ frames \in Seq(Frames) /\ glframe \in Frames \union {NoFrame}
  BY DEF TypeOK, ScreenOK
<1> DEFINE f == [s |-> s, pic |-> hand[s], size |-> clip[s].size]
<1>2. f \in Frames /\ f.s = s /\ f.pic = hand[s]
  BY ClipTypes DEF TypeOK, DecodingOK, Frames
<1>3. frames' = Append(frames, f) /\ drawn' = drawn /\ glframe' = glframe
  BY DEF Push, Move, ListOp, PushBack, painting
<1> HIDE DEF f
<1>4. Line' = Append(Line, f)
  <2>1. CASE glframe = NoFrame
    <3>1. Line = (drawn \o <<>>) \o frames /\ Line' = (drawn \o <<>>) \o Append(frames, f)
      BY <1>3, <2>1, LineIs
    <3>. QED BY <1>1, <1>2, <3>1, LineParts
  <2>2. CASE glframe \in Frames
    <3>1. /\ Line = (drawn \o <<glframe>>) \o frames
          /\ Line' = (drawn \o <<glframe>>) \o Append(frames, f)
      BY <1>3, <2>2, LineIs, NoFrameIsNone
    <3>. QED BY <1>1, <1>2, <2>2, <3>1, LineParts
  <2>. QED BY <1>1, <2>1, <2>2
<1>. QED BY <1>2, <1>4

LEMMA RaceStays == ASSUME Next, ~raced' PROVE ~raced
BY DEF Next, OnClick, Session, Render, Click, InitWidth, InitHeight, InitMutex, StartThread,
   OpenFails, Open, NoPicture, Picture, EndOfFile, FlushPicture, FlushEnds, LockFrames, Push,
   Request, DrawFrame, RenderLock, RenderPop, RenderCompare, RenderWidth, RenderHeight,
   RenderSetup, RenderUpload, ListOp, hazards

(***************************************************************************)
(* What a session has read is in its decoder, refused, in the line or in   *)
(* its hand.                                                               *)
(***************************************************************************)
Delivered(s) == (1 .. nread[s]) \ (decoder[s] \union lost[s])
Placed(s)    == /\ PicsIn(Line, s) \union InHand(s) = Delivered(s)
                /\ hand[s] \notin PicsIn(Line, s)

LEMMA Conserves ==
    /\ PicturesConserved <=> (~raced => (\A s \in Sessions : Placed(s)) /\ Once(Line))
    /\ PicturesConserved' <=> (~raced' => (\A s \in Sessions : Placed(s)') /\ Once(Line'))
BY DEF PicturesConserved, Placed, Delivered, Sent, PicsIn, Once

LEMMA PlacedNext ==
    ASSUME NEW s
    PROVE  Placed(s)' <=> /\ PicsIn(Line', s) \union ({hand'[s]} \ {0})
                                = (1 .. nread'[s]) \ (decoder'[s] \union lost'[s])
                          /\ hand'[s] \notin PicsIn(Line', s)
BY DEF Placed, Delivered, InHand, PicsIn

\* A step that leaves the line alone.
LEMMA StepPlaces ==
    ASSUME TypeOK, SessionsInv, NEW s \in Sessions, Session(s), ~Push(s), Placed(s), Line' = Line
    PROVE  Placed(s)'
<1>. DEFINE P == PicsIn(Line, s)
<1>. USE DEF TypeOK, ThreadsOK, DecodingOK, Move, decoding
<1>0. /\ P \union ({hand[s]} \ {0}) = (1 .. nread[s]) \ (decoder[s] \union lost[s])
      /\ hand[s] \notin P /\ Holding(s) /\ Read(s) /\ nread[s] \in Nat
  BY DEF Placed, Delivered, InHand, SessionsInv
<1>. SUFFICES /\ P \union ({hand'[s]} \ {0}) = (1 .. nread'[s]) \ (decoder'[s] \union lost'[s])
              /\ hand'[s] \notin P
  BY PlacedNext
<1>. HIDE DEF P
<1>1. CASE OpenFails(s) \/ Open(s) \/ EndOfFile(s) \/ LockFrames(s) \/ Request(s)
  <2>1. UNCHANGED <<nread, decoder, hand, lost>>
    BY <1>1 DEF OpenFails, Open, EndOfFile, LockFrames, Request
  <2>. QED BY <1>0, <2>1
<1>2. 1 .. nread[s] + 1 = (1 .. nread[s]) \union {nread[s] + 1}
      /\ nread[s] + 1 \notin 1 .. nread[s] /\ nread[s] + 1 # 0 /\ 0 \notin 1 .. nread[s]
  BY <1>0
<1>3. CASE NoPicture(s)
  <2>1. /\ nread'[s] = nread[s] + 1
        /\ decoder'[s] \union lost'[s] = (decoder[s] \union lost[s]) \union {nread[s] + 1}
        /\ hand'[s] = hand[s]
    BY <1>3 DEF NoPicture
  <2>. QED BY <1>0, <1>2, <2>1
<1>4. CASE Picture(s)
  <2>1. PICK pic \in Earliest(s, decoder[s] \union {nread[s] + 1}) :
          /\ decoder'[s] = (decoder[s] \union {nread[s] + 1}) \ {pic}
          /\ hand'[s] = pic
    BY <1>4 DEF Picture
  <2>2. /\ nread'[s] = nread[s] + 1 /\ lost'[s] = lost[s] /\ hand[s] = 0
    BY <1>0, <1>4 DEF Picture, Holding
  <2>3. pic \in decoder[s] \union {nread[s] + 1} BY <2>1 DEF Earliest
  <2>4. /\ decoder[s] \subseteq 1 .. nread[s] /\ lost[s] \subseteq 1 .. nread[s]
        /\ decoder[s] \intersect lost[s] = {}
    BY <1>0 DEF Read
  <2>5. P = (1 .. nread[s]) \ (decoder[s] \union lost[s]) BY <1>0, <2>2
  <2>6. pic \notin P /\ pic # 0 BY <1>2, <2>3, <2>4, <2>5
  <2>7. P \union {pic} = (1 .. nread'[s]) \ (decoder'[s] \union lost'[s])
    BY <1>2, <2>1, <2>2, <2>3, <2>4, <2>5
  <2>. QED BY <2>1, <2>6, <2>7
<1>5. CASE FlushPicture(s)
  <2>1. PICK pic \in Earliest(s, decoder[s]) :
          decoder'[s] = decoder[s] \ {pic} /\ hand'[s] = pic
    BY <1>5 DEF FlushPicture
  <2>2. /\ nread'[s] = nread[s] /\ lost'[s] = lost[s] /\ hand[s] = 0
    BY <1>0, <1>5 DEF FlushPicture, Holding
  <2>3. pic \in decoder[s] BY <2>1 DEF Earliest
  <2>4. /\ decoder[s] \subseteq 1 .. nread[s] /\ decoder[s] \intersect lost[s] = {}
    BY <1>0 DEF Read
  <2>5. P = (1 .. nread[s]) \ (decoder[s] \union lost[s]) BY <1>0, <2>2
  <2>6. pic \notin P /\ pic # 0 BY <1>2, <2>3, <2>4, <2>5
  <2>7. P \union {pic} = (1 .. nread'[s]) \ (decoder'[s] \union lost'[s])
    BY <2>1, <2>2, <2>3, <2>4, <2>5
  <2>. QED BY <2>1, <2>6, <2>7
<1>6. CASE FlushEnds(s)
  <2>1. /\ decoder'[s] \union lost'[s] = decoder[s] \union lost[s]
        /\ nread'[s] = nread[s] /\ hand'[s] = hand[s]
    BY <1>6 DEF FlushEnds
  <2>. QED BY <1>0, <2>1
<1>. QED BY <1>1, <1>3, <1>4, <1>5, <1>6 DEF Session

LEMMA NextConserved ==
    ASSUME TypeOK, SessionsInv, PicturesConserved, Next
    PROVE  PicturesConserved'
<1>. SUFFICES ASSUME ~raced' PROVE (\A s \in Sessions : Placed(s)') /\ Once(Line')
  BY Conserves
<1>0. ~raced /\ (\A s \in Sessions : Placed(s)) /\ Once(Line) /\ Line \in Seq(Frames)
  BY RaceStays, Conserves, LineType
<1>1. CASE OnClick \/ Render
  <2>1. \A s \in Sessions : hand'[s] = hand[s] /\ nread'[s] = nread[s]
                            /\ decoder'[s] = decoder[s] /\ lost'[s] = lost[s]
    BY <1>1 DEF OnClick, Click, InitWidth, InitHeight, InitMutex, StartThread, Render, DrawFrame,
       RenderLock, RenderPop, RenderCompare, RenderWidth, RenderHeight, RenderSetup,
       RenderUpload, MoveGL, decoding
  <2>3. \A s \in Sessions : ~Push(s)
    <3>1. CASE OnClick
      BY <3>1 DEF OnClick, Click, InitWidth, InitHeight, InitMutex, StartThread, Push, Move
    <3>2. CASE Render
      BY <3>2 DEF Render, DrawFrame, RenderLock, RenderPop, RenderCompare,
         RenderWidth, RenderHeight, RenderSetup, RenderUpload, MoveGL, Push, Move, TypeOK, ThreadsOK
    <3>. QED BY <1>1, <3>1, <3>2
  <2>4. Line' = Line BY <2>3, LineStays
  <2>5. ASSUME NEW s \in Sessions PROVE Placed(s)'
    <3>1. Placed(s) BY <1>0
    <3>. QED BY <2>1, <2>4, <3>1, PlacedNext DEF Placed, Delivered, InHand
  <2>. QED BY <1>0, <2>4, <2>5
<1>2. ASSUME NEW s \in Sessions, Push(s) PROVE (\A t \in Sessions : Placed(t)') /\ Once(Line')
  <2>1. PICK f \in Frames : f.s = s /\ f.pic = hand[s] /\ Line' = Append(Line, f)
    BY <1>2, LineGrows
  <2>2. Placed(s) /\ hand[s] # 0 /\ nread[s] \in Nat
    BY <1>0, <1>2 DEF SessionsInv, Holding, Push, Move, TypeOK, DecodingOK
  <2>3. Once(Line')
    BY <1>0, <2>1, <2>2, AppendOnce DEF Placed
  <2>4. Placed(s)'
    <3>1. /\ hand'[s] = 0 /\ nread'[s] = nread[s] /\ decoder'[s] = decoder[s]
          /\ lost'[s] = lost[s]
      BY <1>2 DEF Push, TypeOK, DecodingOK
    <3>2. PicsIn(Line', s) = PicsIn(Line, s) \union {hand[s]}
      BY <1>0, <2>1, AppendPics
    <3>3. PicsIn(Line, s) \union {hand[s]} = Delivered(s)
      BY <2>2 DEF Placed, InHand
    <3>4. 0 \notin Delivered(s)
      BY <2>2 DEF Delivered
    <3>. QED BY <3>1, <3>2, <3>3, <3>4, PlacedNext DEF Delivered
  <2>5. ASSUME NEW t \in Sessions, t # s PROVE Placed(t)'
    <3>1. PicsIn(Line', t) = PicsIn(Line, t)
      <4>1. \A x : x \in PicsIn(Line', t) <=> x \in PicsIn(Line, t) \/ (f.s = t /\ x = f.pic)
        BY <1>0, <2>1, AppendPics
      <4>. QED BY <2>1, <2>5, <4>1
    <3>2. /\ nread'[t] = nread[t] /\ decoder'[t] = decoder[t] /\ hand'[t] = hand[t]
          /\ lost'[t] = lost[t]
      BY <1>2, <2>5, OthersRest DEF Session
    <3>3. Placed(t) BY <1>0
    <3>. QED BY <3>1, <3>2, <3>3, PlacedNext DEF Placed, Delivered, InHand
  <2>. QED BY <2>3, <2>4, <2>5
<1>3. ASSUME NEW s \in Sessions, Session(s), ~Push(s)
      PROVE  (\A t \in Sessions : Placed(t)') /\ Once(Line')
  <2>1. CASE \A t \in Sessions : ~Push(t)
    <3>1. Line' = Line BY <2>1, LineStays
    <3>2. Placed(s)' BY <1>0, <1>3, <3>1, StepPlaces
    <3>3. ASSUME NEW t \in Sessions, t # s PROVE Placed(t)'
      <4>1. /\ nread'[t] = nread[t] /\ decoder'[t] = decoder[t] /\ hand'[t] = hand[t]
            /\ lost'[t] = lost[t]
        BY <1>3, <3>3, OthersRest
      <4>2. Placed(t) BY <1>0
      <4>. QED BY <3>1, <4>1, <4>2, PlacedNext DEF Placed, Delivered, InHand
    <3>. QED BY <1>0, <3>1, <3>2, <3>3
  <2>. QED BY <1>2, <2>1
<1>. QED BY <1>1, <1>2, <1>3 DEF Next

LEMMA InitLine == Init => Line = <<>> /\ (\A s : PicsIn(Line, s) = {}) /\ DOMAIN Line = {}
<1>. SUFFICES ASSUME Init PROVE Line = <<>> /\ (\A s : PicsIn(Line, s) = {}) /\ DOMAIN Line = {}
  OBVIOUS
<1>1. GLPart = <<>> /\ drawn = <<>> /\ frames = <<>> BY DEF Init, GLPart
<1>2. Line = <<>> BY <1>1, LineIs, ConcatEmptySeq, EmptySeq
<1>. QED BY <1>2 DEF PicsIn

LEMMA InitConserved == Init => PicturesConserved
<1>. SUFFICES ASSUME Init PROVE PicturesConserved
  OBVIOUS
<1>1. \A s \in Sessions : nread[s] = 0 /\ decoder[s] = {} /\ lost[s] = {} /\ hand[s] = 0
  BY DEF Init
<1>2. \A s \in Sessions : Placed(s) BY <1>1, InitLine DEF Placed, Delivered, InHand
<1>3. Once(Line) BY InitLine DEF Once
<1>. QED BY <1>2, <1>3, Conserves

ConservedInv == TypeOK /\ HoldersInv /\ SessionsInv /\ PicturesConserved

LEMMA ConservedInvariant == Spec => []ConservedInv
<1>1. Init => ConservedInv
  BY InitType, InitHolders, InitSessions, InitConserved DEF ConservedInv
<1>2. ConservedInv /\ [Next]_vars => ConservedInv'
  <2>. SUFFICES ASSUME ConservedInv, [Next]_vars PROVE ConservedInv'
    OBVIOUS
  <2>1. TypeOK' /\ HoldersInv' /\ SessionsInv'
    BY NextType, NextHolders, NextSessions DEF ConservedInv, HoldersInv, TypeOK
  <2>2. CASE Next BY <2>1, <2>2, NextConserved DEF ConservedInv
  <2>3. CASE UNCHANGED vars
    <3>1. UNCHANGED <<Line, hand, nread, decoder, lost, raced>>
      BY <2>3 DEF Line, vars, decoding, painting, hazards
    <3>2. PicturesConserved' BY <3>1 DEF ConservedInv, PicturesConserved, Sent, InHand
    <3>. QED BY <2>1, <3>2 DEF ConservedInv
  <2>. QED BY <2>2, <2>3
<1>. QED BY <1>1, <1>2, PTL DEF Spec

\* However many sessions share the list, no picture is dropped or drawn twice:
\* what a session has read is in its decoder, was refused, is in its hand or
\* stands once in the line that ends on the screen.
THEOREM NoPictureLost == Spec => []PicturesConserved
<1>1. ConservedInv => PicturesConserved
  BY DEF ConservedInv
<1>. QED BY <1>1, ConservedInvariant, PTL

\* A session that is done has delivered every picture of its file that the
\* decoder did not refuse: the flush loop leaves none behind.
THEOREM FlushLeavesNone == Spec => []FlushComplete
<1>1. ConservedInv => FlushComplete
  <2>. SUFFICES ASSUME ConservedInv, NEW s \in Sessions, pc[s] = "done", ~raced
                PROVE  Sent(s) = Files(s) \ lost[s]
    BY DEF FlushComplete
  <2>1. nread[s] = Len(clip[s].pts) /\ decoder[s] = {} /\ hand[s] = 0
    BY DEF ConservedInv, SessionsInv, Ended, Holding
  <2>2. Files(s) = 1 .. nread[s]
    BY <2>1, ClipTypes DEF ConservedInv, TypeOK, Files
  <2>3. Sent(s) \union InHand(s) = (1 .. nread[s]) \ (decoder[s] \union lost[s])
    BY DEF ConservedInv, PicturesConserved
  <2>. QED BY <2>1, <2>2, <2>3 DEF InHand
<1>. QED BY <1>1, ConservedInvariant, PTL

(***************************************************************************)
(* The order of the pictures of one session.  Those still to leave the     *)
(* decoder, or to come to it, are not earlier than those that have left.   *)
(***************************************************************************)
Waiting(s) == decoder[s] \union {p \in Files(s) : p > nread[s]}

Before(s) ==
    /\ InTurn(Line, s)
    /\ \A p \in PicsIn(Line, s) : \A q \in InHand(s) : Pts(s, p) <= Pts(s, q)
    /\ \A p \in PicsIn(Line, s) \union InHand(s) : \A q \in Waiting(s) : Pts(s, p) <= Pts(s, q)

OrderInv == ~raced => \A s \in Sessions : Reorderable(s) => Before(s)

LEMMA OrderSays == OrderInv => PicturesInOrder
BY DEF OrderInv, Before, PicturesInOrder, InTurn, Sent, PicsIn

LEMMA ClipFixed ==
    ASSUME clip' = clip, NEW s \in Sessions
    PROVE  /\ \A p : Pts(s, p)' = Pts(s, p)
           /\ Files(s)' = Files(s)
           /\ Reorderable(s)' <=> Reorderable(s)
BY DEF Pts, Files, Reorderable

LEMMA ClipStays == ASSUME Next PROVE clip' = clip
BY DEF Next, OnClick, Session, Render, Click, InitWidth, InitHeight, InitMutex, StartThread,
   OpenFails, Open, NoPicture, Picture, EndOfFile, FlushPicture, FlushEnds, LockFrames, Push,
   Request, DrawFrame, RenderLock, RenderPop, RenderCompare, RenderWidth, RenderHeight,
   RenderSetup, RenderUpload, Move, MoveGL

LEMMA BeforeNext ==
    ASSUME clip' = clip, NEW s \in Sessions
    PROVE  Before(s)' <=>
             /\ InTurn(Line', s)
             /\ \A p \in PicsIn(Line', s) : \A q \in {hand'[s]} \ {0} : Pts(s, p) <= Pts(s, q)
             /\ \A p \in PicsIn(Line', s) \union ({hand'[s]} \ {0}) :
                  \A q \in decoder'[s] \union {x \in Files(s) : x > nread'[s]} :
                     Pts(s, p) <= Pts(s, q)
BY DEF Before, InTurn, PicsIn, InHand, Waiting, Pts, Files

\* Nothing of the session moves out of the decoder or into the line.
LEMMA StillBefore ==
    ASSUME clip' = clip, NEW s \in Sessions, Before(s), Line' = Line, hand'[s] = hand[s],
           decoder'[s] \subseteq Waiting(s), nread'[s] \in Nat, nread[s] \in Nat,
           nread'[s] >= nread[s], DOMAIN clip[s].pts \subseteq Nat
    PROVE  Before(s)'
<1>1. \A q \in decoder'[s] \union {x \in Files(s) : x > nread'[s]} : q \in Waiting(s)
  <2>1. \A x \in Files(s) : x > nread'[s] => x > nread[s]
    BY DEF Files
  <2>. QED BY <2>1 DEF Waiting
<1>. QED BY <1>1, BeforeNext DEF Before, InHand

\* A decoder that keeps back enough pictures does not give one away before its
\* turn: a later packet that comes earlier on the time line would have to
\* overtake more of them than the file reorders.
LEMMA TurnOfPicture ==
    ASSUME TypeOK, NEW s \in Sessions, Read(s), Reorderable(s), Picture(s),
           NEW pic \in Earliest(s, decoder[s] \union {nread[s] + 1}),
           NEW q \in Waiting(s)
    PROVE  Pts(s, pic) <= Pts(s, q)
<1>. DEFINE p == nread[s] + 1
           D == decoder[s] \union {p}
<1>1. /\ p \in DOMAIN clip[s].pts /\ Cardinality(decoder[s]) >= Delay /\ nread[s] \in Nat
      /\ Len(clip[s].pts) \in Nat /\ DOMAIN clip[s].pts = 1 .. Len(clip[s].pts)
      /\ \A x \in Files(s) : Pts(s, x) \in Nat
  BY ClipTypes DEF TypeOK, DecodingOK, Picture
<1>2. D \subseteq Files(s) /\ D \subseteq 1 .. p /\ p \notin decoder[s]
  BY <1>1 DEF Read, Files
<1>3. CASE q \in D BY <1>3 DEF Earliest
<1>4. CASE q \notin D
  <2>1. q \in Files(s) /\ q \in Nat /\ q > p BY <1>1, <1>4 DEF Waiting, Files
  <2>. SUFFICES ASSUME ~(Pts(s, pic) <= Pts(s, q)) PROVE FALSE
    OBVIOUS
  <2>2. pic \in D /\ \A x \in D : Pts(s, pic) <= Pts(s, x) BY DEF Earliest
  <2>3. \A x \in D : Pts(s, x) > Pts(s, q)
    <3>1. Pts(s, pic) \in Nat /\ Pts(s, q) \in Nat /\ \A x \in D : Pts(s, x) \in Nat
      BY <1>1, <1>2, <2>1, <2>2
    <3>. HIDE DEF D
    <3>. QED BY <2>2, <3>1
  <2>. DEFINE Later == {x \in 1 .. q - 1 : Pts(s, x) > Pts(s, q)}
  <2>4. D \subseteq Later
    <3>1. \A x \in D : x \in 1 .. q - 1 BY <1>1, <1>2, <2>1
    <3>. QED BY <2>3, <3>1
  <2>5. IsFiniteSet(Later) /\ Cardinality(Later) <= Delay
    <3>1. IsFiniteSet(1 .. q - 1) BY <2>1, FS_Interval
    <3>2. IsFiniteSet(Later) BY <3>1, FS_Subset
    <3>. QED BY <2>1, <3>2 DEF Reorderable
  <2>6. IsFiniteSet(decoder[s])
    <3>1. IsFiniteSet(1 .. nread[s]) BY <1>1, FS_Interval
    <3>. QED BY <3>1, FS_Subset DEF Read
  <2>7. Cardinality(D) = Cardinality(decoder[s]) + 1 /\ Cardinality(decoder[s]) \in Nat
    BY <1>2, <2>6, FS_AddElement, FS_CardinalityType
  <2>8. Cardinality(D) <= Cardinality(Later) /\ Cardinality(Later) \in Nat
    BY <2>4, <2>5, FS_Subset, FS_CardinalityType
  <2>. QED BY <1>1, <2>5, <2>7, <2>8, BoundsAssumption
<1>. QED BY <1>3, <1>4

\* A picture leaves the decoder, in the decoding loop or in the flush loop.
LEMMA PictureOut ==
    ASSUME TypeOK, SessionsInv, NEW s \in Sessions, Reorderable(s), Before(s), Line' = Line,
           Picture(s) \/ FlushPicture(s)
    PROVE  Before(s)'
<1>1. clip' = clip /\ hand[s] = 0 /\ nread[s] \in Nat /\ Read(s)
      /\ DOMAIN clip[s].pts = 1 .. Len(clip[s].pts) /\ Len(clip[s].pts) \in Nat
  BY ClipTypes DEF Picture, FlushPicture, Move, SessionsInv, Holding, TypeOK, DecodingOK
<1>2. \E pic \in Waiting(s) :
         /\ \A q \in Waiting(s) : Pts(s, pic) <= Pts(s, q)
         /\ hand'[s] = pic
         /\ \A q \in decoder'[s] \union {x \in Files(s) : x > nread'[s]} : q \in Waiting(s)
  <2>1. CASE Picture(s)
    <3>1. PICK pic \in Earliest(s, decoder[s] \union {nread[s] + 1}) :
            /\ decoder'[s] = (decoder[s] \union {nread[s] + 1}) \ {pic}
            /\ hand'[s] = pic
      BY <2>1 DEF Picture, TypeOK, DecodingOK
    <3>2. nread'[s] = nread[s] + 1 /\ nread[s] + 1 \in Files(s)
      BY <2>1 DEF Picture, TypeOK, DecodingOK, Files
    <3>3. nread[s] + 1 \in Waiting(s) /\ decoder[s] \subseteq Waiting(s)
      BY <1>1, <3>2 DEF Waiting
    <3>4. pic \in Waiting(s) BY <3>3 DEF Earliest
    <3>5. \A q \in Waiting(s) : Pts(s, pic) <= Pts(s, q)
      BY <1>1, <2>1, TurnOfPicture
    <3>6. \A x \in Files(s) : x > nread'[s] => x \in Waiting(s)
      BY <1>1, <3>2 DEF Waiting, Files
    <3>. QED BY <3>1, <3>3, <3>4, <3>5, <3>6
  <2>2. CASE FlushPicture(s)
    <3>1. PICK pic \in Earliest(s, decoder[s]) :
            decoder'[s] = decoder[s] \ {pic} /\ hand'[s] = pic
      BY <2>2 DEF FlushPicture, TypeOK, DecodingOK
    <3>2. nread'[s] = nread[s] /\ nread[s] = Len(clip[s].pts)
      BY <2>2 DEF FlushPicture, SessionsInv, Ended
    <3>3. Waiting(s) = decoder[s] BY <1>1, <3>2 DEF Waiting, Files
    <3>4. {x \in Files(s) : x > nread'[s]} = {} BY <1>1, <3>2 DEF Files
    <3>. QED BY <3>1, <3>3, <3>4 DEF Earliest
  <2>. QED BY <2>1, <2>2
<1>3. PICK pic \in Waiting(s) :
         /\ \A q \in Waiting(s) : Pts(s, pic) <= Pts(s, q)
         /\ hand'[s] = pic
         /\ \A q \in decoder'[s] \union {x \in Files(s) : x > nread'[s]} : q \in Waiting(s)
  BY <1>2
<1>. QED BY <1>1, <1>3, BeforeNext DEF Before

\* The picture in the hand enters the line.
LEMMA PictureIn ==
    ASSUME TypeOK, SessionsInv, ~raced', NEW s \in Sessions, Push(s), Before(s)
    PROVE  Before(s)'
<1>1. PICK f \in Frames : f.s = s /\ f.pic = hand[s] /\ Line' = Append(Line, f)
  BY LineGrows
<1>2. clip' = clip /\ hand[s] # 0 /\ hand'[s] = 0 /\ decoder'[s] = decoder[s] /\ nread'[s] = nread[s]
  BY DEF Push, Move, SessionsInv, Holding, TypeOK, DecodingOK
<1>3. Line \in Seq(Frames) BY LineType
<1>4. \A x : x \in PicsIn(Line', s) <=> x \in PicsIn(Line, s) \/ x = hand[s]
  BY <1>1, <1>3, AppendPics
<1>5. hand[s] \in InHand(s) BY <1>2 DEF InHand
<1>6. InTurn(Line', s)
  <2>1. \A p \in PicsIn(Line, s) : Pts(s, p) <= Pts(s, f.pic) BY <1>1, <1>5 DEF Before
  <2>2. InTurn(Line, s) BY DEF Before
  <2>. QED BY <1>1, <1>3, <2>1, <2>2, AppendInTurn
<1>7. \A p \in PicsIn(Line', s) : p \in PicsIn(Line, s) \union InHand(s) BY <1>4, <1>5
<1>8. decoder'[s] \union {x \in Files(s) : x > nread'[s]} = Waiting(s) BY <1>2 DEF Waiting
<1>. QED BY <1>2, <1>6, <1>7, <1>8, BeforeNext DEF Before

\* Another session enters a picture in the line.
LEMMA OtherIn ==
    ASSUME TypeOK, ~raced', NEW s \in Sessions, Push(s), NEW t \in Sessions, t # s, Before(t)
    PROVE  Before(t)'
<1>1. PICK f \in Frames : f.s = s /\ f.pic = hand[s] /\ Line' = Append(Line, f)
  BY LineGrows
<1>2. clip' = clip /\ hand'[t] = hand[t] /\ decoder'[t] = decoder[t] /\ nread'[t] = nread[t]
  BY OthersRest DEF Push, Move, Session
<1>3. Line \in Seq(Frames) BY LineType
<1>4. \A x : x \in PicsIn(Line', t) <=> x \in PicsIn(Line, t)
  BY <1>1, <1>3, AppendPics
<1>5. InTurn(Line', t)
  <2>1. InTurn(Line, t) BY DEF Before
  <2>. QED BY <1>1, <1>3, <2>1, AppendInTurn
<1>. QED BY <1>2, <1>4, <1>5, BeforeNext DEF Before, Waiting, InHand

LEMMA NextOrder == ASSUME TypeOK, SessionsInv, OrderInv, Next PROVE OrderInv'
<1>1. clip' = clip BY ClipStays
<1>. SUFFICES ASSUME ~raced', NEW t \in Sessions, Reorderable(t) PROVE Before(t)'
  BY <1>1, ClipFixed DEF OrderInv
<1>2. Before(t) /\ nread[t] \in Nat /\ DOMAIN clip[t].pts \subseteq Nat
  BY RaceStays, ClipTypes DEF OrderInv, TypeOK, DecodingOK
<1>3. CASE \E s \in Sessions : Push(s)
  BY <1>2, <1>3, PictureIn, OtherIn
<1>4. CASE \A s \in Sessions : ~Push(s)
  <2>1. Line' = Line BY <1>4, LineStays
  <2>2. CASE Picture(t) \/ FlushPicture(t) BY <1>2, <2>1, <2>2, PictureOut
  <2>3. CASE ~Picture(t) /\ ~FlushPicture(t)
    <3>1. /\ hand'[t] = hand[t] /\ nread'[t] \in Nat /\ nread'[t] >= nread[t]
          /\ decoder'[t] \subseteq Waiting(t)
      <4>1. CASE OnClick \/ Render
        <5>1. decoding' = decoding
          BY <4>1 DEF OnClick, Click, InitWidth, InitHeight, InitMutex, StartThread, Render,
             DrawFrame, RenderLock, RenderPop, RenderCompare, RenderWidth, RenderHeight,
             RenderSetup, RenderUpload, MoveGL
        <5>. QED BY <1>2, <5>1 DEF decoding, Waiting
      <4>2. CASE Session(t)
        <5>1. CASE NoPicture(t)
          <6>1. /\ hand'[t] = hand[t] /\ nread'[t] = nread[t] + 1 /\ nread[t] + 1 \in Files(t)
                /\ decoder'[t] \subseteq decoder[t] \union {nread[t] + 1}
            BY <5>1 DEF NoPicture, TypeOK, DecodingOK, Files
          <6>2. nread[t] + 1 \in Waiting(t) BY <1>2, <6>1 DEF Waiting
          <6>. QED BY <1>2, <6>1, <6>2 DEF Waiting
        <5>2. CASE FlushEnds(t) BY <1>2, <5>2 DEF FlushEnds, TypeOK, DecodingOK
        <5>3. CASE OpenFails(t) \/ Open(t) \/ EndOfFile(t) \/ LockFrames(t) \/ Request(t)
          <6>1. hand' = hand /\ nread' = nread /\ decoder' = decoder
            BY <5>3 DEF OpenFails, Open, EndOfFile, LockFrames, Request, decoding
          <6>. QED BY <1>2, <6>1 DEF Waiting
        <5>. QED BY <1>4, <2>3, <4>2, <5>1, <5>2, <5>3 DEF Session
      <4>3. ASSUME NEW s \in Sessions, Session(s), s # t
            PROVE  hand'[t] = hand[t] /\ nread'[t] = nread[t] /\ decoder'[t] = decoder[t]
        BY <4>3, OthersRest
      <4>4. CASE \E s \in Sessions : Session(s) /\ s # t
        BY <1>2, <4>3, <4>4 DEF Waiting
      <4>. QED BY <4>1, <4>2, <4>4 DEF Next
    <3>. QED BY <1>1, <1>2, <2>1, <3>1, StillBefore
  <2>. QED BY <2>2, <2>3
<1>. QED BY <1>3, <1>4

LEMMA InitOrder == Init => OrderInv
<1>. SUFFICES ASSUME Init, NEW s \in Sessions PROVE Before(s)
  BY DEF OrderInv
<1>1. InHand(s) = {} BY DEF Init, InHand
<1>. QED BY <1>1, InitLine DEF Before, InTurn

\* The pictures of a session stand in the line, and so reach the screen, in the
\* order of their times, whenever the file reorders no more pictures than the
\* decoder keeps back.
THEOREM PicturesInTurn == Spec => []PicturesInOrder
<1>1. Init => OrderInv
  BY InitOrder
<1>2. ConservedInv /\ OrderInv /\ [Next]_vars => OrderInv'
  <2>1. ASSUME OrderInv, UNCHANGED vars PROVE OrderInv'
    <3>1. UNCHANGED <<clip, Line, hand, nread, decoder, lost, raced>>
      BY <2>1 DEF Line, vars, decoding, painting, hazards
    <3>. QED BY <2>1, <3>1 DEF OrderInv, Before, InTurn, PicsIn, InHand, Waiting, Pts, Files,
       Reorderable
  <2>. QED BY <2>1, NextOrder DEF ConservedInv
<1>. QED BY <1>1, <1>2, ConservedInvariant, OrderSays, PTL DEF Spec
=============================================================================
