------------------------ MODULE PlayerSessionsProofs ------------------------
(***************************************************************************)
(* Proofs about PlayerSessions, for every number of clicks and all files:  *)
(* the mutex of a session, the lock of libavcodec, the OpenSL players, and *)
(* what can end the process.                                               *)
(***************************************************************************)
EXTENDS PlayerSessions, FiniteSetTheorems, TLAPS

Opening == {"unborn", "register", "create", "assign", "open", "lock", "obtain",
            "enter", "leave", "publish"}
PCs     == Opening \union {"failed", "null", "player", "realize", "play", "queue",
                           "callback", "start", "first", "demux"}
VPCs    == {"off", "lock", "push", "notify"}
GLs     == {"wait", "mutex", "lock", "list", "copy", "unlock", "view", "upload"}

PcsOK == pc \in [Sessions -> PCs]

-----------------------------------------------------------------------------
(***************************************************************************)
(* The mutex of a session.                                                 *)
(***************************************************************************)
ThreadsOK ==
    /\ PcsOK
    /\ vpc \in [Sessions -> VPCs] /\ gl \in GLs /\ held \in [Sessions -> BOOLEAN]
    /\ \A s \in Sessions : pc[s] \in Opening => vpc[s] = "off"
    /\ pGlobalCtx \in Sessions \union {None}
    /\ gl # "wait" => pGlobalCtx \in Sessions

\* Who is inside the lists of s: its video thread, or the GL thread.
Filming(s) == vpc[s] = "push"
Drawing(s) == gl \in {"list", "copy", "unlock"} /\ glmutex = s

\* While no session is published in the middle of a frame, the renderer unlocks
\* what it has locked, and a locked mutex has one owner.
OwnersInv ==
    "context" \notin races =>
        /\ gl \in {"lock", "list", "copy", "unlock"} => glmutex = pGlobalCtx
        /\ \A s \in Sessions : /\ ~(Filming(s) /\ Drawing(s))
                               /\ held[s] <=> Filming(s) \/ Drawing(s)

MutexInv == ThreadsOK /\ OwnersInv

LEMMA MutexInit == Init => MutexInv
BY DEF Init, Each, MutexInv, ThreadsOK, OwnersInv, PcsOK, Filming, Drawing, PCs, Opening,
       VPCs, GLs

\* What the steps that touch neither a mutex nor a frame have in common.
Apart ==
    /\ UNCHANGED <<pGlobalCtx, held, vpc, gl, glmutex>>
    /\ races \subseteq races'
    /\ PcsOK'
    /\ \A s \in Sessions : pc'[s] \in Opening => pc[s] \in Opening

LEMMA ApartKeeps == MutexInv /\ Apart => MutexInv'
BY DEF MutexInv, ThreadsOK, OwnersInv, Filming, Drawing, Apart

\* One session moves on, and stays within or leaves its opening.
LEMMA GotoApart ==
    ASSUME PcsOK, NEW s, NEW from \in PCs, NEW to \in PCs, Goto(s, from, to),
           to \in Opening => from \in Opening
    PROVE  PcsOK' /\ \A r \in Sessions : pc'[r] \in Opening => pc[r] \in Opening
BY DEF PcsOK, Goto

LEMMA ProceedApart ==
    ASSUME PcsOK, NEW s, NEW from \in Opening, Proceed(s, from)
    PROVE  PcsOK' /\ \A r \in Sessions : pc'[r] \in Opening => pc[r] \in Opening
<1>1. from \in PCs /\ {"publish", "lock"} \subseteq PCs \intersect Opening
  BY DEF PCs, Opening
<1>2. Goto(s, from, "publish") \/ Goto(s, from, "lock")
  BY DEF Proceed
<1> QED BY <1>1, <1>2, GotoApart

LEMMA StartsApart == PcsOK /\ (ClearVM \/ StartSession) => Apart
<1> SUFFICES ASSUME PcsOK, ClearVM \/ StartSession PROVE Apart OBVIOUS
<1> USE DEF StartsOnly, player, lock, manager, entry, frame
<1>1. CASE ClearVM BY <1>1 DEF ClearVM, Apart, PcsOK
<1>2. CASE StartSession
  <2>1. Goto(clicks', "unborn", "register") BY <1>2 DEF StartSession
  <2>2. UNCHANGED <<pGlobalCtx, held, vpc, gl, glmutex, races>> BY <1>2 DEF StartSession
  <2> QED BY <2>1, <2>2, GotoApart DEF Apart, PCs, Opening
<1> QED BY <1>1, <1>2

LEMMA RaceGrows == ASSUME NEW name, NEW b, Race(name, b) PROVE races \subseteq races'
BY DEF Race

LEMMA CodecApart == ASSUME PcsOK, NEW s \in Sessions, Codec(s) PROVE Apart
<1>1. UNCHANGED <<pGlobalCtx, held, vpc, gl, glmutex>>
  BY DEF Codec, DestroyLock, CreateLock, AssignLock, OpenFails, OpenInput, FetchLock,
         Obtain, Enter, Entangled, Leave, OpensOnly, frame
<1>2. races \subseteq races'
  BY RaceGrows DEF Codec, DestroyLock, CreateLock, AssignLock, OpenFails, OpenInput, FetchLock,
         Obtain, Enter, Entangled, Leave
<1>3. \/ \E f \in Opening, t \in PCs : Goto(s, f, t)
      \/ \E f \in Opening : Proceed(s, f)
  BY DEF Codec, DestroyLock, CreateLock, AssignLock, OpenFails, OpenInput, FetchLock,
         Obtain, Enter, Entangled, Leave, PCs, Opening
<1>4. Opening \subseteq PCs BY DEF PCs
<1> QED BY <1>1, <1>2, <1>3, <1>4, GotoApart, ProceedApart DEF Apart

LEMMA SoundApart ==
    ASSUME PcsOK, NEW s \in Sessions,
           NullContext(s) \/ OpenSL(s) \/ BufferPlayed(s) \/ Callback(s)
    PROVE  Apart
<1>1. UNCHANGED <<pGlobalCtx, held, vpc, gl, glmutex>>
  BY DEF NullContext, OpenSL, CreateAudioPlayer, Realize, GetPlay, GetQueue,
         RegisterCallback, SetPlayState, FirstCallback, BufferPlayed, Callback,
         OpensOnly, SoundsOnly, frame
<1>2. races \subseteq races'
  BY RaceGrows DEF NullContext, OpenSL, CreateAudioPlayer, Realize, GetPlay, GetQueue,
         RegisterCallback, SetPlayState, FirstCallback, BufferPlayed, Callback
<1>3. \/ pc' = pc
      \/ \E f \in PCs, t \in PCs \ Opening : Goto(s, f, t)
  BY DEF NullContext, OpenSL, CreateAudioPlayer, Realize, GetPlay, GetQueue,
         RegisterCallback, SetPlayState, FirstCallback, BufferPlayed, Callback,
         PCs, Opening
<1> QED BY <1>1, <1>2, <1>3, GotoApart DEF Apart, PcsOK

LEMMA PublishKeeps == ASSUME MutexInv, NEW s \in Sessions, Publish(s) PROVE MutexInv'
<1> USE DEF MutexInv, ThreadsOK
<1>1. pc[s] = "publish" /\ PcsOK' /\ \A r \in Sessions : pc'[r] \in Opening => r # s /\ pc[r] \in Opening
  BY DEF Publish, Goto, PcsOK, PCs, Opening
<1>2. vpc[s] = "off" BY <1>1 DEF Opening
<1>3. vpc' = [vpc EXCEPT ![s] = "lock"] /\ pGlobalCtx' = s /\ UNCHANGED <<gl, held, glmutex>>
  BY DEF Publish, frame
<1>4. "context" \notin races' => gl = "wait" /\ "context" \notin races
  BY DEF Publish, Race
<1>5. ThreadsOK' BY <1>1, <1>3 DEF VPCs
<1>6. OwnersInv' BY <1>2, <1>3, <1>4 DEF OwnersInv, Filming, Drawing
<1> QED BY <1>5, <1>6

LEMMA VideoKeeps == ASSUME MutexInv, NEW s \in Sessions, Video(s) PROVE MutexInv'
<1> USE DEF MutexInv, ThreadsOK, PcsOK, Decode, FilmsOnly, frame
<1>1. CASE VideoLock(s)
  BY <1>1 DEF VideoLock, OwnersInv, Filming, Drawing, VPCs
<1>2. CASE VideoPush(s)
  BY <1>2 DEF VideoPush, OwnersInv, Filming, Drawing, VPCs
<1>3. CASE VideoNotify(s)
  <2>1. races \subseteq races' BY <1>3, RaceGrows DEF VideoNotify
  <2> QED BY <1>3, <2>1 DEF VideoNotify, OwnersInv, Filming, Drawing, VPCs
<1> QED BY <1>1, <1>2, <1>3 DEF Video

LEMMA RenderKeeps == MutexInv /\ Render => MutexInv'
<1> SUFFICES ASSUME MutexInv, Render PROVE MutexInv' OBVIOUS
<1> USE DEF MutexInv, ThreadsOK, PcsOK, Draw, DrawsOnly, frame, OwnersInv, Filming, Drawing, GLs
<1>1. CASE DrawNothing BY <1>1 DEF DrawNothing
<1>2. CASE DrawFrame BY <1>2 DEF DrawFrame
<1>3. CASE RenderMutex BY <1>3 DEF RenderMutex
<1>4. CASE RenderLock BY <1>4 DEF RenderLock
<1>5. CASE RenderNone BY <1>5 DEF RenderNone
<1>6. CASE RenderPop BY <1>6 DEF RenderPop
<1>7. CASE RenderCopy BY <1>7 DEF RenderCopy
<1>8. CASE RenderUnlock BY <1>8 DEF RenderUnlock
<1>9. CASE RenderView BY <1>9 DEF RenderView
<1>10. CASE RenderUpload BY <1>10 DEF RenderUpload
<1> QED BY <1>1, <1>2, <1>3, <1>4, <1>5, <1>6, <1>7, <1>8, <1>9, <1>10 DEF Render

LEMMA MutexStep == MutexInv /\ [Next]_vars => MutexInv'
<1> SUFFICES ASSUME MutexInv, [Next]_vars PROVE MutexInv' OBVIOUS
<1>0. PcsOK BY DEF MutexInv, ThreadsOK
<1>1. CASE ClearVM \/ StartSession BY <1>0, <1>1, StartsApart, ApartKeeps
<1>2. CASE Render BY <1>2, RenderKeeps
<1>3. ASSUME NEW s \in Sessions, Session(s) PROVE MutexInv'
  <2>1. CASE Codec(s) BY <1>0, <2>1, CodecApart, ApartKeeps
  <2>2. CASE NullContext(s) \/ OpenSL(s) \/ BufferPlayed(s) \/ Callback(s)
    BY <1>0, <2>2, SoundApart, ApartKeeps
  <2>3. CASE Publish(s) BY <2>3, PublishKeeps
  <2>4. CASE Video(s) BY <2>4, VideoKeeps
  <2> QED BY <1>3, <2>1, <2>2, <2>3, <2>4 DEF Session
<1>4. CASE UNCHANGED vars
  BY <1>4 DEF vars, frame, MutexInv, ThreadsOK, PcsOK, OwnersInv, Filming, Drawing
<1> QED BY <1>1, <1>2, <1>3, <1>4 DEF Next

\* Mutual exclusion in the lists of each session, however many sessions there
\* are, as long as none is published in the middle of a frame.
THEOREM MutexesHold == Spec => []MutexesKept
<1>1. MutexInv => MutexesKept
  BY DEF MutexInv, ThreadsOK, OwnersInv, MutexesKept, Inside, Filming, Drawing
<1> QED BY <1>1, MutexInit, MutexStep, PTL DEF Spec
-----------------------------------------------------------------------------
(***************************************************************************)
(* The lock of libavcodec.                                                 *)
(***************************************************************************)
Changing == {"create", "assign"}
Holding  == {"enter", "leave"}
Busy     == Changing \union Holding \union {"obtain"}
Ready    == Holding \union {"open", "lock", "obtain"}

\* As long as nobody replaces the lock manager under another session: whoever is
\* replacing it is alone; otherwise it is ours and has a mutex, which all who
\* wait are waiting for, and which the one session that is inside holds.
ManagerInv ==
    /\ \A r, s \in Sessions : pc[r] \in Changing /\ pc[s] \in Busy => r = s
    /\ \A s \in Sessions : pc[s] = "assign" => lockmgr_cb = "lockmgr"
    /\ (\A r \in Sessions : pc[r] \notin Changing) =>
          (lockmgr_cb = "lockmgr" => codec_mutex \in Sessions)
    /\ (\A r \in Sessions : pc[r] \notin Changing) =>
          \A s \in Sessions : pc[s] \in Ready => lockmgr_cb = "lockmgr"
    /\ \A s \in Sessions : pc[s] = "obtain" => waits[s] = codec_mutex

InsideInv ==
    /\ \A r, s \in Sessions : pc[r] \in Holding /\ pc[s] \in Holding => r = s
    /\ \A s \in Sessions : pc[s] \in Holding => taken = {codec_mutex}
    /\ (\A s \in Sessions : pc[s] \notin Holding) => taken = {}
    /\ \A s \in Sessions : pc[s] = "leave" => entangled = 1 /\ ff_avcodec_locked
    /\ (\A s \in Sessions : pc[s] # "leave") => entangled = 0 /\ ~ff_avcodec_locked
    /\ refused = {}

LockInv ==
    /\ PcsOK
    /\ DOMAIN waits = Sessions
    /\ "lock" \notin races => ManagerInv /\ InsideInv

LEMMA LockInit == Init => LockInv
BY DEF Init, Each, LockInv, PcsOK, ManagerInv, InsideInv, PCs, Opening, Changing, Holding,
       Busy, Ready

\* What the steps outside the lock manager have in common.
Aside ==
    /\ UNCHANGED <<lockmgr_cb, codec_mutex, waits, taken, entangled, ff_avcodec_locked, refused>>
    /\ races \subseteq races'
    /\ PcsOK'
    /\ \A s \in Sessions :
          \/ pc'[s] = pc[s]
          \/ /\ pc[s] \notin Busy /\ pc'[s] \notin Busy
             /\ pc'[s] \in Ready => pc[s] \in Ready

LEMMA AsideKeeps == LockInv /\ Aside => LockInv'
<1> SUFFICES ASSUME LockInv, Aside PROVE LockInv' OBVIOUS
<1> USE DEF LockInv, Aside
<1>1. \A s \in Sessions : /\ pc'[s] \in Changing <=> pc[s] \in Changing
                          /\ pc'[s] \in Holding <=> pc[s] \in Holding
                          /\ pc'[s] \in Busy <=> pc[s] \in Busy
                          /\ pc'[s] \in Ready => pc[s] \in Ready
                          /\ \A p \in Busy : pc'[s] = p <=> pc[s] = p
  BY DEF Changing, Holding, Busy
<1>2. {"assign", "obtain", "leave"} \subseteq Busy BY DEF Changing, Holding, Busy
<1>3. ManagerInv => ManagerInv' BY <1>1, <1>2 DEF ManagerInv
<1>4. InsideInv => InsideInv' BY <1>1, <1>2 DEF InsideInv
<1> QED BY <1>3, <1>4

LEMMA GotoAside ==
    ASSUME PcsOK, NEW s, NEW from \in PCs \ Busy, NEW to \in PCs \ Busy, Goto(s, from, to),
           to \in Ready => from \in Ready
    PROVE  /\ PcsOK'
           /\ \A r \in Sessions : \/ pc'[r] = pc[r]
                                   \/ /\ pc[r] \notin Busy /\ pc'[r] \notin Busy
                                      /\ pc'[r] \in Ready => pc[r] \in Ready
BY DEF PcsOK, Goto

LEMMA StartsAside == PcsOK /\ (ClearVM \/ StartSession) => Aside
<1> SUFFICES ASSUME PcsOK, ClearVM \/ StartSession PROVE Aside OBVIOUS
<1>1. UNCHANGED <<lockmgr_cb, codec_mutex, waits, taken, entangled, ff_avcodec_locked, refused, races>>
  BY DEF ClearVM, StartSession, StartsOnly, lock, manager, entry
<1>2. CASE ClearVM BY <1>1, <1>2 DEF ClearVM, Aside, PcsOK
<1>3. CASE StartSession
  <2>1. Goto(clicks', "unborn", "register") BY <1>3 DEF StartSession
  <2> QED BY <1>1, <2>1, GotoAside DEF Aside, PCs, Opening, Busy, Ready, Changing, Holding
<1> QED BY <1>2, <1>3

LEMMA OpenAside == ASSUME PcsOK, NEW s \in Sessions, OpenFails(s) \/ OpenInput(s) PROVE Aside
<1>1. UNCHANGED <<lockmgr_cb, codec_mutex, waits, taken, entangled, ff_avcodec_locked, refused, races>>
  BY DEF OpenFails, OpenInput, OpensOnly, lock, manager, entry
<1>2. \E t \in {"failed", "publish", "lock"} : Goto(s, "open", t)
  BY DEF OpenFails, OpenInput, Proceed
<1> QED BY <1>1, <1>2, GotoAside DEF Aside, PCs, Opening, Busy, Ready, Changing, Holding

LEMMA PlayerAside ==
    ASSUME PcsOK, NEW s \in Sessions,
           \/ NullContext(s) \/ Publish(s) \/ OpenSL(s) \/ BufferPlayed(s)
           \/ Callback(s) \/ Video(s)
    PROVE  Aside
<1>1. UNCHANGED <<lockmgr_cb, codec_mutex, waits, taken, entangled, ff_avcodec_locked, refused>>
  BY DEF NullContext, Publish, OpenSL, CreateAudioPlayer, Realize, GetPlay, GetQueue,
         RegisterCallback, SetPlayState, FirstCallback, BufferPlayed, Callback,
         Video, VideoLock, VideoPush, VideoNotify, Decode,
         OpensOnly, SoundsOnly, FilmsOnly, lock, manager, entry
<1>2. races \subseteq races'
  BY RaceGrows DEF NullContext, Publish, OpenSL, CreateAudioPlayer, Realize, GetPlay, GetQueue,
         RegisterCallback, SetPlayState, FirstCallback, BufferPlayed, Callback,
         Video, VideoLock, VideoPush, VideoNotify
<1>3. \/ pc' = pc
      \/ \E f \in PCs \ Busy, t \in PCs \ (Busy \union Ready) : Goto(s, f, t)
  BY DEF NullContext, Publish, OpenSL, CreateAudioPlayer, Realize, GetPlay, GetQueue,
         RegisterCallback, SetPlayState, FirstCallback, BufferPlayed, Callback,
         Video, VideoLock, VideoPush, VideoNotify, Decode, FilmsOnly,
         PCs, Opening, Busy, Ready, Changing, Holding
<1> QED BY <1>1, <1>2, <1>3, GotoAside DEF Aside, PcsOK

LEMMA RenderAside == PcsOK /\ Render => Aside
<1> SUFFICES ASSUME PcsOK, Render PROVE Aside OBVIOUS
<1>1. UNCHANGED <<pc, lock, races>>
  BY DEF Render, DrawNothing, DrawFrame, RenderMutex, RenderLock, RenderNone, RenderPop,
         RenderCopy, RenderUnlock, RenderView, RenderUpload, Draw, DrawsOnly
<1> QED BY <1>1 DEF Aside, lock, manager, entry, PcsOK

-----------------------------------------------------------------------------
\* One session takes a step in the lock manager.
LEMMA LockGoto ==
    ASSUME PcsOK, NEW s \in Sessions, NEW from, NEW to \in PCs, Goto(s, from, to)
    PROVE  /\ PcsOK' /\ pc[s] = from /\ pc'[s] = to
           /\ \A r \in Sessions : r # s => pc'[r] = pc[r]
BY DEF PcsOK, Goto

LEMMA NoRace ==
    ASSUME NEW b, Race("lock", b), "lock" \notin races'
    PROVE  "lock" \notin races /\ ~b
BY DEF Race

LEMMA Free ==
    /\ Registering = {} <=> \A r \in Sessions : pc[r] \notin Changing
    /\ Locking = {} <=> \A r \in Sessions : pc[r] \notin Holding \union {"obtain"}
BY DEF Registering, Locking, Within, Changing, Holding

LEMMA RegisterKeeps ==
    ASSUME LockInv, NEW s \in Sessions, DestroyLock(s) \/ CreateLock(s) \/ AssignLock(s)
    PROVE  LockInv'
<1> USE DEF LockInv, OpensOnly
<1>1. CASE DestroyLock(s)
  <2>1. Goto(s, "register", "create") /\ UNCHANGED <<waits, taken, entangled, ff_avcodec_locked, refused>>
    BY <1>1 DEF DestroyLock, entry
  <2>2. PcsOK' /\ pc[s] = "register" /\ pc'[s] = "create" /\ \A r \in Sessions : r # s => pc'[r] = pc[r]
    BY <2>1, LockGoto DEF PCs, Opening
  <2>3. ASSUME "lock" \notin races' PROVE ManagerInv' /\ InsideInv'
    <3>1. "lock" \notin races /\ Registering \union Locking = {}
      BY <1>1, <2>3, NoRace DEF DestroyLock
    <3>2. \A r \in Sessions : pc[r] \notin Busy BY <3>1, Free DEF Busy
    <3> QED BY <2>1, <2>2, <3>1, <3>2 DEF ManagerInv, InsideInv, Busy, Changing, Holding, Ready
  <2> QED BY <2>1, <2>2, <2>3
<1>2. CASE CreateLock(s)
  <2>1. Goto(s, "create", "assign") /\ lockmgr_cb' = "lockmgr"
        /\ UNCHANGED <<waits, taken, entangled, ff_avcodec_locked, refused>>
    BY <1>2 DEF CreateLock, entry
  <2>2. PcsOK' /\ pc[s] = "create" /\ pc'[s] = "assign" /\ \A r \in Sessions : r # s => pc'[r] = pc[r]
    BY <2>1, LockGoto DEF PCs, Opening
  <2>3. "lock" \notin races' => "lock" \notin races BY <1>2, NoRace DEF CreateLock
  <2>4. ManagerInv /\ InsideInv => ManagerInv' /\ InsideInv'
    BY <2>1, <2>2 DEF ManagerInv, InsideInv, Busy, Changing, Holding, Ready
  <2> QED BY <2>1, <2>2, <2>3, <2>4
<1>3. CASE AssignLock(s)
  <2>1. Goto(s, "assign", "open") /\ codec_mutex' = s
        /\ UNCHANGED <<lockmgr_cb, waits, taken, entangled, ff_avcodec_locked, refused>>
    BY <1>3 DEF AssignLock, entry
  <2>2. PcsOK' /\ pc[s] = "assign" /\ pc'[s] = "open" /\ \A r \in Sessions : r # s => pc'[r] = pc[r]
    BY <2>1, LockGoto DEF PCs, Opening
  <2>3. "lock" \notin races' => "lock" \notin races BY <1>3, NoRace DEF AssignLock
  <2>4. ManagerInv /\ InsideInv => ManagerInv' /\ InsideInv'
    BY <2>1, <2>2 DEF ManagerInv, InsideInv, Busy, Changing, Holding, Ready
  <2> QED BY <2>1, <2>2, <2>3, <2>4
<1> QED BY <1>1, <1>2, <1>3

LEMMA FetchKeeps == ASSUME LockInv, NEW s \in Sessions, FetchLock(s) PROVE LockInv'
<1> USE DEF LockInv
<1>1. UNCHANGED <<lockmgr_cb, codec_mutex, taken, entangled, ff_avcodec_locked, refused>>
  BY DEF FetchLock, manager, entry
<1>2. \E t \in {"enter", "obtain"} : Goto(s, "lock", t) BY DEF FetchLock
<1>3. PcsOK' /\ pc[s] = "lock" /\ \A r \in Sessions : r # s => pc'[r] = pc[r]
  BY <1>2, LockGoto DEF PCs, Opening
<1>4. DOMAIN waits' = Sessions BY DEF FetchLock
<1>5. ASSUME "lock" \notin races' PROVE ManagerInv' /\ InsideInv'
  <2>1. "lock" \notin races /\ \A r \in Sessions : pc[r] \notin Changing
    BY <1>5, NoRace, Free DEF FetchLock
  <2>2. lockmgr_cb = "lockmgr" BY <1>3, <2>1 DEF ManagerInv, Ready
  <2>3. Goto(s, "lock", "obtain") /\ waits' = [waits EXCEPT ![s] = codec_mutex]
    BY <2>2 DEF FetchLock
  <2>4. pc'[s] = "obtain" BY <2>3, LockGoto DEF PCs, Opening
  <2>5. ManagerInv'
    BY <1>1, <1>3, <2>1, <2>3, <2>4 DEF ManagerInv, Busy, Changing, Holding, Ready
  <2>6. InsideInv' BY <1>1, <1>3, <2>1, <2>4 DEF InsideInv, Holding
  <2> QED BY <2>5, <2>6
<1> QED BY <1>3, <1>4, <1>5

LEMMA ObtainKeeps == ASSUME LockInv, NEW s \in Sessions, Obtain(s) PROVE LockInv'
<1> USE DEF LockInv
<1>1. UNCHANGED <<lockmgr_cb, codec_mutex, entangled, ff_avcodec_locked, refused, races>>
      /\ Goto(s, "obtain", "enter") /\ waits' = [waits EXCEPT ![s] = None]
      /\ waits[s] \notin taken /\ taken' = taken \union ({waits[s]} \ {None})
  BY DEF Obtain, manager, entry
<1>2. PcsOK' /\ pc[s] = "obtain" /\ pc'[s] = "enter" /\ \A r \in Sessions : r # s => pc'[r] = pc[r]
  BY <1>1, LockGoto DEF PCs, Opening
<1>3. ASSUME ManagerInv, InsideInv PROVE ManagerInv' /\ InsideInv'
  <2>1. \A r \in Sessions : pc[r] \notin Changing
    BY <1>2, <1>3 DEF ManagerInv, Busy, Changing
  <2>2. codec_mutex \in Sessions /\ waits[s] = codec_mutex
    BY <1>2, <1>3, <2>1 DEF ManagerInv, Ready
  <2>3. \A r \in Sessions : pc[r] \notin Holding
    BY <1>1, <1>3, <2>2 DEF InsideInv
  <2>4. taken' = {codec_mutex}
    BY <1>1, <1>3, <2>2, <2>3 DEF InsideInv, Sessions, None
  <2>5. ManagerInv'
    BY <1>1, <1>2, <1>3, <2>1, <2>2 DEF ManagerInv, Busy, Changing, Holding, Ready
  <2>6. InsideInv' BY <1>1, <1>2, <1>3, <2>3, <2>4 DEF InsideInv, Holding
  <2> QED BY <2>5, <2>6
<1> QED BY <1>1, <1>2, <1>3

LEMMA EnterKeeps == ASSUME LockInv, NEW s \in Sessions, Enter(s) PROVE LockInv'
<1> USE DEF LockInv
<1>1. UNCHANGED <<lockmgr_cb, codec_mutex, waits, taken, refused, races>>
      /\ Goto(s, "enter", "leave") /\ entangled' = 1 /\ ff_avcodec_locked' = TRUE
  BY DEF Enter, manager
<1>2. PcsOK' /\ pc[s] = "enter" /\ pc'[s] = "leave" /\ \A r \in Sessions : r # s => pc'[r] = pc[r]
  BY <1>1, LockGoto DEF PCs, Opening
<1>3. ManagerInv => ManagerInv'
  BY <1>1, <1>2 DEF ManagerInv, Busy, Changing, Holding, Ready
<1>4. InsideInv => InsideInv' BY <1>1, <1>2 DEF InsideInv, Holding
<1> QED BY <1>1, <1>2, <1>3, <1>4

\* Nobody is refused while the lock is one lock.
LEMMA EntangledKeeps == ASSUME LockInv, NEW s \in Sessions, Entangled(s) PROVE LockInv'
<1> USE DEF LockInv
<1>1. pc[s] = "enter" /\ entangled > 0 /\ UNCHANGED <<waits, races>> BY DEF Entangled
<1>2. ~InsideInv BY <1>1 DEF InsideInv, Holding
<1>3. PcsOK'
  <2>1. \E t \in PCs : Goto(s, "enter", t) BY DEF Entangled, Proceed, PCs, Opening
  <2> QED BY <2>1, LockGoto
<1> QED BY <1>1, <1>2, <1>3

LEMMA LeaveKeeps == ASSUME LockInv, NEW s \in Sessions, Leave(s) PROVE LockInv'
<1> USE DEF LockInv
<1>1. UNCHANGED <<lockmgr_cb, codec_mutex, waits, refused, races>>
      /\ ff_avcodec_locked' = FALSE /\ entangled' = entangled - 1
  BY DEF Leave, manager
<1>2. PICK t \in {"publish", "lock", "failed"} : Goto(s, "leave", t) BY DEF Leave, Proceed
<1>3. PcsOK' /\ pc[s] = "leave" /\ pc'[s] = t /\ \A r \in Sessions : r # s => pc'[r] = pc[r]
  BY <1>2, LockGoto DEF PCs, Opening
<1>4. ASSUME ManagerInv, InsideInv PROVE ManagerInv' /\ InsideInv'
  <2>1. \A r \in Sessions : pc[r] \notin Changing
    BY <1>3, <1>4 DEF ManagerInv, Busy, Changing, Holding
  <2>2. lockmgr_cb = "lockmgr" BY <1>3, <1>4, <2>1 DEF ManagerInv, Ready, Holding
  <2>3. ff_avcodec_locked /\ entangled = 1 /\ taken = {codec_mutex}
    BY <1>3, <1>4 DEF InsideInv, Holding
  <2>4. taken' = {} /\ entangled' = 0 BY <1>1, <2>2, <2>3 DEF Leave, ReleaseLock
  <2>5. \A r \in Sessions : pc'[r] \notin Holding
    BY <1>3, <1>4 DEF InsideInv, Holding
  <2>6. ManagerInv'
    BY <1>1, <1>3, <1>4, <2>1 DEF ManagerInv, Busy, Changing, Holding, Ready
  <2>7. InsideInv' BY <1>1, <1>4, <2>4, <2>5 DEF InsideInv, Holding
  <2> QED BY <2>6, <2>7
<1> QED BY <1>1, <1>3, <1>4

LEMMA LockStep == LockInv /\ [Next]_vars => LockInv'
<1> SUFFICES ASSUME LockInv, [Next]_vars PROVE LockInv' OBVIOUS
<1>0. PcsOK BY DEF LockInv
<1>1. CASE ClearVM \/ StartSession BY <1>0, <1>1, StartsAside, AsideKeeps
<1>2. CASE Render BY <1>0, <1>2, RenderAside, AsideKeeps
<1>3. ASSUME NEW s \in Sessions, Session(s) PROVE LockInv'
  <2>1. CASE Codec(s)
    BY <1>0, <2>1, RegisterKeeps, OpenAside, AsideKeeps, FetchKeeps, ObtainKeeps, EnterKeeps,
       EntangledKeeps, LeaveKeeps DEF Codec
  <2>2. CASE \/ NullContext(s) \/ Publish(s) \/ OpenSL(s) \/ BufferPlayed(s)
             \/ Callback(s) \/ Video(s)
    BY <1>0, <2>2, PlayerAside, AsideKeeps
  <2> QED BY <1>3, <2>1, <2>2 DEF Session
<1>4. CASE UNCHANGED vars
  BY <1>0, <1>4, AsideKeeps DEF vars, lock, manager, entry, Aside, PcsOK
<1> QED BY <1>1, <1>2, <1>3, <1>4 DEF Next

\* Codecs are opened one after the other, and none is refused, as long as the lock
\* manager is not replaced under a session that is using it.
THEOREM CodecsOpenAlone == Spec => []OpensAlone
<1>1. LockInv => OpensAlone
  <2> SUFFICES ASSUME LockInv, "lock" \notin races PROVE OpensAlone BY DEF OpensAlone
  <2>1. InsideInv BY DEF LockInv
  <2>2. CASE \A s \in Sessions : pc[s] # "leave"
    <3>1. Within({"leave"}) = {} BY <2>2 DEF Within
    <3> QED BY <2>1, <2>2, <3>1, FS_EmptySet DEF InsideInv, OpensAlone
  <2>3. ASSUME NEW s \in Sessions, pc[s] = "leave" PROVE OpensAlone
    <3>1. Within({"leave"}) = {s} BY <2>1, <2>3 DEF Within, InsideInv, Holding
    <3> QED BY <2>1, <2>3, <3>1, FS_Singleton DEF InsideInv, OpensAlone
  <2> QED BY <2>2, <2>3
<1> QED BY <1>1, LockInit, LockStep, PTL DEF Spec
-----------------------------------------------------------------------------
(***************************************************************************)
(* The OpenSL players.                                                     *)
(***************************************************************************)
Constructing == {"realize", "play", "queue", "callback", "start", "first"}
Voiced       == {"first", "demux"}

SoundTypes ==
    /\ PcsOK
    /\ registered \in [Sessions -> Sessions \union {None}]
    /\ slq \in [Sessions -> Nat] /\ callback \in [Sessions -> BOOLEAN]

\* While no two sessions build their players at once, the handles are those of
\* the player that is being built, and a player has a buffer or a callback from
\* its first callback on.
BuildInv ==
    /\ \A r, s \in Sessions : pc[r] \in Constructing /\ pc[s] \in Constructing => r = s
    /\ \A s \in Sessions :
          /\ pc[s] \in Constructing => l_sl_player = s
          /\ pc[s] \in Constructing \ {"realize"} => s \in realized
          /\ pc[s] \in {"queue", "callback", "start", "first"} => l_sl_play = s
          /\ pc[s] \in {"callback", "start", "first"} => l_sl_queue = s

ChainInv ==
    /\ \A s \in Sessions :
          /\ pc[s] \notin Voiced => s \notin playing
          /\ pc[s] \in Voiced \union {"start"} => registered[s] = s
          /\ pc[s] # "demux" => slq[s] = 0 /\ ~callback[s]
          /\ pc[s] = "demux" => slq[s] = IF callback[s] THEN 0 ELSE 1
    /\ ~dropped

PlayersInv == SoundTypes /\ ("player" \notin races => BuildInv /\ ChainInv)

LEMMA PlayersInit == Init => PlayersInv
BY DEF Init, Each, PlayersInv, SoundTypes, PcsOK, BuildInv, ChainInv, Constructing, Voiced, PCs,
       Opening

\* What the steps that do not touch OpenSL have in common.
Silent ==
    /\ UNCHANGED player
    /\ races \subseteq races'
    /\ PcsOK'
    /\ \A s \in Sessions : \/ pc'[s] = pc[s]
                            \/ {pc[s], pc'[s]} \intersect (Constructing \union {"demux"}) = {}

LEMMA SilentKeeps == PlayersInv /\ Silent => PlayersInv'
<1> SUFFICES ASSUME PlayersInv, Silent PROVE PlayersInv' OBVIOUS
<1> USE DEF PlayersInv, Silent, player, handles, device, sound
<1>1. \A s \in Sessions, p \in Constructing \union {"demux"} : pc'[s] = p <=> pc[s] = p
  OBVIOUS
<1>2. SoundTypes' BY DEF SoundTypes
<1>3. BuildInv => BuildInv' BY <1>1 DEF BuildInv, Constructing
<1>4. ChainInv => ChainInv' BY <1>1 DEF ChainInv, Voiced, Constructing
<1> QED BY <1>2, <1>3, <1>4

LEMMA GotoSilent ==
    ASSUME PcsOK, NEW s, NEW from, NEW to \in PCs, Goto(s, from, to),
           {from, to} \intersect (Constructing \union {"demux"}) = {}
    PROVE  /\ PcsOK'
           /\ \A r \in Sessions :
                 \/ pc'[r] = pc[r]
                 \/ {pc[r], pc'[r]} \intersect (Constructing \union {"demux"}) = {}
BY DEF PcsOK, Goto

LEMMA StartsSilent == PcsOK /\ (ClearVM \/ StartSession) => Silent
<1> SUFFICES ASSUME PcsOK, ClearVM \/ StartSession PROVE Silent OBVIOUS
<1>1. UNCHANGED <<player, races>> BY DEF ClearVM, StartSession, StartsOnly
<1>2. CASE ClearVM BY <1>1, <1>2 DEF ClearVM, Silent, PcsOK
<1>3. CASE StartSession
  <2>1. Goto(clicks', "unborn", "register") BY <1>3 DEF StartSession
  <2> QED BY <1>1, <2>1, GotoSilent DEF Silent, PCs, Opening, Constructing
<1> QED BY <1>2, <1>3

LEMMA CodecSilent ==
    ASSUME PcsOK, NEW s \in Sessions,
           \/ Codec(s) \/ NullContext(s) \/ Publish(s)
    PROVE  Silent
<1>1. UNCHANGED player
  BY DEF Codec, DestroyLock, CreateLock, AssignLock, OpenFails, OpenInput, FetchLock,
         Obtain, Enter, Entangled, Leave, NullContext, Publish, OpensOnly
<1>2. races \subseteq races'
  BY RaceGrows DEF Codec, DestroyLock, CreateLock, AssignLock, OpenFails, OpenInput, FetchLock,
         Obtain, Enter, Entangled, Leave, NullContext, Publish
<1>3. \E f \in Opening, t \in Opening \union {"failed", "null", "player"} : Goto(s, f, t)
  BY DEF Codec, DestroyLock, CreateLock, AssignLock, OpenFails, OpenInput, FetchLock,
         Obtain, Enter, Entangled, Leave, NullContext, Publish, Proceed, Opening
<1>4. \A p \in Opening \union {"failed", "null", "player"} :
         p \in PCs /\ p \notin Constructing \union {"demux"}
  BY DEF PCs, Opening, Constructing
<1> QED BY <1>1, <1>2, <1>3, <1>4, GotoSilent DEF Silent

LEMMA PicturesSilent ==
    ASSUME PcsOK, (\E s \in Sessions : Video(s)) \/ Render PROVE Silent
<1>1. UNCHANGED <<player, pc>>
  BY DEF Video, VideoLock, VideoPush, VideoNotify, Decode, FilmsOnly, Render, DrawNothing,
         DrawFrame, RenderMutex, RenderLock, RenderNone, RenderPop, RenderCopy, RenderUnlock,
         RenderView, RenderUpload, Draw, DrawsOnly
<1>2. races \subseteq races'
  BY RaceGrows DEF Video, VideoLock, VideoPush, VideoNotify, Render, DrawNothing,
         DrawFrame, RenderMutex, RenderLock, RenderNone, RenderPop, RenderCopy, RenderUnlock,
         RenderView, RenderUpload, Draw, DrawsOnly
<1> QED BY <1>1, <1>2 DEF Silent, PcsOK

LEMMA BuildKeeps ==
    ASSUME PlayersInv, NEW s \in Sessions, OpenSL(s) PROVE PlayersInv'
<1> USE DEF PlayersInv, SoundTypes
<1>1. "player" \notin races' => "player" \notin races
  BY RaceGrows DEF OpenSL, CreateAudioPlayer, Realize, GetPlay, GetQueue, RegisterCallback,
         SetPlayState, FirstCallback
<1>2. CASE CreateAudioPlayer(s)
  <2>1. Goto(s, "player", "realize") /\ l_sl_player' = s /\ UNCHANGED <<device, sound>>
    BY <1>2 DEF CreateAudioPlayer
  <2>2. PcsOK' /\ pc[s] = "player" /\ pc'[s] = "realize" /\ \A r \in Sessions : r # s => pc'[r] = pc[r]
    BY <2>1, LockGoto DEF PCs
  <2>3. "player" \notin races' => \A r \in Sessions : pc[r] \notin Constructing
    BY <1>2 DEF CreateAudioPlayer, Race, Building, Within, Constructing
  <2> QED BY <1>1, <2>1, <2>2, <2>3 DEF device, sound, BuildInv, ChainInv, Constructing, Voiced
<1>3. CASE Realize(s)
  <2>1. Goto(s, "realize", "play") /\ realized' = realized \union {l_sl_player}
        /\ UNCHANGED <<handles, playing, registered, sound>>
    BY <1>3 DEF Realize
  <2>2. PcsOK' /\ pc[s] = "realize" /\ pc'[s] = "play" /\ \A r \in Sessions : r # s => pc'[r] = pc[r]
    BY <2>1, LockGoto DEF PCs
  <2> QED BY <1>1, <2>1, <2>2 DEF handles, sound, BuildInv, ChainInv, Constructing, Voiced
<1>4. CASE GetPlay(s)
  <2>1. Goto(s, "play", "queue") /\ l_sl_play' = Interface
        /\ UNCHANGED <<l_sl_player, l_sl_queue, device, sound>>
    BY <1>4 DEF GetPlay
  <2>2. PcsOK' /\ pc[s] = "play" /\ pc'[s] = "queue" /\ \A r \in Sessions : r # s => pc'[r] = pc[r]
    BY <2>1, LockGoto DEF PCs
  <2> QED BY <1>1, <2>1, <2>2 DEF Interface, device, sound, BuildInv, ChainInv, Constructing, Voiced
<1>5. CASE GetQueue(s)
  <2>1. Goto(s, "queue", "callback") /\ l_sl_queue' = Interface
        /\ UNCHANGED <<l_sl_player, l_sl_play, device, sound>>
    BY <1>5 DEF GetQueue
  <2>2. PcsOK' /\ pc[s] = "queue" /\ pc'[s] = "callback" /\ \A r \in Sessions : r # s => pc'[r] = pc[r]
    BY <2>1, LockGoto DEF PCs
  <2> QED BY <1>1, <2>1, <2>2 DEF Interface, device, sound, BuildInv, ChainInv, Constructing, Voiced
<1>6. CASE RegisterCallback(s)
  <2>1. Goto(s, "callback", "start") /\ UNCHANGED <<handles, realized, playing, sound>>
        /\ registered' = IF l_sl_queue \in playing \union {None} THEN registered
                         ELSE [registered EXCEPT ![l_sl_queue] = s]
    BY <1>6 DEF RegisterCallback
  <2>2. PcsOK' /\ pc[s] = "callback" /\ pc'[s] = "start" /\ \A r \in Sessions : r # s => pc'[r] = pc[r]
    BY <2>1, LockGoto DEF PCs
  <2>3. SoundTypes' BY <2>1, <2>2 DEF sound
  <2>4. ASSUME BuildInv, ChainInv PROVE BuildInv' /\ ChainInv'
    <3>1. l_sl_queue = s /\ s \notin playing /\ s # None
      BY <2>2, <2>4 DEF BuildInv, ChainInv, Constructing, Voiced, Sessions, None
    <3>2. registered' = [registered EXCEPT ![s] = s] BY <2>1, <3>1
    <3>3. BuildInv' BY <2>1, <2>2, <2>4 DEF handles, BuildInv, Constructing
    <3>4. ChainInv' BY <2>1, <2>2, <2>4, <3>2 DEF sound, ChainInv, Voiced
    <3> QED BY <3>3, <3>4
  <2> QED BY <1>1, <2>3, <2>4
<1>7. CASE SetPlayState(s)
  <2>1. Goto(s, "start", "first") /\ playing' = playing \union ({l_sl_play} \ {None})
        /\ UNCHANGED <<handles, realized, registered, sound>>
    BY <1>7 DEF SetPlayState
  <2>2. PcsOK' /\ pc[s] = "start" /\ pc'[s] = "first" /\ \A r \in Sessions : r # s => pc'[r] = pc[r]
    BY <2>1, LockGoto DEF PCs
  <2> QED BY <1>1, <2>1, <2>2 DEF handles, sound, BuildInv, ChainInv, Constructing, Voiced
<1>8. CASE FirstCallback(s)
  <2>1. Goto(s, "first", "demux") /\ UNCHANGED <<handles, device, callback>>
        /\ IF l_sl_queue = None THEN UNCHANGED <<slq, dropped>> ELSE Enqueue(l_sl_queue)
    BY <1>8 DEF FirstCallback
  <2>2. PcsOK' /\ pc[s] = "first" /\ pc'[s] = "demux" /\ \A r \in Sessions : r # s => pc'[r] = pc[r]
    BY <2>1, LockGoto DEF PCs
  <2>3. SoundTypes' BY <2>1, <2>2 DEF device, Enqueue
  <2>4. ASSUME BuildInv, ChainInv PROVE BuildInv' /\ ChainInv'
    <3>1. l_sl_queue = s /\ s # None /\ slq[s] = 0 /\ ~callback[s]
      BY <2>2, <2>4 DEF BuildInv, ChainInv, Constructing, Sessions, None
    <3>2. slq' = [slq EXCEPT ![s] = 1] /\ dropped' = dropped
      BY <2>1, <3>1 DEF Enqueue, SLBuffers
    <3>3. BuildInv' BY <2>1, <2>2, <2>4 DEF handles, device, BuildInv, Constructing
    <3>4. ChainInv' BY <2>1, <2>2, <2>4, <3>1, <3>2 DEF device, ChainInv, Voiced
    <3> QED BY <3>3, <3>4
  <2> QED BY <1>1, <2>3, <2>4
<1> QED BY <1>2, <1>3, <1>4, <1>5, <1>6, <1>7, <1>8 DEF OpenSL

LEMMA PlayingKeeps ==
    ASSUME PlayersInv, NEW p \in Sessions, BufferPlayed(p) \/ Callback(p) PROVE PlayersInv'
<1> USE DEF PlayersInv, SoundTypes
<1>1. CASE BufferPlayed(p)
  <2>1. UNCHANGED <<pc, races, handles, device, dropped>> /\ p \in playing /\ slq[p] > 0
        /\ slq' = [slq EXCEPT ![p] = @ - 1]
        /\ callback' = [callback EXCEPT ![p] = registered[p] # None]
    BY <1>1 DEF BufferPlayed
  <2>2. SoundTypes' BY <2>1 DEF PcsOK, device
  <2>3. BuildInv => BuildInv' BY <2>1 DEF BuildInv, handles, device
  <2>4. ASSUME ChainInv PROVE ChainInv'
    <3>1. pc[p] = "demux" /\ slq[p] = 1 /\ registered[p] = p
      BY <2>1, <2>4 DEF ChainInv, Voiced
    <3>2. (registered[p] # None) = TRUE BY <3>1 DEF Sessions, None
    <3>3. slq'[p] = 0 /\ callback'[p] /\ \A r \in Sessions : r # p =>
             slq'[r] = slq[r] /\ callback'[r] = callback[r]
      <4>1. slq'[p] = 0 /\ \A r \in Sessions : r # p => slq'[r] = slq[r] BY <2>1, <3>1
      <4>2. callback' = [callback EXCEPT ![p] = TRUE] BY <2>1, <3>2
      <4> QED BY <4>1, <4>2
    <3>4. pc' = pc /\ playing' = playing /\ registered' = registered /\ dropped' = dropped
      BY <2>1 DEF device
    <3> QED BY <2>4, <3>1, <3>3, <3>4 DEF ChainInv, Voiced
  <2> QED BY <2>1, <2>2, <2>3, <2>4
<1>2. CASE Callback(p)
  <2>1. UNCHANGED <<pc, races, handles, device>> /\ callback[p]
        /\ callback' = [callback EXCEPT ![p] = FALSE] /\ Enqueue(p)
    BY <1>2 DEF Callback
  <2>2. SoundTypes' BY <2>1 DEF PcsOK, device, Enqueue
  <2>3. BuildInv => BuildInv' BY <2>1 DEF BuildInv, handles, device
  <2>4. ChainInv => ChainInv'
    BY <2>1 DEF ChainInv, device, Voiced, Enqueue, SLBuffers
  <2> QED BY <2>1, <2>2, <2>3, <2>4
<1> QED BY <1>1, <1>2

LEMMA PlayersStep == PlayersInv /\ [Next]_vars => PlayersInv'
<1> SUFFICES ASSUME PlayersInv, [Next]_vars PROVE PlayersInv' OBVIOUS
<1>0. PcsOK BY DEF PlayersInv, SoundTypes
<1>1. CASE ClearVM \/ StartSession BY <1>0, <1>1, StartsSilent, SilentKeeps
<1>2. CASE Render BY <1>0, <1>2, PicturesSilent, SilentKeeps
<1>3. ASSUME NEW s \in Sessions, Session(s) PROVE PlayersInv'
  <2>1. CASE Codec(s) \/ NullContext(s) \/ Publish(s) BY <1>0, <2>1, CodecSilent, SilentKeeps
  <2>2. CASE OpenSL(s) BY <2>2, BuildKeeps
  <2>3. CASE Video(s) BY <1>0, <2>3, PicturesSilent, SilentKeeps
  <2>4. CASE BufferPlayed(s) \/ Callback(s) BY <2>4, PlayingKeeps
  <2> QED BY <1>3, <2>1, <2>2, <2>3, <2>4 DEF Session
<1>4. CASE UNCHANGED vars
  BY <1>0, <1>4, SilentKeeps DEF vars, Silent, PcsOK
<1> QED BY <1>1, <1>2, <1>3, <1>4 DEF Next

\* However many sessions there are, each keeps its sound as long as no two build
\* their players at once: its callback is its own, with one buffer or one
\* callback under way, and nothing is dropped.
THEOREM SessionsSound == Spec => []("player" \notin races => SoundKept)
<1>1. PlayersInv => ("player" \notin races => SoundKept)
  BY DEF PlayersInv, SoundTypes, ChainInv, Voiced, SoundKept, Sounding
<1> QED BY <1>1, PlayersInit, PlayersStep, PTL DEF Spec

-----------------------------------------------------------------------------
(***************************************************************************)
(* What can end the process.                                               *)
(***************************************************************************)
Drawn == {"list", "copy", "unlock", "view"}

\* While no session is published in the middle of a frame, the frame that is
\* drawn is of one session, and so are its sizes.
SizeTypes ==
    /\ clip \in Playlists /\ view \in [Sessions -> Nat] /\ glsize \in Nat /\ texture \in Nat
    /\ \A s \in Sessions : pc[s] \in Opening => view[s] = 0 /\ pGlobalCtx # s
    /\ gl = "copy" => glpic \in Sessions

FrameInv ==
    /\ gl = "copy" => glpic = pGlobalCtx
    /\ pGlobalCtx # None =>
          /\ view[pGlobalCtx] \in {0, Size(pGlobalCtx)}
          /\ view[pGlobalCtx] # 0 => texture = view[pGlobalCtx]
          /\ gl \in {"mutex", "lock"} \union Drawn => glsize \in {view[pGlobalCtx], Size(pGlobalCtx)}

SizesInv == SizeTypes /\ ("context" \notin races => FrameInv)

LEMMA SizeNat == SizeTypes => \A s \in Sessions : Size(s) \in Nat
BY PlaylistsAssumption DEF SizeTypes, Size, Clip

LEMMA SizesInit == Init => SizesInv
BY DEF Init, Each, SizesInv, SizeTypes, FrameInv, Drawn, Sessions, None

\* What the steps that have nothing to do with a frame have in common.
Unseen ==
    /\ UNCHANGED <<clip, gl, frame, surface, pGlobalCtx>>
    /\ races \subseteq races'
    /\ \A s \in Sessions : pc'[s] \in Opening => pc[s] \in Opening

LEMMA UnseenKeeps == SizesInv /\ Unseen => SizesInv'
BY DEF SizesInv, SizeTypes, FrameInv, Unseen, frame, surface, Size

LEMMA ElsewhereUnseen ==
    ASSUME PcsOK,
           \/ ClearVM \/ StartSession
           \/ \E s \in Sessions : \/ Codec(s) \/ NullContext(s) \/ OpenSL(s) \/ Video(s)
                                   \/ BufferPlayed(s) \/ Callback(s)
    PROVE  Unseen
<1> USE DEF Unseen
<1>1. CASE ClearVM \/ StartSession
  BY <1>1, StartsApart DEF Apart, ClearVM, StartSession, StartsOnly
<1>2. ASSUME NEW s \in Sessions, Codec(s) PROVE Unseen
  BY <1>2, CodecApart
  DEF Apart, Codec, DestroyLock, CreateLock, AssignLock, OpenFails, OpenInput, FetchLock,
      Obtain, Enter, Entangled, Leave, OpensOnly
<1>3. ASSUME NEW s \in Sessions, NullContext(s) \/ OpenSL(s) \/ BufferPlayed(s) \/ Callback(s)
      PROVE Unseen
  BY <1>3, SoundApart
  DEF Apart, NullContext, OpenSL, CreateAudioPlayer, Realize, GetPlay, GetQueue,
      RegisterCallback, SetPlayState, FirstCallback, BufferPlayed, Callback, OpensOnly, SoundsOnly
<1>4. ASSUME NEW s \in Sessions, Video(s) PROVE Unseen
  BY <1>4, RaceGrows DEF Video, VideoLock, VideoPush, VideoNotify, Decode, FilmsOnly
<1> QED BY <1>1, <1>2, <1>3, <1>4

LEMMA PublishSized == ASSUME PcsOK, SizesInv, NEW s \in Sessions, Publish(s) PROVE SizesInv'
<1> USE DEF SizesInv
<1>1. Goto(s, "publish", "player") /\ pGlobalCtx' = s /\ UNCHANGED <<clip, gl, frame, surface>>
  BY DEF Publish
<1>2. pc[s] = "publish" /\ pc'[s] = "player" /\ \A r \in Sessions : r # s => pc'[r] = pc[r]
  BY <1>1, LockGoto DEF PCs
<1>3. "context" \notin races' => gl = "wait" BY DEF Publish, Race
<1>4. view[s] = 0 BY <1>2 DEF SizeTypes, Opening
<1>5. SizeTypes' BY <1>1, <1>2 DEF SizeTypes, frame, surface, Opening
<1>6. "context" \notin races' => FrameInv'
  BY <1>1, <1>3, <1>4 DEF FrameInv, frame, surface, Size, Drawn
<1> QED BY <1>5, <1>6

LEMMA RenderSized == ASSUME ThreadsOK, SizesInv, Render PROVE SizesInv'
<1> USE DEF SizesInv, SizeTypes, FrameInv, Draw, DrawsOnly, Drawn
<1>1. \A s \in Sessions : Size(s) \in Nat /\ s # None BY SizeNat DEF Sessions, None
<1>2. UNCHANGED <<clip, pc, pGlobalCtx, races>>
  BY DEF Render, DrawNothing, DrawFrame, RenderMutex, RenderLock, RenderNone, RenderPop,
         RenderCopy, RenderUnlock, RenderView, RenderUpload
<1>3. \A s \in Sessions : Size(s)' = Size(s) BY <1>2 DEF Size
<1>4. pGlobalCtx \in Sessions \union {None} /\ (gl # "wait" => pGlobalCtx \in Sessions)
  BY DEF ThreadsOK
<1>5. CASE DrawNothing BY <1>2, <1>3, <1>4, <1>5 DEF DrawNothing, frame, surface
<1>6. CASE DrawFrame BY <1>1, <1>2, <1>3, <1>4, <1>6 DEF DrawFrame, surface
<1>7. CASE RenderMutex BY <1>2, <1>3, <1>4, <1>7 DEF RenderMutex, surface
<1>8. CASE RenderLock BY <1>2, <1>3, <1>4, <1>8 DEF RenderLock, frame, surface
<1>9. CASE RenderNone BY <1>2, <1>3, <1>4, <1>9 DEF RenderNone, frame, surface
<1>10. CASE RenderPop BY <1>2, <1>3, <1>4, <1>10 DEF RenderPop, surface
<1>11. CASE RenderCopy BY <1>1, <1>2, <1>3, <1>4, <1>11 DEF RenderCopy, surface
<1>12. CASE RenderUnlock BY <1>2, <1>3, <1>4, <1>12 DEF RenderUnlock, surface
<1>13. CASE RenderView BY <1>1, <1>2, <1>3, <1>4, <1>13 DEF RenderView, frame
<1>14. CASE RenderUpload BY <1>1, <1>2, <1>3, <1>4, <1>14 DEF RenderUpload, surface
<1> QED BY <1>5, <1>6, <1>7, <1>8, <1>9, <1>10, <1>11, <1>12, <1>13, <1>14 DEF Render

LEMMA SizesStep == PcsOK /\ ThreadsOK /\ SizesInv /\ [Next]_vars => SizesInv'
<1> SUFFICES ASSUME PcsOK, ThreadsOK, SizesInv, [Next]_vars PROVE SizesInv' OBVIOUS
<1>1. CASE UNCHANGED vars BY <1>1, UnseenKeeps DEF vars, Unseen
<1>2. CASE Render BY <1>2, RenderSized
<1>3. ASSUME NEW s \in Sessions, Publish(s) PROVE SizesInv' BY <1>3, PublishSized
<1>4. ASSUME ClearVM \/ StartSession \/ \E s \in Sessions : Session(s) /\ ~Publish(s)
      PROVE SizesInv'
  BY <1>4, ElsewhereUnseen, UnseenKeeps DEF Session
<1> QED BY <1>1, <1>2, <1>3, <1>4 DEF Next

-----------------------------------------------------------------------------
SessionsInv == MutexInv /\ LockInv /\ PlayersInv /\ SizesInv

\* Nothing happens after a crash, and as long as no two sessions collide a step
\* crashes only on a file without sound or without pictures.
LEMMA CodecSafe ==
    ASSUME SessionsInv, races = {}, ~crashed, NEW s \in Sessions, Codec(s)
    PROVE  races' # {} \/ ~crashed'
<1> USE DEF SessionsInv
<1>1. ManagerInv /\ InsideInv /\ PcsOK BY DEF LockInv
<1>2. ASSUME DestroyLock(s), races' = {} PROVE ~crashed'
  <2>1. Registering \union Locking = {} BY <1>2 DEF DestroyLock, Race
  <2>2. \A r \in Sessions : pc[r] \notin Changing \union Holding BY <2>1, Free
  <2>3. taken = {} /\ (lockmgr_cb = "lockmgr" => codec_mutex \in Sessions)
    BY <1>1, <2>2 DEF ManagerInv, InsideInv
  <2>4. ~(lockmgr_cb = "lockmgr" /\ codec_mutex \in taken \union {None})
    BY <2>3 DEF Sessions, None
  <2> QED BY <1>2, <2>4 DEF DestroyLock, Undefined
<1>3. CASE CreateLock(s) \/ AssignLock(s) \/ OpenFails(s) \/ OpenInput(s) \/ FetchLock(s)
  BY <1>3 DEF CreateLock, AssignLock, OpenFails, OpenInput, FetchLock
<1>4. ASSUME pc[s] \in Holding \union {"obtain"}
      PROVE  lockmgr_cb = "lockmgr" /\ codec_mutex \in Sessions /\ codec_mutex # None
  <2>1. \A r \in Sessions : pc[r] \notin Changing
    BY <1>1, <1>4 DEF ManagerInv, Busy, Changing, Holding
  <2> QED BY <1>1, <1>4, <2>1 DEF ManagerInv, Ready, Sessions, None
<1>5. ASSUME Obtain(s) PROVE ~crashed'
  <2>1. pc[s] = "obtain" BY <1>5 DEF Obtain, Goto
  <2>2. ~(waits[s] = None \/ waits[s] # codec_mutex) BY <1>1, <1>4, <2>1 DEF ManagerInv
  <2> QED BY <1>5, <2>2 DEF Obtain, Undefined
<1>6. ASSUME Enter(s) PROVE ~crashed'
  <2>1. pc[s] = "enter" /\ crashed' = ff_avcodec_locked BY <1>6 DEF Enter, Goto
  <2>2. \A r \in Sessions : pc[r] # "leave" BY <1>1, <2>1 DEF InsideInv, Holding
  <2> QED BY <1>1, <2>1, <2>2 DEF InsideInv
<1>7. ~Entangled(s) BY <1>1 DEF Entangled, InsideInv, Holding
<1>8. ASSUME Leave(s) PROVE ~crashed'
  <2>1. pc[s] = "leave" BY <1>8 DEF Leave, Proceed, Goto
  <2>2. ff_avcodec_locked /\ codec_mutex # None BY <1>1, <1>4, <2>1 DEF InsideInv, Holding
  <2> QED BY <1>8, <2>2 DEF Leave, ReleaseLock, Undefined
<1> QED BY <1>2, <1>3, <1>5, <1>6, <1>7, <1>8 DEF Codec

LEMMA OpenSLSafe ==
    ASSUME SessionsInv, races = {}, ~crashed, NEW s \in Sessions, OpenSL(s) PROVE ~crashed'
<1>1. BuildInv BY DEF SessionsInv, PlayersInv
<1>2. s # None BY DEF Sessions, None
<1>3. CASE CreateAudioPlayer(s) \/ Realize(s) \/ GetPlay(s) \/ GetQueue(s)
  BY <1>3 DEF CreateAudioPlayer, Realize, GetPlay, GetQueue
<1>4. CASE RegisterCallback(s) BY <1>1, <1>2, <1>4 DEF RegisterCallback, Goto, BuildInv
<1>5. CASE SetPlayState(s) BY <1>1, <1>2, <1>5 DEF SetPlayState, Goto, BuildInv
<1>6. CASE FirstCallback(s) BY <1>1, <1>2, <1>6 DEF FirstCallback, Goto, BuildInv
<1> QED BY <1>3, <1>4, <1>5, <1>6 DEF OpenSL

LEMMA RenderSafe == ASSUME SessionsInv, races = {}, ~crashed, Render PROVE ~crashed'
<1>1. FrameInv /\ SizeTypes /\ ThreadsOK BY DEF SessionsInv, SizesInv, MutexInv
<1>2. \A s \in Sessions : Size(s) \in Nat /\ s # None BY <1>1, SizeNat DEF Sessions, None
<1>3. CASE RenderCopy
  <2>1. glpic = pGlobalCtx /\ pGlobalCtx \in Sessions
    BY <1>1, <1>3 DEF RenderCopy, Draw, FrameInv, ThreadsOK
  <2>2. ~(Size(glpic) > Size(pGlobalCtx)) BY <1>2, <2>1
  <2> QED BY <1>3, <2>2 DEF RenderCopy, Undefined
<1>4. CASE RenderUpload
  <2>1. pGlobalCtx \in Sessions BY <1>1, <1>4 DEF RenderUpload, Draw, ThreadsOK
  <2>2. ~(view[pGlobalCtx] > Size(pGlobalCtx) \/ view[pGlobalCtx] > texture)
    BY <1>1, <1>2, <2>1 DEF FrameInv, SizeTypes
  <2> QED BY <1>4, <2>2 DEF RenderUpload, Undefined
<1> QED BY <1>3, <1>4 DEF Render, DrawNothing, DrawFrame, RenderMutex, RenderLock, RenderNone,
          RenderPop, RenderUnlock, RenderView

LEMMA Alive == Next => ~crashed
BY DEF Next, ClearVM, StartSession, Render, DrawNothing, DrawFrame, RenderMutex, RenderLock,
       RenderNone, RenderPop, RenderCopy, RenderUnlock, RenderView, RenderUpload, Draw,
       Session, Codec, DestroyLock, CreateLock, AssignLock, OpenFails, OpenInput, FetchLock,
       Obtain, Enter, Entangled, Leave, Proceed, NullContext, Publish, OpenSL,
       CreateAudioPlayer, Realize, GetPlay, GetQueue, RegisterCallback, SetPlayState,
       FirstCallback, BufferPlayed, Callback, Video, VideoLock, VideoPush, VideoNotify,
       Decode, Goto

LEMMA RacesGrow == Next => races \subseteq races'
BY RaceGrows
DEF Next, ClearVM, StartSession, Render, DrawNothing, DrawFrame, RenderMutex, RenderLock,
    RenderNone, RenderPop, RenderCopy, RenderUnlock, RenderView, RenderUpload, Draw, DrawsOnly,
    Session, Codec, DestroyLock, CreateLock, AssignLock, OpenFails, OpenInput, FetchLock,
    Obtain, Enter, Entangled, Leave, NullContext, Publish, OpenSL,
    CreateAudioPlayer, Realize, GetPlay, GetQueue, RegisterCallback, SetPlayState,
    FirstCallback, BufferPlayed, Callback, Video, VideoLock, VideoPush, VideoNotify

LEMMA KillStep == SessionsInv /\ OnlyRacesKill /\ [Next]_vars => OnlyRacesKill'
<1> SUFFICES ASSUME SessionsInv, OnlyRacesKill, [Next]_vars PROVE OnlyRacesKill' OBVIOUS
<1>1. CASE UNCHANGED vars BY <1>1 DEF vars, OnlyRacesKill
<1>2. CASE races' # {} BY <1>2 DEF OnlyRacesKill
<1>3. ASSUME Next, races' = {} PROVE OnlyRacesKill'
  <2>1. ~crashed /\ races = {} BY <1>3, Alive, RacesGrow
  <2>2. CASE ClearVM \/ StartSession
    BY <2>1, <2>2 DEF ClearVM, StartSession, StartsOnly, OnlyRacesKill
  <2>3. CASE Render BY <2>1, <2>3, RenderSafe DEF OnlyRacesKill
  <2>4. ASSUME NEW s \in Sessions, Session(s) PROVE OnlyRacesKill'
    <3>1. CASE Codec(s) BY <1>3, <2>1, <3>1, CodecSafe DEF OnlyRacesKill
    <3>2. CASE NullContext(s)
      <4>1. Goto(s, "publish", "null") /\ PcsOK
        BY <3>2 DEF NullContext, SessionsInv, LockInv
      <4>2. pc'[s] = "null" BY <4>1, LockGoto DEF PCs
      <4> QED BY <4>2 DEF OnlyRacesKill
    <3>3. CASE OpenSL(s) BY <2>1, <3>3, OpenSLSafe DEF OnlyRacesKill
    <3>4. CASE Publish(s) \/ BufferPlayed(s) \/ Callback(s)
      BY <2>1, <3>4 DEF Publish, BufferPlayed, Callback, OnlyRacesKill
    <3>5. CASE Video(s)
      BY <1>3, <2>1, <3>5 DEF Video, VideoLock, VideoPush, VideoNotify, Race, OnlyRacesKill
    <3> QED BY <2>4, <3>1, <3>2, <3>3, <3>4, <3>5 DEF Session
  <2> QED BY <1>3, <2>2, <2>3, <2>4 DEF Next
<1> QED BY <1>1, <1>2, <1>3

\* Clicking again is safe, however often it is done, as long as the sessions do not
\* collide at one of the four places: nothing but a file without sound or
\* without pictures then ends the process.
THEOREM CalmSessionsLive == Spec => []OnlyRacesKill
<1>1. Init => SessionsInv /\ OnlyRacesKill
  BY MutexInit, LockInit, PlayersInit, SizesInit DEF SessionsInv, OnlyRacesKill, Init
<1>2. SessionsInv /\ [Next]_vars => SessionsInv'
  BY MutexStep, LockStep, PlayersStep, SizesStep DEF SessionsInv, MutexInv, ThreadsOK
<1> QED BY <1>1, <1>2, KillStep, PTL DEF Spec
=============================================================================
