------------------------- MODULE MediaPlayerProofs -------------------------
(***************************************************************************)
(* Proofs about MediaPlayer, for every set of containers, every decoder    *)
(* delay and every outcome of undefined behaviour.                         *)
(***************************************************************************)
EXTENDS MediaPlayer, SequenceTheorems, FiniteSetTheorems, TLAPS

(***************************************************************************)
(* The mutex.                                                              *)
(***************************************************************************)
LEMMA AcquireKeepsLock ==
    ASSUME PcsOK, LockDiscipline, NEW t \in Threads, NEW from, NEW to \in Critical,
           Acquire(t, from, to)
    PROVE  LockDiscipline'
BY DEF PcsOK, LockDiscipline, Acquire, Free, Threads, NoThread

LEMMA ReleaseKeepsLock ==
    ASSUME PcsOK, LockDiscipline, NEW t \in Threads, NEW from \in Critical,
           NEW to, to \notin Critical, Release(t, from, to)
    PROVE  LockDiscipline'
BY DEF PcsOK, LockDiscipline, Release, Threads, NoThread

LEMMA GotoKeepsLock ==
    ASSUME PcsOK, LockDiscipline, NEW t \in Threads, NEW from, NEW to,
           from \notin Critical, to \notin Critical, Goto(t, from, to)
    PROVE  LockDiscipline'
BY DEF PcsOK, LockDiscipline, Goto, Threads

LEMMA InitType == Init => TypeOK
<1>1. Init => PcsOK
  BY DEF Init, PcsOK, Threads, PlayPcs, VideoPcs, AudioPcs, GLPcs, NoThread
<1>2. Init => SessionOK
  <2>. SUFFICES ASSUME Init PROVE SessionOK
    OBVIOUS
  <2>1. media \in Medias /\ Len(media.pkts) \in Nat
    BY MediasAssumption DEF Init
  <2>2. opened \in BOOLEAN /\ ctx \in BOOLEAN /\ crashed \in BOOLEAN
        /\ dirty \in BOOLEAN /\ view \in BOOLEAN
    BY Zenon DEF Init
  <2>3. /\ nread \in 0 .. Len(media.pkts)
        /\ audio_pts \in Int /\ yuv \in Ids \union {Nothing}
    BY <2>1 DEF Init
  <2>. QED BY <2>1, <2>2, <2>3 DEF SessionOK
<1>3. Init => QueuesOK
  <2>. SUFFICES ASSUME Init PROVE QueuesOK
    OBVIOUS
  <2>. USE DEF Init
  <2>1. hand \in [Threads -> Ids \union {Nothing}]
    OBVIOUS
  <2>2. /\ video_queue \in Seq(Ids) /\ audio_queue \in Seq(Ids)
        /\ audio_pkt \in Seq(Ids) /\ shown \in Seq(Ids) /\ heard \in Seq(Ids)
    OBVIOUS
  <2>3. video_pkt \in Seq(Frames) /\ slq \in Seq(Buffers)
    OBVIOUS
  <2>4. decoder \in SUBSET Ids /\ lost \in SUBSET Ids
    OBVIOUS
  <2>5. vp \in Frames \union {NoFrame}
    OBVIOUS
  <2>. QED BY <2>1, <2>2, <2>3, <2>4, <2>5 DEF QueuesOK
<1>4. Init => HandsOK
  BY DEF Init, HandsOK, Threads, Runners
<1>. QED BY <1>1, <1>2, <1>3, <1>4 DEF TypeOK

(***************************************************************************)
(* Program counters and lock owner: they never leave their ranges.         *)
(***************************************************************************)
LEMMA NextPcs == ASSUME PcsOK, Next PROVE PcsOK'
<1>. USE DEF PcsOK, Threads, Runners, Goto, Acquire, Release, PlayPcs, VideoPcs,
             AudioPcs, CallbackPcs, GLPcs, NoThread
<1>1. CASE Play
  BY <1>1 DEF Play, OpenFails, Open, Publish, Spawn, ReadFrame, PutLock, Put, Join
<1>2. CASE Video
  BY <1>2 DEF Video, VideoLock, VideoPop, VideoSized, VideoNoPicture, VideoPicture,
              VideoPushLock, VideoPush, VideoNotify
<1>3. CASE Audio
  BY <1>3 DEF Audio, AudioLock, AudioPop, AudioRejected, AudioDecoded, AudioPushLock,
              AudioPush
<1>4. CASE BufferPlayed
  BY <1>4 DEF BufferPlayed
<1>5. ASSUME NEW t \in Runners, Callback(t) PROVE PcsOK'
  BY <1>5 DEF Callback, CallbackLock, CallbackPop, CallbackClockLock, CallbackClock,
              CallbackEnqueue, CallbackFree
<1>6. CASE Render
  BY <1>6 DEF Render, DrawFrame, RenderLock, RenderEmpty, RenderNotDue, RenderDue,
              RenderDraw
<1>. QED BY <1>1, <1>2, <1>3, <1>4, <1>5, <1>6 DEF Next

(***************************************************************************)
(* The container never changes, so neither do the sets named after it.     *)
(***************************************************************************)
LEMMA MediaFixed == ASSUME Next PROVE media' = media
BY DEF Next, Play, Video, Audio, Render, Callback, OpenFails, Open, Publish, Spawn,
   ReadFrame, PutLock, Put, Join, VideoLock, VideoPop, VideoSized, VideoNoPicture,
   VideoPicture, VideoPushLock, VideoPush, VideoNotify, AudioLock, AudioPop,
   AudioRejected, AudioDecoded, AudioPushLock, AudioPush, BufferPlayed, CallbackLock,
   CallbackPop, CallbackClockLock, CallbackClock, CallbackEnqueue, CallbackFree,
   DrawFrame, RenderLock, RenderEmpty, RenderNotDue, RenderDue, RenderDraw, Acquire,
   session

LEMMA SetsFixed ==
    ASSUME Next
    PROVE  Ids' = Ids /\ Frames' = Frames /\ Buffers' = Buffers
<1>1. Ids' = Ids
  BY MediaFixed DEF Ids
<1>. QED BY <1>1 DEF Frames, Buffers

LEMMA MediaType ==
    ASSUME SessionOK
    PROVE  /\ Len(media.pkts) \in Nat
           /\ Ids \subseteq Nat
           /\ \A p \in Ids : p # Nothing /\ Pts(p) \in Int /\ At(p) \in Int
           /\ \A p \in Ids : Kind(p) \in Kinds
<1>1. media.pkts \in Seq(Packets) /\ media.none \in [Kinds -> {x \in Int : x < 0}]
  BY MediasAssumption DEF SessionOK
<1>2. \A p \in Ids : media.pkts[p] \in Packets
  BY <1>1 DEF Ids
<1>3. \A p \in Ids : Kind(p) \in Kinds /\ At(p) \in Int
  BY <1>2 DEF Kind, At, Packets
<1>4. \A k \in Kinds : None(k) \in Int
  BY <1>1 DEF None
<1>5. \A p \in Ids : Pts(p) \in Int
  BY <1>3, <1>4 DEF Pts
<1>. QED BY <1>1, <1>3, <1>5 DEF Ids, Nothing

(***************************************************************************)
(* Scalars of the session.                                                 *)
(***************************************************************************)
LEMMA NextSession == ASSUME TypeOK, Next PROVE SessionOK'
<1>0. /\ media' = media /\ Ids' = Ids
      /\ Len(media.pkts) \in Nat
      /\ \A p \in Ids : Pts(p) \in Int
  BY MediaFixed, SetsFixed, MediaType DEF TypeOK
<1>. USE <1>0 DEF TypeOK, SessionOK, Acquire, session, videoPath, audioPath, screen,
         Undefined
<1>1. CASE Play
  <2>1. CASE ReadFrame
    <3>1. nread' \in 0 .. Len(media.pkts)
      BY <2>1 DEF ReadFrame
    <3>. QED BY <2>1, <3>1 DEF ReadFrame
  <2>. QED
    BY <1>1, <2>1 DEF Play, OpenFails, Open, Publish, Spawn, PutLock, Put, Join
<1>2. CASE Video
  BY <1>2 DEF Video, VideoLock, VideoPop, VideoSized, VideoNoPicture, VideoPicture,
              VideoPushLock, VideoPush, VideoNotify
<1>3. CASE Audio
  BY <1>3 DEF Audio, AudioLock, AudioPop, AudioRejected, AudioDecoded, AudioPushLock,
              AudioPush
<1>4. CASE BufferPlayed
  BY <1>4 DEF BufferPlayed
<1>5. ASSUME NEW t \in Runners, Callback(t) PROVE SessionOK'
  <2>1. CASE CallbackClock(t)
    <3>1. hand[t] \in Ids
      BY <2>1 DEF CallbackClock, Release, HandsOK
    <3>. QED BY <2>1, <3>1 DEF CallbackClock
  <2>. QED 
    BY <1>5, <2>1 DEF Callback, CallbackLock, CallbackPop, CallbackClockLock,
              CallbackEnqueue, CallbackFree
<1>6. CASE Render
  <2>1. CASE RenderDue
    <3>1. Head(video_pkt) \in Frames
      BY <2>1 DEF RenderDue, QueuesOK
    <3>2. yuv' \in Ids
      BY <2>1, <3>1 DEF RenderDue, Frames
    <3>. QED BY <2>1, <3>2 DEF RenderDue
  <2>. QED
    BY <1>6, <2>1 DEF Render, DrawFrame, RenderLock, RenderEmpty, RenderNotDue,
              RenderDraw
<1>. QED BY <1>1, <1>2, <1>3, <1>4, <1>5, <1>6 DEF Next

(***************************************************************************)
(* Queues and hands.                                                       *)
(***************************************************************************)
LEMMA QueueTypes ==
    ASSUME QueuesOK
    PROVE  /\ video_queue # <<>> => /\ Head(video_queue) \in Ids
                                    /\ Tail(video_queue) \in Seq(Ids)
           /\ audio_queue # <<>> => /\ Head(audio_queue) \in Ids
                                    /\ Tail(audio_queue) \in Seq(Ids)
           /\ audio_pkt # <<>> => /\ Head(audio_pkt) \in Ids
                                  /\ Tail(audio_pkt) \in Seq(Ids)
           /\ video_pkt # <<>> => /\ Head(video_pkt) \in Frames
                                  /\ Tail(video_pkt) \in Seq(Frames)
                                  /\ Head(video_pkt).pic \in Ids
           /\ slq # <<>> => /\ Head(slq) \in Buffers
                            /\ Tail(slq) \in Seq(Buffers)
                            /\ Head(slq).id \in Ids \union {Nothing}
<1>1. \A S : \A q \in Seq(S) : q # <<>> => Head(q) \in S /\ Tail(q) \in Seq(S)
  OBVIOUS
<1>2. \A f \in Frames : f.pic \in Ids
  BY DEF Frames
<1>3. \A b \in Buffers : b.id \in Ids \union {Nothing}
  BY DEF Buffers
<1>. QED BY <1>1, <1>2, <1>3, Zenon DEF QueuesOK

LEMMA PlayQueues == ASSUME TypeOK, Next, Play PROVE QueuesOK' /\ HandsOK'
<1>. USE SetsFixed DEF TypeOK, QueuesOK, HandsOK, PcsOK, Goto, Acquire, Release, Take, Drop, PushBack, PopFront,
         session, videoPath, audioPath, screen, Threads, Runners
<1>1. CASE OpenFails BY <1>1 DEF OpenFails
<1>2. CASE Open BY <1>2 DEF Open
<1>3. CASE Publish BY <1>3 DEF Publish
<1>4. CASE Spawn BY <1>4 DEF Spawn
<1>5. CASE ReadFrame
  <2>1. nread' \in Ids
    BY <1>5, MediaType DEF ReadFrame, SessionOK, Ids
  <2>. QED BY <1>5, <2>1 DEF ReadFrame
<1>6. CASE PutLock BY <1>6 DEF PutLock
<1>7. CASE Put
  <2>1. hand["play"] \in Ids
    BY <1>7 DEF Put
  <2>2. video_queue' \in Seq(Ids) /\ audio_queue' \in Seq(Ids)
    <3>1. /\ Append(video_queue, hand["play"]) \in Seq(Ids)
          /\ Append(audio_queue, hand["play"]) \in Seq(Ids)
      BY <2>1
    <3>2. /\ video_queue' \in {video_queue, Append(video_queue, hand["play"])}
          /\ audio_queue' \in {audio_queue, Append(audio_queue, hand["play"])}
      BY <1>7, Zenon DEF Put
    <3>. QED BY <3>1, <3>2
  <2>3. hand' \in [Threads -> Ids \union {Nothing}]
    BY <1>7 DEF Put
  <2>. QED BY <1>7, <2>2, <2>3 DEF Put
<1>8. CASE Join BY <1>8 DEF Join
<1>. QED BY <1>1, <1>2, <1>3, <1>4, <1>5, <1>6, <1>7, <1>8 DEF Play

LEMMA VideoQueues == ASSUME TypeOK, Next, Video PROVE QueuesOK' /\ HandsOK'
<1>. USE SetsFixed DEF TypeOK, QueuesOK, HandsOK, PcsOK, Goto, Acquire, Release, Take, Drop, PushBack, PopFront,
         session, videoPath, audioPath, screen, Threads, Runners
<1>1. CASE VideoLock BY <1>1 DEF VideoLock
<1>2. CASE VideoPop BY <1>2, QueueTypes DEF VideoPop
<1>3. CASE VideoSized BY <1>3 DEF VideoSized
<1>4. CASE VideoNoPicture BY <1>4 DEF VideoNoPicture
<1>5. CASE VideoPicture
  <2>1. vp' \in Frames /\ decoder' \in SUBSET Ids
    BY <1>5, MediaType DEF VideoPicture, Earliest, Label, Frames
  <2>. QED BY <1>5, <2>1 DEF VideoPicture
<1>6. CASE VideoPushLock BY <1>6 DEF VideoPushLock
<1>7. CASE VideoPush
  <2>1. video_pkt' \in Seq(Frames)
    BY <1>7 DEF VideoPush
  <2>. QED BY <1>7, <2>1 DEF VideoPush
<1>8. CASE VideoNotify BY <1>8 DEF VideoNotify
<1>. QED BY <1>1, <1>2, <1>3, <1>4, <1>5, <1>6, <1>7, <1>8 DEF Video

LEMMA AudioQueues == ASSUME TypeOK, Next, Audio PROVE QueuesOK' /\ HandsOK'
<1>. USE SetsFixed DEF TypeOK, QueuesOK, HandsOK, PcsOK, Goto, Acquire, Release, Take, Drop, PushBack, PopFront,
         session, videoPath, audioPath, screen, Threads, Runners
<1>1. CASE AudioLock BY <1>1 DEF AudioLock
<1>2. CASE AudioPop
  <2>1. CASE audio_queue = <<>> BY <1>2, <2>1 DEF AudioPop
  <2>2. CASE audio_queue # <<>>
    <3>1. audio_queue' \in Seq(Ids) /\ Head(audio_queue) \in Ids
      BY <1>2, <2>2, QueueTypes DEF AudioPop
    <3>. QED BY <1>2, <2>2, <3>1 DEF AudioPop
  <2>. QED BY <2>1, <2>2
<1>3. CASE AudioRejected BY <1>3 DEF AudioRejected
<1>4. CASE AudioDecoded BY <1>4 DEF AudioDecoded
<1>5. CASE AudioPushLock BY <1>5 DEF AudioPushLock
<1>6. CASE AudioPush
  <2>1. audio_pkt' \in Seq(Ids)
    BY <1>6 DEF AudioPush
  <2>. QED BY <1>6, <2>1 DEF AudioPush
<1>. QED BY <1>1, <1>2, <1>3, <1>4, <1>5, <1>6 DEF Audio

LEMMA FunctionIsSequence ==
    ASSUME NEW S, NEW n \in Nat, NEW f \in [1 .. n -> S]
    PROVE  f \in Seq(S)
BY SeqDef

LEMMA CallbackQueues ==
    ASSUME TypeOK, Next, NEW t \in Runners, Callback(t) PROVE QueuesOK' /\ HandsOK'
<1>. USE SetsFixed DEF TypeOK, QueuesOK, HandsOK, PcsOK, Goto, Acquire, Release, Take, Drop, PushBack, PopFront,
         session, videoPath, audioPath, screen, Threads, Runners
<1>1. CASE CallbackLock(t) BY <1>1 DEF CallbackLock
<1>2. CASE CallbackPop(t)
  <2>1. CASE audio_pkt = <<>> BY <1>2, <2>1 DEF CallbackPop
  <2>2. CASE audio_pkt # <<>>
    <3>1. audio_pkt' \in Seq(Ids) /\ Head(audio_pkt) \in Ids
      BY <1>2, <2>2, QueueTypes DEF CallbackPop
    <3>2. QueuesOK' BY <1>2, <2>2, <3>1 DEF CallbackPop
    <3>. QED BY <1>2, <2>2, <3>1, <3>2 DEF CallbackPop
  <2>. QED BY <2>1, <2>2
<1>3. CASE CallbackClockLock(t) BY <1>3 DEF CallbackClockLock
<1>4. CASE CallbackClock(t) BY <1>4 DEF CallbackClock
<1>5. CASE CallbackEnqueue(t)
  <2>1. [id |-> hand[t], by |-> t, freed |-> FALSE] \in Buffers
    BY DEF Buffers
  <2>2. slq' \in Seq(Buffers)
    BY <1>5, <2>1 DEF CallbackEnqueue
  <2>. QED BY <1>5, <2>2 DEF CallbackEnqueue
<1>6. CASE CallbackFree(t)
  <2>1. \A b \in Buffers : [b EXCEPT !.freed = TRUE] \in Buffers
    BY Zenon DEF Buffers
  <2>2. slq' \in Seq(Buffers)
    <3>1. Len(slq) \in Nat /\ DOMAIN slq = 1 .. Len(slq)
          /\ \A i \in 1 .. Len(slq) : slq[i] \in Buffers
      OBVIOUS
    <3>2. slq' \in [1 .. Len(slq) -> Buffers]
      BY <1>6, <2>1, <3>1, Zenon DEF CallbackFree
    <3>. QED BY <3>1, <3>2, FunctionIsSequence
  <2>. QED BY <1>6, <2>2 DEF CallbackFree
<1>. QED BY <1>1, <1>2, <1>3, <1>4, <1>5, <1>6 DEF Callback

LEMMA OtherQueues == ASSUME TypeOK, Next, BufferPlayed \/ Render PROVE QueuesOK' /\ HandsOK'
<1>. USE SetsFixed, QueueTypes DEF TypeOK, QueuesOK, HandsOK, PcsOK, Goto, Acquire, Release,
         Take, Drop, PushBack, PopFront, session, videoPath, audioPath, screen, Threads, Runners
<1>1. CASE BufferPlayed
  <2>1. heard' \in Seq(Ids)
    BY <1>1 DEF BufferPlayed
  <2>. QED BY <1>1, <2>1 DEF BufferPlayed
<1>2. CASE DrawFrame BY <1>2 DEF DrawFrame
<1>3. CASE RenderLock BY <1>3 DEF RenderLock
<1>4. CASE RenderEmpty BY <1>4 DEF RenderEmpty
<1>5. CASE RenderNotDue BY <1>5 DEF RenderNotDue
<1>6. CASE RenderDue
  <2>1. shown' \in Seq(Ids)
    BY <1>6 DEF RenderDue
  <2>. QED BY <1>6, <2>1 DEF RenderDue
<1>7. CASE RenderDraw BY <1>7 DEF RenderDraw
<1>. QED BY <1>1, <1>2, <1>3, <1>4, <1>5, <1>6, <1>7 DEF Render

(***************************************************************************)
(* Type correctness: every queue holds what its reader expects, and every  *)
(* thread that is about to work on a packet holds one.                     *)
(***************************************************************************)
THEOREM TypeCorrect == Spec => []TypeOK
<1>1. TypeOK /\ [Next]_vars => TypeOK'
  <2>1. CASE Next
    <3>. SUFFICES ASSUME TypeOK, Next PROVE TypeOK'
      BY <2>1
    <3>1. PcsOK' /\ SessionOK'
      BY NextPcs, NextSession DEF TypeOK
    <3>2. QueuesOK' /\ HandsOK'
      BY PlayQueues, VideoQueues, AudioQueues, CallbackQueues, OtherQueues DEF Next
    <3>. QED BY <3>1, <3>2 DEF TypeOK
  <2>2. CASE UNCHANGED vars
    BY <2>2 DEF TypeOK, PcsOK, SessionOK, QueuesOK, HandsOK, Ids, Frames, Buffers, vars,
                session, videoPath, audioPath, screen
  <2>. QED BY <2>1, <2>2
<1>. QED BY InitType, <1>1, PTL DEF Spec

(***************************************************************************)
(* No two threads touch the lists at once, and no path of the code leaves  *)
(* a critical section with the mutex held.                                 *)
(***************************************************************************)
LEMMA NextLock == ASSUME TypeOK, LockDiscipline, Next PROVE LockDiscipline'
<1>. USE AcquireKeepsLock, ReleaseKeepsLock, GotoKeepsLock DEF TypeOK, Threads, Critical
<1>1. CASE Play
  <2>1. CASE Spawn
    BY <2>1 DEF Spawn, LockDiscipline, PcsOK
  <2>. QED BY <1>1, <2>1 DEF Play, OpenFails, Open, Publish, ReadFrame, PutLock, Put, Join
<1>2. CASE Video
  BY <1>2 DEF Video, VideoLock, VideoPop, VideoSized, VideoNoPicture, VideoPicture,
              VideoPushLock, VideoPush, VideoNotify
<1>3. CASE Audio
  BY <1>3 DEF Audio, AudioLock, AudioPop, AudioRejected, AudioDecoded, AudioPushLock,
              AudioPush
<1>4. CASE BufferPlayed
  BY <1>4 DEF BufferPlayed
<1>5. ASSUME NEW t \in Runners, Callback(t) PROVE LockDiscipline'
  BY <1>5 DEF Callback, CallbackLock, CallbackPop, CallbackClockLock, CallbackClock,
              CallbackEnqueue, CallbackFree, Runners
<1>6. CASE Render
  BY <1>6 DEF Render, DrawFrame, RenderLock, RenderEmpty, RenderNotDue, RenderDue,
              RenderDraw
<1>. QED BY <1>1, <1>2, <1>3, <1>4, <1>5, <1>6 DEF Next

THEOREM MutexHeld == Spec => []LockDiscipline
<1>1. Init => LockDiscipline
  BY DEF Init, LockDiscipline, Threads, NoThread, Critical
<1>2. TypeOK /\ LockDiscipline /\ [Next]_vars => LockDiscipline'
  <2>1. CASE UNCHANGED vars
    BY <2>1 DEF LockDiscipline, vars
  <2>. QED BY <2>1, NextLock
<1>. QED BY <1>1, <1>2, TypeCorrect, PTL DEF Spec

(***************************************************************************)
(* The chain of OpenSL callbacks: one buffer queued or one callback on its *)
(* way to Enqueue.  The state of the two callback runners and the length   *)
(* of the queue are all it depends on.                                     *)
(***************************************************************************)
Owed == IF Started THEN 1 ELSE 0

LEMMA ChainTypes ==
    /\ OneBufferChain <=> Len(slq) + Pending("play") + Pending("sl") = Owed
    /\ OneBufferChain' <=> Len(slq)' + Pending("play")' + Pending("sl")' = Owed'
    /\ Owed \in {0, 1} /\ Owed' \in {0, 1}
    /\ \A t : Pending(t) \in {0, 1} /\ Pending(t)' \in {0, 1}
BY DEF OneBufferChain, Owed, Pending

LEMMA PlayChain == ASSUME TypeOK, OneBufferChain, Play PROVE OneBufferChain'
<1>. USE DEF OneBufferChain, Pending, Started, TypeOK, PcsOK, Threads, CallbackPcs,
         PlayPcs, Goto, Acquire, Release, audioPath
<1>1. Len(slq) \in Nat
  BY DEF QueuesOK
<1>2. slq' = slq /\ pc["sl"]' = pc["sl"]
  BY DEF Play, OpenFails, Open, Publish, Spawn, ReadFrame, PutLock, Put, Join
<1>3. \/ pc["play"] \in PlayPcs \ {"spawn", "open", "publish"} /\ pc["play"]' \in PlayPcs \ {"spawn", "open", "publish", "failed"}
      \/ pc["play"] = "open" /\ pc["play"]' \in {"publish", "failed"}
      \/ pc["play"] = "publish" /\ pc["play"]' = "spawn"
      \/ pc["play"] = "spawn" /\ pc["play"]' = "cbLock"
  BY DEF Play, OpenFails, Open, Publish, Spawn, ReadFrame, PutLock, Put, Join
<1>4. pc["play"] # "failed"
  BY DEF Play, OpenFails, Open, Publish, Spawn, ReadFrame, PutLock, Put, Join
<1>5. Pending("sl")' = Pending("sl") /\ Pending("play") = 0
  BY <1>2, <1>3
<1>6. CASE pc["play"] = "spawn"
  <2>1. Pending("play")' = 1 /\ Owed = 0 /\ Owed' = 1
    BY <1>3, <1>6 DEF Owed
  <2>. HIDE DEF Pending, OneBufferChain
  <2>. QED BY <1>1, <1>2, <1>5, <2>1, ChainTypes
<1>7. CASE pc["play"] # "spawn"
  <2>1. Pending("play")' = 0 /\ Owed' = Owed
    BY <1>3, <1>4, <1>7 DEF Owed
  <2>. HIDE DEF Pending, OneBufferChain
  <2>. QED BY <1>1, <1>2, <1>5, <2>1, ChainTypes
<1>. QED BY <1>6, <1>7

LEMMA CallbackChain ==
    ASSUME TypeOK, OneBufferChain, NEW t \in Runners, Callback(t)
    PROVE  OneBufferChain'
<1>. USE DEF OneBufferChain, Pending, Started, TypeOK, PcsOK, Threads, Runners, CallbackPcs,
         PlayPcs, Goto, Acquire, Release, audioPath
<1>1. Len(slq) \in Nat
  BY DEF QueuesOK
<1>2. CASE CallbackEnqueue(t)
  <2>1. Len(slq) = 0
    <3>1. pc[t] = "cbEnqueue"
      BY <1>2 DEF CallbackEnqueue
    <3>2. Pending(t) = 1
      BY <3>1
    <3>. HIDE DEF Pending, OneBufferChain
    <3>. QED BY <1>1, <3>2, ChainTypes
  <2>2. Len(slq') = 1
    BY <1>2, <2>1 DEF CallbackEnqueue, SLBuffers, QueuesOK
  <2>. QED BY <1>2, <2>1, <2>2 DEF CallbackEnqueue
<1>3. CASE CallbackFree(t)
  <2>1. Len(slq') = Len(slq)
    BY <1>3 DEF CallbackFree, QueuesOK
  <2>. QED BY <1>1, <1>3, <2>1 DEF CallbackFree
<1>4. CASE CallbackLock(t) BY <1>1, <1>4 DEF CallbackLock
<1>5. CASE CallbackPop(t) BY <1>1, <1>5 DEF CallbackPop
<1>6. CASE CallbackClockLock(t) BY <1>1, <1>6 DEF CallbackClockLock
<1>7. CASE CallbackClock(t) BY <1>1, <1>7 DEF CallbackClock
<1>. QED BY <1>2, <1>3, <1>4, <1>5, <1>6, <1>7 DEF Callback

LEMMA OtherChain ==
    ASSUME TypeOK, OneBufferChain, Video \/ Audio \/ Render \/ BufferPlayed
    PROVE  OneBufferChain'
<1>. USE DEF OneBufferChain, Pending, Started, TypeOK, PcsOK, Threads, CallbackPcs, Goto, Acquire,
         Release, audioPath
<1>1. CASE Video \/ Audio \/ Render
  <2>1. slq' = slq /\ pc["play"]' = pc["play"] /\ pc["sl"]' = pc["sl"]
    BY <1>1 DEF Video, VideoLock, VideoPop, VideoSized, VideoNoPicture, VideoPicture,
       VideoPushLock, VideoPush, VideoNotify, Audio, AudioLock, AudioPop, AudioRejected,
       AudioDecoded, AudioPushLock, AudioPush, Render, DrawFrame, RenderLock, RenderEmpty,
       RenderNotDue, RenderDue, RenderDraw
  <2>. QED BY <2>1
<1>2. CASE BufferPlayed
  <2>1. Len(slq') = Len(slq) - 1 /\ Len(slq) \in Nat
    BY <1>2 DEF QueuesOK, BufferPlayed
  <2>. QED BY <1>2, <2>1 DEF BufferPlayed
<1>. QED BY <1>1, <1>2

THEOREM ChainUnbroken == Spec => []OneBufferChain
<1>1. Init => OneBufferChain
  BY DEF Init, OneBufferChain, Pending, Started, CallbackPcs, Threads
<1>2. TypeOK /\ OneBufferChain /\ [Next]_vars => OneBufferChain'
  <2>1. CASE UNCHANGED vars
    BY <2>1 DEF OneBufferChain, Pending, Started, vars, audioPath
  <2>. QED BY <2>1, PlayChain, CallbackChain, OtherChain DEF Next
<1>. QED BY <1>1, <1>2, TypeCorrect, PTL DEF Spec

(***************************************************************************)
(* Sequences: what a concatenation contains, when it rises and when it is  *)
(* free of duplicates.  Joins states a concatenation by its elements, so   *)
(* that the facts below hold of any u that joins s and t.                  *)
(***************************************************************************)
Joins(s, t, u) ==
    /\ DOMAIN s = 1 .. Len(s) /\ Len(s) \in Nat /\ DOMAIN t = 1 .. Len(t) /\ Len(t) \in Nat
    /\ \A i \in DOMAIN s : i \in DOMAIN u /\ u[i] = s[i]
    /\ \A i \in DOMAIN t : Len(s) + i \in DOMAIN u /\ u[Len(s) + i] = t[i]
    /\ \A i \in DOMAIN u : i \in Int /\ (i \in DOMAIN s \/ i - Len(s) \in DOMAIN t)
LEMMA ConcatJoins ==
    ASSUME NEW S, NEW s \in Seq(S), NEW t \in Seq(S)
    PROVE  Joins(s, t, s \o t)
<1>1. /\ DOMAIN s = 1 .. Len(s) /\ Len(s) \in Nat /\ DOMAIN t = 1 .. Len(t) /\ Len(t) \in Nat
      /\ DOMAIN (s \o t) = 1 .. Len(s) + Len(t)
  BY ConcatProperties
<1>2. \A i \in 1 .. Len(s) + Len(t) : (s \o t)[i] = IF i <= Len(s) THEN s[i] ELSE t[i - Len(s)]
  BY ConcatProperties
<1> QED BY <1>1, <1>2 DEF Joins

LEMMA InSetOf == \A s, x : x \in SetOf(s) <=> \E i \in DOMAIN s : s[i] = x
BY DEF SetOf
LEMMA SetOfJoin ==
    ASSUME NEW s, NEW t, NEW u, Joins(s, t, u)
    PROVE  SetOf(u) = SetOf(s) \union SetOf(t)
<1>1. SetOf(s) \subseteq SetOf(u) /\ SetOf(t) \subseteq SetOf(u)
  BY InSetOf DEF Joins
<1>2. ASSUME NEW i \in DOMAIN u PROVE u[i] \in SetOf(s) \union SetOf(t)
  <2>1. CASE i \in DOMAIN s BY <2>1, InSetOf DEF Joins
  <2>2. CASE i - Len(s) \in DOMAIN t /\ i \in Int
    <3>1. Len(s) + (i - Len(s)) = i BY <2>2 DEF Joins
    <3> QED BY <2>2, <3>1, InSetOf DEF Joins
  <2> QED BY <2>1, <2>2 DEF Joins
<1> QED BY <1>1, <1>2, InSetOf

LEMMA RisingJoin ==
    ASSUME NEW s, NEW t, NEW u, Joins(s, t, u)
    PROVE  Rising(u) <=> Rising(s) /\ Rising(t) /\ \A x \in SetOf(s) : \A y \in SetOf(t) : x < y
<1>1. ASSUME Rising(u) PROVE Rising(s) BY <1>1 DEF Rising, Joins
<1>2. ASSUME Rising(u) PROVE Rising(t)
  <2>1. ASSUME NEW i \in DOMAIN t, NEW j \in DOMAIN t, i < j PROVE t[i] < t[j]
    <3>1. Len(s) + i < Len(s) + j BY <2>1 DEF Joins
    <3> QED BY <1>2, <3>1 DEF Joins, Rising
  <2> QED BY <2>1 DEF Rising
<1>3. ASSUME Rising(u), NEW i \in DOMAIN s, NEW j \in DOMAIN t PROVE s[i] < t[j]
  <2>1. i < Len(s) + j BY DEF Joins
  <2> QED BY <1>3, <2>1 DEF Joins, Rising
<1>4. ASSUME Rising(s), Rising(t), \A x \in SetOf(s) : \A y \in SetOf(t) : x < y,
             NEW i \in DOMAIN u, NEW j \in DOMAIN u, i < j
      PROVE  u[i] < u[j]
  <2>1. CASE j \in DOMAIN s
    <3>1. i \in DOMAIN s BY <1>4, <2>1 DEF Joins
    <3> QED BY <1>4, <2>1, <3>1 DEF Joins, Rising
  <2>2. CASE i \in DOMAIN s /\ j \notin DOMAIN s
    <3>1. j - Len(s) \in DOMAIN t /\ Len(s) + (j - Len(s)) = j BY <2>2 DEF Joins
    <3>2. u[i] = s[i] /\ u[j] = t[j - Len(s)] BY <2>2, <3>1 DEF Joins
    <3> QED BY <1>4, <2>2, <3>1, <3>2, InSetOf
  <2>3. CASE i \notin DOMAIN s /\ j \notin DOMAIN s
    <3>1. /\ i - Len(s) \in DOMAIN t /\ Len(s) + (i - Len(s)) = i
          /\ j - Len(s) \in DOMAIN t /\ Len(s) + (j - Len(s)) = j
          /\ i - Len(s) < j - Len(s)
      BY <1>4, <2>3 DEF Joins
    <3>2. u[i] = t[i - Len(s)] /\ u[j] = t[j - Len(s)] BY <3>1 DEF Joins
    <3> QED BY <1>4, <3>1, <3>2 DEF Rising
  <2> QED BY <2>1, <2>2, <2>3
<1>5. Rising(u) => \A x \in SetOf(s) : \A y \in SetOf(t) : x < y
  BY <1>3, InSetOf
<1> QED BY <1>1, <1>2, <1>5, <1>4 DEF Rising

Distinct(s) == \A i, j \in DOMAIN s : s[i] = s[j] => i = j
LEMMA DistinctJoin ==
    ASSUME NEW s, NEW t, NEW u, Joins(s, t, u)
    PROVE  Distinct(u) <=> Distinct(s) /\ Distinct(t) /\ SetOf(s) \intersect SetOf(t) = {}
<1>1. ASSUME Distinct(u) PROVE Distinct(s) BY <1>1 DEF Distinct, Joins
<1>2. ASSUME Distinct(u) PROVE Distinct(t)
  <2>1. ASSUME NEW i \in DOMAIN t, NEW j \in DOMAIN t, t[i] = t[j] PROVE i = j
    <3>1. Len(s) + i = Len(s) + j BY <1>2, <2>1 DEF Joins, Distinct
    <3> QED BY <3>1 DEF Joins
  <2> QED BY <2>1 DEF Distinct
<1>3. ASSUME Distinct(u), NEW i \in DOMAIN s, NEW j \in DOMAIN t PROVE s[i] # t[j]
  <2>1. i # Len(s) + j BY DEF Joins
  <2> QED BY <1>3, <2>1 DEF Joins, Distinct
<1>4. ASSUME Distinct(s), Distinct(t), SetOf(s) \intersect SetOf(t) = {},
             NEW i \in DOMAIN u, NEW j \in DOMAIN u, u[i] = u[j]
      PROVE  i = j
  <2>1. ASSUME NEW k \in DOMAIN u, k \notin DOMAIN s
        PROVE  k - Len(s) \in DOMAIN t /\ Len(s) + (k - Len(s)) = k /\ u[k] = t[k - Len(s)]
    <3>1. k - Len(s) \in DOMAIN t /\ Len(s) + (k - Len(s)) = k BY <2>1 DEF Joins
    <3> QED BY <3>1 DEF Joins
  <2>2. \A k \in DOMAIN s : u[k] = s[k] BY DEF Joins
  <2>3. CASE i \in DOMAIN s /\ j \in DOMAIN s BY <1>4, <2>2, <2>3 DEF Distinct
  <2>4. CASE i \in DOMAIN s /\ j \notin DOMAIN s BY <1>4, <2>1, <2>2, <2>4, InSetOf
  <2>5. CASE i \notin DOMAIN s /\ j \in DOMAIN s BY <1>4, <2>1, <2>2, <2>5, InSetOf
  <2>6. CASE i \notin DOMAIN s /\ j \notin DOMAIN s BY <1>4, <2>1, <2>6 DEF Distinct
  <2> QED BY <2>3, <2>4, <2>5, <2>6
<1>5. Distinct(u) => SetOf(s) \intersect SetOf(t) = {}
  BY <1>3, InSetOf
<1> QED BY <1>1, <1>2, <1>5, <1>4 DEF Distinct

LEMMA SetOfParts ==
    /\ SetOf(<<>>) = {}
    /\ \A x : SetOf(<<x>>) = {x}
    /\ \A S : \A s, t \in Seq(S) : SetOf(s \o t) = SetOf(s) \union SetOf(t)
<1>1. SetOf(<<>>) = {} /\ \A x : SetOf(<<x>>) = {x}
  BY DEF SetOf
<1> QED BY <1>1, ConcatJoins, SetOfJoin

LEMMA RisingParts ==
    /\ Rising(<<>>)
    /\ \A x : Rising(<<x>>)
    /\ \A S : \A s, t \in Seq(S) :
          Rising(s \o t) <=> Rising(s) /\ Rising(t) /\ \A x \in SetOf(s) : \A y \in SetOf(t) : x < y
<1>1. Rising(<<>>) /\ \A x : Rising(<<x>>)
  BY DEF Rising
<1> QED BY <1>1, ConcatJoins, RisingJoin

LEMMA DistinctParts ==
    /\ Distinct(<<>>)
    /\ \A x : Distinct(<<x>>)
    /\ \A S : \A s, t \in Seq(S) :
          Distinct(s \o t) <=> Distinct(s) /\ Distinct(t) /\ SetOf(s) \intersect SetOf(t) = {}
<1>1. Distinct(<<>>) /\ \A x : Distinct(<<x>>)
  BY DEF Distinct
<1> QED BY <1>1, ConcatJoins, DistinctJoin

LEMMA MovesOne ==
    ASSUME NEW S, NEW l \in Seq(S), NEW q \in Seq(S), NEW x \in S
    PROVE  /\ q # <<>> => (l \o <<>>) \o q = (l \o <<Head(q)>>) \o Tail(q)
           /\ (l \o q) \o <<x>> = (l \o Append(q, x)) \o <<>>
           /\ l \o <<x>> = Append(l, x) \o <<>>
           /\ (l \o <<>>) \o <<x>> = (l \o <<x>>) \o <<>>
           /\ l \o <<>> = l
<1>1. l \o <<>> = l /\ (l \o <<x>>) \o <<>> = l \o <<x>> /\ Append(l, x) = l \o <<x>>
  BY ConcatEmptySeq, AppendIsConcat
<1>2. ASSUME q # <<>> PROVE l \o q = (l \o <<Head(q)>>) \o Tail(q)
  <2>1. Head(q) \in S /\ Tail(q) \in Seq(S) /\ <<Head(q)>> \in Seq(S)
     BY <1>2
  <2>2. q = <<Head(q)>> \o Tail(q)
     BY <1>2
  <2> QED BY <2>1, <2>2, ConcatAssociative
<1>3. (l \o q) \o <<x>> = l \o Append(q, x)
  <2>1. Append(q, x) = q \o <<x>> /\ <<x>> \in Seq(S) BY AppendIsConcat
  <2> QED BY <2>1, ConcatAssociative
<1>4. (l \o Append(q, x)) \o <<>> = l \o Append(q, x) /\ Append(l, x) \o <<>> = Append(l, x)
  <2>1. l \o Append(q, x) \in Seq(S) /\ Append(l, x) \in Seq(S) BY ConcatProperties, AppendProperties
  <2> QED BY <2>1, ConcatEmptySeq
<1> QED BY <1>1, <1>2, <1>3, <1>4

(***************************************************************************)
(* The threads and what they hold.                                         *)
(***************************************************************************)
\* A thread without work to do on a packet holds none; what the demuxer took
\* out is for one of the two queues; only packets that were read are rejected.
HandsIdle ==
    /\ hand["play"] # Nothing => pc["play"] \in {"putLock", "put", "cbClockLock", "cbClock", "cbEnqueue", "cbFree"}
    /\ hand["sl"] # Nothing => pc["sl"] \in {"cbClockLock", "cbClock", "cbEnqueue", "cbFree"}
    /\ hand["video"] # Nothing => pc["video"] \in {"vSize", "vDecode", "vPushLock", "vPush"}
    /\ hand["audio"] # Nothing => pc["audio"] \in {"aDecode", "aPushLock", "aPush"}
    /\ vp # NoFrame => pc["video"] \in {"vPushLock", "vPush"}
    /\ pc["play"] \in {"putLock", "put"} => Kind(hand["play"]) \in {"video", "audio"}

LEMMA NextIdle == ASSUME TypeOK, HandsIdle, Next PROVE HandsIdle'
<1> USE SetsFixed, MediaFixed DEF HandsIdle, TypeOK, PcsOK, HandsOK, Goto, Acquire, Release, Take, Drop, Threads, Runners, Nothing, Kind,
      videoPath
<1>0. hand \in [Threads -> Ids \union {Nothing}] BY DEF QueuesOK
<1>1. CASE Play
  <2>1. CASE ReadFrame
    <3>1. nread' \in Ids BY <2>1, MediaType DEF ReadFrame, SessionOK, Ids
    <3>2. Kind(nread') \in Kinds BY <3>1, MediaType
    <3> QED BY <1>0, <2>1, <3>1, <3>2 DEF ReadFrame, Kinds
  <2>2. CASE Put BY <1>0, <2>2 DEF Put
  <2> QED BY <1>0, <1>1, <2>1, <2>2 DEF Play, OpenFails, Open, Publish, Spawn, PutLock, Join
<1>2. CASE Video
  <2>1. CASE VideoPop BY <1>0, <2>1 DEF VideoPop
  <2>2. CASE VideoNoPicture BY <1>0, <2>2 DEF VideoNoPicture
  <2>3. CASE VideoPicture
    BY <1>0, <2>3 DEF VideoPicture
  <2>4. CASE VideoPush BY <1>0, <2>4 DEF VideoPush
  <2> QED BY <1>0, <1>2, <2>1, <2>2, <2>3, <2>4 DEF Video, VideoLock, VideoSized, VideoPushLock, VideoNotify
<1>3. CASE Audio
  BY <1>0, <1>3 DEF Audio, AudioLock, AudioPop, AudioRejected, AudioDecoded, AudioPushLock, AudioPush
<1>4. CASE BufferPlayed BY <1>0, <1>4 DEF BufferPlayed
<1>5. ASSUME NEW t \in Runners, Callback(t) PROVE HandsIdle'
  BY <1>0, <1>5 DEF Callback, CallbackLock, CallbackPop, CallbackClockLock, CallbackClock,
              CallbackEnqueue, CallbackFree
<1>6. CASE Render
  BY <1>0, <1>6 DEF Render, DrawFrame, RenderLock, RenderEmpty, RenderNotDue, RenderDue,
              RenderDraw
<1>. QED BY <1>1, <1>2, <1>3, <1>4, <1>5, <1>6 DEF Next

(***************************************************************************)
(* The sound line: AudioLine is a concatenation, and what a thread does to *)
(* a packet moves it from the head of one part to the end of the part      *)
(* before it, so that the line as a whole does not change.                 *)
(***************************************************************************)
LEMMA OptParts ==
    /\ Opt(Nothing) = <<>>
    /\ \A p : p # Nothing => Opt(p) = <<p>>
    /\ \A S : \A p \in S \union {Nothing} : Opt(p) \in Seq(S)
BY DEF Opt

LEMMA LineTypes ==
    ASSUME TypeOK, HandsIdle
    PROVE  /\ heard \in Seq(Ids) /\ Queued \in Seq(Ids) /\ InCallback \in Seq(Ids)
           /\ audio_pkt \in Seq(Ids) /\ Opt(hand["audio"]) \in Seq(Ids)
           /\ audio_queue \in Seq(Ids) /\ JustRead("audio") \in Seq(Ids)
           /\ AudioLine \in Seq(Ids)
<1> USE OptParts
<1>1. \A t \in Threads : hand[t] \in Ids \union {Nothing} BY DEF TypeOK, QueuesOK
<1>2. \A k : Buffer(k) \in Seq(Ids)
  <2>1. \A k \in DOMAIN slq : slq[k] \in Buffers BY DEF TypeOK, QueuesOK
  <2>2. \A k \in DOMAIN slq : slq[k].id \in Ids \union {Nothing} BY <2>1 DEF Buffers
  <2> QED BY <2>2 DEF Buffer
<1>3. Queued \in Seq(Ids) BY <1>2, ConcatProperties DEF Queued
<1>4. InCallback \in Seq(Ids) BY <1>1 DEF InCallback, Threads
<1>5. Opt(hand["audio"]) \in Seq(Ids) /\ JustRead("audio") \in Seq(Ids)
  BY <1>1 DEF Threads, JustRead
<1>6. heard \in Seq(Ids) /\ audio_pkt \in Seq(Ids) /\ audio_queue \in Seq(Ids)
  BY DEF TypeOK, QueuesOK
<1>7. AudioLine \in Seq(Ids)
  BY <1>3, <1>4, <1>5, <1>6, ConcatProperties DEF AudioLine
<1> QED BY <1>3, <1>4, <1>5, <1>6, <1>7

\* While a callback is on its way to Enqueue the queue of OpenSL is empty and
\* the other runner has nothing.
LEMMA OneCarrier ==
    ASSUME TypeOK, OneBufferChain, NEW t \in Runners,
           pc[t] \in {"cbLock", "cbPop", "cbClockLock", "cbClock", "cbEnqueue"}
    PROVE  /\ slq = <<>>
           /\ \A r \in Runners : r # t => pc[r] \notin CallbackPcs \ {"cbFree"}
<1>1. Pending(t) = 1 BY DEF Pending, CallbackPcs
<1>2. Len(slq) \in Nat BY DEF TypeOK, QueuesOK
<1>3. Len(slq) = 0 /\ \A r \in Runners : r # t => Pending(r) = 0
  <2> HIDE DEF OneBufferChain, Pending
  <2>1. Len(slq) + Pending("play") + Pending("sl") = Owed /\ Owed \in {0, 1}
     BY ChainTypes
  <2>2. Pending("play") \in {0, 1} /\ Pending("sl") \in {0, 1} BY ChainTypes
  <2> QED BY <1>1, <1>2, <2>1, <2>2 DEF Runners
<1>4. slq = <<>> BY <1>3 DEF TypeOK, QueuesOK
<1> QED BY <1>3, <1>4 DEF Pending

LEMMA NoneQueued == ASSUME slq = <<>> PROVE Queued = <<>>
<1>1. Buffer(1) = <<>> /\ Buffer(2) = <<>> BY DEF Buffer
<1> QED BY <1>1 DEF Queued

LEMMA OneQueued == ASSUME NEW b, slq = <<b>> PROVE Queued = Opt(b.id)
<1>1. Buffer(1) = Opt(b.id) /\ Buffer(2) = <<>> BY DEF Buffer
<1>2. Opt(b.id) \in Seq({b.id}) BY OptParts
<1> QED BY <1>1, <1>2, ConcatEmptySeq DEF Queued

\* Steps that do not touch the first stretch of the line.
LEMMA FrontStays ==
    ASSUME UNCHANGED <<heard, slq>>,
           \A t \in Runners : Carrying(t)' = Carrying(t) /\ (Carrying(t) => hand'[t] = hand[t])
    PROVE  heard' = heard /\ Queued' = Queued /\ InCallback' = InCallback
<1>1. Queued' = Queued BY DEF Queued, Buffer
<1>2. InCallback' = InCallback BY DEF InCallback, Runners
<1> QED BY <1>1, <1>2

\* The line moves on without changing.
LEMMA LineMoves ==
    ASSUME AudioLine' = AudioLine, Demuxed("audio")' = Demuxed("audio"), AudioFifo
    PROVE  AudioFifo'
<1>1. Rising(AudioLine)' <=> Rising(AudioLine') BY DEF Rising
<1>2. SetOf(AudioLine)' = SetOf(AudioLine') BY DEF SetOf
<1> QED BY <1>1, <1>2 DEF AudioFifo

LEMMA DemuxedStays ==
    ASSUME UNCHANGED <<media, nread, lost>>, NEW kind
    PROVE Demuxed(kind)' = Demuxed(kind)
BY DEF Demuxed, Kind

LEMMA Grows ==
    ASSUME NEW S, NEW s \in Seq(S), NEW x \in S
    PROVE  /\ SetOf(s \o <<x>>) = SetOf(s) \union {x}
           /\ Rising(s) /\ (\A y \in SetOf(s) : y < x) => Rising(s \o <<x>>)
<1> DEFINE t == <<x>>
<1>1. t \in Seq(S) /\ SetOf(t) = {x} /\ Rising(t) BY SetOfParts, RisingParts
<1> HIDE DEF t
<1>2. Joins(s, t, s \o t) BY <1>1, ConcatJoins
<1>3. SetOf(s \o t) = SetOf(s) \union {x} BY <1>1, <1>2, SetOfJoin
<1>4. Rising(s) /\ (\A y \in SetOf(s) : y < x) => Rising(s \o t) BY <1>1, <1>2, RisingJoin
<1> QED BY <1>3, <1>4 DEF t

LEMMA PlayFifo == ASSUME TypeOK, HandsIdle, Next, AudioFifo, Play, lost \subseteq 1 .. nread
                  PROVE AudioFifo'
<1> USE DEF Goto, Acquire, Release, Take, Drop, Threads, Runners, session, videoPath, audioPath, screen, Undefined
<1>1. CASE ReadFrame
  <2>1. /\ heard' = heard /\ Queued' = Queued /\ InCallback' = InCallback
        /\ audio_pkt' = audio_pkt /\ audio_queue' = audio_queue /\ hand'["audio"] = hand["audio"]
        /\ pc["play"] = "read"
    BY <1>1, FrontStays DEF ReadFrame, Carrying, TypeOK, PcsOK, QueuesOK
  <2>2. nread' \in Ids /\ nread' = nread + 1 /\ nread \in Nat BY <1>1, MediaType DEF ReadFrame, TypeOK, SessionOK, Ids
  <2>3. JustRead("audio") = <<>> BY <2>1 DEF JustRead
  <2>4. JustRead("audio")' = IF Kind(nread') = "audio" THEN <<nread'>> ELSE <<>>
    <3>1. CASE Kind(nread') = "other" BY <1>1, <3>1 DEF ReadFrame, JustRead, TypeOK, PcsOK
    <3>2. CASE Kind(nread') # "other"
      <4>1. pc'["play"] = "putLock" /\ hand'["play"] = nread'  /\ media' = media
        BY <1>1, <3>2 DEF ReadFrame, TypeOK, PcsOK, QueuesOK
      <4>2. nread' # Nothing BY <2>2, MediaType DEF TypeOK
      <4> QED BY <4>1, <4>2 DEF JustRead, Kind, Opt
    <3> QED BY <3>1, <3>2
  <2>5. AudioLine' = IF Kind(nread') = "audio" THEN AudioLine \o <<nread'>> ELSE AudioLine
    <3> DEFINE L == heard \o Queued \o InCallback \o audio_pkt \o Opt(hand["audio"]) \o audio_queue
    <3>1. L \in Seq(Ids) BY LineTypes, ConcatProperties
    <3>2. AudioLine = L \o JustRead("audio") BY DEF AudioLine
    <3>3. AudioLine' = L \o JustRead("audio")' BY <2>1 DEF AudioLine
    <3> HIDE DEF L
    <3>4. L \o <<>> = L BY <3>1, ConcatEmptySeq
    <3> QED BY <2>3, <2>4, <3>2, <3>3, <3>4
  <2>6. Demuxed("audio")' = IF Kind(nread') = "audio" THEN Demuxed("audio") \union {nread'} ELSE Demuxed("audio")
    <3>1. lost' = lost /\ nread' \notin lost BY <1>1, <2>2 DEF ReadFrame
    <3>2. \A p : Kind(p)' = Kind(p) BY <1>1 DEF ReadFrame, Kind
    <3> QED BY <2>2, <3>1, <3>2 DEF Demuxed
  <2>7. \A p \in Demuxed("audio") : p < nread' BY <2>2 DEF Demuxed
  <2>10. CASE Kind(nread') = "audio"
    <3>1. SetOf(AudioLine') = Demuxed("audio")'
      <4>1. SetOf(AudioLine \o <<nread'>>) = SetOf(AudioLine) \union {nread'}
        BY <2>2, LineTypes, Grows
      <4> QED BY <2>5, <2>6, <2>10, <4>1 DEF AudioFifo
    <3>2. Rising(AudioLine')
       BY <2>2, <2>5, <2>7, <2>10, LineTypes, Grows DEF AudioFifo
    <3> QED BY <3>1, <3>2 DEF AudioFifo, Rising, SetOf
  <2> QED BY <2>5, <2>6, <2>10, LineMoves
<1>2. CASE Put
  <2>1. /\ heard' = heard /\ Queued' = Queued /\ InCallback' = InCallback
        /\ audio_pkt' = audio_pkt /\ hand'["audio"] = hand["audio"]
        /\ pc["play"] = "put" /\ pc'["play"] = "read" /\ hand["play"] \in Ids
    BY <1>2, FrontStays DEF Put, Carrying, TypeOK, PcsOK, QueuesOK, HandsOK
  <2>2. JustRead("audio")' = <<>> BY <2>1 DEF JustRead
  <2>3. AudioLine' = AudioLine
    <3> DEFINE L == heard \o Queued \o InCallback \o audio_pkt \o Opt(hand["audio"])
    <3>1. L \in Seq(Ids) BY LineTypes, ConcatProperties
    <3>2. AudioLine = L \o audio_queue \o JustRead("audio") BY DEF AudioLine
    <3>3. AudioLine' = L \o audio_queue' \o <<>> BY <2>1, <2>2 DEF AudioLine
    <3> HIDE DEF L
    <3>4. CASE Kind(hand["play"]) = "audio"
      <4>1. audio_queue' = Append(audio_queue, hand["play"]) BY <1>2, <3>4 DEF Put, PushBack
      <4>2. JustRead("audio") = <<hand["play"]>> BY <2>1, <3>4, OptParts, MediaType DEF JustRead, TypeOK
      <4>3. (L \o audio_queue) \o <<hand["play"]>> = (L \o Append(audio_queue, hand["play"])) \o <<>>
        <5>1. hand["play"] \in Ids /\ audio_queue \in Seq(Ids) BY <2>1, LineTypes
        <5> QED BY <3>1, <5>1, MovesOne, Zenon
      <4> QED BY <3>2, <3>3, <4>1, <4>2, <4>3
    <3>5. CASE Kind(hand["play"]) # "audio"
      <4>1. audio_queue' = audio_queue BY <1>2, <2>1, <3>5 DEF Put, HandsIdle
      <4>2. JustRead("audio") = <<>> BY <3>5 DEF JustRead
      <4> QED BY <3>2, <3>3, <4>1, <4>2
    <3> QED BY <3>4, <3>5
  <2> QED BY <2>3, <1>2, LineMoves, DemuxedStays DEF Put
<1>3. CASE Spawn
  <2>1. UNCHANGED <<heard, slq, audio_pkt, audio_queue, hand, media, nread, lost>> /\ pc["play"] = "spawn"
        /\ pc'["play"] = "cbLock" /\ pc'["sl"] = pc["sl"]
    BY <1>3 DEF Spawn, TypeOK, PcsOK
  <2>2. heard' = heard /\ Queued' = Queued /\ InCallback' = InCallback
    BY <2>1, FrontStays DEF Carrying
  <2>3. JustRead("audio")' = JustRead("audio") BY <2>1 DEF JustRead
  <2> QED BY <2>1, <2>2, <2>3, LineMoves, DemuxedStays DEF AudioLine
<1>4. CASE OpenFails \/ Open \/ Publish \/ PutLock \/ Join
  <2>1. UNCHANGED <<heard, slq, audio_pkt, audio_queue, hand, media, nread, lost>>
        /\ pc["play"] \in PlayPcs /\ pc'["play"] \in PlayPcs /\ pc'["sl"] = pc["sl"]
        /\ (pc["play"] \in {"putLock", "put"} <=> pc'["play"] \in {"putLock", "put"})
    BY <1>4 DEF OpenFails, Open, Publish, PutLock, Join, TypeOK, PcsOK, PlayPcs
  <2>2. heard' = heard /\ Queued' = Queued /\ InCallback' = InCallback
    BY <2>1, FrontStays DEF Carrying, PlayPcs
  <2>3. JustRead("audio")' = JustRead("audio") BY <2>1 DEF JustRead, Kind
  <2> QED BY <2>1, <2>2, <2>3, LineMoves, DemuxedStays DEF AudioLine
<1> QED BY <1>1, <1>2, <1>3, <1>4 DEF Play

LEMMA Removes ==
    ASSUME NEW S \in SUBSET Nat, NEW l \in Seq(S), NEW r \in Seq(S), NEW q \in Seq(S), NEW x \in S,
           Rising(((l \o <<x>>) \o q) \o r)
    PROVE  /\ Rising(((l \o <<>>) \o q) \o r)
           /\ SetOf(((l \o <<>>) \o q) \o r) = SetOf(((l \o <<x>>) \o q) \o r) \ {x}
<1> DEFINE t == <<x>>
           a == l \o t
           b == a \o q
           c == b \o r
           d == l \o q
           e == d \o r
<1>1. t \in Seq(S) /\ SetOf(t) = {x} /\ Rising(t) BY SetOfParts, RisingParts
<1>2. l \o <<>> = l BY ConcatEmptySeq
<1> SUFFICES ASSUME Rising(c) PROVE Rising(e) /\ SetOf(e) = SetOf(c) \ {x}
  BY <1>2
<1> HIDE DEF t
<1>3. a \in Seq(S) /\ Joins(l, t, a) BY <1>1, ConcatJoins, ConcatProperties
<1> HIDE DEF a
<1>4. b \in Seq(S) /\ Joins(a, q, b) BY <1>3, ConcatJoins, ConcatProperties
<1> HIDE DEF b
<1>5. d \in Seq(S) /\ Joins(l, q, d) BY ConcatJoins, ConcatProperties
<1> HIDE DEF d
<1>6. Joins(b, r, c) /\ Joins(d, r, e) BY <1>4, <1>5, ConcatJoins
<1> HIDE DEF c, e
<1>7. Rising(b) /\ Rising(r) /\ \A y \in SetOf(b) : \A z \in SetOf(r) : y < z BY <1>6, RisingJoin
<1>8. Rising(a) /\ Rising(q) /\ \A y \in SetOf(a) : \A z \in SetOf(q) : y < z BY <1>7, <1>4, RisingJoin
<1>9. Rising(l) /\ \A y \in SetOf(l) : y < x BY <1>1, <1>3, <1>8, RisingJoin
<1>10. /\ SetOf(a) = SetOf(l) \union {x}
       /\ SetOf(b) = SetOf(a) \union SetOf(q)
       /\ SetOf(c) = SetOf(b) \union SetOf(r)
       /\ SetOf(d) = SetOf(l) \union SetOf(q)
       /\ SetOf(e) = SetOf(d) \union SetOf(r)
  BY <1>1, <1>3, <1>4, <1>5, <1>6, SetOfJoin
<1>11. Rising(d) BY <1>5, <1>8, <1>9, <1>10, RisingJoin
<1>12. Rising(e) BY <1>6, <1>7, <1>11, <1>10, RisingJoin
<1>13. x \notin SetOf(l) /\ x \notin SetOf(q) /\ x \notin SetOf(r)
  BY <1>7, <1>8, <1>9, <1>10
<1> QED BY <1>10, <1>12, <1>13

LEMMA AudioThreadFifo ==
    ASSUME TypeOK, HandsIdle, Next, AudioFifo, Audio PROVE AudioFifo'
<1> USE DEF Goto, Acquire, Release, Take, Drop, Threads, Runners, session, videoPath, audioPath, screen
<1>0. UNCHANGED <<heard, slq, media, nread>> /\ pc'["play"] = pc["play"] /\ pc'["sl"] = pc["sl"]
      /\ hand'["play"] = hand["play"] /\ hand'["sl"] = hand["sl"]
  BY DEF Audio, AudioLock, AudioPop, AudioRejected, AudioDecoded, AudioPushLock, AudioPush, TypeOK, PcsOK, QueuesOK
<1>1. heard' = heard /\ Queued' = Queued /\ InCallback' = InCallback
  BY <1>0, FrontStays DEF Carrying
<1>2. JustRead("audio")' = JustRead("audio") BY <1>0 DEF JustRead, Kind
<1> DEFINE F == heard \o Queued \o InCallback
           L == F \o audio_pkt
<1>3. F \in Seq(Ids) /\ L \in Seq(Ids) /\ F' = F /\ AudioLine = L \o Opt(hand["audio"]) \o audio_queue \o JustRead("audio")
      /\ AudioLine' = F \o audio_pkt' \o Opt(hand["audio"]') \o audio_queue' \o JustRead("audio")
  BY <1>1, <1>2, LineTypes, ConcatProperties DEF AudioLine
<1> HIDE DEF F
<1>a. CASE AudioPop /\ audio_queue # <<>>
  <2>1. hand'["audio"] = Head(audio_queue) /\ audio_queue' = Tail(audio_queue) /\ audio_pkt' = audio_pkt
        /\ hand["audio"] = Nothing /\ Head(audio_queue) \in Ids /\ lost' = lost
    BY <1>a, QueueTypes DEF AudioPop, PopFront, TypeOK, QueuesOK, HandsIdle
  <2>2. Opt(hand["audio"]) = <<>> /\ Opt(hand["audio"]') = <<Head(audio_queue)>>
    BY <2>1, OptParts, MediaType DEF TypeOK
  <2>3. (L \o <<>>) \o audio_queue = (L \o <<Head(audio_queue)>>) \o Tail(audio_queue)
    <3>1. audio_queue \in Seq(Ids) /\ audio_queue # <<>> /\ Head(audio_queue) \in Ids
      BY <1>a, <2>1, LineTypes
    <3> HIDE DEF L
    <3> QED BY <1>3, <3>1, MovesOne, Zenon
  <2>4. AudioLine' = AudioLine BY <1>3, <2>1, <2>2, <2>3
  <2> QED BY <2>1, <2>4, <1>0, LineMoves, DemuxedStays
<1>b. CASE AudioPush
  <2>1. hand'["audio"] = Nothing /\ hand["audio"] \in Ids /\ audio_queue' = audio_queue /\ lost' = lost
        /\ audio_pkt' = Append(audio_pkt, hand["audio"])
    BY <1>b DEF AudioPush, PushBack, TypeOK, QueuesOK, HandsOK
  <2>2. Opt(hand["audio"]) = <<hand["audio"]>> /\ Opt(hand["audio"]') = <<>>
    BY <2>1, OptParts, MediaType DEF TypeOK
  <2>3. (F \o audio_pkt) \o <<hand["audio"]>> = (F \o Append(audio_pkt, hand["audio"])) \o <<>>
    <3>1. F \in Seq(Ids) /\ audio_pkt \in Seq(Ids) /\ hand["audio"] \in Ids
      BY <1>3, <2>1, LineTypes
    <3> HIDE DEF L
    <3> QED BY <3>1, MovesOne
  <2>4. AudioLine' = AudioLine BY <1>3, <2>1, <2>2, <2>3
  <2> QED BY <2>1, <2>4, <1>0, LineMoves, DemuxedStays
<1>c. CASE AudioRejected
  <2>1. hand'["audio"] = Nothing /\ hand["audio"] \in Ids /\ audio_queue' = audio_queue
        /\ audio_pkt' = audio_pkt /\ lost' = lost \union {hand["audio"]}
    BY <1>c DEF AudioRejected, TypeOK, QueuesOK, HandsOK
  <2>2. Opt(hand["audio"]) = <<hand["audio"]>> /\ Opt(hand["audio"]') = <<>>
    BY <2>1, OptParts, MediaType DEF TypeOK
  <2> DEFINE x == hand["audio"] q == audio_queue j == JustRead("audio")
  <2>3. AudioLine = L \o <<x>> \o q \o j /\ AudioLine' = L \o <<>> \o q \o j
    BY <1>3, <2>1, <2>2
  <2>4. x \in Ids /\ q \in Seq(Ids) /\ j \in Seq(Ids) /\ Ids \in SUBSET Nat /\ L \in Seq(Ids)
    BY <1>3, <2>1, LineTypes, MediaType DEF TypeOK
  <2> HIDE DEF x, q, j, L
  <2>5. Rising(AudioLine') /\ SetOf(AudioLine') = SetOf(AudioLine) \ {x}
    <3>1. Rising(L \o <<x>> \o q \o j) BY <2>3 DEF AudioFifo
    <3>2. /\ Rising(L \o <<>> \o q \o j)
          /\ SetOf(L \o <<>> \o q \o j) = SetOf(L \o <<x>> \o q \o j) \ {x}
      BY <2>4, <3>1, Removes
    <3> QED BY <2>3, <3>2
  <2>6. Demuxed("audio")' = Demuxed("audio") \ {x}
    BY <1>0, <2>1 DEF Demuxed, Kind, x
  <2> QED BY <2>5, <2>6 DEF AudioFifo, Rising, SetOf
<1>d. CASE AudioLock \/ AudioDecoded \/ AudioPushLock \/ (AudioPop /\ audio_queue = <<>>)
  <2>1. hand' = hand /\ audio_queue' = audio_queue /\ audio_pkt' = audio_pkt /\ lost' = lost
    BY <1>d DEF AudioLock, AudioDecoded, AudioPushLock, AudioPop
  <2>2. AudioLine' = AudioLine BY <1>3, <2>1
  <2> QED BY <2>1, <2>2, <1>0, LineMoves, DemuxedStays
<1> QED BY <1>a, <1>b, <1>c, <1>d DEF Audio

LEMMA SingleItem ==
    ASSUME NEW S, NEW s \in Seq(S), Len(s) = 1
    PROVE  Head(s) \in S /\ s = <<Head(s)>> /\ Tail(s) = <<>>
<1>1. s # <<>> BY EmptySeq
<1>2. Head(s) \in S /\ Tail(s) \in Seq(S) /\ Len(Tail(s)) = 0 BY <1>1, HeadTailProperties
<1>3. Tail(s) = <<>> BY <1>2, EmptySeq
<1>4. s = <<Head(s)>> \o Tail(s) BY <1>1
<1>5. <<Head(s)>> \in Seq(S) BY <1>2
<1> QED BY <1>2, <1>3, <1>4, <1>5, ConcatEmptySeq

\* Enqueue and free leave the packet where the loudspeaker finds it.
LEMMA EnqueueQueues ==
    ASSUME TypeOK, OneBufferChain, NEW t \in Runners, CallbackEnqueue(t)
    PROVE  Queued = <<>> /\ Queued' = Opt(hand[t])
<1> DEFINE b == [id |-> hand[t], by |-> t, freed |-> FALSE]
<1>1. slq = <<>> BY OneCarrier DEF CallbackEnqueue, Goto
<1>2. slq' = <<b>>
  <2>1. slq' = Append(slq, b)
    <3>1. Len(slq) = 0 BY <1>1
    <3> QED BY <3>1 DEF CallbackEnqueue, SLBuffers
  <2> HIDE DEF b
  <2> QED BY <1>1, <2>1
<1>3. Queued = <<>> BY <1>1, NoneQueued
<1>4. Buffer(1)' = Opt(hand[t]) /\ Buffer(2)' = <<>> BY <1>2 DEF Buffer, Opt
<1>5. Opt(hand[t]) \in Seq({hand[t]}) BY OptParts
<1>6. Queued' = Opt(hand[t]) \o <<>> BY <1>4 DEF Queued
<1> QED BY <1>3, <1>5, <1>6, ConcatEmptySeq

LEMMA FreeKeepsQueued ==
    ASSUME TypeOK, NEW t \in Runners, CallbackFree(t)
    PROVE  Queued' = Queued
<1>1. DOMAIN slq' = DOMAIN slq /\ \A k \in DOMAIN slq : slq'[k].id = slq[k].id
  <2>1. \A k \in DOMAIN slq : slq[k] \in Buffers BY DEF TypeOK, QueuesOK
  <2>2. \A b \in Buffers : [b EXCEPT !.freed = TRUE].id = b.id BY DEF Buffers
  <2> QED BY <2>1, <2>2, Zenon DEF CallbackFree
<1> QED BY <1>1 DEF Queued, Buffer

\* What was played is what was queued, and no callback holds anything then.
LEMMA PlayedMoves ==
    ASSUME TypeOK, OneBufferChain, BufferPlayed
    PROVE  /\ heard' \o Queued' = heard \o Queued
           /\ pc["play"] \notin CallbackPcs \ {"cbFree"}
           /\ pc["sl"] = "slWait" /\ pc'["sl"] = "cbLock" /\ pc'["play"] = pc["play"]
<1>0. pc["sl"] = "slWait" /\ pc'["sl"] = "cbLock" /\ pc'["play"] = pc["play"] /\ slq # <<>>
      /\ slq' = Tail(slq)
  BY DEF BufferPlayed, Goto, Threads, TypeOK, PcsOK
<1>1. Len(slq) = 1 /\ Pending("play") = 0
  <2>1. Len(slq) \in Nat /\ Len(slq) # 0 BY <1>0 DEF TypeOK, QueuesOK
  <2>2. Len(slq) + Pending("play") + Pending("sl") = Owed /\ Owed \in {0, 1} BY ChainTypes
  <2>3. Pending("play") \in {0, 1} /\ Pending("sl") \in {0, 1} BY ChainTypes
  <2>4. \A l \in Nat : \A p, q, o \in {0, 1} : l # 0 /\ l + p + q = o => l = 1 /\ p = 0
    OBVIOUS
  <2> QED BY <2>1, <2>2, <2>3, <2>4
<1>2. PICK b \in Buffers : slq = <<b>> /\ slq' = <<>> /\ Head(slq) = b
  <2>1. slq \in Seq(Buffers) BY DEF TypeOK, QueuesOK
  <2>2. Head(slq) \in Buffers /\ slq = <<Head(slq)>> /\ Tail(slq) = <<>> BY <1>1, <2>1, SingleItem
  <2> QED BY <1>0, <2>2
<1>3. Queued = Opt(b.id) BY <1>2, OneQueued
<1>4. Queued' = <<>>
  <2>1. Buffer(1)' = <<>> /\ Buffer(2)' = <<>> BY <1>2 DEF Buffer
  <2> QED BY <2>1 DEF Queued
<1>5. heard \in Seq(Ids) /\ b.id \in Ids \union {Nothing} BY DEF TypeOK, QueuesOK, Buffers
<1>6. heard' \o Queued' = heard \o Queued
  <2>1. CASE b.id = Nothing
    BY <1>2, <1>3, <1>4, <2>1, OptParts DEF BufferPlayed
  <2>2. CASE b.id # Nothing
    <3>1. heard' = Append(heard, b.id) BY <1>2, <2>2 DEF BufferPlayed
    <3>2. Queued = <<b.id>> BY <1>3, <2>2, OptParts
    <3> QED BY <1>4, <1>5, <2>2, <3>1, <3>2, MovesOne
  <2> QED BY <2>1, <2>2
<1>8. pc["play"] \notin CallbackPcs \ {"cbFree"} BY <1>1 DEF Pending
<1> QED BY <1>0, <1>6, <1>8

LEMMA CallbackFifo ==
    ASSUME TypeOK, HandsIdle, Next, AudioFifo, OneBufferChain, NEW t \in Runners, Callback(t) PROVE AudioFifo'
<1> USE DEF Goto, Acquire, Release, Take, Drop, Threads, Runners, session, videoPath, audioPath, screen
<1>0. /\ UNCHANGED <<heard, media, nread, lost, audio_queue>> /\ hand'["audio"] = hand["audio"]
      /\ \A r \in Runners : r # t => pc'[r] = pc[r] /\ hand'[r] = hand[r]
  BY DEF Callback, CallbackLock, CallbackPop, CallbackClockLock, CallbackClock,
         CallbackEnqueue, CallbackFree, TypeOK, PcsOK, QueuesOK
<1>1. JustRead("audio")' = JustRead("audio")
  <2>1. pc["play"] \in {"putLock", "put"} <=> pc'["play"] \in {"putLock", "put"}
    BY <1>0 DEF Callback, CallbackLock, CallbackPop, CallbackClockLock, CallbackClock,
         CallbackEnqueue, CallbackFree, TypeOK, PcsOK, PlayPcs
  <2>2. pc["play"] \in {"putLock", "put"} => hand'["play"] = hand["play"]
    BY <1>0 DEF Callback, CallbackLock, CallbackPop, CallbackClockLock, CallbackClock,
         CallbackEnqueue, CallbackFree
  <2> QED BY <1>0, <2>1, <2>2 DEF JustRead, Kind
<1>2. SUFFICES heard \o Queued' \o InCallback' \o audio_pkt' = heard \o Queued \o InCallback \o audio_pkt
  BY <1>0, <1>1, LineMoves, DemuxedStays DEF AudioLine
<1>3. heard \in Seq(Ids) /\ Queued \in Seq(Ids) /\ audio_pkt \in Seq(Ids) /\ heard \o Queued \in Seq(Ids)
  BY LineTypes, ConcatProperties
<1>a. CASE CallbackPop(t) /\ audio_pkt # <<>>
  <2>1. pc[t] = "cbPop" /\ pc'[t] = "cbClockLock" /\ slq' = slq /\ audio_pkt' = Tail(audio_pkt)
        /\ hand'[t] = Head(audio_pkt) /\ Head(audio_pkt) \in Ids
    BY <1>a, QueueTypes DEF CallbackPop, PopFront, TypeOK, QueuesOK, PcsOK
  <2>2. \A r \in Runners : r # t => ~Carrying(r) /\ ~Carrying(r)'
    BY <1>0, <2>1, OneCarrier DEF Carrying, CallbackPcs
  <2>3. ~Carrying(t) /\ Carrying(t)' BY <2>1 DEF Carrying
  <2>4. InCallback = <<>> /\ InCallback' = <<Head(audio_pkt)>>
    BY <2>1, <2>2, <2>3, OptParts, MediaType DEF InCallback, TypeOK
  <2>5. Queued' = Queued BY <2>1 DEF Queued, Buffer
  <2> QED BY <1>a, <1>3, <2>1, <2>4, <2>5, MovesOne
<1>b. CASE CallbackPop(t) /\ audio_pkt = <<>>
  <2>1. pc[t] = "cbPop" /\ pc'[t] = "cbEnqueue" /\ slq' = slq /\ audio_pkt' = audio_pkt
        /\ hand' = hand /\ hand[t] = Nothing
    BY <1>b DEF CallbackPop, TypeOK, QueuesOK, PcsOK, HandsIdle
  <2>2. \A r \in Runners : r # t => ~Carrying(r) /\ ~Carrying(r)'
    BY <1>0, <2>1, OneCarrier DEF Carrying, CallbackPcs
  <2>3. ~Carrying(t) /\ Carrying(t)' BY <2>1 DEF Carrying
  <2>4. InCallback = <<>> /\ InCallback' = <<>>
    BY <2>1, <2>2, <2>3, OptParts DEF InCallback
  <2>5. Queued' = Queued BY <2>1 DEF Queued, Buffer
  <2> QED BY <2>1, <2>4, <2>5
<1>c. CASE CallbackEnqueue(t)
  <2>1. pc[t] = "cbEnqueue" /\ pc'[t] = "cbFree" /\ audio_pkt' = audio_pkt /\ hand' = hand
    BY <1>c DEF CallbackEnqueue, TypeOK, PcsOK
  <2>2. slq = <<>> /\ \A r \in Runners : r # t => ~Carrying(r) /\ ~Carrying(r)'
    BY <1>0, <2>1, OneCarrier DEF Carrying, CallbackPcs
  <2>3. Carrying(t) /\ ~Carrying(t)' BY <2>1 DEF Carrying
  <2>4. InCallback = Opt(hand[t]) /\ InCallback' = <<>>
    BY <2>1, <2>2, <2>3, OptParts DEF InCallback
  <2>6. Queued = <<>> /\ Queued' = Opt(hand[t]) BY <1>c, EnqueueQueues
  <2>7. hand[t] \in Ids \union {Nothing} BY DEF TypeOK, QueuesOK
  <2>8. CASE hand[t] = Nothing BY <2>1, <2>4, <2>6, <2>8, OptParts
  <2>9. CASE hand[t] # Nothing
    <3>1. Opt(hand[t]) = <<hand[t]>> /\ hand[t] \in Ids BY <2>7, <2>9, OptParts
    <3>2. (heard \o <<>>) \o <<hand[t]>> = (heard \o <<hand[t]>>) \o <<>> BY <1>3, <3>1, MovesOne
    <3> QED BY <2>1, <2>4, <2>6, <3>1, <3>2
  <2> QED BY <2>8, <2>9
<1>d. CASE CallbackFree(t)
  <2>1. pc[t] = "cbFree" /\ pc'[t] \in {"read", "slWait"} /\ audio_pkt' = audio_pkt
    BY <1>d DEF CallbackFree, TypeOK, PcsOK
  <2>2. \A r \in Runners : Carrying(r)' = Carrying(r) /\ (Carrying(r) => hand'[r] = hand[r])
    BY <1>0, <2>1 DEF Carrying
  <2>3. InCallback' = InCallback BY <2>2 DEF InCallback
  <2>5. Queued' = Queued BY <1>d, FreeKeepsQueued
  <2> QED BY <2>1, <2>3, <2>5
<1>e. CASE CallbackLock(t) \/ CallbackClockLock(t) \/ CallbackClock(t)
  <2>1. UNCHANGED <<slq, audio_pkt, hand>> /\ Carrying(t)' = Carrying(t)
    BY <1>e DEF CallbackLock, CallbackClockLock, CallbackClock, Carrying, TypeOK, PcsOK
  <2>2. \A r \in Runners : Carrying(r)' = Carrying(r) /\ (Carrying(r) => hand'[r] = hand[r])
    BY <1>0, <2>1 DEF Carrying
  <2> QED BY <1>0, <2>1, <2>2, FrontStays
<1> QED BY <1>a, <1>b, <1>c, <1>d, <1>e DEF Callback

LEMMA PlayedFifo ==
    ASSUME TypeOK, HandsIdle, Next, AudioFifo, OneBufferChain, BufferPlayed PROVE AudioFifo'
<1>0. UNCHANGED <<media, nread, lost, audio_queue, audio_pkt, hand>>
  BY DEF BufferPlayed, session, audioPath
<1>1. /\ heard' \o Queued' = heard \o Queued
      /\ pc["play"] \notin CallbackPcs \ {"cbFree"}
      /\ pc["sl"] = "slWait" /\ pc'["sl"] = "cbLock" /\ pc'["play"] = pc["play"]
  BY PlayedMoves
<1>2. ~Carrying("play") /\ ~Carrying("sl") /\ ~Carrying("play")' /\ ~Carrying("sl")'
  BY <1>1 DEF Carrying, CallbackPcs
<1>3. InCallback = <<>> /\ InCallback' = <<>> BY <1>2, OptParts DEF InCallback
<1>4. JustRead("audio")' = JustRead("audio") BY <1>0, <1>1 DEF JustRead, Kind
<1>5. AudioLine' = AudioLine BY <1>0, <1>1, <1>3, <1>4 DEF AudioLine
<1> QED BY <1>0, <1>5, LineMoves, DemuxedStays

(***************************************************************************)
(* The pictures, on their way to the decoder and behind it.                *)
(***************************************************************************)
\* The packet video_thread holds before it is decoded, and the pictures queued.
AtDecoder == IF pc["video"] \in {"vSize", "vDecode"} THEN Opt(hand["video"]) ELSE <<>>
Pics(q)   == [i \in DOMAIN q |-> q[i].pic]

LEMMA VideoParts ==
    /\ Undecoded = AtDecoder \o video_queue \o JustRead("video")
    /\ Decoded = shown \o Pics(video_pkt) \o Opt(vp.pic)
    /\ VideoConserved <=>
         /\ Rising(Undecoded) /\ Distinct(Decoded)
         /\ SetOf(Decoded) \union decoder \union SetOf(Undecoded) = Demuxed("video")
         /\ SetOf(Decoded) \intersect (decoder \union SetOf(Undecoded)) = {}
         /\ \A p \in decoder : \A q \in SetOf(Undecoded) : p < q
BY DEF Undecoded, Decoded, AtDecoder, Pics, VideoConserved, Distinct

LEMMA VideoParts2 ==
    /\ Undecoded' = AtDecoder' \o video_queue' \o JustRead("video")'
    /\ Decoded' = shown' \o Pics(video_pkt') \o Opt(vp'.pic)
    /\ VideoConserved' <=>
         /\ Rising(Undecoded') /\ Distinct(Decoded')
         /\ SetOf(Decoded') \union decoder' \union SetOf(Undecoded') = Demuxed("video")'
         /\ SetOf(Decoded') \intersect (decoder' \union SetOf(Undecoded')) = {}
         /\ \A p \in decoder' : \A q \in SetOf(Undecoded') : p < q
<1>1. Undecoded' = AtDecoder' \o video_queue' \o JustRead("video")'
  BY DEF Undecoded, AtDecoder
<1>2. Decoded' = shown' \o Pics(video_pkt') \o Opt(vp'.pic)
  BY DEF Decoded, Pics, Opt
<1>3. VideoConserved' <=>
         /\ Rising(Undecoded') /\ Distinct(Decoded')
         /\ SetOf(Decoded') \union decoder' \union SetOf(Undecoded') = Demuxed("video")'
         /\ SetOf(Decoded') \intersect (decoder' \union SetOf(Undecoded')) = {}
         /\ \A p \in decoder' : \A q \in SetOf(Undecoded') : p < q
  BY DEF VideoConserved, Distinct, Rising, SetOf
<1> QED BY <1>1, <1>2, <1>3

LEMMA PicsOf ==
    ASSUME NEW q \in Seq(Frames)
    PROVE  /\ Pics(q) \in Seq(Ids)
           /\ \A f \in Frames : Pics(Append(q, f)) = Append(Pics(q), f.pic)
           /\ q # <<>> => Pics(q) # <<>> /\ Head(Pics(q)) = Head(q).pic /\ Pics(Tail(q)) = Tail(Pics(q))
<1>1. \A f \in Frames : f.pic \in Ids BY DEF Frames
<1>2. \A s \in Seq(Frames) : Pics(s) \in Seq(Ids) /\ Len(Pics(s)) = Len(s) /\ \A i \in 1 .. Len(s) : Pics(s)[i] = s[i].pic
  <2> SUFFICES ASSUME NEW s \in Seq(Frames)
               PROVE  Pics(s) \in Seq(Ids) /\ Len(Pics(s)) = Len(s) /\ \A i \in 1 .. Len(s) : Pics(s)[i] = s[i].pic
    OBVIOUS
  <2>1. DOMAIN s = 1 .. Len(s) /\ Len(s) \in Nat /\ \A i \in 1 .. Len(s) : s[i] \in Frames
    OBVIOUS
  <2>2. Pics(s) \in [1 .. Len(s) -> Ids] BY <1>1, <2>1 DEF Pics
  <2>3. Pics(s) \in Seq(Ids) BY <2>1, <2>2, FunctionIsSequence
  <2>4. DOMAIN Pics(s) = 1 .. Len(s) /\ DOMAIN Pics(s) = 1 .. Len(Pics(s)) BY <2>1, <2>3 DEF Pics
  <2>5. Len(Pics(s)) = Len(s) BY <2>1, <2>2, <2>3, LenProperties
  <2> QED BY <2>1, <2>3, <2>5 DEF Pics
<1>3. ASSUME NEW f \in Frames PROVE Pics(Append(q, f)) = Append(Pics(q), f.pic)
  <2> DEFINE a == Append(q, f) b == Append(Pics(q), f.pic)
  <2>1. a \in Seq(Frames) /\ Len(a) = Len(q) + 1 /\ a[Len(q) + 1] = f /\ \A i \in 1 .. Len(q) : a[i] = q[i]
     BY AppendProperties
  <2>2. Pics(q) \in Seq(Ids) /\ f.pic \in Ids /\ Len(Pics(q)) = Len(q) BY <1>1, <1>2
  <2>3. b \in Seq(Ids) /\ Len(b) = Len(q) + 1 /\ b[Len(q) + 1] = f.pic /\ \A i \in 1 .. Len(q) : b[i] = Pics(q)[i]
     BY <2>2, AppendProperties
  <2>4. Len(q) \in Nat OBVIOUS
  <2> HIDE DEF a, b
  <2>5. Pics(a) \in Seq(Ids) /\ Len(Pics(a)) = Len(a) /\ \A i \in 1 .. Len(a) : Pics(a)[i] = a[i].pic
     BY <1>2, <2>1
  <2>6. \A i \in 1 .. Len(b) : Pics(a)[i] = b[i]
    <3> SUFFICES ASSUME NEW i \in 1 .. Len(b) PROVE Pics(a)[i] = b[i] OBVIOUS
    <3>1. i = Len(q) + 1 \/ i \in 1 .. Len(q) BY <2>3, <2>4
    <3>2. i \in 1 .. Len(a) BY <2>1, <2>3
    <3> QED BY <1>2, <2>1, <2>3, <2>5, <3>1, <3>2
  <2>7. Pics(a) = b BY <2>1, <2>3, <2>5, <2>6, SeqEqual
  <2> QED BY <2>7 DEF a, b
<1>4. ASSUME q # <<>> PROVE Pics(q) # <<>> /\ Head(Pics(q)) = Head(q).pic /\ Pics(Tail(q)) = Tail(Pics(q))
  <2> DEFINE a == Tail(q) p == Pics(q) b == Tail(p)
  <2>1. a \in Seq(Frames) /\ Len(a) = Len(q) - 1 /\ Len(q) \in Nat /\ Len(q) # 0 /\ \A i \in 1 .. Len(a) : a[i] = q[i + 1]
     BY <1>4, HeadTailProperties, LenProperties, EmptySeq
  <2>2. p \in Seq(Ids) /\ Len(p) = Len(q) /\ p[1] = q[1].pic /\ \A i \in 1 .. Len(q) : p[i] = q[i].pic BY <1>2, <2>1
  <2>3. Head(p) = p[1] /\ Head(q) = q[1] BY <2>2, <1>4
  <2> HIDE DEF a, p
  <2>4. p # <<>> BY <2>1, <2>2, EmptySeq
  <2>5. b \in Seq(Ids) /\ Len(b) = Len(p) - 1 /\ \A i \in 1 .. Len(b) : b[i] = p[i + 1]
     BY <2>2, <2>4, HeadTailProperties
  <2> HIDE DEF b
  <2>6. Pics(a) \in Seq(Ids) /\ Len(Pics(a)) = Len(a) /\ \A i \in 1 .. Len(a) : Pics(a)[i] = a[i].pic
     BY <1>2, <2>1
  <2>7. \A i \in 1 .. Len(b) : Pics(a)[i] = b[i]
    <3> SUFFICES ASSUME NEW i \in 1 .. Len(b) PROVE Pics(a)[i] = b[i] OBVIOUS
    <3>1. i \in 1 .. Len(a) /\ i + 1 \in 1 .. Len(q) BY <2>1, <2>2, <2>5
    <3> QED BY <2>1, <2>2, <2>5, <2>6, <3>1
  <2>8. Pics(a) = b BY <2>1, <2>2, <2>5, <2>6, <2>7, SeqEqual
  <2> QED BY <2>2, <2>3, <2>4, <2>8 DEF a, b, p
<1> QED BY <1>2, <1>3, <1>4

LEMMA VideoTypes ==
    ASSUME TypeOK, HandsIdle
    PROVE  /\ AtDecoder \in Seq(Ids) /\ video_queue \in Seq(Ids) /\ JustRead("video") \in Seq(Ids)
           /\ Undecoded \in Seq(Ids)
           /\ shown \in Seq(Ids) /\ Pics(video_pkt) \in Seq(Ids) /\ Opt(vp.pic) \in Seq(Ids)
           /\ Decoded \in Seq(Ids)
<1> USE OptParts
<1>1. \A t \in Threads : hand[t] \in Ids \union {Nothing} BY DEF TypeOK, QueuesOK
<1>2. AtDecoder \in Seq(Ids) /\ JustRead("video") \in Seq(Ids)
  BY <1>1 DEF Threads, JustRead, AtDecoder
<1>3. video_queue \in Seq(Ids) /\ shown \in Seq(Ids) BY DEF TypeOK, QueuesOK
<1>4. Pics(video_pkt) \in Seq(Ids) BY PicsOf DEF TypeOK, QueuesOK
<1>5. vp.pic \in Ids \union {Nothing} BY DEF TypeOK, QueuesOK, Frames, NoFrame
<1>6. Opt(vp.pic) \in Seq(Ids) BY <1>5
<1>7. AtDecoder \o video_queue \in Seq(Ids) /\ shown \o Pics(video_pkt) \in Seq(Ids)
  BY <1>2, <1>3, <1>4, ConcatProperties
<1>8. Undecoded \in Seq(Ids) /\ Decoded \in Seq(Ids)
  BY <1>2, <1>6, <1>7, VideoParts, ConcatProperties
<1> QED BY <1>2, <1>3, <1>4, <1>6, <1>8

LEMMA VideoStays ==
    ASSUME Undecoded' = Undecoded, Decoded' = Decoded, decoder' = decoder, Demuxed("video")' = Demuxed("video"),
           VideoConserved
    PROVE  VideoConserved'
BY VideoParts, VideoParts2

LEMMA DecodedStays ==
    ASSUME UNCHANGED <<shown, video_pkt, vp>> PROVE Decoded' = Decoded
BY DEF Decoded, Opt

LEMMA PlayVideo == ASSUME TypeOK, HandsIdle, Next, VideoConserved, Play, lost \subseteq 1 .. nread
                   PROVE  VideoConserved'
<1> USE DEF Goto, Acquire, Release, Take, Drop, Threads, Runners, session, videoPath, audioPath, screen, Undefined
<1>0. UNCHANGED <<shown, video_pkt, vp, decoder, lost, media>> /\ hand'["video"] = hand["video"]
  BY DEF Play, OpenFails, Open, Publish, Spawn, ReadFrame, PutLock, Put, Join, TypeOK, PcsOK, QueuesOK
<1>1. Decoded' = Decoded BY <1>0, DecodedStays
<1>2. AtDecoder' = AtDecoder
  <2>1. pc'["video"] = pc["video"] \/ (pc["video"] = "unborn" /\ pc'["video"] = "vLock")
    BY DEF Play, OpenFails, Open, Publish, Spawn, ReadFrame, PutLock, Put, Join, TypeOK, PcsOK
  <2> QED BY <1>0, <2>1 DEF AtDecoder
<1>3. decoder' = decoder BY <1>0
<1>a. CASE ReadFrame
  <2>1. video_queue' = video_queue /\ pc["play"] = "read"
    BY <1>a DEF ReadFrame
  <2>2. nread' \in Ids /\ nread' = nread + 1 /\ nread \in Nat BY <1>a, MediaType DEF ReadFrame, TypeOK, SessionOK, Ids
  <2>3. JustRead("video") = <<>> BY <2>1 DEF JustRead
  <2>4. JustRead("video")' = IF Kind(nread') = "video" THEN <<nread'>> ELSE <<>>
    <3>1. CASE Kind(nread') = "other" BY <1>a, <3>1 DEF ReadFrame, JustRead, TypeOK, PcsOK
    <3>2. CASE Kind(nread') # "other"
      <4>1. pc'["play"] = "putLock" /\ hand'["play"] = nread'  /\ media' = media
        BY <1>a, <3>2 DEF ReadFrame, TypeOK, PcsOK, QueuesOK
      <4>2. nread' # Nothing BY <2>2, MediaType DEF TypeOK
      <4> QED BY <4>1, <4>2 DEF JustRead, Kind, Opt
    <3> QED BY <3>1, <3>2
  <2>5. Undecoded' = IF Kind(nread') = "video" THEN Undecoded \o <<nread'>> ELSE Undecoded
    <3> DEFINE L == AtDecoder \o video_queue
    <3>1. L \in Seq(Ids) BY VideoTypes, ConcatProperties
    <3>2. Undecoded = L \o JustRead("video") BY VideoParts
    <3>3. Undecoded' = L \o JustRead("video")' BY <1>2, <2>1, VideoParts2
    <3> HIDE DEF L
    <3>4. L \o <<>> = L BY <3>1, ConcatEmptySeq
    <3> QED BY <2>3, <2>4, <3>2, <3>3, <3>4
  <2>6. Demuxed("video")' = IF Kind(nread') = "video" THEN Demuxed("video") \union {nread'} ELSE Demuxed("video")
    <3>1. nread' \notin lost BY <2>2
    <3>2. \A p : Kind(p)' = Kind(p) BY <1>0 DEF Kind
    <3> QED BY <1>0, <2>2, <3>1, <3>2 DEF Demuxed
  <2>7. \A p \in Demuxed("video") : p < nread' BY <2>2 DEF Demuxed
  <2>10. CASE Kind(nread') = "video"
    <3>1. SetOf(Undecoded \o <<nread'>>) = SetOf(Undecoded) \union {nread'}
       BY <2>2, VideoTypes, Grows
    <3>2. \A p \in SetOf(Undecoded) : p < nread' BY <2>7, VideoParts
    <3>3. Rising(Undecoded \o <<nread'>>)
       BY <2>2, <3>2, VideoTypes, VideoParts, Grows
    <3>4. nread' \notin Demuxed("video") BY <2>2 DEF Demuxed
    <3>5. nread' \notin SetOf(Decoded) BY <3>4, VideoParts
    <3>6. \A p \in decoder : p < nread' BY <2>7, VideoParts
    <3>7. Undecoded' = Undecoded \o <<nread'>> /\ Demuxed("video")' = Demuxed("video") \union {nread'}
       BY <2>5, <2>6, <2>10
    <3> DEFINE U == Undecoded \o <<nread'>>
    <3> HIDE DEF U
    <3>8. Undecoded' = U /\ SetOf(U) = SetOf(Undecoded) \union {nread'} /\ Rising(U)
       BY <3>7, <3>1, <3>3 DEF U
    <3>9. SetOf(Decoded') \union decoder' \union SetOf(Undecoded') = Demuxed("video")'
       BY <1>1, <1>3, <3>7, <3>8, VideoParts
    <3>10. SetOf(Decoded') \intersect (decoder' \union SetOf(Undecoded')) = {}
      <4>1. nread' \notin SetOf(Decoded) BY <3>5
      <4> QED BY <1>1, <1>3, <4>1, <3>8, VideoParts
    <3>11. \A p \in decoder' : \A q \in SetOf(Undecoded') : p < q
       BY <1>3, <3>6, <3>8, VideoParts
    <3> QED BY <1>1, <3>8, <3>9, <3>10, <3>11, VideoParts, VideoParts2
  <2> QED BY <1>0, <1>1, <2>5, <2>6, <2>10, VideoStays
<1>b. CASE Put
  <2>1. pc["play"] = "put" /\ pc'["play"] = "read" /\ hand["play"] \in Ids
    BY <1>b DEF Put, TypeOK, PcsOK, HandsOK
  <2>2. JustRead("video")' = <<>> BY <2>1 DEF JustRead
  <2>3. Undecoded' = Undecoded
    <3>1. Undecoded = AtDecoder \o video_queue \o JustRead("video")
          /\ Undecoded' = AtDecoder \o video_queue' \o <<>> BY <1>2, <2>2, VideoParts, VideoParts2
    <3>4. CASE Kind(hand["play"]) = "video"
      <4>1. video_queue' = Append(video_queue, hand["play"]) BY <1>b, <3>4 DEF Put, PushBack
      <4>2. JustRead("video") = <<hand["play"]>> BY <2>1, <3>4, OptParts, MediaType DEF JustRead, TypeOK
      <4>3. (AtDecoder \o video_queue) \o <<hand["play"]>> = (AtDecoder \o Append(video_queue, hand["play"])) \o <<>>
        <5>1. AtDecoder \in Seq(Ids) /\ video_queue \in Seq(Ids) BY VideoTypes
        <5> QED BY <2>1, <5>1, MovesOne, Zenon
      <4> QED BY <3>1, <4>1, <4>2, <4>3
    <3>5. CASE Kind(hand["play"]) # "video"
      <4>1. video_queue' = video_queue BY <1>b, <3>5 DEF Put
      <4>2. JustRead("video") = <<>> BY <3>5 DEF JustRead
      <4> QED BY <3>1, <4>1, <4>2
    <3> QED BY <3>4, <3>5
  <2> QED BY <2>3, <1>b, <1>0, <1>1, VideoStays, DemuxedStays DEF Put
<1>c. CASE OpenFails \/ Open \/ Publish \/ Spawn \/ PutLock \/ Join
  <2>1. /\ UNCHANGED <<video_queue, hand, nread>>
        /\ (pc["play"] \in {"putLock", "put"} <=> pc'["play"] \in {"putLock", "put"})
    BY <1>c DEF OpenFails, Open, Publish, Spawn, PutLock, Join, TypeOK, PcsOK
  <2>2. JustRead("video")' = JustRead("video") BY <1>0, <2>1 DEF JustRead, Kind
  <2>3. Undecoded' = Undecoded BY <1>2, <2>1, <2>2, VideoParts, VideoParts2
  <2> QED BY <1>0, <1>1, <2>1, <2>3, VideoStays, DemuxedStays
<1> QED BY <1>a, <1>b, <1>c DEF Play

LEMMA DropsFirst ==
    ASSUME NEW S \in SUBSET Nat, NEW q \in Seq(S), NEW r \in Seq(S), NEW x \in S,
           Rising((<<x>> \o q) \o r)
    PROVE  /\ Rising((<<>> \o q) \o r)
           /\ SetOf((<<>> \o q) \o r) = SetOf((<<x>> \o q) \o r) \ {x}
           /\ x \in SetOf((<<x>> \o q) \o r)
           /\ \A y \in SetOf((<<>> \o q) \o r) : x < y
<1> DEFINE t == <<x>>
           b == t \o q
           c == b \o r
           e == q \o r
<1>1. t \in Seq(S) /\ SetOf(t) = {x} /\ Rising(t) BY SetOfParts, RisingParts
<1>2. <<>> \o q = q BY ConcatEmptySeq
<1> SUFFICES ASSUME Rising(c)
             PROVE  Rising(e) /\ SetOf(e) = SetOf(c) \ {x} /\ x \in SetOf(c) /\ \A y \in SetOf(e) : x < y
  BY <1>2
<1> HIDE DEF t
<1>4. b \in Seq(S) /\ Joins(t, q, b) BY <1>1, ConcatJoins, ConcatProperties
<1> HIDE DEF b
<1>6. Joins(b, r, c) /\ Joins(q, r, e) BY <1>4, ConcatJoins
<1> HIDE DEF c, e
<1>7. Rising(b) /\ Rising(r) /\ \A y \in SetOf(b) : \A z \in SetOf(r) : y < z BY <1>6, RisingJoin
<1>8. Rising(q) /\ \A z \in SetOf(q) : x < z BY <1>1, <1>7, <1>4, RisingJoin
<1>10. /\ SetOf(b) = {x} \union SetOf(q)
       /\ SetOf(c) = SetOf(b) \union SetOf(r)
       /\ SetOf(e) = SetOf(q) \union SetOf(r)
  BY <1>1, <1>4, <1>6, SetOfJoin
<1>11. Rising(e) BY <1>6, <1>7, <1>8, <1>10, RisingJoin
<1>12. \A y \in SetOf(e) : x < y BY <1>7, <1>8, <1>10
<1>13. x \notin SetOf(e) BY <1>12
<1> QED BY <1>10, <1>11, <1>12, <1>13

LEMMA GrowsDistinct ==
    ASSUME NEW S, NEW s \in Seq(S), NEW x \in S, Distinct(s), x \notin SetOf(s)
    PROVE  SetOf(s \o <<x>>) = SetOf(s) \union {x} /\ Distinct(s \o <<x>>)
<1> DEFINE t == <<x>>
<1>1. t \in Seq(S) /\ SetOf(t) = {x} /\ Distinct(t) BY SetOfParts, DistinctParts
<1> HIDE DEF t
<1>2. Joins(s, t, s \o t) BY <1>1, ConcatJoins
<1>3. SetOf(s \o t) = SetOf(s) \union {x} BY <1>1, <1>2, SetOfJoin
<1>4. Distinct(s \o t) BY <1>1, <1>2, DistinctJoin
<1> QED BY <1>3, <1>4 DEF t

UndecodedDrops(p) ==
    /\ Rising(Undecoded')
    /\ SetOf(Undecoded') = SetOf(Undecoded) \ {p}
    /\ p \in SetOf(Undecoded)
    /\ \A q \in SetOf(Undecoded') : p < q

\* Pushing a picture and rendering one moves the boundary between the lists,
\* not the order of the pictures behind the decoder; only the decoder adds one.
LEMMA DecodedMoves ==
    ASSUME TypeOK, HandsIdle, Next, ~VideoPicture
    PROVE  Decoded' = Decoded
<1> USE DEF session, videoPath, audioPath, screen
<1>1. CASE VideoPush
  <2>1. vp \in Frames /\ vp' = NoFrame /\ video_pkt' = Append(video_pkt, vp) /\ shown' = shown
    BY <1>1 DEF VideoPush, PushBack, Release, TypeOK, HandsOK
  <2>2. Pics(video_pkt') = Append(Pics(video_pkt), vp.pic) BY <2>1, PicsOf DEF TypeOK, QueuesOK
  <2>3. vp.pic \in Ids /\ vp'.pic = Nothing BY <2>1 DEF Frames, NoFrame
  <2>4. Opt(vp.pic) = <<vp.pic>> /\ Opt(vp'.pic) = <<>> BY <2>3, OptParts, MediaType DEF TypeOK
  <2>5. (shown \o Pics(video_pkt)) \o <<vp.pic>> = (shown \o Append(Pics(video_pkt), vp.pic)) \o <<>>
    <3>1. shown \in Seq(Ids) /\ Pics(video_pkt) \in Seq(Ids) /\ vp.pic \in Ids BY <2>3, VideoTypes
    <3> QED BY <3>1, MovesOne
  <2> QED BY <2>1, <2>2, <2>4, <2>5, VideoParts, VideoParts2
<1>2. CASE RenderDue
  <2>1. /\ video_pkt # <<>> /\ video_pkt' = Tail(video_pkt) /\ vp' = vp
        /\ shown' = Append(shown, Head(video_pkt).pic) /\ Head(video_pkt).pic \in Ids
    BY <1>2, QueueTypes DEF RenderDue, PopFront, TypeOK
  <2> DEFINE P == Pics(video_pkt)
  <2>2. P # <<>> /\ Head(P) = Head(video_pkt).pic /\ Pics(video_pkt') = Tail(P)
    BY <2>1, PicsOf DEF TypeOK, QueuesOK
  <2>3. P \in Seq(Ids) /\ shown \in Seq(Ids) BY VideoTypes
  <2> HIDE DEF P
  <2>4. shown' = shown \o <<Head(P)>> BY <2>1, <2>2, <2>3, AppendIsConcat
  <2>5. (shown \o <<>>) \o P = (shown \o <<Head(P)>>) \o Tail(P) /\ shown \o <<>> = shown
    BY <2>1, <2>2, <2>3, MovesOne
  <2> QED BY <2>1, <2>2, <2>4, <2>5, VideoParts, VideoParts2 DEF P
<1>3. CASE UNCHANGED <<shown, video_pkt, vp>> BY <1>3, DecodedStays
<1> QED BY <1>1, <1>2, <1>3 DEF Next, Play, Video, Audio, Render, Callback, OpenFails, Open, Publish,
   Spawn, ReadFrame, PutLock, Put, Join, VideoLock, VideoPop, VideoSized, VideoNoPicture,
   VideoPushLock, VideoNotify, AudioLock, AudioPop, AudioRejected,
   AudioDecoded, AudioPushLock, AudioPush, BufferPlayed, CallbackLock,
   CallbackPop, CallbackClockLock, CallbackClock, CallbackEnqueue, CallbackFree,
   DrawFrame, RenderLock, RenderEmpty, RenderNotDue, RenderDraw, Acquire

\* The picture the decoder gives away becomes the last one behind it.
LEMMA PictureLeaves ==
    ASSUME TypeOK, HandsIdle, VideoPicture
    PROVE  \E pic \in Earliest(decoder \union {hand["video"]}) :
              /\ pic \in Ids
              /\ decoder' = (decoder \union {hand["video"]}) \ {pic}
              /\ Decoded' = Decoded \o <<pic>>
<1>0. PICK pic \in Earliest(decoder \union {hand["video"]}) :
          /\ decoder' = (decoder \union {hand["video"]}) \ {pic}
          /\ vp' = [pic |-> pic, pts |-> Label(pic, hand["video"])]
  BY DEF VideoPicture
<1>1. hand["video"] \in Ids /\ vp = NoFrame /\ shown' = shown /\ video_pkt' = video_pkt
  BY DEF VideoPicture, Goto, TypeOK, PcsOK, HandsOK, HandsIdle, screen
<1>2. pic \in Ids /\ vp'.pic = pic /\ vp.pic = Nothing
  BY <1>0, <1>1 DEF Earliest, TypeOK, QueuesOK, NoFrame
<1> DEFINE D == shown \o Pics(video_pkt)
<1>3. D \in Seq(Ids) BY VideoTypes, ConcatProperties
<1>4. Opt(vp.pic) = <<>> /\ Opt(vp'.pic) = <<pic>> BY <1>2, OptParts, MediaType DEF TypeOK
<1>5. Decoded = D \o <<>> /\ Decoded' = D \o <<pic>> BY <1>1, <1>4, VideoParts, VideoParts2
<1> HIDE DEF D
<1>6. Decoded = D BY <1>3, <1>5, ConcatEmptySeq
<1> QED BY <1>0, <1>2, <1>5, <1>6

LEMMA VideoThreadConserves ==
    ASSUME TypeOK, HandsIdle, Next, VideoConserved, Video, lost \subseteq 1 .. nread
    PROVE  VideoConserved'
<1> USE DEF Goto, Acquire, Release, Take, Drop, Threads, Runners, session, videoPath, audioPath, screen
<1>0. UNCHANGED <<shown, media, nread>> /\ hand'["play"] = hand["play"] /\ pc'["play"] = pc["play"]
  BY DEF Video, VideoLock, VideoPop, VideoSized, VideoNoPicture, VideoPicture,
              VideoPushLock, VideoPush, VideoNotify, TypeOK, PcsOK, QueuesOK
<1>1. JustRead("video")' = JustRead("video") BY <1>0 DEF JustRead, Kind
<1> DEFINE J == JustRead("video")
<1>2. /\ Undecoded = AtDecoder \o video_queue \o J
      /\ Undecoded' = AtDecoder' \o video_queue' \o J
      /\ Decoded = shown \o Pics(video_pkt) \o Opt(vp.pic)
      /\ Decoded' = shown \o Pics(video_pkt') \o Opt(vp'.pic)
  BY <1>0, <1>1, VideoParts, VideoParts2
<1>3. hand["video"] \in Ids \union {Nothing} BY DEF TypeOK, QueuesOK
<1>a. CASE VideoPop
  <2>1. pc["video"] = "vPop" /\ pc'["video"] = "vSize" /\ hand["video"] = Nothing
        /\ UNCHANGED <<decoder, lost, vp, video_pkt>>
    BY <1>a DEF VideoPop, TypeOK, PcsOK, HandsIdle
  <2>2. AtDecoder = <<>> /\ AtDecoder' = Opt(hand'["video"]) BY <2>1 DEF AtDecoder, Opt
  <2>3. AtDecoder' \o video_queue' = AtDecoder \o video_queue
    <3>1. CASE video_queue = <<>>
      BY <1>a, <2>1, <2>2, <3>1, OptParts DEF VideoPop
    <3>2. CASE video_queue # <<>>
      <4>1. hand'["video"] = Head(video_queue) /\ Head(video_queue) \in Ids /\ video_queue' = Tail(video_queue)
            /\ video_queue \in Seq(Ids)
        BY <1>a, <3>2, QueueTypes DEF VideoPop, PopFront, TypeOK, QueuesOK
      <4>2. AtDecoder' = <<Head(video_queue)>> BY <2>2, <4>1, OptParts, MediaType DEF TypeOK
      <4>3. video_queue = <<Head(video_queue)>> \o Tail(video_queue) BY <3>2, <4>1
      <4>4. <<>> \o video_queue = video_queue BY <4>1, ConcatEmptySeq
      <4> QED BY <2>2, <4>1, <4>2, <4>3, <4>4
    <3> QED BY <3>1, <3>2
  <2>4. Undecoded' = Undecoded BY <1>2, <2>3
  <2> QED BY <1>0, <2>1, <2>4, VideoStays, DemuxedStays, DecodedStays
<1>b. CASE VideoNoPicture
  <2> DEFINE p == hand["video"]
  <2>1. /\ pc["video"] = "vDecode" /\ pc'["video"] = "vNotify" /\ p \in Ids
        /\ UNCHANGED <<vp, video_pkt, video_queue>>
        /\ \/ lost' = lost \union {p} /\ decoder' = decoder
           \/ decoder' = decoder \union {p} /\ lost' = lost
    BY <1>b DEF VideoNoPicture, TypeOK, PcsOK, HandsOK
  <2>2. AtDecoder' = <<>> BY <2>1 DEF AtDecoder
  <2>3. AtDecoder = <<p>> BY <2>1, OptParts, MediaType DEF AtDecoder, TypeOK
  <2>4. UndecodedDrops(p)
    <3>1. Undecoded = (<<p>> \o video_queue) \o J /\ Undecoded' = (<<>> \o video_queue) \o J
      BY <1>2, <2>1, <2>2, <2>3
    <3>2. J \in Seq(Ids) /\ video_queue \in Seq(Ids) /\ Ids \in SUBSET Nat /\ p \in Ids
      BY <2>1, VideoTypes, MediaType DEF TypeOK
    <3> HIDE DEF J, p
    <3>3. Rising((<<p>> \o video_queue) \o J) BY <3>1, VideoParts
    <3> QED BY <3>1, <3>2, <3>3, DropsFirst DEF UndecodedDrops
  <2>5. p \in SetOf(Undecoded) /\ p \in Demuxed("video") BY <2>4, VideoParts DEF UndecodedDrops
  <2> HIDE DEF p
  <2>6. Decoded' = Decoded BY <1>0, <2>1, DecodedStays
  <2>7. CASE lost' = lost \union {p} /\ decoder' = decoder
    <3>1. Demuxed("video")' = Demuxed("video") \ {p} BY <1>0, <2>7 DEF Demuxed, Kind
    <3>2. p \notin decoder
      <4>1. p \in Nat BY <2>5 DEF Demuxed
      <4>2. \A q \in decoder : q < p BY <2>5, VideoParts
      <4> QED BY <4>1, <4>2
    <3> QED BY <2>4, <2>5, <2>6, <2>7, <3>1, <3>2, VideoParts, VideoParts2 DEF UndecodedDrops
  <2>8. CASE decoder' = decoder \union {p} /\ lost' = lost
    <3>1. Demuxed("video")' = Demuxed("video") BY <1>0, <2>8, DemuxedStays
    <3> QED BY <2>4, <2>5, <2>6, <2>8, <3>1, VideoParts, VideoParts2 DEF UndecodedDrops
  <2> QED BY <2>1, <2>7, <2>8
<1>c. CASE VideoPicture
  <2> DEFINE p == hand["video"]
  <2>0. PICK pic \in Earliest(decoder \union {p}) :
            /\ pic \in Ids
            /\ decoder' = (decoder \union {p}) \ {pic}
            /\ Decoded' = Decoded \o <<pic>>
    BY <1>c, PictureLeaves
  <2>1. /\ pc["video"] = "vDecode" /\ pc'["video"] = "vPushLock" /\ p \in Ids
        /\ UNCHANGED <<lost, video_queue>>
    BY <1>c DEF VideoPicture, TypeOK, PcsOK, HandsOK
  <2>2. AtDecoder' = <<>> BY <2>1 DEF AtDecoder
  <2>3. AtDecoder = <<p>> BY <2>1, OptParts, MediaType DEF AtDecoder, TypeOK
  <2>4. UndecodedDrops(p)
    <3>1. Undecoded = (<<p>> \o video_queue) \o J /\ Undecoded' = (<<>> \o video_queue) \o J
      BY <1>2, <2>1, <2>2, <2>3
    <3>2. J \in Seq(Ids) /\ video_queue \in Seq(Ids) /\ Ids \in SUBSET Nat /\ p \in Ids
      BY <2>1, VideoTypes, MediaType DEF TypeOK
    <3> HIDE DEF J, p
    <3>3. Rising((<<p>> \o video_queue) \o J) BY <3>1, VideoParts
    <3> QED BY <3>1, <3>2, <3>3, DropsFirst DEF UndecodedDrops
  <2>5. p \in SetOf(Undecoded) /\ p \in Demuxed("video") BY <2>4, VideoParts DEF UndecodedDrops
  <2>6. Demuxed("video")' = Demuxed("video") BY <1>0, <2>1, DemuxedStays
  <2>7. pic \in decoder \union {p} BY DEF Earliest
  <2> HIDE DEF p
  <2>8. pic \notin SetOf(Decoded) BY <2>5, <2>7, VideoParts
  <2>9. SetOf(Decoded') = SetOf(Decoded) \union {pic} /\ Distinct(Decoded')
    <3>1. Decoded \in Seq(Ids) /\ Distinct(Decoded) BY VideoTypes, VideoParts
    <3> QED BY <2>0, <2>8, <3>1, GrowsDistinct
  <2>10. SetOf(Decoded') \union decoder' \union SetOf(Undecoded') = Demuxed("video")'
    BY <2>0, <2>4, <2>5, <2>6, <2>7, <2>9, VideoParts DEF UndecodedDrops
  <2>11. SetOf(Decoded') \intersect (decoder' \union SetOf(Undecoded')) = {}
    <3>1. \A q \in SetOf(Undecoded) : q \notin decoder 
      <4>1. \A q \in SetOf(Undecoded) : q \in Nat BY VideoParts DEF Demuxed
      <4> QED BY <4>1, VideoParts
    <3>2. pic \notin SetOf(Undecoded') BY <2>4, <2>7, <3>1 DEF UndecodedDrops
    <3>3. pic \notin decoder' BY <2>0
    <3>4. SetOf(Undecoded') \subseteq SetOf(Undecoded) BY <2>4 DEF UndecodedDrops
    <3>5. decoder' \subseteq decoder \union SetOf(Undecoded) BY <2>0, <2>5
    <3> QED BY <2>9, <3>2, <3>3, <3>4, <3>5, VideoParts
  <2>12. \A q \in decoder' : \A r \in SetOf(Undecoded') : q < r
    BY <2>0, <2>4, <2>5, VideoParts DEF UndecodedDrops
  <2> QED BY <2>4, <2>9, <2>10, <2>11, <2>12, VideoParts2 DEF UndecodedDrops
<1>d. CASE VideoPush
  <2>1. /\ pc["video"] = "vPush" /\ pc'["video"] = "vNotify"
        /\ UNCHANGED <<decoder, lost, video_queue>>
    BY <1>d DEF VideoPush, TypeOK, PcsOK
  <2>2. AtDecoder' = AtDecoder BY <2>1 DEF AtDecoder
  <2>3. Undecoded' = Undecoded BY <1>2, <2>1, <2>2
  <2>4. Decoded' = Decoded BY <1>d, DecodedMoves DEF VideoPush, VideoPicture, Release, Goto
  <2> QED BY <1>0, <2>1, <2>3, <2>4, VideoStays, DemuxedStays
<1>e. CASE VideoLock \/ VideoSized \/ VideoPushLock \/ VideoNotify
  <2>1. UNCHANGED <<decoder, lost, video_queue, vp, video_pkt>>
    BY <1>e DEF VideoLock, VideoSized, VideoPushLock, VideoNotify
  <2>2. AtDecoder' = AtDecoder
    BY <1>e, OptParts DEF VideoLock, VideoSized, VideoPushLock, VideoNotify, AtDecoder, TypeOK, PcsOK
  <2>3. Undecoded' = Undecoded BY <1>2, <2>1, <2>2
  <2> QED BY <1>0, <2>1, <2>3, VideoStays, DemuxedStays, DecodedStays
<1> QED BY <1>a, <1>b, <1>c, <1>d, <1>e DEF Video

\* What is in hand is part of the line.
LEMMA HandInLine ==
    ASSUME TypeOK, HandsIdle, hand["audio"] \in Ids
    PROVE  hand["audio"] \in SetOf(AudioLine)
<1> DEFINE L == heard \o Queued \o InCallback \o audio_pkt
           O == Opt(hand["audio"])
<1>1. L \in Seq(Ids) /\ O \in Seq(Ids) /\ audio_queue \in Seq(Ids) /\ JustRead("audio") \in Seq(Ids)
  BY LineTypes, ConcatProperties
<1>2. SetOf(O) = {hand["audio"]} BY OptParts, SetOfParts, MediaType DEF TypeOK
<1>3. AudioLine = L \o O \o audio_queue \o JustRead("audio") BY DEF AudioLine
<1> HIDE DEF L, O
<1> DEFINE M == L \o O
           N == M \o audio_queue
<1>4. M \in Seq(Ids) /\ SetOf(M) = SetOf(L) \union SetOf(O) BY <1>1, SetOfParts
<1>5. AudioLine = N \o JustRead("audio") BY <1>3
<1> HIDE DEF M
<1>6. N \in Seq(Ids) /\ SetOf(N) = SetOf(M) \union SetOf(audio_queue) BY <1>1, <1>4, SetOfParts, ConcatProperties
<1> HIDE DEF N
<1>7. SetOf(AudioLine) = SetOf(N) \union SetOf(JustRead("audio")) BY <1>1, <1>5, <1>6, SetOfParts
<1> QED BY <1>2, <1>4, <1>6, <1>7

LEMMA RestVideo ==
    ASSUME TypeOK, HandsIdle, Next, VideoConserved, AudioFifo,
           Audio \/ BufferPlayed \/ Render \/ \E t \in Runners : Callback(t)
    PROVE  VideoConserved'
<1> USE DEF Goto, Acquire, Release, Take, Drop, Threads, Runners, session, videoPath, audioPath, screen
<1> DEFINE Same == /\ UNCHANGED <<media, nread, decoder, vp, video_queue>> /\ hand'["video"] = hand["video"]
                   /\ pc'["video"] = pc["video"]
                   /\ (pc["play"] \in {"putLock", "put"} <=> pc'["play"] \in {"putLock", "put"})
                   /\ (pc["play"] \in {"putLock", "put"} => hand'["play"] = hand["play"])
<1>0. Same
  <2>1. CASE Audio
    BY <2>1 DEF Audio, AudioLock, AudioPop, AudioRejected, AudioDecoded, AudioPushLock, AudioPush, TypeOK, PcsOK, QueuesOK
  <2>2. CASE Render
    BY <2>2 DEF Render, DrawFrame, RenderLock, RenderEmpty, RenderNotDue, RenderDue, RenderDraw, TypeOK, PcsOK, QueuesOK
  <2>3. CASE BufferPlayed BY <2>3 DEF BufferPlayed, TypeOK, PcsOK, QueuesOK
  <2>4. ASSUME NEW t \in Runners, Callback(t) PROVE Same
    BY <2>4 DEF Callback, CallbackLock, CallbackPop, CallbackClockLock, CallbackClock,
         CallbackEnqueue, CallbackFree, TypeOK, PcsOK, QueuesOK
  <2> QED BY <2>1, <2>2, <2>3, <2>4
<1>1. AtDecoder' = AtDecoder /\ JustRead("video")' = JustRead("video")
  BY <1>0 DEF AtDecoder, JustRead, Kind
<1>2. Undecoded' = Undecoded BY <1>0, <1>1, VideoParts, VideoParts2
<1>3. decoder' = decoder BY <1>0
<1>4. Demuxed("video")' = Demuxed("video")
  <2>1. CASE AudioRejected
    <3>1. hand["audio"] \in Ids /\ lost' = lost \union {hand["audio"]}
      BY <2>1 DEF AudioRejected, TypeOK, HandsOK
    <3>2. Kind(hand["audio"]) = "audio" BY <3>1, HandInLine DEF AudioFifo, Demuxed
    <3> QED BY <1>0, <3>1, <3>2 DEF Demuxed, Kind
  <2>2. CASE lost' = lost BY <1>0, <2>2, DemuxedStays
  <2> QED BY <2>1, <2>2 DEF Audio, AudioLock, AudioPop, AudioDecoded, AudioPushLock, AudioPush, Render, DrawFrame, RenderLock, RenderEmpty, RenderNotDue, RenderDue, RenderDraw,
      BufferPlayed, Callback, CallbackLock, CallbackPop, CallbackClockLock, CallbackClock, CallbackEnqueue, CallbackFree
<1>5. Decoded' = Decoded
  <2>1. ~VideoPicture BY <1>0 DEF VideoPicture, TypeOK, PcsOK
  <2> QED BY <2>1, DecodedMoves
<1> QED BY <1>2, <1>3, <1>4, <1>5, VideoStays

\* What video_thread is about to decode is the earliest in the file of all that
\* is on its way to the decoder.
LEMMA FedFirst ==
    ASSUME TypeOK, HandsIdle, VideoConserved, pc["video"] = "vDecode"
    PROVE  hand["video"] \in SetOf(Undecoded) /\ \A u \in SetOf(Undecoded) : hand["video"] <= u
<1> DEFINE h == hand["video"]
           J == JustRead("video")
<1>1. h \in Ids /\ h \in Nat /\ AtDecoder = <<h>>
  BY OptParts, MediaType DEF AtDecoder, TypeOK, HandsOK
<1>2. Undecoded = (<<h>> \o video_queue) \o J BY <1>1, VideoParts
<1>3. J \in Seq(Ids) /\ video_queue \in Seq(Ids) /\ Ids \in SUBSET Nat
  BY VideoTypes, MediaType DEF TypeOK
<1> HIDE DEF J, h
<1>4. Rising((<<h>> \o video_queue) \o J) BY <1>2, VideoParts
<1> DEFINE R == SetOf((<<>> \o video_queue) \o J)
<1>5. R = SetOf(Undecoded) \ {h} /\ h \in SetOf(Undecoded) /\ \A y \in R : h < y
  BY <1>1, <1>2, <1>3, <1>4, DropsFirst
<1> HIDE DEF R
<1>6. \A u \in SetOf(Undecoded) : u \in Nat BY VideoParts DEF Demuxed
<1>7. \A u \in SetOf(Undecoded) : h <= u BY <1>1, <1>5, <1>6
<1> QED BY <1>5, <1>7 DEF h

LEMMA RestAudio ==
    ASSUME TypeOK, HandsIdle, Next, VideoConserved, AudioFifo, Video \/ Render
    PROVE  AudioFifo'
<1> USE DEF Goto, Acquire, Release, Take, Drop, Threads, Runners, session, videoPath, audioPath, screen
<1> DEFINE Same == /\ UNCHANGED <<heard, slq, audio_pkt, audio_queue, media, nread>>
                   /\ \A t \in {"play", "sl", "audio"} : hand'[t] = hand[t] /\ pc'[t] = pc[t]
<1>0. Same
  <2>1. CASE Video
    BY <2>1 DEF Video, VideoLock, VideoPop, VideoSized, VideoNoPicture, VideoPicture,
              VideoPushLock, VideoPush, VideoNotify, TypeOK, PcsOK, QueuesOK
  <2>2. CASE Render
    BY <2>2 DEF Render, DrawFrame, RenderLock, RenderEmpty, RenderNotDue, RenderDue, RenderDraw, TypeOK, PcsOK, QueuesOK
  <2> QED BY <2>1, <2>2
<1>1. heard' = heard /\ Queued' = Queued /\ InCallback' = InCallback BY <1>0, FrontStays DEF Carrying
<1>2. JustRead("audio")' = JustRead("audio") BY <1>0 DEF JustRead, Kind
<1>3. AudioLine' = AudioLine BY <1>0, <1>1, <1>2 DEF AudioLine
<1>4. Demuxed("audio")' = Demuxed("audio")
  <2>1. CASE VideoNoPicture
    <3>1. pc["video"] = "vDecode" /\ lost' \in {lost, lost \union {hand["video"]}}
      BY <2>1 DEF VideoNoPicture
    <3>2. Kind(hand["video"]) = "video" BY <3>1, FedFirst, VideoParts DEF Demuxed
    <3> QED BY <1>0, <3>1, <3>2 DEF Demuxed, Kind
  <2>2. CASE lost' = lost BY <1>0, <2>2, DemuxedStays
  <2> QED BY <2>1, <2>2 DEF Video, VideoLock, VideoPop, VideoSized, VideoPicture,
              VideoPushLock, VideoPush, VideoNotify, Render, DrawFrame, RenderLock, RenderEmpty, RenderNotDue, RenderDue, RenderDraw
<1> QED BY <1>3, <1>4, LineMoves

LEMMA NextLost ==
    ASSUME TypeOK, HandsIdle, Next, VideoConserved, AudioFifo, lost \subseteq 1 .. nread
    PROVE  (lost \subseteq 1 .. nread)'
<1> USE DEF session, Acquire
<1>1. CASE AudioRejected
  <2>1. hand["audio"] \in Ids /\ lost' = lost \union {hand["audio"]} /\ nread' = nread
    BY <1>1 DEF AudioRejected, Goto, TypeOK, HandsOK
  <2>2. hand["audio"] \in 1 .. nread BY <2>1, HandInLine DEF AudioFifo, Demuxed
  <2> QED BY <2>1, <2>2
<1>2. CASE VideoNoPicture
  <2>1. pc["video"] = "vDecode" /\ lost' \in {lost, lost \union {hand["video"]}} /\ nread' = nread
    BY <1>2 DEF VideoNoPicture, Goto
  <2>2. hand["video"] \in 1 .. nread BY <2>1, FedFirst, VideoParts DEF Demuxed
  <2> QED BY <2>1, <2>2
<1>3. CASE ReadFrame BY <1>3 DEF ReadFrame, TypeOK, SessionOK
<1>4. CASE lost' = lost /\ nread' = nread BY <1>4
<1> QED BY <1>1, <1>2, <1>3, <1>4 DEF Next, Play, Video, Audio, Render, Callback, OpenFails, Open, Publish, Spawn,
   PutLock, Put, Join, VideoLock, VideoPop, VideoSized,
   VideoPicture, VideoPushLock, VideoPush, VideoNotify, AudioLock, AudioPop,
   AudioDecoded, AudioPushLock, AudioPush, BufferPlayed, CallbackLock,
   CallbackPop, CallbackClockLock, CallbackClock, CallbackEnqueue, CallbackFree,
   DrawFrame, RenderLock, RenderEmpty, RenderNotDue, RenderDue, RenderDraw

FifoInv == HandsIdle /\ lost \subseteq 1 .. nread /\ AudioFifo /\ VideoConserved

LEMMA InitFifo == ASSUME Init PROVE FifoInv
<1> USE DEF Init
<1>1. HandsIdle /\ lost \subseteq 1 .. nread
  BY DEF HandsIdle, Threads, Nothing
<1>2. \A kind : Demuxed(kind) = {} BY DEF Demuxed
<1>3. hand["audio"] = Nothing /\ hand["video"] = Nothing /\ pc["play"] = "open" /\ pc["sl"] = "slWait" /\ pc["video"] = "unborn"
  BY DEF Threads
<1>4. <<>> \o <<>> = <<>> BY ConcatEmptySeq, EmptySeq
<1>5. Queued = <<>> BY NoneQueued
<1>6. InCallback = <<>> /\ \A kind : JustRead(kind) = <<>>
  BY <1>3, OptParts DEF InCallback, Carrying, JustRead
<1>7. AudioLine = <<>> BY <1>3, <1>4, <1>5, <1>6, OptParts DEF AudioLine
<1>8. Undecoded = <<>> BY <1>3, <1>4, <1>6 DEF Undecoded
<1>9. Pics(video_pkt) = <<>> BY DEF Pics
<1>10. Decoded = <<>> BY <1>4, <1>9, VideoParts, OptParts DEF NoFrame
<1>11. AudioFifo BY <1>2, <1>7, SetOfParts, RisingParts DEF AudioFifo
<1>12. VideoConserved BY <1>2, <1>8, <1>10, SetOfParts, RisingParts, DistinctParts, VideoParts
<1> QED BY <1>1, <1>11, <1>12 DEF FifoInv

LEMMA NextFifo == ASSUME TypeOK, OneBufferChain, FifoInv, [Next]_vars PROVE FifoInv'
<1>1. CASE Next
  <2> USE <1>1 DEF FifoInv
  <2>1. HandsIdle' BY NextIdle
  <2>2. (lost \subseteq 1 .. nread)' BY NextLost
  <2>3. AudioFifo' BY PlayFifo, AudioThreadFifo, CallbackFifo, PlayedFifo, RestAudio DEF Next
  <2>4. VideoConserved' BY PlayVideo, VideoThreadConserves, RestVideo DEF Next
  <2> QED BY <2>1, <2>2, <2>3, <2>4
<1>2. CASE UNCHANGED vars
  <2> USE <1>2 DEF vars, session, videoPath, audioPath, screen
  <2>1. HandsIdle' /\ (lost \subseteq 1 .. nread)'
    BY DEF FifoInv, HandsIdle, Kind, Frames, Ids
  <2>2. \A kind : Demuxed(kind)' = Demuxed(kind) BY DemuxedStays
  <2>3. AudioFifo'
    <3>1. AudioLine' = AudioLine
      BY DEF AudioLine, Queued, Buffer, InCallback, Carrying, JustRead, Kind
    <3> QED BY <2>2, <3>1, LineMoves DEF FifoInv
  <2>4. VideoConserved'
    <3>1. Undecoded' = Undecoded BY DEF Undecoded, JustRead, Kind
    <3> QED BY <2>2, <3>1, DecodedStays, VideoStays DEF FifoInv
  <2> QED BY <2>1, <2>3, <2>4 DEF FifoInv
<1> QED BY <1>1, <1>2

LEMMA FifoInvariant == Spec => []FifoInv
BY InitFifo, NextFifo, TypeCorrect, ChainUnbroken, PTL DEF Spec

(***************************************************************************)
(* No packet of sound is lost, doubled or overtaken between the demuxer    *)
(* and the loudspeaker, whatever the five threads do.                      *)
(***************************************************************************)
THEOREM SoundComplete == Spec => []AudioFifo
<1>1. FifoInv => AudioFifo
  BY DEF FifoInv
<1> QED BY <1>1, FifoInvariant, PTL

(***************************************************************************)
(* Every video packet read is in exactly one place, before, inside or      *)
(* behind the decoder, or was rejected.                                    *)
(***************************************************************************)
THEOREM PicturesComplete == Spec => []VideoConserved
<1>1. FifoInv => VideoConserved
  BY DEF FifoInv
<1> QED BY <1>1, FifoInvariant, PTL

(***************************************************************************)
(* No picture ahead of the sound.  A picture carries the pts of a packet   *)
(* that was fed to the decoder after it, or of its own; since the decoder  *)
(* gives the earliest picture it holds, that packet is never earlier on    *)
(* the time line than the picture.                                         *)
(***************************************************************************)
Labelled(frame) ==
    \E f \in Ids : /\ Kind(f) = "video" /\ frame.pic <= f
                  /\ At(frame.pic) <= At(f) /\ frame.pts = Pts(f)
LabelInv ==
    /\ vp # NoFrame => Labelled(vp)
    /\ \A i \in 1 .. Len(video_pkt) : Labelled(video_pkt[i])

LEMMA PtsFixed == ASSUME media' = media
                  PROVE  /\ \A p : Pts(p)' = Pts(p) /\ Kind(p)' = Kind(p) /\ At(p)' = At(p)
                         /\ Promise!InReach' <=> Promise!InReach
                         /\ Ids' = Ids
<1>1. \A p : Kind(p)' = Kind(p) /\ At(p)' = At(p) BY DEF Kind, At
<1>2. \A p : Pts(p)' = Pts(p) BY <1>1 DEF Pts, None
<1> QED BY <1>1, <1>2 DEF Promise!InReach, Promise!Of, Promise!Time, Ids

LEMMA LabelStays ==
    ASSUME LabelInv, UNCHANGED <<media, vp, video_pkt>> PROVE LabelInv'
<1>1. vp' # NoFrame => Labelled(vp)' BY PtsFixed DEF LabelInv, Labelled
<1>2. \A i \in 1 .. Len(video_pkt') : Labelled(video_pkt[i])' BY PtsFixed DEF LabelInv, Labelled
<1> QED BY <1>1, <1>2 DEF LabelInv

LEMMA NextLabel == ASSUME TypeOK, FifoInv, LabelInv, Next PROVE LabelInv'
<1>0. media' = media BY MediaFixed
<1>1. \A frame : Labelled(frame)' <=> \E f \in Ids : /\ Kind(f) = "video" /\ frame'.pic <= f
                  /\ At(frame'.pic) <= At(f) /\ frame'.pts = Pts(f)
  BY <1>0, PtsFixed DEF Labelled
<1>2. CASE UNCHANGED <<vp, video_pkt>>
  BY <1>0, <1>2, LabelStays
<1>3. CASE VideoPicture
  <2> DEFINE h == hand["video"]
  <2>1. PICK pic \in Earliest(decoder \union {h}) : vp' = [pic |-> pic, pts |-> Label(pic, h)]
    BY <1>3 DEF VideoPicture
  <2>2. vp'.pic = pic /\ vp'.pts = Pts(h) BY <2>1 DEF Label
  <2>3. At(pic) <= At(h) BY <2>1 DEF Earliest
  <2>4. h \in SetOf(Undecoded)
    BY <1>3, FedFirst DEF FifoInv, VideoPicture, Goto
  <2>5. h \in Ids /\ h \in Nat /\ Kind(h) = "video"
    BY <2>4, VideoParts, MediaType DEF FifoInv, Demuxed, TypeOK, SessionOK, Ids
  <2>6. pic <= h
    <3>1. CASE pic = h BY <2>5, <3>1
    <3>2. CASE pic \in decoder
      <4>1. pic < h BY <2>4, <3>2, VideoParts DEF FifoInv
      <4>2. pic \in Ids BY <3>2 DEF TypeOK, QueuesOK
      <4> QED BY <2>5, <4>1, <4>2 DEF Ids
    <3> QED BY <2>1, <3>1, <3>2 DEF Earliest
  <2> HIDE DEF h
  <2>7. Labelled(vp)' BY <1>1, <2>2, <2>3, <2>5, <2>6
  <2>8. \A i \in 1 .. Len(video_pkt') : Labelled(video_pkt[i])'
    BY <1>0, <1>3, PtsFixed DEF LabelInv, Labelled, VideoPicture
  <2> QED BY <2>7, <2>8 DEF LabelInv
<1>4. CASE VideoPush
  <2>1. vp \in Frames /\ vp # NoFrame
    BY <1>4, MediaType DEF VideoPush, Release, TypeOK, HandsOK, Frames, NoFrame
  <2>2. /\ video_pkt \in Seq(Frames)
        /\ video_pkt' = Append(video_pkt, vp)
        /\ vp' = NoFrame
    BY <1>4 DEF VideoPush, PushBack, TypeOK, QueuesOK
  <2>3. \A i \in 1 .. Len(video_pkt') : Labelled(video_pkt'[i])
    BY <2>1, <2>2 DEF LabelInv
  <2>4. \A i \in 1 .. Len(video_pkt') : Labelled(video_pkt[i])'
    BY <1>0, <2>3, PtsFixed DEF Labelled
  <2>. QED BY <2>2, <2>4 DEF LabelInv
<1>5. CASE RenderDue
  <2>1. /\ video_pkt \in Seq(Frames) /\ video_pkt # <<>>
        /\ video_pkt' = Tail(video_pkt)
        /\ vp' = vp
    BY <1>5 DEF RenderDue, PopFront, TypeOK, QueuesOK
  <2>2. \A i \in 1 .. Len(video_pkt') :
            i + 1 \in 1 .. Len(video_pkt) /\ video_pkt'[i] = video_pkt[i + 1]
    BY <2>1
  <2>3. \A i \in 1 .. Len(video_pkt') : Labelled(video_pkt'[i])
    BY <2>2 DEF LabelInv
  <2>4. \A i \in 1 .. Len(video_pkt') : Labelled(video_pkt[i])'
    BY <1>0, <2>3, PtsFixed DEF Labelled
  <2>5. vp' # NoFrame => Labelled(vp)'
    BY <1>0, <2>1, PtsFixed DEF Labelled, LabelInv
  <2>. QED BY <2>4, <2>5 DEF LabelInv
<1>. QED
  BY <1>2, <1>3, <1>4, <1>5 DEF Next, Play, Video, Audio, Render, Callback, OpenFails, Open,
     Publish, Spawn, ReadFrame, PutLock, Put, Join, VideoLock, VideoPop, VideoSized,
     VideoNoPicture, VideoPushLock, VideoNotify, AudioLock, AudioPop, AudioRejected,
     AudioDecoded, AudioPushLock, AudioPush, BufferPlayed, CallbackLock, CallbackPop,
     CallbackClockLock, CallbackClock, CallbackEnqueue, CallbackFree, DrawFrame, RenderLock,
     RenderEmpty, RenderNotDue, RenderDraw, Acquire, videoPath

\* The frame at the head of the list, with the packet it is labelled by.
LEMMA HeadLabelled ==
    ASSUME TypeOK, LabelInv, video_pkt # <<>>
    PROVE  /\ Head(video_pkt) \in Frames /\ Head(video_pkt).pic \in Ids
           /\ \E f \in Ids : /\ Kind(f) = "video" /\ Head(video_pkt).pic <= f
                             /\ At(Head(video_pkt).pic) <= At(f) /\ Head(video_pkt).pts = Pts(f)
<1>1. /\ video_pkt \in Seq(Frames) /\ Len(video_pkt) \in Nat /\ Len(video_pkt) # 0
      /\ Head(video_pkt) = video_pkt[1]
  BY EmptySeq DEF TypeOK, QueuesOK
<1>2. Head(video_pkt) \in Frames BY <1>1
<1>3. Labelled(Head(video_pkt)) BY <1>1 DEF LabelInv
<1> QED BY <1>2, <1>3 DEF Labelled, Frames

LEMMA ShownLate ==
    ASSUME TypeOK, LabelInv, Next, NEW p \in Ids, shown' = Append(shown, p)
    PROVE  At(p) <= audio_pts \/ Head(video_pkt).pts = None("video")
<1>1. shown' # shown
  BY DEF TypeOK, QueuesOK
<1>2. RenderDue
  BY <1>1 DEF Next, Play, Video, Audio, Render, Callback, OpenFails, Open,
     Publish, Spawn, ReadFrame, PutLock, Put, Join, VideoLock, VideoPop, VideoSized,
     VideoNoPicture, VideoPicture, VideoPushLock, VideoPush, VideoNotify, AudioLock, AudioPop,
     AudioRejected, AudioDecoded, AudioPushLock, AudioPush, BufferPlayed, CallbackLock,
     CallbackPop, CallbackClockLock, CallbackClock, CallbackEnqueue, CallbackFree, DrawFrame,
     RenderLock, RenderEmpty, RenderNotDue, RenderDraw, Acquire, screen
<1>3. /\ video_pkt # <<>> /\ shown \in Seq(Ids)
      /\ shown' = Append(shown, Head(video_pkt).pic)
      /\ Head(video_pkt).pts <= audio_pts
  BY <1>2 DEF RenderDue, Due, TypeOK, QueuesOK
<1>4. Head(video_pkt).pic \in Ids
  BY <1>3, HeadLabelled
<1>5. p = Head(video_pkt).pic
  <2>1. p = shown'[Len(shown) + 1] /\ Head(video_pkt).pic = shown'[Len(shown) + 1]
    BY <1>3, <1>4, AppendProperties
  <2>. QED BY <2>1
<1>6. PICK f \in Ids : Kind(f) = "video" /\ At(p) <= At(f) /\ Head(video_pkt).pts = Pts(f)
  BY <1>3, <1>5, HeadLabelled
<1>7. At(p) \in Int /\ At(f) \in Int /\ audio_pts \in Int
  BY MediaType DEF TypeOK, SessionOK
<1>8. Pts(f) = At(f) \/ Pts(f) = None("video")
  BY <1>6 DEF Pts
<1>. QED BY <1>3, <1>6, <1>7, <1>8

(* No picture comes before the sound has reached its time, whatever the    *)
(* decoder keeps back, rejects or reorders, unless the packet that labels  *)
(* it has no time.                                                         *)
THEOREM PicturesNeverEarly == Spec => NeverEarly
<1>1. Init => LabelInv
  BY DEF Init, LabelInv
<1>2. TypeOK /\ FifoInv /\ LabelInv /\ [Next]_vars => LabelInv'
  <2>1. CASE UNCHANGED vars
    BY <2>1, LabelStays DEF vars, session, videoPath
  <2>. QED BY <2>1, NextLabel
<1>3. TypeOK /\ LabelInv /\ [Next]_vars
        => [\A p \in Ids : shown' = Append(shown, p) =>
               At(p) <= audio_pts \/ Head(video_pkt).pts = None("video")]_vars
  BY ShownLate
<1>. QED BY <1>1, <1>2, <1>3, FifoInvariant, TypeCorrect, PTL DEF Spec, NeverEarly

(***************************************************************************)
(* The order of the pictures, in a file whose decoder keeps enough back.   *)
(***************************************************************************)
\* The pictures that are still to leave the decoder, or to come to it.
Waiting == {q \in Ids : Kind(q) = "video" /\ q \notin lost /\ q \notin SetOf(Decoded)}

Ordered(s)  == \A i, j \in DOMAIN s : i < j => At(s[i]) <= At(s[j])
\* If the decoder keeps enough pictures back, they leave it in the order of
\* their times, and none is left behind that should have gone before.
OrderInv ==
    Promise!InReach =>
        /\ Ordered(Decoded)
        /\ \A p \in SetOf(Decoded) : \A q \in Waiting : At(p) <= At(q)

LEMMA OfVideo ==
    ASSUME TypeOK
    PROVE  /\ \A kind : Promise!Of(kind) = {p \in Ids : Kind(p) = kind}
           /\ \A p : Promise!Time(p) = At(p) /\ Promise!Stamp(p) = Pts(p)
           /\ IsFiniteSet(Ids) /\ \A kind : Promise!Of(kind) \subseteq Ids
<1>1. media.pkts \in Seq(Packets) BY MediasAssumption DEF TypeOK, SessionOK
<1>2. DOMAIN media.pkts = Ids BY <1>1 DEF Ids
<1>3. Len(media.pkts) \in Nat BY <1>1
<1>4. IsFiniteSet(Ids) BY <1>3, FS_Interval DEF Ids
<1> QED BY <1>2, <1>4 DEF Promise!Of, Promise!Time, Promise!Stamp, Kind, At, Pts, None

LEMMA GrowsOrdered ==
    ASSUME NEW S, NEW s \in Seq(S), NEW x \in S, \A y \in S : At(y) \in Int
    PROVE  Ordered(s) /\ (\A y \in SetOf(s) : At(y) <= At(x)) => Ordered(s \o <<x>>)
<1> SUFFICES ASSUME Ordered(s), \A y \in SetOf(s) : At(y) <= At(x)
             PROVE  Ordered(s \o <<x>>)
  OBVIOUS
<1> DEFINE t == s \o <<x>>
<1>1. t = Append(s, x) BY AppendIsConcat
<1>2. t \in Seq(S) /\ Len(t) = Len(s) + 1 /\ t[Len(s) + 1] = x /\ \A i \in 1 .. Len(s) : t[i] = s[i]
      /\ Len(s) \in Nat
  BY <1>1, AppendProperties
<1> HIDE DEF t
<1>3. ASSUME NEW i \in DOMAIN t, NEW j \in DOMAIN t, i < j PROVE At(t[i]) <= At(t[j])
  <2>1. i \in 1 .. Len(s) /\ DOMAIN s = 1 .. Len(s) /\ DOMAIN t = 1 .. Len(s) + 1 BY <1>2, <1>3
  <2>2. CASE j = Len(s) + 1 BY <1>2, <2>1, <2>2, InSetOf
  <2>3. CASE j # Len(s) + 1
    <3>1. j \in 1 .. Len(s) BY <2>1, <2>3, <1>2
    <3> QED BY <1>2, <1>3, <2>1, <3>1 DEF Ordered
  <2> QED BY <2>2, <2>3
<1> QED BY <1>3 DEF Ordered, t

\* The decoder is full when it gives a picture away: what comes later in the
\* file cannot come before it on the time line.
LEMMA SameCardinality == \A S : Promise!Cardinality(S) = Cardinality(S)
BY Zenon DEF Promise!Cardinality, Cardinality

LEMMA NoneLeftBehind ==
    ASSUME TypeOK, VideoConserved, Promise!InReach,
           NEW p \in SetOf(Undecoded), \A u \in SetOf(Undecoded) : p <= u,
           Cardinality(decoder) >= Delay,
           NEW pic \in Earliest(decoder \union {p}),
           NEW q \in Waiting
    PROVE  At(pic) <= At(q)
<1>1. p \in Nat /\ p \in Ids /\ p \in Demuxed("video") /\ Ids \subseteq Nat
      /\ \A x \in Ids : At(x) \in Int
  BY VideoParts, MediaType DEF Demuxed, TypeOK, SessionOK, Ids
<1>2. CASE q \in decoder \union {p} BY <1>2 DEF Earliest
<1>3. CASE q \notin decoder \union {p}
  <2>1. \A x \in decoder \union {p} : x < q /\ x \in Promise!Of("video") /\ x \in Nat /\ x \in Ids
    <3>1. q \in Ids /\ q \in Nat BY <1>1 DEF Waiting
    <3>2. \A x \in decoder \union {p} : x \in Demuxed("video")
      BY <1>1, VideoParts
    <3>3. \A x \in decoder \union {p} : x \in Promise!Of("video") /\ x \in Nat /\ x \in Ids /\ x <= nread
      <4>1. \A x \in Demuxed("video") : x \in Nat /\ x \in Ids /\ x <= nread /\ Kind(x) = "video"
        BY DEF Demuxed, TypeOK, SessionOK, Ids
      <4> QED BY <3>2, <4>1, OfVideo
    <3>4. CASE q \in Demuxed("video")
      <4>1. q \in SetOf(Undecoded) BY <1>3, <3>4, VideoParts DEF Waiting
      <4>2. p < q BY <1>1, <1>3, <3>1, <4>1
      <4> QED BY <3>3, <4>1, <4>2, VideoParts
    <3>5. CASE q \notin Demuxed("video")
      <4>1. q > nread /\ nread \in Nat BY <3>1, <3>5 DEF Waiting, Demuxed, TypeOK, SessionOK, Ids
      <4> QED BY <3>1, <3>3, <4>1
    <3> QED BY <3>4, <3>5
  <2> SUFFICES ASSUME ~(At(pic) <= At(q)) PROVE FALSE
    OBVIOUS
  <2>2. q \in Ids /\ q \in Promise!Of("video") BY OfVideo DEF Waiting
  <2>3. pic \in Ids /\ \A x \in decoder \union {p} : At(pic) <= At(x)
    BY <2>1 DEF Earliest
  <2>4. \A x \in decoder \union {p} : At(x) > At(q)
    BY <1>1, <2>1, <2>2, <2>3
  <2> DEFINE Later == {x \in Promise!Of("video") : x < q /\ Promise!Time(x) > Promise!Time(q)}
  <2>5. decoder \union {p} \subseteq Later
    BY <2>1, <2>4, OfVideo
  <2>6. IsFiniteSet(Later) /\ Cardinality(Later) <= media.delay
    <3>1. Later \subseteq Ids BY OfVideo
    <3>2. IsFiniteSet(Later) BY <3>1, OfVideo, FS_Subset
    <3>3. Promise!Cardinality(Later) <= media.delay
      BY <2>2, Zenon DEF Promise!InReach
    <3> QED BY <3>2, <3>3, SameCardinality
  <2>7. IsFiniteSet(decoder) /\ p \notin decoder
    <3>1. IsFiniteSet(decoder) BY OfVideo, FS_Subset DEF TypeOK, QueuesOK
    <3>2. \A x \in decoder : x < p BY VideoParts
    <3> QED BY <1>1, <3>1, <3>2
  <2>8. Cardinality(decoder \union {p}) = Cardinality(decoder) + 1 /\ Cardinality(decoder) \in Nat
    BY <2>7, FS_AddElement, FS_CardinalityType
  <2>9. Cardinality(decoder \union {p}) <= Cardinality(Later) /\ Cardinality(Later) \in Nat
    BY <2>5, <2>6, FS_Subset, FS_CardinalityType
  <2>10. media.delay \in Nat BY MediasAssumption DEF TypeOK, SessionOK
  <2> QED BY <2>6, <2>8, <2>9, <2>10 DEF Delay
<1> QED BY <1>2, <1>3

LEMMA LostGrows == ASSUME Next PROVE lost \subseteq lost'
BY DEF Next, Play, Video, Audio, Render, Callback, OpenFails, Open, Publish, Spawn,
   ReadFrame, PutLock, Put, Join, VideoLock, VideoPop, VideoSized, VideoNoPicture,
   VideoPicture, VideoPushLock, VideoPush, VideoNotify, AudioLock, AudioPop,
   AudioRejected, AudioDecoded, AudioPushLock, AudioPush, BufferPlayed, CallbackLock,
   CallbackPop, CallbackClockLock, CallbackClock, CallbackEnqueue, CallbackFree,
   DrawFrame, RenderLock, RenderEmpty, RenderNotDue, RenderDue, RenderDraw, Acquire

LEMMA NextOrder == ASSUME TypeOK, FifoInv, OrderInv, Next PROVE OrderInv'
<1>1. media' = media /\ Ids' = Ids BY MediaFixed, PtsFixed
<1>2. /\ OrderInv' <=> (Promise!InReach =>
            /\ Ordered(Decoded')
            /\ \A p \in SetOf(Decoded') : \A q \in Waiting' : At(p) <= At(q))
      /\ Waiting' = {q \in Ids : Kind(q) = "video" /\ q \notin lost' /\ q \notin SetOf(Decoded')}
  <2>1. SetOf(Decoded)' = SetOf(Decoded') BY DEF SetOf
  <2>2. Ordered(Decoded)' <=> Ordered(Decoded') BY <1>1, PtsFixed DEF Ordered
  <2> QED BY <1>1, <2>1, <2>2, PtsFixed DEF OrderInv, Waiting
<1> SUFFICES ASSUME Promise!InReach
             PROVE  /\ Ordered(Decoded')
                    /\ \A p \in SetOf(Decoded') : \A q \in Waiting' : At(p) <= At(q)
  BY <1>2
<1>3. lost \subseteq lost' BY LostGrows
<1>4. CASE ~VideoPicture
  <2>1. Decoded' = Decoded BY <1>4, DecodedMoves DEF FifoInv
  <2>2. Waiting' \subseteq Waiting BY <1>2, <1>3, <2>1 DEF Waiting
  <2> QED BY <2>1, <2>2 DEF OrderInv
<1>5. CASE VideoPicture
  <2> DEFINE h == hand["video"]
  <2>1. PICK pic \in Earliest(decoder \union {h}) : pic \in Ids /\ Decoded' = Decoded \o <<pic>>
    BY <1>5, PictureLeaves DEF FifoInv
  <2>2. Cardinality(decoder) >= Delay /\ pc["video"] = "vDecode" BY <1>5 DEF VideoPicture, Goto
  <2>3. h \in SetOf(Undecoded) /\ \A u \in SetOf(Undecoded) : h <= u
    BY <2>2, FedFirst DEF FifoInv
  <2>4. \A q \in Waiting : At(pic) <= At(q)
    BY <2>2, <2>3, NoneLeftBehind DEF FifoInv
  <2>5. pic \in Waiting
    <3>1. pic \in decoder \union SetOf(Undecoded) BY <2>3 DEF Earliest
    <3>2. pic \in Demuxed("video") /\ pic \notin SetOf(Decoded) BY <3>1, VideoParts DEF FifoInv
    <3> QED BY <2>1, <3>2 DEF Waiting, Demuxed
  <2>6. \A p \in SetOf(Decoded) : \A q \in Waiting : At(p) <= At(q) BY DEF OrderInv
  <2>7. Decoded \in Seq(Ids) /\ Ordered(Decoded) BY VideoTypes DEF FifoInv, OrderInv
  <2>8. Ordered(Decoded') BY <2>1, <2>5, <2>6, <2>7, GrowsOrdered, MediaType DEF TypeOK
  <2>9. SetOf(Decoded') = SetOf(Decoded) \union {pic} BY <2>1, <2>7, Grows
  <2>10. Waiting' \subseteq Waiting BY <1>2, <1>3, <2>9 DEF Waiting
  <2> QED BY <2>4, <2>6, <2>8, <2>9, <2>10
<1> QED BY <1>4, <1>5

LEMMA InitOrder == ASSUME Init PROVE OrderInv
<1>1. FifoInv BY InitFifo
<1>2. Demuxed("video") = {} BY DEF Init, Demuxed
<1>3. SetOf(Decoded) = {} BY <1>1, <1>2, VideoParts DEF FifoInv
<1>4. DOMAIN Decoded = {} BY <1>3 DEF SetOf
<1> QED BY <1>3, <1>4 DEF OrderInv, Ordered

\* A picture the renderer takes has its turn.
LEMMA ShownInTurn ==
    ASSUME TypeOK, FifoInv, OrderInv, LabelInv, RenderDue
    PROVE  /\ shown' = Append(shown, Head(video_pkt).pic)
           /\ Promise!Show(Head(video_pkt).pic)
           /\ Head(video_pkt).pic \in Promise!Of("video")
<1> DEFINE p == Head(video_pkt).pic
           P == Pics(video_pkt)
           D == shown \o P
<1>1. /\ video_pkt # <<>> /\ shown' = Append(shown, p) /\ p \in Ids
      /\ Head(video_pkt) \in Frames /\ Due(Head(video_pkt))
      /\ UNCHANGED <<media, audio_pts, heard, slq, hand>> /\ pc'["play"] = pc["play"] /\ pc'["sl"] = pc["sl"]
  BY QueueTypes DEF RenderDue, Release, TypeOK, PcsOK, session, audioPath
<1>2. Sounded' = Sounded BY <1>1 DEF Sounded, Queued, Buffer
<1>3. \E f \in Promise!Of("video") : p <= f /\ Promise!Time(p) <= Promise!Time(f)
                                     /\ Promise!Stamp(f) <= audio_pts
  <2>1. PICK f \in Ids : /\ Kind(f) = "video" /\ p <= f
                         /\ At(p) <= At(f) /\ Head(video_pkt).pts = Pts(f)
    BY <1>1, HeadLabelled
  <2>2. Pts(f) <= audio_pts BY <1>1, <2>1 DEF Due
  <2> HIDE DEF p
  <2> QED BY <2>1, <2>2, OfVideo
<1>4. P \in Seq(Ids) /\ P # <<>> /\ Head(P) = p /\ shown \in Seq(Ids) /\ Opt(vp.pic) \in Seq(Ids)
  BY <1>1, PicsOf, VideoTypes DEF FifoInv, TypeOK, QueuesOK
<1>5. Decoded = D \o Opt(vp.pic) BY VideoParts
<1>6. Len(P) # 0 /\ P[1] = p /\ Len(P) \in Nat /\ 1 \in DOMAIN P BY <1>4, EmptySeq
<1> HIDE DEF P, p
<1>7. D \in Seq(Ids) /\ Joins(shown, P, D) BY <1>4, ConcatJoins, ConcatProperties
<1> HIDE DEF D
<1>8. Joins(D, Opt(vp.pic), Decoded) BY <1>4, <1>5, <1>7, ConcatJoins
<1>9. /\ Len(shown) \in Nat /\ DOMAIN shown = 1 .. Len(shown)
      /\ Len(shown) + 1 \in DOMAIN Decoded /\ Decoded[Len(shown) + 1] = p
      /\ \A i \in DOMAIN shown : i \in DOMAIN Decoded /\ Decoded[i] = shown[i]
  BY <1>6, <1>7, <1>8 DEF Joins
<1>10. p \notin SetOf(shown)
  <2>1. Distinct(Decoded) BY VideoParts DEF FifoInv
  <2>2. \A i \in DOMAIN shown : shown[i] # p BY <1>9, <2>1 DEF Distinct
  <2> QED BY <2>2, InSetOf
<1>11. Promise!InReach => \A q \in SetOf(shown) : At(q) <= At(p)
  <2> SUFFICES ASSUME Promise!InReach, NEW i \in DOMAIN shown PROVE At(shown[i]) <= At(p)
    BY InSetOf
  <2>1. i < Len(shown) + 1 BY <1>9
  <2> QED BY <1>9, <2>1 DEF OrderInv, Ordered
<1>12. p \in Promise!Of("video")
  <2>1. p \in SetOf(Decoded) BY <1>9, InSetOf
  <2>2. Kind(p) = "video" BY <2>1, VideoParts DEF FifoInv, Demuxed
  <2> QED BY <1>1, <2>2, OfVideo DEF p
<1>13. Promise!Members(shown) = SetOf(shown) BY DEF Promise!Members, SetOf
<1>14. Promise!Show(p)
  BY <1>1, <1>2, <1>3, <1>10, <1>11, <1>13, OfVideo DEF Promise!Show
<1> QED BY <1>1, <1>12, <1>14 DEF p

(***************************************************************************)
(* The refinement: the sound given to the loudspeaker, and all other steps. *)
(***************************************************************************)
AtEnqueue == IF pc["play"] = "cbEnqueue" THEN Opt(hand["play"])
             ELSE IF pc["sl"] = "cbEnqueue" THEN Opt(hand["sl"]) ELSE <<>>

LEMMA SoundedParts ==
    /\ Sounded = (heard \o Queued) \o AtEnqueue
    /\ Sounded' = (heard' \o Queued') \o AtEnqueue'
BY DEF Sounded, AtEnqueue

\* The clock shows the time of a sound, once there was one.
ClockInv == audio_pts = 0 \/ \E b \in SetOf(Sounded) : b \in Ids /\ Kind(b) = "audio" /\ audio_pts = Pts(b)

\* The assignment of audio_pts gives the loudspeaker its next packet.
LEMMA ClockSounds ==
    ASSUME TypeOK, OneBufferChain, FifoInv, ClockInv, NEW t \in Runners, CallbackClock(t)
    PROVE  /\ \E a \in Promise!Of("audio") : Promise!Sound(a)
           /\ ClockInv'
<1> DEFINE h == hand[t]
           Q == heard \o Queued
<1>1. /\ pc[t] = "cbClock" /\ pc'[t] = "cbEnqueue" /\ h \in Ids
      /\ \A r \in Runners : r # t => pc'[r] = pc[r]
      /\ UNCHANGED <<hand, heard, slq, media, shown>> /\ audio_pts' = Pts(h)
  BY DEF CallbackClock, Release, Runners, Threads, TypeOK, PcsOK, HandsOK, session, screen
<1>2. \A r \in Runners : r # t => pc[r] \notin CallbackPcs \ {"cbFree"}
  BY <1>1, OneCarrier
<1>3. AtEnqueue = <<>> BY <1>1, <1>2 DEF AtEnqueue, Runners, CallbackPcs
<1>4. AtEnqueue' = <<h>>
  BY <1>1, <1>2, OptParts, MediaType DEF AtEnqueue, Runners, CallbackPcs, TypeOK
<1>5. InCallback = <<h>>
  BY <1>1, <1>2, OptParts, MediaType DEF InCallback, Carrying, Runners, CallbackPcs, TypeOK
<1>6. Queued' = Queued BY <1>1 DEF Queued, Buffer
<1>7. Q \in Seq(Ids) /\ audio_pkt \in Seq(Ids) /\ Opt(hand["audio"]) \in Seq(Ids)
      /\ audio_queue \in Seq(Ids) /\ JustRead("audio") \in Seq(Ids)
  BY LineTypes, ConcatProperties DEF FifoInv
<1>8. Sounded = Q /\ Sounded' = Append(Q, h)
  <2>1. Sounded = Q \o <<>> /\ Sounded' = Q \o <<h>> BY <1>1, <1>3, <1>4, <1>6, SoundedParts
  <2> HIDE DEF Q, h
  <2> QED BY <1>1, <1>7, <2>1, ConcatEmptySeq, AppendIsConcat
<1>9. AudioLine = Q \o <<h>> \o audio_pkt \o Opt(hand["audio"]) \o audio_queue \o JustRead("audio")
  BY <1>5 DEF AudioLine
<1> HIDE DEF Q, h
<1>10. h \in SetOf(AudioLine) /\ \A b \in SetOf(Q) : b < h
  <2> DEFINE q == <<h>>
             a == Q \o q
             b == a \o audio_pkt
             c == b \o Opt(hand["audio"])
             d == c \o audio_queue
  <2>1. q \in Seq(Ids) /\ SetOf(q) = {h} BY <1>1, SetOfParts
  <2>2. Rising(d \o JustRead("audio")) /\ AudioLine = d \o JustRead("audio") BY <1>9 DEF FifoInv, AudioFifo
  <2> HIDE DEF q
  <2>3. a \in Seq(Ids) /\ Joins(Q, q, a) BY <1>7, <2>1, ConcatJoins, ConcatProperties
  <2> HIDE DEF a
  <2>4. b \in Seq(Ids) /\ Joins(a, audio_pkt, b) BY <1>7, <2>3, ConcatJoins, ConcatProperties
  <2> HIDE DEF b
  <2>5. c \in Seq(Ids) /\ Joins(b, Opt(hand["audio"]), c) BY <1>7, <2>4, ConcatJoins, ConcatProperties
  <2> HIDE DEF c
  <2>6. d \in Seq(Ids) /\ Joins(c, audio_queue, d) BY <1>7, <2>5, ConcatJoins, ConcatProperties
  <2> HIDE DEF d
  <2>7. Joins(d, JustRead("audio"), AudioLine) BY <1>7, <2>2, <2>6, ConcatJoins
  <2>8. Rising(a) BY <2>2, <2>4, <2>5, <2>6, <2>7, RisingJoin
  <2>9. \A x \in SetOf(Q) : x < h BY <2>1, <2>3, <2>8, RisingJoin
  <2>10. h \in SetOf(AudioLine) BY <2>1, <2>3, <2>4, <2>5, <2>6, <2>7, SetOfJoin
  <2> QED BY <2>9, <2>10
<1>11. h \in Promise!Of("audio")
  <2>1. Kind(h) = "audio" BY <1>10 DEF FifoInv, AudioFifo, Demuxed
  <2> QED BY <1>1, <2>1, OfVideo DEF h
<1>12. Promise!Members(Sounded) = SetOf(Q) BY <1>8 DEF Promise!Members, SetOf
<1>13. Promise!SoundForward => audio_pts <= audio_pts'
  <2>. SUFFICES ASSUME Promise!SoundForward PROVE audio_pts <= Pts(h)
    BY <1>1 DEF h
  <2>1. Promise!Stamp(h) = Pts(h) /\ Pts(h) >= 0
    BY <1>11, OfVideo DEF Promise!SoundForward
  <2>2. ASSUME NEW b \in SetOf(Sounded), b \in Ids, Kind(b) = "audio", audio_pts = Pts(b)
        PROVE  audio_pts <= Pts(h)
    <3>1. b < h BY <1>8, <1>10, <2>2
    <3>2. b \in Promise!Of("audio") /\ Promise!Stamp(b) = Pts(b) BY <2>2, OfVideo
    <3>3. Promise!Stamp(b) <= Promise!Stamp(h) BY <1>11, <3>1, <3>2 DEF Promise!SoundForward
    <3> QED BY <2>1, <2>2, <3>2, <3>3
  <2> QED BY <2>1, <2>2 DEF ClockInv
<1>14. Promise!Sound(h)
  BY <1>1, <1>8, <1>10, <1>12, <1>13, OfVideo DEF Promise!Sound, h
<1>15. ClockInv'
  <2>1. h \in SetOf(Sounded)' /\ media' = media
    <3>0. h \in Ids BY <1>1 DEF h
    <3>1. SetOf(Append(Q, h)) = SetOf(Q) \union {h}
      <4>1. Append(Q, h) = Q \o <<h>> BY <1>7, <3>0, AppendIsConcat
      <4> QED BY <1>7, <3>0, <4>1, Grows
    <3>2. SetOf(Sounded)' = SetOf(Sounded') BY DEF SetOf
    <3> QED BY <1>1, <1>8, <3>1, <3>2
  <2>2. h \in Ids /\ Kind(h) = "audio" BY <1>11, OfVideo
  <2>3. audio_pts' = Pts(h) BY <1>1 DEF h
  <2> QED BY <2>1, <2>2, <2>3, PtsFixed DEF ClockInv
<1> QED BY <1>11, <1>14, <1>15

LEMMA OtherStutters ==
    ASSUME TypeOK, OneBufferChain, HandsIdle, Next, ~RenderDue, \A t \in Runners : ~CallbackClock(t)
    PROVE  UNCHANGED Promise!vars
<1> USE DEF Goto, Acquire, Release, Take, Drop, Threads, Runners, session, videoPath, audioPath, screen
<1>1. UNCHANGED <<media, audio_pts, shown>>
  BY DEF Next, Play, Video, Audio, Render, Callback, OpenFails, Open, Publish, Spawn,
   ReadFrame, PutLock, Put, Join, VideoLock, VideoPop, VideoSized, VideoNoPicture,
   VideoPicture, VideoPushLock, VideoPush, VideoNotify, AudioLock, AudioPop,
   AudioRejected, AudioDecoded, AudioPushLock, AudioPush, BufferPlayed, CallbackLock,
   CallbackPop, CallbackClockLock, CallbackEnqueue, CallbackFree,
   DrawFrame, RenderLock, RenderEmpty, RenderNotDue, RenderDraw
<1>2. Sounded' = Sounded
  <2>1. CASE BufferPlayed
    <3>1. /\ heard' \o Queued' = heard \o Queued
          /\ pc["play"] \notin CallbackPcs \ {"cbFree"}
          /\ pc["sl"] = "slWait" /\ pc'["sl"] = "cbLock" /\ pc'["play"] = pc["play"]
      BY <2>1, PlayedMoves
    <3>2. AtEnqueue' = AtEnqueue BY <3>1 DEF AtEnqueue, CallbackPcs
    <3> QED BY <3>1, <3>2, SoundedParts
  <2>2. ASSUME NEW t \in Runners, CallbackEnqueue(t) PROVE Sounded' = Sounded
    <3>1. pc[t] = "cbEnqueue" /\ pc'[t] = "cbFree" /\ heard' = heard /\ \A r \in Runners : r # t => pc'[r] = pc[r]
      BY <2>2 DEF CallbackEnqueue, TypeOK, PcsOK
    <3>2. \A r \in Runners : r # t => pc[r] # "cbEnqueue" BY <3>1, OneCarrier DEF CallbackPcs
    <3>3. AtEnqueue = Opt(hand[t]) /\ AtEnqueue' = <<>> BY <3>1, <3>2 DEF AtEnqueue
    <3>4. Queued = <<>> /\ Queued' = Opt(hand[t]) BY <2>2, EnqueueQueues
    <3>5. heard \in Seq(Ids) /\ hand[t] \in Ids \union {Nothing} BY DEF TypeOK, QueuesOK
    <3>6. CASE hand[t] = Nothing BY <3>1, <3>3, <3>4, <3>6, OptParts, SoundedParts
    <3>7. CASE hand[t] # Nothing
      <4>1. (heard \o <<>>) \o <<hand[t]>> = (heard \o <<hand[t]>>) \o <<>> BY <3>5, <3>7, MovesOne
      <4>2. Opt(hand[t]) = <<hand[t]>> BY <3>7, OptParts
      <4> QED BY <3>1, <3>3, <3>4, <4>1, <4>2, SoundedParts
    <3> QED BY <3>6, <3>7
  <2>3. ASSUME NEW t \in Runners, CallbackFree(t) PROVE Sounded' = Sounded
    <3>1. pc[t] = "cbFree" /\ pc'[t] \in {"read", "slWait"} /\ heard' = heard
          /\ \A r \in Runners : r # t => pc'[r] = pc[r] /\ hand'[r] = hand[r]
      BY <2>3 DEF CallbackFree, TypeOK, PcsOK, QueuesOK
    <3>2. AtEnqueue' = AtEnqueue BY <3>1 DEF AtEnqueue
    <3> QED BY <2>3, <3>1, <3>2, FreeKeepsQueued, SoundedParts
  <2>4. ASSUME NEW t \in Runners, CallbackPop(t) PROVE Sounded' = Sounded
    <3>1. pc[t] = "cbPop" /\ UNCHANGED <<heard, slq>>
          /\ (pc'[t] = "cbEnqueue" => hand'[t] = Nothing)
          /\ \A r \in Runners : r # t => pc'[r] = pc[r] /\ hand'[r] = hand[r]
      BY <2>4 DEF CallbackPop, TypeOK, PcsOK, QueuesOK, HandsIdle
    <3>2. \A r \in Runners : r # t => pc[r] # "cbEnqueue" BY <3>1, OneCarrier DEF CallbackPcs
    <3>3. AtEnqueue = <<>> /\ AtEnqueue' = <<>> BY <3>1, <3>2, OptParts DEF AtEnqueue
    <3>4. Queued' = Queued BY <3>1 DEF Queued, Buffer
    <3> QED BY <3>1, <3>3, <3>4, SoundedParts
  <2>5. CASE /\ UNCHANGED <<heard, slq>>
             /\ \A r \in Runners : (pc[r] = "cbEnqueue" <=> pc'[r] = "cbEnqueue")
             /\ \A r \in Runners : pc[r] = "cbEnqueue" => hand'[r] = hand[r]
    <3>1. AtEnqueue' = AtEnqueue
      <4>1. (pc["play"] = "cbEnqueue" <=> pc'["play"] = "cbEnqueue") /\ (pc["sl"] = "cbEnqueue" <=> pc'["sl"] = "cbEnqueue")
        BY <2>5
      <4>2. (pc["play"] = "cbEnqueue" => hand'["play"] = hand["play"]) /\ (pc["sl"] = "cbEnqueue" => hand'["sl"] = hand["sl"])
        BY <2>5
      <4> QED BY <4>1, <4>2 DEF AtEnqueue
    <3>2. Queued' = Queued BY <2>5 DEF Queued, Buffer
    <3> QED BY <2>5, <3>1, <3>2, SoundedParts
  <2> USE DEF TypeOK, PcsOK, QueuesOK
  <2>6. CASE Play
    BY <2>5, <2>6 DEF Play, OpenFails, Open, Publish, Spawn, ReadFrame, PutLock, Put, Join
  <2>7. CASE Video \/ Audio
    BY <2>5, <2>7 DEF Video, VideoLock, VideoPop, VideoSized, VideoNoPicture,
      VideoPicture, VideoPushLock, VideoPush, VideoNotify, Audio, AudioLock, AudioPop,
      AudioRejected, AudioDecoded, AudioPushLock, AudioPush
  <2>8. CASE Render
    BY <2>5, <2>8 DEF Render, DrawFrame, RenderLock, RenderEmpty, RenderNotDue, RenderDraw
  <2>9. ASSUME NEW t \in Runners, CallbackLock(t) \/ CallbackClockLock(t) PROVE Sounded' = Sounded
    BY <2>5, <2>9 DEF CallbackLock, CallbackClockLock
  <2> QED BY <2>1, <2>2, <2>3, <2>4, <2>6, <2>7, <2>8, <2>9 DEF Next, Callback
<1> QED BY <1>1, <1>2 DEF Promise!vars

(***************************************************************************)
(* The clock goes with the sound.  All other steps leave both alone.        *)
(***************************************************************************)
LEMMA ClockStays ==
    ASSUME ClockInv, UNCHANGED <<media, audio_pts>>, Sounded' = Sounded PROVE ClockInv'
<1>1. SetOf(Sounded)' = SetOf(Sounded) BY DEF SetOf
<1> QED BY <1>1, PtsFixed DEF ClockInv

LEMMA NextClock ==
    ASSUME TypeOK, OneBufferChain, FifoInv, OrderInv, LabelInv, ClockInv, [Next]_vars
    PROVE  ClockInv'
<1>1. CASE UNCHANGED vars
  <2> USE <1>1 DEF vars, session, videoPath, audioPath, screen
  <2>1. Sounded' = Sounded BY DEF Sounded, Queued, Buffer
  <2> QED BY <2>1, ClockStays
<1>2. CASE RenderDue
  <2>1. UNCHANGED <<media, audio_pts, heard, slq, hand>> /\ pc'["play"] = pc["play"] /\ pc'["sl"] = pc["sl"]
    BY <1>2 DEF RenderDue, Release, TypeOK, PcsOK, Threads, session, audioPath
  <2>2. Sounded' = Sounded BY <2>1 DEF Sounded, Queued, Buffer
  <2> QED BY <2>1, <2>2, ClockStays
<1>3. CASE \E t \in Runners : CallbackClock(t) BY <1>3, ClockSounds
<1>4. CASE Next /\ ~RenderDue /\ \A t \in Runners : ~CallbackClock(t)
  <2>1. UNCHANGED Promise!vars BY <1>4, OtherStutters DEF FifoInv
  <2> QED BY <2>1, ClockStays DEF Promise!vars
<1> QED BY <1>1, <1>2, <1>3, <1>4

(***************************************************************************)
(* The five threads implement AVSync: every step is the sound of the next  *)
(* audio packet (CallbackClock), a picture shown in its turn and not ahead *)
(* of the sound (RenderDue), or nothing that can be noticed.               *)
(***************************************************************************)
THEOREM KeepsItsPromise == Spec => KeepsPromise
<1>1. Init => Promise!Init
  <2> SUFFICES ASSUME Init PROVE Promise!Init OBVIOUS
  <2>1. heard = <<>> /\ Queued = <<>> /\ AtEnqueue = <<>>
    BY NoneQueued DEF Init, AtEnqueue, Threads
  <2>2. Sounded = <<>>
    <3>1. <<>> \o <<>> = <<>> BY ConcatEmptySeq, EmptySeq
    <3> QED BY <2>1, <3>1, SoundedParts
  <2> QED BY <2>2 DEF Init, Promise!Init
<1>2. TypeOK /\ OneBufferChain /\ FifoInv /\ OrderInv /\ LabelInv /\ ClockInv /\ [Next]_vars
        => [Promise!Next]_(Promise!vars)
  <2>1. CASE UNCHANGED vars
    <3> USE <2>1 DEF vars, session, videoPath, audioPath, screen
    <3>1. Sounded' = Sounded BY DEF Sounded, Queued, Buffer
    <3> QED BY <3>1 DEF Promise!vars
  <2>2. CASE TypeOK /\ OneBufferChain /\ FifoInv /\ OrderInv /\ LabelInv /\ ClockInv /\ Next
    <3>1. CASE RenderDue BY <2>2, <3>1, ShownInTurn DEF Promise!Next
    <3>2. CASE \E t \in Runners : CallbackClock(t) BY <2>2, <3>2, ClockSounds DEF Promise!Next
    <3>3. CASE ~RenderDue /\ \A t \in Runners : ~CallbackClock(t)
      BY <2>2, <3>3, OtherStutters DEF FifoInv
    <3> QED BY <3>1, <3>2, <3>3
  <2> QED BY <2>1, <2>2
<1>3. TypeOK /\ FifoInv /\ OrderInv /\ [Next]_vars => OrderInv'
  <2>1. CASE UNCHANGED vars
    <3> USE <2>1 DEF vars, session, videoPath, audioPath, screen
    <3>1. Decoded' = Decoded BY DEF Decoded
    <3> QED BY <3>1, PtsFixed DEF OrderInv, Ordered, Waiting, SetOf
  <2> QED BY <2>1, NextOrder
<1>4. Init => LabelInv
  BY DEF Init, LabelInv
<1>5. TypeOK /\ FifoInv /\ LabelInv /\ [Next]_vars => LabelInv'
  <2>1. CASE UNCHANGED vars
    BY <2>1, LabelStays DEF vars, session, videoPath
  <2>. QED BY <2>1, NextLabel
<1>6. Init => ClockInv
  BY DEF Init, ClockInv
<1>. QED BY <1>1, <1>2, <1>3, <1>4, <1>5, <1>6, NextClock, InitOrder, FifoInvariant, TypeCorrect, ChainUnbroken, PTL
     DEF Spec, KeepsPromise, Promise!Spec
=============================================================================
