----------------------------- MODULE MediaPlayer -----------------------------
(***************************************************************************)
(* One playback session of the media player of                             *)
(* jni/ffmpegHelper/com_ring0_ffmpeg_FFmpegHelper.cpp, lines 3792-4249.    *)
(*                                                                         *)
(* Five threads share one PlayerContext and its one mutex:                 *)
(*                                                                         *)
(*   play    the Java thread inside ..._mediaplayer_play: opens the file,  *)
(*           starts the others, runs the first OpenSL callback itself and  *)
(*           then demuxes the container into video_queue and audio_queue   *)
(*   video   video_thread: video_queue -> decoder -> video_pkt, and a      *)
(*           requestRender() through Java in every turn of its loop        *)
(*   audio   audio_thread: audio_queue -> decoder -> audio_pkt             *)
(*   sl      the OpenSL thread: opensles_callback each time a buffer of    *)
(*           the buffer queue has been played                              *)
(*   gl      the GLSurfaceView thread: ..._mediaplayer_renderer            *)
(*                                                                         *)
(* A packet is its position in the container; a video packet also names    *)
(* the picture it encodes.  It has a place on the time line, at, but not   *)
(* every container tells it: only a timed packet carries it as its pts.    *)
(* A packet that is not timed has AV_NOPTS_VALUE, the least int64, for a   *)
(* pts, which the code multiplies by the time base of the stream as if it  *)
(* were a time: the result is none[kind] of its container, long before the *)
(* beginning.                                                              *)
(*                                                                         *)
(* Acquiring the mutex and the critical section that ends in the release   *)
(* are one step each, so that every other thread can be caught waiting.    *)
(***************************************************************************)
EXTENDS Integers, Sequences, FiniteSets

CONSTANTS Medias,    \* the containers that may be opened
          MaxLost,   \* bound: packets a decoder rejects in one session
          UB         \* what reaching undefined behaviour may do

Kinds    == {"video", "audio", "other"}
Packets  == [kind : Kinds, at : Int, timed : BOOLEAN]
Threads  == {"play", "video", "audio", "sl", "gl"}
Runners  == {"play", "sl"}     \* the threads opensles_callback runs on
NoThread == "none"
Nothing  == 0                  \* no packet, or a buffer of silence

ASSUME MediasAssumption ==
    Medias \subseteq [streams : SUBSET {"video", "audio"}, pkts : Seq(Packets),
                      delay : Nat, none : [Kinds -> {x \in Int : x < 0}]]
ASSUME BoundsAssumption == MaxLost \in Nat
ASSUME UBAssumption == UB \subseteq {"survive", "crash"}

VARIABLES
    media,       \* the opened container; never changes
    nread,       \* packets av_read_frame has returned
    opened,      \* whether avcodec_open2 succeeded for the audio decoder
    ctx,         \* pGlobalCtx # 0
    pc,          \* where each thread is
    owner,       \* holder of PlayerContext.mutex
    hand,        \* the packet a thread has taken out and not passed on
    video_queue, audio_queue,
    decoder,     \* pictures inside the video decoder
    vp,          \* the VideoPacket video_thread is about to push
    video_pkt, audio_pkt,
    audio_pts,
    slq,         \* OpenSL buffer queue
    dirty,       \* requestRender() not yet served by the GL thread
    yuv,         \* picture in PlayerContext.yuv
    view,        \* view_width/height are those of the video
    shown,       \* history: pictures the renderer took, oldest first
    heard,       \* history: audio packets OpenSL played to the end
    lost,        \* packets a decoder rejected
    crashed

session   == <<media, nread, opened, ctx>>
videoPath == <<video_queue, decoder, vp, video_pkt>>
audioPath == <<audio_queue, audio_pkt, audio_pts, slq>>
screen    == <<dirty, yuv, view, shown>>

vars == <<session, pc, owner, hand, videoPath, audioPath, screen,
          heard, lost, crashed>>

Ids     == 1 .. Len(media.pkts)
Kind(p) == media.pkts[p].kind
At(p)   == media.pkts[p].at
None(k) == media.none[k]
Delay   == media.delay   \* pictures its video decoder keeps back (reordering)
Frames  == [pic : Ids, pts : Int]
NoFrame == [pic |-> Nothing, pts |-> 0]

\* pPacket->pts * av_q2d(time_base)
Pts(p) == IF media.pkts[p].timed THEN At(p) ELSE None(Kind(p))

(***************************************************************************)
(* Definitions named X_... are mutated forms of the definition X that      *)
(* follows them, each a slip the code could have made; PushFront and       *)
(* FrontOnly are those of the list operations.  Nothing uses them; they    *)
(* show what the properties below would notice.                            *)
(***************************************************************************)

(***************************************************************************)
(* The mutex, and moving a thread on.  A thread holds the mutex exactly    *)
(* while it is inside a critical section.  Nothing moves after a crash.    *)
(***************************************************************************)
Free_Ignored == TRUE
Free == owner = NoThread

Goto(t, from, to) ==
    /\ ~crashed
    /\ pc[t] = from
    /\ pc' = [pc EXCEPT ![t] = to]
    /\ UNCHANGED owner

Acquire(t, from, to) ==
    /\ ~crashed
    /\ Free
    /\ pc[t] = from
    /\ pc' = [pc EXCEPT ![t] = to]
    /\ owner' = t
    /\ UNCHANGED <<session, hand, videoPath, audioPath, screen, heard, lost,
                   crashed>>

Release(t, from, to) ==
    /\ ~crashed
    /\ pc[t] = from
    /\ pc' = [pc EXCEPT ![t] = to]
    /\ owner' = NoThread

\* std::list
PushFront(q, x) == <<x>> \o q
PushBack(q, x)  == Append(q, x)

FrontOnly(q) == q
PopFront(q)  == Tail(q)

Take(t, p) == hand' = [hand EXCEPT ![t] = p]
Drop(t)    == Take(t, Nothing)

\* What a step into undefined behaviour does to the process.
Undefined == \/ "survive" \in UB /\ UNCHANGED crashed
             \/ "crash" \in UB /\ crashed' = TRUE

(***************************************************************************)
(* play: open, publish the context, start the threads, demux.              *)
(***************************************************************************)

\* The file cannot be opened or probed, or a decoder is missing: plain return.
OpenFails ==
    /\ Goto("play", "open", "failed")
    /\ UNCHANGED <<session, hand, videoPath, audioPath, screen, heard, lost,
                   crashed>>

\* That avcodec_open2 fails for the audio decoder is only logged.  Without a
\* video or without an audio stream a null codec context is dereferenced.
Open ==
    /\ Goto("play", "open", "publish")
    /\ opened' \in BOOLEAN
    /\ crashed' = (media.streams # {"video", "audio"})
    /\ UNCHANGED <<media, nread, ctx, hand, videoPath, audioPath, screen, heard, lost>>

\* The context is complete and becomes pGlobalCtx.
Publish ==
    /\ Goto("play", "publish", "spawn")
    /\ ctx' = TRUE
    /\ UNCHANGED <<media, nread, opened, hand, videoPath, audioPath, screen, heard,
                   lost, crashed>>

\* Two pthread_create, then init_opensles, whose last statement calls
\* opensles_callback on this thread.
Spawn ==
    /\ ~crashed
    /\ pc["play"] = "spawn"
    /\ pc' = [pc EXCEPT !["play"] = "cbLock", !["video"] = "vLock",
                        !["audio"] = "aLock"]
    /\ UNCHANGED <<session, owner, hand, videoPath, audioPath, screen, heard,
                   lost, crashed>>

\* av_read_frame; a packet of a further stream is freed at once.
ReadFrame ==
    /\ nread < Len(media.pkts)
    /\ nread' = nread + 1
    /\ IF Kind(nread') = "other"
          THEN Goto("play", "read", "read") /\ UNCHANGED hand
          ELSE Goto("play", "read", "putLock") /\ Take("play", nread')
    /\ UNCHANGED <<media, opened, ctx, videoPath, audioPath, screen, heard, lost,
                   crashed>>

PutLock == Acquire("play", "putLock", "put")

Put ==
    /\ Release("play", "put", "read")
    /\ Drop("play")
    /\ IF Kind(hand["play"]) = "video"
          THEN /\ video_queue' = PushBack(video_queue, hand["play"])
               /\ UNCHANGED audio_queue
          ELSE /\ audio_queue' = PushBack(audio_queue, hand["play"])
               /\ UNCHANGED video_queue
    /\ UNCHANGED <<session, decoder, vp, video_pkt, audio_pkt, audio_pts, slq,
                   screen, heard, lost, crashed>>

\* End of file.  pthread_join is given the address of a local variable for a
\* thread: it fails and play returns, or it brings the process down.
Join ==
    /\ nread = Len(media.pkts)
    /\ Goto("play", "read", "returned")
    /\ Undefined
    /\ UNCHANGED <<session, hand, videoPath, audioPath, screen, heard, lost>>

(***************************************************************************)
(* video: video_thread.                                                    *)
(***************************************************************************)
VideoLock == Acquire("video", "vLock", "vPop")

VideoPop ==
    /\ Release("video", "vPop", "vSize")
    /\ IF video_queue = <<>>
          THEN UNCHANGED <<video_queue, hand>>
          ELSE /\ video_queue' = PopFront(video_queue)
               /\ Take("video", Head(video_queue))
    /\ UNCHANGED <<session, decoder, vp, video_pkt, audioPath, screen, heard,
                   lost, crashed>>

VideoSized_Unchecked ==
    /\ Goto("video", "vSize", "vDecode")
    /\ UNCHANGED <<session, hand, videoPath, audioPath, screen, heard, lost,
                   crashed>>

\* The log statement has walked video_pkt, without the mutex, to count it.
VideoSized ==
    /\ Goto("video", "vSize",
            IF hand["video"] = Nothing THEN "vNotify" ELSE "vDecode")
    /\ UNCHANGED <<session, hand, videoPath, audioPath, screen, heard, lost,
                   crashed>>

\* The picture that comes first on the time line leaves the decoder first.
Earliest(pics) == {p \in pics : \A q \in pics : At(p) <= At(q)}

\* The label of a picture is the pts of the packet just fed to the decoder,
\* which is not the packet the picture was encoded in when Delay > 0.
Label(pic, fed) == Pts(fed)

\* avcodec_decode_video2 with no picture: the packet is bad, or the decoder
\* keeps it.
VideoNoPicture ==
    LET p == hand["video"] IN
    /\ Goto("video", "vDecode", "vNotify")
    /\ Drop("video")
    /\ \/ /\ Cardinality(lost) < MaxLost
          /\ lost' = lost \union {p}
          /\ UNCHANGED decoder
       \/ /\ Cardinality(decoder) < Delay
          /\ decoder' = decoder \union {p}
          /\ UNCHANGED lost
    /\ UNCHANGED <<session, video_queue, vp, video_pkt, audioPath, screen,
                   heard, crashed>>

VideoPicture ==
    LET p == hand["video"] IN
    /\ Goto("video", "vDecode", "vPushLock")
    /\ Cardinality(decoder) >= Delay
    /\ \E pic \in Earliest(decoder \union {p}) :
          /\ decoder' = (decoder \union {p}) \ {pic}
          /\ vp' = [pic |-> pic, pts |-> Label(pic, p)]
    /\ UNCHANGED <<session, hand, video_queue, video_pkt, audioPath, screen,
                   heard, lost, crashed>>

VideoPushLock == Acquire("video", "vPushLock", "vPush")

VideoPush ==
    /\ Release("video", "vPush", "vNotify")
    /\ video_pkt' = PushBack(video_pkt, vp)
    /\ vp' = NoFrame
    /\ Drop("video")
    /\ UNCHANGED <<session, video_queue, decoder, audioPath, screen, heard,
                   lost, crashed>>

VideoNotify_Never ==
    /\ Goto("video", "vNotify", "vLock")
    /\ UNCHANGED <<session, hand, videoPath, audioPath, screen, heard, lost,
                   crashed>>

\* OnRenderer(), in every turn of the loop: GLSurfaceView.requestRender().
VideoNotify ==
    /\ Goto("video", "vNotify", "vLock")
    /\ dirty' = TRUE
    /\ UNCHANGED <<session, hand, videoPath, audioPath, yuv, view, shown,
                   heard, lost, crashed>>

(***************************************************************************)
(* audio: audio_thread.                                                    *)
(***************************************************************************)
AudioLock == Acquire("audio", "aLock", "aPop")

AudioPop ==
    /\ IF audio_queue = <<>>
          THEN /\ Release("audio", "aPop", "aLock")
               /\ UNCHANGED <<audio_queue, hand>>
          ELSE /\ Release("audio", "aPop", "aDecode")
               /\ audio_queue' = PopFront(audio_queue)
               /\ Take("audio", Head(audio_queue))
    /\ UNCHANGED <<session, videoPath, audio_pkt, audio_pts, slq, screen,
                   heard, lost, crashed>>

\* Every packet fails when the decoder was not opened, any packet may.
AudioRejected ==
    /\ Goto("audio", "aDecode", "aLock")
    /\ opened => Cardinality(lost) < MaxLost
    /\ lost' = lost \union {hand["audio"]}
    /\ Drop("audio")
    /\ UNCHANGED <<session, videoPath, audioPath, screen, heard, crashed>>

AudioDecoded ==
    /\ opened
    /\ Goto("audio", "aDecode", "aPushLock")
    /\ UNCHANGED <<session, hand, videoPath, audioPath, screen, heard, lost,
                   crashed>>

AudioPushLock == Acquire("audio", "aPushLock", "aPush")

AudioPush ==
    /\ Release("audio", "aPush", "aLock")
    /\ audio_pkt' = PushBack(audio_pkt, hand["audio"])
    /\ Drop("audio")
    /\ UNCHANGED <<session, videoPath, audio_queue, audio_pts, slq, screen,
                   heard, lost, crashed>>

(***************************************************************************)
(* opensles_callback, on thread t, and the buffer queue behind it.         *)
(* A buffer is [id, by, freed]: the audio packet in it (Nothing: silence), *)
(* the thread that enqueued it, and whether its memory was freed since.    *)
(***************************************************************************)
SLBuffers == 2
Buffers   == [id : Ids \union {Nothing}, by : Runners, freed : BOOLEAN]

CallbackLock(t) == Acquire(t, "cbLock", "cbPop")

CallbackPop(t) ==
    /\ IF audio_pkt = <<>>
          THEN /\ Release(t, "cbPop", "cbEnqueue")
               /\ UNCHANGED <<audio_pkt, hand>>
          ELSE /\ Release(t, "cbPop", "cbClockLock")
               /\ audio_pkt' = PopFront(audio_pkt)
               /\ Take(t, Head(audio_pkt))
    /\ UNCHANGED <<session, videoPath, audio_queue, audio_pts, slq, screen,
                   heard, lost, crashed>>

CallbackClockLock(t) == Acquire(t, "cbClockLock", "cbClock")

CallbackClock(t) ==
    /\ Release(t, "cbClock", "cbEnqueue")
    /\ audio_pts' = Pts(hand[t])
    /\ UNCHANGED <<session, hand, videoPath, audio_queue, audio_pkt, slq,
                   screen, heard, lost, crashed>>

CallbackEnqueue_NoSilence(t) ==
    /\ Goto(t, "cbEnqueue", "cbFree")
    /\ slq' = IF hand[t] = Nothing THEN slq
              ELSE Append(slq, [id |-> hand[t], by |-> t, freed |-> FALSE])
    /\ UNCHANGED <<session, hand, videoPath, audio_queue, audio_pkt, audio_pts,
                   screen, heard, lost, crashed>>

\* With nothing decoded yet, hand[t] = Nothing: a buffer of silence.
CallbackEnqueue(t) ==
    /\ Goto(t, "cbEnqueue", "cbFree")
    /\ slq' = IF Len(slq) < SLBuffers
                 THEN Append(slq, [id |-> hand[t], by |-> t, freed |-> FALSE])
                 ELSE slq
    /\ UNCHANGED <<session, hand, videoPath, audio_queue, audio_pkt, audio_pts,
                   screen, heard, lost, crashed>>

\* free() of the memory just handed to OpenSL, then return: to the demux
\* loop, or to the OpenSL thread.
CallbackFree(t) ==
    /\ Goto(t, "cbFree", IF t = "play" THEN "read" ELSE "slWait")
    /\ slq' = [i \in DOMAIN slq |->
                 IF slq[i].by = t THEN [slq[i] EXCEPT !.freed = TRUE]
                                  ELSE slq[i]]
    /\ Drop(t)
    /\ UNCHANGED <<session, videoPath, audio_queue, audio_pkt, audio_pts,
                   screen, heard, lost, crashed>>

\* External: OpenSL has played the buffer at the head and calls back.
BufferPlayed ==
    /\ slq # <<>>
    /\ Goto("sl", "slWait", "cbLock")
    /\ heard' = IF Head(slq).id = Nothing THEN heard
                                          ELSE Append(heard, Head(slq).id)
    /\ slq' = Tail(slq)
    /\ UNCHANGED <<session, hand, videoPath, audio_queue, audio_pkt, audio_pts,
                   screen, lost, crashed>>

(***************************************************************************)
(* gl: onDrawFrame -> simple_ffmpeg_mediaplayer_renderer.                  *)
(***************************************************************************)
DrawFrame ==
    /\ dirty
    /\ dirty' = FALSE
    /\ Goto("gl", "glWait", IF ctx THEN "glLock" ELSE "glWait")
    /\ UNCHANGED <<session, hand, videoPath, audioPath, yuv, view, shown,
                   heard, lost, crashed>>

RenderLock == Acquire("gl", "glLock", "glPop")

Due_Early(frame) == frame.pts <= audio_pts + 1
Due(frame) == frame.pts <= audio_pts

\* front() of the empty list is read before empty() is asked.
RenderEmpty ==
    /\ Release("gl", "glPop", "glDraw")
    /\ video_pkt = <<>>
    /\ Undefined
    /\ UNCHANGED <<session, hand, videoPath, audioPath, screen, heard, lost>>

RenderNotDue ==
    /\ Release("gl", "glPop", "glDraw")
    /\ video_pkt # <<>> /\ ~Due(Head(video_pkt))
    /\ UNCHANGED <<session, hand, videoPath, audioPath, screen, heard, lost,
                   crashed>>

\* The node is deleted under a video_thread that may be walking the list.
RenderDue ==
    /\ Release("gl", "glPop", "glDraw")
    /\ video_pkt # <<>> /\ Due(Head(video_pkt))
    /\ video_pkt' = PopFront(video_pkt)
    /\ yuv' = Head(video_pkt).pic
    /\ shown' = Append(shown, yuv')
    /\ IF pc["video"] = "vSize" THEN Undefined ELSE UNCHANGED crashed
    /\ UNCHANGED <<session, hand, video_queue, decoder, vp, audioPath, dirty,
                   view, heard, lost>>

\* setupShader when the size changed (the first picture), setupTexture(yuv).
RenderDraw ==
    /\ Goto("gl", "glDraw", "glWait")
    /\ view' = (view \/ yuv # Nothing)
    /\ UNCHANGED <<session, hand, videoPath, audioPath, dirty, yuv, shown,
                   heard, lost, crashed>>

-----------------------------------------------------------------------------
Init ==
    /\ media \in Medias
    /\ nread = 0 /\ opened = FALSE /\ ctx = FALSE
    /\ pc = [t \in Threads |-> IF t = "play" THEN "open"
                               ELSE IF t = "sl" THEN "slWait"
                               ELSE IF t = "gl" THEN "glWait" ELSE "unborn"]
    /\ owner = NoThread
    /\ hand = [t \in Threads |-> Nothing]
    /\ video_queue = <<>> /\ decoder = {} /\ vp = NoFrame /\ video_pkt = <<>>
    /\ audio_queue = <<>> /\ audio_pkt = <<>> /\ audio_pts = 0 /\ slq = <<>>
    /\ dirty = TRUE /\ yuv = Nothing /\ view = FALSE /\ shown = <<>>
    /\ heard = <<>> /\ lost = {} /\ crashed = FALSE

Play == \/ OpenFails \/ Open \/ Publish \/ Spawn
        \/ ReadFrame \/ PutLock \/ Put \/ Join

Video == \/ VideoLock \/ VideoPop \/ VideoSized \/ VideoNoPicture
         \/ VideoPicture \/ VideoPushLock \/ VideoPush \/ VideoNotify

Audio == \/ AudioLock \/ AudioPop \/ AudioRejected \/ AudioDecoded
         \/ AudioPushLock \/ AudioPush

Callback(t) == \/ CallbackLock(t) \/ CallbackPop(t) \/ CallbackClockLock(t)
               \/ CallbackClock(t) \/ CallbackEnqueue(t) \/ CallbackFree(t)

Render == \/ DrawFrame \/ RenderLock \/ RenderEmpty \/ RenderNotDue
          \/ RenderDue \/ RenderDraw

Next ==
    \/ Play \/ Video \/ Audio \/ BufferPlayed \/ Render
    \/ \E t \in Runners : Callback(t)

Spec == Init /\ [][Next]_vars

\* The threads never block except on the mutex, each critical section is
\* short, and the platform schedules every thread and serves every waiter of
\* a mutex; the device plays what it is given and GLSurfaceView draws when
\* asked to.
Fairness ==
    /\ SF_vars(Play) /\ SF_vars(Video) /\ SF_vars(Audio) /\ SF_vars(Render)
    /\ WF_vars(BufferPlayed)
    /\ \A t \in Runners : SF_vars(Callback(t))

FairSpec == Spec /\ Fairness

-----------------------------------------------------------------------------
(***************************************************************************)
(* Properties.                                                             *)
(***************************************************************************)
SetOf(s) == {s[i] : i \in DOMAIN s}
Opt(p)   == IF p = Nothing THEN <<>> ELSE <<p>>

Critical == {"put", "vPop", "vPush", "aPop", "aPush", "cbPop", "cbClock",
             "glPop"}

PlayPcs  == {"open", "publish", "spawn", "read", "putLock", "put", "failed",
             "returned"}
VideoPcs == {"unborn", "vLock", "vPop", "vSize", "vDecode", "vPushLock",
             "vPush", "vNotify"}
AudioPcs == {"unborn", "aLock", "aPop", "aDecode", "aPushLock", "aPush"}
CallbackPcs == {"cbLock", "cbPop", "cbClockLock", "cbClock", "cbEnqueue",
                "cbFree"}
GLPcs    == {"glWait", "glLock", "glPop", "glDraw"}

PcsOK ==
    /\ pc \in [Threads -> PlayPcs \union VideoPcs \union AudioPcs
                            \union CallbackPcs \union GLPcs \union {"slWait"}]
    /\ pc["play"] \in PlayPcs \union CallbackPcs
    /\ pc["video"] \in VideoPcs
    /\ pc["audio"] \in AudioPcs
    /\ pc["sl"] \in CallbackPcs \union {"slWait"}
    /\ pc["gl"] \in GLPcs
    /\ owner \in Threads \union {NoThread}
    /\ pc["play"] \in {"open", "publish", "spawn"} =>
           pc["video"] = "unborn" /\ pc["audio"] = "unborn"

SessionOK ==
    /\ media \in Medias
    /\ nread \in 0 .. Len(media.pkts)
    /\ opened \in BOOLEAN /\ ctx \in BOOLEAN /\ crashed \in BOOLEAN
    /\ dirty \in BOOLEAN /\ view \in BOOLEAN
    /\ yuv \in Ids \union {Nothing}
    /\ audio_pts \in Int

QueuesOK ==
    /\ hand \in [Threads -> Ids \union {Nothing}]
    /\ video_queue \in Seq(Ids) /\ audio_queue \in Seq(Ids)
    /\ decoder \in SUBSET Ids
    /\ vp \in Frames \union {NoFrame}
    /\ video_pkt \in Seq(Frames) /\ audio_pkt \in Seq(Ids)
    /\ slq \in Seq(Buffers)
    /\ shown \in Seq(Ids) /\ heard \in Seq(Ids)
    /\ lost \in SUBSET Ids

\* A thread that has work to do on a packet holds one.
HandsOK ==
    /\ pc["play"] \in {"putLock", "put"} => hand["play"] \in Ids
    /\ pc["video"] \in {"vDecode", "vPushLock", "vPush"} => hand["video"] \in Ids
    /\ pc["video"] \in {"vPushLock", "vPush"} => vp \in Frames
    /\ pc["audio"] \in {"aDecode", "aPushLock", "aPush"} => hand["audio"] \in Ids
    /\ \A t \in Runners :
          pc[t] \in {"cbClockLock", "cbClock"} => hand[t] \in Ids

TypeOK == PcsOK /\ SessionOK /\ QueuesOK /\ HandsOK

\* Every list operation of every thread runs under the mutex, and every path
\* out of a critical section gives the mutex back (pthread_mutex_lock and
\* pthread_mutex_unlock around lines 4016-4236).
LockDiscipline == \A t \in Threads : owner = t <=> pc[t] \in Critical

\* Sound on its way from the demuxer to the loudspeaker, oldest first.  The
\* queue of OpenSL has room for two.
Carrying(t)  == pc[t] \in {"cbClockLock", "cbClock", "cbEnqueue"}
InCallback   == Opt(IF Carrying("play") THEN hand["play"]
                    ELSE IF Carrying("sl") THEN hand["sl"] ELSE Nothing)
JustRead(kind) ==
    IF pc["play"] \in {"putLock", "put"} /\ Kind(hand["play"]) = kind
       THEN Opt(hand["play"]) ELSE <<>>
Buffer(k)    == IF k \in DOMAIN slq THEN Opt(slq[k].id) ELSE <<>>
Queued       == Buffer(1) \o Buffer(2)
AudioLine    == heard \o Queued \o InCallback \o audio_pkt
                \o Opt(hand["audio"]) \o audio_queue \o JustRead("audio")

Demuxed(kind) == {p \in 1 .. nread : Kind(p) = kind /\ p \notin lost}
Rising(s)     == \A i, j \in DOMAIN s : i < j => s[i] < s[j]

\* Two queues, three threads and the OpenSL buffer queue later, the audio of
\* the file is still complete, free of duplicates and in demuxing order.
AudioFifo == Rising(AudioLine) /\ SetOf(AudioLine) = Demuxed("audio")

\* The video packets before the decoder, and the pictures behind it.
Undecoded == (IF pc["video"] \in {"vSize", "vDecode"} THEN Opt(hand["video"]) ELSE <<>>)
             \o video_queue \o JustRead("video")
Decoded   == shown \o [i \in DOMAIN video_pkt |-> video_pkt[i].pic] \o Opt(vp.pic)

\* Every video packet read is in exactly one place: on its way to the decoder,
\* in demuxing order, inside it, behind it, or rejected; and all that waits is
\* later in the file than what the decoder holds.
VideoConserved ==
    /\ Rising(Undecoded)
    /\ \A i, j \in DOMAIN Decoded : Decoded[i] = Decoded[j] => i = j
    /\ SetOf(Decoded) \union decoder \union SetOf(Undecoded) = Demuxed("video")
    /\ SetOf(Decoded) \intersect (decoder \union SetOf(Undecoded)) = {}
    /\ \A p \in decoder : \A q \in SetOf(Undecoded) : p < q

\* No picture is put on the screen before the sound clock has reached its own
\* time, although it is compared under the label of another packet; only where
\* that packet has no time the picture is shown at once.
NeverEarly ==
    [][\A p \in Ids : shown' = Append(shown, p) =>
          At(p) <= audio_pts \/ Head(video_pkt).pts = None("video")]_vars

\* From the first callback on there is one buffer in the OpenSL queue or one
\* callback on its way to Enqueue, never both and never neither: the queue of
\* two cannot overflow and the chain of callbacks cannot break.
Pending(t) == IF pc[t] \in CallbackPcs \ {"cbFree"} THEN 1 ELSE 0
Started    == pc["play"] \notin {"open", "publish", "spawn", "failed"}
OneBufferChain ==
    Len(slq) + Pending("play") + Pending("sl") = IF Started THEN 1 ELSE 0

\* The sound on its way from the callback to the loudspeaker, oldest first.
Sounded == heard \o Queued \o
           (IF pc["play"] = "cbEnqueue" THEN Opt(hand["play"])
            ELSE IF pc["sl"] = "cbEnqueue" THEN Opt(hand["sl"]) ELSE <<>>)

\* A buffer of silence is silent until it was played: the comment of the
\* callback, "use empty data (silence)".
SilenceIsSilent ==
    \A i \in DOMAIN slq : slq[i].id = Nothing => ~slq[i].freed

\* Once the file is read to its end, all its sound is played (or rejected).
SoundPlayed ==
    pc["play"] = "returned" ~>
        (crashed \/ Demuxed("audio") = SetOf(heard))

\* Where the sound has times that do not go back, a due picture at the head of
\* the list reaches the renderer.
SoundForward ==
    \A a, b \in Ids : Kind(a) = "audio" /\ Kind(b) = "audio" /\ a < b => Pts(a) <= Pts(b)
Positions == UNION {1 .. Len(m.pkts) : m \in Medias}
DuePictureShown ==
    \A p \in Positions :
        (SoundForward /\ video_pkt # <<>> /\ Head(video_pkt).pic = p /\ Due(Head(video_pkt)))
            ~> (crashed \/ p \in SetOf(shown))

\* The five threads together do no more than AVSync allows: a picture taken
\* by the renderer is a Show, an assignment of audio_pts is a Sound, and all
\* other steps go unnoticed.
Promise == INSTANCE AVSync WITH clock <- audio_pts, sounded <- Sounded
KeepsPromise == Promise!Spec
=============================================================================
