---------------------------- MODULE SimplePlayer ----------------------------
(***************************************************************************)
(* The simple player: com_ring0_ffmpeg_FFmpegHelper.cpp, lines 805-1148,   *)
(* under SimpleFFmpegPlayerActivity.                                       *)
(*                                                                         *)
(* Each click on Start makes the UI thread run ..._player_init, in the     *)
(* constructor of the Java thread, and then starts that thread: a session. *)
(* A session decodes its file, pushes every picture onto the one list      *)
(* `frames` under the one mutex and asks the GLSurfaceView for a redraw;   *)
(* the GL thread takes one picture off the list each time it draws.        *)
(* Nothing stops a second click while a session runs, and init sets up     *)
(* again the mutex and the frame size that the other threads are using.    *)
(*                                                                         *)
(* A picture is named by its session and the position of its packet.       *)
(* Packets of further streams are freed at once and left out.              *)
(***************************************************************************)
EXTENDS Naturals, Sequences, FiniteSets

CONSTANTS Clips,     \* the files: size of the video and times of its packets
          Clicks,    \* bound: clicks on Start
          Delay,     \* pictures a decoder keeps back (reordering)
          MaxLost,   \* bound: packets the decoder of one session rejects
          UB         \* what reaching undefined behaviour may do

Sessions == 1 .. Clicks
NoWhere  == [w |-> 0, h |-> 0]
Sizes    == [w : Nat, h : Nat]
NoFrame  == [s |-> 0, pic |-> 0, size |-> NoWhere]

ASSUME ClipsAssumption == Clips \subseteq [size : Sizes, pts : Seq(Nat)]
ASSUME BoundsAssumption == Clicks \in Nat /\ Delay \in Nat /\ MaxLost \in Nat
ASSUME UBAssumption == UB \subseteq {"survive", "crash"}

VARIABLES
    clip,        \* the file of each session; never changes
    ui,          \* where the UI thread is in onClick
    clicks,      \* clicks so far
    pc,          \* where the thread of each session is
    nread,       \* packets read
    draining,    \* in the flush loop
    decoder,     \* pictures inside the decoder
    hand,        \* the picture in the hands of FFmpeg_OnRenderer
    lost,        \* history: pictures the decoder will not deliver
    locked,      \* the mutex, which does not know its holder
    frames,      \* the list
    dirty,       \* requestRender() not yet served
    gl,          \* where the GL thread is
    glframe,     \* the picture it took
    frame_size,  \* frame_width, frame_height
    texture,     \* the size its textures were made with
    drawn,       \* history: pictures put on the screen, oldest first
    evicted,     \* history: init set up the mutex while it was held
    raced,       \* history: two threads were in the list at once
    crashed

decoding == <<nread, draining, decoder, hand, lost>>
painting == <<glframe, frame_size, texture, drawn>>
hazards  == <<evicted, raced, crashed>>

vars == <<clip, ui, clicks, pc, decoding, locked, frames, dirty, gl, painting,
          hazards>>

(***************************************************************************)
(* The mutex and the list.  Definitions named X_... are mutated forms of   *)
(* the definition X that follows them; nothing uses them.                  *)
(***************************************************************************)
Inside(s)  == pc[s] = "push"
InsideGL   == gl = "pop"
Holders    == Cardinality({s \in Sessions : Inside(s)}) + (IF InsideGL THEN 1 ELSE 0)

Lock   == ~locked /\ locked' = TRUE
Unlock == locked' = FALSE

\* One list operation, from the inside: alone it has its effect; against
\* another thread it may also lose it, or bring the process down.
ListOp(result) ==
    IF Holders = 1
       THEN frames' = result /\ UNCHANGED <<raced, crashed>>
       ELSE /\ raced' = TRUE
            /\ \/ "survive" \in UB /\ frames' \in {frames, result} /\ UNCHANGED crashed
               \/ "crash" \in UB /\ crashed' = TRUE /\ frames' = frames

(***************************************************************************)
(* UI thread: onClick -> new MyThread -> simple_ffmpeg_player_init.        *)
(***************************************************************************)
Click ==
    /\ ~crashed /\ ui = "idle" /\ clicks < Clicks
    /\ ui' = "width"
    /\ UNCHANGED <<clip, clicks, pc, decoding, locked, frames, dirty, gl,
                   painting, hazards>>

InitWidth ==
    /\ ~crashed /\ ui = "width"
    /\ frame_size' = [frame_size EXCEPT !.w = 0]
    /\ ui' = "height"
    /\ UNCHANGED <<clip, clicks, pc, decoding, locked, frames, dirty, gl,
                   glframe, texture, drawn, hazards>>

InitHeight ==
    /\ ~crashed /\ ui = "height"
    /\ frame_size' = [frame_size EXCEPT !.h = 0]
    /\ ui' = "mutex"
    /\ UNCHANGED <<clip, clicks, pc, decoding, locked, frames, dirty, gl,
                   glframe, texture, drawn, hazards>>

\* pthread_mutex_init, whoever holds it.
InitMutex ==
    /\ ~crashed /\ ui = "mutex"
    /\ locked' = FALSE
    /\ evicted' = (evicted \/ locked)
    /\ ui' = "start"
    /\ UNCHANGED <<clip, clicks, pc, decoding, frames, dirty, gl, painting,
                   raced, crashed>>

StartThread ==
    /\ ~crashed /\ ui = "start"
    /\ clicks' = clicks + 1
    /\ pc' = [pc EXCEPT ![clicks'] = "open"]
    /\ ui' = "idle"
    /\ UNCHANGED <<clip, decoding, locked, frames, dirty, gl, painting, hazards>>

(***************************************************************************)
(* A session: simple_ffmpeg_player.                                        *)
(***************************************************************************)
Move(s, from, to) ==
    /\ ~crashed
    /\ pc[s] = from
    /\ pc' = [pc EXCEPT ![s] = to]
    /\ UNCHANGED <<clip, ui, clicks, gl, painting>>

\* Any of the early returns up to avcodec_open2.
OpenFails(s) ==
    /\ Move(s, "open", "failed")
    /\ UNCHANGED <<decoding, locked, frames, dirty, hazards>>

Open(s) ==
    /\ Move(s, "open", "next")
    /\ UNCHANGED <<decoding, locked, frames, dirty, hazards>>

Pts(s, p) == clip[s].pts[p]

\* The picture that comes first on the time line leaves the decoder first.
Earliest(s, pics) == {p \in pics : \A q \in pics : Pts(s, p) <= Pts(s, q)}

\* av_read_frame and avcodec_decode_video2 without a picture to show for it.
NoPicture(s) ==
    LET p == nread[s] + 1 IN
    /\ ~draining[s] /\ p \in DOMAIN clip[s].pts
    /\ Move(s, "next", "next")
    /\ nread' = [nread EXCEPT ![s] = p]
    /\ \/ /\ Cardinality(lost[s]) < MaxLost
          /\ lost' = [lost EXCEPT ![s] = @ \union {p}]
          /\ UNCHANGED decoder
       \/ /\ Cardinality(decoder[s]) < Delay
          /\ decoder' = [decoder EXCEPT ![s] = @ \union {p}]
          /\ UNCHANGED lost
    /\ UNCHANGED <<draining, hand, locked, frames, dirty, hazards>>

Picture(s) ==
    LET p == nread[s] + 1 IN
    /\ ~draining[s] /\ p \in DOMAIN clip[s].pts
    /\ Cardinality(decoder[s]) >= Delay
    /\ Move(s, "next", "lock")
    /\ nread' = [nread EXCEPT ![s] = p]
    /\ \E pic \in Earliest(s, decoder[s] \union {p}) :
          /\ decoder' = [decoder EXCEPT ![s] = (@ \union {p}) \ {pic}]
          /\ hand' = [hand EXCEPT ![s] = pic]
    /\ UNCHANGED <<draining, lost, locked, frames, dirty, hazards>>

EndOfFile_NoFlush(s) ==
    /\ ~draining[s] /\ nread[s] = Len(clip[s].pts)
    /\ Move(s, "next", "done")
    /\ UNCHANGED <<decoding, locked, frames, dirty, hazards>>

EndOfFile(s) ==
    /\ ~draining[s] /\ nread[s] = Len(clip[s].pts)
    /\ Move(s, "next", "next")
    /\ draining' = [draining EXCEPT ![s] = TRUE]
    /\ UNCHANGED <<nread, decoder, hand, lost, locked, frames, dirty, hazards>>

\* The flush loop, fed with the emptied packet.
FlushPicture(s) ==
    /\ draining[s]
    /\ Move(s, "next", "lock")
    /\ \E pic \in Earliest(s, decoder[s]) :
          /\ decoder' = [decoder EXCEPT ![s] = @ \ {pic}]
          /\ hand' = [hand EXCEPT ![s] = pic]
    /\ UNCHANGED <<nread, draining, lost, locked, frames, dirty, hazards>>

\* It ends when the decoder has nothing more, or with an error.
FlushEnds(s) ==
    /\ draining[s]
    /\ Move(s, "next", "done")
    /\ decoder[s] # {} => Cardinality(lost[s]) < MaxLost
    /\ lost' = [lost EXCEPT ![s] = @ \union decoder[s]]
    /\ decoder' = [decoder EXCEPT ![s] = {}]
    /\ UNCHANGED <<nread, draining, hand, locked, frames, dirty, hazards>>

\* FFmpeg_OnRenderer.
LockFrames_Ignored(s) ==
    /\ Move(s, "lock", "push")
    /\ locked' = TRUE
    /\ UNCHANGED <<decoding, frames, dirty, hazards>>

LockFrames(s) ==
    /\ Move(s, "lock", "push")
    /\ Lock
    /\ UNCHANGED <<decoding, frames, dirty, hazards>>

FrontOnly(q) == q
PopFront(q)  == Tail(q)

PushFront(s, f) == <<f>> \o frames
PushBack(s, f)  == Append(frames, f)

Push(s) ==
    /\ Move(s, "push", "request")
    /\ ListOp(PushBack(s, [s |-> s, pic |-> hand[s], size |-> clip[s].size]))
    /\ Unlock
    /\ hand' = [hand EXCEPT ![s] = 0]
    /\ UNCHANGED <<nread, draining, decoder, lost, dirty, evicted>>

Request_Never(s) ==
    /\ Move(s, "request", "next")
    /\ UNCHANGED <<decoding, locked, frames, dirty, hazards>>

Request(s) ==
    /\ Move(s, "request", "next")
    /\ dirty' = TRUE
    /\ UNCHANGED <<decoding, locked, frames, hazards>>

(***************************************************************************)
(* GL thread: onDrawFrame -> simple_ffmpeg_player_renderer.                *)
(***************************************************************************)
MoveGL(from, to) ==
    /\ ~crashed
    /\ gl = from
    /\ gl' = to
    /\ UNCHANGED <<clip, ui, clicks, pc, decoding, evicted>>

DrawFrame ==
    /\ dirty
    /\ MoveGL("wait", "lock")
    /\ dirty' = FALSE
    /\ UNCHANGED <<locked, frames, painting, raced, crashed>>

RenderLock ==
    /\ MoveGL("lock", "pop")
    /\ Lock
    /\ UNCHANGED <<frames, dirty, painting, raced, crashed>>

RenderPop_Unchecked ==
    /\ Unlock
    /\ MoveGL("pop", "size")
    /\ ListOp(IF frames = <<>> THEN frames ELSE Tail(frames))
    /\ glframe' = IF frames = <<>> THEN NoFrame ELSE Head(frames)
    /\ UNCHANGED <<dirty, frame_size, texture, drawn>>

RenderPop ==
    /\ Unlock
    /\ IF frames = <<>>
          THEN /\ MoveGL("pop", "wait")
               /\ ListOp(frames)
               /\ UNCHANGED glframe
          ELSE /\ MoveGL("pop", "size")
               /\ ListOp(PopFront(frames))
               /\ glframe' = Head(frames)
    /\ UNCHANGED <<dirty, frame_size, texture, drawn>>

SameSize_Either(a, b) == a.w = b.w \/ a.h = b.h
SameSize(a, b) == a.w = b.w /\ a.h = b.h

RenderCompare ==
    /\ MoveGL("size", IF SameSize(glframe.size, frame_size) THEN "upload" ELSE "width")
    /\ UNCHANGED <<locked, frames, dirty, painting, raced, crashed>>

RenderWidth ==
    /\ MoveGL("width", "height")
    /\ frame_size' = [frame_size EXCEPT !.w = glframe.size.w]
    /\ UNCHANGED <<locked, frames, dirty, glframe, texture, drawn, raced, crashed>>

RenderHeight ==
    /\ MoveGL("height", "setup")
    /\ frame_size' = [frame_size EXCEPT !.h = glframe.size.h]
    /\ UNCHANGED <<locked, frames, dirty, glframe, texture, drawn, raced, crashed>>

\* setupShader(frame_width, frame_height): new textures of that size.
RenderSetup ==
    /\ MoveGL("setup", "upload")
    /\ texture' = frame_size
    /\ UNCHANGED <<locked, frames, dirty, glframe, frame_size, drawn, raced, crashed>>

\* setupTexture(frame, frame_width, frame_height), then free the picture.
RenderUpload ==
    /\ MoveGL("upload", "wait")
    /\ drawn' = Append(drawn, glframe)
    /\ glframe' = NoFrame
    /\ UNCHANGED <<locked, frames, dirty, frame_size, texture, raced, crashed>>

-----------------------------------------------------------------------------
Init ==
    /\ clip \in [Sessions -> Clips]
    /\ ui = "idle" /\ clicks = 0
    /\ pc = [s \in Sessions |-> "unborn"]
    /\ nread = [s \in Sessions |-> 0]
    /\ draining = [s \in Sessions |-> FALSE]
    /\ decoder = [s \in Sessions |-> {}]
    /\ hand = [s \in Sessions |-> 0]
    /\ lost = [s \in Sessions |-> {}]
    /\ locked = FALSE /\ frames = <<>>
    /\ dirty = TRUE /\ gl = "wait" /\ glframe = NoFrame
    /\ frame_size = NoWhere /\ texture = NoWhere /\ drawn = <<>>
    /\ evicted = FALSE /\ raced = FALSE /\ crashed = FALSE

OnClick == Click \/ InitWidth \/ InitHeight \/ InitMutex \/ StartThread

Session(s) == \/ OpenFails(s) \/ Open(s) \/ NoPicture(s) \/ Picture(s)
              \/ EndOfFile(s) \/ FlushPicture(s) \/ FlushEnds(s)
              \/ LockFrames(s) \/ Push(s) \/ Request(s)

Render == \/ DrawFrame \/ RenderLock \/ RenderPop \/ RenderCompare
          \/ RenderWidth \/ RenderHeight \/ RenderSetup \/ RenderUpload

Next == OnClick \/ Render \/ \E s \in Sessions : Session(s)

Spec == Init /\ [][Next]_vars

\* Threads block on the mutex only; the platform schedules each of them and
\* serves every waiter, and GLSurfaceView draws when asked to.  Nobody has to
\* click.
Fairness == SF_vars(Render) /\ \A s \in Sessions : SF_vars(Session(s))
FairSpec == Spec /\ Fairness

-----------------------------------------------------------------------------
(***************************************************************************)
(* Properties.                                                             *)
(***************************************************************************)
SetOf(q) == {q[i] : i \in DOMAIN q}
Files(s) == DOMAIN clip[s].pts
Frames   == [s : Sessions, pic : Nat, size : Sizes]
PcOf     == {"unborn", "open", "failed", "next", "lock", "push", "request", "done"}
GLPcs    == {"wait", "lock", "pop", "size", "width", "height", "setup", "upload"}

ThreadsOK ==
    /\ clip \in [Sessions -> Clips]
    /\ ui \in {"idle", "width", "height", "mutex", "start"}
    /\ clicks \in 0 .. Clicks
    /\ ui # "idle" => clicks < Clicks
    /\ pc \in [Sessions -> PcOf]
    /\ gl \in GLPcs
    /\ {locked, dirty, evicted, raced, crashed} \subseteq BOOLEAN

DecodingOK ==
    /\ nread \in [Sessions -> Nat]
    /\ draining \in [Sessions -> BOOLEAN]
    /\ decoder \in [Sessions -> SUBSET Nat] /\ lost \in [Sessions -> SUBSET Nat]
    /\ hand \in [Sessions -> Nat]

ScreenOK ==
    /\ frames \in Seq(Frames) /\ drawn \in Seq(Frames)
    /\ glframe \in Frames \union {NoFrame}
    /\ gl \in {"size", "width", "height", "setup", "upload"} => glframe \in Frames
    /\ frame_size \in Sizes /\ texture \in Sizes

TypeOK == ThreadsOK /\ DecodingOK /\ ScreenOK

\* Unless init has set up the mutex under a thread that held it, at most one
\* thread is inside the list, and the mutex is locked exactly then.
Exclusive ==
    ~evicted => Holders = (IF locked THEN 1 ELSE 0)

\* The pictures that have reached the list, foremost first: drawn, in the hands
\* of the GL thread, or waiting; those of session s among them; and the one it
\* is about to push.
Line      == drawn \o (IF glframe = NoFrame THEN <<>> ELSE <<glframe>>) \o frames
Sent(s)   == {Line[i].pic : i \in {k \in DOMAIN Line : Line[k].s = s}}
InHand(s) == {hand[s]} \ {0}

\* However many sessions share the list, and whatever waits in it unseen, no
\* picture of a session is dropped or drawn twice.
PicturesConserved ==
    ~raced =>
        /\ \A s \in Sessions :
              /\ Sent(s) \union InHand(s) = (1 .. nread[s]) \ (decoder[s] \union lost[s])
              /\ hand[s] \notin Sent(s)
        /\ \A i, j \in DOMAIN Line :
              Line[i].s = Line[j].s /\ Line[i].pic = Line[j].pic => i = j

\* Pictures of one session reach the screen in the order of their times, also
\* across the change from the decoding loop to the flush loop.
Reorderable(s) ==
    \A p \in Files(s) :
        Cardinality({q \in 1 .. p - 1 : Pts(s, q) > Pts(s, p)}) <= Delay

PicturesInOrder ==
    ~raced => \A s \in Sessions : Reorderable(s) =>
        /\ \A i, j \in DOMAIN Line :
              i < j /\ Line[i].s = s /\ Line[j].s = s =>
                  Pts(s, Line[i].pic) <= Pts(s, Line[j].pic)
        /\ \A p \in Sent(s) : \A q \in InHand(s) : Pts(s, p) <= Pts(s, q)

\* A session that ends has delivered every picture of its file except those
\* the decoder refused: the flush loop leaves none behind in the decoder.
FlushComplete ==
    \A s \in Sessions : pc[s] = "done" => (~raced => Sent(s) = Files(s) \ lost[s])

\* An upload stays inside the textures and inside the picture's own memory,
\* although init may zero the frame size at any moment between the comparison,
\* the allocation and the upload.
NoOverrun ==
    [][drawn' # drawn =>
           /\ frame_size.w <= texture.w /\ frame_size.w <= glframe.size.w
           /\ frame_size.h <= texture.h /\ frame_size.h <= glframe.size.h]_vars

\* Redraw requests coalesce, but none gets lost: while pictures wait in the
\* list, a request draws at least one (unless the list was raced for).
RequestDraws ==
    \A s \in Sessions : \A n \in 0 .. 6 :
        (pc[s] = "request" /\ frames # <<>> /\ Len(drawn) = n) ~> (crashed \/ raced \/ Len(drawn) > n)
=============================================================================
