------------------------------ MODULE Encoders ------------------------------
(***************************************************************************)
(* The jobs that encode a file of raw samples, in                          *)
(* com_ring0_ffmpeg_FFmpegHelper.cpp: simple_ffmpeg_encoder (1261-1352),   *)
(* simple_yuv420p_to_video (1524-1646), simple_yuv420p_to_picture          *)
(* (1648-1736), simple_pcm_to_aac (1738-1838), simple_yuv420p_to_h264      *)
(* (1840-1947) and simple_yuv420p_to_h265 (1949-2056).                     *)
(*                                                                         *)
(* A file is a number of whole frames and what is left after them: nothing *)
(* ("none"), a frame without any of its last plane ("short"), or with some *)
(* of it ("most").  The encoder numbers frames in the order in which their *)
(* packets leave it, and holds back a number of them that is its delay.    *)
(* A call that makes no packet or fails gives back what was in pPacket and *)
(* sets it to null (libavcodec/utils.c:2047-2048), so that the next call   *)
(* brings its own room.                                                    *)
(***************************************************************************)
EXTENDS Integers, Sequences, FiniteSets

CONSTANTS Files,     \* [n : Nat, rest : {"none", "short", "most"}]
          Delays,    \* frames an encoder may hold back
          MaxCopies, \* bound on the copies of the last frame that are written
          UB         \* outcomes of encoding into a packet never set up

ToEndOfFile == {"video", "aac", "h264", "h265"}   \* while (!feof(...))
Jobs == ToEndOfFile \union {"encoder", "picture"}
File == [n : Nat, rest : {"none", "short", "most"}]

ASSUME FilesAssumption == Files \subseteq File
ASSUME BoundsAssumption == Delays \subseteq Nat /\ MaxCopies \in Nat
ASSUME UBAssumption == UB \subseteq {"survive", "crash"} /\ UB # {}

VARIABLES
    job, file, delay,  \* what runs on what; never changes
    pc,
    fed,        \* frames read and handed to the encoder; 0 .. n are of the file
    frame_cnt,
    packet,     \* pPacket: "null", with "room" for data, or never set up: "wild"
    pts,        \* of pFrame
    held,       \* frames inside the encoder, with the pts each was given
    failed,     \* history: the encoder returned an error
    written     \* packets in the output, in order

input == <<job, file, delay>>
vars  == <<input, pc, fed, frame_cnt, packet, pts, held, failed, written>>

Goto(from, to) == pc = from /\ pc' = to

NoPts == -1     \* AV_NOPTS_VALUE

\* What the encoder is given in a step: the frame of the number fed, with the
\* time it has after the step.
Frame == [frame |-> fed', pts |-> pts']

-----------------------------------------------------------------------------
(***************************************************************************)
(* Definitions named X_... are mutated forms of the definition X that      *)
(* follows them; nothing uses them.                                        *)
(***************************************************************************)
\* Opening or a codec fails: plain return.
OpenFails ==
    /\ Goto("open", "failed")
    /\ UNCHANGED <<input, fed, frame_cnt, packet, pts, held, failed, written>>

\* There is no output format of the name "libx265": h265 uses a null pointer.
Open ==
    /\ Goto("open", IF job = "h265" THEN "crashed" ELSE "read")
    /\ packet' = IF job \in {"encoder", "video"} THEN "wild" ELSE "room"
    /\ UNCHANGED <<input, fed, frame_cnt, pts, held, failed, written>>

\* Another frame is read.  feof is true only after a read that found too
\* little, so those loops go round once more than there are whole frames, with
\* what the buffer then holds.  The encoder job tests each plane for emptiness,
\* and the picture job reads once.
Frames == CASE job = "picture" -> 1
            [] job = "encoder" -> file.n + (IF file.rest = "most" THEN 1 ELSE 0)
            [] OTHER           -> file.n + 1

\* The pts of the encoder job counts packets, the others count frames.
Counts_Packets(out) == IF out /\ job # "picture" THEN 1 ELSE 0
Counts(out) ==
    CASE job = "encoder" -> IF out THEN 1 ELSE 0
      [] job = "picture" -> 0
      [] OTHER           -> 1

\* One more frame; pFrame keeps its time until the next one is read.
Reads ==
    /\ pc = "read" /\ fed < Frames /\ fed' = fed + 1
    /\ pts' = IF job = "picture" THEN 1 ELSE frame_cnt

\* A packet that was never set up reaches the encoder: on the stack in the video
\* job, in every turn of its loop; from av_malloc in the encoder job, which sets
\* it up only in its loop, when that loop found no frame and the drain begins.
Wild == packet = "wild" /\ (job = "video" \/ pc = "drain")
Survives == Wild => "survive" \in UB

\* What a call leaves in pPacket, together with what the job does after it: the
\* packet is freed or was given back, and the next one of the video job is wild.
PacketAfter == packet' = IF job = "video" THEN "wild" ELSE "null"

\* The encoder keeps the frame and makes no packet.
KeptBack_Stops ==
    /\ Reads /\ Len(held) < delay
    /\ pc' = IF job = "encoder" THEN "drain" ELSE "done"
    /\ frame_cnt' = frame_cnt + Counts(FALSE)
    /\ held' = Append(held, Frame)
    /\ PacketAfter
    /\ UNCHANGED <<input, failed, written>>

KeptBack ==
    /\ Reads /\ Len(held) < delay /\ UNCHANGED pc
    /\ frame_cnt' = frame_cnt + Counts(FALSE)
    /\ held' = Append(held, Frame)
    /\ PacketAfter
    /\ UNCHANGED <<input, failed, written>>

\* It makes a packet, in the room that was brought or in its own.
Encoded ==
    /\ Reads /\ Len(held) >= delay /\ Survives /\ UNCHANGED pc
    /\ frame_cnt' = frame_cnt + Counts(TRUE)
    /\ LET frames == Append(held, Frame)
       IN  held' = Tail(frames) /\ written' = Append(written, Head(frames))
    /\ PacketAfter
    /\ UNCHANGED <<input, failed>>

\* An error ends the loop: the encoder's own, or that the room that was brought
\* is too small, or has an accidental size.  The picture job returns.
EncodeFails ==
    /\ Reads
    /\ pc' = IF job = "encoder" THEN "drain" ELSE IF job = "picture" THEN "failed" ELSE "done"
    /\ failed' = TRUE
    /\ frame_cnt' = frame_cnt + (IF job = "encoder" THEN 0 ELSE Counts(FALSE))
    /\ PacketAfter
    /\ UNCHANGED <<input, held, written>>

\* The accidental address in a wild packet is written to; in the drain it is
\* also freed, with the buffers the packet seems to have.
WildPacket ==
    /\ Wild /\ "crash" \in UB
    /\ pc = "drain" \/ (pc = "read" /\ fed < Frames /\ Len(held) >= delay)
    /\ pc' = "crashed"
    /\ UNCHANGED <<input, fed, frame_cnt, packet, pts, held, failed, written>>

\* The trailer is written and all is closed, except by the encoder job.
EndOfFile ==
    /\ fed = Frames
    /\ Goto("read", IF job = "encoder" THEN "drain" ELSE "done")
    /\ UNCHANGED <<input, fed, frame_cnt, packet, pts, held, failed, written>>

-----------------------------------------------------------------------------
\* 1333-1342: the encoder job "drains" by encoding pFrame again, until an error;
\* nothing else ends it.  pFrame is the last frame that was read, its planes
\* perhaps overwritten by what the file had after it, or, if there was none, a
\* frame of no size, format or time, of the number 0.
DrainKeptBack_Stops ==
    /\ Goto("drain", "done") /\ Len(held) < delay /\ Survives
    /\ UNCHANGED <<input, fed, frame_cnt, pts, failed, written>>
    /\ held' = Append(held, Frame)
    /\ PacketAfter

DrainKeptBack ==
    /\ Goto("drain", "drain") /\ Len(held) < delay /\ Survives
    /\ UNCHANGED <<input, fed, frame_cnt, pts, failed, written>>
    /\ held' = Append(held, Frame)
    /\ PacketAfter

DrainEncoded ==
    /\ Goto("drain", "drain") /\ Len(held) >= delay /\ Survives
    /\ Len(written) < Frames + MaxCopies
    /\ UNCHANGED <<input, fed, frame_cnt, pts, failed>>
    /\ LET frames == Append(held, Frame)
       IN  held' = Tail(frames) /\ written' = Append(written, Head(frames))
    /\ PacketAfter

DrainFails ==
    /\ Goto("drain", "done") /\ Survives
    /\ failed' = TRUE
    /\ PacketAfter
    /\ UNCHANGED <<input, fed, frame_cnt, pts, held, written>>

Init ==
    /\ job \in Jobs /\ file \in Files /\ delay \in Delays
    /\ job = "picture" => delay = 0     \* mjpeg
    /\ pc = "open" /\ fed = 0 /\ frame_cnt = 0 /\ packet = "null" /\ pts = NoPts
    /\ held = <<>> /\ failed = FALSE /\ written = <<>>

Next == \/ OpenFails \/ Open \/ KeptBack \/ Encoded \/ EncodeFails \/ WildPacket
        \/ EndOfFile \/ DrainKeptBack \/ DrainEncoded \/ DrainFails

Spec == Init /\ [][Next]_vars

\* A sequential program: it goes on while it can.
FairSpec == Spec /\ WF_vars(Next)

-----------------------------------------------------------------------------
(***************************************************************************)
(* Properties                                                              *)
(***************************************************************************)
\* Every frame that was read is encoded once, in order: it is written or still
\* inside the encoder.  Copies of the last frame, from the drain, follow.  And
\* the loop that ends without an error has read the whole file, the loops that
\* ask for feof one turn more than that; as nothing drains the encoder after
\* it, what is not written at the end is just what the encoder holds back.
EachFrameOnce ==
    LET all == written \o held
    IN  /\ ~failed => Len(all) >= fed
        /\ \A i \in DOMAIN all : all[i].frame = (IF i < fed THEN i ELSE fed)
        /\ pc = "done" /\ ~failed =>
              /\ fed = file.n + 1 \/ (job = "picture" /\ fed = 1)
              /\ Len(held) = (IF fed < delay THEN fed ELSE delay)

\* Frames that come out have increasing times.  The encoder job counts packets,
\* which are late: its frames may share a time, but not if they are further
\* apart than what the encoder holds back, and times never go back.
StampsRise ==
    \A x, y \in {written[i] : i \in DOMAIN written} : x.frame < y.frame =>
        /\ x.pts <= y.pts
        /\ (job # "encoder" \/ y.frame > x.frame + delay) => x.pts < y.pts

\* The drain of the encoder job, although it feeds frames instead of none, gets
\* every frame of the file out, unless the encoder fails.
AllFramesOut ==
    [](job = "encoder" /\ pc = "drain" =>
        <>(failed \/ \A k \in 1 .. fed : \E i \in DOMAIN written : written[i].frame = k))
=============================================================================
