------------------------------ MODULE Decoders ------------------------------
(***************************************************************************)
(* The jobs that decode a file into a file of samples, in                  *)
(* com_ring0_ffmpeg_FFmpegHelper.cpp: decoderVideoToYuv (384-499),         *)
(* decoderAudioToPcm (503-602), simple_ffmpeg_decoder (1150-1259),         *)
(* simple_android_decoder (3252-3334), simple_ffmpeg_audio_decoder         *)
(* (3557-3639) and simple_ffmpeg_video_decoder (3690-3790).                *)
(*                                                                         *)
(* A file is its packets: of the stream that is decoded ("own"), of that   *)
(* stream but refused by the decoder ("bad"), of another ("foreign").      *)
(* simple_ffmpeg_decoder reads a raw stream instead, in pieces of 4096     *)
(* bytes, of which each completes perPiece packets.  A packet holds one    *)
(* picture, or one buffer of sound; the number of a packet is the place of *)
(* its picture in the order in which pictures leave the decoder.           *)
(***************************************************************************)
EXTENDS Integers, Sequences, FiniteSets

CONSTANTS Files,   \* sequences of packets
          Frames,  \* values of the argument frame
          Delays,  \* pictures a decoder may hold back
          UB       \* outcomes of reading past a heap buffer

Limited   == {"decoderVideoToYuv", "decoderAudioToPcm"}
Unlimited == {"android_decoder", "audio_decoder"}
Jobs      == Limited \union Unlimited \union {"decoder", "video_decoder"}
Kinds     == {"own", "bad", "foreign"}

ASSUME FilesAssumption == Files \subseteq Seq(Kinds)
ASSUME BoundsAssumption == Frames \subseteq Int /\ Delays \subseteq Nat
ASSUME UBAssumption == UB \subseteq {"survive", "crash"} /\ UB # {}

VARIABLES
    job, file, perPiece, frame, delay,  \* what runs on what; never changes
    savable,     \* pix_fmt is one of the three of ten that 459-480 write
    pc,
    pos,         \* packets read
    held,        \* pictures inside the decoder
    dec_cnt, skip_frame,
    torn,        \* the bytes before the next packet were thrown away
    turn,        \* i of the loop at 3772
    refused,     \* history: the decoder refused a packet fed again
    drained,     \* history: pictures delivered after the end of the file
    written      \* pictures in the output, in order

input   == <<job, file, perPiece, frame, delay, savable>>
counts  == <<dec_cnt, skip_frame, torn, turn>>
history == <<refused, drained>>
vars    == <<input, pc, pos, held, counts, history, written>>

Goto(from, to) == pc = from /\ pc' = to

\* The decoder takes picture n, and gives one back if it holds enough.
Holds(n) == Len(held) < delay /\ held' = Append(held, n)
Gives(n) == Len(held) >= delay /\ held' = Tail(Append(held, n))
Given(n) == Head(Append(held, n))

-----------------------------------------------------------------------------
(***************************************************************************)
(* Definitions named X_... are mutated forms of the definition X that      *)
(* follows them; nothing uses them.                                        *)
(***************************************************************************)
\* No such file, no stream of the kind, no decoder: plain return.  The job over
\* a raw stream does not ask whether its file was opened, and reads from null.
OpenFails ==
    /\ \/ Goto("open", "failed")
       \/ job = "decoder" /\ Goto("open", "crashed")
    /\ UNCHANGED <<input, pos, held, counts, history, written>>

Open ==
    /\ Goto("open", "read")
    /\ UNCHANGED <<input, pos, held, counts, history, written>>

\* av_read_frame, for the five jobs that open a container.
ReadFrame(kind) ==
    /\ job # "decoder"
    /\ pos < Len(file) /\ file[pos + 1] = kind
    /\ pos' = pos + 1

Foreign ==
    /\ ReadFrame("foreign") /\ Goto("read", "read")
    /\ UNCHANGED <<input, held, counts, history, written>>

\* Nothing comes out of the decoder; the video decoder counts such packets.
NoPicture_Writes ==
    /\ \/ ReadFrame("bad") /\ UNCHANGED held
       \/ ReadFrame("own") /\ Holds(pos + 1)
    /\ Goto("read", "read")
    /\ skip_frame' = skip_frame + (IF job = "video_decoder" THEN 1 ELSE 0)
    /\ written' = IF written = <<>> THEN <<>> ELSE Append(written, written[Len(written)])
    /\ UNCHANGED <<input, dec_cnt, torn, turn, history>>

NoPicture ==
    /\ \/ ReadFrame("bad") /\ UNCHANGED held
       \/ ReadFrame("own") /\ Holds(pos + 1)
    /\ Goto("read", "read")
    /\ skip_frame' = skip_frame + (IF job = "video_decoder" THEN 1 ELSE 0)
    /\ UNCHANGED <<input, dec_cnt, torn, turn, history, written>>

\* A picture within the limit, or of a job without one, is written, in a pixel
\* format that the job knows how to write.  The audio decoder writes 44100
\* bytes of a buffer that holds fewer.
Picture ==
    /\ ReadFrame("own") /\ Gives(pos + 1)
    /\ dec_cnt' = dec_cnt + (IF job \in Limited THEN 1 ELSE 0)
    /\ job \in Limited => dec_cnt' <= frame
    /\ \/ /\ Goto("read", "read")
          /\ written' = IF savable THEN Append(written, Given(pos + 1)) ELSE written
          /\ job = "audio_decoder" => "survive" \in UB
       \/ /\ Goto("read", "crashed") /\ UNCHANGED written
          /\ job = "audio_decoder" /\ "crash" \in UB
    /\ UNCHANGED <<input, skip_frame, torn, turn, history>>

\* The first picture beyond the limit ends the job.
BeyondLimit_Early ==
    /\ job \in Limited
    /\ ReadFrame("own") /\ Gives(pos + 1)
    /\ dec_cnt' = dec_cnt + 1 /\ dec_cnt + 1 >= frame
    /\ Goto("read", "done")
    /\ UNCHANGED <<input, skip_frame, torn, turn, history, written>>

BeyondLimit ==
    /\ job \in Limited
    /\ ReadFrame("own") /\ Gives(pos + 1)
    /\ dec_cnt' = dec_cnt + 1 /\ dec_cnt + 1 > frame
    /\ Goto("read", "done")
    /\ UNCHANGED <<input, skip_frame, torn, turn, history, written>>

-----------------------------------------------------------------------------
(***************************************************************************)
(* simple_ffmpeg_decoder.  A packet that gives no picture breaks out of    *)
(* the loop over the piece of 4096 bytes, whose rest is thrown away, with  *)
(* it the beginning of the packet after it: that one then disappears, is   *)
(* refused, or is decoded all the same.  The last packet of the file never *)
(* leaves the parser, which is not told of the end; it is not in file.     *)
(***************************************************************************)
EndOfPiece(n) ==
    LET last == ((n - 1) \div perPiece + 1) * perPiece
    IN  IF last < Len(file) THEN last ELSE Len(file)

Parse(kind) ==
    /\ job = "decoder" /\ Goto("read", "read")
    /\ pos < Len(file) /\ file[pos + 1] = kind

TornVanishes ==
    /\ torn /\ \E kind \in {"own", "bad"} : Parse(kind)
    /\ pos' = pos + 1 /\ torn' = FALSE
    /\ UNCHANGED <<input, held, dec_cnt, skip_frame, turn, history, written>>

PieceCut ==
    /\ \/ Parse("bad") /\ UNCHANGED held
       \/ Parse("own") /\ torn /\ UNCHANGED held
       \/ Parse("own") /\ Holds(pos + 1)
    /\ pos' = EndOfPiece(pos + 1) /\ torn' = TRUE
    /\ UNCHANGED <<input, dec_cnt, skip_frame, turn, history, written>>

Parsed ==
    /\ Parse("own") /\ Gives(pos + 1)
    /\ written' = Append(written, Given(pos + 1))
    /\ pos' = pos + 1 /\ torn' = FALSE
    /\ UNCHANGED <<input, dec_cnt, skip_frame, turn, history>>

-----------------------------------------------------------------------------
\* The end of the file: two of the jobs go on to drain the decoder.
EndOfFile ==
    /\ pos = Len(file)
    /\ Goto("read", IF job \in {"decoder", "video_decoder"} THEN "drain" ELSE "done")
    /\ UNCHANGED <<input, pos, held, counts, history, written>>

\* 1224-1248: an empty packet is fed until no picture comes; each picture is
\* overwritten by a read from the output, where there is nothing to read.
DrainEmpty ==
    /\ job = "decoder" /\ Goto("drain", "drain")
    /\ held # <<>> /\ held' = Tail(held)
    /\ drained' = Append(drained, Head(held))
    /\ UNCHANGED <<input, pos, counts, refused, written>>

\* 3772-3781: the packet that was read last is fed again, skip_frame times; at
\* the end of the file av_read_frame leaves its data in pPacket, which has not
\* been freed.  It may have been rewritten by the bitstream filter, and it may
\* be of another stream: then the decoder refuses it.
DrainAgain ==
    /\ job = "video_decoder" /\ Goto("drain", "drain")
    /\ turn < skip_frame /\ turn' = turn + 1
    /\ \/ /\ file[pos] = "own" /\ Holds(pos)
          /\ UNCHANGED <<history, written>>
       \/ /\ file[pos] = "own" /\ Gives(pos)
          /\ drained' = Append(drained, Given(pos))
          /\ written' = Append(written, Given(pos))
          /\ UNCHANGED refused
       \/ refused' = TRUE /\ UNCHANGED <<held, drained, written>>
    /\ UNCHANGED <<input, pos, dec_cnt, skip_frame, torn>>

DrainEnds ==
    /\ job = "decoder" => held = <<>>
    /\ job = "video_decoder" => turn = skip_frame
    /\ Goto("drain", "done")
    /\ UNCHANGED <<input, pos, held, counts, history, written>>

Init ==
    /\ job \in Jobs /\ file \in Files /\ perPiece \in 1 .. 3
    /\ frame \in Frames /\ delay \in Delays
    /\ IF job = "decoder" THEN \A n \in DOMAIN file : file[n] # "foreign" ELSE perPiece = 1
    /\ savable \in BOOLEAN /\ (job # "decoderVideoToYuv" => savable)
    /\ pc = "open" /\ pos = 0 /\ held = <<>>
    /\ dec_cnt = 0 /\ skip_frame = 0 /\ torn = FALSE /\ turn = 0
    /\ refused = FALSE /\ drained = <<>> /\ written = <<>>

Next == \/ OpenFails \/ Open \/ Foreign \/ NoPicture \/ Picture \/ BeyondLimit
        \/ TornVanishes \/ PieceCut \/ Parsed
        \/ EndOfFile \/ DrainEmpty \/ DrainAgain \/ DrainEnds

Spec == Init /\ [][Next]_vars

-----------------------------------------------------------------------------
(***************************************************************************)
(* Properties                                                              *)
(***************************************************************************)
Good == {n \in DOMAIN file : file[n] = "own"}
WrittenSet == {written[i] : i \in DOMAIN written}

\* Pictures are written in order and once; only the drain of the video decoder
\* may add copies, and only of the last picture of a file.  A job that reads a
\* container leaves no decodable picture out between two that it writes.
WrittenInOrder ==
    /\ \A i, j \in DOMAIN written : i < j =>
          \/ written[i] < written[j]
          \/ job = "video_decoder" /\ written[i] = Len(file) /\ written[j] = Len(file)
    /\ job # "decoder" =>
          \A n \in Good : (\E k \in WrittenSet : n < k) => n \in WrittenSet

\* What is missing when a job over a container is done (and its pixel format is
\* one of those that are written): what lies beyond the limit, and, for the jobs
\* that do not drain the decoder, the last pictures, as many as it holds back.
\* The video decoder loses and repeats nothing,
\* although it drains by feeding the last packet again: as many copies stay
\* inside the decoder as there were pictures.  (Of a file that the decoder
\* refuses no part of, that ends with a picture and has as many as are held.)
AsManyAsDecoded ==
    LET out     == Cardinality(Good) - delay
        decoded == IF out > 0 THEN out ELSE 0
    IN  pc = "done" /\ savable =>
        /\ job \in Limited /\ frame >= 0 =>
              Len(written) = IF frame < decoded THEN frame ELSE decoded
        /\ job \in Unlimited => Len(written) = decoded
        /\ job = "video_decoder" /\ ~refused /\ out >= 0
              /\ Len(file) \in Good /\ (\A n \in DOMAIN file : file[n] # "bad")
           => Len(written) = Cardinality(Good) /\ WrittenSet = Good

\* "flush decoder frame ... save y": the pictures that simple_ffmpeg_decoder
\* gets out of the decoder after the end of the file are saved.
FlushedFramesSaved ==
    job = "decoder" => \A i \in DOMAIN drained : drained[i] \in WrittenSet
=============================================================================
