---------------------------- MODULE AudioPlayer ----------------------------
(***************************************************************************)
(* The audio player: com_ring0_ffmpeg_FFmpegHelper.cpp, lines 85-97 and    *)
(* 1386-1512, under SimpleFFmpegAudioPlayerActivity.                       *)
(*                                                                         *)
(* Each click on Start runs simple_ffmpeg_audio_player on the UI thread: a *)
(* session.  It opens the file into the file-wide variables pFormatCtx,    *)
(* pCodecCtx, audio_index, pFrame, pPacket and pSwrCtx, creates an OpenSL  *)
(* player and runs its callback once.  From then on OpenSL calls the       *)
(* callback of that player each time its buffer has been played; the       *)
(* callback reads and decodes through the same variables, whichever        *)
(* session set them last, and enqueues one buffer more.  At the end of the *)
(* file it releases everything and enqueues nothing.                       *)
(*                                                                         *)
(* A sound is named by its session and the position of its packet.  A file *)
(* is the kinds of its streams and, for each packet, its stream; one that  *)
(* cannot be read to its end is the part before the error.                 *)
(***************************************************************************)
EXTENDS Naturals, Sequences, FiniteSets

CONSTANTS Tracks,    \* the files
          Clicks,    \* bound: clicks on Start
          MaxLost,   \* bound: packets of a session that decode to nothing
          UB         \* what reaching undefined behaviour may do

Sessions == 1 .. Clicks
Null     == 0                \* no context, no stream (-1 in the code)
NoSound  == [s |-> 0, p |-> 0]

ASSUME TracksAssumption ==
    /\ Tracks \subseteq [streams : Seq({"audio", "video"}), pkts : Seq(Nat \ {0})]
    /\ \A t \in Tracks : \A p \in DOMAIN t.pkts : t.pkts[p] \in DOMAIN t.streams
ASSUME BoundsAssumption == Clicks \in Nat /\ MaxLost \in Nat
ASSUME UBAssumption == UB \subseteq {"survive", "crash"}

VARIABLES
    track,         \* the file of each session; never changes
    ui,            \* where the UI thread is in simple_ffmpeg_audio_player
    clicks,        \* sessions begun
    pFormatCtx, pCodecCtx, pSwrCtx,   \* the session each belongs to, or Null
    opened,        \* sessions whose file avformat_open_input has opened
    decoders,      \* sessions whose codec context avcodec_open2 has opened
    audio_index,   \* kept from session to session
    nread,         \* packets read from each file
    pPacket,       \* the packet read last
    pFrame,        \* the sound decoded last
    cb,            \* where the callback of each session's player is
    slq,           \* its buffer queue
    sent,          \* history: sounds handed to each player, oldest first
    lost,          \* history: packets that decoded to nothing
    ended,         \* history: sessions whose callback reached the end
    shared,        \* history: a session began while another still played
    crashed

globals == <<pFormatCtx, pCodecCtx, pSwrCtx, opened, decoders, audio_index>>
data    == <<nread, pPacket, pFrame>>
chain   == <<cb, slq>>
history == <<sent, lost, ended>>

vars == <<track, ui, clicks, globals, data, chain, history, shared, crashed>>

Playing(s) == cb[s] # "idle" \/ slq[s] # <<>>

Undefined == \/ "survive" \in UB /\ UNCHANGED crashed
             \/ "crash" \in UB /\ crashed' = TRUE

(***************************************************************************)
(* UI thread.  Definitions named X_... are mutated forms of the definition *)
(* X that follows them; nothing uses them.                                 *)
(***************************************************************************)
MoveUI(from, to) ==
    /\ ~crashed
    /\ ui = from
    /\ ui' = to
    /\ UNCHANGED <<track, chain, history>>

\* avformat_alloc_context: from here on a running callback reads from the
\* new context, although nothing has been opened into it.
Click ==
    /\ clicks < Clicks
    /\ MoveUI("idle", "open")
    /\ clicks' = clicks + 1
    /\ pFormatCtx' = clicks'
    /\ shared' = (shared \/ \E s \in Sessions : Playing(s))
    /\ UNCHANGED <<pCodecCtx, pSwrCtx, opened, decoders, audio_index, data, crashed>>

\* avformat_open_input fails: it frees the context and nulls the variable.
OpenFails ==
    /\ MoveUI("open", "idle")
    /\ pFormatCtx' = Null
    /\ UNCHANGED <<clicks, pCodecCtx, pSwrCtx, opened, decoders, audio_index, data, shared, crashed>>

Open ==
    /\ MoveUI("open", "find")
    /\ pFormatCtx' = clicks
    /\ opened' = opened \union {clicks}
    /\ UNCHANGED <<clicks, pCodecCtx, pSwrCtx, decoders, audio_index, data, shared, crashed>>

ProbeFails ==
    /\ MoveUI("find", "idle")
    /\ UNCHANGED <<clicks, globals, data, shared, crashed>>

AudioStreams(s) == {i \in DOMAIN track[s].streams : track[s].streams[i] = "audio"}
FirstOf(S)      == CHOOSE i \in S : \A j \in S : i <= j

\* The search for an audio stream; without one audio_index keeps its value.
FoundIndex(s) == IF AudioStreams(s) # {} THEN FirstOf(AudioStreams(s)) ELSE audio_index

NotFound ==
    /\ MoveUI("find", "idle")
    /\ FoundIndex(clicks) = Null
    /\ UNCHANGED <<clicks, globals, data, shared, crashed>>

\* The code reads pFormatCtx again here: a callback that met the end of the
\* earlier file may have closed and nulled it.
Find ==
    /\ MoveUI("find", "codec")
    /\ FoundIndex(clicks) # Null
    /\ audio_index' = FoundIndex(clicks)
    /\ IF pFormatCtx = clicks /\ FoundIndex(clicks) \in DOMAIN track[clicks].streams
          THEN pCodecCtx' = clicks /\ UNCHANGED crashed
          ELSE crashed' = TRUE /\ UNCHANGED pCodecCtx
    /\ UNCHANGED <<clicks, pFormatCtx, pSwrCtx, opened, decoders, data, shared>>

\* avcodec_find_decoder or avcodec_open2: audio_index and pCodecCtx stay set.
CodecFails ==
    /\ MoveUI("codec", "idle")
    /\ UNCHANGED <<clicks, globals, data, shared, crashed>>

\* avcodec_open2 succeeds; a new frame, packet and converter.
OpenCodec ==
    /\ MoveUI("codec", "player")
    /\ crashed' = (pCodecCtx = Null)
    /\ decoders' = (decoders \union {pCodecCtx}) \ {Null}
    /\ pSwrCtx' = clicks /\ pFrame' = NoSound /\ pPacket' = NoSound
    /\ UNCHANGED <<clicks, pFormatCtx, pCodecCtx, opened, audio_index, nread, shared>>

\* android_opensles_play_buffer: a player of its own, and its callback is run
\* once by the UI thread.
StartPlayer ==
    /\ ~crashed /\ ui = "player"
    /\ ui' = "callback"
    /\ cb' = [cb EXCEPT ![clicks] = "read"]
    /\ UNCHANGED <<track, clicks, globals, data, slq, history, shared, crashed>>

(***************************************************************************)
(* android_opensles_callback of the player of session s.                   *)
(***************************************************************************)
\* The callback moves on; a callback that returns frees the UI thread if it
\* runs on it.
MoveCb(s, from, to) ==
    /\ ~crashed
    /\ cb[s] = from
    /\ cb' = [cb EXCEPT ![s] = to]
    /\ ui' = IF to = "idle" /\ ui = "callback" /\ s = clicks THEN "idle" ELSE ui
    /\ UNCHANGED <<track, clicks, shared>>

\* av_read_frame(pFormatCtx, pPacket) of a context nobody opened crashes.
ReadCrashes(s) ==
    /\ pFormatCtx \notin opened
    /\ MoveCb(s, "read", "read")
    /\ crashed' = TRUE
    /\ UNCHANGED <<globals, data, slq, history>>

\* A packet of another stream is freed and the loop goes on.
Read(s) ==
    LET f == pFormatCtx
        p == nread[f] + 1
    IN  /\ f \in opened /\ p \in DOMAIN track[f].pkts
        /\ MoveCb(s, "read", IF track[f].pkts[p] = audio_index THEN "decode" ELSE "read")
        /\ nread' = [nread EXCEPT ![f] = p]
        /\ pPacket' = [s |-> f, p |-> p]
        /\ UNCHANGED <<globals, pFrame, slq, history, crashed>>

\* avcodec_decode_audio4 delivers nothing: the packet is freed and the loop
\* goes on.  A codec that is not an audio codec never delivers.
Audible(p) == /\ p # NoSound /\ p.s \in decoders /\ pCodecCtx = p.s
              /\ track[p.s].streams[track[p.s].pkts[p.p]] = "audio"

LostOf(s) == {x.p : x \in {y \in lost : y.s = s}}

DecodeNothing_Sent(s) ==
    /\ pCodecCtx # Null
    /\ Audible(pPacket) => Cardinality(LostOf(pPacket.s)) < MaxLost
    /\ MoveCb(s, "decode", "enqueue")
    /\ lost' = (lost \union {pPacket}) \ {NoSound}
    /\ UNCHANGED <<globals, data, slq, sent, ended, crashed>>

DecodeNothing(s) ==
    /\ pCodecCtx # Null
    /\ Audible(pPacket) => Cardinality(LostOf(pPacket.s)) < MaxLost
    /\ MoveCb(s, "decode", "read")
    /\ lost' = (lost \union {pPacket}) \ {NoSound}
    /\ UNCHANGED <<globals, data, slq, sent, ended, crashed>>

Decode(s) ==
    /\ pCodecCtx # Null /\ Audible(pPacket)
    /\ MoveCb(s, "decode", "enqueue")
    /\ pFrame' = pPacket
    /\ UNCHANGED <<globals, nread, pPacket, slq, history, crashed>>

DecodeCrashes(s) ==
    /\ pCodecCtx = Null
    /\ MoveCb(s, "decode", "read")
    /\ crashed' = TRUE
    /\ UNCHANGED <<globals, data, slq, history>>

\* swr_convert, Enqueue, return; through a null pSwrCtx or pFrame it crashes.
Enqueue_AndLoop(s) ==
    /\ MoveCb(s, "enqueue", "read")
    /\ slq' = [slq EXCEPT ![s] = Append(@, pFrame)]
    /\ sent' = [sent EXCEPT ![s] = Append(@, pFrame)]
    /\ UNCHANGED <<globals, data, lost, ended, crashed>>

Enqueue_Nothing(s) ==
    /\ MoveCb(s, "enqueue", "idle")
    /\ UNCHANGED <<globals, data, slq, history, crashed>>

Enqueue(s) ==
    /\ pSwrCtx # Null /\ pFrame # NoSound
    /\ MoveCb(s, "enqueue", "idle")
    /\ slq' = [slq EXCEPT ![s] = Append(@, pFrame)]
    /\ sent' = [sent EXCEPT ![s] = Append(@, pFrame)]
    /\ UNCHANGED <<globals, data, lost, ended, crashed>>

EnqueueCrashes(s) ==
    /\ pSwrCtx = Null \/ pFrame = NoSound
    /\ MoveCb(s, "enqueue", "idle")
    /\ crashed' = TRUE
    /\ UNCHANGED <<globals, data, slq, history>>

\* End of file, or a read error: the frame and the codec context are freed.
EndOfFile(s) ==
    /\ pFormatCtx \in opened /\ nread[pFormatCtx] = Len(track[pFormatCtx].pkts)
    /\ MoveCb(s, "read", "close")
    /\ pFrame' = NoSound /\ pCodecCtx' = Null
    /\ UNCHANGED <<pFormatCtx, pSwrCtx, opened, decoders, audio_index, nread, pPacket, slq,
                   history, crashed>>

\* avformat_close_input frees the codec context of each stream, the one that
\* was freed a moment ago too; then swr_free.
Close_Silence(s) ==
    /\ MoveCb(s, "close", "idle")
    /\ pFormatCtx' = Null /\ pSwrCtx' = Null
    /\ opened' = opened \ {pFormatCtx}
    /\ slq' = [slq EXCEPT ![s] = Append(@, NoSound)]
    /\ UNCHANGED <<pCodecCtx, decoders, audio_index, data, history, crashed>>

Close(s) ==
    /\ MoveCb(s, "close", "idle")
    /\ pFormatCtx' = Null /\ pSwrCtx' = Null
    /\ opened' = opened \ {pFormatCtx}
    /\ ended' = ended \union {s}
    /\ IF pFormatCtx = Null THEN UNCHANGED crashed ELSE Undefined
    /\ UNCHANGED <<pCodecCtx, decoders, audio_index, data, slq, sent, lost>>

\* The device has played the buffer: OpenSL calls the callback.
BufferPlayed(s) ==
    /\ ~crashed /\ slq[s] # <<>> /\ cb[s] = "idle"
    /\ slq' = [slq EXCEPT ![s] = Tail(@)]
    /\ cb' = [cb EXCEPT ![s] = "read"]
    /\ UNCHANGED <<track, ui, clicks, globals, data, history, shared, crashed>>

-----------------------------------------------------------------------------
Init ==
    /\ track \in [Sessions -> Tracks]
    /\ ui = "idle" /\ clicks = 0
    /\ pFormatCtx = Null /\ pCodecCtx = Null /\ pSwrCtx = Null
    /\ opened = {} /\ decoders = {} /\ audio_index = Null
    /\ nread = [s \in Sessions |-> 0]
    /\ pPacket = NoSound /\ pFrame = NoSound
    /\ cb = [s \in Sessions |-> "idle"]
    /\ slq = [s \in Sessions |-> <<>>] /\ sent = [s \in Sessions |-> <<>>]
    /\ lost = {} /\ ended = {}
    /\ shared = FALSE /\ crashed = FALSE

OnClick == \/ Click \/ OpenFails \/ Open \/ ProbeFails \/ NotFound \/ Find
           \/ CodecFails \/ OpenCodec \/ StartPlayer

Callback(s) == \/ ReadCrashes(s) \/ Read(s) \/ DecodeNothing(s) \/ Decode(s)
               \/ DecodeCrashes(s) \/ Enqueue(s) \/ EnqueueCrashes(s)
               \/ EndOfFile(s) \/ Close(s)

Next == OnClick \/ \E s \in Sessions : Callback(s) \/ BufferPlayed(s)

Spec == Init /\ [][Next]_vars

\* Nobody waits for anybody: every thread is scheduled and the device plays
\* what is queued.  Nobody has to click.
Fairness ==
    /\ WF_vars(OnClick /\ ui # "idle")
    /\ \A s \in Sessions : WF_vars(Callback(s)) /\ WF_vars(BufferPlayed(s))
FairSpec == Spec /\ Fairness

-----------------------------------------------------------------------------
(***************************************************************************)
(* Properties.                                                             *)
(***************************************************************************)
\* Whatever the sessions do to one another's contexts, a player owns at most
\* one buffer or one running callback: its queue of two never overflows, and
\* two callbacks of one player never run at once.
OneBufferEach ==
    \A s \in Sessions : Len(slq[s]) + (IF cb[s] = "idle" THEN 0 ELSE 1) <= 1

\* A session that shared the file-wide variables with nobody hands its player
\* the sounds of its own file, in order, none twice and none left out but
\* those the decoder refused; at its end that is the whole first audio stream.
Heard(s)    == {sent[s][i].p : i \in DOMAIN sent[s]}
Audio(s)    == {p \in DOMAIN track[s].pkts :
                   AudioStreams(s) # {} /\ track[s].pkts[p] = FirstOf(AudioStreams(s))}
Underway(s) == IF cb[s] \in {"decode", "enqueue"} THEN {nread[s]} ELSE {}

SoundInOrder ==
    ~shared => \A s \in Sessions :
        /\ \A i \in DOMAIN sent[s] : sent[s][i].s = s
        /\ \A i, j \in DOMAIN sent[s] : i < j => sent[s][i].p < sent[s][j].p
        /\ Heard(s) = ((1 .. nread[s]) \cap Audio(s)) \ (LostOf(s) \union Underway(s))
        /\ s \in ended => Heard(s) = Audio(s) \ LostOf(s)

\* Clicking again only after the sound has ended is safe as far as the
\* contexts go: a callback never works with one that is not its session's,
\* and reads the first audio stream of its file.  Only the stream number may be
\* another's: a file without sound is played through that of an earlier file,
\* where the code means to give up ("not found audio stream", line 1484).
OwnContexts ==
    ~shared => \A s \in Sessions :
        /\ cb[s] \in {"read", "decode", "enqueue", "close"} =>
               pFormatCtx = s /\ s \in opened /\ pSwrCtx = s
        /\ cb[s] \in {"read", "decode", "enqueue"} =>
               /\ pCodecCtx = s
               /\ IF AudioStreams(s) # {} THEN audio_index = FirstOf(AudioStreams(s))
                  ELSE \E t \in 1 .. s - 1 : audio_index \in AudioStreams(t)
        /\ cb[s] = "enqueue" => pFrame.s = s

\* A player that was started comes to its end, unless the process dies or the
\* next session takes its contexts away.
TrackEnds ==
    \A s \in Sessions :
        (cb[s] # "idle") ~> (crashed \/ shared \/ s \in ended)
=============================================================================
