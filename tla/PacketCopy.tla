----------------------------- MODULE PacketCopy -----------------------------
(***************************************************************************)
(* The jobs that copy packets without decoding them, of                    *)
(* com_ring0_ffmpeg_FFmpegHelper.cpp:                                      *)
(*   remuxer   simple_video_audio_remuxer, lines 2058-2141                 *)
(*   demuxer   simple_ffmpeg_demuxer, lines 2498-2566                      *)
(*   demuxer2  simple_ffmpeg_demuxer2, lines 2568-2694                     *)
(*   pusher    simple_ffmpeg_pusher, lines 3365-3472                       *)
(*   puller    simple_ffmpeg_puller, lines 3474-3555                       *)
(* and what they rely on in libavformat/mux.c: the packets of an output    *)
(* wait in a buffer ordered by time until every stream has one there.      *)
(*                                                                         *)
(* A file is its streams (kind, and time base in ticks), how many of them  *)
(* are found when it is probed (the others appear while it is read), the   *)
(* times the pusher makes up for packets without one, number by number,    *)
(* and its packets, each of a stream, with a decoding time in units of the *)
(* stream's time base or none, and whether it is timed: has a presentation *)
(* time.  That is never before the decoding time, and is not kept.  (A     *)
(* made up time is k frames, as a quotient of doubles that is truncated:   *)
(* made[k + 1] may be any time, and the same for two packets.)  Times are  *)
(* not negative.                                                           *)
(***************************************************************************)
EXTENDS Integers, Sequences, FiniteSets

CONSTANTS Files,     \* the inputs
          Formats,   \* what the remuxer's output file may be
          Flv,       \* the format of the pusher and the puller
          RawBase,   \* the time base of the streams of a raw output, in ticks
          MaxDelta,  \* max_interleave_delta, in ticks
          NoPts      \* AV_NOPTS_VALUE

Jobs  == {"remuxer", "demuxer", "demuxer2", "pusher", "puller"}
Kinds == {"video", "audio", "other"}

(***************************************************************************)
(* A format: the time base it gives a stream of each kind; whether it      *)
(* needs times, and each later than the one before (strict); the kinds of  *)
(* streams it takes and whether it takes only one; and whether its header  *)
(* waits for the first packet that leaves the buffer (deferred).           *)
(***************************************************************************)
Format == [base : [Kinds -> Nat \ {0}], timed : BOOLEAN, strict : BOOLEAN,
           kinds : SUBSET Kinds, single : BOOLEAN, deferred : BOOLEAN]

Raw(single, deferred) ==
    [base |-> [k \in Kinds |-> RawBase], timed |-> FALSE, strict |-> TRUE,
     kinds |-> Kinds, single |-> single, deferred |-> deferred]
H264 == Raw(TRUE, TRUE)
Adts == Raw(FALSE, FALSE)

Stream == [kind : Kinds, base : Nat \ {0}]
File   == [streams : Seq(Stream), probed : Nat, made : Seq(Nat),
           pkts : Seq([st : Nat \ {0}, dts : Nat \union {NoPts}, timed : BOOLEAN])]

ASSUME FilesAssumption ==
    /\ Files \subseteq File
    /\ \A f \in Files : /\ f.probed \in 1 .. Len(f.streams)
                        /\ Len(f.pkts) <= Len(f.made)
                        /\ \A n \in DOMAIN f.pkts :
                              /\ f.pkts[n].st \in DOMAIN f.streams
                              /\ f.pkts[n].timed => f.pkts[n].dts # NoPts
ASSUME FormatsAssumption == Formats \subseteq Format /\ Flv \in Format /\ ~Flv.deferred
ASSUME TimesAssumption == RawBase \in Nat \ {0} /\ MaxDelta \in Nat \ {0} /\ NoPts \notin Nat

\* The outputs: O is the only one of a job, V and A the two of a demuxer.
Outputs == {"O", "V", "A"}

VARIABLES
    job, file, fmt,   \* never change; fmt[c] is the format of output c
    pc,
    nread,            \* packets read
    frame_index,      \* packets the pusher has stamped
    streams,          \* for each output, the input stream each of its streams was made from
    header,           \* for each output: "none", "ok" or "refused"
    ready,            \* the outputs whose streams have their priv_pts
    cur_dts,          \* for each output stream, the time of its last packet
    priv_pts,         \* for each output stream, the time it would make up
    packet_buffer,    \* for each output, the packets that wait
    at,               \* the output that is being served
    forced,           \* outputs of which a packet left because another was too far ahead
    written,          \* for each output, the packets in it
    crashed

vars == <<job, file, fmt, pc, nread, frame_index, streams, header, ready, cur_dts,
          priv_pts, packet_buffer, at, forced, written, crashed>>

input  == <<job, file, fmt>>
muxing == <<streams, header, ready, cur_dts, priv_pts, packet_buffer, at, forced>>

Goto(from, to) == ~crashed /\ pc = from /\ pc' = to

(***************************************************************************)
(* Definitions named X_... are mutated forms of the definition X that      *)
(* follows them; nothing uses them.                                        *)
(***************************************************************************)
Least(S)    == CHOOSE x \in S : \A y \in S : x <= y
Greatest(S) == CHOOSE x \in S : \A y \in S : x >= y

\* av_rescale_q_rnd with AV_ROUND_NEAR_INF | AV_ROUND_PASS_MINMAX.
Rescale(t, from, to) == IF t = NoPts THEN NoPts ELSE (2 * t * from + to) \div (2 * to)

Found(kind) == {i \in 1 .. file.probed : file.streams[i].kind = kind}

\* video_index and audio_index: the demuxers keep the last stream of the kind,
\* the pusher and the puller stop at the first.
Index(kind) == IF job \in {"demuxer", "demuxer2"} THEN Greatest(Found(kind)) ELSE Least(Found(kind))

MissingStream ==
    CASE job = "remuxer"                -> FALSE
      [] job \in {"pusher", "puller"}   -> Found("video") = {}
      [] OTHER                          -> Found("video") = {} \/ Found("audio") = {}

\* The streams of an output, each made from an input stream: of the remuxer
\* all, of demuxer2 all those of the kind, in their order.
AllProbed    == [i \in 1 .. file.probed |-> i]
Ascending(S) == [k \in 1 .. Cardinality(S) |->
                    CHOOSE x \in S : Cardinality({y \in S : y < x}) = k - 1]
OfKind(kind) == Ascending(Found(kind))

StreamsMade_First(c) ==
    CASE job = "remuxer" /\ c = "O"                -> AllProbed
      [] job \in {"pusher", "puller"} /\ c = "O"   -> <<1>>
      [] job = "demuxer2" /\ c = "V"               -> OfKind("video")
      [] job = "demuxer2" /\ c = "A"               -> OfKind("audio")
      [] OTHER                                     -> <<>>

StreamsMade(c) ==
    CASE job = "remuxer" /\ c = "O"                -> AllProbed
      [] job \in {"pusher", "puller"} /\ c = "O"   -> <<Index("video")>>
      [] job = "demuxer2" /\ c = "V"               -> OfKind("video")
      [] job = "demuxer2" /\ c = "A"               -> OfKind("audio")
      [] OTHER                                     -> <<>>

-----------------------------------------------------------------------------
\* A file cannot be opened or probed: plain return.
OpenFails ==
    /\ Goto("open", "failed")
    /\ UNCHANGED <<input, nread, frame_index, muxing, written, crashed>>

\* demuxer2 creates the stream of a third kind in a null context.
NullContext ==
    /\ job = "demuxer2" /\ Found("other") # {}
    /\ Goto("open", "open") /\ crashed' = TRUE
    /\ UNCHANGED <<input, nread, frame_index, muxing, written>>

NotFound ==
    /\ MissingStream /\ ~(job = "demuxer2" /\ Found("other") # {})
    /\ Goto("open", "failed")
    /\ UNCHANGED <<input, nread, frame_index, muxing, written, crashed>>

\* The streams of the outputs, with the first cur_dts and priv_pts.
NewStreams ==
    /\ ~MissingStream /\ ~(job = "demuxer2" /\ Found("other") # {})
    /\ Goto("open", IF job = "demuxer" THEN "read" ELSE "header")
    /\ streams'  = [c \in Outputs |-> StreamsMade(c)]
    /\ cur_dts'  = [c \in Outputs |-> [i \in DOMAIN StreamsMade(c) |-> 0]]
    /\ priv_pts' = cur_dts'
    /\ UNCHANGED <<input, nread, frame_index, header, ready, packet_buffer, at, forced,
                   written, crashed>>

\* What the muxer's write_header says of the streams.
Refuses(c) ==
    \/ fmt[c].single /\ Len(streams[c]) # 1
    \/ \E i \in DOMAIN streams[c] : file.streams[streams[c][i]].kind \notin fmt[c].kinds

\* avformat_write_header, whose result no job looks at.  A header that is
\* refused at once leaves the streams without their priv_pts.
WriteHeader_Late ==
    /\ Goto("header", "read")
    /\ header' = [c \in Outputs |->
                    IF streams[c] = <<>> \/ fmt[c].deferred THEN "none"
                    ELSE IF Refuses(c) THEN "refused" ELSE "ok"]
    /\ ready' = {c \in Outputs : header'[c] = "ok"}
    /\ UNCHANGED <<input, nread, frame_index, streams, cur_dts, priv_pts, packet_buffer, at,
                   forced, written, crashed>>

WriteHeader ==
    /\ Goto("header", "read")
    /\ header' = [c \in Outputs |->
                    IF streams[c] = <<>> \/ fmt[c].deferred THEN "none"
                    ELSE IF Refuses(c) THEN "refused" ELSE "ok"]
    /\ ready' = {c \in Outputs : streams[c] # <<>> /\ header'[c] # "refused"}
    /\ UNCHANGED <<input, nread, frame_index, streams, cur_dts, priv_pts, packet_buffer, at,
                   forced, written, crashed>>

-----------------------------------------------------------------------------
(***************************************************************************)
(* One round of the loop: the packet that is read next, and where it goes. *)
(***************************************************************************)
Packet  == file.pkts[nread + 1]
HasNext == nread < Len(file.pkts)

Wanted(st) ==
    CASE job = "remuxer"              -> TRUE
      [] job \in {"pusher", "puller"} -> st = Index("video")
      [] OTHER                        -> st \in {Index("video"), Index("audio")}

Output(st) == IF job \in {"remuxer", "pusher", "puller"} THEN "O"
              ELSE IF st = Index("video") THEN "V" ELSE "A"

\* pPacket->stream_index when the packet is handed over: the pusher leaves it
\* as it was read.
StreamIndex(st) == IF job \in {"remuxer", "pusher"} THEN st ELSE 1

Skip ==
    /\ Goto("read", "read")
    /\ HasNext /\ ~Wanted(Packet.st)
    /\ nread' = nread + 1
    /\ UNCHANGED <<input, frame_index, muxing, written, crashed>>

\* The remuxer follows an element beyond the streams of its output.
LateStream ==
    /\ Goto("read", "read") /\ crashed' = TRUE
    /\ HasNext /\ job = "remuxer" /\ Packet.st > file.probed
    /\ UNCHANGED <<input, nread, frame_index, muxing, written>>

\* The first demuxer writes the data into plain files.
CopyRaw ==
    /\ Goto("read", "read")
    /\ HasNext /\ job = "demuxer" /\ Wanted(Packet.st)
    /\ nread' = nread + 1
    /\ written' = [written EXCEPT ![Output(Packet.st)] =
                     Append(@, [st |-> 1, from |-> Packet.st, n |-> nread + 1, dts |-> Packet.dts])]
    /\ UNCHANGED <<input, frame_index, muxing, crashed>>

\* The packet's time in the time base of the output; the pusher makes up both
\* times of a packet that has no presentation time, its k-th.
Stamp(pkt, k) ==
    LET t == IF job = "pusher" /\ ~pkt.timed THEN file.made[k + 1] ELSE pkt.dts
    IN  Rescale(t, file.streams[pkt.st].base, fmt[Output(pkt.st)].base[file.streams[pkt.st].kind])

\* check_packet: the output has no stream of that index.
InvalidIndex ==
    LET c == Output(Packet.st) IN
    /\ Goto("read", "read")
    /\ HasNext /\ job # "demuxer" /\ Wanted(Packet.st)
    /\ ~(job = "remuxer" /\ Packet.st > file.probed)
    /\ StreamIndex(Packet.st) > Len(streams[c])
    /\ nread' = nread + 1
    /\ frame_index' = IF job = "pusher" THEN frame_index + 1 ELSE frame_index
    /\ UNCHANGED <<input, muxing, written, crashed>>

\* compute_muxer_pkt_fields follows the missing priv_pts.
NoPrivPts ==
    LET c == Output(Packet.st) IN
    /\ Goto("read", "read") /\ crashed' = TRUE
    /\ HasNext /\ job # "demuxer" /\ Wanted(Packet.st)
    /\ StreamIndex(Packet.st) \in DOMAIN streams[c] /\ c \notin ready
    /\ UNCHANGED <<input, nread, frame_index, muxing, written>>

\* A time that compute_muxer_pkt_fields refuses.
Backwards_Strictly(c, i, dts) == cur_dts[c][i] # 0 /\ cur_dts[c][i] >= dts
Backwards(c, i, dts) ==
    /\ cur_dts[c][i] # 0
    /\ cur_dts[c][i] > dts \/ (fmt[c].strict /\ cur_dts[c][i] = dts)

\* interleave_compare_dts, in ticks: is `next' to stay behind `pkt'?
Ticks(c, p) == p.dts * fmt[c].base[file.streams[streams[c][p.st]].kind]
Behind_Never(c, next, pkt) == FALSE
Behind(c, next, pkt) ==
    \/ Ticks(c, next) > Ticks(c, pkt)
    \/ Ticks(c, next) = Ticks(c, pkt) /\ pkt.st < next.st

\* ff_interleave_add_packet: after the last packet of the same stream, before
\* the first that is to stay behind it.
Insert(c, pkt) ==
    LET b    == packet_buffer[c]
        own  == {k \in DOMAIN b : b[k].st = pkt.st}
        last == IF own = {} THEN 0 ELSE Greatest(own)
        k    == Least({j \in last + 1 .. Len(b) : Behind(c, b[j], pkt)} \union {Len(b) + 1})
    IN  SubSeq(b, 1, k - 1) \o <<pkt>> \o SubSeq(b, k, Len(b))

\* A packet is handed to the muxer: av_write_frame writes it, and
\* av_interleaved_write_frame puts it among those that wait.
Submit ==
    LET c   == Output(Packet.st)
        i   == StreamIndex(Packet.st)
        t   == Stamp(Packet, frame_index)
        dts == IF t = NoPts THEN priv_pts[c][i] ELSE t
        pkt == [st |-> i, from |-> Packet.st, n |-> nread + 1, dts |-> dts]
        bad == Backwards(c, i, dts)
        out == ~bad \/ ~fmt[c].timed
    IN
    /\ ~crashed /\ pc = "read"
    /\ HasNext /\ job # "demuxer" /\ Wanted(Packet.st)
    /\ i \in DOMAIN streams[c] /\ c \in ready
    /\ pc' = IF out /\ job # "pusher" THEN "interleave" ELSE "read"
    /\ nread' = nread + 1
    /\ frame_index' = IF job = "pusher" THEN frame_index + 1 ELSE frame_index
    /\ cur_dts'  = IF bad THEN cur_dts  ELSE [cur_dts  EXCEPT ![c][i] = dts]
    /\ priv_pts' = IF bad THEN priv_pts ELSE [priv_pts EXCEPT ![c][i] = dts + 1]
    /\ packet_buffer' = IF out /\ job # "pusher" THEN [packet_buffer EXCEPT ![c] = Insert(c, pkt)]
                                                  ELSE packet_buffer
    /\ written' = IF out /\ job = "pusher" THEN [written EXCEPT ![c] = Append(@, pkt)] ELSE written
    /\ at' = c
    /\ UNCHANGED <<input, streams, header, ready, forced, crashed>>

-----------------------------------------------------------------------------
\* Every stream has a packet in the buffer.
AllWait(c) == DOMAIN streams[c] = {packet_buffer[c][k].st : k \in DOMAIN packet_buffer[c]}

\* The last packet of a stream is too far ahead of the first of all.
LastOnes(b) == {k \in DOMAIN b : \A j \in DOMAIN b : b[j].st = b[k].st => j <= k}
TooFar_Never(c) == FALSE
TooFar(c) ==
    LET b == packet_buffer[c]
    IN  \E k \in LastOnes(b) : Ticks(c, b[k]) - Ticks(c, b[1]) > MaxDelta

\* ff_interleave_packet_per_dts: does the first packet leave the buffer?
Leaves(c) == packet_buffer[c] # <<>> /\ (pc = "trailer" \/ AllWait(c) \/ TooFar(c))

\* It leaves, and write_packet writes it, after the header if that is still to
\* be written.  If the header is refused, the packet is lost and so are, at
\* the trailer, those behind it.
WriteOne(from) ==
    LET pkt == Head(packet_buffer[at])
        hdr == IF header[at] # "none" THEN header[at] ELSE IF Refuses(at) THEN "refused" ELSE "ok"
    IN
    /\ Goto(from, IF hdr = "ok" THEN from ELSE IF from = "interleave" THEN "read" ELSE "closing")
    /\ Leaves(at)
    /\ packet_buffer' = [packet_buffer EXCEPT ![at] = Tail(@)]
    /\ header' = [header EXCEPT ![at] = hdr]
    /\ written' = IF hdr = "ok" THEN [written EXCEPT ![at] = Append(@, pkt)] ELSE written
    /\ forced' = IF pc = "trailer" \/ AllWait(at) THEN forced ELSE forced \union {at}
    /\ UNCHANGED <<input, nread, frame_index, streams, ready, cur_dts, priv_pts, at, crashed>>

Interleave == WriteOne("interleave")
Trailer    == WriteOne("trailer")

\* Nothing more leaves: back to the loop.
Wait ==
    /\ ~Leaves(at)
    /\ Goto("interleave", "read")
    /\ UNCHANGED <<input, nread, frame_index, muxing, written, crashed>>

\* The end of the input.  Then av_write_trailer for each output in turn.
EndOfInput ==
    /\ ~HasNext
    /\ Goto("read", IF job = "demuxer" THEN "done" ELSE "trailer")
    /\ at' = IF job = "demuxer2" THEN "V" ELSE "O"
    /\ UNCHANGED <<input, nread, frame_index, streams, header, ready, cur_dts, priv_pts,
                   packet_buffer, forced, written, crashed>>

TrailerEnds ==
    /\ packet_buffer[at] = <<>>
    /\ Goto("trailer", "closing")
    /\ UNCHANGED <<input, nread, frame_index, muxing, written, crashed>>

Close ==
    /\ Goto("closing", IF at = "V" THEN "trailer" ELSE "done")
    /\ at' = IF at = "V" THEN "A" ELSE at
    /\ UNCHANGED <<input, nread, frame_index, streams, header, ready, cur_dts, priv_pts,
                   packet_buffer, forced, written, crashed>>

-----------------------------------------------------------------------------
Init ==
    /\ job \in Jobs /\ file \in Files
    /\ fmt \in {[c \in Outputs |-> CASE c = "V" -> H264 [] c = "A" -> Adts [] OTHER -> o] :
                    o \in IF job = "remuxer" THEN Formats ELSE {Flv}}
    /\ pc = "open" /\ nread = 0 /\ frame_index = 0
    /\ streams = [c \in Outputs |-> <<>>]
    /\ header = [c \in Outputs |-> "none"] /\ ready = {}
    /\ cur_dts = [c \in Outputs |-> <<>>] /\ priv_pts = [c \in Outputs |-> <<>>]
    /\ packet_buffer = [c \in Outputs |-> <<>>]
    /\ at = "O" /\ forced = {}
    /\ written = [c \in Outputs |-> <<>>]
    /\ crashed = FALSE

Next == \/ OpenFails \/ NullContext \/ NotFound \/ NewStreams \/ WriteHeader
        \/ Skip \/ LateStream \/ CopyRaw \/ InvalidIndex \/ NoPrivPts \/ Submit
        \/ Interleave \/ Wait \/ EndOfInput \/ Trailer \/ TrailerEnds \/ Close

Spec == Init /\ [][Next]_vars

-----------------------------------------------------------------------------
(***************************************************************************)
(* Properties.                                                             *)
(***************************************************************************)
Routed(c) == {n \in 1 .. nread : /\ Wanted(file.pkts[n].st) /\ file.pkts[n].st <= file.probed
                                 /\ Output(file.pkts[n].st) = c}
InFile(c) == {written[c][k].n : k \in DOMAIN written[c]}
InBuffer(c) == {packet_buffer[c][k].n : k \in DOMAIN packet_buffer[c]}

\* The outputs that stay empty although packets are sent to them: what the
\* pusher reads from a file whose video is not its first stream, the video of
\* a file that has two for demuxer2, and a file whose header is refused late.
Unreached(c) ==
    \/ job = "pusher" /\ Index("video") # 1
    \/ job = "demuxer2" /\ c = "V" /\ Cardinality(Found("video")) > 1
    \/ /\ job = "remuxer" /\ fmt[c].deferred
       /\ \/ fmt[c].single /\ file.probed > 1
          \/ \E i \in 1 .. file.probed : file.streams[i].kind \notin fmt[c].kinds

\* Every packet sent to an output is in it once or waits for it, and none is
\* left when the job ends.  The one exception is a packet that an earlier one
\* of its stream overtakes: its time is before, or not after where the format
\* is strict, the time of the other.
Overtaken(c, n) ==
    \E k \in DOMAIN written[c] :
        LET w == written[c][k]
            t == Stamp(file.pkts[n], Cardinality({m \in Routed(c) : m < n}))
        IN  /\ fmt[c].timed /\ w.from = file.pkts[n].st /\ w.n < n
            /\ t # NoPts /\ (w.dts > t \/ (fmt[c].strict /\ w.dts = t))

CopiedOnce ==
    ~crashed /\ pc \notin {"open", "failed"} =>
        \A c \in Outputs :
            /\ Len(written[c]) = Cardinality(InFile(c))
            /\ InFile(c) \intersect InBuffer(c) = {} /\ InFile(c) \subseteq Routed(c)
            /\ pc = "done" /\ Unreached(c) => written[c] = <<>>
            /\ pc = "done" /\ ~Unreached(c) =>
                 \A n \in Routed(c) : n \in InFile(c) \/ Overtaken(c, n)

\* What was copied is in the order of time, unless a packet had to leave while
\* a stream had none waiting; the packets of one stream are in their order
\* even then.
InOrder ==
    \A c \in Outputs : \A j, k \in DOMAIN written[c] :
        j < k =>
          /\ written[c][j].st = written[c][k].st => written[c][j].n < written[c][k].n
          /\ job # "demuxer" /\ fmt[c].timed /\ c \notin forced =>
                Ticks(c, written[c][j]) <= Ticks(c, written[c][k])

\* The buffer is bounded by time, not by size: when the next packet is read,
\* those that wait span no more than MaxDelta (in a format that needs no times,
\* if those of the input do not go back), and some stream has none.  Both only
\* as long as the header is not refused: the packet that meets the refusal is
\* lost, and the job reads on without looking whether others could leave.
Steady(c) == \A n, m \in Routed(c) : n < m /\ file.pkts[n].st = file.pkts[m].st =>
                file.pkts[n].dts # NoPts /\ file.pkts[m].dts # NoPts
                /\ file.pkts[n].dts <= file.pkts[m].dts

BufferBounded ==
    pc = "read" /\ ~crashed =>
        \A c \in Outputs :
            packet_buffer[c] # <<>> /\ header[c] # "refused" /\ (fmt[c].timed \/ Steady(c)) =>
                /\ ~AllWait(c)
                /\ \A j, k \in DOMAIN packet_buffer[c] :
                      Ticks(c, packet_buffer[c][j]) - Ticks(c, packet_buffer[c][k]) <= MaxDelta

\* Packets are described by the header of the stream they come from, unless
\* demuxer2 reads a file with several audio streams: it copies the last one
\* under the header of the first.
OwnHeader ==
    \A c \in Outputs : job # "demuxer" =>
        \A k \in DOMAIN written[c] :
            \/ streams[c][written[c][k].st] = written[c][k].from
            \/ job = "demuxer2" /\ c = "A" /\ Cardinality(Found("audio")) > 1

\* The process is killed only by a third kind of stream in demuxer2, by a
\* stream that appears after the remuxer has made its own, and by an output
\* whose header was refused.
OnlyKnownCrashes ==
    crashed => \/ job = "demuxer2" /\ Found("other") # {}
               \/ job = "remuxer" /\ file.probed < Len(file.streams)
               \/ \E c \in Outputs : header[c] = "refused"
=============================================================================
