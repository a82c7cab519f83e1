------------------------------- MODULE Muxer -------------------------------
(***************************************************************************)
(* simple_ffmpeg_muxer: com_ring0_ffmpeg_FFmpegHelper.cpp, lines           *)
(* 2696-2861.  The video stream of one file and the audio stream of        *)
(* another are merged into one file: each round takes the next packet of   *)
(* the stream that is behind, measured by the time of its last packet.     *)
(*                                                                         *)
(* A file is whether it has a stream of the kind, the time base of that    *)
(* stream, in ticks, the duration in whole microseconds the code derives   *)
(* from its frame rate, and its packets: whether each belongs to the stream*)
(* and its pts, in units of the time base, or NoPts.  A tick is a part of  *)
(* a microsecond that makes every time base a whole number of them.  (An   *)
(* audio stream has no frame rate, r_frame_rate is 0/0 or 0/1; its duration*)
(* is what the conversion of a double that is no number or infinite gives, *)
(* so it stands for any integer.)                                          *)
(***************************************************************************)
EXTENDS Integers, Sequences, FiniteSets

CONSTANTS VideoFiles, AudioFiles,
          NoPts,     \* AV_NOPTS_VALUE
          Us,        \* ticks in a microsecond, of which AV_TIME_BASE are a second
          IntSpan    \* 2^32: current_pts_v and current_pts_a are of type int

Sides  == {"v", "a"}
Other  == [v |-> "a", a |-> "v"]
Packet == [own : BOOLEAN, pts : Int \union {NoPts}]
File   == [found : BOOLEAN, base : Nat \ {0}, dur : Int, pkts : Seq(Packet)]
Stamp  == [src : Sides, n : Nat, pts : Int]

ASSUME FilesAssumption == VideoFiles \subseteq File /\ AudioFiles \subseteq File
ASSUME NoPtsAssumption == NoPts \notin Int
ASSUME UsAssumption == Us \in Nat \ {0}
ASSUME IntSpanAssumption == IntSpan \in Nat \ {0}

VARIABLES
    file,         \* the two files; never changes
    pc,
    src,          \* the side this round reads from
    nread,        \* packets read from each file
    current_pts,  \* current_pts_v, current_pts_a
    frame_index,  \* packets stamped so far, of both sides
    stamp,        \* pPacket with its pts, before it is written
    written,      \* the packets handed to av_interleaved_write_frame
    crashed

vars == <<file, pc, src, nread, current_pts, frame_index, stamp, written, crashed>>

Pkt(s, n) == file[s].pkts[n]

Goto(from, to) == ~crashed /\ pc = from /\ pc' = to

(***************************************************************************)
(* Definitions named X_... are mutated forms of the definition X that      *)
(* follows them; nothing uses them.                                        *)
(***************************************************************************)
\* Conversion of an int64_t to int.
ToInt_Unsigned(x) == x % IntSpan
ToInt(x) == ((x + IntSpan \div 2) % IntSpan) - IntSpan \div 2

\* A file cannot be opened or probed: plain return.
OpenFails ==
    /\ Goto("open", "failed")
    /\ UNCHANGED <<file, src, nread, current_pts, frame_index, stamp, written, crashed>>

Open ==
    /\ Goto("open", "choose")
    /\ UNCHANGED <<file, src, nread, current_pts, frame_index, stamp, written, crashed>>

\* av_compare_ts(current_pts_v, ..., current_pts_a, ...) <= 0
VideoBehind_NoBase  == current_pts["v"] <= current_pts["a"]
VideoBehind_Swapped == current_pts["v"] * file["v"].base >= current_pts["a"] * file["a"].base
VideoBehind == current_pts["v"] * file["v"].base <= current_pts["a"] * file["a"].base

\* A stream that was not found has index -1 into the array of streams, whose
\* element before the first is followed as a pointer.
ChooseMissing ==
    /\ \E s \in Sides : ~file[s].found
    /\ Goto("choose", "choose") /\ crashed' = TRUE
    /\ UNCHANGED <<file, src, nread, current_pts, frame_index, stamp, written>>

Choose ==
    /\ \A s \in Sides : file[s].found
    /\ Goto("choose", "read")
    /\ src' = IF VideoBehind THEN "v" ELSE "a"
    /\ UNCHANGED <<file, nread, current_pts, frame_index, stamp, written, crashed>>

\* A packet of another stream; it is not freed.
Skip ==
    LET n == nread[src] + 1 IN
    /\ n \in DOMAIN file[src].pkts /\ ~Pkt(src, n).own
    /\ Goto("read", "read")
    /\ nread' = [nread EXCEPT ![src] = n]
    /\ UNCHANGED <<file, src, current_pts, frame_index, stamp, written, crashed>>

\* What (int64_t)((double)x / (double)y) may be: the quotient without its
\* fraction, and just below it where the division comes out even, as y is a
\* rounded product of rounded doubles.
Truncated(x, y) ==
    LET size  == IF x < 0 THEN -x ELSE x
        whole == size \div y
        sizes == {whole} \union {w \in {whole - 1} : size % y = 0 /\ w >= 0}
    IN  IF x < 0 THEN {-w : w \in sizes} ELSE sizes

\* The times that may be made up on side s for the packet that is number k of
\* those without a time: k frames, in units of the time base.
MadeUp(s, k) == Truncated(k * (file[s].dur * Us), file[s].base)

\* A packet of the stream: it gets a pts if it has none.
Take_NoCount ==
    LET n == nread[src] + 1
        p == Pkt(src, n).pts
    IN
    /\ n \in DOMAIN file[src].pkts /\ Pkt(src, n).own
    /\ Goto("read", "write")
    /\ nread' = [nread EXCEPT ![src] = n]
    /\ \E t \in IF p = NoPts THEN MadeUp(src, frame_index) ELSE {p} :
          stamp' = [src |-> src, n |-> n, pts |-> t]
    /\ current_pts' = [current_pts EXCEPT ![src] = ToInt(stamp'.pts)]
    /\ UNCHANGED <<file, src, frame_index, written, crashed>>

Take_Foreign ==
    LET n == nread[src] + 1
        p == Pkt(src, n).pts
    IN
    /\ n \in DOMAIN file[src].pkts
    /\ Goto("read", "write")
    /\ nread' = [nread EXCEPT ![src] = n]
    /\ \E t \in IF p = NoPts THEN MadeUp(src, frame_index) ELSE {p} :
          stamp' = [src |-> src, n |-> n, pts |-> t]
    /\ frame_index' = frame_index + (IF p = NoPts THEN 1 ELSE 0)
    /\ current_pts' = [current_pts EXCEPT ![src] = ToInt(stamp'.pts)]
    /\ UNCHANGED <<file, src, written, crashed>>

Take ==
    LET n == nread[src] + 1
        p == Pkt(src, n).pts
    IN
    /\ n \in DOMAIN file[src].pkts /\ Pkt(src, n).own
    /\ Goto("read", "write")
    /\ nread' = [nread EXCEPT ![src] = n]
    /\ \E t \in IF p = NoPts THEN MadeUp(src, frame_index) ELSE {p} :
          stamp' = [src |-> src, n |-> n, pts |-> t]
    /\ frame_index' = frame_index + (IF p = NoPts THEN 1 ELSE 0)
    /\ current_pts' = [current_pts EXCEPT ![src] = ToInt(stamp'.pts)]
    /\ UNCHANGED <<file, src, written, crashed>>

\* Its bitstream filters, its time in the output's time base, and out.
Write ==
    /\ Goto("write", "choose")
    /\ written' = Append(written, stamp)
    /\ UNCHANGED <<file, src, nread, current_pts, frame_index, stamp, crashed>>

\* The chosen file is at its end: trailer and return.
Finish_Never ==
    /\ nread[src] = Len(file[src].pkts)
    /\ Goto("read", "choose")
    /\ UNCHANGED <<file, src, nread, current_pts, frame_index, stamp, written, crashed>>

Finish ==
    /\ nread[src] = Len(file[src].pkts)
    /\ Goto("read", "done")
    /\ UNCHANGED <<file, src, nread, current_pts, frame_index, stamp, written, crashed>>

-----------------------------------------------------------------------------
Init ==
    /\ file \in {[v |-> v, a |-> a] : v \in VideoFiles, a \in AudioFiles}
    /\ pc = "open" /\ src = "v"
    /\ nread = [s \in Sides |-> 0]
    /\ current_pts = [s \in Sides |-> 0]
    /\ frame_index = 0
    /\ stamp = [src |-> "v", n |-> 0, pts |-> 0]
    /\ written = <<>>
    /\ crashed = FALSE

Next == \/ OpenFails \/ Open \/ ChooseMissing \/ Choose \/ Skip \/ Take \/ Write
        \/ Finish

Spec == Init /\ [][Next]_vars

\* A sequential program: it goes on while it can.
FairSpec == Spec /\ WF_vars(Next)

-----------------------------------------------------------------------------
(***************************************************************************)
(* Properties.  They speak of the times of packets in ticks.               *)
(***************************************************************************)
Ticks(x) == x.pts * file[x.src].base
Own(s, k) == {n \in 1 .. k : Pkt(s, n).own}
Written(s) == {written[i].n : i \in {j \in DOMAIN written : written[j].src = s}}

TypeOK ==
    /\ file["v"] \in VideoFiles /\ file["a"] \in AudioFiles
    /\ pc \in {"open", "failed", "choose", "read", "write", "done"}
    /\ src \in Sides /\ nread \in [Sides -> Nat]
    /\ \A s \in Sides : nread[s] \in 0 .. Len(file[s].pkts)
    /\ current_pts \in [Sides -> -(IntSpan \div 2) .. IntSpan \div 2]
    /\ frame_index \in Nat
    /\ stamp \in Stamp /\ written \in Seq(Stamp)
    /\ crashed \in BOOLEAN

\* Each stream is copied in its own order, from its beginning, without gaps
\* and without the packets of the other streams of its file.
CopiedInOrder ==
    \A s \in Sides :
        /\ Written(s) = Own(s, nread[s]) \ (IF pc = "write" /\ src = s THEN {nread[s]} ELSE {})
        /\ \A i, j \in DOMAIN written :
              written[i].src = s /\ written[j].src = s /\ i < j => written[i].n < written[j].n

\* The precondition of the next two: all times are given, they do not go
\* back, and they fit into an int.
Timed(s) ==
    LET pts(n) == Pkt(s, n).pts
        own    == Own(s, Len(file[s].pkts))
    IN  /\ \A n \in own : pts(n) # NoPts
        /\ \A n \in own : pts(n) >= 0 /\ ToInt(pts(n)) = pts(n)
        /\ \A n, m \in own : n < m => pts(n) <= pts(m)

\* The streams are interleaved by time: when a packet is written, every packet
\* of the other stream that is still to come is at least as late as its
\* predecessor.
Interleaved ==
    (\A s \in Sides : Timed(s)) =>
        \A i, k, j \in DOMAIN written :
            /\ i < k /\ k < j
            /\ written[i].src = written[k].src /\ written[k].src # written[j].src
            => Ticks(written[i]) <= Ticks(written[j])

\* The merge stops at the end of one file, of which nothing is left out, and
\* what it leaves out of the other is not earlier than the last packet of the
\* file that ended.
OnlyTailLost ==
    pc = "done" =>
        LET other == Other[src]
            left  == Own(other, Len(file[other].pkts)) \ Written(other)
        IN  /\ Written(src) = Own(src, Len(file[src].pkts))
            /\ (\A s \in Sides : Timed(s)) =>
                   \A i \in DOMAIN written : written[i].src = src =>
                       \A n \in left :
                           Ticks(written[i]) <= Pkt(other, n).pts * file[other].base

\* A raw stream is stamped with times that never go back, although both streams
\* share frame_index and the quotient is truncated.  Packets share a time only
\* where a frame is no longer than a unit of the time base.  Alone on the
\* counter, the stream is stamped frame after frame.
Raw(s) == \A n \in Own(s, Len(file[s].pkts)) : Pkt(s, n).pts = NoPts
LongFrames(s) == file[s].dur * Us > file[s].base
RawStampsRise ==
    \A s \in Sides : Raw(s) /\ file[s].dur > 0 =>
        /\ \A i, j \in DOMAIN written :
              written[i].src = s /\ written[j].src = s /\ i < j =>
                  /\ written[i].pts <= written[j].pts
                  /\ LongFrames(s) => written[i].pts < written[j].pts
        /\ Timed(Other[s]) => \A i \in DOMAIN written : written[i].src = s =>
              written[i].pts \in
                  MadeUp(s, Cardinality({n \in Own(s, Len(file[s].pkts)) : n < written[i].n}))

\* The merge ends, whatever the times are.
Ends == <>(crashed \/ pc \in {"failed", "done"})
=============================================================================
