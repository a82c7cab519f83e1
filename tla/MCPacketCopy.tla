--------------------------- MODULE MCPacketCopy ---------------------------
EXTENDS PacketCopy

S(kind, base) == [kind |-> kind, base |-> base]
V == S("video", 2)
A == S("audio", 3)
X == S("other", 2)

\* Streams and how many of them are found at first.
Layouts == {<< <<V, A>>, 2>>, << <<A, V>>, 2>>, << <<V, A>>, 1>>, << <<V>>, 1>>,
            << <<V, A, X>>, 3>>, << <<V, V, A>>, 3>>, << <<V, A, A>>, 3>>}

\* Packets of the video with times, with a decoding time only and without
\* times, and of the audio.
Timed(st, times) == [st : {st}, dts : times, timed : {TRUE}]
Pkts(st) == UNION {IF st[i].kind = "video"
                      THEN Timed(i, {0, 1, 4}) \union [st : {i}, dts : {1, NoPts}, timed : {FALSE}]
                      ELSE Timed(i, {0, 1, 3}) : i \in DOMAIN st}
Upto(S0, n) == UNION {[1 .. k -> S0] : k \in 0 .. n}

MCFiles == UNION {{[streams |-> l[1], probed |-> l[2], made |-> <<0, 0, 1, 2>>, pkts |-> p] :
                      p \in Upto(Pkts(l[1]), IF Len(l[1]) = 3 THEN 3 ELSE 4)} : l \in Layouts}

FlvFormat == [base |-> [k \in Kinds |-> 1], timed |-> TRUE, strict |-> FALSE,
              kinds |-> {"video", "audio"}, single |-> FALSE, deferred |-> FALSE]
\* A format that prepares its streams before its header, coarse and strict.
Mp4Format == [FlvFormat EXCEPT !.base = [k \in Kinds |-> IF k = "video" THEN 4 ELSE 3],
                               !.strict = TRUE, !.deferred = TRUE]
\* One that takes no sound: its header is refused when the first packet leaves.
VideoOnly == [Mp4Format EXCEPT !.kinds = {"video"}]
MCFormats == {FlvFormat, Mp4Format, VideoOnly}
=============================================================================
