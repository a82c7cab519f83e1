--------------------------- MODULE MCMediaPlayer ---------------------------
(* Small containers for MediaPlayer. *)
EXTENDS MediaPlayer

Both    == {"video", "audio"}
V(t)    == [kind |-> "video", at |-> t, timed |-> TRUE]
A(t)    == [kind |-> "audio", at |-> t, timed |-> TRUE]
Other   == [kind |-> "other", at |-> 0, timed |-> TRUE]
Bare(p) == [p EXCEPT !.timed = FALSE]

\* AV_NOPTS_VALUE in the time base of each stream: either may be the lower.
VideoLow == [k \in Kinds |-> IF k = "video" THEN -9 ELSE -8]
AudioLow == [k \in Kinds |-> IF k = "video" THEN -8 ELSE -9]

Media(s, p, d, n) == [streams |-> s, pkts |-> p, delay |-> d, none |-> n]
File(p)           == Media(Both, p, 0, VideoLow)

\* In step, with a picture later than all sound, with reordered pictures,
\* containers with one kind of stream only, and containers in which packets
\* have no time: in the first a picture is labelled by such a packet, in the
\* second the clock is set back, below such a picture.
Plain    == {File(<<V(0), A(0), V(1), A(1)>>)}
\* The liveness run has the smallest container with sound before a picture.
Short    == {File(<<V(0), A(1), V(1)>>)}
Late     == {File(<<A(1), V(0), V(2)>>)}
Reorders == {Media(Both, <<V(0), A(3), V(2), V(1), V(3)>>, 1, VideoLow)}
OneKind  == {Media({"video"}, <<V(0)>>, 0, VideoLow), Media({"audio"}, <<A(0)>>, 0, VideoLow)}
Extra    == {File(<<Other, A(0), A(1), V(1)>>)}
Untimed  == {Media(Both, <<V(1), A(1), Bare(V(2)), V(3)>>, 1, VideoLow),
             Media(Both, <<A(1), Bare(A(2)), Bare(V(2))>>, 0, AudioLow)}
SafetyMedias == Plain \union Late \union Reorders \union OneKind \union Extra \union Untimed
=============================================================================
