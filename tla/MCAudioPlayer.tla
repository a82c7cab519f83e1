--------------------------- MODULE MCAudioPlayer ---------------------------
(* Small files for the audio player.                                       *)
EXTENDS AudioPlayer

\* Sound only; sound behind a picture stream; two audio streams; no sound.
Song    == [streams |-> <<"audio">>, pkts |-> <<1, 1, 1>>]
Film    == [streams |-> <<"video", "audio">>, pkts |-> <<1, 2, 1, 2>>]
TwoLang == [streams |-> <<"audio", "audio">>, pkts |-> <<1, 2, 1>>]
Mute    == [streams |-> <<"video">>, pkts |-> <<1, 1>>]

AllTracks == {Song, Film, TwoLang, Mute}
=============================================================================
