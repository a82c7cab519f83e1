------------------------------ MODULE MCMuxer ------------------------------
(* Every pair of small files for the muxer.  IntSpan is 16, an int holds   *)
(* -8 .. 7, so a time of 9 does not fit.  A microsecond has two ticks: the *)
(* frames of the video, one microsecond, are longer than a unit of the time*)
(* base of one tick and shorter than one of three.                         *)
EXTENDS Muxer

Pkts(times) == {[own |-> FALSE, pts |-> 0]} \union [own : {TRUE}, pts : times]
UpTo(n, S)  == UNION {[1 .. k -> S] : k \in 0 .. n}

Files(bases, durs, n, times) ==
    [found : {TRUE}, base : bases, dur : durs, pkts : UpTo(n, Pkts(times))]
Missing == [found |-> FALSE, base |-> 1, dur |-> 1, pkts |-> <<>>]

Video == {Missing} \union Files({1, 3}, {1}, 3, {NoPts, 0, 3, 9})
Audio == {Missing} \union Files({2}, {0, 5}, 2, {NoPts, 2, 4})
=============================================================================
