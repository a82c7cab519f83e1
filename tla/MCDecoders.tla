----------------------------- MODULE MCDecoders -----------------------------
(* Every file of at most four packets for the decoding jobs.               *)
EXTENDS Decoders

UpTo4 == UNION {[1 .. k -> Kinds] : k \in 0 .. 4}

MCFrames == {0, 1, 2, 4}
MCDelays == 0 .. 2
=============================================================================
