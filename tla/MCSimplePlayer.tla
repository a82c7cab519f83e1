--------------------------- MODULE MCSimplePlayer ---------------------------
(* Small clips for SimplePlayer. *)
EXTENDS SimplePlayer

Clip(w, h, times) == [size |-> [w |-> w, h |-> h], pts |-> times]

\* Two sizes that differ in one direction only, and reordered pictures.
Mixed == {Clip(1, 2, <<1, 0>>), Clip(2, 2, <<0>>)}
One   == {Clip(1, 1, <<0, 2, 1>>)}
=============================================================================
