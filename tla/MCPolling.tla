------------------------------- MODULE MCPolling -----------------------------
(***************************************************************************)
(* Two tiles side by side for TLC.                                         *)
(***************************************************************************)
EXTENDS Polling

\* Offsets are not read in their order.
Backwards == [i \in Lines |-> IF i = 0 THEN 0 ELSE NSCAN - i]

\* A line of one tile, and the last line of both.
TwoDrawings == {<<{<<<<0, 0>>, 0>>}, 1>>,
                <<{<<<<x, 0>>, NSCAN - 1>> : x \in 0 .. Cols - 1}, 1>>}

\* The last line of both tiles is drawn in one colour and in the other.
BackAndForth == {<<{<<<<x, 0>>, NSCAN - 1>> : x \in 0 .. Cols - 1}, c>> : c \in Color}
=============================================================================
