------------------------------ MODULE MCUpdate ------------------------------
(***************************************************************************)
(* Small screens for TLC: a strip one pixel wide.                          *)
(***************************************************************************)
EXTENDS Update

Row(a, b) == {<<0, y>> : y \in a .. b}

\* Copies of one rectangle, down by one row, up by one row, up by two.
Down1 == [rects |-> <<Row(1, Height - 1)>>, shift |-> <<0, 1>>]
Up1   == [rects |-> <<Row(0, Height - 2)>>, shift |-> <<0, -1>>]
Up2   == [rects |-> <<Row(0, 0)>>, shift |-> <<0, -2>>]

MCRects  == {Row(0, 0), Row(0, Height - 1)}
MCCopies == {Down1, Up1} \cup (IF Height > 2 THEN {Up2} ELSE {})
MCShift  == {<<0, 0>>, <<0, 1>>, <<0, -1>>, <<0, -2>>}

NoCursor == [cp \in Cursors \X Positions |-> {}]
WholeScreen == {Pixel}

\* A cursor one pixel big whose rectangle extends to the pixel above.
SmallCursor == [cp \in Cursors \X Positions |->
                  Row(IF cp[2] = 0 THEN 0 ELSE cp[2] - 1, cp[2])]
SmallMask   == [cp \in Cursors \X Positions |-> Row(cp[2], cp[2])]
TwoRows     == {1, 2}
Progressive == {Row(0, 0), Row(1, Height - 1)}

MixedEncodings == {{"CopyRect"}, {"CopyRect", "RichCursor", "NewFBSize"}}
CopyRectOnly == {{"CopyRect"}}
=============================================================================
