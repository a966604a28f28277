------------------------------- MODULE Mirror -------------------------------
(***************************************************************************)
(* What the update engine promises to a viewer: whatever changes on its    *)
(* picture becomes what the framebuffer shows there at that moment, the    *)
(* cursor where the server has just drawn it, or nothing at all from a     *)
(* resize of the viewer until it asks for the screen again.                *)
(***************************************************************************)
CONSTANTS Pixel, Color, CursorPixel, Blank

VARIABLES
  fb,       \* the framebuffer without the cursor
  shown,    \* the pixels of it the cursor is drawn over
  view,     \* the viewer's picture
  resized   \* the viewer has yet to ask for the screen anew

Init ==
  /\ fb \in [Pixel -> Color]
  /\ shown = {}
  /\ view = [p \in Pixel |-> Blank]
  /\ resized = FALSE

\* The application changes the framebuffer or the cursor is drawn into it.
Draw ==
  /\ fb' \in [Pixel -> Color]
  /\ shown' \in SUBSET Pixel
  /\ UNCHANGED <<view, resized>>

\* A part of an update repaints some pixels; with the last one the cursor is
\* taken out again.
Refresh ==
  /\ view' \in [Pixel -> Color \cup {CursorPixel, Blank}]
  /\ \A p \in Pixel :
        \/ view'[p] \in {view[p], fb[p]}
        \/ view'[p] = CursorPixel /\ p \in shown
        \/ view'[p] = Blank /\ resized
  /\ shown' \in {shown, {}}
  /\ UNCHANGED <<fb, resized>>

\* The viewer allocates a picture of the new size ...
Resize ==
  /\ view' = [p \in Pixel |-> Blank]
  /\ resized' = TRUE
  /\ UNCHANGED <<fb, shown>>

\* ... and asks for all of it.
Ask ==
  /\ resized' = FALSE
  /\ UNCHANGED <<fb, shown, view>>

Next == Draw \/ Refresh \/ Resize \/ Ask

Spec == Init /\ [][Next]_<<fb, shown, view, resized>>
=============================================================================
