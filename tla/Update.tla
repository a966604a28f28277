------------------------------- MODULE Update -------------------------------
(***************************************************************************)
(* The framebuffer update engine of libvncserver, seen by one client: how  *)
(* drawing, copies of parts of the screen, client requests and changes of  *)
(* encodings turn into the regions of rfbClientRec (modifiedRegion,        *)
(* copyRegion with copyDX/copyDY, requestedRegion), and what the updates   *)
(* computed from them make the viewer show.  Other clients have regions of *)
(* their own and share only the framebuffer.                               *)
(*                                                                         *)
(* "viewer" is what the client displays once it has handled every byte     *)
(* written to it so far.  Actors: the application that draws (x11vnc), the *)
(* code that reads client messages and the code that sends updates.  With  *)
(* Threaded = FALSE one thread runs rfbProcessEvents and the application   *)
(* in turn; with TRUE each actor is a thread (-threads), and what it does  *)
(* under a mutex or with one read or write of a flag is a step below.      *)
(* With threads the module is about a server that draws no cursor: drawn   *)
(* into the framebuffer with rfbShowCursor and out with rfbHideCursor, it  *)
(* would overwrite what the application draws in between, and clients      *)
(* would keep the images of it that a SetEncodings message in the reading  *)
(* makes rfbShowCursor draw (-nocursor of x11vnc has no cursor).           *)
(***************************************************************************)
EXTENDS Integers, Sequences

CONSTANTS
  Width, Height,      \* size of the framebuffer
  Color,              \* contents of a pixel of the framebuffer
  CursorPixel,        \* a pixel showing the image of the cursor
  Blank,              \* a pixel of a viewer that has just been resized
  Rects,              \* rectangles an application draws or a client requests
  Copies,             \* copies: the rectangles in the order they are moved,
                      \* and the displacement (dx, dy)
  Shift,              \* the displacements that occur
  Cursors, Positions, \* cursor shapes and pointer positions
  CursorRect,         \* the rectangle of a shape at a position, clipped
  CursorMask,         \* the pixels of that rectangle the shape covers
  Encodings,          \* the SetEncodings messages a client may send
  Slices,             \* the slices of -progressive, or just the screen
  MergeRects,         \* whether screen->maxRectsPerUpdate may be exceeded
  Threaded            \* -threads

Pixel == (0 .. Width - 1) \X (0 .. Height - 1)

\* Where the copy by d that writes p reads: a displacement of a region.
Src(p, d) == <<p[1] - d[1], p[2] - d[2]>>

NoShift == <<0, 0>>

ASSUME SizeAssumption == Width \in Nat /\ Height \in Nat

ASSUME ColorAssumption ==
  /\ CursorPixel \notin Color
  /\ Blank \notin Color \cup {CursorPixel}

ASSUME RegionAssumption ==
  /\ Rects \subseteq SUBSET Pixel
  /\ Pixel \in Rects
  /\ Slices \subseteq SUBSET Pixel
  /\ NoShift \in Shift

\* An application copies only from inside the screen.
ASSUME CopyAssumption ==
  \A c \in Copies : /\ c \in [rects : Seq(SUBSET Pixel), shift : Shift]
                    /\ \A i \in 1 .. Len(c.rects) : \A p \in c.rects[i] :
                          Src(p, c.shift) \in Pixel

ASSUME CursorAssumption ==
  /\ CursorRect \in [Cursors \X Positions -> SUBSET Pixel]
  /\ CursorMask \in [Cursors \X Positions -> SUBSET Pixel]
  /\ \A cp \in Cursors \X Positions : CursorMask[cp] \subseteq CursorRect[cp]

ASSUME ModeAssumption ==
  /\ Encodings \subseteq SUBSET {"CopyRect", "RichCursor", "NewFBSize"}
  /\ Threaded \in BOOLEAN
  /\ MergeRects \in BOOLEAN

\* Threads come without a cursor that the server draws (screen->cursor NULL).
ASSUME ThreadsAssumption ==
  Threaded => \A cp \in Cursors \X Positions : CursorRect[cp] = {}

VARIABLES
  frameBuffer,              \* screen->frameBuffer
  viewer,                   \* what the viewer shows
  resized,                  \* the viewer has yet to re-request the screen
  modifiedRegion, copyRegion, copyShift, requestedRegion,
  useCopyRect, enableCursorShapeUpdates, useNewFBSize,
  newFBSizePending, cursorWasChanged,
  unread,                   \* the encodings of a SetEncodings message to read
  cursor,                   \* screen->cursor
  screenCursor,             \* screen->cursorX, cursorY
  clientCursor,             \* cl->cursorX, cursorY: where it was last drawn
  app,                      \* what the application is in the middle of
  job,                      \* the rectangles it draws or copies
  next,                     \* the next rectangle of a copy
  before,                   \* auxiliary: frameBuffer when the copy began
  output,                   \* phase of the sender
  plan                      \* the update it is sending

fbVars      == <<frameBuffer, before>>
viewerVars  == <<viewer, resized>>
regionVars  == <<modifiedRegion, copyRegion, copyShift, requestedRegion>>
encVars     == <<useCopyRect, enableCursorShapeUpdates, useNewFBSize>>
flagVars    == <<newFBSizePending, cursorWasChanged>>
cursorVars  == <<cursor, screenCursor, clientCursor>>
appVars     == <<app, job, next>>
outVars     == <<output, plan>>
vars == <<fbVars, viewerVars, regionVars, encVars, flagVars, unread,
          cursorVars, appVars, outVars>>

NoJob  == [rects |-> << >>, shift |-> NoShift]
NoPlan == [given |-> {}, shape |-> FALSE, raw |-> {}, copy |-> {},
           shift |-> NoShift, drawn |-> {}]

Job  == [rects : Seq(SUBSET Pixel), shift : Shift]
Plan == [given : SUBSET Pixel, shape : BOOLEAN, raw : SUBSET Pixel,
         copy : SUBSET Pixel, shift : Shift, drawn : SUBSET Pixel]

\* A client that has just completed the handshake (rfbNewTCPOrUDPClient).
Init ==
  /\ frameBuffer \in [Pixel -> Color]
  /\ before = frameBuffer
  /\ viewer = [p \in Pixel |-> Blank]
  /\ resized = FALSE
  /\ modifiedRegion = Pixel
  /\ copyRegion = {}
  /\ copyShift = NoShift
  /\ requestedRegion = {}
  /\ useCopyRect = FALSE
  /\ enableCursorShapeUpdates = FALSE
  /\ useNewFBSize = FALSE
  /\ newFBSizePending = FALSE
  /\ cursorWasChanged = FALSE
  /\ unread = {}
  /\ cursor \in Cursors
  /\ screenCursor \in Positions
  /\ clientCursor = screenCursor
  /\ app = "idle" /\ job = NoJob /\ next = 1
  /\ output = "idle" /\ plan = NoPlan

(***************************************************************************)
(* Region arithmetic (sraRgnOffset followed by sraRgnAnd, sraRgnBBox).     *)
(***************************************************************************)
Displaced(S, d) == {p \in Pixel : Src(p, d) \in S}

Sources(S, d) == {Src(p, d) : p \in S}

BBox(S) == {p \in Pixel : /\ \E a, b \in S : a[1] <= p[1] /\ p[1] <= b[1]
                          /\ \E a, b \in S : a[2] <= p[2] /\ p[2] <= b[2]}

DrawnCursor == CursorRect[<<cursor, clientCursor>>]

(***************************************************************************)
(* Whose turn it is.  One thread finishes what it is doing; threads do not *)
(* wait for each other between the steps below.                            *)
(***************************************************************************)
AppFree     == app = "idle" /\ (Threaded \/ (output = "idle" /\ unread = {}))
ClientTurn  == unread = {} /\ (Threaded \/ (app = "idle" /\ output = "idle"))
OutputTurn  == output = "idle" /\ (Threaded \/ (app = "idle" /\ unread = {}))
PointerTurn == Threaded \/ (app = "idle" /\ output = "idle" /\ unread = {})

(***************************************************************************)
(* The application.                                                        *)
(***************************************************************************)
\* New contents reach the framebuffer (x11vnc's copy_tiles) ...
Draw(r) ==
  /\ AppFree
  /\ \E f \in [r -> Color] :
       frameBuffer' = [p \in Pixel |-> IF p \in r THEN f[p] ELSE frameBuffer[p]]
  /\ before' = frameBuffer'
  /\ app' = "drawing"
  /\ job' = [rects |-> <<r>>, shift |-> NoShift]
  /\ UNCHANGED <<viewerVars, regionVars, encVars, flagVars, unread, cursorVars,
                 next, outVars>>

\* ... and are announced by rfbMarkRectAsModified.
MarkRegionAsModified ==
  /\ app = "drawing"
  /\ modifiedRegion' = modifiedRegion \cup job.rects[1]
  /\ app' = "idle" /\ job' = NoJob
  /\ UNCHANGED <<fbVars, viewerVars, copyRegion, copyShift, requestedRegion,
                 encVars, flagVars, unread, cursorVars, next, outVars>>

\* rfbDoCopyRegion: a memmove per rectangle, then rfbScheduleCopyRegion.
BeginCopyRegion(c) ==
  /\ AppFree
  /\ app' = "copying" /\ job' = c /\ next' = 1
  /\ UNCHANGED <<fbVars, viewerVars, regionVars, encVars, flagVars, unread,
                 cursorVars, outVars>>

CopyOneRect ==
  /\ app = "copying"
  /\ next <= Len(job.rects)
  /\ frameBuffer' = [p \in Pixel |->
                       IF p \in job.rects[next] THEN frameBuffer[Src(p, job.shift)]
                       ELSE frameBuffer[p]]
  /\ next' = next + 1
  /\ UNCHANGED <<before, viewerVars, regionVars, encVars, flagVars, unread,
                 cursorVars, app, job, outVars>>

JobRegion == UNION {job.rects[i] : i \in 1 .. Len(job.rects)}

OldCopy == IF copyShift # job.shift THEN {} ELSE copyRegion

\* Mutant of Superseded: the pending copy is moved along with the new one.
SupersededMoved ==
  IF copyShift # job.shift THEN Sources(copyRegion, job.shift)
  ELSE Sources(JobRegion, job.shift) \cap copyRegion

\* A copy not yet executed is treated as modified if the new one has another
\* displacement, and where it is the source of the new one otherwise.
Superseded ==
  IF copyShift # job.shift THEN copyRegion
  ELSE Sources(JobRegion, job.shift) \cap copyRegion

\* Mutant of SoftCursor: the copy takes a drawn cursor along.
SoftCursorCopied == {}

\* What rfbShowCursor draws over may be anywhere in this rectangle.
SoftCursor == IF enableCursorShapeUpdates THEN {} ELSE DrawnCursor

ScheduleCopyRegion ==
  /\ app = "copying"
  /\ next > Len(job.rects)
  /\ IF useCopyRect
     THEN LET C == OldCopy \cup JobRegion
              M == modifiedRegion \cup Superseded
          IN /\ copyRegion' = C
             /\ copyShift' = job.shift
             /\ modifiedRegion' = M \cup (C \cap (Displaced(M, job.shift)
                                           \cup SoftCursor
                                           \cup Displaced(SoftCursor, job.shift)))
     ELSE /\ modifiedRegion' = modifiedRegion \cup JobRegion
          /\ UNCHANGED <<copyRegion, copyShift>>
  /\ app' = "idle" /\ job' = NoJob /\ next' = 1
  /\ before' = frameBuffer
  /\ UNCHANGED <<frameBuffer, viewerVars, requestedRegion, encVars, flagVars,
                 unread, cursorVars, outVars>>

\* rfbNewFramebuffer; the new framebuffer keeps its size in this model.  With
\* threads do_new_fb (not install_fake_fb) also prepares all clients before it
\* lets them send again.
NewFramebuffer ==
  /\ AppFree
  /\ output \in {"idle", "due", "given"}      \* lock_client_sends
  /\ frameBuffer' \in [Pixel -> Color]
  /\ before' = frameBuffer'
  /\ modifiedRegion' = Pixel
  /\ copyRegion' = {} /\ copyShift' = NoShift
  /\ \E prepared \in {FALSE, Threaded} :
       /\ newFBSizePending' = (newFBSizePending \/ useNewFBSize \/ prepared)
       /\ cursorWasChanged' = (cursorWasChanged /\ ~prepared)
  /\ UNCHANGED <<viewerVars, requestedRegion, encVars, unread, cursorVars,
                 appVars, outVars>>

\* x11vnc's changePixelSize: every client is told, able to resize or not.
ChangePixelSize ==
  /\ AppFree
  /\ newFBSizePending' = TRUE
  /\ modifiedRegion' = Pixel
  /\ UNCHANGED <<fbVars, viewerVars, copyRegion, copyShift, requestedRegion,
                 encVars, cursorWasChanged, unread, cursorVars, appVars,
                 outVars>>

\* rfbSetCursor: where a server-drawn cursor was and will be is redrawn.
SetCursor(c) ==
  /\ AppFree
  /\ cursor' = c
  /\ cursorWasChanged' = TRUE
  /\ modifiedRegion' =
       IF enableCursorShapeUpdates THEN modifiedRegion
       ELSE modifiedRegion \cup DrawnCursor \cup CursorRect[<<c, clientCursor>>]
  /\ UNCHANGED <<fbVars, viewerVars, copyRegion, copyShift, requestedRegion,
                 encVars, newFBSizePending, unread, screenCursor,
                 clientCursor, appVars, outVars>>

\* The pointer moves, by a client (rfbDefaultPtrAddEvent) or on the display.
MoveCursor(pos) ==
  /\ PointerTurn
  /\ pos # screenCursor
  /\ screenCursor' = pos
  /\ UNCHANGED <<fbVars, viewerVars, regionVars, encVars, flagVars, unread,
                 cursor, clientCursor, appVars, outVars>>

(***************************************************************************)
(* Client messages (rfbProcessClientNormalMessage).                        *)
(***************************************************************************)
\* Every flag is reset, without a mutex ...
SetEncodings(e) ==
  /\ ClientTurn
  /\ useCopyRect' = FALSE /\ enableCursorShapeUpdates' = FALSE
  /\ useNewFBSize' = FALSE /\ cursorWasChanged' = FALSE
  /\ unread' = e
  /\ UNCHANGED <<fbVars, viewerVars, regionVars, newFBSizePending, cursorVars,
                 appVars, outVars>>

\* ... and set again as the list is read, each time after an rfbReadExact that
\* may wait for the client.  Switching cursor shape updates on removes a
\* server-drawn cursor; the reset makes that happen whenever they are listed.
ReadEncoding(enc) ==
  /\ enc \in unread
  /\ unread' = unread \ {enc}
  /\ useCopyRect' = (useCopyRect \/ enc = "CopyRect")
  /\ useNewFBSize' = (useNewFBSize \/ enc = "NewFBSize")
  /\ enableCursorShapeUpdates' = (enableCursorShapeUpdates \/ enc = "RichCursor")
  /\ cursorWasChanged' = (cursorWasChanged \/ enc = "RichCursor")
  /\ modifiedRegion' = IF enc = "RichCursor" /\ ~enableCursorShapeUpdates
                       THEN modifiedRegion \cup DrawnCursor
                       ELSE modifiedRegion
  /\ UNCHANGED <<fbVars, viewerVars, copyRegion, copyShift, requestedRegion,
                 newFBSizePending, cursorVars, appVars, outVars>>

\* A viewer told a new size asks for the whole screen, not incrementally
\* (libvncclient's HandleRFBServerMessage).
FramebufferUpdateRequest(r, incremental) ==
  /\ ClientTurn
  /\ requestedRegion' = requestedRegion \cup r
  /\ modifiedRegion' = IF incremental THEN modifiedRegion ELSE modifiedRegion \cup r
  /\ copyRegion' = IF incremental THEN copyRegion ELSE copyRegion \ r
  /\ resized' = (resized /\ ~(r = Pixel /\ ~incremental))
  /\ UNCHANGED <<fbVars, viewer, copyShift, encVars, flagVars, unread,
                 cursorVars, appVars, outVars>>

(***************************************************************************)
(* Sending (clientOutput or rfbProcessEvents, rfbSendFramebufferUpdate).   *)
(***************************************************************************)
\* Mutant of UpdatePending: a copy alone does not count.
UpdatePendingNoCopy ==
  \/ enableCursorShapeUpdates /\ cursorWasChanged
  \/ ~enableCursorShapeUpdates /\ clientCursor # screenCursor
  \/ useNewFBSize /\ newFBSizePending
  \/ modifiedRegion # {}

\* FB_UPDATE_PENDING
UpdatePending ==
  \/ enableCursorShapeUpdates /\ cursorWasChanged
  \/ ~enableCursorShapeUpdates /\ clientCursor # screenCursor
  \/ useNewFBSize /\ newFBSizePending
  \/ copyRegion # {}
  \/ modifiedRegion # {}

FindUpdate ==
  /\ OutputTurn
  /\ requestedRegion # {}
  /\ UpdatePending
  /\ output' = "due"
  /\ UNCHANGED <<fbVars, viewerVars, regionVars, encVars, flagVars, unread,
                 cursorVars, appVars, plan>>

\* clientOutput takes modifiedRegion a deferUpdateTime later.
TakeUpdate ==
  /\ output = "due"
  /\ output' = "given"
  /\ plan' = [NoPlan EXCEPT !.given = modifiedRegion]
  /\ UNCHANGED <<fbVars, viewerVars, regionVars, encVars, flagVars, unread,
                 cursorVars, appVars>>

\* Only the NewFBSize marker is sent; the viewer allocates a new image.
SendNewFBSize ==
  /\ output = "given"
  /\ useNewFBSize /\ newFBSizePending
  /\ newFBSizePending' = FALSE
  /\ viewer' = [p \in Pixel |-> Blank]
  /\ resized' = TRUE
  /\ output' = "idle" /\ plan' = NoPlan
  /\ UNCHANGED <<fbVars, regionVars, encVars, cursorWasChanged, unread,
                 cursorVars, appVars>>

\* Whether the shape of the cursor goes with the update.
BeginUpdate ==
  /\ output = "given"
  /\ ~(useNewFBSize /\ newFBSizePending)
  /\ plan' = [plan EXCEPT !.shape = enableCursorShapeUpdates /\ cursorWasChanged]
  /\ output' = "begun"
  /\ UNCHANGED <<fbVars, viewerVars, regionVars, encVars, flagVars, unread,
                 cursorVars, appVars>>

RemainingCopy == copyRegion \ modifiedRegion

Wanted(slice) == ((plan.given \cap slice) \cup RemainingCopy) \cap requestedRegion

CursorIsUp == enableCursorShapeUpdates \/ clientCursor = screenCursor

NothingToSend(slice) ==
  /\ output = "begun"
  /\ Wanted(slice) = {} /\ CursorIsUp /\ ~plan.shape
  /\ copyRegion' = RemainingCopy
  /\ output' = "idle" /\ plan' = NoPlan
  /\ UNCHANGED <<fbVars, viewerVars, modifiedRegion, copyShift, requestedRegion,
                 encVars, flagVars, unread, cursorVars, appVars>>

\* The part of the copy whose source and destination were both requested.
UpdateCopyRegion ==
  RemainingCopy \cap requestedRegion \cap Displaced(requestedRegion, copyShift)

UpdateRegion(slice) == Wanted(slice) \ UpdateCopyRegion

\* What stays in modifiedRegion: the rest, and what has been marked meanwhile.
Unsent(slice) ==
  (modifiedRegion \cup RemainingCopy) \ (UpdateRegion(slice) \cup UpdateCopyRegion)

\* Under updateMutex the regions are divided into what is sent and what stays.
PlanUpdate(slice) ==
  /\ output = "begun"
  /\ Wanted(slice) # {} \/ ~CursorIsUp \/ plan.shape
  /\ plan' = [plan EXCEPT !.given = {}, !.raw = UpdateRegion(slice),
                          !.copy = UpdateCopyRegion, !.shift = copyShift]
  /\ modifiedRegion' = Unsent(slice)
  /\ requestedRegion' = {}
  /\ copyRegion' = {} /\ copyShift' = NoShift
  /\ output' = "planned"
  /\ UNCHANGED <<fbVars, viewerVars, encVars, flagVars, unread, cursorVars,
                 appVars>>

\* Mutant of CursorRedraw: only the new place is redrawn.
CursorRedrawNew ==
  IF CursorIsUp THEN {} ELSE CursorRect[<<cursor, screenCursor>>]

\* A server-drawn cursor that has moved is redrawn at both places.
CursorRedraw ==
  IF CursorIsUp THEN {}
  ELSE DrawnCursor \cup CursorRect[<<cursor, screenCursor>>]

\* rfbShowCursor
CursorShown ==
  IF enableCursorShapeUpdates THEN {} ELSE CursorMask[<<cursor, screenCursor>>]

\* The cursor is put up for a client without shapes, and too many rectangles
\* become the one around them.
ShowCursor ==
  /\ output = "planned"
  /\ LET raw == plan.raw \cup CursorRedraw
     IN \E sent \in {raw} \cup (IF MergeRects THEN {BBox(raw)} ELSE {}) :
          plan' = [plan EXCEPT !.raw = sent, !.drawn = CursorShown]
  /\ clientCursor' = IF enableCursorShapeUpdates THEN clientCursor ELSE screenCursor
  /\ output' = "shown"
  /\ UNCHANGED <<fbVars, viewerVars, regionVars, encVars, flagVars, unread,
                 cursor, screenCursor, appVars>>

\* The shape and the rectangles of the copy go first ...
SendCopies ==
  /\ output = "shown"
  /\ viewer' = [p \in Pixel |-> IF p \in plan.copy THEN viewer[Src(p, plan.shift)]
                                ELSE viewer[p]]
  /\ cursorWasChanged' = (cursorWasChanged /\ ~plan.shape)
  /\ plan' = [plan EXCEPT !.copy = {}]
  /\ output' = "copied"
  /\ UNCHANGED <<fbVars, resized, regionVars, encVars, newFBSizePending, unread,
                 cursorVars, appVars>>

\* A pixel as it is read while rfbShowCursor has the cursor in the framebuffer.
WithCursor(p) == IF p \in plan.drawn THEN CursorPixel ELSE frameBuffer[p]

\* What is read at a time: with threads others run between two pixels.
Parts == IF Threaded THEN SUBSET plan.raw ELSE {plan.raw}

\* ... then the others, each read from the framebuffer as it is at the time.
SendRectangles ==
  /\ output = "copied"
  /\ \E part \in Parts :
       /\ viewer' = [p \in Pixel |-> IF p \in part THEN WithCursor(p) ELSE viewer[p]]
       /\ IF part = plan.raw
          THEN output' = "idle" /\ plan' = NoPlan
          ELSE output' = output /\ plan' = [plan EXCEPT !.raw = @ \ part]
  /\ UNCHANGED <<fbVars, resized, regionVars, encVars, flagVars, unread,
                 cursorVars, appVars>>

Application ==
  \/ \E r \in Rects : Draw(r)
  \/ MarkRegionAsModified
  \/ \E c \in Copies : BeginCopyRegion(c)
  \/ CopyOneRect
  \/ ScheduleCopyRegion
  \/ NewFramebuffer
  \/ ChangePixelSize
  \/ \E c \in Cursors : SetCursor(c)
  \/ \E pos \in Positions : MoveCursor(pos)

ClientMessage ==
  \/ \E e \in Encodings : SetEncodings(e)
  \/ \E enc \in unread : ReadEncoding(enc)
  \/ \E r \in Rects, i \in BOOLEAN : FramebufferUpdateRequest(r, i)

Sender ==
  \/ FindUpdate
  \/ TakeUpdate
  \/ SendNewFBSize
  \/ BeginUpdate
  \/ \E s \in Slices : NothingToSend(s) \/ PlanUpdate(s)
  \/ ShowCursor
  \/ SendCopies
  \/ SendRectangles

Next == Application \/ ClientMessage \/ Sender

Spec == Init /\ [][Next]_vars

(***************************************************************************)
(* What the regions of rfbClientRec promise (rfb/rfb.h:472-493).           *)
(***************************************************************************)
TypeOK ==
  /\ frameBuffer \in [Pixel -> Color] /\ before \in [Pixel -> Color]
  /\ viewer \in [Pixel -> Color \cup {CursorPixel, Blank}]
  /\ resized \in BOOLEAN
  /\ modifiedRegion \subseteq Pixel /\ copyRegion \subseteq Pixel
  /\ requestedRegion \subseteq Pixel /\ copyShift \in Shift
  /\ useCopyRect \in BOOLEAN /\ enableCursorShapeUpdates \in BOOLEAN
  /\ useNewFBSize \in BOOLEAN /\ newFBSizePending \in BOOLEAN
  /\ cursorWasChanged \in BOOLEAN
  /\ unread \subseteq {"CopyRect", "RichCursor", "NewFBSize"}
  /\ cursor \in Cursors /\ screenCursor \in Positions /\ clientCursor \in Positions
  /\ app \in {"idle", "drawing", "copying"} /\ job \in Job /\ next \in Nat \ {0}
  /\ output \in {"idle", "due", "given", "begun", "planned", "shown", "copied"}
  /\ plan \in Plan

\* A pixel of the viewer shows the framebuffer, or the cursor the server drew.
Shows(p) ==
  \/ viewer[p] = frameBuffer[p]
  \/ viewer[p] = CursorPixel /\ ~enableCursorShapeUpdates /\ p \in DrawnCursor

\* A resized viewer that has yet to ask for the screen anew may show nothing.
Unset(p) == resized /\ viewer[p] = Blank

\* The regions are the update that takes the client's framebuffer from its
\* present state to the current state of ours (rfb.h): outside both regions the
\* viewer is right, and where a copy is due, the copy done on the viewer would
\* be right.  rfbScheduleCopyRegion, the client's messages and
\* rfbSendFramebufferUpdate keep it so between them.
UpdateSuffices ==
  app = "idle" /\ output \in {"idle", "due", "given", "begun"} =>
    \A p \in Pixel \ modifiedRegion :
      IF p \in copyRegion
      THEN /\ Src(p, copyShift) \in Pixel
           /\ \/ viewer[Src(p, copyShift)] = frameBuffer[p]
              \/ Unset(Src(p, copyShift))
      ELSE Shows(p) \/ Unset(p)

\* No update ever puts a wrong pixel on the viewer: what Mirror allows.
MirrorView == 
  INSTANCE Mirror WITH fb <- frameBuffer, shown <- plan.drawn, view <- viewer
ViewerMirrors == MirrorView!Spec

\* The sender and the reader of messages get their turn again and again (the
\* loop of watch_loop and rfbProcessEvents, or their threads), the application
\* finishes what it began, and the viewer writes its messages out and asks for
\* the screen incrementally after every update, as HandleRFBServerMessage of
\* libvncclient does.
FairSpec ==
  /\ Spec
  /\ WF_vars(MarkRegionAsModified) /\ WF_vars(CopyOneRect)
  /\ WF_vars(ScheduleCopyRegion)
  /\ SF_vars(FindUpdate) /\ WF_vars(TakeUpdate)
  /\ WF_vars(SendNewFBSize \/ BeginUpdate)
  /\ WF_vars(\E s \in Slices : NothingToSend(s) \/ PlanUpdate(s))
  /\ WF_vars(ShowCursor) /\ WF_vars(SendCopies)
  /\ WF_vars(SendRectangles)
  /\ WF_vars(\E enc \in unread : ReadEncoding(enc))
  /\ SF_vars(FramebufferUpdateRequest(Pixel, TRUE))

\* Every pixel found changed is sent in the end: clearing requestedRegion and
\* copyRegion with each update forgets none of them.
ChangesAreSent ==
  \A p \in Pixel : p \in modifiedRegion \cup copyRegion
                       ~> p \notin modifiedRegion \cup copyRegion
=============================================================================
