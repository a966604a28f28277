---------------------------- MODULE UpdateProofs ----------------------------
(***************************************************************************)
(* Proofs about the update engine: for every screen, set of copies and set *)
(* of client messages, the regions kept for a client are an update that    *)
(* brings its picture up to date, if no rectangle of a copy overwrites the *)
(* source of a later one, and if threads are not combined with CopyRect.   *)
(***************************************************************************)
EXTENDS Update, TLAPS

\* No rectangle of a copy reads what an earlier one wrote.
CopyOrderSafe ==
  \A c \in Copies : \A i, j \in 1 .. Len(c.rects) :
    i < j => \A p \in c.rects[j] : Src(p, c.shift) \notin c.rects[i]

\* In -threads mode no client is offered CopyRect.
ThreadsWithoutCopyRect ==
  Threaded => \A e \in Encodings : "CopyRect" \notin e

\* What the application has done to the framebuffer and not announced yet.
Done == UNION {job.rects[i] : i \in 1 .. next - 1}

Written ==
  IF app = "drawing" THEN job.rects[1]
  ELSE IF app = "copying" /\ Threaded THEN Done
  ELSE {}

\* The framebuffer the regions are about: a copy counts once it is scheduled.
Announced == IF Threaded THEN frameBuffer ELSE before

(***************************************************************************)
(* The inductive invariant, in named parts.                                *)
(***************************************************************************)
\* The application's program: what is in job and what a copy has done so far.
JobInv ==
  /\ app = "drawing" => Len(job.rects) = 1
  /\ app = "copying" => job \in Copies /\ next <= Len(job.rects) + 1
  /\ app # "copying" => before = frameBuffer
  /\ app = "copying" /\ ~Threaded =>
       \A p \in Pixel : frameBuffer[p] = IF p \in Done THEN before[Src(p, job.shift)]
                                         ELSE before[p]

\* An update has been divided from the regions and is not written yet.
Sending == output \in {"planned", "shown", "copied"}

\* The sender's program.
PlanInv ==
  /\ ~Sending => plan.raw = {} /\ plan.copy = {}
  /\ output \notin {"shown", "copied"} => plan.drawn = {}
  /\ output = "copied" => plan.copy = {}
  /\ Sending => copyRegion = {}
  /\ \A p \in plan.drawn : \/ ~enableCursorShapeUpdates /\ p \in DrawnCursor
                           \/ p \in modifiedRegion

\* One thread does one thing at a time; threads never have a copy to send.
ModeInv ==
  /\ ~Threaded => app = "idle" \/ (output = "idle" /\ unread = {})
  /\ ~Threaded => output = "idle" \/ unread = {}
  /\ Threaded => ~useCopyRect /\ "CopyRect" \notin unread
  /\ Threaded => copyRegion = {} /\ plan.copy = {}

\* Outside what is pending, written or being sent, the viewer is right.
ViewInv ==
  \A p \in Pixel \ (modifiedRegion \cup copyRegion \cup Written
                      \cup plan.raw \cup plan.copy) :
    \/ viewer[p] = Announced[p]
    \/ viewer[p] = CursorPixel /\ ~enableCursorShapeUpdates /\ p \in DrawnCursor
    \/ Unset(p)

\* Copying on the viewer would be right, for the pending copy ...
CopyInv ==
  \A p \in copyRegion \ (modifiedRegion \cup Written) :
    /\ Src(p, copyShift) \in Pixel
    /\ viewer[Src(p, copyShift)] = Announced[p] \/ Unset(Src(p, copyShift))

\* ... and for the one being sent.
PlanCopyInv ==
  \A p \in plan.copy :
    /\ Src(p, plan.shift) \in Pixel
    /\ viewer[Src(p, plan.shift)] = Announced[p] \/ Unset(Src(p, plan.shift))

IInv == TypeOK /\ JobInv /\ PlanInv /\ ModeInv /\ ViewInv /\ CopyInv /\ PlanCopyInv

\* A new client is sent everything: its modified region is the whole screen.
LEMMA InitInv == Init => IInv
<1> SUFFICES ASSUME Init PROVE IInv
  OBVIOUS
<1>1. NoJob \in Job /\ NoPlan \in Plan
  BY RegionAssumption DEF NoJob, NoPlan, Job, Plan
<1>2. TypeOK
  <2>1. viewer \in [Pixel -> Color \cup {CursorPixel, Blank}]
    BY DEF Init
  <2>2. /\ frameBuffer \in [Pixel -> Color] /\ before \in [Pixel -> Color]
        /\ modifiedRegion \subseteq Pixel /\ copyRegion \subseteq Pixel
        /\ requestedRegion \subseteq Pixel /\ copyShift \in Shift
        /\ cursor \in Cursors /\ screenCursor \in Positions /\ clientCursor \in Positions
    BY RegionAssumption DEF Init
  <2>3. next \in Nat \ {0} /\ job \in Job /\ plan \in Plan
    BY <1>1 DEF Init
  <2> QED
    BY <2>1, <2>2, <2>3 DEF Init, TypeOK
<1>3. JobInv /\ PlanInv /\ ModeInv
  BY DEF Init, JobInv, PlanInv, ModeInv, NoPlan
<1>4. ViewInv /\ CopyInv /\ PlanCopyInv
  BY DEF Init, ViewInv, CopyInv, PlanCopyInv, NoPlan
<1> QED
  BY <1>2, <1>3, <1>4 DEF IInv

\* The application draws a rectangle it has not announced yet.
LEMMA DrawInv ==
  ASSUME IInv, NEW r \in Rects, Draw(r)
  PROVE  IInv'
<1> USE DEF fbVars, viewerVars, regionVars, encVars, flagVars, cursorVars, appVars, outVars,
            Sending
<1>1. TypeOK'
  BY RegionAssumption DEF Draw, IInv, TypeOK, Job
<1>2. JobInv' /\ PlanInv' /\ ModeInv'
  BY DEF Draw, AppFree, IInv, JobInv, PlanInv, ModeInv, DrawnCursor
<1>3. ViewInv'
  BY DEF Draw, AppFree, IInv, JobInv, ViewInv, DrawnCursor, Announced, Unset, Written
<1>4. CopyInv'
  BY DEF Draw, AppFree, IInv, TypeOK, JobInv, CopyInv, Announced, Unset, Written
<1>5. PlanCopyInv'
  BY DEF Draw, AppFree, IInv, PlanInv, ModeInv, PlanCopyInv
<1> QED
  BY <1>1, <1>2, <1>3, <1>4, <1>5 DEF IInv

\* rfbMarkRegionAsModified announces it; pending copies are left as they are.
LEMMA MarkInv ==
  ASSUME IInv, MarkRegionAsModified
  PROVE  IInv'
<1> USE DEF fbVars, viewerVars, regionVars, encVars, flagVars, cursorVars, appVars, outVars,
            Sending
<1>1. TypeOK'
  BY RegionAssumption DEF MarkRegionAsModified, IInv, TypeOK, JobInv, Job, NoJob
<1>2. JobInv' /\ PlanInv' /\ ModeInv'
  BY DEF MarkRegionAsModified, IInv, JobInv, PlanInv, ModeInv, DrawnCursor
<1>3. ViewInv' /\ CopyInv' /\ PlanCopyInv'
  BY DEF MarkRegionAsModified, IInv, ViewInv, CopyInv, PlanCopyInv, DrawnCursor,
         Announced, Unset, Written
<1> QED
  BY <1>1, <1>2, <1>3 DEF IInv

\* rfbDoCopyRegion starts; nothing is moved yet.
LEMMA BeginCopyInv ==
  ASSUME IInv, NEW c \in Copies, BeginCopyRegion(c)
  PROVE  IInv'
<1> USE DEF fbVars, viewerVars, regionVars, encVars, flagVars, cursorVars, appVars, outVars,
            Sending
<1>1. TypeOK'
  BY CopyAssumption DEF BeginCopyRegion, IInv, TypeOK, Job
<1>2. Done' = {}
  BY DEF BeginCopyRegion, Done
<1>3. JobInv'
  BY <1>2, CopyAssumption DEF BeginCopyRegion, AppFree, IInv, JobInv
<1>4. PlanInv' /\ ModeInv'
  BY DEF BeginCopyRegion, AppFree, IInv, PlanInv, ModeInv, DrawnCursor
<1>5. ViewInv' /\ CopyInv' /\ PlanCopyInv'
  BY <1>2 DEF BeginCopyRegion, AppFree, IInv, ViewInv, CopyInv, PlanCopyInv, DrawnCursor,
         Announced, Unset, Written
<1> QED
  BY <1>1, <1>3, <1>4, <1>5 DEF IInv

\* The next rectangle is moved. The order of the rectangles matters here.
LEMMA CopyOneInv ==
  ASSUME CopyOrderSafe, ThreadsWithoutCopyRect, IInv, CopyOneRect
  PROVE  IInv'
<1> USE DEF fbVars, viewerVars, regionVars, encVars, flagVars, cursorVars, appVars, outVars,
            Sending
<1>1. job \in Copies /\ next \in 1 .. Len(job.rects)
  BY DEF CopyOneRect, IInv, TypeOK, JobInv
<1>2. /\ job.rects[next] \subseteq Pixel
      /\ \A p \in job.rects[next] : Src(p, job.shift) \in Pixel
      /\ Len(job.rects) \in Nat
  BY <1>1, CopyAssumption
<1>3. Done' = Done \cup job.rects[next]
  <2>1. 1 .. next' - 1 = (1 .. next - 1) \cup {next}
    BY <1>1, <1>2 DEF CopyOneRect
  <2> QED
    BY <2>1 DEF CopyOneRect, Done
<1>4. \A p \in job.rects[next] : Src(p, job.shift) \notin Done
  <2> SUFFICES ASSUME NEW p \in job.rects[next], NEW i \in 1 .. next - 1
               PROVE  Src(p, job.shift) \notin job.rects[i]
    BY DEF Done
  <2>1. i \in 1 .. Len(job.rects) /\ i < next
    BY <1>1, <1>2
  <2> QED
    BY <1>1, <2>1 DEF CopyOrderSafe
<1>5. TypeOK'
  BY <1>1, <1>2 DEF CopyOneRect, IInv, TypeOK
<1>6. JobInv'
  <2>1. ASSUME ~Threaded, NEW p \in Pixel
        PROVE  frameBuffer'[p] = IF p \in Done' THEN before[Src(p, job.shift)]
                                 ELSE before[p]
    <3>1. \A q \in Pixel : frameBuffer[q] = IF q \in Done THEN before[Src(q, job.shift)]
                                            ELSE before[q]
      BY <2>1 DEF CopyOneRect, IInv, JobInv
    <3>2. CASE p \in job.rects[next]
      BY <1>2, <1>3, <1>4, <3>1, <3>2 DEF CopyOneRect
    <3>3. CASE p \notin job.rects[next]
      BY <1>3, <3>1, <3>3 DEF CopyOneRect
    <3> QED
      BY <3>2, <3>3
  <2>2. next' <= Len(job.rects) + 1
    BY <1>1, <1>2 DEF CopyOneRect
  <2> QED
    BY <1>1, <2>1, <2>2 DEF CopyOneRect, JobInv
<1>7. PlanInv' /\ ModeInv' /\ PlanCopyInv' /\ CopyInv'
  BY DEF CopyOneRect, IInv, PlanInv, ModeInv, PlanCopyInv, CopyInv, DrawnCursor,
         Announced, Unset, Written
<1>8. ViewInv'
  BY <1>2, <1>3 DEF CopyOneRect, IInv, ModeInv, ViewInv, DrawnCursor, Announced, Unset,
         Written, TypeOK
<1> QED
  BY <1>5, <1>6, <1>7, <1>8 DEF IInv

\* rfbScheduleCopyRegion makes a copy pending or, where it cannot, the target modified.
LEMMA SchedInv ==
  ASSUME CopyOrderSafe, ThreadsWithoutCopyRect, IInv, ScheduleCopyRegion
  PROVE  IInv'
<1> USE DEF fbVars, viewerVars, regionVars, encVars, flagVars, cursorVars, appVars, outVars,
            Sending
<1>1. job \in Copies /\ next = Len(job.rects) + 1 /\ Len(job.rects) \in Nat
  BY CopyAssumption DEF ScheduleCopyRegion, IInv, TypeOK, JobInv
<1>2. /\ job.shift \in Shift
      /\ JobRegion \subseteq Pixel
      /\ \A p \in JobRegion : Src(p, job.shift) \in Pixel
  BY <1>1, CopyAssumption DEF JobRegion
<1>3. Done = JobRegion
  BY <1>1 DEF Done, JobRegion
<1>4. NoJob \in Job
  BY RegionAssumption DEF NoJob, Job
<1>5. TypeOK'
  <2>1. modifiedRegion' \subseteq Pixel /\ copyRegion' \subseteq Pixel
        /\ copyShift' \in Shift
    BY <1>2 DEF ScheduleCopyRegion, IInv, TypeOK, OldCopy, Superseded
  <2> QED
    BY <1>4, <2>1 DEF ScheduleCopyRegion, IInv, TypeOK
<1>6. modifiedRegion \subseteq modifiedRegion'
  BY DEF ScheduleCopyRegion
<1>7. JobInv' /\ ModeInv'
  BY DEF ScheduleCopyRegion, IInv, JobInv, ModeInv
<1>8. PlanInv'
  <2>1. ~Threaded => ~Sending
    BY DEF ScheduleCopyRegion, IInv, ModeInv
  <2>2. Threaded => copyRegion' = copyRegion
    BY DEF ScheduleCopyRegion, IInv, ModeInv
  <2> QED
    BY <1>6, <2>1, <2>2 DEF ScheduleCopyRegion, IInv, PlanInv, DrawnCursor
<1>9. ~Threaded => plan.raw = {} /\ plan.copy = {}
  BY DEF ScheduleCopyRegion, IInv, ModeInv, PlanInv
<1>10. Written' = {} /\ (~Threaded => Written = {}) /\ (Threaded => Written = JobRegion)
  BY <1>3 DEF ScheduleCopyRegion, Written
<1>11. modifiedRegion \cup copyRegion \cup JobRegion \subseteq modifiedRegion' \cup copyRegion'
  BY DEF ScheduleCopyRegion, OldCopy, Superseded
<1>12. \A p \in Pixel \ JobRegion : Announced'[p] = Announced[p]
  BY <1>3 DEF ScheduleCopyRegion, Announced, IInv, JobInv
<1>13. ViewInv'
  BY <1>9, <1>10, <1>11, <1>12 DEF ScheduleCopyRegion, IInv, ViewInv, DrawnCursor, Unset
<1>14. CopyInv'
  <2>1. CASE Threaded
    BY <2>1, <1>7 DEF ModeInv, CopyInv
  <2>2. CASE ~Threaded /\ ~useCopyRect
    BY <2>2, <1>10, <1>12 DEF ScheduleCopyRegion, IInv, CopyInv, TypeOK, Unset
  <2>3. CASE ~Threaded /\ useCopyRect
    <3> SUFFICES ASSUME NEW p \in copyRegion', p \notin modifiedRegion'
                 PROVE  /\ Src(p, job.shift) \in Pixel
                        /\ \/ viewer[Src(p, job.shift)] = frameBuffer[p]
                           \/ Unset(Src(p, job.shift))
      BY <2>3 DEF CopyInv, Announced, ScheduleCopyRegion, Unset
    <3>1. p \in OldCopy \cup JobRegion
      BY <2>3 DEF ScheduleCopyRegion
    <3>2. CASE p \in JobRegion
      <4>1. frameBuffer[p] = before[Src(p, job.shift)] /\ Src(p, job.shift) \in Pixel
        BY <1>2, <1>3, <2>3, <3>2 DEF ScheduleCopyRegion, IInv, JobInv
      <4>2. Src(p, job.shift) \notin modifiedRegion \cup Superseded
        BY <1>2, <2>3, <3>1, <3>2 DEF ScheduleCopyRegion, Displaced
      <4>3. Src(p, job.shift) \notin copyRegion
        BY <4>2, <3>2 DEF Superseded, Sources
      <4>4. enableCursorShapeUpdates \/ Src(p, job.shift) \notin DrawnCursor
        BY <1>2, <2>3, <3>1, <3>2 DEF ScheduleCopyRegion, Displaced, SoftCursor
      <4> QED
        BY <2>3, <4>1, <4>2, <4>3, <4>4, <1>9, <1>10
           DEF IInv, ViewInv, Announced, Unset
    <3>3. CASE p \in OldCopy \ JobRegion
      <4>1. p \in copyRegion /\ copyShift = job.shift /\ p \in Pixel
        BY <3>3 DEF OldCopy, IInv, TypeOK
      <4>2. frameBuffer[p] = before[p]
        BY <1>3, <2>3, <3>3, <4>1 DEF ScheduleCopyRegion, IInv, JobInv
      <4> QED
        BY <2>3, <4>1, <4>2, <1>6, <1>10 DEF IInv, CopyInv, Announced
    <3> QED
      BY <3>1, <3>2, <3>3
  <2> QED
    BY <2>1, <2>2, <2>3
<1>15. PlanCopyInv'
  <2>1. Threaded => plan.copy = {}
    BY DEF IInv, ModeInv
  <2> QED
    BY <1>9, <2>1 DEF ScheduleCopyRegion, PlanCopyInv
<1> QED
  BY <1>5, <1>7, <1>8, <1>13, <1>14, <1>15 DEF IInv

\* rfbNewFramebuffer makes everything modified and forgets the pending copy.
LEMMA NewFramebufferInv ==
  ASSUME IInv, NewFramebuffer
  PROVE  IInv'
<1> USE DEF fbVars, viewerVars, regionVars, encVars, flagVars, cursorVars, appVars, outVars,
            Sending
<1>1. TypeOK'
  BY RegionAssumption DEF NewFramebuffer, IInv, TypeOK
<1>2. JobInv' /\ PlanInv' /\ ModeInv'
  BY DEF NewFramebuffer, AppFree, IInv, JobInv, PlanInv, ModeInv, DrawnCursor, Done
<1>3. ViewInv' /\ CopyInv' /\ PlanCopyInv'
  BY DEF NewFramebuffer, AppFree, IInv, TypeOK, JobInv, PlanInv, ModeInv, ViewInv, CopyInv, PlanCopyInv, DrawnCursor, Announced, Unset,
         Written, Done
<1> QED
  BY <1>1, <1>2, <1>3 DEF IInv

\* So does a change of the pixel size.
LEMMA ChangePixelSizeInv ==
  ASSUME IInv, ChangePixelSize
  PROVE  IInv'
<1> USE DEF fbVars, viewerVars, regionVars, encVars, flagVars, cursorVars, appVars, outVars,
            Sending
<1>1. TypeOK'
  BY RegionAssumption DEF ChangePixelSize, IInv, TypeOK
<1>2. JobInv' /\ PlanInv' /\ ModeInv'
  <2>1. JobInv'
    BY DEF ChangePixelSize, IInv, JobInv, Done
  <2>2. PlanInv'
    BY DEF ChangePixelSize, IInv, TypeOK, PlanInv, Plan, DrawnCursor
  <2>3. ModeInv'
    BY DEF ChangePixelSize, IInv, ModeInv
  <2> QED
    BY <2>1, <2>2, <2>3
<1>3. ViewInv' /\ CopyInv' /\ PlanCopyInv'
  BY DEF ChangePixelSize, AppFree, IInv, TypeOK, JobInv, PlanInv, ModeInv, ViewInv, CopyInv, PlanCopyInv, DrawnCursor, Announced, Unset,
         Written, Done
<1> QED
  BY <1>1, <1>2, <1>3 DEF IInv

\* rfbSetCursor marks where the old cursor and the new one are drawn.
LEMMA SetCursorInv ==
  ASSUME IInv, NEW c \in Cursors, SetCursor(c)
  PROVE  IInv'
<1> USE DEF fbVars, viewerVars, regionVars, encVars, flagVars, cursorVars, appVars, outVars,
            Sending
<1>1. TypeOK'
  BY CursorAssumption DEF SetCursor, IInv, TypeOK, DrawnCursor
<1>2. JobInv' /\ PlanInv' /\ ModeInv'
  BY DEF SetCursor, AppFree, IInv, JobInv, PlanInv, ModeInv, DrawnCursor, Done
<1>3. ViewInv' /\ CopyInv' /\ PlanCopyInv'
  BY DEF SetCursor, AppFree, IInv, TypeOK, JobInv, PlanInv, ModeInv, ViewInv, CopyInv, PlanCopyInv, DrawnCursor, Announced, Unset,
         Written, Done
<1> QED
  BY <1>1, <1>2, <1>3 DEF IInv

\* The pointer moves; the sender will find the old place of the cursor.
LEMMA MoveCursorInv ==
  ASSUME IInv, NEW pos \in Positions, MoveCursor(pos)
  PROVE  IInv'
<1> USE DEF fbVars, viewerVars, regionVars, encVars, flagVars, cursorVars, appVars, outVars,
            Sending
<1>1. TypeOK'
  BY DEF MoveCursor, IInv, TypeOK
<1>2. JobInv' /\ PlanInv' /\ ModeInv'
  BY DEF MoveCursor, PointerTurn, IInv, JobInv, PlanInv, ModeInv, DrawnCursor, Done
<1>3. ViewInv' /\ CopyInv' /\ PlanCopyInv'
  BY DEF MoveCursor, PointerTurn, IInv, TypeOK, JobInv, PlanInv, ModeInv, ViewInv, CopyInv, PlanCopyInv, DrawnCursor, Announced, Unset,
         Written, Done
<1> QED
  BY <1>1, <1>2, <1>3 DEF IInv

\* rfbSetEncodings resets what the client understands ...
LEMMA SetEncodingsInv ==
  ASSUME IInv, ThreadsWithoutCopyRect, NEW e \in Encodings, SetEncodings(e)
  PROVE  IInv'
<1> USE DEF fbVars, viewerVars, regionVars, encVars, flagVars, cursorVars, appVars, outVars,
            Sending
<1>1. TypeOK'
  BY ModeAssumption DEF SetEncodings, IInv, TypeOK
<1>2. JobInv' /\ PlanInv' /\ ModeInv'
  BY DEF SetEncodings, ClientTurn, ThreadsWithoutCopyRect, IInv, JobInv, PlanInv, ModeInv,
         DrawnCursor, Done
<1>3. ViewInv' /\ CopyInv' /\ PlanCopyInv'
  BY DEF SetEncodings, IInv, ViewInv, CopyInv, PlanCopyInv, DrawnCursor, Announced, Unset,
         Written, Done
<1> QED
  BY <1>1, <1>2, <1>3 DEF IInv

\* ... and sets it again from the list.
LEMMA ReadEncodingInv ==
  ASSUME IInv, NEW enc \in unread, ReadEncoding(enc)
  PROVE  IInv'
<1> USE DEF fbVars, viewerVars, regionVars, encVars, flagVars, cursorVars, appVars, outVars,
            Sending
<1>1. DrawnCursor \subseteq Pixel
  BY CursorAssumption DEF IInv, TypeOK, DrawnCursor
<1>2. TypeOK'
  BY <1>1 DEF ReadEncoding, IInv, TypeOK
<1>3. JobInv' /\ ModeInv'
  BY DEF ReadEncoding, IInv, JobInv, ModeInv, Done
<1>4. /\ modifiedRegion \subseteq modifiedRegion'
      /\ enableCursorShapeUpdates' # enableCursorShapeUpdates =>
           ~enableCursorShapeUpdates /\ DrawnCursor \subseteq modifiedRegion'
      /\ DrawnCursor' = DrawnCursor
  BY DEF ReadEncoding, DrawnCursor, IInv, TypeOK
<1>5. PlanInv'
  BY <1>4 DEF ReadEncoding, IInv, PlanInv
<1>6. ViewInv' /\ CopyInv' /\ PlanCopyInv'
  BY <1>4 DEF ReadEncoding, IInv, ViewInv, CopyInv, PlanCopyInv, Announced, Unset,
         Written, Done
<1> QED
  BY <1>2, <1>3, <1>5, <1>6 DEF IInv

\* A request that is not incremental makes its rectangle modified.
LEMMA RequestInv ==
  ASSUME IInv, NEW r \in Rects, NEW i \in BOOLEAN, FramebufferUpdateRequest(r, i)
  PROVE  IInv'
<1> USE DEF fbVars, viewerVars, regionVars, encVars, flagVars, cursorVars, appVars, outVars,
            Sending
<1>1. TypeOK'
  BY RegionAssumption DEF FramebufferUpdateRequest, IInv, TypeOK
<1>2. JobInv' /\ PlanInv' /\ ModeInv'
  BY DEF FramebufferUpdateRequest, ClientTurn, IInv, JobInv, PlanInv, ModeInv, DrawnCursor, Done
<1>3. ViewInv' /\ CopyInv' /\ PlanCopyInv'
  BY DEF FramebufferUpdateRequest, ClientTurn, IInv, TypeOK, JobInv, PlanInv, ModeInv, ViewInv, CopyInv, PlanCopyInv, DrawnCursor, Announced, Unset,
         Written, Done
<1> QED
  BY <1>1, <1>2, <1>3 DEF IInv

\* The sender finds a request and something to send.
LEMMA FindInv ==
  ASSUME IInv, FindUpdate
  PROVE  IInv'
<1> USE DEF fbVars, viewerVars, regionVars, encVars, flagVars, cursorVars, appVars, outVars,
            Sending
<1>1. TypeOK'
  BY DEF FindUpdate, IInv, TypeOK
<1>2. JobInv' /\ PlanInv' /\ ModeInv'
  BY DEF FindUpdate, OutputTurn, IInv, JobInv, PlanInv, ModeInv, Done, DrawnCursor
<1>3. ViewInv' /\ CopyInv' /\ PlanCopyInv'
  BY DEF FindUpdate, IInv, ViewInv, CopyInv, PlanCopyInv, DrawnCursor, Announced, Unset,
         Written, Done
<1> QED
  BY <1>1, <1>2, <1>3 DEF IInv

\* The sender takes the modified region.
LEMMA TakeInv ==
  ASSUME IInv, TakeUpdate
  PROVE  IInv'
<1> USE DEF fbVars, viewerVars, regionVars, encVars, flagVars, cursorVars, appVars, outVars,
            Sending
<1>1. /\ plan'.raw = {} /\ plan'.copy = {} /\ plan'.drawn = {}
      /\ plan' \in Plan
  BY RegionAssumption DEF TakeUpdate, NoPlan, Plan, IInv, TypeOK
<1>2. plan.raw = {} /\ plan.copy = {}
  BY DEF TakeUpdate, IInv, PlanInv
<1>3. TypeOK'
  BY <1>1 DEF TakeUpdate, IInv, TypeOK
<1>4. JobInv' /\ PlanInv' /\ ModeInv'
  BY <1>1 DEF TakeUpdate, IInv, JobInv, PlanInv, ModeInv, Done
<1>5. ViewInv' /\ CopyInv' /\ PlanCopyInv'
  BY <1>1, <1>2 DEF TakeUpdate, IInv, ViewInv, CopyInv, PlanCopyInv, DrawnCursor,
                    Announced, Unset, Written, Done
<1> QED
  BY <1>3, <1>4, <1>5 DEF IInv

\* rfbSendNewFBSize: the viewer loses its picture, the regions stay.
LEMMA SendNewFBSizeInv ==
  ASSUME IInv, SendNewFBSize
  PROVE  IInv'
<1> USE DEF fbVars, viewerVars, regionVars, encVars, flagVars, cursorVars, appVars, outVars,
            Sending
<1>1. /\ plan'.raw = {} /\ plan'.copy = {} /\ plan'.drawn = {}
      /\ plan' \in Plan
  BY RegionAssumption DEF SendNewFBSize, NoPlan, Plan
<1>2. TypeOK'
  BY <1>1 DEF SendNewFBSize, IInv, TypeOK
<1>3. JobInv' /\ PlanInv' /\ ModeInv'
  BY <1>1 DEF SendNewFBSize, IInv, JobInv, PlanInv, ModeInv, Done
<1>4. ViewInv' /\ CopyInv' /\ PlanCopyInv'
  BY <1>1 DEF SendNewFBSize, IInv, TypeOK, ViewInv, CopyInv, PlanCopyInv, Unset, Written, Done
<1> QED
  BY <1>2, <1>3, <1>4 DEF IInv

\* Whether the cursor's shape goes along is decided.
LEMMA BeginInv ==
  ASSUME IInv, BeginUpdate
  PROVE  IInv'
<1> USE DEF fbVars, viewerVars, regionVars, encVars, flagVars, cursorVars, appVars, outVars,
            Sending
<1>1. /\ plan'.raw = {} /\ plan'.copy = {} /\ plan'.drawn = {}
      /\ plan' \in Plan
  BY DEF BeginUpdate, Plan, IInv, TypeOK, PlanInv
<1>2. plan.raw = {} /\ plan.copy = {}
  BY DEF BeginUpdate, IInv, PlanInv
<1>3. TypeOK'
  BY <1>1 DEF BeginUpdate, IInv, TypeOK
<1>4. JobInv' /\ PlanInv' /\ ModeInv'
  BY <1>1 DEF BeginUpdate, IInv, JobInv, PlanInv, ModeInv, Done
<1>5. ViewInv' /\ CopyInv' /\ PlanCopyInv'
  BY <1>1, <1>2 DEF BeginUpdate, IInv, ViewInv, CopyInv, PlanCopyInv, DrawnCursor,
                    Announced, Unset, Written, Done
<1> QED
  BY <1>3, <1>4, <1>5 DEF IInv

\* The sender has nothing to send.
LEMMA NothingInv ==
  ASSUME IInv, NEW s \in Slices, NothingToSend(s)
  PROVE  IInv'
<1> USE DEF fbVars, viewerVars, regionVars, encVars, flagVars, cursorVars, appVars, outVars,
            Sending
<1>1. /\ plan'.raw = {} /\ plan'.copy = {} /\ plan'.drawn = {}
      /\ plan' \in Plan
  BY RegionAssumption DEF NothingToSend, NoPlan, Plan
<1>2. plan.raw = {} /\ plan.copy = {}
  BY DEF NothingToSend, IInv, PlanInv
<1>3. copyRegion' = copyRegion \ modifiedRegion
  BY DEF NothingToSend, RemainingCopy
<1>4. TypeOK'
  BY <1>1, <1>3 DEF NothingToSend, IInv, TypeOK
<1>5. JobInv' /\ PlanInv' /\ ModeInv'
  BY <1>1, <1>3 DEF NothingToSend, IInv, JobInv, PlanInv, ModeInv, Done
<1>6. ViewInv'
  BY <1>1, <1>2, <1>3 DEF NothingToSend, IInv, ViewInv, DrawnCursor, Announced,
                          Unset, Written, Done
<1>7. CopyInv' /\ PlanCopyInv'
  BY <1>1, <1>3 DEF NothingToSend, IInv, CopyInv, PlanCopyInv, Announced, Unset,
                    Written, Done
<1> QED
  BY <1>4, <1>5, <1>6, <1>7 DEF IInv

\* The regions are divided into what is sent now and what is left.
LEMMA PlanUpdateInv ==
  ASSUME IInv, NEW s \in Slices, PlanUpdate(s)
  PROVE  IInv'
<1> USE DEF fbVars, viewerVars, regionVars, encVars, flagVars, cursorVars, appVars, outVars,
            Sending
<1>1. /\ UpdateRegion(s) \subseteq Pixel
      /\ UpdateCopyRegion \subseteq copyRegion \ modifiedRegion
  BY DEF UpdateRegion, Wanted, RemainingCopy, UpdateCopyRegion, IInv, TypeOK
<1>2. /\ plan' \in Plan
      /\ plan'.raw = UpdateRegion(s) /\ plan'.copy = UpdateCopyRegion
      /\ plan'.shift = copyShift /\ plan'.drawn = plan.drawn
  BY <1>1 DEF PlanUpdate, Plan, IInv, TypeOK
<1>3. plan.raw = {} /\ plan.copy = {} /\ plan.drawn = {}
  BY DEF PlanUpdate, IInv, PlanInv
<1>4. TypeOK'
  <2>1. modifiedRegion' \subseteq Pixel
    BY DEF PlanUpdate, Unsent, RemainingCopy, IInv, TypeOK
  <2> QED
    BY <1>2, <2>1, RegionAssumption DEF PlanUpdate, IInv, TypeOK
<1>5. JobInv' /\ ModeInv'
  <2>1. Threaded => UpdateCopyRegion = {}
    BY <1>1 DEF IInv, ModeInv
  <2> QED
    BY <1>2, <2>1 DEF PlanUpdate, IInv, JobInv, ModeInv, Done
<1>6. PlanInv'
  BY <1>2, <1>3 DEF PlanUpdate, PlanInv
<1>7. ViewInv'
  <2>1. Pixel \ (modifiedRegion' \cup copyRegion' \cup Written' \cup plan'.raw \cup plan'.copy)
          \subseteq Pixel \ (modifiedRegion \cup copyRegion \cup Written
                             \cup plan.raw \cup plan.copy)
    BY <1>2, <1>3 DEF PlanUpdate, Unsent, RemainingCopy, Written, Done
  <2> QED
    BY <2>1 DEF PlanUpdate, IInv, ViewInv, Announced, Unset, DrawnCursor
<1>8. CopyInv'
  BY DEF PlanUpdate, CopyInv
<1>9. PlanCopyInv'
  <2>1. CASE Threaded
    BY <1>5, <2>1 DEF ModeInv, PlanCopyInv
  <2>2. CASE ~Threaded
    <3>1. Written = {}
      BY <2>2 DEF PlanUpdate, IInv, ModeInv, Written
    <3> QED
      BY <1>1, <1>2, <3>1 DEF PlanUpdate, IInv, CopyInv, PlanCopyInv, Announced, Unset
  <2> QED
    BY <2>1, <2>2
<1> QED
  BY <1>4, <1>5, <1>6, <1>7, <1>8, <1>9 DEF IInv

\* The cursor is put up: its old and its new place are sent with the rest.
LEMMA ShowCursorInv ==
  ASSUME IInv, ShowCursor
  PROVE  IInv'
<1> USE DEF fbVars, viewerVars, regionVars, encVars, flagVars, cursorVars, appVars, outVars,
            Sending
<1> DEFINE raw == plan.raw \cup CursorRedraw
<1>1. plan.raw \subseteq Pixel /\ CursorRedraw \subseteq Pixel /\ CursorShown \subseteq Pixel
  BY CursorAssumption DEF CursorRedraw, CursorShown, DrawnCursor, IInv, TypeOK, Plan
<1>2. raw \subseteq BBox(raw) /\ BBox(raw) \subseteq Pixel
  <2>1. \A p \in Pixel : p[1] \in Int /\ p[2] \in Int
    BY DEF Pixel
  <2> QED
    BY <1>1, <2>1 DEF BBox
<1>3. /\ raw \subseteq plan'.raw /\ plan'.raw \subseteq Pixel
      /\ plan'.copy = plan.copy /\ plan'.shift = plan.shift
      /\ plan'.drawn = CursorShown /\ plan' \in Plan
  <2>1. PICK sent \in {raw, BBox(raw)} :
               plan' = [plan EXCEPT !.raw = sent, !.drawn = CursorShown]
    BY DEF ShowCursor
  <2> QED
    BY <1>1, <1>2, <2>1 DEF IInv, TypeOK, Plan
<1>4. TypeOK'
  BY <1>3 DEF ShowCursor, IInv, TypeOK
<1>5. JobInv' /\ ModeInv'
  BY <1>3 DEF ShowCursor, IInv, JobInv, ModeInv, Done
<1>6. PlanInv'
  <2>1. ~enableCursorShapeUpdates => CursorShown \subseteq DrawnCursor'
    BY CursorAssumption DEF ShowCursor, CursorShown, DrawnCursor, IInv, TypeOK
  <2>2. enableCursorShapeUpdates => CursorShown = {}
    BY DEF CursorShown
  <2> QED
    BY <1>3, <2>1, <2>2 DEF ShowCursor, IInv, PlanInv
<1>7. ViewInv'
  <2>1. ASSUME NEW p \in Pixel, p \notin CursorRedraw, ~enableCursorShapeUpdates,
               p \in DrawnCursor
        PROVE  p \in DrawnCursor'
    BY <2>1 DEF ShowCursor, CursorRedraw, CursorIsUp, DrawnCursor
  <2> QED
    BY <1>3, <2>1 DEF ShowCursor, IInv, ViewInv, Announced, Unset, Written, Done
<1>8. CopyInv' /\ PlanCopyInv'
  BY <1>3 DEF ShowCursor, IInv, CopyInv, PlanCopyInv, Announced, Unset, Written, Done
<1> QED
  BY <1>4, <1>5, <1>6, <1>7, <1>8 DEF IInv

\* The copies are written first.
LEMMA SendCopiesInv ==
  ASSUME IInv, SendCopies
  PROVE  IInv'
<1> USE DEF fbVars, viewerVars, regionVars, encVars, flagVars, cursorVars, appVars, outVars,
            Sending
<1>1. /\ plan'.raw = plan.raw /\ plan'.copy = {} /\ plan'.drawn = plan.drawn
      /\ plan' \in Plan
  BY DEF SendCopies, IInv, TypeOK, Plan
<1>2. copyRegion = {}
  BY DEF SendCopies, IInv, PlanInv
<1>3. ASSUME NEW p \in Pixel
      PROVE  viewer'[p] = IF p \in plan.copy THEN viewer[Src(p, plan.shift)] ELSE viewer[p]
  BY DEF SendCopies
<1>4. \A p \in plan.copy : Src(p, plan.shift) \in Pixel
  BY DEF IInv, PlanCopyInv
<1>5. TypeOK'
  <2>1. \A p \in Pixel : viewer'[p] \in Color \cup {CursorPixel, Blank}
    BY <1>3, <1>4 DEF IInv, TypeOK
  <2>2. viewer' \in [Pixel -> Color \cup {CursorPixel, Blank}]
    BY <2>1 DEF SendCopies
  <2> QED
    BY <1>1, <2>2 DEF SendCopies, IInv, TypeOK
<1>6. JobInv' /\ PlanInv' /\ ModeInv'
  BY <1>1, <1>2 DEF SendCopies, IInv, JobInv, PlanInv, ModeInv, Done, DrawnCursor
<1>7. ViewInv'
  <2> SUFFICES ASSUME NEW p \in Pixel,
                      p \notin modifiedRegion \cup copyRegion \cup Written \cup plan.raw
               PROVE  \/ viewer'[p] = Announced[p]
                      \/ /\ viewer'[p] = CursorPixel
                         /\ ~enableCursorShapeUpdates /\ p \in DrawnCursor
                      \/ resized /\ viewer'[p] = Blank
    BY <1>1 DEF SendCopies, ViewInv, Announced, Unset, Written, Done, DrawnCursor
  <2>1. CASE p \in plan.copy
    BY <1>3, <2>1 DEF IInv, PlanCopyInv, Unset
  <2>2. CASE p \notin plan.copy
    BY <1>3, <2>2 DEF IInv, ViewInv, Unset
  <2> QED
    BY <2>1, <2>2
<1>8. CopyInv' /\ PlanCopyInv'
  BY <1>1, <1>2 DEF SendCopies, CopyInv, PlanCopyInv
<1> QED
  BY <1>5, <1>6, <1>7, <1>8 DEF IInv

\* Then the other rectangles are, from the framebuffer as it is.
LEMMA SendRectanglesInv ==
  ASSUME IInv, SendRectangles
  PROVE  IInv'
<1> USE DEF fbVars, viewerVars, regionVars, encVars, flagVars, cursorVars, appVars, outVars,
            Sending
<1>1. PICK part \in SUBSET plan.raw :
        /\ viewer' = [p \in Pixel |-> IF p \in part THEN WithCursor(p) ELSE viewer[p]]
        /\ IF part = plan.raw THEN output' = "idle" /\ plan' = NoPlan
           ELSE output' = output /\ plan' = [plan EXCEPT !.raw = @ \ part]
  BY DEF SendRectangles, Parts
<1>2. plan \in Plan /\ NoPlan \in Plan
  BY RegionAssumption DEF IInv, TypeOK, NoPlan, Plan
<1>3. /\ plan'.raw = plan.raw \ part /\ plan'.copy = {}
      /\ plan'.drawn = IF part = plan.raw THEN {} ELSE plan.drawn
      /\ plan' \in Plan
      /\ output' \in {"idle", "copied"} /\ (output' = "idle" => part = plan.raw)
  <2>1. plan.copy = {} /\ output = "copied"
    BY DEF SendRectangles, IInv, PlanInv
  <2>2. CASE part = plan.raw
    <3>1. plan' = NoPlan /\ output' = "idle"
      BY <1>1, <2>2
    <3>2. NoPlan.raw = {} /\ NoPlan.copy = {} /\ NoPlan.drawn = {}
      BY DEF NoPlan
    <3>3. plan.raw \ part = {}
      BY <2>2
    <3> QED
      BY <1>2, <2>2, <3>1, <3>2, <3>3
  <2>3. CASE part # plan.raw
    BY <1>1, <1>2, <2>1, <2>3 DEF Plan
  <2> QED
    BY <2>2, <2>3
<1>4. Announced = frameBuffer /\ copyRegion = {}
  BY DEF SendRectangles, IInv, JobInv, ModeInv, PlanInv, Announced
<1>5. ASSUME NEW p \in Pixel
      PROVE  viewer'[p] = IF p \in part
                          THEN IF p \in plan.drawn THEN CursorPixel ELSE frameBuffer[p]
                          ELSE viewer[p]
  BY <1>1 DEF WithCursor
<1>6. TypeOK'
  <2>1. \A p \in Pixel : viewer'[p] \in Color \cup {CursorPixel, Blank}
    BY <1>5 DEF IInv, TypeOK
  <2>2. viewer' \in [Pixel -> Color \cup {CursorPixel, Blank}]
    BY <1>1, <2>1
  <2> QED
    BY <1>3, <2>2 DEF SendRectangles, IInv, TypeOK
<1>7. JobInv' /\ ModeInv'
  BY <1>3 DEF SendRectangles, IInv, JobInv, ModeInv, Done
<1>8. PlanInv'
  <2>1. part = plan.raw => output' = "idle"
    BY <1>1
  <2> QED
    BY <1>3, <1>4, <2>1 DEF SendRectangles, IInv, PlanInv, DrawnCursor
<1>9. ViewInv'
  <2> SUFFICES ASSUME NEW p \in Pixel, p \notin plan.raw \ part,
                      p \notin modifiedRegion \cup copyRegion \cup Written
               PROVE  \/ viewer'[p] = Announced[p]
                      \/ /\ viewer'[p] = CursorPixel
                         /\ ~enableCursorShapeUpdates /\ p \in DrawnCursor
                      \/ resized /\ viewer'[p] = Blank
    BY <1>3 DEF SendRectangles, ViewInv, Announced, Unset, Written, Done, DrawnCursor
  <2>1. CASE p \in part
    BY <1>4, <1>5, <2>1 DEF IInv, PlanInv
  <2>2. CASE p \notin part
    <3>1. plan.copy = {}
      BY DEF SendRectangles, IInv, PlanInv
    <3> QED
      BY <1>5, <2>2, <3>1 DEF IInv, ViewInv, Unset
  <2> QED
    BY <2>1, <2>2
<1>10. CopyInv' /\ PlanCopyInv'
  BY <1>3, <1>4 DEF SendRectangles, CopyInv, PlanCopyInv
<1> QED
  BY <1>6, <1>7, <1>8, <1>9, <1>10 DEF IInv

(***************************************************************************)
(* The theorems.                                                           *)
(***************************************************************************)
\* A step that changes nothing keeps the invariant.
LEMMA StutterInv == IInv /\ UNCHANGED vars => IInv'
  BY DEF vars, fbVars, viewerVars, regionVars, encVars, flagVars, cursorVars, appVars,
         outVars, IInv, TypeOK, JobInv, PlanInv, ModeInv, ViewInv, CopyInv, PlanCopyInv,
         Sending, Done, Written, Announced, Unset, DrawnCursor

\* Every step keeps the invariant.
LEMMA NextInv ==
  ASSUME CopyOrderSafe, ThreadsWithoutCopyRect
  PROVE  IInv /\ [Next]_vars => IInv'
<1> SUFFICES ASSUME IInv, [Next]_vars PROVE IInv'
  OBVIOUS
<1>1. CASE Application
  BY <1>1, DrawInv, MarkInv, BeginCopyInv, CopyOneInv, SchedInv, NewFramebufferInv,
     ChangePixelSizeInv, SetCursorInv, MoveCursorInv DEF Application
<1>2. CASE ClientMessage
  BY <1>2, SetEncodingsInv, ReadEncodingInv, RequestInv DEF ClientMessage
<1>3. CASE Sender
  BY <1>3, FindInv, TakeInv, SendNewFBSizeInv, BeginInv, NothingInv, PlanUpdateInv,
     ShowCursorInv, SendCopiesInv, SendRectanglesInv DEF Sender
<1>4. CASE UNCHANGED vars
  BY <1>4, StutterInv
<1> QED
  BY <1>1, <1>2, <1>3, <1>4 DEF Next

\* Every reachable state is well typed and satisfies the invariant above, from
\* which the others follow.
THEOREM Invariance ==
  ASSUME CopyOrderSafe, ThreadsWithoutCopyRect
  PROVE  Spec => []IInv
<1>1. Init => IInv
  BY InitInv
<1>2. IInv /\ [Next]_vars => IInv'
  BY NextInv
<1> QED
  BY <1>1, <1>2, PTL DEF Spec

\* The types of all variables, the framebuffer read by a copy and the viewer's
\* picture among them.
THEOREM TypeCorrect ==
  ASSUME CopyOrderSafe, ThreadsWithoutCopyRect
  PROVE  Spec => []TypeOK
<1>1. IInv => TypeOK
  BY DEF IInv
<1> QED
  BY <1>1, Invariance, PTL

\* The regions always are the update that brings the client's picture from its
\* present state to ours: the claim of rfb.h about rfbClientRec.
THEOREM UpdateSufficient ==
  ASSUME CopyOrderSafe, ThreadsWithoutCopyRect
  PROVE  Spec => []UpdateSuffices
<1>1. IInv => UpdateSuffices
  <2> SUFFICES ASSUME IInv, app = "idle",
                      output \in {"idle", "due", "given", "begun"},
                      NEW p \in Pixel \ modifiedRegion
               PROVE  IF p \in copyRegion
                      THEN /\ Src(p, copyShift) \in Pixel
                           /\ \/ viewer[Src(p, copyShift)] = frameBuffer[p]
                              \/ Unset(Src(p, copyShift))
                      ELSE Shows(p) \/ Unset(p)
    BY DEF UpdateSuffices
  <2>1. Written = {} /\ Announced = frameBuffer /\ plan.raw = {} /\ plan.copy = {}
    BY DEF IInv, JobInv, PlanInv, Sending, Written, Announced
  <2> QED
    BY <2>1 DEF IInv, ViewInv, CopyInv, Shows
<1> QED
  BY <1>1, Invariance, PTL

\* The engine implements Mirror: no update puts a wrong pixel on the viewer.
THEOREM ImplementsMirror ==
  ASSUME CopyOrderSafe, ThreadsWithoutCopyRect
  PROVE  Spec => ViewerMirrors
<1>1. Init => MirrorView!Init
  BY DEF Init, NoPlan, MirrorView!Init
<1>2. IInv /\ IInv' /\ [Next]_vars => [MirrorView!Next]_<<frameBuffer, plan.drawn, viewer, resized>>
  <2> SUFFICES ASSUME IInv, IInv', [Next]_vars
               PROVE  [MirrorView!Next]_<<frameBuffer, plan.drawn, viewer, resized>>
    OBVIOUS
  <2> USE DEF fbVars, viewerVars
  <2>1. frameBuffer' \in [Pixel -> Color] /\ plan'.drawn \in SUBSET Pixel
    BY DEF IInv, TypeOK, Plan
  <2>2. CASE UNCHANGED <<viewer, resized>>
    BY <2>1, <2>2 DEF MirrorView!Next, MirrorView!Draw
  <2>3. CASE SendNewFBSize
    BY <2>3 DEF SendNewFBSize, IInv, PlanInv, NoPlan, MirrorView!Next, MirrorView!Resize
  <2>4. ASSUME NEW r \in Rects, NEW i \in BOOLEAN, FramebufferUpdateRequest(r, i)
        PROVE  [MirrorView!Next]_<<frameBuffer, plan.drawn, viewer, resized>>
    <3>1. CASE resized' = resized
      BY <2>4, <3>1 DEF FramebufferUpdateRequest, outVars
    <3>2. CASE resized' = FALSE
      BY <2>4, <3>2 DEF FramebufferUpdateRequest, outVars, MirrorView!Next, MirrorView!Ask
    <3> QED
      BY <2>4, <3>1, <3>2 DEF FramebufferUpdateRequest, outVars, IInv, TypeOK
  <2>5. CASE SendCopies
    <3>1. viewer' \in [Pixel -> Color \cup {CursorPixel, Blank}]
      BY DEF IInv, TypeOK
    <3>2. Announced = frameBuffer
      BY <2>5 DEF SendCopies, outVars, IInv, JobInv, ModeInv, Announced
    <3>3. ASSUME NEW p \in Pixel
          PROVE  \/ viewer'[p] \in {viewer[p], frameBuffer[p]}
                 \/ viewer'[p] = Blank /\ resized
      BY <2>5, <3>2 DEF SendCopies, IInv, PlanCopyInv, Unset
    <3>4. plan'.drawn = plan.drawn
      BY <2>5 DEF SendCopies, IInv, TypeOK, Plan
    <3> QED
      BY <2>5, <3>1, <3>3, <3>4 DEF SendCopies, MirrorView!Next, MirrorView!Refresh
  <2>6. CASE SendRectangles
    <3>1. viewer' \in [Pixel -> Color \cup {CursorPixel, Blank}]
      BY DEF IInv, TypeOK
    <3>2. ASSUME NEW p \in Pixel
          PROVE  \/ viewer'[p] \in {viewer[p], frameBuffer[p]}
                 \/ viewer'[p] = CursorPixel /\ p \in plan.drawn
      BY <2>6 DEF SendRectangles, WithCursor
    <3>3. plan'.drawn \in {plan.drawn, {}}
      BY <2>6 DEF SendRectangles, NoPlan, IInv, TypeOK, Plan
    <3> QED
      BY <2>6, <3>1, <3>2, <3>3 DEF SendRectangles, MirrorView!Next, MirrorView!Refresh
  <2> QED
    BY <2>2, <2>3, <2>4, <2>5, <2>6
    DEF Next, Application, ClientMessage, Sender, Draw, MarkRegionAsModified, BeginCopyRegion,
        CopyOneRect, ScheduleCopyRegion, NewFramebuffer, ChangePixelSize, SetCursor,
        MoveCursor, SetEncodings, ReadEncoding, FindUpdate, TakeUpdate, BeginUpdate,
        NothingToSend, PlanUpdate, ShowCursor, vars
<1> QED
  BY <1>1, <1>2, Invariance, PTL DEF Spec, ViewerMirrors, MirrorView!Spec
=============================================================================
