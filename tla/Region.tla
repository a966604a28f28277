------------------------------- MODULE Region -------------------------------
(***************************************************************************)
(* The region library under the update engine (libvncserver/rfbregion.c).  *)
(* A region is a list of bands, each with a list of horizontal spans; the  *)
(* operations split and merge the spans of the destination in place.       *)
(* Module Update works on the sets of pixels these lists stand for.        *)
(***************************************************************************)
EXTENDS Integers, SequencesExt

CONSTANTS
  Width, Height,   \* the grid the rectangles are taken from
  Shifts           \* displacements of a copy

ASSUME GridAssumption ==
  /\ Width \in Nat \ {0} /\ Height \in Nat \ {0}
  /\ Shifts \subseteq Int \X Int

VARIABLES
  dst, src,          \* two regions: the operand changed and the one only read
  dstArea, srcArea   \* auxiliary: the pixels they should stand for

vars == <<dst, src, dstArea, srcArea>>

Pixel == (0 .. Width - 1) \X (0 .. Height - 1)

\* A span of pixels, or a band of rows with its spans (sub).
Span(start, end, sub) == [start |-> start, end |-> end, sub |-> sub]

Rect(x1, y1, x2, y2) == <<Span(y1, y2, <<Span(x1, x2, << >>)>>)>>

\* What the list stands for.
Covers(span, i) == span.start <= i /\ i < span.end

Area(rgn) ==
  {p \in (0 .. 2 * Width) \X (0 .. 2 * Height) :
     \E v \in ToSet(rgn) : Covers(v, p[2]) /\ \E h \in ToSet(v.sub) : Covers(h, p[1])}

(***************************************************************************)
(* A loop of the library goes over a destination list, <<left, right>> with *)
(* d_curr at the head of right, and a source list with s_curr at the head   *)
(* of src.  The start of that span is s_start, which sraSpanListOr keeps    *)
(* apart because the source itself does not change.                        *)
(***************************************************************************)
d_curr(z) == Head(z.right)
s_curr(z) == Head(z.src)

WithD(z, d) == [z EXCEPT !.right = <<d>> \o Tail(z.right)]

\* Mutant of MergePrevious: bands that touch are merged whatever their spans.
MergeTouching(z) ==
  IF z.left # << >> /\ Last(z.left).end = d_curr(z).start
  THEN [WithD(z, [d_curr(z) EXCEPT !.start = Last(z.left).start]) EXCEPT !.left = Front(z.left)]
  ELSE z

\* sraSpanMergePrevious(d_curr): from k on, the spans touch one another and
\* have the same contents.
MergePrevious(z) ==
  LET list == Append(z.left, d_curr(z))
      Run  == {k \in DOMAIN list : \A i \in k .. Len(z.left) :
                 list[i].end = list[i + 1].start /\ list[i].sub = d_curr(z).sub}
      k    == CHOOSE k \in Run : \A j \in Run : k <= j
  IN [WithD(z, [d_curr(z) EXCEPT !.start = list[k].start])
        EXCEPT !.left = SubSeq(z.left, 1, k - 1)]

\* sraSpanMergeNext(d_curr)
MergeNext(z) ==
  LET list == z.right
      Run  == {k \in DOMAIN list : \A i \in 2 .. k :
                 list[i - 1].end = list[i].start /\ list[i].sub = d_curr(z).sub}
      k    == CHOOSE k \in Run : \A j \in Run : j <= k
  IN [z EXCEPT !.right = <<[d_curr(z) EXCEPT !.end = list[k].end]>>
                           \o SubSeq(list, k + 1, Len(list))]

Merged(z) == MergeNext(MergePrevious(z))

\* The part of d_curr beyond e becomes a span of its own behind it.
SplitEnd(z, e) ==
  IF e < d_curr(z).end
  THEN [z EXCEPT !.right = <<[d_curr(z) EXCEPT !.end = e], [d_curr(z) EXCEPT !.start = e]>>
                             \o Tail(z.right)]
  ELSE z

Insert(z, span) == [z EXCEPT !.left = Append(z.left, span)]

\* Mutant of SplitStart: d_curr keeps its start.
SplitStartKept(z, s) ==
  IF s > d_curr(z).start THEN Insert(z, [d_curr(z) EXCEPT !.end = s]) ELSE z

\* The part of d_curr before s becomes a span of its own in front of it.
SplitStart(z, s) ==
  IF s > d_curr(z).start
  THEN Insert(WithD(z, [d_curr(z) EXCEPT !.start = s]), [d_curr(z) EXCEPT !.end = s])
  ELSE z

\* The part of d_curr before s is removed.
CutStart(z, s) == IF s > d_curr(z).start THEN WithD(z, [d_curr(z) EXCEPT !.start = s]) ELSE z

WithSub(z, sub) == WithD(z, [d_curr(z) EXCEPT !.sub = sub])

Drop(z)       == [z EXCEPT !.right = Tail(z.right)]
Pass(z)       == [z EXCEPT !.left = Append(z.left, d_curr(z)), !.right = Tail(z.right)]
NextSource(z) == [z EXCEPT !.src = Tail(z.src)]

(***************************************************************************)
(* One turn of each loop; sub is the same operation for the lists that the *)
(* spans contain, as a function.                                           *)
(***************************************************************************)
\* The source span is put in front of d_curr as far as there is room for it.
Filled(z) ==
  IF s_curr(z).start < d_curr(z).start
  THEN MergePrevious(Insert(z, [s_curr(z) EXCEPT !.end = d_curr(z).start]))
  ELSE z

OrTurn(z, sub) ==
  IF z.right = << >> THEN NextSource(Insert(z, s_curr(z)))
  ELSE IF d_curr(z).start >= s_curr(z).end THEN NextSource(MergePrevious(Insert(z, s_curr(z))))
  ELSE IF d_curr(z).end <= s_curr(z).start THEN Pass(z)
  ELSE LET a == SplitStart(SplitEnd(Filled(z), s_curr(z).end), s_curr(z).start)
           b == Merged(WithSub(a, sub[<<d_curr(a).sub, s_curr(z).sub>>]))
       IN IF s_curr(z).end > d_curr(b).end
          THEN [Pass(b) EXCEPT !.src = <<[s_curr(z) EXCEPT !.start = d_curr(b).end]>> \o Tail(z.src)]
          ELSE NextSource(b)

\* The new d_curr never goes beyond the source span.
AndTurn(z, sub) ==
  IF d_curr(z).start >= s_curr(z).end THEN NextSource(z)
  ELSE IF d_curr(z).end <= s_curr(z).start THEN Drop(z)
  ELSE LET a == SplitEnd(CutStart(z, s_curr(z).start), s_curr(z).end)
           r == sub[<<d_curr(a).sub, s_curr(z).sub>>]
           b == MergePrevious(WithSub(a, r))
       IN IF d_curr(a).sub # << >> /\ r = << >> THEN Drop(a)
          ELSE IF s_curr(z).end <= d_curr(b).end THEN NextSource(Pass(b)) ELSE Pass(b)

SubtractTurn(z, sub) ==
  IF d_curr(z).start >= s_curr(z).end THEN NextSource(z)
  ELSE IF d_curr(z).end <= s_curr(z).start THEN Pass(z)
  ELSE LET a == SplitEnd(SplitStart(z, s_curr(z).start), s_curr(z).end)
           r == sub[<<d_curr(a).sub, s_curr(z).sub>>]
           b == Merged(WithSub(a, r))
       IN IF r = << >> THEN Drop(a)
          ELSE IF s_curr(z).end > d_curr(b).end THEN Pass(b) ELSE NextSource(b)

Ended(op, z) == z.src = << >> \/ (op # "or" /\ z.right = << >>)

Turn(op, z, sub) ==
  IF Ended(op, z) THEN z
  ELSE CASE op = "or"       -> OrTurn(z, sub)
         [] op = "and"      -> AndTurn(z, sub)
         [] op = "subtract" -> SubtractTurn(z, sub)

\* Bound: more turns than the loop takes.
Turns(dest, s) == 4 * Len(s) + 2 * Len(dest)

\* sraSpanListOr, sraSpanListAnd and sraSpanListSubtract
Combined(op, dest, s, sub) ==
  LET after[n \in Nat] ==
        IF n = 0 THEN [left |-> << >>, right |-> dest, src |-> s]
        ELSE Turn(op, after[n - 1], sub)
      last == after[Turns(dest, s)]
  IN IF op = "and" THEN last.left ELSE last.left \o last.right

\* A span of pixels contains nothing, and what is left of it by "subtract"
\* is nothing, too.
PixelSpan == [start : Int, end : Int, sub : {<< >>}]
PixelSub  == [p \in {<< << >>, << >> >>} |-> << >>]

Rgn(op, dest, s) ==
  Combined(op, dest, s,
           [p \in Seq(PixelSpan) \X Seq(PixelSpan) |-> Combined(op, p[1], p[2], PixelSub)])

RgnOr(dest, s)       == Rgn("or", dest, s)
RgnAnd(dest, s)      == Rgn("and", dest, s)
RgnSubtract(dest, s) == Rgn("subtract", dest, s)

RgnOffset(rgn, d) ==
  [i \in DOMAIN rgn |->
     Span(rgn[i].start + d[2], rgn[i].end + d[2],
          [j \in DOMAIN rgn[i].sub |->
             Span(rgn[i].sub[j].start + d[1], rgn[i].sub[j].end + d[1], << >>)])]

(***************************************************************************)
(* The rectangles of a region, by the places of the band and of the span.  *)
(***************************************************************************)
Cells(rgn) == UNION {{i} \X DOMAIN rgn[i].sub : i \in DOMAIN rgn}

RectAt(rgn, c) ==
  LET v == rgn[c[1]]
      h == v.sub[c[2]]
  IN <<h.start, v.start, h.end, v.end>>

\* a comes before b from sraRgnGetReverseIterator(rgn, reverseX, reverseY).
ComesBefore(a, b, reverseX, reverseY) ==
  IF a[1] # b[1] THEN (a[1] < b[1]) # reverseY
  ELSE a[2] # b[2] /\ (a[2] < b[2]) # reverseX

\* Mutant of SentBefore: the order in which rfbDoCopyRegion copies.
CopiedBefore(a, b, d) == ComesBefore(a, b, d[1] < 0, d[2] < 0)

\* The order in which rfbSendCopyRegion sends the rectangles of a copy.
SentBefore(a, b, d) == ComesBefore(a, b, d[1] > 0, d[2] > 0)

Inside(r, p) == r[1] <= p[1] /\ p[1] < r[3] /\ r[2] <= p[2] /\ p[2] < r[4]

(***************************************************************************)
(* Programs that use the library.                                          *)
(***************************************************************************)
Init ==
  /\ dst = << >> /\ src = << >>
  /\ dstArea = {} /\ srcArea = {}

CreateRect ==
  \E x1 \in 0 .. Width - 1, y1 \in 0 .. Height - 1 :
  \E x2 \in x1 + 1 .. Width, y2 \in y1 + 1 .. Height :
     /\ dst' = Rect(x1, y1, x2, y2)
     /\ dstArea' = {p \in Pixel : Inside(<<x1, y1, x2, y2>>, p)}
     /\ UNCHANGED <<src, srcArea>>

Swap ==
  /\ dst' = src /\ src' = dst
  /\ dstArea' = srcArea /\ srcArea' = dstArea

Or ==
  /\ dst' = RgnOr(dst, src)
  /\ dstArea' = dstArea \cup srcArea
  /\ UNCHANGED <<src, srcArea>>

And ==
  /\ dst' = RgnAnd(dst, src)
  /\ dstArea' = dstArea \cap srcArea
  /\ UNCHANGED <<src, srcArea>>

Subtract ==
  /\ dst' = RgnSubtract(dst, src)
  /\ dstArea' = dstArea \ srcArea
  /\ UNCHANGED <<src, srcArea>>

\* sraRgnOffset followed by sraRgnAnd: the destination of a copy from dst, as
\* far as it lies in src.
Displace ==
  \E d \in Shifts :
     /\ dst' = RgnAnd(RgnOffset(dst, d), src)
     /\ dstArea' = {p \in srcArea : <<p[1] - d[1], p[2] - d[2]>> \in dstArea}
     /\ UNCHANGED <<src, srcArea>>

Next == CreateRect \/ Swap \/ Or \/ And \/ Subtract \/ Displace

Spec == Init /\ [][Next]_vars

(***************************************************************************)
(* What the callers rely on.                                               *)
(***************************************************************************)
Ordered(list) ==
  /\ \A i \in DOMAIN list : list[i].start < list[i].end
  /\ \A i, j \in DOMAIN list : i < j => list[i].end <= list[j].start

\* Spans in order, none empty and none without contents: what the loops of the
\* operations and of the iterators take for granted.
WellFormed ==
  /\ Ordered(dst)
  /\ \A v \in ToSet(dst) : v.sub # << >> /\ Ordered(v.sub)

\* After any sequence of splits and merges the list stands for exactly the
\* union, intersection or difference.
Exact == Area(dst) = dstArea

\* "Send the messages in the correct order so that an earlier CopyRect will not
\* corrupt the source of a later one" (rfbSendCopyRegion), for every region
\* and every displacement.
SendOrderSafe ==
  \A d \in Shifts, a, b \in Cells(dst) : SentBefore(a, b, d) =>
    \A p \in Pixel :
      Inside(RectAt(dst, b), p) => ~Inside(RectAt(dst, a), <<p[1] - d[1], p[2] - d[2]>>)
=============================================================================
