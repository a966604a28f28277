--------------------------- MODULE ClipboardProofs ---------------------------
(***************************************************************************)
(* Proofs about Clipboard, for any texts and any number of cuts and of     *)
(* answers under way: x11vnc knows which selections it has although it     *)
(* reads SelectionClear late, offers the latest text, and the flag for the *)
(* cut buffer has an event that will reset it.                             *)
(***************************************************************************)
EXTENDS Clipboard, SequenceTheorems, FiniteSetTheorems, WellFoundedInduction, TLAPS

-----------------------------------------------------------------------------
(***************************************************************************)
(* The inductive invariant, in named parts.                                *)
(***************************************************************************)
EventType == [type : {"Notify", "Refused", "Request", "Clear"}, sel : Selection]

Shape ==
  /\ owner \in [Selection -> {"none", "app", "x11vnc"}]
  /\ own \in [Selection -> BOOLEAN]
  /\ xcut_str \in [Selection -> {"", "old", "latest"}]
  /\ events \in Seq(EventType)
  /\ changes \in Nat

IsClear(q, i, s) == q[i].type = "Clear" /\ q[i].sel = s
HasClear(q, s)   == \E i \in 1 .. Len(q) : IsClear(q, i, s)

\* One clear of a selection at most.
Once(q) ==
  \A s \in Selection, i \in 1 .. Len(q), j \in 1 .. Len(q) :
    IsClear(q, i, s) /\ IsClear(q, j, s) => i = j

\* A SelectionClear that waits tells of a loss that still stands: x11vnc takes a
\* selection again only after it has read the event, so that there is one at most.
ClearInv ==
  /\ Once(events)
  /\ \A s \in Selection : HasClear(events, s) => owner[s] # "x11vnc"

Known ==
  \A s \in Selection : own[s] <=> owner[s] = "x11vnc" \/ HasClear(events, s)

IInv == Shape /\ ClearInv /\ Known /\ OfferedIsLatest /\ FlagHasEvent

-----------------------------------------------------------------------------
(***************************************************************************)
(* The queue of events.                                                    *)
(***************************************************************************)
LEMMA Removed ==
  ASSUME NEW S, NEW q \in Seq(S), NEW i \in 1 .. Len(q)
  PROVE  /\ RemoveAt(q, i) \in Seq(S)
         /\ Len(RemoveAt(q, i)) = Len(q) - 1
         /\ \A j \in 1 .. Len(q) - 1 :
              RemoveAt(q, i)[j] = IF j < i THEN q[j] ELSE q[j + 1]
<1> DEFINE front == SubSeq(q, 1, i - 1)
           back  == SubSeq(q, i + 1, Len(q))
<1>1. Len(q) \in Nat /\ i \in Nat
  OBVIOUS
<1>2. /\ front \in Seq(S) /\ Len(front) = i - 1
      /\ \A j \in 1 .. i - 1 : front[j] = q[j]
  BY <1>1
<1>3. /\ back \in Seq(S) /\ Len(back) = Len(q) - i
      /\ \A j \in 1 .. Len(q) - i : back[j] = q[i + j]
  BY <1>1
<1>4. RemoveAt(q, i) = front \o back
  BY DEF RemoveAt
<1> HIDE DEF front, back
<1>5. front \o back \in Seq(S) /\ Len(front \o back) = Len(q) - 1
  <2>1. front \o back \in Seq(S) /\ Len(front \o back) = Len(front) + Len(back)
    BY <1>2, <1>3, ConcatProperties
  <2> QED BY <1>1, <1>2, <1>3, <2>1
<1>6. ASSUME NEW j \in 1 .. Len(q) - 1
      PROVE  (front \o back)[j] = IF j < i THEN q[j] ELSE q[j + 1]
  <2>1. CASE j < i
    <3>1. j \in 1 .. Len(front)
      BY <1>1, <1>2, <2>1
    <3> QED BY <1>1, <1>2, <1>3, <2>1, <3>1, ConcatProperties
  <2>2. CASE ~(j < i)
    <3>1. j \in Len(front) + 1 .. Len(front) + Len(back) /\ j - Len(front) = j + 1 - i
      BY <1>1, <1>2, <1>3, <2>2
    <3>2. (front \o back)[j] = back[j + 1 - i]
      BY <1>2, <1>3, <3>1, ConcatProperties
    <3>3. j + 1 - i \in 1 .. Len(q) - i /\ i + (j + 1 - i) = j + 1
      BY <1>1, <2>2
    <3> QED BY <1>3, <2>2, <3>2, <3>3
  <2> QED BY <2>1, <2>2
<1>7. \A j \in 1 .. Len(q) - 1 :
        (front \o back)[j] = IF j < i THEN q[j] ELSE q[j + 1]
  BY <1>6
<1> QED BY <1>4, <1>5, <1>7

\* First finds the event that XCheckTypedEvent takes.
LEMMA FirstFound ==
  ASSUME NEW types, Len(events) \in Nat, Places(types) # {}
  PROVE  /\ First(types) \in 1 .. Len(events)
         /\ events[First(types)].type \in types
<1>1. Places(types) \subseteq 1 .. Len(events)
  BY DEF Places
<1>2. \E i \in Places(types) : \A j \in Places(types) : i <= j
  <2>1. Places(types) \subseteq Nat
    BY <1>1
  <2>2. IsWellFoundedOn(OpToRel(<, Nat), Nat)
    BY NatLessThanWellFounded
  <2>3. PICK i \in Places(types) : \A j \in Places(types) : ~ (<<j, i>> \in OpToRel(<, Nat))
    BY <2>1, <2>2, WFMin
  <2>4. \A j \in Places(types) : ~ (j < i)
    BY <2>1, <2>3 DEF OpToRel
  <2> QED BY <2>1, <2>4
<1>3. First(types) \in Places(types)
  BY <1>2 DEF First
<1> QED BY <1>3 DEF Places

\* Taking an event from the queue leaves the clears of a selection as they were,
\* except the one that is taken.
LEMMA ClearsAfter ==
  ASSUME NEW q \in Seq(EventType), Once(q), NEW i \in 1 .. Len(q)
  PROVE  /\ RemoveAt(q, i) \in Seq(EventType)
         /\ Once(RemoveAt(q, i))
         /\ \A s \in Selection :
              HasClear(RemoveAt(q, i), s) <=> HasClear(q, s) /\ ~IsClear(q, i, s)
<1> DEFINE n == Len(q)
           r == RemoveAt(q, i)
           from(j) == IF j < i THEN j ELSE j + 1
<1>1. n \in Nat /\ i \in 1 .. n
  OBVIOUS
<1>2. /\ r \in Seq(EventType) /\ Len(r) = n - 1
      /\ \A j \in 1 .. n - 1 : r[j] = IF j < i THEN q[j] ELSE q[j + 1]
  BY Removed
<1> HIDE DEF n, r
<1>3. \A j \in 1 .. n - 1 : r[j] = q[from(j)] /\ from(j) \in 1 .. n /\ from(j) # i
  BY <1>1, <1>2
<1>4. ASSUME NEW k \in 1 .. n, k # i
      PROVE  \E j \in 1 .. n - 1 : from(j) = k
  <2>1. CASE k < i
    <3>1. k \in 1 .. n - 1 /\ from(k) = k
      BY <1>1, <2>1
    <3> QED BY <3>1
  <2>2. CASE ~(k < i)
    <3>1. k - 1 \in 1 .. n - 1 /\ from(k - 1) = k
      BY <1>1, <1>4, <2>2
    <3> QED BY <3>1
  <2> QED BY <2>1, <2>2
<1>5. \A j \in 1 .. n - 1, k \in 1 .. n - 1 : from(j) = from(k) => j = k
  BY <1>1
<1> HIDE DEF from
<1>6. \A j \in 1 .. n - 1, s \in Selection : IsClear(r, j, s) <=> IsClear(q, from(j), s)
  BY <1>3 DEF IsClear
<1>7. \A s \in Selection, j \in 1 .. n, k \in 1 .. n :
        IsClear(q, j, s) /\ IsClear(q, k, s) => j = k
  BY DEF Once, n
<1>8. Once(r)
  <2> SUFFICES ASSUME NEW s \in Selection, NEW j \in 1 .. n - 1, NEW k \in 1 .. n - 1,
                      IsClear(r, j, s), IsClear(r, k, s)
               PROVE  j = k
    BY <1>2 DEF Once
  <2>1. from(j) = from(k)
    BY <1>3, <1>6, <1>7
  <2> QED BY <1>5, <2>1
<1>9. ASSUME NEW s \in Selection
      PROVE  HasClear(r, s) <=> HasClear(q, s) /\ ~IsClear(q, i, s)
  <2>1. ASSUME NEW j \in 1 .. n - 1, IsClear(r, j, s)
        PROVE  HasClear(q, s) /\ ~IsClear(q, i, s)
    <3>1. IsClear(q, from(j), s) /\ from(j) \in 1 .. n /\ from(j) # i
      BY <1>3, <1>6, <2>1
    <3> QED BY <1>1, <1>7, <3>1 DEF HasClear, n
  <2>2. ASSUME NEW k \in 1 .. n, IsClear(q, k, s), ~IsClear(q, i, s)
        PROVE  \E j \in 1 .. n - 1 : IsClear(r, j, s)
    <3>1. PICK j \in 1 .. n - 1 : from(j) = k
      BY <1>4, <2>2
    <3> QED BY <1>6, <2>2, <3>1
  <2> QED BY <1>2, <2>1, <2>2 DEF HasClear, n
<1> QED BY <1>2, <1>8, <1>9 DEF r

\* An event that comes last.
LEMMA ClearsAppended ==
  ASSUME NEW q \in Seq(EventType), Once(q), NEW e \in EventType,
         e.type = "Clear" => ~HasClear(q, e.sel)
  PROVE  /\ Append(q, e) \in Seq(EventType)
         /\ Once(Append(q, e))
         /\ \A s \in Selection :
              HasClear(Append(q, e), s) <=> HasClear(q, s) \/ (e.type = "Clear" /\ e.sel = s)
<1> DEFINE n == Len(q)
           r == Append(q, e)
<1>1. n \in Nat
  OBVIOUS
<1>2. /\ r \in Seq(EventType) /\ Len(r) = n + 1
      /\ r[n + 1] = e /\ \A j \in 1 .. n : r[j] = q[j]
  BY <1>1
<1> HIDE DEF n, r
<1>3. \A j \in 1 .. n, s \in Selection : IsClear(r, j, s) <=> IsClear(q, j, s)
  BY <1>2 DEF IsClear
<1>4. \A s \in Selection : IsClear(r, n + 1, s) <=> e.type = "Clear" /\ e.sel = s
  BY <1>2 DEF IsClear
<1>5. \A j \in 1 .. n + 1 : j \in 1 .. n \/ j = n + 1
  BY <1>1
<1>6. n + 1 \in 1 .. n + 1 /\ \A j \in 1 .. n : j \in 1 .. n + 1
  BY <1>1
<1>7. Once(r)
  <2> SUFFICES ASSUME NEW s \in Selection, NEW j \in 1 .. n + 1, NEW k \in 1 .. n + 1,
                      IsClear(r, j, s), IsClear(r, k, s)
               PROVE  j = k
    BY <1>2 DEF Once
  <2>1. CASE j \in 1 .. n /\ k \in 1 .. n
    BY <1>3, <2>1 DEF Once, n
  <2>2. CASE j = n + 1 /\ k \in 1 .. n
    BY <1>3, <1>4, <2>2 DEF HasClear, n
  <2>3. CASE j \in 1 .. n /\ k = n + 1
    BY <1>3, <1>4, <2>3 DEF HasClear, n
  <2> QED BY <1>5, <2>1, <2>2, <2>3
<1>8. ASSUME NEW s \in Selection
      PROVE  HasClear(r, s) <=> HasClear(q, s) \/ (e.type = "Clear" /\ e.sel = s)
  <2>1. HasClear(r, s) <=> \E j \in 1 .. n + 1 : IsClear(r, j, s)
    BY <1>2 DEF HasClear
  <2>2. HasClear(q, s) <=> \E j \in 1 .. n : IsClear(q, j, s)
    BY DEF HasClear, n
  <2> QED BY <1>3, <1>4, <1>5, <1>6, <2>1, <2>2
<1> QED BY <1>2, <1>7, <1>8 DEF r

-----------------------------------------------------------------------------
(***************************************************************************)
(* The steps.                                                              *)
(***************************************************************************)
LEMMA Queue ==
  ASSUME IInv
  PROVE  /\ events \in Seq(EventType) /\ Len(events) \in Nat
         /\ \A i \in 1 .. Len(events) : events[i] \in EventType
         /\ Once(events)
<1>1. events \in Seq(EventType)
  BY DEF IInv, Shape
<1>2. Len(events) \in Nat
  BY <1>1, LenProperties
<1>3. \A i \in 1 .. Len(events) : events[i] \in EventType
  BY <1>1, ElementOfSeq
<1>4. Once(events)
  BY DEF IInv, ClearInv
<1> QED BY <1>1, <1>2, <1>3, <1>4

\* Any other event may come or be taken without x11vnc's knowing less.
LEMMA OtherEventTaken ==
  ASSUME IInv, NEW types, "Clear" \notin types, Places(types) # {},
         events' = RemoveAt(events, First(types)), UNCHANGED <<owner, own>>
  PROVE  events' \in Seq(EventType) /\ ClearInv' /\ Known'
<1> DEFINE i == First(types)
<1>1. events \in Seq(EventType) /\ Len(events) \in Nat /\ Once(events)
  BY Queue
<1>2. i \in 1 .. Len(events) /\ events[i].type # "Clear"
  BY <1>1, FirstFound
<1> HIDE DEF i
<1>3. \A s \in Selection : ~IsClear(events, i, s)
  BY <1>2 DEF IsClear
<1>4. events' = RemoveAt(events, i)
  BY DEF i
<1>5. /\ events' \in Seq(EventType) /\ Once(events')
      /\ \A s \in Selection : HasClear(events', s) <=> HasClear(events, s)
  BY <1>1, <1>2, <1>3, <1>4, ClearsAfter
<1> QED BY <1>5 DEF IInv, ClearInv, Known

\* An event that is no SelectionClear comes last.
LEMMA OtherEventComes ==
  ASSUME IInv, NEW e \in EventType, e.type # "Clear",
         events' = Append(events, e), UNCHANGED <<owner, own>>
  PROVE  events' \in Seq(EventType) /\ ClearInv' /\ Known'
<1>1. events \in Seq(EventType) /\ Once(events)
  BY DEF IInv, Shape, ClearInv
<1>2. /\ events' \in Seq(EventType) /\ Once(events')
      /\ \A s \in Selection : HasClear(events', s) <=> HasClear(events, s)
  BY <1>1, ClearsAppended
<1> QED BY <1>2 DEF IInv, ClearInv, Known

\* What the invariant is about is left alone.
LEMMA Untouched ==
  ASSUME IInv, UNCHANGED <<owner, events, changes, own, xcut_str, set_cutbuffer>>
  PROVE  IInv'
BY DEF IInv, Shape, ClearInv, Known, OfferedIsLatest, FlagHasEvent

\* The loss of a selection that x11vnc has becomes an event at once.
LEMMA AppTakesStep ==
  ASSUME IInv, NEW s \in Selection, NEW t \in Text, AppTakes(s, t)
  PROVE  IInv'
<1>1. /\ owner' = [owner EXCEPT ![s] = "app"]
      /\ UNCHANGED <<changes, own, xcut_str, set_cutbuffer>>
  BY DEF AppTakes, selVars
<1>2. /\ events \in Seq(EventType) /\ Once(events)
      /\ owner \in [Selection -> {"none", "app", "x11vnc"}]
  BY DEF IInv, Shape, ClearInv
<1>3. /\ events' \in Seq(EventType) /\ Once(events')
      /\ \A x \in Selection :
           HasClear(events', x) <=> HasClear(events, x) \/ (owner[s] = "x11vnc" /\ x = s)
  <2>1. CASE owner[s] = "x11vnc"
    <3> DEFINE e == Event("Clear", s)
    <3>1. e \in EventType /\ e.type = "Clear" /\ e.sel = s
      BY DEF EventType, Event
    <3>2. ~HasClear(events, s)
      BY <2>1 DEF IInv, ClearInv
    <3>3. events' = Append(events, e)
      BY <2>1 DEF AppTakes
    <3> HIDE DEF e
    <3> QED BY <1>2, <2>1, <3>1, <3>2, <3>3, ClearsAppended
  <2>2. CASE owner[s] # "x11vnc"
    <3>1. events' = events
      BY <2>2 DEF AppTakes
    <3> QED BY <1>2, <2>2, <3>1
  <2> QED BY <2>1, <2>2
<1>4. Shape'
  BY <1>1, <1>3 DEF IInv, Shape
<1>5. \A x \in Selection : owner'[x] = IF x = s THEN "app" ELSE owner[x]
  BY <1>1, <1>2
<1>6. ClearInv'
  BY <1>3, <1>5 DEF IInv, ClearInv
<1>7. Known'
  BY <1>1, <1>3, <1>5 DEF IInv, Known
<1>8. OfferedIsLatest' /\ FlagHasEvent'
  BY <1>1, <1>5 DEF IInv, OfferedIsLatest, FlagHasEvent
<1> QED BY <1>4, <1>6, <1>7, <1>8 DEF IInv

\* An X client that leaves takes nothing from x11vnc.
LEMMA AppLeavesStep ==
  ASSUME IInv, NEW s \in Selection, AppLeaves(s)
  PROVE  IInv'
<1>1. /\ owner[s] = "app" /\ owner' = [owner EXCEPT ![s] = "none"]
      /\ UNCHANGED <<events, changes, own, xcut_str, set_cutbuffer>>
  BY DEF AppLeaves, selVars, evVars
<1>2. owner' \in [Selection -> {"none", "app", "x11vnc"}]
  BY <1>1 DEF IInv, Shape
<1>3. \A x \in Selection : owner'[x] = "x11vnc" <=> owner[x] = "x11vnc"
  BY <1>1 DEF IInv, Shape
<1> QED
  BY <1>1, <1>2, <1>3 DEF IInv, Shape, ClearInv, Known, OfferedIsLatest, FlagHasEvent

\* One more change of the cut buffer waits.
LEMMA AppSetsCutBufferStep ==
  ASSUME IInv, AppSetsCutBuffer
  PROVE  IInv'
<1>1. /\ changes' = changes + 1
      /\ UNCHANGED <<owner, events, own, xcut_str, set_cutbuffer>>
  BY DEF AppSetsCutBuffer, xVars, selVars
<1>2. changes' \in Nat /\ changes' > 0
  <2>1. changes \in Nat
    BY DEF IInv, Shape
  <2> QED BY <1>1, <2>1
<1> QED BY <1>1, <1>2 DEF IInv, Shape, ClearInv, Known, OfferedIsLatest, FlagHasEvent

\* The reply to XConvertSelection comes last in the queue.
LEMMA AnswerStep ==
  ASSUME IInv, NEW s \in Selection, Answer(s)
  PROVE  IInv'
<1>1. UNCHANGED <<owner, changes, own, xcut_str, set_cutbuffer>>
  BY DEF Answer, selVars
<1>2. PICK e \in EventType : e.type # "Clear" /\ events' = Append(events, e)
  <2>1. \A type \in {"Notify", "Refused"} :
          Event(type, s) \in EventType /\ Event(type, s).type # "Clear"
    BY DEF Event, EventType
  <2>2. \E type \in {"Notify", "Refused"} : events' = Append(events, Event(type, s))
    BY DEF Answer
  <2> QED BY <2>1, <2>2
<1>3. events' \in Seq(EventType) /\ ClearInv' /\ Known'
  BY <1>1, <1>2, OtherEventComes
<1> QED BY <1>1, <1>3 DEF IInv, Shape, OfferedIsLatest, FlagHasEvent

\* A request for x11vnc's text comes last in the queue.
LEMMA PasteStep ==
  ASSUME IInv, NEW s \in Selection, Paste(s)
  PROVE  IInv'
<1>1. UNCHANGED <<owner, changes, own, xcut_str, set_cutbuffer>>
  BY DEF Paste, selVars
<1>2. /\ Event("Request", s) \in EventType /\ Event("Request", s).type # "Clear"
      /\ events' = Append(events, Event("Request", s))
  BY DEF Event, EventType, Paste
<1>3. events' \in Seq(EventType) /\ ClearInv' /\ Known'
  BY <1>1, <1>2, OtherEventComes
<1> QED BY <1>1, <1>3 DEF IInv, Shape, OfferedIsLatest, FlagHasEvent

\* Only the selections are taken of which no SelectionClear waits.
LEMMA xcut_receiveStep ==
  ASSUME IInv, xcut_receive
  PROVE  IInv'
<1>1. /\ own' = [s \in Selection |-> TRUE]
      /\ owner' = [s \in Selection |-> IF s \in Unowned THEN "x11vnc" ELSE owner[s]]
      /\ xcut_str' = [s \in Selection |-> "latest"]
      /\ changes' = changes + 1
      /\ UNCHANGED events
  BY DEF xcut_receive, Receive, Latest
<1>2. changes' \in Nat /\ changes' > 0
  <2>1. changes \in Nat
    BY DEF IInv, Shape
  <2> QED BY <1>1, <2>1
<1>3. \A s \in Selection : HasClear(events, s) => owner'[s] = owner[s]
  BY <1>1 DEF IInv, Known, Unowned
<1>4. ClearInv'
  BY <1>1, <1>3 DEF IInv, ClearInv
<1>5. \A s \in Selection : owner'[s] = "x11vnc" \/ HasClear(events, s)
  BY <1>1 DEF IInv, Known, Unowned
<1>6. Known'
  BY <1>1, <1>5 DEF Known
<1>7. OfferedIsLatest' /\ FlagHasEvent'
  BY <1>1, <1>2 DEF OfferedIsLatest, FlagHasEvent
<1>8. Shape'
  <2>1. /\ own' \in [Selection -> BOOLEAN]
        /\ xcut_str' \in [Selection -> {"", "old", "latest"}]
    BY <1>1
  <2>2. owner' \in [Selection -> {"none", "app", "x11vnc"}]
    BY <1>1 DEF IInv, Shape
  <2>3. events' \in Seq(EventType)
    BY <1>1 DEF IInv, Shape
  <2> QED BY <1>2, <2>1, <2>2, <2>3 DEF Shape
<1> QED BY <1>4, <1>6, <1>7, <1>8 DEF IInv

\* The flag is reset with the changes that are read.
LEMMA CheckPropertyStep ==
  ASSUME IInv, CheckProperty
  PROVE  IInv'
<1>1. /\ changes' \in 0 .. changes - 1 /\ set_cutbuffer' = FALSE
      /\ UNCHANGED <<owner, events, own, xcut_str>>
  BY DEF CheckProperty, ResetFlag, xVars
<1>2. changes' \in Nat
  BY <1>1
<1> QED BY <1>1, <1>2 DEF IInv, Shape, ClearInv, Known, OfferedIsLatest, FlagHasEvent

\* A reply is read; nobody's selection changes.
LEMMA CheckNotifyStep ==
  ASSUME IInv, CheckNotify
  PROVE  IInv'
<1>1. UNCHANGED <<owner, changes, own, xcut_str, set_cutbuffer>>
  BY DEF CheckNotify
<1>2. /\ Places({"Notify", "Refused"}) # {}
      /\ events' = RemoveAt(events, First({"Notify", "Refused"}))
  BY DEF CheckNotify
<1>3. events' \in Seq(EventType) /\ ClearInv' /\ Known'
  BY <1>1, <1>2, OtherEventTaken
<1> QED BY <1>1, <1>3 DEF IInv, Shape, OfferedIsLatest, FlagHasEvent

\* A request is read; nobody's selection changes.
LEMMA CheckRequestStep ==
  ASSUME IInv, CheckRequest
  PROVE  IInv'
<1>1. UNCHANGED <<owner, changes, own, xcut_str, set_cutbuffer>>
  BY DEF CheckRequest, selVars
<1>2. Places({"Request"}) # {} /\ events' = RemoveAt(events, First({"Request"}))
  BY DEF CheckRequest
<1>3. events' \in Seq(EventType) /\ ClearInv' /\ Known'
  BY <1>1, <1>2, OtherEventTaken
<1> QED BY <1>1, <1>3 DEF IInv, Shape, OfferedIsLatest, FlagHasEvent

\* The selection of which the loss is read is still lost, and no second clear of
\* it waits.
LEMMA CheckClearStep ==
  ASSUME IInv, CheckClear
  PROVE  IInv'
<1> DEFINE i == First({"Clear"})
           s == events[i].sel
<1>1. events \in Seq(EventType) /\ Len(events) \in Nat /\ Once(events)
  BY Queue
<1>2. i \in 1 .. Len(events) /\ events[i].type = "Clear"
  <2>1. Places({"Clear"}) # {}
    BY DEF CheckClear
  <2> QED BY <1>1, <2>1, FirstFound
<1>3. /\ events' = RemoveAt(events, i)
      /\ own' = [own EXCEPT ![s] = FALSE]
      /\ xcut_str' = [xcut_str EXCEPT ![s] = ""]
      /\ UNCHANGED <<owner, changes, set_cutbuffer>>
  BY DEF CheckClear, xVars
<1> HIDE DEF i
<1>4. s \in Selection
  <2>1. events[i] \in EventType
    BY <1>2, Queue
  <2> QED BY <2>1 DEF EventType
<1>5. \A x \in Selection : IsClear(events, i, x) <=> x = s
  BY <1>2 DEF IsClear
<1> HIDE DEF s
<1>6. /\ events' \in Seq(EventType) /\ Once(events')
      /\ \A x \in Selection : HasClear(events', x) <=> HasClear(events, x) /\ x # s
  BY <1>1, <1>2, <1>3, <1>5, ClearsAfter
<1>7. HasClear(events, s) /\ owner[s] # "x11vnc"
  <2>1. HasClear(events, s)
    BY <1>2, <1>4, <1>5 DEF HasClear
  <2> QED BY <1>4, <2>1 DEF IInv, ClearInv
<1>8. \A x \in Selection : own'[x] = (own[x] /\ x # s) /\ (x # s => xcut_str'[x] = xcut_str[x])
  BY <1>3, <1>4 DEF IInv, Shape
<1>9. Shape'
  BY <1>3, <1>6 DEF IInv, Shape
<1>10. ClearInv'
  BY <1>3, <1>6 DEF IInv, ClearInv
<1>11. Known'
  BY <1>3, <1>6, <1>7, <1>8 DEF IInv, Known
<1>12. OfferedIsLatest' /\ FlagHasEvent'
  BY <1>3, <1>7, <1>8 DEF IInv, OfferedIsLatest, FlagHasEvent
<1> QED BY <1>9, <1>10, <1>11, <1>12 DEF IInv

-----------------------------------------------------------------------------
(***************************************************************************)
(* Types and bounds.  Each request that is under way is a text that an X   *)
(* client is about to put or an event that waits, never both.              *)
(***************************************************************************)
Replies == {"Notify", "Refused"}

Answers(q) == {i \in 1 .. Len(q) : q[i].type \in Replies}
Asked(c)   == {s \in Selection : c[s] # ""}

Values ==
  /\ held \in [Selection -> Text \cup {""}]
  /\ property \in Text \cup {""}
  /\ converting \in [Selection -> Text \cup {""}]
  /\ pasting \in [Selection -> BOOLEAN]
  /\ stored \in [Selection -> Text \cup {""}]
  /\ set_cutbuffer \in BOOLEAN
  /\ wait \in {"", "over", "sent"}
  /\ at \in {"loop", "property", "notify", "ask", "request", "clear"}
  /\ viewers \in {"none", "handshake", "mixed", "normal"}
  /\ told \in Text \cup {"", "CUT_BUFFER0"}

\* Each PropertyNotify that waits is of a text that was cut or received.
CutsInv == cuts \in 0 .. MaxCuts /\ changes \in 0 .. cuts

UnderWay(c, q) == Cardinality(Asked(c)) + Cardinality(Answers(q))

AnswersInv == UnderWay(converting, events) <= MaxOutstanding

TypeInv == Values /\ CutsInv /\ AnswersInv

\* The sets that are counted are finite.
LEMMA Counted ==
  ASSUME NEW c, NEW q \in Seq(EventType)
  PROVE  /\ IsFiniteSet(Asked(c)) /\ Cardinality(Asked(c)) \in Nat
         /\ IsFiniteSet(Answers(q)) /\ Cardinality(Answers(q)) \in Nat
<1>1. IsFiniteSet(Asked(c))
  <2>1. IsFiniteSet({"PRIMARY"})
    BY FS_Singleton
  <2>2. IsFiniteSet({"PRIMARY"} \cup {"CLIPBOARD"})
    BY <2>1, FS_AddElement
  <2>3. {"PRIMARY"} \cup {"CLIPBOARD"} = Selection
    BY DEF Selection
  <2>4. Asked(c) \in SUBSET Selection
    BY DEF Asked
  <2> QED BY <2>2, <2>3, <2>4, FS_Subset
<1>2. IsFiniteSet(Answers(q))
  <2>1. Len(q) \in Int
    BY LenProperties
  <2>2. IsFiniteSet(1 .. Len(q))
    BY <2>1, FS_Interval
  <2>3. Answers(q) \in SUBSET (1 .. Len(q))
    BY DEF Answers
  <2> QED BY <2>2, <2>3, FS_Subset
<1> QED BY <1>1, <1>2, FS_CardinalityType

\* A reply that comes is one more to be read, other events are none.
LEMMA AnswersAppended ==
  ASSUME NEW q \in Seq(EventType), NEW e \in EventType
  PROVE  Cardinality(Answers(Append(q, e)))
           = IF e.type \in Replies THEN Cardinality(Answers(q)) + 1 ELSE Cardinality(Answers(q))
<1> DEFINE n == Len(q)
           r == Append(q, e)
<1>1. n \in Nat
  OBVIOUS
<1>2. Len(r) = n + 1 /\ r[n + 1] = e /\ \A j \in 1 .. n : r[j] = q[j]
  BY <1>1
<1> HIDE DEF r
<1>3. 1 .. n + 1 = (1 .. n) \cup {n + 1} /\ n + 1 \notin 1 .. n
  BY <1>1
<1> HIDE DEF n
<1>4. IsFiniteSet(Answers(q)) /\ n + 1 \notin Answers(q)
  BY <1>3, Counted DEF Answers, n
<1>5. CASE e.type \in Replies
  <2>1. Answers(r) = Answers(q) \cup {n + 1}
    BY <1>2, <1>3, <1>5 DEF Answers, n
  <2>2. Cardinality(Answers(q) \cup {n + 1}) = Cardinality(Answers(q)) + 1
    BY <1>4, FS_AddElement
  <2> QED BY <1>5, <2>1, <2>2 DEF r
<1>6. CASE e.type \notin Replies
  <2>1. Answers(r) = Answers(q)
    BY <1>2, <1>3, <1>6 DEF Answers, n
  <2> QED BY <1>6, <2>1 DEF r
<1> QED BY <1>5, <1>6

\* An event that is read moves those behind it forward; a reply is one less.
LEMMA AnswersRemoved ==
  ASSUME NEW q \in Seq(EventType), NEW i \in 1 .. Len(q)
  PROVE  /\ RemoveAt(q, i) \in Seq(EventType)
         /\ Cardinality(Answers(RemoveAt(q, i))) <= Cardinality(Answers(q) \ {i})
<1> DEFINE n == Len(q)
           r == RemoveAt(q, i)
           from(j) == IF j < i THEN j ELSE j + 1
           move == [j \in Answers(r) |-> from(j)]
           S == Answers(r)
           T == Answers(q) \ {i}
<1>1. n \in Nat /\ i \in 1 .. n
  OBVIOUS
<1>2. /\ r \in Seq(EventType) /\ Len(r) = n - 1
      /\ \A j \in 1 .. n - 1 : r[j] = IF j < i THEN q[j] ELSE q[j + 1]
  BY Removed
<1> HIDE DEF n, r
<1>3. \A j \in 1 .. n - 1 : r[j] = q[from(j)] /\ from(j) \in 1 .. n /\ from(j) # i
  BY <1>1, <1>2
<1>4. \A j, k \in 1 .. n - 1 : from(j) = from(k) => j = k
  BY <1>1
<1> HIDE DEF from
<1>5. \A j \in S : j \in 1 .. n - 1 /\ from(j) \in T
  BY <1>2, <1>3 DEF Answers, n
<1>6. move \in [S -> T] /\ \A j, k \in S : move[j] = move[k] => j = k
  BY <1>4, <1>5
<1>7. /\ IsFiniteSet(S) /\ Cardinality(S) \in Nat
      /\ IsFiniteSet(T) /\ Cardinality(T) \in Nat
  <2>1. IsFiniteSet(Answers(q)) /\ IsFiniteSet(S)
    BY <1>2, Counted
  <2>2. IsFiniteSet(T)
    BY <2>1, FS_RemoveElement
  <2> QED BY <2>1, <2>2, FS_CardinalityType
<1> HIDE DEF S, T, move
<1>8. ~ (Cardinality(T) < Cardinality(S))
  BY <1>6, <1>7, FS_PigeonHole
<1>9. Cardinality(S) <= Cardinality(T)
  BY <1>7, <1>8
<1> QED BY <1>2, <1>9 DEF S, T, r

\* One event less.
LEMMA AnswersTaken ==
  ASSUME IInv, NEW types, Places(types) # {}, NEW q, q = RemoveAt(events, First(types))
  PROVE  /\ q \in Seq(EventType)
         /\ Cardinality(Answers(q)) <= Cardinality(Answers(events))
<1> DEFINE i == First(types)
<1>1. events \in Seq(EventType) /\ Len(events) \in Nat
  BY Queue
<1>2. i \in 1 .. Len(events)
  BY <1>1, FirstFound
<1> HIDE DEF i
<1>3. /\ RemoveAt(events, i) \in Seq(EventType)
      /\ Cardinality(Answers(RemoveAt(events, i))) <= Cardinality(Answers(events) \ {i})
  BY <1>1, <1>2, AnswersRemoved
<1>4. /\ IsFiniteSet(Answers(events)) /\ Cardinality(Answers(events)) \in Nat
      /\ Cardinality(Answers(q)) \in Nat
  BY <1>1, <1>3, Counted DEF i
<1>5. Cardinality(Answers(events) \ {i}) \in Nat
      /\ Cardinality(Answers(events) \ {i}) <= Cardinality(Answers(events))
  <2>1. IsFiniteSet(Answers(events) \ {i})
    BY <1>4, FS_RemoveElement
  <2>2. Answers(events) \ {i} \in SUBSET Answers(events)
    OBVIOUS
  <2> QED BY <1>4, <2>1, <2>2, FS_CardinalityType, FS_Subset
<1> QED BY <1>3, <1>4, <1>5 DEF i

\* Every step leaves values of their types, whatever X clients and viewers do.
LEMMA ValuesStep ==
  ASSUME Values, [Next]_vars
  PROVE  Values'
<1>1. CASE \E s \in Selection, t \in Text : AppTakes(s, t)
  BY <1>1 DEF AppTakes, selVars, viewVars, Values
<1>2. CASE \E s \in Selection : AppLeaves(s)
  BY <1>2 DEF AppLeaves, selVars, viewVars, Values
<1>3. CASE \E s \in Selection : Answer(s)
  <2>1. PICK s \in Selection : Answer(s)
    BY <1>3
  <2>2. /\ converting' = [converting EXCEPT ![s] = ""]
        /\ property' \in {property, converting[s], held[s]}
        /\ UNCHANGED <<held, pasting, selVars, wait, at, viewVars>>
    BY <2>1 DEF Answer
  <2> QED BY <2>2 DEF selVars, viewVars, Values
<1>4. CASE \E s \in Selection : Paste(s)
  BY <1>4 DEF Paste, selVars, viewVars, Values
<1>5. CASE AppSetsCutBuffer
  BY <1>5 DEF AppSetsCutBuffer, xVars, selVars, viewVars, Values
<1>6. CASE ViewersChange \/ WaitOver
  BY <1>6 DEF ViewersChange, WaitOver, xVars, selVars, viewVars, Values
<1>7. CASE xcut_receive
  BY <1>7 DEF xcut_receive, Receive, viewVars, Values
<1>8. CASE SendFirst \/ CheckProperty
  BY <1>8 DEF SendFirst, CheckProperty, ResetFlag, Go, cutbuffer_send, Send, xVars, selVars, Values
<1>9. CASE CheckNotify
  <2>1. /\ at' = "ask"
        /\ UNCHANGED <<held, converting, pasting, set_cutbuffer, wait, viewers>>
    BY <1>9 DEF CheckNotify, Go
  <2>2. \/ told' = "" /\ UNCHANGED <<stored, property>>
        \/ \E s : selection_send(s)
    BY <1>9 DEF CheckNotify
  <2>3. ASSUME NEW s, selection_send(s)
        PROVE  /\ stored' \in [Selection -> Text \cup {""}] /\ property' \in Text \cup {""}
               /\ told' \in Text \cup {"", "CUT_BUFFER0"}
    BY <2>3 DEF selection_send, Send, Values
  <2> QED BY <2>1, <2>2, <2>3 DEF Values
<1>10. CASE \E s \in Selection : Ask(s)
  <2>1. PICK s \in Selection : Ask(s)
    BY <1>10
  <2>2. /\ converting' = [converting EXCEPT ![s] = held[s]] \/ converting' = converting
        /\ at' = "request" /\ told' = ""
        /\ UNCHANGED <<held, property, pasting, selVars, wait, viewers>>
    BY <2>1 DEF Ask, Quiet, Go
  <2> QED BY <2>2 DEF selVars, Values
<1>11. CASE CheckRequest
  <2>1. /\ \E s : pasting' = [pasting EXCEPT ![s] = @ /\ ~own[s]]
        /\ at' = "clear" /\ told' = ""
        /\ UNCHANGED <<held, property, converting, selVars, wait, viewers>>
    BY <1>11 DEF CheckRequest, Quiet, Go
  <2>2. pasting' \in [Selection -> BOOLEAN]
    BY <2>1 DEF Values
  <2> QED BY <2>1, <2>2 DEF selVars, Values
<1>12. CASE CheckClear \/ NothingToDo
  BY <1>12 DEF CheckClear, NothingToDo, Quiet, Go, xVars, selVars, Values
<1>13. CASE UNCHANGED vars
  BY <1>13 DEF vars, xVars, selVars, viewVars, Values
<1> QED
  BY <1>1, <1>2, <1>3, <1>4, <1>5, <1>6, <1>7, <1>8, <1>9, <1>10, <1>11, <1>12, <1>13
     DEF Next, Viewers, Display, check_xevents

\* A change of the cut buffer is counted with the text it is of.
LEMMA CutsStep ==
  ASSUME CutsInv, [Next]_vars
  PROVE  CutsInv'
<1>1. cuts \in Int /\ changes \in Int /\ MaxCuts \in Nat
      /\ 0 <= changes /\ changes <= cuts /\ cuts <= MaxCuts
  <2>1. MaxCuts \in Nat
    BY ClipboardAssumption
  <2>2. cuts \in 0 .. MaxCuts /\ changes \in 0 .. cuts
    BY DEF CutsInv
  <2> QED BY <2>1, <2>2
<1>2. \/ cuts' = cuts /\ changes' = changes
      \/ cuts < MaxCuts /\ cuts' = cuts + 1 /\ (changes' = changes \/ changes' = changes + 1)
      \/ cuts' = cuts /\ changes' \in 0 .. changes - 1
  <2>1. CASE Viewers
    BY <2>1 DEF Viewers, ViewersChange, WaitOver, xcut_receive, Receive, evVars
  <2>2. CASE Display
    BY <2>2 DEF Display, AppTakes, AppLeaves, AppSetsCutBuffer, Answer, Paste, evVars
  <2>3. CASE check_xevents
    BY <2>3 DEF check_xevents, SendFirst, CheckProperty, CheckNotify, Ask, CheckRequest,
       CheckClear, NothingToDo, evVars
  <2>4. CASE UNCHANGED vars
    BY <2>4 DEF vars, evVars
  <2> QED BY <2>1, <2>2, <2>3, <2>4 DEF Next
<1> QED BY <1>1, <1>2 DEF CutsInv

\* What is under way does not grow when less is asked for and no reply comes.
LEMMA NoMoreUnderWay ==
  ASSUME IInv, AnswersInv, NEW c, Asked(c) \subseteq Asked(converting),
         NEW q \in Seq(EventType), Cardinality(Answers(q)) <= Cardinality(Answers(events))
  PROVE  UnderWay(c, q) <= MaxOutstanding
<1>1. events \in Seq(EventType)
  BY Queue
<1>2. /\ IsFiniteSet(Asked(converting)) /\ Cardinality(Asked(converting)) \in Nat
      /\ Cardinality(Answers(events)) \in Nat
      /\ Cardinality(Asked(c)) \in Nat /\ Cardinality(Answers(q)) \in Nat
  BY <1>1, Counted
<1>3. Cardinality(Asked(c)) <= Cardinality(Asked(converting))
  BY <1>2, FS_Subset
<1>4. UnderWay(converting, events) <= MaxOutstanding /\ MaxOutstanding \in Nat
  BY ClipboardAssumption DEF AnswersInv
<1> QED BY <1>2, <1>3, <1>4 DEF UnderWay

\* A text becomes an event: one less that is to be put, one more to be read.
LEMMA AnswerCounts ==
  ASSUME IInv, Values, AnswersInv, NEW s \in Selection, Answer(s)
  PROVE  AnswersInv'
<1>1. events \in Seq(EventType)
  BY Queue
<1>2. PICK e \in EventType : e.type \in Replies /\ events' = Append(events, e)
  <2>1. \A type \in Replies : Event(type, s) \in EventType /\ Event(type, s).type \in Replies
    BY DEF Event, EventType, Replies
  <2>2. \E type \in Replies : events' = Append(events, Event(type, s))
    BY DEF Answer, Replies
  <2> QED BY <2>1, <2>2
<1>3. Cardinality(Answers(events')) = Cardinality(Answers(events)) + 1
  BY <1>1, <1>2, AnswersAppended
<1>4. s \in Asked(converting) /\ Asked(converting') = Asked(converting) \ {s}
  BY DEF Answer, Asked, Values
<1>5. IsFiniteSet(Asked(converting)) /\ Cardinality(Asked(converting)) \in Nat
      /\ Cardinality(Answers(events)) \in Nat
  BY <1>1, Counted
<1>6. Cardinality(Asked(converting')) = Cardinality(Asked(converting)) - 1
  BY <1>4, <1>5, FS_RemoveElement
<1>7. UnderWay(converting', events') = UnderWay(converting, events)
  BY <1>3, <1>5, <1>6 DEF UnderWay
<1> QED BY <1>7 DEF AnswersInv

\* x11vnc asks only while fewer are under way than the bound: one more is no
\* more than the bound.
LEMMA AskCounts ==
  ASSUME IInv, Values, AnswersInv, NEW s \in Selection, Ask(s)
  PROVE  AnswersInv'
<1>1. events \in Seq(EventType)
  BY Queue
<1>2. events' = events /\ UnderWay(converting, events) < MaxOutstanding
  BY DEF Ask, evVars, TimeToAsk, Outstanding, Places, UnderWay, Asked, Answers, Replies
<1>3. Asked(converting') \in SUBSET (Asked(converting) \cup {s})
  BY DEF Ask, Asked, Values
<1>4. IsFiniteSet(Asked(converting)) /\ Cardinality(Asked(converting)) \in Nat
      /\ Cardinality(Asked(converting')) \in Nat
      /\ Cardinality(Answers(events)) \in Nat
  BY <1>1, Counted
<1>5. IsFiniteSet(Asked(converting) \cup {s})
      /\ Cardinality(Asked(converting) \cup {s}) <= Cardinality(Asked(converting)) + 1
      /\ Cardinality(Asked(converting) \cup {s}) \in Nat
  <2> DEFINE S == Asked(converting) \cup {s}
  <2>1. IsFiniteSet(S)
    BY <1>4, FS_AddElement
  <2>2. \/ Cardinality(S) = Cardinality(Asked(converting))
        \/ Cardinality(S) = Cardinality(Asked(converting)) + 1
    BY <1>4, FS_AddElement
  <2>3. Cardinality(S) \in Nat
    BY <2>1, FS_CardinalityType
  <2> HIDE DEF S
  <2>4. Cardinality(S) <= Cardinality(Asked(converting)) + 1
    BY <1>4, <2>2
  <2> QED BY <2>1, <2>3, <2>4 DEF S
<1>6. Cardinality(Asked(converting')) <= Cardinality(Asked(converting) \cup {s})
  BY <1>3, <1>5, FS_Subset
<1>7. MaxOutstanding \in Nat
  BY ClipboardAssumption
<1> QED BY <1>2, <1>4, <1>5, <1>6, <1>7 DEF UnderWay, AnswersInv

\* Through every step x11vnc waits for no more answers than the bound.
LEMMA AnswersStep ==
  ASSUME IInv, Values, AnswersInv, [Next]_vars
  PROVE  AnswersInv'
<1>1. events \in Seq(EventType)
  BY Queue
<1>2. Cardinality(Answers(events)) \in Nat
  BY <1>1, Counted
<1>3. SUFFICES ASSUME /\ \A s \in Selection : ~ Answer(s)
                      /\ \A s \in Selection : ~ Ask(s)
               PROVE  /\ Asked(converting') \subseteq Asked(converting)
                      /\ events' \in Seq(EventType)
                      /\ Cardinality(Answers(events')) <= Cardinality(Answers(events))
  BY AnswerCounts, AskCounts, NoMoreUnderWay DEF AnswersInv
<1>4. CASE \E s \in Selection : AppLeaves(s)
  <2>1. events' = events /\ Asked(converting') \subseteq Asked(converting)
    BY <1>4 DEF AppLeaves, evVars, Asked, Values
  <2> QED BY <1>1, <1>2, <2>1
<1>5. CASE \E s \in Selection : (\E t \in Text : AppTakes(s, t)) \/ Paste(s)
  <2>1. PICK s \in Selection : (\E t \in Text : AppTakes(s, t)) \/ Paste(s)
    BY <1>5
  <2>2. /\ converting' = converting
        /\ \/ events' = events
           \/ \E type \in {"Clear", "Request"} : events' = Append(events, Event(type, s))
    BY <2>1 DEF AppTakes, Paste
  <2>3. ASSUME NEW type \in {"Clear", "Request"}, events' = Append(events, Event(type, s))
        PROVE  /\ events' \in Seq(EventType)
               /\ Cardinality(Answers(events')) = Cardinality(Answers(events))
    <3> DEFINE e == Event(type, s)
    <3>1. e \in EventType /\ e.type \notin Replies
      BY DEF Event, EventType, Replies
    <3> HIDE DEF e
    <3>2. Append(events, e) \in Seq(EventType)
      BY <1>1, <3>1
    <3>3. Cardinality(Answers(Append(events, e))) = Cardinality(Answers(events))
      BY <1>1, <3>1, AnswersAppended
    <3> QED BY <2>3, <3>2, <3>3 DEF e
  <2> QED BY <1>1, <1>2, <2>2, <2>3
<1>6. CASE CheckNotify \/ CheckRequest \/ CheckClear
  <2>1. PICK types : Places(types) # {} /\ events' = RemoveAt(events, First(types))
    BY <1>6 DEF CheckNotify, CheckRequest, CheckClear
  <2>2. converting' = converting
    BY <1>6 DEF CheckNotify, CheckRequest, CheckClear, xVars
  <2> QED BY <2>1, <2>2, AnswersTaken
<1>7. CASE Viewers \/ AppSetsCutBuffer \/ SendFirst \/ CheckProperty \/ NothingToDo
           \/ UNCHANGED vars
  <2>1. events' = events /\ converting' = converting
    BY <1>7 DEF Viewers, ViewersChange, WaitOver, xcut_receive, Receive, AppSetsCutBuffer,
       SendFirst, CheckProperty, NothingToDo, vars, xVars, evVars
  <2> QED BY <1>1, <1>2, <2>1
<1> QED BY <1>3, <1>4, <1>5, <1>6, <1>7 DEF Next, Display, check_xevents

-----------------------------------------------------------------------------
(***************************************************************************)
(* The theorems.                                                           *)
(***************************************************************************)
LEMMA InitIInv == Init => IInv
<1> SUFFICES ASSUME Init
             PROVE  IInv
  OBVIOUS
<1>1. /\ owner = [s \in Selection |-> "none"] /\ own = [s \in Selection |-> FALSE]
      /\ xcut_str = [s \in Selection |-> ""]
      /\ events = <<>> /\ changes = 0 /\ set_cutbuffer = FALSE
  BY DEF Init
<1>2. Len(events) = 0 /\ events \in Seq(EventType)
  BY <1>1, EmptySeq
<1>3. \A s \in Selection : ~HasClear(events, s)
  BY <1>2 DEF HasClear
<1>4. Once(events)
  BY <1>2 DEF Once
<1>5. Shape
  BY <1>1, <1>2 DEF Shape
<1>6. ClearInv
  BY <1>3, <1>4 DEF ClearInv
<1> QED BY <1>1, <1>3, <1>5, <1>6 DEF IInv, Known, OfferedIsLatest, FlagHasEvent

\* Every step of x11vnc, its viewers and the X clients keeps the invariant.
LEMMA NextIInv == IInv /\ [Next]_vars => IInv'
<1> SUFFICES ASSUME IInv, [Next]_vars
             PROVE  IInv'
  OBVIOUS
<1>1. CASE Viewers
  <2>1. CASE xcut_receive
    BY <2>1, xcut_receiveStep
  <2>2. CASE ViewersChange \/ WaitOver
    <3>1. UNCHANGED <<owner, events, changes, own, xcut_str, set_cutbuffer>>
      BY <2>2 DEF ViewersChange, WaitOver, xVars, evVars, selVars
    <3> QED BY <3>1, Untouched
  <2> QED BY <1>1, <2>1, <2>2 DEF Viewers
<1>2. CASE Display
  <2>1. CASE \E s \in Selection : AppLeaves(s) \/ Answer(s) \/ Paste(s)
    BY <2>1, AppLeavesStep, AnswerStep, PasteStep
  <2>2. CASE \E s \in Selection, t \in Text : AppTakes(s, t)
    BY <2>2, AppTakesStep
  <2>3. CASE AppSetsCutBuffer
    BY <2>3, AppSetsCutBufferStep
  <2> QED BY <1>2, <2>1, <2>2, <2>3 DEF Display
<1>3. CASE check_xevents
  <2>1. CASE CheckProperty
    BY <2>1, CheckPropertyStep
  <2>2. CASE CheckNotify
    BY <2>2, CheckNotifyStep
  <2>3. CASE CheckRequest
    BY <2>3, CheckRequestStep
  <2>4. CASE CheckClear
    BY <2>4, CheckClearStep
  <2>5. CASE SendFirst \/ NothingToDo \/ \E s \in Selection : Ask(s)
    <3>1. UNCHANGED <<owner, events, changes, own, xcut_str, set_cutbuffer>>
      BY <2>5 DEF SendFirst, NothingToDo, Ask, xVars, evVars, selVars
    <3> QED BY <3>1, Untouched
  <2> QED BY <1>3, <2>1, <2>2, <2>3, <2>4, <2>5 DEF check_xevents
<1>4. CASE UNCHANGED vars
  <2>1. UNCHANGED <<owner, events, changes, own, xcut_str, set_cutbuffer>>
    BY <1>4 DEF vars, xVars, evVars, selVars
  <2> QED BY <2>1, Untouched
<1> QED BY <1>1, <1>2, <1>3, <1>4 DEF Next

\* In all behaviours of check_xevents, xcut_receive and the X clients: what x11vnc
\* has of the selections and of the cut buffer agrees with the events that wait.
THEOREM ClipboardInvariance == Spec => []IInv
<1> QED BY InitIInv, NextIInv, PTL DEF Spec

\* x11vnc takes a selection for its own until it reads the SelectionClear, and no
\* longer.
THEOREM OwnershipIsKnown == Spec => []OwnershipKnown
<1>1. IInv => OwnershipKnown
  <2> SUFFICES ASSUME IInv, NEW s \in Selection
               PROVE  own[s] <=> owner[s] = "x11vnc" \/ Pending("Clear", s)
    BY DEF OwnershipKnown
  <2>1. ASSUME NEW i \in 1 .. Len(events)
        PROVE  events[i] = Event("Clear", s) <=> IsClear(events, i, s)
    <3>1. events[i] \in EventType
      BY Queue
    <3> QED BY <3>1 DEF EventType, Event, IsClear
  <2>2. Pending("Clear", s) <=> HasClear(events, s)
    BY <2>1 DEF Pending, HasClear
  <2> QED BY <2>2 DEF IInv, Known
<1> QED BY <1>1, ClipboardInvariance, PTL

\* While x11vnc has a selection, X clients paste the viewers' latest text.
THEOREM LatestIsOffered == Spec => []OfferedIsLatest
<1>1. IInv => OfferedIsLatest
  BY DEF IInv
<1> QED BY <1>1, ClipboardInvariance, PTL

\* set_cutbuffer is never left behind by the event that it is set for.
THEOREM FlagIsTemporary == Spec => []FlagHasEvent
<1>1. IInv => FlagHasEvent
  BY DEF IInv
<1> QED BY <1>1, ClipboardInvariance, PTL

\* Type correctness, which counts the answers under way: x11vnc never waits for
\* more of them than the pause between two requests allows, and no more changes
\* of the cut buffer wait than texts were cut.
THEOREM ClipboardTypes == Spec => []TypeOK
<1>1. Init => TypeInv
  <2> SUFFICES ASSUME Init
               PROVE  TypeInv
    OBVIOUS
  <2>1. /\ MaxCuts \in Nat /\ MaxOutstanding \in Nat
        /\ cuts = 0 /\ changes = 0 /\ Len(events) = 0
    BY ClipboardAssumption, EmptySeq DEF Init
  <2>2. Asked(converting) = {} /\ Answers(events) = {}
    <3>1. \A s \in Selection : converting[s] = ""
      BY DEF Init
    <3>2. 1 .. Len(events) = {}
      BY <2>1
    <3> QED BY <3>1, <3>2 DEF Asked, Answers
  <2>3. UnderWay(converting, events) = 0
    BY <2>2, FS_EmptySet DEF UnderWay
  <2>4. Values
    BY DEF Init, Values
  <2>5. CutsInv
    BY <2>1 DEF CutsInv
  <2>6. AnswersInv
    BY <2>1, <2>3 DEF AnswersInv
  <2> QED BY <2>4, <2>5, <2>6 DEF TypeInv
<1>2. IInv /\ TypeInv /\ [Next]_vars => TypeInv'
  BY ValuesStep, CutsStep, AnswersStep DEF TypeInv
<1>3. IInv /\ TypeInv => TypeOK
  <2> SUFFICES ASSUME IInv, TypeInv
               PROVE  TypeOK
    OBVIOUS
  <2>1. \A i \in 1 .. Len(events) :
          events[i] \in [type : {"Notify", "Refused", "Request", "Clear"}, sel : Selection]
    BY Queue DEF EventType
  <2>2. Outstanding <= MaxOutstanding
    BY DEF TypeInv, AnswersInv, UnderWay, Asked, Answers, Replies, Outstanding, Places
  <2>3. cuts \in 0 .. MaxCuts /\ changes \in 0 .. MaxCuts
    <3>1. MaxCuts \in Nat
      BY ClipboardAssumption
    <3>2. cuts \in 0 .. MaxCuts /\ changes \in 0 .. cuts
      BY DEF TypeInv, CutsInv
    <3> QED BY <3>1, <3>2
  <2> QED BY <2>1, <2>2, <2>3 DEF TypeInv, Values, IInv, Shape, TypeOK
<1> QED BY <1>1, <1>2, <1>3, ClipboardInvariance, PTL DEF Spec
=============================================================================
