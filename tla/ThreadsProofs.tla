---------------------------- MODULE ThreadsProofs ----------------------------
(***************************************************************************)
(* Proofs about client records under -threads, for any number of clients   *)
(* and of threads that walk the list.  Whoever calls                       *)
(* rfbClientConnectionGone: references are counted exactly, a record       *)
(* referenced while it was linked is not freed under its user, and who     *)
(* waits for references to be dropped has one to wait for.  Where only     *)
(* clientInput and the listener call it: the list stays a list, and a      *)
(* record is freed after the threads that serve its client.                *)
(***************************************************************************)
EXTENDS ClientThreads, FiniteSetTheorems, TLAPS

(***************************************************************************)
(* The invariant that holds for all callers, in named parts.               *)
(***************************************************************************)
\* A record has threads only once it has been linked.
StartInv ==
  \A c \in Clients :
    /\ record[c] = "new" => input[c] = "none"
    /\ input[c] \in {"none", "new", "create"} => output[c] = "none"

\* The list and the walkers know only records that have been linked.
Known == {c \in Clients : record[c] # "new"}

KnownInv ==
  /\ head \in Known \cup {Null}
  /\ \A c \in Clients : next[c] \in Known \cup {Null}
  /\ \A w \in Walkers : walk[w].next \in Known \cup {Null} /\ walk[w].matched \subseteq Known

\* The pointers of an iterator are set where it follows them.
WalkInv ==
  \A w \in Walkers :
    /\ walk[w].at \in {"take", "visit"} => walk[w].next # Null
    /\ walk[w].at = "drop" => walk[w].old \in Clients

\* rfbClientConnectionGone works on a record that it has taken out of the list,
\* and a walker calls it without a reference, unless for close_all_clients.
GoneInv ==
  /\ \A t \in Threads :
       /\ gone[t].at # "no" => gone[t].of \in Known
       /\ gone[t].at \in {"drain", "wait", "unlock", "free"}
            => record[gone[t].of] \in {"unlinked", "freed"}
  /\ \A w \in Walkers :
       gone[w].at # "no" => "all" \in GoneCallers \/ walk[w].at \in {"idle", "matched"}

\* A record referenced while it was linked has not got past a drain.
PinInv ==
  \A w \in Walkers, c \in Clients :
    walk[w].pinned /\ Holds(w, c) =>
      /\ record[c] \in {"linked", "unlinked"}
      /\ \A t \in Threads : gone[t].at \in {"unlock", "free"} => gone[t].of # c

\* Who waits for references to be dropped has one to wait for.
WaitInv ==
  \A t \in Threads : gone[t].at = "wait" => refCount[gone[t].of] > 0

IInv ==
  /\ TypeOK /\ RefCountExact /\ StartInv /\ KnownInv /\ WalkInv
  /\ GoneInv /\ PinInv /\ WaitInv

(***************************************************************************)
(* Counting the threads that hold a record.                                *)
(***************************************************************************)
\* When one walker moves, the number of holders changes by what it does.
LEMMA HoldersStep ==
  ASSUME NEW w \in Walkers, NEW c \in Clients,
         \A v \in Walkers \ {w} : walk'[v] = walk[v]
  PROVE  /\ Cardinality(Holders(c)) \in Nat
         /\ Holds(w, c) => Cardinality(Holders(c)) > 0
         /\ Cardinality(Holders(c)') =
              Cardinality(Holders(c)) + (IF Holds(w, c)' THEN 1 ELSE 0)
                                      - (IF Holds(w, c) THEN 1 ELSE 0)
<1>1. IsFiniteSet(Holders(c)) /\ Cardinality(Holders(c)) \in Nat
  BY ThreadsAssumption, FS_Subset, FS_CardinalityType DEF Holders
<1>2. Holders(c)' = IF Holds(w, c)' THEN Holders(c) \cup {w} ELSE Holders(c) \ {w}
  BY DEF Holders, Holds
<1>3. w \in Holders(c) <=> Holds(w, c)
  BY DEF Holders
<1>4. Holds(w, c) => Cardinality(Holders(c)) > 0
  BY <1>1, <1>3, FS_EmptySet
<1>5. /\ Cardinality(Holders(c) \cup {w}) =
           IF w \in Holders(c) THEN Cardinality(Holders(c)) ELSE Cardinality(Holders(c)) + 1
      /\ Cardinality(Holders(c) \ {w}) =
           IF w \in Holders(c) THEN Cardinality(Holders(c)) - 1 ELSE Cardinality(Holders(c))
  BY <1>1, FS_AddElement, FS_RemoveElement
<1> QED
  BY <1>1, <1>2, <1>3, <1>4, <1>5

\* Nobody holds a record whose counter is zero.
LEMMA NoHolder ==
  ASSUME RefCountExact, NEW c \in Clients, refCount[c] = 0
  PROVE  \A w \in Walkers : ~Holds(w, c)
<1>1. IsFiniteSet(Holders(c)) /\ Cardinality(Holders(c)) \in Nat
  BY ThreadsAssumption, FS_Subset, FS_CardinalityType DEF Holders
<1>2. Cardinality(Holders(c)) = 0
  BY <1>1 DEF RefCountExact, Sending
<1> QED
  BY <1>1, <1>2, FS_EmptySet DEF Holders

\* The server starts with an empty list, unreferenced records and no iterator.
LEMMA InitInv == Init => IInv
<1> SUFFICES ASSUME Init PROVE IInv
  OBVIOUS
<1>1. TypeOK /\ StartInv /\ KnownInv /\ WalkInv /\ GoneInv /\ PinInv /\ WaitInv
  BY ThreadsAssumption DEF Init, AtStart, NotGone, TypeOK, Pointer, InputAt, OutputAt, WalkAt,
     GoneAt, Threads, StartInv, KnownInv, WalkInv, GoneInv, PinInv, WaitInv
<1>2. \A c \in Clients : Holders(c) = {}
  BY DEF Init, AtStart, Holders, Holds
<1>3. RefCountExact
  BY <1>2, FS_EmptySet DEF Init, RefCountExact, Sending
<1> QED
  BY <1>1, <1>3 DEF IInv

\* A step that leaves the walkers, Sending and the counters alone keeps the count.
LEMMA CountKept ==
  ASSUME RefCountExact, walk' = walk, refCount' = refCount,
         \A c \in Clients : Sending(c)' = Sending(c)
  PROVE  RefCountExact'
<1>1. \A c \in Clients : Holders(c)' = Holders(c)
  BY DEF Holders, Holds
<1> QED
  BY <1>1 DEF RefCountExact

\* A call of rfbClientConnectionGone moves one thread.
LEMMA EntersGone ==
  ASSUME TypeOK, NEW t \in Threads, NEW c \in Clients, EnterGone(t, c)
  PROVE  /\ gone' \in [Threads -> [at : GoneAt, of : Pointer]]
         /\ gone'[t].at = "unlink" /\ gone'[t].of = c
         /\ \A u \in Threads \ {t} : gone'[u] = gone[u]
<1>1. gone \in [Threads -> [at : GoneAt, of : Pointer]]
  BY DEF TypeOK
<1>2. [at |-> "unlink", of |-> c] \in [at : GoneAt, of : Pointer]
  BY DEF GoneAt, Pointer
<1> QED
  BY <1>1, <1>2 DEF EnterGone

(***************************************************************************)
(* The listener and the input thread.                                      *)
(***************************************************************************)
\* rfbNewTCPOrUDPClient links a record; clientInput starts, refuses or reads
\* from its client, and enters rfbClientConnectionGone at its end.
LEMMA ServeInv ==
  ASSUME IInv, NEW c \in Clients, Listener(c) \/ Input(c)
  PROVE  IInv'
<1> USE DEF Listener, Input, Returned, CloseClient, SignalUpdate, Announce, SetSilently, listVars
<1>1. /\ UNCHANGED <<walk, refCount, listMutex>>
      /\ gone' = gone \/ EnterGone(c, c)
      /\ gone[c].at = "no"
      /\ Accept(c) \/ UNCHANGED <<head, next, prev, record>>
  <2>1. UNCHANGED <<walk, refCount, listMutex>> /\ (gone' = gone \/ EnterGone(c, c))
    BY DEF Accept, StartClient, RefuseClient, CreateOutput, CheckInput, UpdateRequest, SetEncodings,
       ReadFails, ScaleFails, SelectError, WakeOutput, Join
  <2>2. gone[c].at = "no"
    OBVIOUS
  <2>3. Accept(c) \/ UNCHANGED <<head, next, prev, record>>
    BY DEF StartClient, RefuseClient, CreateOutput, CheckInput, UpdateRequest, SetEncodings,
       ReadFails, ScaleFails, SelectError, WakeOutput, Join
  <2> QED
    BY <2>1, <2>2, <2>3
<1>2. \A x \in Clients : Sending(x)' = Sending(x)
  BY DEF Accept, StartClient, RefuseClient, CreateOutput, CheckInput, UpdateRequest, SetEncodings,
     ReadFails, ScaleFails, SelectError, WakeOutput, Join, IInv, TypeOK, StartInv, Sending
<1>3. \A x \in Clients : record'[x] = record[x] \/ (record[x] = "new" /\ record'[x] = "linked")
  <2>1. record \in [Clients -> {"new", "linked", "unlinked", "freed"}]
    BY DEF IInv, TypeOK
  <2> QED
    BY <1>1, <2>1 DEF Accept
<1>4. /\ gone' \in [Threads -> [at : GoneAt, of : Pointer]]
      /\ \A t \in Threads :
           gone'[t] = gone[t] \/ (t = c /\ gone'[t].at = "unlink" /\ gone'[t].of = c)
  BY <1>1, EntersGone DEF IInv, TypeOK, Threads
<1>5. UNCHANGED gone \/ record[c] # "new"
  BY DEF Accept, StartClient, RefuseClient, CreateOutput, CheckInput, UpdateRequest, SetEncodings,
     ReadFails, ScaleFails, SelectError, WakeOutput, Join, IInv, StartInv
<1>6. TypeOK'
  <2>1. CASE Accept(c)
    BY <1>1, <1>4, <2>1 DEF Accept, IInv, TypeOK, Pointer, InputAt
  <2>2. CASE ~Accept(c)
    <3>1. listener' \in {listener, Null}
      BY <2>2 DEF StartClient, RefuseClient, CreateOutput, CheckInput, UpdateRequest, SetEncodings,
         ReadFails, ScaleFails, SelectError, WakeOutput, Join
    <3>2. input' \in [Clients -> InputAt] /\ output' \in [Clients -> OutputAt]
      BY <2>2 DEF StartClient, RefuseClient, CreateOutput, CheckInput, UpdateRequest, SetEncodings,
         ReadFails, ScaleFails, SelectError, WakeOutput, Join, IInv, TypeOK, InputAt, OutputAt
    <3>3. /\ open' \in [Clients -> BOOLEAN]
          /\ work' \in [Clients -> {"none", "silent", "announced"}]
      BY <2>2 DEF StartClient, RefuseClient, CreateOutput, CheckInput, UpdateRequest, SetEncodings,
         ReadFails, ScaleFails, SelectError, WakeOutput, Join, IInv, TypeOK
    <3> QED
      BY <1>1, <1>4, <2>2, <3>1, <3>2, <3>3 DEF IInv, TypeOK, Pointer
  <2> QED
    BY <2>1, <2>2
<1>7. StartInv'
  BY <1>6 DEF Accept, StartClient, RefuseClient, CreateOutput, CheckInput, UpdateRequest,
     SetEncodings, ReadFails, ScaleFails, SelectError, WakeOutput, Join, IInv, TypeOK, StartInv
<1>8. KnownInv'
  <2>1. CASE Accept(c)
    <3>1. record'[c] # "new"
      BY <2>1 DEF Accept, IInv, TypeOK
    <3> QED
      BY <1>1, <1>3, <2>1, <3>1 DEF Accept, IInv, TypeOK, KnownInv, Known
  <2>2. CASE ~Accept(c)
    BY <1>1, <2>2 DEF IInv, KnownInv, Known
  <2> QED
    BY <2>1, <2>2
<1>9. GoneInv'
  BY <1>1, <1>3, <1>4, <1>5, ThreadsAssumption DEF IInv, GoneInv, Known, Threads
<1>10. PinInv'
  BY <1>1, <1>3, <1>4 DEF IInv, PinInv, Holds
<1>11. WaitInv' /\ WalkInv'
  BY <1>1, <1>4 DEF IInv, WaitInv, WalkInv
<1> QED
  BY <1>1, <1>2, <1>6, <1>7, <1>8, <1>9, <1>10, <1>11, CountKept DEF IInv

(***************************************************************************)
(* rfbClientConnectionGone, in any thread.                                 *)
(***************************************************************************)
\* It takes the record out of the list.
LEMMA UnlinkInv ==
  ASSUME IInv, NEW t \in Threads, Unlink(t)
  PROVE  IInv'
<1> DEFINE c == gone[t].of
<1>1. c \in Clients /\ record[c] # "new" /\ gone[t].at = "unlink"
  BY DEF Unlink, IInv, GoneInv, Known
<1>2. UNCHANGED <<open, refCount, work, listener, input, output, walk>> /\ listMutex' = t
  BY DEF Unlink
<1>3. /\ gone' \in [Threads -> [at : GoneAt, of : Pointer]]
      /\ gone'[t].at = "drain" /\ gone'[t].of = c
      /\ \A u \in Threads \ {t} : gone'[u] = gone[u]
  BY DEF Unlink, IInv, TypeOK, GoneAt
<1>4. /\ record' \in [Clients -> {"new", "linked", "unlinked", "freed"}]
      /\ record'[c] = IF record[c] = "linked" THEN "unlinked" ELSE record[c]
      /\ \A x \in Clients \ {c} : record'[x] = record[x]
  BY <1>1 DEF Unlink, IInv, TypeOK
<1>5. /\ head' \in {head, next[c]}
      /\ prev' \in [Clients -> Pointer]
      /\ next' \in [Clients -> Pointer] /\ \A x \in Clients : next'[x] \in {next[x], next[c]}
  BY <1>1 DEF Unlink, IInv, TypeOK, Pointer
<1>6. TypeOK'
  BY <1>1, <1>2, <1>3, <1>4, <1>5 DEF IInv, TypeOK
<1>7. RefCountExact'
  BY <1>2, CountKept DEF IInv, Sending
<1>8. StartInv' /\ WalkInv' /\ WaitInv'
  BY <1>1, <1>2, <1>3, <1>4 DEF IInv, StartInv, WalkInv, WaitInv
<1>9. KnownInv'
  BY <1>1, <1>2, <1>4, <1>5 DEF IInv, KnownInv, Known
<1>10. GoneInv'
  BY <1>1, <1>2, <1>3, <1>4, ThreadsAssumption DEF IInv, GoneInv, Known, Threads
<1>11. PinInv'
  BY <1>1, <1>2, <1>3, <1>4 DEF IInv, PinInv, Holds
<1> QED
  BY <1>6, <1>7, <1>8, <1>9, <1>10, <1>11 DEF IInv

\* It looks at the counter, and waits or goes on with nobody left.
LEMMA DrainInv ==
  ASSUME IInv, NEW t \in Threads, Drain(t)
  PROVE  IInv'
<1> DEFINE c == gone[t].of
<1>1. c \in Clients /\ gone[t].at = "drain" /\ refCount[c] \in Nat
  BY DEF Drain, IInv, TypeOK, GoneInv, Known
<1>2. UNCHANGED <<head, next, prev, record, open, refCount, work, listMutex, listener, input, output,
                  walk>>
  BY DEF Drain, listVars
<1>3. /\ gone' \in [Threads -> [at : GoneAt, of : Pointer]]
      /\ gone'[t].at = IF refCount[c] > 0 THEN "wait" ELSE "unlock"
      /\ gone'[t].of = c
      /\ \A u \in Threads \ {t} : gone'[u] = gone[u]
  BY DEF Drain, IInv, TypeOK, GoneAt
<1>4. TypeOK'
  BY <1>2, <1>3 DEF IInv, TypeOK
<1>5. RefCountExact'
  BY <1>2, CountKept DEF IInv, Sending
<1>6. StartInv' /\ KnownInv' /\ WalkInv'
  BY <1>2 DEF IInv, StartInv, KnownInv, Known, WalkInv
<1>7. GoneInv' /\ WaitInv'
  BY <1>1, <1>2, <1>3 DEF IInv, GoneInv, WaitInv, Known, Threads
<1>8. PinInv'
  <2>1. CASE refCount[c] = 0
    BY <1>1, <1>2, <1>3, <2>1, NoHolder DEF IInv, PinInv, Holds
  <2>2. CASE refCount[c] > 0
    BY <1>1, <1>2, <1>3, <2>2 DEF IInv, PinInv, Holds
  <2> QED
    BY <1>1, <2>1, <2>2
<1> QED
  BY <1>4, <1>5, <1>6, <1>7, <1>8 DEF IInv

\* It unlocks the list and frees the record.
LEMMA FreeInv ==
  ASSUME IInv, NEW t \in Threads, UnlockList(t) \/ Free(t)
  PROVE  IInv'
<1> DEFINE c == gone[t].of
<1>1. /\ c \in Clients /\ gone[t].at \in {"unlock", "free"}
      /\ record[c] \in {"unlinked", "freed"}
  BY DEF UnlockList, Free, IInv, GoneInv, Known
<1>2. /\ UNCHANGED <<head, next, prev, open, refCount, work, input, output, walk>>
      /\ listMutex' \in {listMutex, Null} /\ listener' \in {listener, Null}
  BY DEF UnlockList, Free, listVars
<1>3. /\ gone' \in [Threads -> [at : GoneAt, of : Pointer]]
      /\ gone'[t].at = "no" \/ (gone'[t].at = "free" /\ gone'[t].of = c)
      /\ \A u \in Threads \ {t} : gone'[u] = gone[u]
  <2>1. CASE UnlockList(t)
    BY <2>1 DEF UnlockList, IInv, TypeOK, GoneAt
  <2>2. CASE Free(t)
    <3>1. NotGone \in [at : GoneAt, of : Pointer] /\ NotGone.at = "no"
      BY DEF NotGone, GoneAt, Pointer
    <3> QED
      BY <2>2, <3>1 DEF Free, IInv, TypeOK
  <2> QED
    BY <2>1, <2>2
<1>4. /\ record' \in [Clients -> {"new", "linked", "unlinked", "freed"}]
      /\ record'[c] \in {"unlinked", "freed"}
      /\ \A x \in Clients \ {c} : record'[x] = record[x]
  BY <1>1 DEF UnlockList, Free, IInv, TypeOK
<1>5. TypeOK'
  BY <1>2, <1>3, <1>4 DEF IInv, TypeOK, Pointer
<1>6. RefCountExact'
  BY <1>2, CountKept DEF IInv, Sending
<1>7. StartInv' /\ KnownInv' /\ WalkInv' /\ WaitInv'
  BY <1>1, <1>2, <1>3, <1>4 DEF IInv, StartInv, KnownInv, Known, WalkInv, WaitInv
<1>8. GoneInv'
  BY <1>1, <1>2, <1>3, <1>4 DEF IInv, GoneInv, Known, Threads
<1>9. PinInv'
  BY <1>1, <1>2, <1>3, <1>4 DEF IInv, PinInv, Holds
<1> QED
  BY <1>5, <1>6, <1>7, <1>8, <1>9 DEF IInv

(***************************************************************************)
(* The output thread.                                                      *)
(***************************************************************************)
\* clientOutput waits or sends: its reference stays what it is.
LEMMA OutputWaitsInv ==
  ASSUME IInv, NEW c \in Clients, CheckOutput(c) \/ WaitForUpdate(c) \/ SendUpdate(c)
  PROVE  IInv'
<1>1. UNCHANGED <<head, next, prev, record, refCount, listMutex, listener, input, walk, gone>>
  BY DEF CheckOutput, WaitForUpdate, SendUpdate, listVars
<1>2. open' \in [Clients -> BOOLEAN] /\ work' \in [Clients -> {"none", "silent", "announced"}]
  BY DEF CheckOutput, WaitForUpdate, SendUpdate, IInv, TypeOK
<1>3. output' \in [Clients -> OutputAt]
  BY DEF CheckOutput, WaitForUpdate, SendUpdate, IInv, TypeOK, OutputAt
<1>4. \A x \in Clients : Sending(x)' = Sending(x) /\ (output'[x] = output[x] \/ output[x] # "none")
  BY DEF CheckOutput, WaitForUpdate, SendUpdate, IInv, TypeOK, Sending
<1>5. TypeOK'
  BY <1>1, <1>2, <1>3 DEF IInv, TypeOK
<1>6. RefCountExact'
  BY <1>1, <1>4, CountKept DEF IInv
<1>7. StartInv' /\ KnownInv' /\ WalkInv' /\ GoneInv' /\ PinInv' /\ WaitInv'
  BY <1>1, <1>4 DEF IInv, StartInv, KnownInv, Known, WalkInv, GoneInv, PinInv, WaitInv, Holds
<1> QED
  BY <1>5, <1>6, <1>7 DEF IInv

\* What dropping a reference does to the threads that wait in a drain.
LEMMA DropWakes ==
  ASSUME IInv, NEW c \in Clients, DecrRef(c), record' = record, refCount[c] > 0
  PROVE  /\ gone' \in [Threads -> [at : GoneAt, of : Pointer]]
         /\ refCount' \in [Clients -> Nat]
         /\ \A t \in Threads :
              /\ gone'[t].of = gone[t].of
              /\ gone'[t].at = gone[t].at \/ (gone[t].at = "wait" /\ gone'[t].at = "drain")
         /\ WaitInv'
<1>1. gone \in [Threads -> [at : GoneAt, of : Pointer]] /\ refCount \in [Clients -> Nat]
  BY DEF IInv, TypeOK
<1>2. \A t \in Threads :
        gone'[t] = IF refCount[c] <= 1 /\ gone[t] = [at |-> "wait", of |-> c]
                   THEN [at |-> "drain", of |-> c] ELSE gone[t]
  BY DEF DecrRef
<1>3. gone' \in [Threads -> [at : GoneAt, of : Pointer]]
  BY <1>1 DEF DecrRef, GoneAt, Pointer
<1>4. refCount' = [refCount EXCEPT ![c] = @ - 1] /\ refCount' \in [Clients -> Nat]
  BY <1>1 DEF DecrRef
<1>5. \A t \in Threads :
        /\ gone'[t].of = gone[t].of
        /\ gone'[t].at = gone[t].at \/ (gone[t].at = "wait" /\ gone'[t].at = "drain")
  BY <1>2
<1>6. ASSUME NEW t \in Threads, gone'[t].at = "wait"
      PROVE  refCount'[gone'[t].of] > 0
  <2>1. gone[t].at = "wait" /\ gone[t].of \in Clients /\ refCount[gone[t].of] > 0
    BY <1>5, <1>6 DEF IInv, GoneInv, Known, WaitInv
  <2>2. CASE gone[t].of = c
    <3>1. gone[t] = [at |-> "wait", of |-> c]
      BY <1>1, <2>1, <2>2
    <3>2. refCount[c] > 1
      BY <1>1, <1>2, <1>6, <3>1
    <3> QED
      BY <1>1, <1>4, <1>5, <2>2, <3>2
  <2>3. CASE gone[t].of # c
    BY <1>1, <1>4, <1>5, <2>1, <2>3
  <2> QED
    BY <2>2, <2>3
<1> QED
  BY <1>3, <1>4, <1>5, <1>6 DEF WaitInv

\* clientOutput takes and drops its reference around an update.
LEMMA OutputRefInv ==
  ASSUME IInv, NEW c \in Clients, TakeUpdate(c) \/ DropUpdate(c)
  PROVE  IInv'
<1>1. \A x \in Clients : Holders(x)' = Holders(x) /\ Cardinality(Holders(x)) \in Nat
  BY ThreadsAssumption, FS_Subset, FS_CardinalityType DEF TakeUpdate, DropUpdate, Holders, Holds
<1>2. RefCountExact'
  BY <1>1 DEF TakeUpdate, DropUpdate, IncrRef, DecrRef, IInv, TypeOK, RefCountExact, Sending
<1>3. /\ UNCHANGED <<head, next, prev, record, open, work, listMutex, listener, input, walk>>
      /\ output' \in [Clients -> OutputAt]
      /\ \A x \in Clients : output'[x] = output[x] \/ output[x] # "none"
  BY DEF TakeUpdate, DropUpdate, listVars, IInv, TypeOK, OutputAt
<1>4. StartInv' /\ KnownInv' /\ WalkInv'
  BY <1>3 DEF IInv, StartInv, KnownInv, Known, WalkInv
<1>5. CASE TakeUpdate(c)
  <2>1. gone' = gone /\ refCount' = [refCount EXCEPT ![c] = @ + 1]
    BY <1>5 DEF TakeUpdate, IncrRef
  <2>2. TypeOK'
    BY <1>3, <2>1 DEF IInv, TypeOK
  <2>3. GoneInv' /\ PinInv' /\ WaitInv'
    BY <1>3, <2>1 DEF IInv, TypeOK, GoneInv, Known, PinInv, WaitInv, Holds
  <2> QED
    BY <1>2, <1>4, <2>2, <2>3 DEF IInv
<1>6. CASE DropUpdate(c)
  <2>1. refCount[c] > 0 /\ DecrRef(c)
    BY <1>1, <1>6 DEF DropUpdate, IInv, RefCountExact, Sending
  <2>2. TypeOK' /\ WaitInv'
    BY <1>3, <2>1, DropWakes DEF IInv, TypeOK
  <2>3. GoneInv'
    BY <1>3, <2>1, DropWakes DEF IInv, GoneInv, Known, Threads
  <2>4. PinInv'
    BY <1>3, <2>1, DropWakes DEF IInv, PinInv, Holds
  <2> QED
    BY <1>2, <1>4, <2>2, <2>3, <2>4 DEF IInv
<1> QED
  BY <1>5, <1>6

(***************************************************************************)
(* Threads that walk the list.                                             *)
(***************************************************************************)
\* Steps that neither take nor drop a reference.
WalksOn(w) ==
  \/ GetIterator(w) \/ NextIsHead(w) \/ NextInList(w) \/ SkipClosed(w)
  \/ FindOpen(w) \/ NoMoreClients(w) \/ Mark(w) \/ MoveCursor(w) \/ Disconnect(w)
  \/ DisconnectAll(w) \/ Match(w) \/ \E c \in Clients : DisconnectMatched(w, c)

\* An iterator's pointers stay within the list's records.
LEMMA WalkTyped ==
  ASSUME IInv, NEW w \in Walkers, WalksOn(w)
  PROVE  walk' \in [Walkers -> [at : WalkAt, next : Pointer, old : Pointer,
                                pinned : BOOLEAN, matched : SUBSET Clients]]
<1> DEFINE Walk == [at : WalkAt, next : Pointer, old : Pointer, pinned : BOOLEAN,
                    matched : SUBSET Clients]
<1>1. walk \in [Walkers -> Walk] /\ head \in Pointer
  BY DEF IInv, TypeOK
<1>2. walk[w].next # Null => walk[w].next \in Clients /\ next[walk[w].next] \in Pointer
  BY DEF IInv, TypeOK, Pointer
<1>3. CASE NextIsHead(w) \/ NextInList(w) \/ SkipClosed(w)
  BY <1>1, <1>2, <1>3 DEF NextIsHead, NextInList, SkipClosed, WalkAt, Pointer
<1>4. CASE GetIterator(w)
  <2>1. [AtStart EXCEPT !.at = "next"] \in Walk
    BY DEF AtStart, WalkAt, Pointer
  <2> QED
    BY <1>1, <1>4, <2>1 DEF GetIterator
<1>5. CASE FindOpen(w) \/ NoMoreClients(w) \/ Mark(w) \/ MoveCursor(w) \/ Disconnect(w)
             \/ DisconnectAll(w)
  BY <1>1, <1>5 DEF FindOpen, NoMoreClients, Mark, MoveCursor, Disconnect, DisconnectAll, WalkAt
<1>6. CASE Match(w)
  <2>1. walk[w].next \in Clients
    BY <1>2, <1>6 DEF Match, IInv, WalkInv
  <2> QED
    BY <1>1, <1>6, <2>1 DEF Match, WalkAt
<1>7. ASSUME NEW c \in Clients, DisconnectMatched(w, c)
      PROVE  walk' \in [Walkers -> Walk]
  BY <1>1, <1>7 DEF DisconnectMatched, WalkAt
<1> QED
  BY <1>3, <1>4, <1>5, <1>6, <1>7 DEF WalksOn

\* They find records that have been linked only, and keep what they reference.
LEMMA WalkFinds ==
  ASSUME IInv, NEW w \in Walkers, WalksOn(w)
  PROVE  /\ \A v \in Walkers \ {w} : walk'[v] = walk[v]
         /\ \A c \in Clients : Holds(w, c)' <=> Holds(w, c)
         /\ \A c \in Clients : Holds(w, c)' => walk'[w].pinned = walk[w].pinned
         /\ walk'[w].next \in Known \cup {Null} /\ walk'[w].matched \subseteq Known
         /\ walk'[w].at \in {"take", "visit"} => walk'[w].next # Null
         /\ walk'[w].at = "drop" => walk'[w].old \in Clients
<1> USE ThreadsAssumption DEF Threads
<1>1. /\ walk \in [Walkers -> [at : WalkAt, next : Pointer, old : Pointer, pinned : BOOLEAN,
                              matched : SUBSET Clients]]
      /\ walk[w].next \in Known \cup {Null} /\ walk[w].matched \subseteq Known
      /\ walk[w].at \in {"take", "visit"} => walk[w].next # Null
      /\ head \in Known \cup {Null}
      /\ \A c \in Clients : next[c] \in Known \cup {Null}
      /\ Known \subseteq Clients
  BY DEF IInv, TypeOK, KnownInv, WalkInv, Known
<1>2. CASE GetIterator(w)
  <2>1. walk'[w] = [AtStart EXCEPT !.at = "next"] /\ walk[w].at = "idle"
    BY <1>1, <1>2 DEF GetIterator
  <2>2. walk'[w].at = "next" /\ walk'[w].next = Null /\ walk'[w].matched = {}
    BY <2>1 DEF AtStart
  <2> QED
    BY <1>1, <1>2, <2>1, <2>2 DEF GetIterator, Holds
<1>3. CASE NextIsHead(w) \/ NextInList(w) \/ SkipClosed(w)
  BY <1>1, <1>3 DEF NextIsHead, NextInList, SkipClosed, Holds
<1>4. CASE FindOpen(w) \/ NoMoreClients(w)
  BY <1>1, <1>4 DEF FindOpen, NoMoreClients, Holds
<1>5. CASE Mark(w) \/ MoveCursor(w) \/ Disconnect(w) \/ DisconnectAll(w) \/ Match(w)
  BY <1>1, <1>5 DEF Mark, MoveCursor, Disconnect, DisconnectAll, Match, Holds
<1>6. CASE \E c \in Clients : DisconnectMatched(w, c)
  BY <1>1, <1>6 DEF DisconnectMatched, Holds
<1> QED
  BY <1>2, <1>3, <1>4, <1>5, <1>6 DEF WalksOn

\* They may close a client, and then call rfbClientConnectionGone for it.
LEMMA WalkCalls ==
  ASSUME IInv, NEW w \in Walkers, WalksOn(w)
  PROVE  /\ UNCHANGED <<head, next, prev, record, refCount, listMutex, listener, input>>
         /\ open' \in [Clients -> BOOLEAN] /\ output' \in [Clients -> OutputAt]
         /\ work' \in [Clients -> {"none", "silent", "announced"}]
         /\ \A c \in Clients :
              output'[c] = output[c] \/ (output[c] = "wait" /\ output'[c] = "check")
         /\ \/ gone' = gone
            \/ \E c \in Known :
                 /\ EnterGone(w, c)
                 /\ "all" \in GoneCallers \/ walk'[w].at \in {"idle", "matched"}
<1> USE DEF CloseClient, SignalUpdate, Announce, SetSilently, listVars
<1>1. /\ open \in [Clients -> BOOLEAN] /\ output \in [Clients -> OutputAt]
      /\ work \in [Clients -> {"none", "silent", "announced"}]
      /\ walk \in [Walkers -> [at : WalkAt, next : Pointer, old : Pointer, pinned : BOOLEAN,
                              matched : SUBSET Clients]]
      /\ walk[w].at = "visit" => walk[w].next \in Known
      /\ walk[w].matched \subseteq Known
      /\ Known \subseteq Clients
  BY DEF IInv, TypeOK, KnownInv, WalkInv, Known
<1>2. CASE DisconnectAll(w)
  BY <1>1, <1>2 DEF DisconnectAll, OutputAt
<1>3. ASSUME NEW c \in Clients, DisconnectMatched(w, c)
      PROVE  /\ open' \in [Clients -> BOOLEAN] /\ output' \in [Clients -> OutputAt]
             /\ \A x \in Clients :
                  output'[x] = output[x] \/ (output[x] = "wait" /\ output'[x] = "check")
             /\ EnterGone(w, c) /\ c \in Known /\ walk'[w].at \in {"idle", "matched"}
             /\ UNCHANGED <<head, next, prev, record, refCount, listMutex, listener, input, work>>
  BY <1>1, <1>3 DEF DisconnectMatched, OutputAt
<1>4. CASE Mark(w) \/ MoveCursor(w) \/ Disconnect(w)
  <2>1. /\ UNCHANGED <<head, next, prev, record, refCount, listMutex, listener, input, gone>>
        /\ walk[w].next \in Clients
    BY <1>1, <1>4 DEF Mark, MoveCursor, Disconnect
  <2>2. open' \in [Clients -> BOOLEAN] /\ work' \in [Clients -> {"none", "silent", "announced"}]
    BY <1>1, <1>4, <2>1 DEF Mark, MoveCursor, Disconnect
  <2>3. /\ output' \in [Clients -> OutputAt]
        /\ \A c \in Clients :
             output'[c] = output[c] \/ (output[c] = "wait" /\ output'[c] = "check")
    BY <1>1, <1>4, <2>1 DEF Mark, MoveCursor, Disconnect, OutputAt
  <2> QED
    BY <2>1, <2>2, <2>3
<1>5. CASE \/ GetIterator(w) \/ NextIsHead(w) \/ NextInList(w) \/ SkipClosed(w)
           \/ FindOpen(w) \/ NoMoreClients(w) \/ Match(w)
  BY <1>1, <1>5 DEF GetIterator, NextIsHead, NextInList, SkipClosed, FindOpen, NoMoreClients, Match
<1> QED
  BY <1>1, <1>2, <1>3, <1>4, <1>5 DEF WalksOn

\* They keep the invariant: no reference changes, and the caller of
\* rfbClientConnectionGone has none unless for close_all_clients.
LEMMA WalkOnInv ==
  ASSUME IInv, NEW w \in Walkers, WalksOn(w), Returned(w)
  PROVE  IInv'
<1>1. w \in Threads /\ gone[w].at = "no"
  BY DEF Threads, Returned
<1>2. /\ gone' \in [Threads -> [at : GoneAt, of : Pointer]]
      /\ \A u \in Threads \ {w} : gone'[u] = gone[u]
      /\ \/ gone'[w] = gone[w]
         \/ /\ gone'[w].at = "unlink" /\ gone'[w].of \in Known
            /\ "all" \in GoneCallers \/ walk'[w].at \in {"idle", "matched"}
  BY <1>1, WalkCalls, EntersGone DEF IInv, TypeOK, Known
<1>3. TypeOK'
  BY <1>2, WalkTyped, WalkCalls DEF IInv, TypeOK
<1>4. /\ \A v \in Walkers, c \in Clients : Holds(v, c)' <=> Holds(v, c)
      /\ \A v \in Walkers, c \in Clients : Holds(v, c)' => walk'[v].pinned = walk[v].pinned
  BY WalkFinds DEF Holds
<1>5. RefCountExact'
  <2>1. \A c \in Clients : Holders(c)' = Holders(c)
    BY <1>4 DEF Holders
  <2>2. \A c \in Clients : Sending(c)' = Sending(c)
    BY WalkCalls DEF Sending
  <2> QED
    BY <2>1, <2>2, WalkCalls DEF IInv, RefCountExact
<1>6. StartInv' /\ WaitInv'
  BY <1>1, <1>2, WalkCalls DEF IInv, StartInv, WaitInv
<1>7. KnownInv' /\ WalkInv'
  BY WalkFinds, WalkCalls DEF IInv, KnownInv, WalkInv, Known
<1>8. GoneInv'
  BY <1>1, <1>2, WalkFinds, WalkCalls, ThreadsAssumption DEF IInv, GoneInv, Known, Threads
<1>9. PinInv'
  BY <1>1, <1>2, <1>4, WalkCalls DEF IInv, PinInv
<1> QED
  BY <1>3, <1>5, <1>6, <1>7, <1>8, <1>9 DEF IInv

\* rfbClientIteratorNext references the record it found.
LEMMA TakeNextInv ==
  ASSUME IInv, NEW w \in Walkers, TakeNext(w), Returned(w)
  PROVE  IInv'
<1> USE DEF IncrRef
<1>1. walk[w].next \in Clients
  BY DEF TakeNext, IInv, TypeOK, Pointer, WalkInv
<1>2. TypeOK'
  BY <1>1 DEF TakeNext, listVars, IInv, TypeOK, WalkAt
<1>3. RefCountExact'
  <2>1. \A c \in Clients : Holds(w, c)' <=> c = walk[w].next
    BY DEF TakeNext, IInv, TypeOK, Holds
  <2>2. \A c \in Clients : ~Holds(w, c)
    BY DEF TakeNext, Holds
  <2>3. \A v \in Walkers \ {w} : walk'[v] = walk[v]
    BY DEF TakeNext, IInv, TypeOK
  <2>4. \A c \in Clients :
          /\ Cardinality(Holders(c)) \in Nat
          /\ Cardinality(Holders(c)') =
                Cardinality(Holders(c)) + (IF c = walk[w].next THEN 1 ELSE 0)
    BY <2>1, <2>2, <2>3, HoldersStep
  <2> QED
    BY <1>1, <2>4 DEF TakeNext, IInv, TypeOK, RefCountExact, Sending
<1>4. StartInv' /\ KnownInv' /\ WalkInv' /\ WaitInv'
  BY <1>1 DEF TakeNext, listVars, IInv, TypeOK, StartInv, KnownInv, Known, WalkInv, WaitInv, GoneInv
<1>5. GoneInv'
  BY DEF TakeNext, Returned, IInv, TypeOK, GoneInv, Known, Threads
<1>6. PinInv'
  BY <1>1 DEF TakeNext, Linked, IInv, TypeOK, GoneInv, PinInv, Holds
<1> QED
  BY <1>2, <1>3, <1>4, <1>5, <1>6 DEF IInv

\* rfbClientIteratorNext and rfbReleaseClientIterator drop the record in hand.
LEMMA WalkerDropsInv ==
  ASSUME IInv, NEW w \in Walkers, DropOld(w) \/ ReleaseIterator(w), Returned(w)
  PROVE  IInv'
<1> DEFINE old == IF walk[w].at = "drop" THEN walk[w].old ELSE walk[w].next
<1> USE DEF AtStart
<1>1. old \in Clients /\ Holds(w, old) /\ \A c \in Clients : Holds(w, c) => c = old
  BY DEF DropOld, ReleaseIterator, IInv, TypeOK, Pointer, WalkInv, Holds
<1>2. /\ DecrRef(old)
      /\ UNCHANGED <<listVars, record, open, work, listMutex, listener, input, output>>
  BY DEF DropOld, ReleaseIterator
<1>3. \A v \in Walkers \ {w} : walk'[v] = walk[v]
  BY DEF DropOld, ReleaseIterator, IInv, TypeOK
<1>4. \A c \in Clients : ~Holds(w, c)'
  BY ThreadsAssumption DEF DropOld, ReleaseIterator, IInv, TypeOK, Holds, Threads
<1>5. \A c \in Clients :
        /\ Cardinality(Holders(c)) \in Nat
        /\ c = old => Cardinality(Holders(c)) > 0
        /\ Cardinality(Holders(c)') = Cardinality(Holders(c)) - (IF c = old THEN 1 ELSE 0)
  BY <1>1, <1>3, <1>4, HoldersStep
<1>6. RefCountExact'
  <2>1. \A c \in Clients : Sending(c)' = Sending(c) /\ Sending(c) \in Nat
    BY <1>2 DEF Sending
  <2> QED
    BY <1>1, <1>2, <1>5, <2>1 DEF DecrRef, IInv, TypeOK, RefCountExact
<1>7. refCount[old] > 0
  BY <1>1, <1>5 DEF IInv, RefCountExact, Sending
<1>8. walk' \in [Walkers -> [at : WalkAt, next : Pointer, old : Pointer, pinned : BOOLEAN,
                             matched : SUBSET Clients]]
  <2>1. CASE DropOld(w)
    BY <2>1 DEF DropOld, IInv, TypeOK, WalkAt, Pointer
  <2>2. CASE ReleaseIterator(w)
    BY <2>2 DEF ReleaseIterator, IInv, TypeOK, WalkAt, Pointer
  <2> QED
    BY <2>1, <2>2
<1>9. TypeOK' /\ WaitInv'
  BY <1>1, <1>2, <1>7, <1>8, DropWakes DEF listVars, IInv, TypeOK
<1>10. StartInv'
  BY <1>2 DEF IInv, StartInv
<1>11. KnownInv' /\ WalkInv'
  <2>1. UNCHANGED <<head, next, record>>
    BY <1>2 DEF listVars
  <2>2. /\ walk'[w].at \in {"skip", "idle"} /\ walk'[w].next \in {walk[w].next, Null}
        /\ walk'[w].matched \subseteq walk[w].matched
    <3>1. walk \in [Walkers -> [at : WalkAt, next : Pointer, old : Pointer, pinned : BOOLEAN,
                               matched : SUBSET Clients]]
      BY DEF IInv, TypeOK
    <3>2. CASE DropOld(w)
      BY <3>1, <3>2 DEF DropOld
    <3>3. CASE ReleaseIterator(w)
      BY <3>1, <3>3 DEF ReleaseIterator
    <3> QED
      BY <3>2, <3>3
  <2> QED
    BY <1>3, <2>1, <2>2 DEF IInv, KnownInv, Known, WalkInv
<1>12. GoneInv'
  <2>1. w \in Threads /\ gone'[w].at = "no"
    BY <1>1, <1>2, <1>7, DropWakes DEF Returned, Threads
  <2> QED
    BY <1>1, <1>2, <1>3, <1>7, <2>1, DropWakes DEF IInv, GoneInv, Known, Threads
<1>13. PinInv'
  <2>1. \A v \in Walkers \ {w}, c \in Clients : Holds(v, c)' = Holds(v, c)
    BY <1>3 DEF Holds
  <2> QED
    BY <1>1, <1>2, <1>3, <1>4, <1>7, <2>1, DropWakes DEF IInv, PinInv
<1> QED
  BY <1>6, <1>9, <1>10, <1>11, <1>12, <1>13 DEF IInv

(***************************************************************************)
(* The theorems about references, whoever calls rfbClientConnectionGone.   *)
(***************************************************************************)
\* Every step keeps the invariant.
LEMMA NextInv == IInv /\ [Next]_vars => IInv'
<1> SUFFICES ASSUME IInv, [Next]_vars PROVE IInv'
  OBVIOUS
<1>1. ASSUME NEW c \in Clients, Listener(c) \/ Input(c) \/ Output(c)
      PROVE  IInv'
  BY <1>1, ServeInv, OutputWaitsInv, OutputRefInv DEF Output
<1>2. ASSUME NEW w \in Walkers, Iterate(w)
      PROVE  IInv'
  BY <1>2, WalkOnInv, TakeNextInv, WalkerDropsInv DEF Iterate, Visit, WalksOn
<1>3. ASSUME NEW t \in Threads, Gone(t)
      PROVE  IInv'
  BY <1>3, UnlinkInv, DrainInv, FreeInv DEF Gone
<1>4. CASE UNCHANGED vars
  BY <1>4 DEF vars, listVars, IInv, TypeOK, RefCountExact, Holders, Holds, Sending, StartInv,
     KnownInv, Known, WalkInv, GoneInv, PinInv, WaitInv
<1> QED
  BY <1>1, <1>2, <1>3, <1>4 DEF Next

\* The invariant of the counters and of the threads that use them holds in every
\* state rfbNewClient, clientInput, clientOutput, iterators and all the callers
\* of rfbClientConnectionGone lead to.
THEOREM ThreadsInvariance == Spec => []IInv
BY InitInv, NextInv, PTL DEF Spec

\* A reference counter never becomes negative (rfbDecrClientRef tests <= 0 "just
\* to be sure"), and no iterator follows a pointer that is not set.
THEOREM ThreadsTypeCorrect == Spec => []TypeOK
<1>1. IInv => TypeOK
  BY DEF IInv
<1> QED
  BY <1>1, ThreadsInvariance, PTL

\* refCount counts the iterators and the output thread that use the record.
THEOREM ReferencesCounted == Spec => []RefCountExact
<1>1. IInv => RefCountExact
  BY DEF IInv
<1> QED
  BY <1>1, ThreadsInvariance, PTL

\* rfbClientConnectionGone frees no record that was referenced while linked,
\* also where x11vnc's main thread calls it, and a second time for a record.
THEOREM ReferencesKeep == Spec => []ReferencedIsKept
<1>1. IInv => ReferencedIsKept
  BY DEF IInv, PinInv, ReferencedIsKept
<1> QED
  BY <1>1, ThreadsInvariance, PTL

\* TSIGNAL(deleteCond) reaches the thread that waits for it: it waits only while
\* another thread has a reference, or close_all_clients itself.
THEOREM WaitsAreAnswered == Spec => []NoWakeUpLost
<1>1. IInv => NoWakeUpLost
  <2> SUFFICES ASSUME IInv, NEW t \in Threads, NEW c \in Clients,
                      gone[t] = [at |-> "wait", of |-> c], Sending(c) # 1
               PROVE  Holders(c) \ {t} # {} \/ ("all" \in GoneCallers /\ t \in Holders(c))
    BY DEF NoWakeUpLost
  <2>1. refCount[c] > 0 /\ refCount[c] = Cardinality(Holders(c)) + Sending(c)
    BY DEF IInv, RefCountExact, WaitInv
  <2>2. Sending(c) = 0 /\ Holders(c) # {}
    BY <2>1, FS_EmptySet DEF Sending
  <2>3. t \in Holders(c) => "all" \in GoneCallers
    BY DEF Holders, Holds, IInv, GoneInv
  <2> QED
    BY <2>2, <2>3
<1> QED
  BY <1>1, ThreadsInvariance, PTL

(***************************************************************************)
(* Where only the listener and clientInput call rfbClientConnectionGone.   *)
(***************************************************************************)
\* It is called once for a record, by the record's own thread at its end, which
\* has waited for clientOutput.
OwnInv ==
  /\ \A w \in Walkers : gone[w].at = "no" /\ walk[w].matched = {}
  /\ \A c \in Clients :
       /\ gone[c].at # "no" => gone[c].of = c /\ input[c] = "ended"
       /\ gone[c].at = "unlink" => record[c] = "linked"
       /\ record[c] \in {"unlinked", "freed"} => input[c] = "ended"
       /\ input[c] = "ended" => output[c] \in {"none", "done"}
       /\ input[c] # "none" => record[c] # "new"

ListInv == OwnInv /\ ListIntact

\* The list depends on which records are linked and on its pointers only.
LEMMA ListKept ==
  ASSUME ListIntact, UNCHANGED listVars, record' = record
  PROVE  ListIntact'
BY DEF ListIntact, Linked, listVars

\* rfbNewTCPOrUDPClient puts a record at the head of the list.
LEMMA AcceptList ==
  ASSUME IInv, ListInv, NEW c \in Clients, Accept(c), Returned(c)
  PROVE  ListInv'
<1>1. OwnInv'
  BY ThreadsAssumption DEF Accept, Returned, IInv, TypeOK, StartInv, ListInv, OwnInv, Threads
<1>2. ListIntact'
  <2>1. c \notin Linked /\ Linked' = Linked \cup {c}
    BY DEF Accept, IInv, TypeOK, Linked
  <2>2. /\ head' = c /\ next'[c] = head /\ prev'[c] = Null
        /\ \A x \in Linked : /\ next'[x] = next[x]
                             /\ prev'[x] = IF x = head THEN c ELSE prev[x]
    BY <2>1, ThreadsAssumption DEF Accept, IInv, TypeOK, ListInv, ListIntact, Linked, Threads
  <2> QED
    BY <2>1, <2>2, ThreadsAssumption DEF ListInv, ListIntact, Linked, Threads
<1> QED
  BY <1>1, <1>2 DEF ListInv

\* clientInput's other steps leave the list alone, and its end waits for
\* clientOutput.
LEMMA ServeList ==
  ASSUME GoneCallers = {}, IInv, ListInv, NEW c \in Clients,
         StartClient(c) \/ RefuseClient(c) \/ Input(c), Returned(c)
  PROVE  ListInv'
<1> USE DEF Input, Returned, CloseClient, SignalUpdate, Announce, SetSilently, EnterGone
<1>1. UNCHANGED <<listVars, record, walk>>
  BY DEF StartClient, RefuseClient, CreateOutput, CheckInput, UpdateRequest, SetEncodings,
     ReadFails, ScaleFails, SelectError, WakeOutput, Join
<1>2. OwnInv'
  <2>1. CASE RefuseClient(c) \/ Join(c)
    <3>1. /\ EnterGone(c, c) /\ gone[c].at = "no"
          /\ input[c] \in {"new", "join"}
          /\ \A x \in Clients : input'[x] = IF x = c THEN "ended" ELSE input[x]
          /\ \A x \in Clients : output[x] \in {"none", "done"} => output'[x] = output[x]
          /\ output'[c] \in {"none", "done"}
      BY <2>1 DEF RefuseClient, Join, IInv, TypeOK, StartInv
    <3>2. /\ gone'[c].at = "unlink" /\ gone'[c].of = c
          /\ \A u \in Threads \ {c} : gone'[u] = gone[u]
      BY <3>1, EntersGone DEF IInv, Threads
    <3>3. record[c] = "linked"
      BY <3>1 DEF IInv, TypeOK, ListInv, OwnInv
    <3> QED
      BY <1>1, <3>1, <3>2, <3>3, ThreadsAssumption DEF ListInv, OwnInv, Threads
  <2>2. CASE ~(RefuseClient(c) \/ Join(c))
    BY <1>1, <2>2 DEF StartClient, CreateOutput, CheckInput, UpdateRequest, SetEncodings, ReadFails,
       ScaleFails, SelectError, WakeOutput, IInv, TypeOK, ListInv, OwnInv
  <2> QED
    BY <2>1, <2>2
<1> QED
  BY <1>1, <1>2, ListKept DEF ListInv

\* clientOutput touches neither the list nor a thread that ends.
LEMMA OutputList ==
  ASSUME IInv, ListInv, NEW c \in Clients, Output(c)
  PROVE  ListInv'
<1>1. UNCHANGED <<listVars, record, walk, input>>
  BY DEF Output, CheckOutput, WaitForUpdate, TakeUpdate, SendUpdate, DropUpdate
<1>2. \A t \in Threads :
        /\ gone'[t].of = gone[t].of
        /\ gone'[t].at = gone[t].at \/ (gone[t].at = "wait" /\ gone'[t].at = "drain")
  BY DEF Output, CheckOutput, WaitForUpdate, TakeUpdate, SendUpdate, DropUpdate, DecrRef, IInv,
     TypeOK
<1>3. \A x \in Clients : output[x] \in {"none", "done"} => output'[x] \in {"none", "done"}
  BY DEF Output, CheckOutput, WaitForUpdate, TakeUpdate, SendUpdate, DropUpdate, IInv, TypeOK
<1>4. OwnInv'
  BY <1>1, <1>2, <1>3 DEF ListInv, OwnInv, Threads
<1> QED
  BY <1>1, <1>4, ListKept DEF ListInv

\* rfbClientConnectionGone takes its own record out of the list, once.
LEMMA GoneList ==
  ASSUME IInv, ListInv, NEW t \in Threads, Gone(t)
  PROVE  ListInv'
<1>1. t \in Clients /\ gone[t].of = t
  BY DEF Gone, Unlink, Drain, UnlockList, Free, ListInv, OwnInv, Threads
<1>2. OwnInv'
  <2>1. UNCHANGED <<input, output, walk>>
    BY DEF Gone, Unlink, Drain, UnlockList, Free
  <2>2. /\ gone'[t].at \in {"no", "drain", "wait", "unlock", "free"}
        /\ gone'[t].at # "no" => gone'[t].of = t
        /\ \A u \in Threads \ {t} : gone'[u] = gone[u]
    <3>1. CASE Free(t)
      BY <3>1 DEF Free, NotGone, IInv, TypeOK
    <3>2. CASE Unlink(t) \/ Drain(t) \/ UnlockList(t)
      BY <1>1, <3>2 DEF Unlink, Drain, UnlockList, IInv, TypeOK
    <3> QED
      BY <3>1, <3>2 DEF Gone
  <2>3. /\ \A x \in Clients \ {t} : record'[x] = record[x]
        /\ record'[t] # "new" /\ gone[t].at # "no"
    BY <1>1 DEF Gone, Unlink, Drain, UnlockList, Free, IInv, TypeOK, GoneInv, Known
  <2> QED
    BY <1>1, <2>1, <2>2, <2>3, ThreadsAssumption DEF ListInv, OwnInv, Threads
<1>3. CASE Unlink(t)
  <2>1. t \in Linked /\ Linked' = Linked \ {t}
    BY <1>1, <1>3 DEF Unlink, IInv, TypeOK, ListInv, OwnInv, Linked
  <2>2. /\ head' = (IF prev[t] = Null THEN next[t] ELSE head)
        /\ \A x \in Linked : /\ next'[x] = IF x = prev[t] THEN next[t] ELSE next[x]
                             /\ prev'[x] = IF x = next[t] THEN prev[t] ELSE prev[x]
    BY <1>1, <1>3 DEF Unlink, Linked
  <2>3. head' \in Linked' \cup {Null} /\ (head' # Null => prev'[head'] = Null)
    BY <2>1, <2>2, ThreadsAssumption DEF ListInv, ListIntact, Linked, Threads
  <2>4. ASSUME NEW x \in Linked'
        PROVE  /\ next'[x] # Null => next'[x] \in Linked' /\ prev'[next'[x]] = x
               /\ prev'[x] # Null => prev'[x] \in Linked' /\ next'[prev'[x]] = x
               /\ prev'[x] = Null => head' = x
    BY <2>1, <2>2, <2>4, ThreadsAssumption DEF ListInv, ListIntact, Linked, Threads
  <2> QED
    BY <1>2, <2>3, <2>4 DEF ListInv, ListIntact
<1>4. CASE Drain(t) \/ UnlockList(t)
  BY <1>2, <1>4, ListKept DEF Drain, UnlockList, ListInv
<1>5. CASE Free(t)
  <2>1. Linked' = Linked
    BY <1>1, <1>5 DEF Free, IInv, TypeOK, GoneInv, Linked
  <2> QED
    BY <1>2, <1>5, <2>1 DEF Free, ListInv, ListIntact, listVars
<1> QED
  BY <1>3, <1>4, <1>5 DEF Gone

\* A walker changes neither the list nor, here, the threads at their end.
LEMMA WalkList ==
  ASSUME GoneCallers = {}, IInv, ListInv, NEW w \in Walkers, Iterate(w)
  PROVE  ListInv'
<1> USE DEF CloseClient, SignalUpdate, Announce, SetSilently
<1>1. UNCHANGED <<listVars, record, input>>
  BY DEF Iterate, Visit, GetIterator, NextIsHead, NextInList, DropOld, SkipClosed, FindOpen,
     TakeNext, NoMoreClients, Mark, MoveCursor, Disconnect, DisconnectAll, Match,
     DisconnectMatched, ReleaseIterator
<1>2. \A c \in Clients : output[c] \in {"none", "done"} => output'[c] \in {"none", "done"}
  BY DEF Iterate, Visit, GetIterator, NextIsHead, NextInList, DropOld, SkipClosed, FindOpen,
     TakeNext, NoMoreClients, Mark, MoveCursor, Disconnect, DisconnectAll, Match,
     DisconnectMatched, ReleaseIterator, IInv, TypeOK
<1>3. ~DisconnectAll(w) /\ ~Match(w) /\ ~\E c \in Clients : DisconnectMatched(w, c)
  BY DEF DisconnectAll, Match, DisconnectMatched, ListInv, OwnInv
<1>4. \A t \in Threads :
        /\ gone'[t].of = gone[t].of
        /\ gone'[t].at = gone[t].at \/ (gone[t].at = "wait" /\ gone'[t].at = "drain")
  BY <1>3 DEF Iterate, Visit, GetIterator, NextIsHead, NextInList, DropOld, SkipClosed, FindOpen,
     TakeNext, NoMoreClients, Mark, MoveCursor, Disconnect, ReleaseIterator, DecrRef, IInv, TypeOK
<1>5. \A v \in Walkers : walk'[v].matched = {}
  <2>1. /\ walk \in [Walkers -> [at : WalkAt, next : Pointer, old : Pointer, pinned : BOOLEAN,
                               matched : SUBSET Clients]]
        /\ \A v \in Walkers : walk[v].matched = {}
    BY DEF IInv, TypeOK, ListInv, OwnInv
  <2>2. CASE GetIterator(w) \/ ReleaseIterator(w)
    <3>1. walk'[w].matched = {} /\ \A v \in Walkers \ {w} : walk'[v] = walk[v]
      BY <2>1, <2>2 DEF GetIterator, ReleaseIterator, AtStart
    <3> QED
      BY <2>1, <3>1
  <2>3. CASE NextIsHead(w) \/ NextInList(w) \/ DropOld(w) \/ SkipClosed(w) \/ FindOpen(w)
    BY <2>1, <2>3 DEF NextIsHead, NextInList, DropOld, SkipClosed, FindOpen
  <2>4. CASE TakeNext(w) \/ NoMoreClients(w) \/ Mark(w) \/ MoveCursor(w) \/ Disconnect(w)
    BY <2>1, <2>4 DEF TakeNext, NoMoreClients, Mark, MoveCursor, Disconnect
  <2> QED
    BY <1>3, <2>2, <2>3, <2>4 DEF Iterate, Visit
<1>6. OwnInv'
  BY <1>1, <1>2, <1>4, <1>5 DEF ListInv, OwnInv, Threads
<1> QED
  BY <1>1, <1>6, ListKept DEF ListInv

\* The list and the order of the threads' ends, as an invariant.
LEMMA ListInvariance ==
  ASSUME GoneCallers = {}
  PROVE  Spec => []ListInv
<1>1. Init => ListInv
  BY ThreadsAssumption DEF Init, AtStart, NotGone, ListInv, OwnInv, ListIntact, Linked, Threads
<1>2. IInv /\ ListInv /\ [Next]_vars => ListInv'
  <2> SUFFICES ASSUME IInv, ListInv, [Next]_vars PROVE ListInv'
    OBVIOUS
  <2>1. ASSUME NEW c \in Clients, Listener(c) \/ Input(c) \/ Output(c)
        PROVE  ListInv'
    BY <2>1, AcceptList, ServeList, OutputList DEF Listener, Input
  <2>2. CASE UNCHANGED vars
    BY <2>2, ListKept DEF vars, ListInv, OwnInv
  <2> QED
    BY <2>1, <2>2, WalkList, GoneList DEF Next
<1> QED
  BY <1>1, <1>2, ThreadsInvariance, PTL DEF Spec

\* The list of clients links the records in use, both ways, whatever the
\* order in which they are added and removed, as long as only the listener and
\* clientInput call rfbClientConnectionGone.
THEOREM ListIntegrity ==
  ASSUME GoneCallers = {}
  PROVE  Spec => []ListIntact
<1>1. ListInv => ListIntact
  BY DEF ListInv
<1> QED
  BY <1>1, ListInvariance, PTL

\* Under the same condition a record is freed after its threads have ended:
\* clientInput joins clientOutput.
THEOREM ServedRecordKept ==
  ASSUME GoneCallers = {}
  PROVE  Spec => []KeptWhileServed
<1>1. ListInv => KeptWhileServed
  BY DEF ListInv, OwnInv, KeptWhileServed
<1> QED
  BY <1>1, ListInvariance, PTL
=============================================================================
