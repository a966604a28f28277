---------------------------- MODULE ClientThreads ----------------------------
(***************************************************************************)
(* The life of a client record of libvncserver under -threads: the thread  *)
(* that accepts connections, the input and output thread of every client,  *)
(* and threads that go through the list of clients with an iterator.  A    *)
(* record is linked by rfbNewClient, referenced by iterators and by the    *)
(* output thread, and closed by anyone (rfbCloseClient).  Then             *)
(* rfbClientConnectionGone unlinks it, waits for its references and frees  *)
(* it: called by the client's own input thread at its end, and by others   *)
(* that do not wait for the threads of the client (GoneCallers).           *)
(*                                                                         *)
(* A step is what happens between two points where another thread can get  *)
(* in; whatever updateMutex or refCountMutex protects is one step.  A      *)
(* freed record keeps its contents, the mildest of what a use after free   *)
(* can do.                                                                 *)
(***************************************************************************)
EXTENDS Integers, FiniteSets

CONSTANTS
  Clients,      \* records; each is allocated once, so that a use after free shows.
                \* The thread of the same name is clientInput, or the listener as
                \* long as it sets up or refuses the record.
  Walkers,      \* threads that go through the list
  Null,
  SelectFails,  \* whether select may fail on an open socket (EINTR)
  GoneCallers   \* who else may call rfbClientConnectionGone:
                \* "all" (close_all_clients, and handle_xrandr_change alike),
                \* "match" (close_clients), "scale" (rfbSendNewScaleSize)

Threads == Clients \cup Walkers

ASSUME ThreadsAssumption ==
  /\ IsFiniteSet(Clients) /\ IsFiniteSet(Walkers)
  /\ Clients \cap Walkers = {}
  /\ Null \notin Threads
  /\ SelectFails \in BOOLEAN
  /\ GoneCallers \subseteq {"all", "match", "scale"}

VARIABLES
  head, next, prev,   \* screen->clientHead and the links of the records
  record,             \* auxiliary: what has become of the record's memory
  open,               \* cl->sock # -1
  refCount,
  work,               \* an update is requested and pending, with or without a signal
  listMutex,          \* the thread that holds rfbClientListMutex
  listener,           \* the client the listener is setting up or refusing
  input,              \* the program counter of clientInput, or of the listener
  output,             \* the program counter of clientOutput
  walk,               \* the walkers: program counter, iterator->next, the record an
                      \* iterator is about to let go, and client_match's list
  gone                \* the threads inside rfbClientConnectionGone: where, for whom

listVars == <<head, next, prev>>
vars == <<listVars, record, open, refCount, work, listMutex, listener, input, output,
          walk, gone>>

AtStart == [at |-> "idle", next |-> Null, old |-> Null, pinned |-> FALSE, matched |-> {}]
NotGone == [at |-> "no", of |-> Null]

Init ==
  /\ head = Null
  /\ next = [c \in Clients |-> Null] /\ prev = [c \in Clients |-> Null]
  /\ record = [c \in Clients |-> "new"]
  /\ open = [c \in Clients |-> FALSE]
  /\ refCount = [c \in Clients |-> 0]
  /\ work = [c \in Clients |-> "none"]
  /\ listMutex = Null /\ listener = Null
  /\ input = [c \in Clients |-> "none"]
  /\ output = [c \in Clients |-> "none"]
  /\ walk = [w \in Walkers |-> AtStart]
  /\ gone = [t \in Threads |-> NotGone]

Linked == {c \in Clients : record[c] = "linked"}

(***************************************************************************)
(* Condition variables.  A signal is lost when nobody waits.               *)
(***************************************************************************)
\* TSIGNAL(cl->updateCond): only the output thread waits for it.
SignalUpdate(c) ==
  output' = IF output[c] = "wait" THEN [output EXCEPT ![c] = "check"] ELSE output

\* Mutant of IncrRef: a client that has been closed is not counted.
IncrRefOpen(c) == refCount' = [refCount EXCEPT ![c] = IF open[c] THEN @ + 1 ELSE @]

\* Mutant of DecrRef: the counter is tested before it is decremented.
DecrRefTestedFirst(c) ==
  /\ refCount' = [refCount EXCEPT ![c] = @ - 1]
  /\ gone' = [t \in Threads |->
                IF refCount[c] <= 0 /\ gone[t] = [at |-> "wait", of |-> c]
                THEN [at |-> "drain", of |-> c] ELSE gone[t]]

\* rfbIncrClientRef, rfbDecrClientRef with TSIGNAL(cl->deleteCond)
IncrRef(c) == refCount' = [refCount EXCEPT ![c] = @ + 1]

DecrRef(c) ==
  /\ refCount' = [refCount EXCEPT ![c] = @ - 1]
  /\ gone' = [t \in Threads |->
                IF refCount[c] <= 1 /\ gone[t] = [at |-> "wait", of |-> c]
                THEN [at |-> "drain", of |-> c] ELSE gone[t]]

\* rfbCloseClient: the socket and the signal under updateMutex.
CloseClient(c) ==
  /\ open' = [open EXCEPT ![c] = FALSE]
  /\ SignalUpdate(c)

\* Something is due, and the same updateMutex covers a signal or does not.
Announce(c) == work' = [work EXCEPT ![c] = "announced"] /\ SignalUpdate(c)
SetSilently(c) == work' = [work EXCEPT ![c] = IF @ = "none" THEN "silent" ELSE @]

\* The call of rfbClientConnectionGone for c.
EnterGone(t, c) == gone' = [gone EXCEPT ![t] = [at |-> "unlink", of |-> c]]

(***************************************************************************)
(* The listener (listenerRun, rfbNewClient).                               *)
(***************************************************************************)
Accept(c) ==
  /\ listener = Null /\ record[c] = "new"
  /\ listMutex = Null
  /\ head' = c
  /\ next' = [next EXCEPT ![c] = head]
  /\ prev' = [p \in Clients |-> IF p = head THEN c ELSE IF p = c THEN Null ELSE prev[p]]
  /\ record' = [record EXCEPT ![c] = "linked"]
  /\ open' = [open EXCEPT ![c] = TRUE]
  /\ listener' = c
  /\ input' = [input EXCEPT ![c] = "new"]
  /\ UNCHANGED <<refCount, work, listMutex, output, walk, gone>>

StartClient(c) ==
  /\ input[c] = "new"
  /\ input' = [input EXCEPT ![c] = "create"]
  /\ listener' = Null
  /\ UNCHANGED <<listVars, record, open, refCount, work, listMutex, output, walk, gone>>

\* The handshake cannot be written, or newClientHook refuses the client.
RefuseClient(c) ==
  /\ input[c] = "new"
  /\ CloseClient(c)
  /\ EnterGone(c, c)
  /\ input' = [input EXCEPT ![c] = "ended"]
  /\ UNCHANGED <<listVars, record, refCount, work, listMutex, listener, walk>>

(***************************************************************************)
(* The input thread (clientInput).                                         *)
(***************************************************************************)
CreateOutput(c) ==
  /\ input[c] = "create"
  /\ input' = [input EXCEPT ![c] = "loop"]
  /\ output' = [output EXCEPT ![c] = "check"]
  /\ UNCHANGED <<listVars, record, open, refCount, work, listMutex, listener, walk, gone>>

CheckInput(c) ==
  /\ input[c] = "loop"
  /\ input' = [input EXCEPT ![c] = IF open[c] THEN "select" ELSE "leave"]
  /\ UNCHANGED <<listVars, record, open, refCount, work, listMutex, listener, output,
                 walk, gone>>

\* rfbFramebufferUpdateRequest
UpdateRequest(c) ==
  /\ input[c] = "select" /\ open[c]
  /\ Announce(c)
  /\ input' = [input EXCEPT ![c] = "loop"]
  /\ UNCHANGED <<listVars, record, open, refCount, listMutex, listener, walk, gone>>

\* rfbSetEncodings sets the flags of FB_UPDATE_PENDING, and wakes nobody.
SetEncodings(c) ==
  /\ input[c] = "select" /\ open[c]
  /\ SetSilently(c)
  /\ input' = [input EXCEPT ![c] = "loop"]
  /\ UNCHANGED <<listVars, record, open, refCount, listMutex, listener, output, walk, gone>>

\* The client has gone, or sent what the server does not accept.
ReadFails(c) ==
  /\ input[c] = "select" /\ open[c]
  /\ CloseClient(c)
  /\ input' = [input EXCEPT ![c] = "loop"]
  /\ UNCHANGED <<listVars, record, refCount, work, listMutex, listener, walk, gone>>

\* rfbSendNewScaleSize cannot write its answer: the record is freed within the
\* message, and clientInput goes on with its loop.
ScaleFails(c) ==
  /\ "scale" \in GoneCallers
  /\ input[c] = "select" /\ open[c]
  /\ CloseClient(c)
  /\ EnterGone(c, c)
  /\ input' = [input EXCEPT ![c] = "loop"]
  /\ UNCHANGED <<listVars, record, refCount, work, listMutex, listener, walk>>

SelectError(c) ==
  /\ input[c] = "select"
  /\ ~open[c] \/ SelectFails
  /\ input' = [input EXCEPT ![c] = "leave"]
  /\ UNCHANGED <<listVars, record, open, refCount, work, listMutex, listener, output,
                 walk, gone>>

\* "Get rid of the output thread."
WakeOutput(c) ==
  /\ input[c] = "leave"
  /\ SignalUpdate(c)
  /\ input' = [input EXCEPT ![c] = "join"]
  /\ UNCHANGED <<listVars, record, open, refCount, work, listMutex, listener, walk, gone>>

\* Mutant of Join: the output thread is not waited for.
JoinNothing(c) ==
  /\ input[c] = "join"
  /\ EnterGone(c, c)
  /\ input' = [input EXCEPT ![c] = "ended"]
  /\ UNCHANGED <<listVars, record, open, refCount, work, listMutex, listener, output, walk>>

Join(c) ==
  /\ input[c] = "join" /\ output[c] = "done"
  /\ EnterGone(c, c)
  /\ input' = [input EXCEPT ![c] = "ended"]
  /\ UNCHANGED <<listVars, record, open, refCount, work, listMutex, listener, output, walk>>

\* Mutant of Unlink: the way back of the record behind is not corrected.
UnlinkForward(t) ==
  LET c == gone[t].of
  IN /\ gone[t].at = "unlink"
     /\ listMutex = Null
     /\ listMutex' = t
     /\ head' = IF prev[c] = Null THEN next[c] ELSE head
     /\ next' = [p \in Clients |-> IF p = prev[c] THEN next[c] ELSE next[p]]
     /\ record' = [record EXCEPT ![c] = IF @ = "linked" THEN "unlinked" ELSE @]
     /\ gone' = [gone EXCEPT ![t].at = "drain"]
     /\ UNCHANGED <<prev, open, refCount, work, listener, input, output, walk>>

\* Mutant of Drain: the references are not waited for.
DrainAtOnce(t) ==
  /\ gone[t].at = "drain"
  /\ gone' = [gone EXCEPT ![t].at = "unlock"]
  /\ UNCHANGED <<listVars, record, open, refCount, work, listMutex, listener, input,
                 output, walk>>

(***************************************************************************)
(* rfbClientConnectionGone: the list stays locked until nobody references  *)
(* the record any more.  Nothing keeps it from unlinking a record again    *)
(* that another call has freed.                                            *)
(***************************************************************************)
Unlink(t) ==
  LET c == gone[t].of
  IN /\ gone[t].at = "unlink"
     /\ listMutex = Null
     /\ listMutex' = t
     /\ head' = IF prev[c] = Null THEN next[c] ELSE head
     /\ next' = [p \in Clients |-> IF p = prev[c] THEN next[c] ELSE next[p]]
     /\ prev' = [p \in Clients |-> IF p = next[c] THEN prev[c] ELSE prev[p]]
     /\ record' = [record EXCEPT ![c] = IF @ = "linked" THEN "unlinked" ELSE @]
     /\ gone' = [gone EXCEPT ![t].at = "drain"]
     /\ UNCHANGED <<open, refCount, work, listener, input, output, walk>>

Drain(t) ==
  /\ gone[t].at = "drain"
  /\ gone' = [gone EXCEPT ![t].at = IF refCount[gone[t].of] > 0 THEN "wait" ELSE "unlock"]
  /\ UNCHANGED <<listVars, record, open, refCount, work, listMutex, listener, input,
                 output, walk>>

UnlockList(t) ==
  /\ gone[t].at = "unlock"
  /\ listMutex' = Null
  /\ gone' = [gone EXCEPT ![t].at = "free"]
  /\ UNCHANGED <<listVars, record, open, refCount, work, listener, input, output, walk>>

Free(t) ==
  /\ gone[t].at = "free"
  /\ record' = [record EXCEPT ![gone[t].of] = "freed"]
  /\ gone' = [gone EXCEPT ![t] = NotGone]
  /\ listener' = IF listener = t THEN Null ELSE listener
  /\ UNCHANGED <<listVars, open, refCount, work, listMutex, input, output, walk>>

(***************************************************************************)
(* The output thread (clientOutput).                                       *)
(***************************************************************************)
CheckOutput(c) ==
  /\ output[c] = "check"
  /\ output' = [output EXCEPT ![c] = IF open[c] THEN "lock" ELSE "done"]
  /\ UNCHANGED <<listVars, record, open, refCount, work, listMutex, listener, input,
                 walk, gone>>

\* Mutant of WaitForUpdate: it waits before it looks.
WaitForUpdateFirst(c) ==
  /\ output[c] = "lock"
  /\ output' = [output EXCEPT ![c] = "wait"]
  /\ UNCHANGED <<listVars, record, open, refCount, work, listMutex, listener, input,
                 walk, gone>>

\* LOCK, look for an update, WAIT if there is none.
WaitForUpdate(c) ==
  /\ output[c] = "lock"
  /\ output' = [output EXCEPT ![c] = IF work[c] = "none" THEN "wait" ELSE "take"]
  /\ UNCHANGED <<listVars, record, open, refCount, work, listMutex, listener, input,
                 walk, gone>>

TakeUpdate(c) ==
  /\ output[c] = "take"
  /\ IncrRef(c)
  /\ output' = [output EXCEPT ![c] = "send"]
  /\ UNCHANGED <<listVars, record, open, work, listMutex, listener, input, walk, gone>>

\* Sending clears the request; a write that fails closes the client.
SendUpdate(c) ==
  /\ output[c] = "send"
  /\ work' = [work EXCEPT ![c] = "none"]
  /\ open' \in {open, [open EXCEPT ![c] = FALSE]}
  /\ output' = [output EXCEPT ![c] = "drop"]
  /\ UNCHANGED <<listVars, record, refCount, listMutex, listener, input, walk, gone>>

DropUpdate(c) ==
  /\ output[c] = "drop"
  /\ DecrRef(c)
  /\ output' = [output EXCEPT ![c] = "check"]
  /\ UNCHANGED <<listVars, record, open, work, listMutex, listener, input, walk>>

(***************************************************************************)
(* A thread that goes through the list: an iterator without closed clients.*)
(* The application's threads do, and input threads that handle a message   *)
(* about all clients.                                                      *)
(***************************************************************************)
GetIterator(w) ==
  /\ walk[w].at = "idle"
  /\ walk' = [walk EXCEPT ![w] = [AtStart EXCEPT !.at = "next"]]
  /\ UNCHANGED <<listVars, record, open, refCount, work, listMutex, listener, input,
                 output, gone>>

\* rfbClientIteratorNext: the head is read under the mutex of the list ...
NextIsHead(w) ==
  /\ walk[w].at = "next" /\ walk[w].next = Null
  /\ listMutex = Null
  /\ walk' = [walk EXCEPT ![w].next = head, ![w].at = "skip"]
  /\ UNCHANGED <<listVars, record, open, refCount, work, listMutex, listener, input,
                 output, gone>>

\* Mutant of NextInList: the mutex of the list is taken for the others, too.
NextInListLocked(w) ==
  /\ walk[w].at = "next" /\ walk[w].next # Null
  /\ listMutex = Null
  /\ walk' = [walk EXCEPT ![w].next = next[walk[w].next], ![w].old = walk[w].next,
                          ![w].at = "drop"]
  /\ UNCHANGED <<listVars, record, open, refCount, work, listMutex, listener, input,
                 output, gone>>

\* ... and the others without, from a record that is referenced until then.
NextInList(w) ==
  /\ walk[w].at = "next" /\ walk[w].next # Null
  /\ walk' = [walk EXCEPT ![w].next = next[walk[w].next], ![w].old = walk[w].next,
                          ![w].at = "drop"]
  /\ UNCHANGED <<listVars, record, open, refCount, work, listMutex, listener, input,
                 output, gone>>

DropOld(w) ==
  /\ walk[w].at = "drop"
  /\ DecrRef(walk[w].old)
  /\ walk' = [walk EXCEPT ![w].old = Null, ![w].pinned = FALSE, ![w].at = "skip"]
  /\ UNCHANGED <<listVars, record, open, work, listMutex, listener, input, output>>

SkipClosed(w) ==
  /\ walk[w].at = "skip" /\ walk[w].next # Null
  /\ ~open[walk[w].next]
  /\ walk' = [walk EXCEPT ![w].next = next[walk[w].next]]
  /\ UNCHANGED <<listVars, record, open, refCount, work, listMutex, listener, input,
                 output, gone>>

FindOpen(w) ==
  /\ walk[w].at = "skip" /\ walk[w].next # Null
  /\ open[walk[w].next]
  /\ walk' = [walk EXCEPT ![w].at = "take"]
  /\ UNCHANGED <<listVars, record, open, refCount, work, listMutex, listener, input,
                 output, gone>>

\* pinned (auxiliary): the record was still linked when it was referenced.
TakeNext(w) ==
  /\ walk[w].at = "take"
  /\ IncrRef(walk[w].next)
  /\ walk' = [walk EXCEPT ![w].pinned = walk[w].next \in Linked, ![w].at = "visit"]
  /\ UNCHANGED <<listVars, record, open, work, listMutex, listener, input, output, gone>>

\* The end of the list; the records client_match has found come next.
NoMoreClients(w) ==
  /\ walk[w].at = "skip" /\ walk[w].next = Null
  /\ walk' = [walk EXCEPT ![w].at = IF walk[w].matched = {} THEN "idle" ELSE "matched"]
  /\ UNCHANGED <<listVars, record, open, refCount, work, listMutex, listener, input,
                 output, gone>>

\* rfbMarkRegionAsModified and the like: work for the client.
Mark(w) ==
  /\ walk[w].at = "visit"
  /\ Announce(walk[w].next)
  /\ walk' = [walk EXCEPT ![w].at = "next"]
  /\ UNCHANGED <<listVars, record, open, refCount, listMutex, listener, input, gone>>

\* The pointer has moved or the cursor changed (cursor_position,
\* set_cursor_was_changed): the flags are set, and nobody is woken.
MoveCursor(w) ==
  /\ walk[w].at = "visit"
  /\ SetSilently(walk[w].next)
  /\ walk' = [walk EXCEPT ![w].at = "next"]
  /\ UNCHANGED <<listVars, record, open, refCount, listMutex, listener, input, output, gone>>

\* Only rfbCloseClient, as for a viewer that does not share
\* (rfbProcessClientInitMessage) and in rfbShutdownServer.
Disconnect(w) ==
  /\ walk[w].at = "visit"
  /\ CloseClient(walk[w].next)
  /\ walk' = [walk EXCEPT ![w].at = "next"]
  /\ UNCHANGED <<listVars, record, refCount, work, listMutex, listener, input, gone>>

\* close_all_clients: rfbClientConnectionGone as well, with the iterator still
\* on the record.
DisconnectAll(w) ==
  /\ "all" \in GoneCallers
  /\ walk[w].at = "visit"
  /\ CloseClient(walk[w].next)
  /\ EnterGone(w, walk[w].next)
  /\ walk' = [walk EXCEPT ![w].at = "next"]
  /\ UNCHANGED <<listVars, record, refCount, work, listMutex, listener, input>>

\* client_match puts the record on its list ...
Match(w) ==
  /\ "match" \in GoneCallers
  /\ walk[w].at = "visit"
  /\ walk' = [walk EXCEPT ![w].at = "next", ![w].matched = @ \cup {walk[w].next}]
  /\ UNCHANGED <<listVars, record, open, refCount, work, listMutex, listener, input,
                 output, gone>>

\* ... and close_clients works on that list without any reference.
DisconnectMatched(w, c) ==
  /\ walk[w].at = "matched" /\ c \in walk[w].matched
  /\ CloseClient(c)
  /\ EnterGone(w, c)
  /\ walk' = [walk EXCEPT ![w].matched = @ \ {c},
                          ![w].at = IF walk[w].matched = {c} THEN "idle" ELSE "matched"]
  /\ UNCHANGED <<listVars, record, refCount, work, listMutex, listener, input>>

\* Mutant of ReleaseIterator: the record in hand is not let go.
ReleaseIteratorKept(w) ==
  /\ walk[w].at = "visit" /\ walk[w].matched = {}
  /\ walk' = [walk EXCEPT ![w] = AtStart]
  /\ UNCHANGED <<listVars, record, open, refCount, work, listMutex, listener, input,
                 output, gone>>

\* rfbReleaseClientIterator before the end of the list.
ReleaseIterator(w) ==
  /\ walk[w].at = "visit" /\ walk[w].matched = {}
  /\ DecrRef(walk[w].next)
  /\ walk' = [walk EXCEPT ![w] = AtStart]
  /\ UNCHANGED <<listVars, record, open, work, listMutex, listener, input, output>>

\* A thread does nothing else until rfbClientConnectionGone returns.
Returned(t) == gone[t].at = "no"

Listener(c)   == Returned(c) /\ (Accept(c) \/ StartClient(c) \/ RefuseClient(c))
Gone(t)       == Unlink(t) \/ Drain(t) \/ UnlockList(t) \/ Free(t)
Input(c)      == /\ Returned(c)
                 /\ \/ CreateOutput(c) \/ CheckInput(c) \/ UpdateRequest(c) \/ SetEncodings(c)
                    \/ ReadFails(c) \/ ScaleFails(c) \/ SelectError(c) \/ WakeOutput(c)
                    \/ Join(c)
Output(c)     == \/ CheckOutput(c) \/ WaitForUpdate(c) \/ TakeUpdate(c)
                 \/ SendUpdate(c) \/ DropUpdate(c)
Visit(w)      == \/ Mark(w) \/ MoveCursor(w) \/ Disconnect(w) \/ DisconnectAll(w) \/ Match(w)
                 \/ ReleaseIterator(w)
Iterate(w)    == /\ Returned(w)
                 /\ \/ GetIterator(w) \/ NextIsHead(w) \/ NextInList(w) \/ DropOld(w)
                    \/ SkipClosed(w) \/ FindOpen(w) \/ TakeNext(w) \/ NoMoreClients(w)
                    \/ Visit(w) \/ \E c \in Clients : DisconnectMatched(w, c)

Next ==
  \/ \E c \in Clients : Listener(c) \/ Input(c) \/ Output(c)
  \/ \E w \in Walkers : Iterate(w)
  \/ \E t \in Threads : Gone(t)

Spec == Init /\ [][Next]_vars

\* Threads run; nobody has to connect, to send anything or to walk the list
\* again.
FairSpec ==
  /\ Spec
  /\ \A c \in Clients :
       /\ WF_vars(Returned(c) /\ (StartClient(c) \/ RefuseClient(c)))
       /\ WF_vars(Returned(c) /\ (CreateOutput(c) \/ CheckInput(c) \/ WakeOutput(c) \/ Join(c)))
       /\ WF_vars(Returned(c) /\ SelectError(c))
       /\ WF_vars(Output(c))
  /\ \A t \in Threads :
       /\ SF_vars(Unlink(t))
       /\ WF_vars(Drain(t) \/ UnlockList(t) \/ Free(t))
  /\ \A w \in Walkers :
       /\ WF_vars(Returned(w) /\ (NextInList(w) \/ DropOld(w) \/ SkipClosed(w) \/ FindOpen(w)
                                    \/ TakeNext(w)))
       /\ WF_vars(Returned(w) /\ (NoMoreClients(w) \/ Visit(w)))
       /\ WF_vars(Returned(w) /\ \E c \in Clients : DisconnectMatched(w, c))

(***************************************************************************)
(* Properties.                                                             *)
(***************************************************************************)
InputAt  == {"none", "new", "create", "loop", "select", "leave", "join", "ended"}
OutputAt == {"none", "check", "lock", "wait", "take", "send", "drop", "done"}
WalkAt   == {"idle", "next", "drop", "skip", "take", "visit", "matched"}
GoneAt   == {"no", "unlink", "drain", "wait", "unlock", "free"}

Pointer == Clients \cup {Null}

TypeOK ==
  /\ head \in Pointer /\ listMutex \in Threads \cup {Null} /\ listener \in Pointer
  /\ next \in [Clients -> Pointer] /\ prev \in [Clients -> Pointer]
  /\ record \in [Clients -> {"new", "linked", "unlinked", "freed"}]
  /\ open \in [Clients -> BOOLEAN]
  /\ work \in [Clients -> {"none", "silent", "announced"}]
  /\ refCount \in [Clients -> Nat]
  /\ input \in [Clients -> InputAt] /\ output \in [Clients -> OutputAt]
  /\ walk \in [Walkers -> [at : WalkAt, next : Pointer, old : Pointer,
                           pinned : BOOLEAN, matched : SUBSET Clients]]
  /\ gone \in [Threads -> [at : GoneAt, of : Pointer]]

\* The iterator of w references c.
Holds(w, c) ==
  \/ walk[w].at \in {"visit", "next"} /\ walk[w].next = c
  \/ walk[w].at = "drop" /\ walk[w].old = c

Holders(c) == {w \in Walkers : Holds(w, c)}

Sending(c) == IF output[c] \in {"send", "drop"} THEN 1 ELSE 0

\* The counter counts the references: none is dropped twice or forgotten by
\* rfbClientIteratorNext, rfbReleaseClientIterator or clientOutput.
RefCountExact ==
  \A c \in Clients : refCount[c] = Cardinality(Holders(c)) + Sending(c)

\* The list links exactly the records that are in use, in both directions,
\* whatever the order in which rfbNewClient and rfbClientConnectionGone get
\* the mutex of the list; as long as rfbClientConnectionGone is called once
\* for a record (GoneCallers = {}).
ListIntact ==
  /\ head \in Linked \cup {Null}
  /\ head # Null => prev[head] = Null
  /\ \A c \in Linked :
       /\ next[c] # Null => next[c] \in Linked /\ prev[next[c]] = c
       /\ prev[c] # Null => prev[c] \in Linked /\ next[prev[c]] = c
       /\ prev[c] = Null => head = c

\* A record referenced while it was on the list is not freed before the
\* reference is dropped ("so that the client is not cleaned up while being
\* referenced", rfb/rfb.h:589), whoever calls rfbClientConnectionGone, and
\* however often.
ReferencedIsKept ==
  \A w \in Walkers, c \in Clients :
    walk[w].pinned /\ Holds(w, c) => record[c] # "freed"

\* A record is freed after the threads that serve its client: they use it
\* between two updates or messages without a reference.  clientInput keeps it
\* so by joining clientOutput first; the other callers do not.
KeptWhileServed ==
  \A c \in Clients :
    record[c] = "freed" => input[c] = "ended" /\ output[c] \in {"none", "done"}

\* Nobody sleeps through deleteCond: while rfbClientConnectionGone waits for it
\* in one thread, the reference that is left is another thread's, which will
\* signal; only close_all_clients waits for its own iterator.
NoWakeUpLost ==
  \A t \in Threads, c \in Clients :
    gone[t] = [at |-> "wait", of |-> c] =>
      \/ Sending(c) = 1
      \/ Holders(c) \ {t} # {}
      \/ "all" \in GoneCallers /\ t \in Holders(c)

\* A thread inside rfbClientConnectionGone for the record that its own iterator
\* references: only close_all_clients does that.
SelfHeld == \E w \in Walkers : gone[w].at # "no" /\ Holds(w, gone[w].of)

\* rfbClientConnectionGone waits for the references with the list locked; it
\* does not wait forever: who holds a reference never needs the list mutex
\* before dropping it, except in close_all_clients.
DrainEnds ==
  \A t \in Threads :
    gone[t].at \in {"drain", "wait"} ~> gone[t].at = "no" \/ SelfHeld

\* An update that a request or a mark has announced is sent, or the client is
\* closed: clientOutput tests and waits under the mutex of the signal.
AnnouncedIsSent ==
  \A c \in Clients : work[c] = "announced" ~> work[c] = "none" \/ ~open[c]

(***************************************************************************)
(* Claims of the sources that the code does not keep.  TLC finds the last   *)
(* three violated for one client and one walker.                           *)
(***************************************************************************)
\* "Routines to iterate over the client list in a thread-safe way"
\* (rfb/rfb.h:698): an iterator never looks into a freed record.
IteratorSafe ==
  \A w \in Walkers :
    walk[w].at \in {"skip", "take", "visit"} /\ walk[w].next # Null
      => record[walk[w].next] # "freed"

\* "Get rid of the output thread" (main.c:561): it ends once it is told to.
OutputEnds ==
  \A c \in Clients : input[c] = "join" ~> output[c] = "done"

\* "Use host "all" to close all current clients" (x11vnc/help.c:5234): the
\* thread that does so comes back from closing a client.
DisconnectEnds ==
  \A w \in Walkers : gone[w].at # "no" ~> gone[w].at = "no"

\* "Other clients will be able to see the pointer motions" (x11vnc/help.c:3540):
\* what a motion or SetEncodings makes due is sent, or the client is closed.
DueIsSent ==
  \A c \in Clients : work[c] # "none" ~> work[c] = "none" \/ ~open[c]
=============================================================================
