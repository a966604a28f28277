------------------------------ MODULE Clipboard ------------------------------
(***************************************************************************)
(* The exchange of the X selections and the cut buffer with the viewers    *)
(* (selection.c, check_xevents and xcut_receive in xevents.c).  x11vnc     *)
(* takes the selections when a viewer sends a text, and asks their owner   *)
(* for the text about once a second while another X client has them.       *)
(*                                                                         *)
(* XCheckTypedEvent takes the first event of one type from those that wait, *)
(* so that events of two types are seen in an order of check_xevents' own.  *)
(* X clients act between any two of its steps.  An event that comes late is *)
(* the same for x11vnc as one that happens late, as long as x11vnc has not  *)
(* changed the same thing meanwhile; that can only be the cut buffer, whose *)
(* events may therefore wait.                                               *)
(***************************************************************************)
EXTENDS Integers, Sequences, FiniteSets, SequencesExt

CONSTANTS
  Text,             \* of X clients
  MaxCuts,          \* bound: texts that X clients cut or viewers send
  MaxOutstanding    \* bound: answers x11vnc waits for at a time; it asks
                    \* every 0.6 s or later, so 1 is for X clients that
                    \* answer before that

ASSUME ClipboardAssumption ==
  /\ {"", "CUT_BUFFER0"} \cap Text = {}
  /\ MaxCuts \in Nat /\ MaxOutstanding \in Nat \ {0}

Selection == {"PRIMARY", "CLIPBOARD"}

VARIABLES
  owner, held,            \* of each selection, and the text its X client has
  property,               \* XA_STRING of selwin: every answer is put there
  converting,             \* the text that is about to be put there, or ""
  pasting,                \* an X client waits for x11vnc's text
  events,                 \* for x11vnc, about the selections
  changes,                \* PropertyNotify events for CUT_BUFFER0
  own, xcut_str,          \* own_primary and own_clipboard; whether their texts are the
                          \* "latest" one of the viewers, an "old" one, or NULL, ""
  stored,                 \* primary_str and clipboard_str
  set_cutbuffer,
  wait,                   \* "sent" (sent_some_sel), or "over" when sel_waittime
                          \* has passed since the last viewer came
  at,                     \* how far check_xevents has come
  viewers,                \* "none", all in "handshake" or in RFB_NORMAL ("normal"),
                          \* or "mixed"
  told,                   \* the text that x11vnc's last step sent to them
  cuts

xVars    == <<owner, held, property, converting, pasting>>
evVars   == <<events, changes>>
selVars  == <<own, xcut_str, stored, set_cutbuffer>>
viewVars == <<viewers, told>>
vars == <<xVars, evVars, selVars, wait, at, viewVars, cuts>>

Init ==
  /\ owner = [s \in Selection |-> "none"] /\ held = [s \in Selection |-> ""]
  /\ property = ""
  /\ converting = [s \in Selection |-> ""]
  /\ pasting = [s \in Selection |-> FALSE]
  /\ events = <<>> /\ changes = 0
  /\ own = [s \in Selection |-> FALSE] /\ xcut_str = [s \in Selection |-> ""]
  /\ stored = [s \in Selection |-> ""] /\ set_cutbuffer = FALSE
  /\ wait = "" /\ at = "loop"
  /\ viewers = "none" /\ told = "" /\ cuts = 0

Event(type, s) == [type |-> type, sel |-> s]

(***************************************************************************)
(* The X server and its other clients.                                     *)
(***************************************************************************)
\* An X client takes a selection; the old owner is told.
AppTakes(s, t) ==
  /\ cuts < MaxCuts /\ cuts' = cuts + 1
  /\ owner' = [owner EXCEPT ![s] = "app"]
  /\ held' = [held EXCEPT ![s] = t]
  /\ events' = IF owner[s] = "x11vnc" THEN Append(events, Event("Clear", s)) ELSE events
  /\ UNCHANGED <<property, converting, pasting, changes, selVars, wait, at, viewVars>>

\* The client is gone, and with it what it was asked for.
AppLeaves(s) ==
  /\ owner[s] = "app"
  /\ owner' = [owner EXCEPT ![s] = "none"]
  /\ held' = [held EXCEPT ![s] = ""]
  /\ converting' = [converting EXCEPT ![s] = ""]
  /\ UNCHANGED <<property, pasting, evVars, selVars, wait, at, viewVars,
                 cuts>>

\* CUT_BUFFER0 has another text; the model leaves out which.
AppSetsCutBuffer ==
  /\ cuts < MaxCuts /\ cuts' = cuts + 1
  /\ changes' = changes + 1
  /\ UNCHANGED <<xVars, events, selVars, wait, at, viewVars>>

\* The X client that was asked puts its text into the property, the one it had
\* then or has now, or refuses if it has lost the selection meanwhile.
Answer(s) ==
  /\ converting[s] # ""
  /\ converting' = [converting EXCEPT ![s] = ""]
  /\ \/ /\ property' \in {converting[s], held[s]} \ {""}
        /\ events' = Append(events, Event("Notify", s))
     \/ /\ held[s] # converting[s]
        /\ events' = Append(events, Event("Refused", s))
        /\ UNCHANGED property
  /\ UNCHANGED <<owner, held, pasting, changes, selVars, wait, at,
                 viewVars, cuts>>

\* An X client asks x11vnc for the text.  Bound: one client at a time.
Paste(s) ==
  /\ owner[s] = "x11vnc" /\ \A x \in Selection : ~pasting[x]
  /\ pasting' = [pasting EXCEPT ![s] = TRUE]
  /\ events' = Append(events, Event("Request", s))
  /\ UNCHANGED <<owner, held, property, converting, changes, selVars,
                 wait, at, viewVars, cuts>>

(***************************************************************************)
(* The viewers.                                                            *)
(***************************************************************************)
\* all_clients_initialized, which is so too when there is none.
AllNormal == viewers \in {"none", "normal"}
Connected == viewers # "none"

\* Viewers come, end their handshakes and go.
ViewersChange ==
  /\ at = "loop"
  /\ \/ /\ viewers' = IF viewers = "normal" THEN "mixed"
                       ELSE IF viewers = "none" THEN "handshake" ELSE viewers
        /\ wait' = IF wait = "sent" THEN wait ELSE ""
     \/ /\ Connected
        /\ viewers' \in {"none", "normal"}
                          \cup (IF viewers = "mixed" THEN {"handshake"} ELSE {})
        /\ UNCHANGED wait
  /\ UNCHANGED <<xVars, evVars, selVars, at, told, cuts>>

WaitOver ==
  /\ wait = ""
  /\ wait' = "over"
  /\ UNCHANGED <<xVars, evVars, selVars, at, viewVars, cuts>>

Unowned == {s \in Selection : ~own[s]}

\* xcut_receive, where it takes the selections of S and has texts for them.
Receive(S, texts) ==
  /\ at = "loop" /\ viewers \in {"mixed", "normal"}
  /\ cuts < MaxCuts /\ cuts' = cuts + 1
  /\ own' = [s \in Selection |-> TRUE]
  /\ owner' = [s \in Selection |-> IF s \in S THEN "x11vnc" ELSE owner[s]]
  /\ held' = [s \in Selection |-> IF s \in S THEN "" ELSE held[s]]
  /\ xcut_str' = texts
  /\ changes' = changes + 1
  /\ set_cutbuffer' = TRUE
  /\ UNCHANGED <<property, converting, pasting, events, stored, wait, at, viewVars>>

Latest == [s \in Selection |-> "latest"]

\* Mutant of xcut_receive: a text that is still there is kept.
xcut_receiveKeeps ==
  Receive(Unowned, [s \in Selection |-> IF xcut_str[s] = "" THEN "latest" ELSE "old"])

\* A selection that x11vnc has, as far as it knows, is not taken again.
xcut_receive == Receive(Unowned, Latest)

(***************************************************************************)
(* check_xevents, which looks at one type of events after the other.       *)
(***************************************************************************)
\* The places of the events of some types.
Places(types) == {i \in 1 .. Len(events) : events[i].type \in types}
First(types)  == CHOOSE i \in Places(types) : \A j \in Places(types) : i <= j

Go(from, to) == at = from /\ at' = to
Quiet(from, to) == Go(from, to) /\ told' = ""

\* rfbSendServerCutText, but nothing is sent while some viewer is in its
\* handshake.
Send(text) == told' = IF viewers = "normal" THEN text ELSE ""
cutbuffer_send == Send("CUT_BUFFER0")

\* The first time since x11vnc was started that a viewer has been there long
\* enough.
SendFirst ==
  /\ Go("loop", "property")
  /\ IF Connected /\ wait = "over"
     THEN /\ IF owner["PRIMARY"] = "none" THEN cutbuffer_send ELSE told' = ""
          /\ wait' = "sent"
     ELSE told' = "" /\ UNCHANGED wait
  /\ UNCHANGED <<xVars, evVars, selVars, viewers, cuts>>

\* Mutant of ResetFlag: where the buffer is sent only.
ResetFlagIfSent == set_cutbuffer' = set_cutbuffer

ResetFlag == set_cutbuffer' = FALSE

\* All changes that have arrived are taken together, and ignored if one of
\* them may be x11vnc's own.
CheckProperty ==
  /\ Go("property", "notify")
  /\ changes > 0 /\ changes' \in 0 .. changes - 1
  /\ IF Connected /\ ~set_cutbuffer
     THEN cutbuffer_send /\ wait' = "sent"
     ELSE told' = "" /\ UNCHANGED wait
  /\ ResetFlag
  /\ UNCHANGED <<xVars, events, own, xcut_str, stored, viewers, cuts>>

\* selection_send: the property is read and deleted, and its text sent if it
\* is not the one of the last time.  It is remembered even if it is not sent.
selection_send(s) ==
  /\ stored' = [stored EXCEPT ![s] = property]
  /\ property' = ""
  /\ Send(IF property = stored[s] THEN "" ELSE property)

CheckNotify ==
  /\ Go("notify", "ask")
  /\ Places({"Notify", "Refused"}) # {}
  /\ LET i == First({"Notify", "Refused"})
     IN /\ events' = RemoveAt(events, i)
        /\ IF events[i].type = "Notify" /\ wait # ""
           THEN selection_send(events[i].sel)
           ELSE told' = "" /\ UNCHANGED <<stored, property>>
  /\ UNCHANGED <<owner, held, converting, pasting, changes, own, xcut_str,
                 set_cutbuffer, wait, viewers, cuts>>

Outstanding ==
  Cardinality({s \in Selection : converting[s] # ""})
    + Cardinality(Places({"Notify", "Refused"}))

\* Mutant of TimeToAsk: no pause between two requests.
TimeToAskAlways == TRUE

\* The last request was long enough ago.
TimeToAsk == Outstanding < MaxOutstanding

\* Mutant of Turn: PRIMARY is asked for all the time.
TurnOfPrimary(s) == s = "PRIMARY"

\* CLIPBOARD every third time and PRIMARY the others, or the one that x11vnc
\* does not have.
Turn(s) == ~own[s] \/ Unowned = {}

\* XConvertSelection, if there is another owner to ask.
Ask(s) ==
  /\ Quiet("ask", "request")
  /\ TimeToAsk /\ Turn(s)
  /\ converting' = IF ~own[s] /\ Connected /\ owner[s] = "app"
                   THEN [converting EXCEPT ![s] = held[s]] ELSE converting
  /\ UNCHANGED <<evVars, owner, held, property, pasting, selVars, wait, viewers,
                 cuts>>

\* Mutant of OwnsSome: PRIMARY only.
OwnsPrimary == own["PRIMARY"]

OwnsSome == \E s \in Selection : own[s]

\* selection_request, unless the selection it is for is not x11vnc's any more.
CheckRequest ==
  /\ Quiet("request", "clear")
  /\ OwnsSome /\ Places({"Request"}) # {}
  /\ LET i == First({"Request"})
         s == events[i].sel
     IN /\ events' = RemoveAt(events, i)
        /\ pasting' = [pasting EXCEPT ![s] = @ /\ ~own[s]]
  /\ UNCHANGED <<owner, held, property, converting, changes, selVars, wait, viewers,
                 cuts>>

\* Mutant of CheckClear: the event is not compared with the selections.
CheckClearBoth ==
  /\ Quiet("clear", "loop")
  /\ OwnsSome /\ Places({"Clear"}) # {}
  /\ events' = RemoveAt(events, First({"Clear"}))
  /\ own' = [s \in Selection |-> FALSE] /\ xcut_str' = [s \in Selection |-> ""]
  /\ UNCHANGED <<xVars, changes, stored, set_cutbuffer, wait, viewers, cuts>>

CheckClear ==
  /\ Quiet("clear", "loop")
  /\ OwnsSome /\ Places({"Clear"}) # {}
  /\ LET i == First({"Clear"})
         s == events[i].sel
     IN /\ events' = RemoveAt(events, i)
        /\ own' = [own EXCEPT ![s] = FALSE]
        /\ xcut_str' = [xcut_str EXCEPT ![s] = ""]
  /\ UNCHANGED <<xVars, changes, stored, set_cutbuffer, wait, viewers, cuts>>

\* No such event, or not time to ask yet.
NothingToDo ==
  /\ \/ Quiet("property", "notify")
     \/ Quiet("notify", "ask") /\ Places({"Notify", "Refused"}) = {}
     \/ Quiet("ask", "request")
     \/ Quiet("request", "clear") /\ (OwnsSome => Places({"Request"}) = {})
     \/ Quiet("clear", "loop") /\ (OwnsSome => Places({"Clear"}) = {})
  /\ UNCHANGED <<xVars, evVars, selVars, wait, viewers, cuts>>

Viewers == ViewersChange \/ WaitOver \/ xcut_receive

Display ==
  \/ \E s \in Selection : AppLeaves(s) \/ Answer(s) \/ Paste(s)
  \/ \E s \in Selection, t \in Text : AppTakes(s, t)
  \/ AppSetsCutBuffer

check_xevents ==
  \/ SendFirst \/ CheckProperty \/ CheckNotify \/ CheckRequest \/ CheckClear
  \/ \E s \in Selection : Ask(s)
  \/ NothingToDo

Next == Viewers \/ Display \/ check_xevents

Spec == Init /\ [][Next]_vars

\* watch_loop goes round, time passes and X clients answer.
FairSpec ==
  /\ Spec
  /\ WF_vars(check_xevents) /\ WF_vars(WaitOver)
  /\ \A s \in Selection : WF_vars(Answer(s)) /\ SF_vars(Ask(s))

(***************************************************************************)
(* Properties.                                                             *)
(***************************************************************************)
TypeOK ==
  /\ owner \in [Selection -> {"none", "app", "x11vnc"}]
  /\ held \in [Selection -> Text \cup {""}]
  /\ property \in Text \cup {""}
  /\ converting \in [Selection -> Text \cup {""}]
  /\ pasting \in [Selection -> BOOLEAN]
  /\ \A i \in 1 .. Len(events) :
       events[i] \in [type : {"Notify", "Refused", "Request", "Clear"}, sel : Selection]
  /\ changes \in 0 .. MaxCuts
  /\ own \in [Selection -> BOOLEAN] /\ xcut_str \in [Selection -> {"", "old", "latest"}]
  /\ stored \in [Selection -> Text \cup {""}] /\ set_cutbuffer \in BOOLEAN
  /\ wait \in {"", "over", "sent"}
  /\ at \in {"loop", "property", "notify", "ask", "request", "clear"}
  /\ viewers \in {"none", "handshake", "mixed", "normal"}
  /\ told \in Text \cup {"", "CUT_BUFFER0"}
  /\ cuts \in 0 .. MaxCuts /\ Outstanding <= MaxOutstanding

Pending(type, s) == \E i \in 1 .. Len(events) : events[i] = Event(type, s)

\* x11vnc takes a selection for its own until the SelectionClear for it has
\* been read, and no longer: with a clear read too late or twice it would give
\* up a selection that it has taken again, or ask itself for the text.
OwnershipKnown ==
  \A s \in Selection : own[s] <=> owner[s] = "x11vnc" \/ Pending("Clear", s)

\* What X clients can paste from x11vnc is the latest text of the viewers.
OfferedIsLatest ==
  \A s \in Selection : owner[s] = "x11vnc" => xcut_str[s] = "latest"

\* set_cutbuffer never outlives the PropertyNotify that it is set for, so that
\* a later change by an X client is not taken for x11vnc's own.
FlagHasEvent == set_cutbuffer => changes > 0

\* A new text of an X client is sent to the viewers, unless another one takes
\* its place or a viewer is in its handshake.
NewTextIsSent ==
  \A s \in Selection, t \in Text :
    viewers = "normal" /\ owner[s] = "app" /\ held[s] = t /\ stored[s] # t
      ~> told = t \/ viewers # "normal" \/ owner[s] # "app" \/ held[s] # t

\* An X client whose request waits gets its answer, if nobody takes the
\* selection from x11vnc before.
PastesEnd ==
  \A s \in Selection :
    pasting[s] /\ Pending("Request", s) ~> ~pasting[s] \/ owner[s] # "x11vnc"
=============================================================================
