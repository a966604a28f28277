-------------------------------- MODULE Relay --------------------------------
(***************************************************************************)
(* A remote control session of WizHelper (w_ui.c, w_http.c, w_relay.c and  *)
(* the parts of x11vnc.c, screen.c and rfbserver.c that serve it).  The    *)
(* window starts a thread that asks the web server for the session and     *)
(* becomes x11vnc's main thread; x11vnc connects to the relay, opens a     *)
(* command connection in a thread of its own and waits for its handshake.  *)
(* If no viewer then answers the check of the encryption, it connects once *)
(* more, with a second command thread, and goes on without a viewer if     *)
(* that fails too.                                                         *)
(* The relay's commands start more threads or ask for another pixel size.  *)
(*                                                                         *)
(* All threads share one record, waitInfo, and exit the whole process when *)
(* a connection is closed.  A read that times out counts as a success in   *)
(* read_fully, and what the buffer held before is looked at again.         *)
(***************************************************************************)
EXTENDS Integers, Sequences, FiniteSets

CONSTANTS
  Helper,         \* threads that commands may start
  MaxSent,        \* packets the relay sends on the command connections
  MaxSessions     \* times the window starts a session

ASSUME RelayAssumption == MaxSent \in Nat /\ MaxSessions \in Nat

\* Packets of the relay, and those with data after the header.
Answers  == {"OPENRELAY", "CONNECTINFO"}
Calls    == {"CALLHWCONTROL", "CALLPCONTROL"}
Commands == Calls \cup {"PING", "CHANGEPIXEL", "DESTROY"}
Packets  == Answers \cup Commands
HasData(c) == c \in Answers \cup {"CHANGEPIXEL"}

\* do_reverse_connect tries twice; every attempt that reaches start_relay has
\* a command thread and a command connection of its own.
Attempt == {1, 2}

VARIABLES
  window,                   \* what the window shows; "closed" without a process
  status,                   \* statusNotify
  waitInfo,                 \* which record it points to
  main, mainInfo,           \* where start_main's thread is, and its record
  attempt,                  \* which attempt to connect, 0 before the first
  viewer,                   \* "awaited", "here" or "gone"
  cmdMutex,                 \* whether it is locked
  command, commandInfo,     \* where each command thread is, and its record
  helper, helperInfo,       \* the same for the threads that commands start
  header,                   \* the packet in cmdReadBuffer, which all threads use
  fresh,                    \* whether it was received since the last command
  framed,                   \* whether reads still line up with the packets
  inbox, relayOpen, sent,   \* each command connection, seen from the relay
  change_pixel_size,
  newFBSizePending,
  owed                      \* a change was asked for and no new size sent since

uiVars    == <<window, status, waitInfo>>
mainVars  == <<main, mainInfo, attempt, viewer, cmdMutex>>
cmdVars   == <<command, commandInfo, header, fresh, framed>>
helpVars  == <<helper, helperInfo>>
relayVars == <<inbox, relayOpen, sent>>
pixelVars == <<change_pixel_size, newFBSizePending, owed>>
vars == <<uiVars, mainVars, cmdVars, helpVars, relayVars, pixelVars>>

Init ==
  /\ window = "entry" /\ status = "NONE" /\ waitInfo = 0
  /\ main = "none" /\ mainInfo = 0 /\ cmdMutex = FALSE
  /\ attempt = 0 /\ viewer = "awaited"
  /\ command = [a \in Attempt |-> "none"] /\ commandInfo = [a \in Attempt |-> 0]
  /\ header = "none" /\ fresh = FALSE /\ framed = [a \in Attempt |-> TRUE]
  /\ helper = [h \in Helper |-> "none"] /\ helperInfo = [h \in Helper |-> 0]
  /\ inbox = [a \in Attempt |-> <<>>] /\ relayOpen = [a \in Attempt |-> FALSE]
  /\ sent = [a \in Attempt |-> 0]
  /\ change_pixel_size = 0 /\ newFBSizePending = FALSE /\ owed = FALSE

\* exit(), in whatever thread: the process is gone with all its threads.
Exit ==
  /\ window' = "closed" /\ status' = "NONE" /\ waitInfo' = 0
  /\ main' = "none" /\ mainInfo' = 0 /\ cmdMutex' = FALSE
  /\ attempt' = 0 /\ viewer' = "awaited"
  /\ command' = [a \in Attempt |-> "none"] /\ commandInfo' = [a \in Attempt |-> 0]
  /\ header' = "none" /\ fresh' = FALSE /\ framed' = [a \in Attempt |-> TRUE]
  /\ helper' = [h \in Helper |-> "none"] /\ helperInfo' = [h \in Helper |-> 0]
  /\ inbox' = [a \in Attempt |-> <<>>] /\ relayOpen' = [a \in Attempt |-> FALSE]
  /\ sent' = [a \in Attempt |-> 0]
  /\ change_pixel_size' = 0 /\ newFBSizePending' = FALSE /\ owed' = FALSE

(***************************************************************************)
(* The window's thread.                                                    *)
(***************************************************************************)
\* start_remote_control_func: the old record is freed, and the entry hidden.
PressStart ==
  /\ window = "entry" /\ waitInfo < MaxSessions
  /\ waitInfo' = waitInfo + 1
  /\ window' = "waiting"
  /\ main' = "started" /\ mainInfo' = waitInfo + 1
  /\ UNCHANGED <<status, attempt, viewer, cmdMutex, cmdVars, helpVars, relayVars,
                 pixelVars>>

\* close_app_func and what it leads to; CMD_DESTROY goes out first if there
\* is a command connection.
CloseWindow == window # "closed" /\ status = "NONE" /\ Exit
ConfirmClose == status # "NONE" /\ Exit
\* The alert of ui_finish has one button.
AcknowledgeAlert == window = "finished" /\ Exit

(***************************************************************************)
(* start_main, start_relay and watch_loop: x11vnc's main thread.           *)
(***************************************************************************)
BeginSession ==
  /\ main = "started"
  /\ main' = "request"
  /\ status' = "REQ_ACCEPTNUM"
  /\ UNCHANGED <<window, waitInfo, mainInfo, attempt, viewer, cmdMutex, cmdVars, helpVars,
                 relayVars, pixelVars>>

RequestFails ==
  /\ main = "request"
  /\ main' = "none"
  /\ window' = "finished"
  /\ UNCHANGED <<status, waitInfo, mainInfo, attempt, viewer, cmdMutex, cmdVars, helpVars,
                 relayVars, pixelVars>>

\* Mutant of AcceptNumEmpty: the thread goes on after ui_resume.
AcceptNumEmptyGoesOn ==
  /\ main = "request"
  /\ main' = "connecting" /\ attempt' = 1
  /\ window' = "entry" /\ status' = "NONE"
  /\ UNCHANGED <<waitInfo, mainInfo, viewer, cmdMutex, cmdVars, helpVars,
                 relayVars, pixelVars>>

\* ui_resume: the window may start another session.
AcceptNumEmpty ==
  /\ main = "request"
  /\ main' = "none"
  /\ window' = "entry" /\ status' = "NONE"
  /\ UNCHANGED <<waitInfo, mainInfo, attempt, viewer, cmdMutex, cmdVars, helpVars,
                 relayVars, pixelVars>>

\* x11vnc -connect: check_connect_inputs calls reverse_connect.
Granted ==
  /\ main = "request"
  /\ main' = "connecting"
  /\ attempt' = 1
  /\ UNCHANGED <<uiVars, mainInfo, viewer, cmdMutex, cmdVars, helpVars, relayVars,
                 pixelVars>>

\* rfbReverseConnection has no client: do_reverse_connect connects again.  When
\* that has none either, reverse_connect returns to watch_loop without one.
TryAgainOrGoOn ==
  \/ /\ attempt = 1 /\ attempt' = 2
     /\ main' = "connecting" /\ UNCHANGED viewer
  \/ /\ attempt = 2 /\ UNCHANGED attempt
     /\ main' = "watch" /\ viewer' = "gone"

\* rfbConnect or connect_tcp fails, before start_relay.
ConnectFails ==
  /\ main = "connecting"
  /\ TryAgainOrGoOn
  /\ UNCHANGED <<uiVars, mainInfo, cmdMutex, cmdVars, helpVars, relayVars, pixelVars>>

\* start_relay, up to the second LOCK(cmdMutex).
StartCommandThread ==
  /\ main = "connecting" /\ ~cmdMutex
  /\ cmdMutex' = TRUE
  /\ status' = "CONNECT_CMD_SOCK"
  /\ command' = [command EXCEPT ![attempt] = "connect"]
  /\ commandInfo' = [commandInfo EXCEPT ![attempt] = mainInfo]
  /\ main' = "wait_command"
  /\ UNCHANGED <<window, waitInfo, mainInfo, attempt, viewer, header, fresh, framed,
                 helpVars, relayVars, pixelVars>>

\* Mutant of CommandConnected: nobody waits for the command thread.
CommandConnectedAtOnce ==
  /\ main = "wait_command"
  /\ status' = "RESUME_REPLAY_SOCK"
  /\ main' = "open_relay"
  /\ UNCHANGED <<window, waitInfo, mainInfo, attempt, viewer, cmdMutex, cmdVars, helpVars,
                 relayVars, pixelVars>>

\* The mutex is free once the command thread has unlocked it.
CommandConnected ==
  /\ main = "wait_command" /\ ~cmdMutex
  /\ status' = "RESUME_REPLAY_SOCK"
  /\ main' = "open_relay"
  /\ UNCHANGED <<window, waitInfo, mainInfo, attempt, viewer, cmdMutex, cmdVars, helpVars,
                 relayVars, pixelVars>>

\* OPENRELAY on the viewer's connection, whose answer need not have come, and
\* CREATEMODULEDATA on cmdSock.
OpenRelay ==
  /\ main = "open_relay"
  /\ \/ Exit
     \/ /\ status' = "CONNECTED"
        /\ main' = "check"
        /\ UNCHANGED <<window, waitInfo, mainInfo, attempt, viewer, cmdMutex, cmdVars,
                       helpVars, relayVars, pixelVars>>

\* rfbNewTCPOrUDPClient after start_relay: the check of the encryption is sent
\* and its answer read for up to rfbMaxClientWait, the version is sent, and
\* new_client may refuse.  Whatever fails frees the client.
CheckFails ==
  /\ main = "check"
  /\ TryAgainOrGoOn
  /\ UNCHANGED <<uiVars, mainInfo, cmdMutex, cmdVars, helpVars, relayVars, pixelVars>>

CheckPasses ==
  /\ main = "check"
  /\ main' = "watch"
  /\ viewer' = "here"
  /\ UNCHANGED <<uiVars, mainInfo, attempt, cmdMutex, cmdVars, helpVars, relayVars,
                 pixelVars>>

\* watch_loop tests the flag, does the work, resets the flag and goes on to
\* send updates.
SeePixelSize ==
  /\ main = "watch"
  /\ main' = IF change_pixel_size = 1 THEN "change" ELSE "send"
  /\ UNCHANGED <<uiVars, mainInfo, attempt, viewer, cmdMutex, cmdVars, helpVars, relayVars,
                 pixelVars>>

ChangePixelSize ==
  /\ main = "change"
  /\ main' = "reset"
  /\ newFBSizePending' = (viewer = "here")
  /\ UNCHANGED <<uiVars, mainInfo, attempt, viewer, cmdMutex, cmdVars, helpVars, relayVars,
                 change_pixel_size, owed>>

ResetPixelSize ==
  /\ main = "reset"
  /\ main' = "send"
  /\ change_pixel_size' = 0
  /\ UNCHANGED <<uiVars, mainInfo, attempt, viewer, cmdMutex, cmdVars, helpVars, relayVars,
                 newFBSizePending, owed>>

\* Mutant of SendUpdates: updates are sent while the flag is looked at, as by
\* threads of their own.
SendUpdatesAnywhere ==
  /\ main \in {"watch", "change", "reset", "send"}
  /\ main' = IF main = "send" THEN "watch" ELSE main
  /\ newFBSizePending' = FALSE
  /\ owed' = (owed /\ ~newFBSizePending)
  /\ UNCHANGED <<uiVars, mainInfo, attempt, viewer, cmdMutex, cmdVars, helpVars, relayVars,
                 change_pixel_size>>

\* The updates of rfbProcessEvents, as far as the viewer has asked for them.
SendUpdates ==
  /\ main = "send"
  /\ main' = "watch"
  /\ newFBSizePending' \in {newFBSizePending, FALSE}
  /\ owed' = (owed /\ newFBSizePending' = newFBSizePending)
  /\ UNCHANGED <<uiVars, mainInfo, attempt, viewer, cmdMutex, cmdVars, helpVars, relayVars,
                 change_pixel_size>>

\* client_gone, from rfbProcessEvents: connect_once ends the process with its
\* viewer, unless it leaves before the end of its own handshake.
ViewerLeaves ==
  /\ main = "send" /\ viewer = "here"
  /\ \/ Exit
     \/ /\ viewer' = "gone"
        /\ newFBSizePending' = FALSE
        /\ UNCHANGED <<uiVars, main, mainInfo, attempt, cmdMutex, cmdVars, helpVars,
                       relayVars, change_pixel_size, owed>>

(***************************************************************************)
(* The relay's side of a command connection.                             *)
(***************************************************************************)
TotalSent == sent[1] + sent[2]

\* Answers come in the order of the requests, commands after them, each of
\* them as late as the relay likes.
RelaySends(a, c) ==
  /\ relayOpen[a] /\ TotalSent < MaxSent
  /\ CASE sent[a] = 0 -> c = "OPENRELAY"
       [] sent[a] = 1 -> c = "CONNECTINFO" /\ command[a] # "open_answer"
       [] OTHER       -> c \in Commands
  /\ sent' = [sent EXCEPT ![a] = @ + 1]
  /\ inbox' = [inbox EXCEPT ![a] = @ \o (IF HasData(c) THEN <<c, "data">> ELSE <<c>>)]
  /\ UNCHANGED <<uiVars, mainVars, cmdVars, helpVars, relayOpen, pixelVars>>

RelayCloses(a) ==
  /\ relayOpen[a]
  /\ relayOpen' = [relayOpen EXCEPT ![a] = FALSE]
  /\ UNCHANGED <<uiVars, mainVars, cmdVars, helpVars, inbox, sent, pixelVars>>

(***************************************************************************)
(* The command threads (command_relay).                                    *)
(***************************************************************************)
\* Mutants of TimesOut: no timeout during the handshake, and a closed
\* connection that looks like one.
TimesOutInLoop(a) ==
  inbox[a] = <<>> /\ relayOpen[a] /\ command[a] \in {"loop", "loop_data"}
TimesOutClosed(a) == inbox[a] = <<>>

\* read_fully: recv gives -1, which is not <= 0 as a size_t.
TimesOut(a) == inbox[a] = <<>> /\ relayOpen[a]

\* read_fully: recv gives 0.
Closed(a) == inbox[a] = <<>> /\ ~relayOpen[a]

CommandGoes(a, from, to) ==
  /\ command[a] = from /\ command' = [command EXCEPT ![a] = to]
  /\ UNCHANGED <<uiVars, mainInfo, main, attempt, viewer, commandInfo, helpVars,
                 relayOpen, sent, pixelVars>>

\* create_socket and OPENRELAY.
ConnectCommand(a) ==
  /\ command[a] = "connect"
  /\ \/ Exit
     \/ /\ relayOpen' = [relayOpen EXCEPT ![a] = TRUE]
        /\ command' = [command EXCEPT ![a] = "open_answer"]
        /\ UNCHANGED <<uiVars, mainVars, commandInfo, header, fresh, framed, helpVars,
                       inbox, sent, pixelVars>>

\* The whole answer to OPENRELAY, and CONNECTINFO.
ReadOpenAnswer(a) ==
  /\ CommandGoes(a, "open_answer", "info_header")
  /\ \/ /\ inbox[a] # <<>>
        /\ inbox' = [inbox EXCEPT ![a] = Tail(Tail(@))]
        /\ header' = "OPENRELAY"
     \/ TimesOut(a) /\ UNCHANGED <<inbox, header>>
  /\ UNCHANGED <<cmdMutex, fresh, framed>>

\* Out of step with the packets, anything may be taken for a header.
ReadHeader(a, from, to) ==
  /\ CommandGoes(a, from, to)
  /\ \/ /\ inbox[a] # <<>>
        /\ inbox' = [inbox EXCEPT ![a] = Tail(@)]
        /\ framed' = [framed EXCEPT ![a] = @ /\ Head(inbox[a]) # "data"]
        /\ header' \in IF framed'[a] THEN {Head(inbox[a])} ELSE Packets
        /\ fresh' = TRUE
     \/ TimesOut(a) /\ UNCHANGED <<inbox, header, fresh, framed>>
  /\ UNCHANGED cmdMutex

\* The size is that of the packet in cmdReadBuffer now, which may be an older
\* one or the other thread's: what is read may be a part of the next packet.
ReadData(a, from, to) ==
  /\ CommandGoes(a, from, to)
  /\ HasData(header)
  /\ \/ /\ inbox[a] # <<>>
        /\ inbox' = [inbox EXCEPT ![a] = Tail(@)]
        /\ framed' = [framed EXCEPT ![a] = @ /\ Head(inbox[a]) = "data"]
     \/ TimesOut(a) /\ UNCHANGED <<inbox, framed>>
  /\ UNCHANGED <<header, fresh>>

ReadInfoHeader(a) == ReadHeader(a, "info_header", "info_data")

\* A header without data makes recv return 0, or run into the timeout.
\* UNLOCK(cmdMutex) lets start_relay go on.
ReadInfoData(a) ==
  /\ cmdMutex' = FALSE
  /\ \/ ReadData(a, "info_data", "loop")
     \/ /\ ~HasData(header)
        /\ CommandGoes(a, "info_data", "loop")
        /\ UNCHANGED <<inbox, header, fresh, framed>>

ReadCommand(a) == ReadHeader(a, "loop", "loop_data")

ReadCommandData(a) ==
  /\ UNCHANGED cmdMutex
  /\ \/ ReadData(a, "loop_data", "execute")
     \/ /\ ~HasData(header)
        /\ CommandGoes(a, "loop_data", "execute")
        /\ UNCHANGED <<inbox, header, fresh, framed>>

ReadFails(a) ==
  /\ \/ Closed(a) /\ command[a] \in {"open_answer", "info_header", "info_data", "loop"}
     \/ Closed(a) /\ command[a] = "loop_data" /\ HasData(header)
     \/ command[a] = "info_data" /\ ~HasData(header)
  /\ Exit

Executed(a) ==
  /\ command[a] = "execute" /\ command' = [command EXCEPT ![a] = "loop"]
  /\ fresh' = FALSE
  /\ UNCHANGED <<uiVars, mainVars, commandInfo, header, framed, relayVars>>

\* beginHWControl and beginPControl.
CallHelper(a, h) ==
  /\ Executed(a) /\ header \in Calls
  /\ helper[h] = "none"
  /\ helper' = [helper EXCEPT ![h] = "connect"]
  /\ helperInfo' = [helperInfo EXCEPT ![h] = commandInfo[a]]
  /\ UNCHANGED pixelVars

\* Mutant of ChangePixel: the requests are counted.
ChangePixelCounted(a) ==
  /\ Executed(a) /\ header = "CHANGEPIXEL"
  /\ change_pixel_size' = change_pixel_size + 1
  /\ owed' = TRUE
  /\ UNCHANGED <<helpVars, newFBSizePending>>

ChangePixel(a) ==
  /\ Executed(a) /\ header = "CHANGEPIXEL"
  /\ change_pixel_size' = 1
  /\ owed' = TRUE
  /\ UNCHANGED <<helpVars, newFBSizePending>>

\* PING is answered, other packets are ignored.  A call that no thread of the
\* model is left for is ignored too.
OtherCommand(a) ==
  /\ Executed(a)
  /\ header \notin {"CHANGEPIXEL", "DESTROY"}
  /\ header \in Calls => \A h \in Helper : helper[h] # "none"
  /\ UNCHANGED <<helpVars, pixelVars>>

Destroy(a) == command[a] = "execute" /\ header = "DESTROY" /\ Exit

(***************************************************************************)
(* startHWControl and startPControl, from their connection to their loop.  *)
(***************************************************************************)
HelperConnects(h) ==
  /\ helper[h] = "connect"
  /\ helper' = [helper EXCEPT ![h] = "serve"]
  /\ UNCHANGED <<uiVars, mainVars, cmdVars, helperInfo, relayVars, pixelVars>>

\* The connection is refused or closed.
HelperFails(h) == helper[h] \in {"connect", "serve"} /\ Exit

Window == PressStart \/ CloseWindow \/ ConfirmClose \/ AcknowledgeAlert

Main ==
  \/ BeginSession \/ RequestFails \/ AcceptNumEmpty \/ Granted \/ ConnectFails
  \/ StartCommandThread \/ CommandConnected \/ OpenRelay \/ CheckFails \/ CheckPasses
  \/ SeePixelSize \/ ChangePixelSize \/ ResetPixelSize \/ SendUpdates

Command(a) ==
  \/ ConnectCommand(a) \/ ReadOpenAnswer(a) \/ ReadInfoHeader(a) \/ ReadInfoData(a)
  \/ ReadCommand(a) \/ ReadCommandData(a) \/ ReadFails(a)
  \/ \E h \in Helper : CallHelper(a, h)
  \/ ChangePixel(a) \/ OtherCommand(a) \/ Destroy(a)

Relay(a) == RelayCloses(a) \/ \E c \in Packets : RelaySends(a, c)

Next ==
  \/ Window \/ Main \/ ViewerLeaves
  \/ \E a \in Attempt : Command(a) \/ Relay(a)
  \/ \E h \in Helper : HelperConnects(h) \/ HelperFails(h)

Spec == Init /\ [][Next]_vars

\* The threads run, and their reads end with a timeout at the latest.
FairSpec == Spec /\ WF_vars(Main) /\ \A a \in Attempt : WF_vars(Command(a))

(***************************************************************************)
(* Properties.                                                             *)
(***************************************************************************)
FlagsOK ==
  /\ cmdMutex \in BOOLEAN /\ fresh \in BOOLEAN /\ framed \in [Attempt -> BOOLEAN]
  /\ relayOpen \in [Attempt -> BOOLEAN] /\ newFBSizePending \in BOOLEAN /\ owed \in BOOLEAN

PlacesOK ==
  /\ window \in {"entry", "waiting", "finished", "closed"}
  /\ status \in {"NONE", "REQ_ACCEPTNUM", "CONNECT_CMD_SOCK", "RESUME_REPLAY_SOCK", "CONNECTED"}
  /\ waitInfo \in 0 .. MaxSessions
  /\ main \in {"none", "started", "request", "connecting", "wait_command", "open_relay", "check",
               "watch", "change", "reset", "send"}
  /\ mainInfo \in 0 .. MaxSessions
  /\ attempt \in {0} \cup Attempt /\ viewer \in {"awaited", "here", "gone"}
  /\ command \in [Attempt -> {"none", "connect", "open_answer", "info_header", "info_data",
                              "loop", "loop_data", "execute"}]
  /\ commandInfo \in [Attempt -> 0 .. MaxSessions]
  /\ header \in Packets \cup {"none"}
  /\ helper \in [Helper -> {"none", "connect", "serve"}]
  /\ helperInfo \in [Helper -> 0 .. MaxSessions]
  /\ sent \in [Attempt -> 0 .. MaxSent] /\ change_pixel_size \in {0, 1}

InboxOK == inbox \in [Attempt -> Seq(Packets \cup {"data"})]

TypeOK == FlagsOK /\ PlacesOK /\ InboxOK

\* start_remote_control_func frees the record of the last session: no thread
\* that still runs may have been started with it.
RecordInUse ==
  /\ main # "none" => mainInfo = waitInfo
  /\ \A a \in Attempt : command[a] # "none" => commandInfo[a] = waitInfo
  /\ \A h \in Helper : helper[h] # "none" => helperInfo[h] = waitInfo

Looping == {"loop", "loop_data", "execute"}

\* The viewer's connection is opened, and CREATEMODULEDATA is sent on cmdSock,
\* only after the command thread of this attempt is through its handshake: the
\* mutex that start_relay locks twice is unlocked by the other thread.  The
\* window says no more than "step2" while no command thread has got as far.
HandshakeFirst ==
  /\ main \in {"open_relay", "check"} => command[attempt] \in Looping
  /\ status \in {"RESUME_REPLAY_SOCK", "CONNECTED"} =>
       \E a \in Attempt : command[a] \in Looping

\* Although watch_loop resets change_pixel_size after the work, a change that
\* is asked for meanwhile is answered with a new size, as long as there is a
\* viewer: none is sent between the work and the reset.
PixelChangeKept ==
  owed /\ viewer # "gone" => change_pixel_size = 1 \/ newFBSizePending

\* Granted a session, x11vnc comes to watch_loop, with a viewer or after two
\* attempts without one, or the process ends, however silent the relay is:
\* neither lock of cmdMutex in start_relay waits for ever, in either attempt.
AttemptsEnd == main = "connecting" ~> main = "watch" \/ window = "closed"

\* When the relay closes a command connection, the process ends.
CloseEnds ==
  (\E a \in Attempt : command[a] \notin {"none", "connect"} /\ ~relayOpen[a])
    ~> window = "closed"

(***************************************************************************)
(* Claims of the sources that the code does not keep: TLC finds both       *)
(* violated, the first with three packets and the second with two.         *)
(***************************************************************************)
\* A command is carried out only when it was received since the last one
\* ("failed. KPACKET recv data." is what a read that fails should lead to).
CarriedOutOnce ==
  [][\A a \in Attempt :
       command[a] = "execute" /\ command'[a] = "loop" /\ header \in Commands => fresh]_vars

\* "[Success] Remote Control Connected." is what the window says when a viewer
\* has connected.
ConnectedHasViewer ==
  status = "CONNECTED" /\ main \in {"watch", "change", "reset", "send"} => viewer = "here"
=============================================================================
