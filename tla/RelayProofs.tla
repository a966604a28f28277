----------------------------- MODULE RelayProofs -----------------------------
(***************************************************************************)
(* Proofs about a relay session, for any number of sessions, packets and   *)
(* threads that commands start: whose record a thread uses, what the two   *)
(* locks of cmdMutex in start_relay achieve in both attempts to connect,   *)
(* and why the flag that watch_loop resets too late loses no change of the *)
(* pixel size.                                                             *)
(***************************************************************************)
EXTENDS Relay, SequenceTheorems, TLAPS

(***************************************************************************)
(* The inductive invariant, in named parts.                                *)
(***************************************************************************)
Serving == {"watch", "change", "reset", "send"}

\* What exists at which time: the window offers a session only without one,
\* the command threads and their helpers belong to one, and an attempt has no
\* command thread before start_relay.
SessionInv ==
  /\ window = "entry" => main = "none"
  /\ main \in {"none", "started", "request"} <=> attempt = 0
  /\ attempt = 0 => status \notin {"RESUME_REPLAY_SOCK", "CONNECTED"}
  /\ main = "connecting" => command[attempt] = "none"
  /\ \A a \in Attempt : a > attempt => command[a] = "none"
  /\ \A h \in Helper : helper[h] # "none" => \E a \in Attempt : command[a] # "none"

\* start_relay holds the mutex until the command thread of this attempt is in
\* its loop, which it never leaves; only that thread unlocks it.
MutexInv ==
  /\ \A a \in Attempt : \/ command[a] \in Looping \cup {"none"}
                        \/ a = attempt /\ main = "wait_command"
  /\ main = "wait_command" /\ ~cmdMutex => command[attempt] \in Looping

\* The first read of a command thread finds one whole answer, if any.
AnswerInv ==
  \A a \in Attempt :
    /\ relayOpen[a] => command[a] \notin {"none", "connect"}
    /\ command[a] \in {"none", "connect"} => sent[a] = 0
    /\ command[a] \in {"none", "connect", "open_answer"} =>
         \/ sent[a] = 0 /\ inbox[a] = <<>>
         \/ sent[a] = 1 /\ inbox[a] = <<"OPENRELAY", "data">>

\* The attempts to connect decide about the viewer; between the work and the
\* reset of the flag no update has gone out.
ResetInv ==
  /\ main \in Serving <=> viewer # "awaited"
  /\ main = "reset" /\ viewer = "here" => newFBSizePending

IInv ==
  /\ FlagsOK /\ PlacesOK /\ InboxOK
  /\ RecordInUse /\ HandshakeFirst /\ PixelChangeKept
  /\ SessionInv /\ MutexInv /\ AnswerInv /\ ResetInv

(***************************************************************************)
(* Packets in a connection.                                                *)
(***************************************************************************)
Items == Packets \cup {"data"}
Packet(c) == IF HasData(c) THEN <<c, "data">> ELSE <<c>>

\* A packet is one or two items.
LEMMA PacketInSeq ==
  ASSUME NEW s \in Seq(Items), NEW c \in Packets
  PROVE  s \o Packet(c) \in Seq(Items)
<1>1. c \in Items /\ "data" \in Items
  BY DEF Items
<1>2. Packet(c) \in Seq(Items)
  BY <1>1 DEF Packet
<1> QED
  BY <1>2, ConcatProperties

(***************************************************************************)
(* The steps.                                                              *)
(***************************************************************************)
\* A window at its entry, and nothing else.
LEMMA InitInv == Init => IInv
<1> SUFFICES ASSUME Init PROVE IInv
  OBVIOUS
<1>1. InboxOK
  BY EmptySeq DEF Init, InboxOK
<1>2. PlacesOK
  BY RelayAssumption DEF Init, PlacesOK
<1>3. FlagsOK
  BY Zenon DEF Init, FlagsOK
<1> QED
  BY <1>1, <1>2, <1>3 DEF Init, IInv, RecordInUse, HandshakeFirst, PixelChangeKept, SessionInv, MutexInv,
     AnswerInv, ResetInv, Serving, Attempt

\* Nothing is left after exit, in whatever state a thread calls it.
LEMMA ExitInv == Exit => IInv'
<1> SUFFICES ASSUME Exit PROVE IInv'
  OBVIOUS
<1>1. InboxOK'
  BY EmptySeq DEF Exit, InboxOK
<1>2. PlacesOK'
  BY RelayAssumption DEF Exit, PlacesOK
<1>3. FlagsOK'
  BY Zenon DEF Exit, FlagsOK
<1> QED
  BY <1>1, <1>2, <1>3 DEF Exit, IInv, RecordInUse, HandshakeFirst, PixelChangeKept, SessionInv, MutexInv,
     AnswerInv, ResetInv, Serving, Attempt

\* The window starts a session with a new record, when no thread has the old.
LEMMA WindowStep == IInv /\ Window => IInv'
<1> SUFFICES ASSUME IInv, Window PROVE IInv'
  OBVIOUS
<1>1. CASE PressStart
  <2>1. FlagsOK' /\ InboxOK'
    BY <1>1 DEF PressStart, IInv, FlagsOK, InboxOK, cmdVars, relayVars, pixelVars
  <2>2. PlacesOK'
    BY <1>1, RelayAssumption DEF PressStart, IInv, PlacesOK, cmdVars, helpVars, relayVars, pixelVars
  <2>3. /\ attempt = 0 /\ \A a \in Attempt : command[a] = "none"
        /\ \A h \in Helper : helper[h] = "none"
    BY <1>1 DEF PressStart, IInv, SessionInv, Attempt
  <2>4. RecordInUse'
    BY <1>1, <2>3 DEF PressStart, RecordInUse, cmdVars, helpVars
  <2>5. HandshakeFirst' /\ PixelChangeKept' /\ ResetInv'
    BY <1>1 DEF PressStart, IInv, HandshakeFirst, PixelChangeKept, ResetInv, Serving, SessionInv,
       cmdVars, pixelVars
  <2>6. SessionInv' /\ MutexInv' /\ AnswerInv'
    BY <1>1, <2>3 DEF PressStart, IInv, SessionInv, MutexInv, AnswerInv, cmdVars, helpVars, relayVars
  <2> QED
    BY <2>1, <2>2, <2>4, <2>5, <2>6 DEF IInv
<1>2. CASE CloseWindow \/ ConfirmClose \/ AcknowledgeAlert
  BY <1>2, ExitInv DEF CloseWindow, ConfirmClose, AcknowledgeAlert
<1> QED
  BY <1>1, <1>2 DEF Window

\* A step of x11vnc's main thread that moves it and perhaps the attempt, the
\* viewer, the status or the pixel variables, and starts nothing.
LEMMA MainGoes ==
  ASSUME IInv,
         UNCHANGED <<waitInfo, mainInfo, cmdMutex, cmdVars, helpVars, relayVars>>,
         FlagsOK', PlacesOK', HandshakeFirst', PixelChangeKept', ResetInv',
         window' = "entry" => main' = "none",
         main # "none",
         main' \in {"none", "started", "request"} <=> attempt' = 0,
         attempt' = 0 => status' \notin {"RESUME_REPLAY_SOCK", "CONNECTED"},
         main' = "connecting" => command[attempt'] = "none",
         attempt' >= attempt,
         main' # "wait_command",
         main = "wait_command" => command[attempt] \in Looping
  PROVE  IInv'
<1>1. attempt \in {0, 1, 2} /\ attempt' \in {0, 1, 2}
  BY DEF IInv, PlacesOK, Attempt
<1>2. InboxOK'
  BY DEF IInv, InboxOK, relayVars
<1>3. RecordInUse'
  BY DEF IInv, RecordInUse, cmdVars, helpVars
<1>4. SessionInv'
  BY <1>1 DEF IInv, SessionInv, Attempt, cmdVars, helpVars
<1>5. MutexInv'
  BY DEF IInv, MutexInv, cmdVars
<1>6. AnswerInv'
  BY DEF IInv, AnswerInv, cmdVars, relayVars
<1> QED
  BY <1>2, <1>3, <1>4, <1>5, <1>6 DEF IInv

\* The second attempt, or watch_loop without a viewer.
LEMMA TryAgainStep ==
  ASSUME IInv, main \in {"connecting", "check"}, TryAgainOrGoOn,
         UNCHANGED <<uiVars, mainInfo, cmdMutex, cmdVars, helpVars, relayVars, pixelVars>>
  PROVE  IInv'
<1>1. /\ attempt \in {1, 2} /\ attempt' \in {1, 2} /\ attempt' >= attempt
      /\ \/ main' = "connecting" /\ viewer' = viewer /\ attempt = 1 /\ attempt' = 2
         \/ main' = "watch" /\ viewer' = "gone" /\ attempt = 2 /\ attempt' = 2
  BY DEF TryAgainOrGoOn
<1>2. FlagsOK'
  BY DEF IInv, FlagsOK, cmdVars, relayVars, pixelVars
<1>3. PlacesOK'
  BY <1>1 DEF IInv, PlacesOK, uiVars, cmdVars, helpVars, relayVars, pixelVars, Attempt
<1>4. HandshakeFirst' /\ ResetInv'
  BY <1>1 DEF IInv, HandshakeFirst, ResetInv, Serving, uiVars, cmdVars
<1>5. PixelChangeKept'
  BY <1>1 DEF IInv, PixelChangeKept, pixelVars
<1>6. main' = "connecting" => command[attempt'] = "none"
  BY <1>1 DEF IInv, SessionInv, Attempt
<1>7. window' = "entry" => main' = "none"
  BY DEF IInv, SessionInv, uiVars
<1> QED
  BY <1>1, <1>2, <1>3, <1>4, <1>5, <1>6, <1>7, MainGoes DEF uiVars

\* x11vnc's main thread.
LEMMA MainStep == IInv /\ Main => IInv'
<1> SUFFICES ASSUME IInv, Main PROVE IInv'
  OBVIOUS
<1>1. FlagsOK /\ PlacesOK /\ HandshakeFirst /\ PixelChangeKept /\ SessionInv /\ MutexInv /\ ResetInv
  BY DEF IInv
<1>2. /\ attempt \in {0, 1, 2}
      /\ main \in {"none", "started", "request"} <=> attempt = 0
      /\ window = "entry" => main = "none"
  BY <1>1 DEF PlacesOK, SessionInv, Attempt
<1>3. CASE BeginSession \/ RequestFails \/ AcceptNumEmpty
  <2>1. FlagsOK'
    BY <1>1, <1>3 DEF BeginSession, RequestFails, AcceptNumEmpty, FlagsOK, cmdVars, relayVars, pixelVars
  <2>2. PlacesOK'
    BY <1>1, <1>3 DEF BeginSession, RequestFails, AcceptNumEmpty, PlacesOK, cmdVars, helpVars, relayVars,
       pixelVars
  <2>3. HandshakeFirst' /\ PixelChangeKept' /\ ResetInv'
    BY <1>1, <1>3 DEF BeginSession, RequestFails, AcceptNumEmpty, HandshakeFirst, PixelChangeKept, ResetInv,
       Serving, cmdVars, pixelVars
  <2> QED
    BY <1>1, <1>2, <1>3, <2>1, <2>2, <2>3, MainGoes
    DEF BeginSession, RequestFails, AcceptNumEmpty, SessionInv
<1>4. CASE Granted
  <2>1. FlagsOK'
    BY <1>1, <1>4 DEF Granted, FlagsOK, cmdVars, relayVars, pixelVars
  <2>2. PlacesOK'
    BY <1>1, <1>4 DEF Granted, PlacesOK, uiVars, cmdVars, helpVars, relayVars, pixelVars, Attempt
  <2>3. HandshakeFirst' /\ PixelChangeKept' /\ ResetInv'
    BY <1>1, <1>4 DEF Granted, HandshakeFirst, PixelChangeKept, ResetInv, Serving, uiVars, cmdVars, pixelVars
  <2>4. command[1] = "none"
    BY <1>1, <1>2, <1>4 DEF Granted, SessionInv, Attempt
  <2> QED
    BY <1>2, <1>4, <2>1, <2>2, <2>3, <2>4, MainGoes DEF Granted, uiVars
<1>5. CASE ConnectFails \/ CheckFails
  BY <1>5, TryAgainStep DEF ConnectFails, CheckFails
<1>6. CASE StartCommandThread
  <2>1. /\ main = "connecting" /\ main' = "wait_command" /\ cmdMutex' = TRUE
        /\ status' = "CONNECT_CMD_SOCK" /\ window' = window /\ attempt' = attempt
        /\ attempt \in Attempt /\ command[attempt] = "none"
        /\ command \in [Attempt -> {"none"} \cup Looping]
    BY <1>1, <1>2, <1>6 DEF StartCommandThread, SessionInv, MutexInv, PlacesOK, Attempt
  <2>2. /\ command'[attempt] = "connect" /\ commandInfo'[attempt] = mainInfo
        /\ \A a \in Attempt \ {attempt} : command'[a] = command[a] /\ commandInfo'[a] = commandInfo[a]
    BY <1>1, <1>6, <2>1 DEF StartCommandThread, PlacesOK
  <2>3. FlagsOK'
    BY <1>1, <1>6 DEF StartCommandThread, FlagsOK, relayVars, pixelVars
  <2>4. PlacesOK'
    BY <1>1, <1>6 DEF StartCommandThread, PlacesOK, helpVars, relayVars, pixelVars
  <2>5. RecordInUse'
    BY <1>6, <2>1, <2>2 DEF StartCommandThread, IInv, RecordInUse, helpVars
  <2>6. HandshakeFirst' /\ PixelChangeKept' /\ ResetInv'
    BY <1>1, <1>6 DEF StartCommandThread, HandshakeFirst, PixelChangeKept, ResetInv, Serving, pixelVars
  <2>7. SessionInv'
    BY <1>1, <1>2, <1>6, <2>1, <2>2 DEF StartCommandThread, SessionInv, helpVars, Attempt
  <2>8. MutexInv'
    BY <2>1, <2>2 DEF MutexInv
  <2>9. AnswerInv'
    BY <1>6, <2>1, <2>2 DEF StartCommandThread, IInv, AnswerInv, relayVars
  <2>10. InboxOK'
    BY <1>6 DEF StartCommandThread, IInv, InboxOK, relayVars
  <2> QED
    BY <2>3, <2>4, <2>5, <2>6, <2>7, <2>8, <2>9, <2>10 DEF IInv
<1>7. CASE CommandConnected
  <2>1. command[attempt] \in Looping /\ attempt \in Attempt
    BY <1>1, <1>2, <1>7 DEF CommandConnected, MutexInv, Attempt
  <2>2. FlagsOK'
    BY <1>1, <1>7 DEF CommandConnected, FlagsOK, cmdVars, relayVars, pixelVars
  <2>3. PlacesOK'
    BY <1>1, <1>7 DEF CommandConnected, PlacesOK, cmdVars, helpVars, relayVars, pixelVars
  <2>4. HandshakeFirst' /\ PixelChangeKept' /\ ResetInv'
    BY <1>1, <1>7, <2>1 DEF CommandConnected, HandshakeFirst, PixelChangeKept, ResetInv, Serving, cmdVars,
       pixelVars
  <2> QED
    BY <1>2, <1>7, <2>1, <2>2, <2>3, <2>4, MainGoes DEF CommandConnected
<1>8. CASE OpenRelay
  <2>1. CASE Exit
    BY <2>1, ExitInv
  <2>2. CASE ~Exit
    <3>1. FlagsOK'
      BY <1>1, <1>8, <2>2 DEF OpenRelay, FlagsOK, cmdVars, relayVars, pixelVars
    <3>2. PlacesOK'
      BY <1>1, <1>8, <2>2 DEF OpenRelay, PlacesOK, cmdVars, helpVars, relayVars, pixelVars
    <3>3. HandshakeFirst' /\ PixelChangeKept' /\ ResetInv'
      BY <1>1, <1>2, <1>8, <2>2 DEF OpenRelay, HandshakeFirst, PixelChangeKept, ResetInv, Serving, cmdVars,
         pixelVars, Attempt
    <3> QED
      BY <1>2, <1>8, <2>2, <3>1, <3>2, <3>3, MainGoes DEF OpenRelay
  <2> QED
    BY <2>1, <2>2
<1>9. CASE CheckPasses \/ SeePixelSize \/ ResetPixelSize
  <2>1. FlagsOK'
    BY <1>1, <1>9 DEF CheckPasses, SeePixelSize, ResetPixelSize, FlagsOK, cmdVars, relayVars, pixelVars
  <2>2. PlacesOK'
    BY <1>1, <1>9 DEF CheckPasses, SeePixelSize, ResetPixelSize, PlacesOK, uiVars, cmdVars, helpVars,
       relayVars, pixelVars
  <2>3. HandshakeFirst'
    BY <1>1, <1>9 DEF CheckPasses, SeePixelSize, ResetPixelSize, HandshakeFirst, uiVars, cmdVars
  <2>4. PixelChangeKept'
    <3>1. CASE CheckPasses \/ SeePixelSize
      <4>1. viewer' = viewer \/ viewer = "awaited"
        BY <1>1, <3>1 DEF CheckPasses, SeePixelSize, ResetInv, Serving
      <4> QED
        BY <1>1, <3>1, <4>1 DEF CheckPasses, SeePixelSize, PixelChangeKept, pixelVars
    <3>2. CASE ResetPixelSize
      BY <1>1, <3>2 DEF ResetPixelSize, PixelChangeKept, ResetInv, Serving, PlacesOK
    <3> QED
      BY <1>9, <3>1, <3>2
  <2>5. ResetInv'
    BY <1>1, <1>9 DEF CheckPasses, SeePixelSize, ResetPixelSize, ResetInv, Serving, PlacesOK, pixelVars
  <2> QED
    BY <1>2, <1>9, <2>1, <2>2, <2>3, <2>4, <2>5, MainGoes DEF CheckPasses, SeePixelSize, ResetPixelSize,
       uiVars
<1>10. CASE ChangePixelSize
  <2>1. newFBSizePending' = (viewer = "here") /\ viewer' = viewer /\ owed' = owed
    BY <1>10 DEF ChangePixelSize
  <2>2. newFBSizePending' \in BOOLEAN
    BY <2>1, Zenon
  <2>3. viewer = "here" => newFBSizePending'
    BY <2>1, Zenon
  <2>4. FlagsOK'
    BY <1>1, <1>10, <2>2 DEF ChangePixelSize, FlagsOK, cmdVars, relayVars
  <2>5. PlacesOK'
    BY <1>1, <1>10 DEF ChangePixelSize, PlacesOK, uiVars, cmdVars, helpVars, relayVars
  <2>6. viewer \in {"here", "gone"}
    BY <1>1, <1>10 DEF ChangePixelSize, ResetInv, Serving, PlacesOK
  <2>7. ResetInv'
    BY <1>10, <2>1, <2>3, <2>6 DEF ChangePixelSize, ResetInv, Serving
  <2>8. PixelChangeKept'
    BY <2>1, <2>3, <2>6 DEF PixelChangeKept
  <2>9. HandshakeFirst'
    BY <1>1, <1>10 DEF ChangePixelSize, HandshakeFirst, uiVars, cmdVars
  <2> QED
    BY <1>2, <1>10, <2>4, <2>5, <2>7, <2>8, <2>9, MainGoes DEF ChangePixelSize, uiVars
<1>11. CASE SendUpdates
  <2>1. newFBSizePending' \in BOOLEAN /\ owed' \in BOOLEAN
    BY <1>1, <1>11, Zenon DEF SendUpdates, FlagsOK
  <2>2. owed' => owed /\ newFBSizePending' = newFBSizePending
    BY <1>11, Zenon DEF SendUpdates
  <2>3. viewer' = viewer /\ change_pixel_size' = change_pixel_size
    BY <1>11 DEF SendUpdates
  <2>4. PixelChangeKept'
    BY <1>1, <2>2, <2>3, Zenon DEF PixelChangeKept
  <2>5. FlagsOK'
    BY <1>1, <1>11, <2>1 DEF SendUpdates, FlagsOK, cmdVars, relayVars
  <2>6. PlacesOK'
    BY <1>1, <1>11 DEF SendUpdates, PlacesOK, uiVars, cmdVars, helpVars, relayVars
  <2>7. HandshakeFirst' /\ ResetInv'
    BY <1>1, <1>11 DEF SendUpdates, HandshakeFirst, ResetInv, Serving, uiVars, cmdVars
  <2> QED
    BY <1>2, <1>11, <2>4, <2>5, <2>6, <2>7, MainGoes DEF SendUpdates, uiVars
<1> QED
  BY <1>3, <1>4, <1>5, <1>6, <1>7, <1>8, <1>9, <1>10, <1>11 DEF Main

\* The viewer goes, and nothing is owed to it any more.
LEMMA ViewerStep == IInv /\ ViewerLeaves => IInv'
<1> SUFFICES ASSUME IInv, ViewerLeaves, ~Exit PROVE IInv'
  BY ExitInv
<1>1. FlagsOK'
  BY DEF ViewerLeaves, IInv, FlagsOK, cmdVars, relayVars
<1>2. PlacesOK'
  BY DEF ViewerLeaves, IInv, PlacesOK, uiVars, cmdVars, helpVars, relayVars
<1>3. HandshakeFirst' /\ PixelChangeKept' /\ ResetInv'
  BY DEF ViewerLeaves, IInv, HandshakeFirst, PixelChangeKept, ResetInv, uiVars, cmdVars
<1>4. attempt \in {1, 2}
  BY DEF ViewerLeaves, IInv, SessionInv, PlacesOK, Attempt
<1> QED
  BY <1>1, <1>2, <1>3, <1>4, MainGoes DEF ViewerLeaves, IInv, SessionInv, uiVars

\* The relay sends at most one whole answer before the command thread has read
\* the first.
LEMMA RelayStep == ASSUME IInv, NEW a \in Attempt, Relay(a) PROVE IInv'
<1>1. FlagsOK /\ PlacesOK /\ InboxOK /\ AnswerInv
  BY DEF IInv
<1>2. UNCHANGED <<uiVars, mainVars, cmdVars, helpVars, pixelVars>>
  BY DEF Relay, RelayCloses, RelaySends
<1>3. RecordInUse' /\ HandshakeFirst' /\ PixelChangeKept' /\ SessionInv' /\ MutexInv' /\ ResetInv'
  BY <1>2 DEF IInv, RecordInUse, HandshakeFirst, PixelChangeKept, SessionInv, MutexInv, ResetInv,
     uiVars, mainVars, cmdVars, helpVars, pixelVars
<1>4. CASE RelayCloses(a)
  <2>1. FlagsOK'
    BY <1>1, <1>2, <1>4 DEF RelayCloses, FlagsOK, mainVars, cmdVars, pixelVars
  <2>2. PlacesOK'
    BY <1>1, <1>2, <1>4 DEF RelayCloses, PlacesOK, uiVars, mainVars, cmdVars, helpVars, pixelVars
  <2>3. InboxOK'
    BY <1>1, <1>4 DEF RelayCloses, InboxOK
  <2>4. \A b \in Attempt : relayOpen'[b] => relayOpen[b]
    BY <1>1, <1>4 DEF RelayCloses, FlagsOK
  <2>5. AnswerInv'
    BY <1>1, <1>2, <1>4, <2>4 DEF RelayCloses, AnswerInv, cmdVars
  <2> QED
    BY <1>3, <2>1, <2>2, <2>3, <2>5 DEF IInv
<1>5. ASSUME NEW c \in Packets, RelaySends(a, c) PROVE IInv'
  <2>1. /\ relayOpen[a] /\ relayOpen' = relayOpen
        /\ inbox' = [inbox EXCEPT ![a] = @ \o Packet(c)]
        /\ sent' = [sent EXCEPT ![a] = @ + 1]
    BY <1>5 DEF RelaySends, Packet
  <2>2. inbox[a] \in Seq(Items)
    BY <1>1 DEF InboxOK, Items
  <2>3. inbox[a] \o Packet(c) \in Seq(Items)
    BY <2>2, PacketInSeq
  <2>4. InboxOK'
    BY <1>1, <2>1, <2>3 DEF InboxOK, Items
  <2>5. sent[1] \in Nat /\ sent[2] \in Nat /\ sent[1] + sent[2] < MaxSent
    BY <1>1, <1>5 DEF RelaySends, TotalSent, PlacesOK, Attempt
  <2>6. sent[a] + 1 \in 0 .. MaxSent
    BY <2>5, RelayAssumption DEF Attempt
  <2>7. sent' \in [Attempt -> 0 .. MaxSent]
    BY <1>1, <2>1, <2>6 DEF PlacesOK
  <2>8. PlacesOK'
    BY <1>1, <1>2, <2>7 DEF PlacesOK, uiVars, mainVars, cmdVars, helpVars, pixelVars
  <2>9. FlagsOK'
    BY <1>1, <1>2, <2>1 DEF FlagsOK, mainVars, cmdVars, pixelVars
  <2>10. \A b \in Attempt \ {a} : inbox'[b] = inbox[b] /\ sent'[b] = sent[b]
    BY <1>1, <2>1 DEF InboxOK, PlacesOK
  <2>11. sent'[a] = sent[a] + 1 /\ inbox'[a] = inbox[a] \o Packet(c)
    BY <1>1, <2>1 DEF InboxOK, PlacesOK
  <2>12. command' = command /\ command[a] \notin {"none", "connect"}
    BY <1>1, <1>2, <2>1 DEF AnswerInv, cmdVars
  <2>13. command[a] = "open_answer" => sent'[a] = 1 /\ inbox'[a] = <<"OPENRELAY", "data">>
    <3> SUFFICES ASSUME command[a] = "open_answer"
                 PROVE  sent'[a] = 1 /\ inbox'[a] = <<"OPENRELAY", "data">>
      OBVIOUS
    <3>1. (sent[a] = 0 /\ inbox[a] = <<>>) \/ sent[a] = 1
      BY <1>1 DEF AnswerInv
    <3>2. sent[a] # 1
      BY <1>5 DEF RelaySends
    <3>3. sent[a] = 0 /\ inbox[a] = <<>> /\ c = "OPENRELAY"
      BY <1>5, <3>1, <3>2 DEF RelaySends
    <3>4. Packet(c) = <<"OPENRELAY", "data">>
      BY <3>3 DEF Packet, HasData, Answers
    <3> QED
      BY <2>11, <3>3, <3>4
  <2>14. AnswerInv'
    BY <1>1, <2>1, <2>10, <2>12, <2>13 DEF AnswerInv
  <2> QED
    BY <1>3, <2>4, <2>8, <2>9, <2>14 DEF IInv
<1> QED
  BY <1>4, <1>5 DEF Relay

\* The threads that commands start.
LEMMA HelperStep ==
  IInv /\ (\E h \in Helper : HelperConnects(h) \/ HelperFails(h)) => IInv'
<1> SUFFICES ASSUME IInv, NEW h \in Helper, HelperConnects(h) \/ HelperFails(h) PROVE IInv'
  OBVIOUS
<1>1. CASE HelperConnects(h)
  <2>1. FlagsOK' /\ InboxOK' /\ AnswerInv'
    BY <1>1 DEF HelperConnects, IInv, FlagsOK, InboxOK, AnswerInv, mainVars, cmdVars, relayVars, pixelVars
  <2>2. PlacesOK'
    BY <1>1 DEF HelperConnects, IInv, PlacesOK, uiVars, mainVars, cmdVars, relayVars, pixelVars
  <2>3. helper[h] # "none" /\ \A g \in Helper : helper'[g] # "none" => helper[g] # "none"
    BY <1>1 DEF HelperConnects, IInv, PlacesOK
  <2>4. RecordInUse' /\ SessionInv'
    BY <1>1, <2>3 DEF HelperConnects, IInv, RecordInUse, SessionInv, uiVars, mainVars, cmdVars
  <2>5. HandshakeFirst' /\ PixelChangeKept' /\ MutexInv' /\ ResetInv'
    BY <1>1 DEF HelperConnects, IInv, HandshakeFirst, PixelChangeKept, MutexInv, ResetInv,
       uiVars, mainVars, cmdVars, pixelVars
  <2> QED
    BY <2>1, <2>2, <2>4, <2>5 DEF IInv
<1>2. CASE HelperFails(h)
  BY <1>2, ExitInv DEF HelperFails
<1> QED
  BY <1>1, <1>2

(***************************************************************************)
(* The command threads.                                                    *)
(***************************************************************************)
\* A step that takes a command thread on, and never out of its loop, keeps what
\* is said of the threads and the mutex.
LEMMA ThreadGoes ==
  ASSUME IInv, NEW a \in Attempt,
         NEW to \in {"open_answer", "info_header", "info_data", "loop", "loop_data", "execute"},
         command[a] # "none", command' = [command EXCEPT ![a] = to],
         command[a] \in Looping => to \in Looping,
         UNCHANGED <<uiVars, main, mainInfo, attempt, viewer, commandInfo>>,
         cmdMutex' = cmdMutex \/ (command[a] \notin Looping /\ to \in Looping),
         \A h \in Helper : \/ helper'[h] = helper[h] /\ helperInfo'[h] = helperInfo[h]
                           \/ helperInfo'[h] = commandInfo[a]
  PROVE  RecordInUse' /\ HandshakeFirst' /\ SessionInv' /\ MutexInv'
<1>1. /\ command'[a] = to /\ \A b \in Attempt \ {a} : command'[b] = command[b]
      /\ attempt \in {0, 1, 2}
  BY DEF IInv, PlacesOK, Attempt
<1>2. \A b \in Attempt : /\ command[b] \in Looping => command'[b] \in Looping
                         /\ command'[b] = "none" <=> command[b] = "none"
  BY <1>1 DEF Looping
<1>3. RecordInUse'
  BY <1>2 DEF IInv, RecordInUse, uiVars
<1>4. HandshakeFirst'
  <2>1. main \in {"open_relay", "check"} => attempt \in Attempt
    BY <1>1 DEF IInv, SessionInv, Attempt
  <2> QED
    BY <1>2, <2>1 DEF IInv, HandshakeFirst, uiVars
<1>5. SessionInv'
  <2>1. main = "connecting" => attempt \in Attempt
    BY <1>1 DEF IInv, SessionInv, Attempt
  <2>2. a \in Attempt /\ command'[a] # "none"
    BY <1>1
  <2> QED
    BY <1>2, <2>1, <2>2 DEF IInv, SessionInv, uiVars
<1>6. MutexInv'
  <2>1. \A b \in Attempt : \/ command'[b] \in Looping \cup {"none"}
                           \/ b = attempt /\ main = "wait_command"
    BY <1>2 DEF IInv, MutexInv
  <2>2. main = "wait_command" => attempt \in Attempt
    BY <1>1 DEF IInv, SessionInv, Attempt
  <2>3. main = "wait_command" /\ ~cmdMutex' => command'[attempt] \in Looping
    <3>1. CASE cmdMutex' = cmdMutex
      BY <1>2, <2>2, <3>1 DEF IInv, MutexInv
    <3>2. CASE command[a] \notin Looping /\ to \in Looping
      <4>1. a = attempt
        BY <3>2 DEF IInv, MutexInv
      <4> QED
        BY <1>1, <3>2, <4>1
    <3> QED
      BY <3>1, <3>2
  <2> QED
    BY <2>1, <2>3 DEF MutexInv
<1> QED
  BY <1>3, <1>4, <1>5, <1>6

\* A step of a command thread that reads or has read: from one place to the
\* next, the mutex given up at most on the way into the loop.
LEMMA ReadStep ==
  ASSUME IInv, NEW a \in Attempt,
         NEW from \in {"open_answer", "info_header", "info_data", "loop", "loop_data"},
         NEW to \in {"info_header", "info_data", "loop", "loop_data", "execute"},
         CommandGoes(a, from, to),
         from \in Looping => to \in Looping,
         inbox' \in [Attempt -> Seq(Items)],
         \A b \in Attempt \ {a} : inbox'[b] = inbox[b],
         header' \in Packets \cup {"none"},
         fresh' \in BOOLEAN, framed' \in [Attempt -> BOOLEAN],
         cmdMutex' = cmdMutex \/ (cmdMutex' = FALSE /\ from \notin Looping /\ to \in Looping)
  PROVE  IInv'
<1>1. /\ command[a] = from /\ command' = [command EXCEPT ![a] = to]
      /\ UNCHANGED <<uiVars, main, mainInfo, attempt, viewer, commandInfo, helper, helperInfo,
                     relayOpen, sent, change_pixel_size, newFBSizePending, owed>>
  BY DEF CommandGoes, uiVars, helpVars, pixelVars
<1>2. cmdMutex' \in BOOLEAN
  BY DEF IInv, FlagsOK
<1>3. FlagsOK'
  BY <1>1, <1>2 DEF IInv, FlagsOK
<1>4. PlacesOK'
  BY <1>1 DEF IInv, PlacesOK, uiVars
<1>5. InboxOK'
  BY DEF InboxOK, Items
<1>6. RecordInUse' /\ HandshakeFirst' /\ SessionInv' /\ MutexInv'
  BY <1>1, ThreadGoes
<1>7. PixelChangeKept' /\ ResetInv'
  BY <1>1 DEF IInv, PixelChangeKept, ResetInv
<1>8. AnswerInv'
  <2>1. command'[a] = to /\ \A b \in Attempt \ {a} : command'[b] = command[b]
    BY <1>1 DEF IInv, PlacesOK
  <2> QED
    BY <1>1, <2>1 DEF IInv, AnswerInv
<1> QED
  BY <1>3, <1>4, <1>5, <1>6, <1>7, <1>8 DEF IInv

\* Opening the connection, in which nothing has been sent.
LEMMA ConnectStep == ASSUME IInv, NEW a \in Attempt, ConnectCommand(a) PROVE IInv'
<1> SUFFICES ASSUME ~Exit PROVE IInv'
  BY ExitInv
<1>1. /\ command[a] = "connect" /\ relayOpen' = [relayOpen EXCEPT ![a] = TRUE]
      /\ command' = [command EXCEPT ![a] = "open_answer"]
      /\ UNCHANGED <<uiVars, main, mainInfo, attempt, viewer, cmdMutex, commandInfo, header, fresh, framed,
                     helper, helperInfo, inbox, sent, change_pixel_size, newFBSizePending, owed>>
  BY DEF ConnectCommand, mainVars, helpVars, pixelVars
<1>2. FlagsOK'
  BY <1>1 DEF IInv, FlagsOK
<1>3. PlacesOK'
  BY <1>1 DEF IInv, PlacesOK, uiVars
<1>4. RecordInUse' /\ HandshakeFirst' /\ SessionInv' /\ MutexInv'
  BY <1>1, ThreadGoes DEF Looping
<1>5. /\ command'[a] = "open_answer"
      /\ \A b \in Attempt \ {a} : command'[b] = command[b] /\ relayOpen'[b] = relayOpen[b]
  BY <1>1 DEF IInv, PlacesOK, FlagsOK
<1>6. AnswerInv'
  BY <1>1, <1>5 DEF IInv, AnswerInv
<1>7. InboxOK' /\ PixelChangeKept' /\ ResetInv'
  BY <1>1 DEF IInv, InboxOK, PixelChangeKept, ResetInv
<1> QED
  BY <1>2, <1>3, <1>4, <1>6, <1>7 DEF IInv

\* Reads, as far as they end with a success or a timeout.
LEMMA ReadsStep ==
  ASSUME IInv, NEW a \in Attempt,
         ReadOpenAnswer(a) \/ ReadInfoHeader(a) \/ ReadInfoData(a) \/ ReadCommand(a) \/ ReadCommandData(a)
  PROVE  IInv'
<1>1. /\ inbox \in [Attempt -> Seq(Items)] /\ header \in Packets \cup {"none"}
      /\ cmdMutex \in BOOLEAN /\ fresh \in BOOLEAN /\ framed \in [Attempt -> BOOLEAN]
  BY DEF IInv, FlagsOK, PlacesOK, InboxOK, Items
<1>2. inbox[a] # <<>> => Head(inbox[a]) \in Items /\ Tail(inbox[a]) \in Seq(Items)
  BY <1>1, HeadTailProperties
<1>3. CASE ReadOpenAnswer(a)
  <2>1. inbox' \in [Attempt -> Seq(Items)] /\ \A b \in Attempt \ {a} : inbox'[b] = inbox[b]
    <3>1. CASE inbox[a] # <<>>
      <4>1. /\ inbox[a] = <<"OPENRELAY", "data">>
            /\ inbox' = [inbox EXCEPT ![a] = Tail(Tail(@))]
        BY <1>3, <3>1 DEF ReadOpenAnswer, CommandGoes, IInv, AnswerInv, TimesOut
      <4>2. Tail(inbox[a]) = <<"data">>
        BY <4>1
      <4>3. Tail(Tail(inbox[a])) = <<>> /\ <<>> \in Seq(Items)
        BY <4>2, EmptySeq
      <4> QED
        BY <1>1, <4>1, <4>3
    <3>2. CASE inbox[a] = <<>>
      BY <1>1, <1>3, <3>2 DEF ReadOpenAnswer
    <3> QED
      BY <3>1, <3>2
  <2>2. header' \in Packets \cup {"none"}
    BY <1>1, <1>3 DEF ReadOpenAnswer, Packets, Answers
  <2> QED
    BY <1>1, <1>3, <2>1, <2>2, ReadStep DEF ReadOpenAnswer, Looping
<1>4. ASSUME NEW from \in {"info_header", "loop"}, NEW to \in {"info_data", "loop_data"},
             ReadHeader(a, from, to), from = "loop" => to = "loop_data"
      PROVE  IInv'
  <2>1. CASE inbox[a] # <<>>
    <3>1. /\ inbox' = [inbox EXCEPT ![a] = Tail(@)] /\ fresh' = TRUE
          /\ framed' = [framed EXCEPT ![a] = @ /\ Head(inbox[a]) # "data"]
          /\ header' \in IF framed'[a] THEN {Head(inbox[a])} ELSE Packets
      BY <1>4, <2>1 DEF ReadHeader, TimesOut
    <3>2. inbox' \in [Attempt -> Seq(Items)] /\ \A b \in Attempt \ {a} : inbox'[b] = inbox[b]
      BY <1>1, <1>2, <2>1, <3>1
    <3>3. framed' \in [Attempt -> BOOLEAN] /\ (framed'[a] => Head(inbox[a]) # "data")
      BY <1>1, <3>1
    <3>4. header' \in Packets
      BY <1>2, <2>1, <3>1, <3>3 DEF Items
    <3> QED
      BY <1>4, <3>1, <3>2, <3>3, <3>4, ReadStep DEF ReadHeader, Looping
  <2>2. CASE inbox[a] = <<>>
    <3>1. UNCHANGED <<inbox, header, fresh, framed>>
      BY <1>4, <2>2 DEF ReadHeader
    <3> QED
      BY <1>1, <1>4, <3>1, ReadStep DEF ReadHeader, Looping
  <2> QED
    BY <2>1, <2>2
<1>5. ASSUME NEW from \in {"info_data", "loop_data"}, NEW to \in {"loop", "execute"},
             CommandGoes(a, from, to),
             cmdMutex' = cmdMutex \/ (cmdMutex' = FALSE /\ from = "info_data" /\ to = "loop"),
             from = "loop_data" => to = "execute",
             ReadData(a, from, to) \/ UNCHANGED <<inbox, header, fresh, framed>>
      PROVE  IInv'
  <2>1. CASE ReadData(a, from, to) /\ inbox[a] # <<>>
    <3>1. /\ inbox' = [inbox EXCEPT ![a] = Tail(@)]
          /\ framed' = [framed EXCEPT ![a] = @ /\ Head(inbox[a]) = "data"]
          /\ header' = header /\ fresh' = fresh
      BY <2>1 DEF ReadData, TimesOut
    <3>2. inbox' \in [Attempt -> Seq(Items)] /\ \A b \in Attempt \ {a} : inbox'[b] = inbox[b]
      BY <1>1, <1>2, <2>1, <3>1
    <3>3. framed' \in [Attempt -> BOOLEAN]
      BY <1>1, <3>1
    <3> QED
      BY <1>1, <1>5, <3>1, <3>2, <3>3, ReadStep DEF Looping
  <2>2. CASE ~(ReadData(a, from, to) /\ inbox[a] # <<>>)
    <3>1. UNCHANGED <<inbox, header, fresh, framed>>
      BY <1>5, <2>2 DEF ReadData
    <3> QED
      BY <1>1, <1>5, <3>1, ReadStep DEF Looping
  <2> QED
    BY <2>1, <2>2
<1>6. CASE ReadInfoHeader(a) \/ ReadCommand(a)
  BY <1>4, <1>6 DEF ReadInfoHeader, ReadCommand
<1>7. CASE ReadInfoData(a) \/ ReadCommandData(a)
  BY <1>5, <1>7 DEF ReadInfoData, ReadCommandData, ReadData
<1> QED
  BY <1>3, <1>6, <1>7

\* Commands that are carried out and leave the process alive.
LEMMA ExecuteStep ==
  ASSUME IInv, NEW a \in Attempt,
         \/ \E h \in Helper : CallHelper(a, h)
         \/ ChangePixel(a)
         \/ OtherCommand(a)
  PROVE  IInv'
<1>1. /\ command[a] = "execute" /\ command' = [command EXCEPT ![a] = "loop"] /\ fresh' = FALSE
      /\ UNCHANGED <<uiVars, main, mainInfo, attempt, viewer, cmdMutex, commandInfo, header, framed,
                     inbox, relayOpen, sent, newFBSizePending>>
      /\ change_pixel_size' = 1 \/ (change_pixel_size' = change_pixel_size /\ owed' = owed)
      /\ owed' \in {owed, TRUE} /\ change_pixel_size' \in {1, change_pixel_size}
  BY DEF CallHelper, ChangePixel, OtherCommand, Executed, mainVars, relayVars, pixelVars
<1>2. /\ helper' \in [Helper -> {"none", "connect", "serve"}]
      /\ helperInfo' \in [Helper -> 0 .. MaxSessions]
      /\ \A h \in Helper : \/ helper'[h] = helper[h] /\ helperInfo'[h] = helperInfo[h]
                           \/ helperInfo'[h] = commandInfo[a]
  BY DEF CallHelper, ChangePixel, OtherCommand, helpVars, IInv, PlacesOK
<1>3. FlagsOK'
  BY <1>1 DEF IInv, FlagsOK
<1>4. PlacesOK'
  BY <1>1, <1>2 DEF IInv, PlacesOK, uiVars
<1>5. RecordInUse' /\ HandshakeFirst' /\ SessionInv' /\ MutexInv'
  BY <1>1, <1>2, ThreadGoes DEF Looping
<1>6. AnswerInv'
  <2>1. command'[a] = "loop" /\ \A b \in Attempt \ {a} : command'[b] = command[b]
    BY <1>1 DEF IInv, PlacesOK
  <2> QED
    BY <1>1, <2>1 DEF IInv, AnswerInv
<1>7. InboxOK' /\ ResetInv'
  BY <1>1 DEF IInv, InboxOK, ResetInv
<1>8. PixelChangeKept'
  BY <1>1 DEF IInv, PixelChangeKept
<1> QED
  BY <1>3, <1>4, <1>5, <1>6, <1>7, <1>8 DEF IInv

\* A command thread: connection, handshake, and the loop of its messages.
LEMMA CommandStep == ASSUME IInv, NEW a \in Attempt, Command(a) PROVE IInv'
<1>1. CASE ReadFails(a) \/ Destroy(a)
  BY <1>1, ExitInv DEF ReadFails, Destroy
<1> QED
  BY <1>1, ConnectStep, ReadsStep, ExecuteStep DEF Command

(***************************************************************************)
(* Theorems.                                                               *)
(***************************************************************************)
\* What Relay is proved with: the invariant above holds in every session of
\* the window (w_ui.c, w_relay.c, watch_loop).
THEOREM RelayInvariance == Spec => []IInv
<1>1. IInv /\ [Next]_vars => IInv'
  <2> SUFFICES ASSUME IInv, [Next]_vars PROVE IInv'
    OBVIOUS
  <2>1. CASE UNCHANGED vars
    <3>1. FlagsOK'
      BY <2>1, Zenon DEF vars, mainVars, cmdVars, relayVars, pixelVars, IInv, FlagsOK
    <3> QED
      BY <2>1, <3>1 DEF vars, uiVars, mainVars, cmdVars, helpVars, relayVars, pixelVars, IInv, PlacesOK,
         InboxOK, RecordInUse, HandshakeFirst, PixelChangeKept, SessionInv, MutexInv, AnswerInv,
         ResetInv
  <2>2. CASE Next
    BY <2>2, WindowStep, MainStep, ViewerStep, CommandStep, RelayStep, HelperStep DEF Next
  <2> QED
    BY <2>1, <2>2
<1> QED
  BY <1>1, InitInv, PTL DEF Spec

\* Type correctness; change_pixel_size is a flag and not a count.
THEOREM RelayTypes == Spec => []TypeOK
<1>1. IInv => TypeOK
  BY DEF IInv, TypeOK
<1> QED
  BY <1>1, RelayInvariance, PTL

\* No thread uses the record that start_remote_control_func has freed.
THEOREM RecordsInUse == Spec => []RecordInUse
<1>1. IInv => RecordInUse
  BY DEF IInv
<1> QED
  BY <1>1, RelayInvariance, PTL

\* start_relay passes its second LOCK(cmdMutex) only when command_relay is
\* through its handshake.
THEOREM HandshakesFirst == Spec => []HandshakeFirst
<1>1. IInv => HandshakeFirst
  BY DEF IInv
<1> QED
  BY <1>1, RelayInvariance, PTL

\* A change of the pixel size that a command asks for is done and its new size
\* sent, or still to be done or sent.
THEOREM PixelChangesKept == Spec => []PixelChangeKept
<1>1. IInv => PixelChangeKept
  BY DEF IInv
<1> QED
  BY <1>1, RelayInvariance, PTL
=============================================================================
