# A verification of x11vnc and its libvncserver

This directory holds TLA+ models of the parts of x11vnc whose correctness depends
on the order of events: how a picture that changes under several actors reaches a
viewer, how client records live and die while several threads use them, how x11vnc
notices that the display has changed, how a WizHelper session starts and ends, and how
keys and texts get from viewers to the display and back. Every
definition is translated from the C sources under `src/`; `PROJECT.json` maps each one
to the lines it stands for.

## 1. The system

x11vnc polls an X display, keeps a copy of it in a framebuffer and serves that
framebuffer to VNC viewers with the libvncserver copy in its tree. This fork adds
"WizHelper", a session that reaches viewers through a relay instead of accepting them.

| component | sources | state | operations | interacts with |
|---|---|---|---|---|
| update engine | `libvncserver/rfbserver.c`, `main.c`, `cursor.c`, `rfb/rfb.h` | per client `modifiedRegion`, `copyRegion` + `copyDX/DY`, `requestedRegion`, encoding flags, `newFBSizePending`, cursor positions | mark, schedule or do a copy, new framebuffer, SetEncodings, FramebufferUpdateRequest, send an update | the polling code calls mark and copy; the event loop or a thread per client sends |
| region algebra | `libvncserver/rfbregion.c` | lists of spans with sub-lists | or, and, subtract, offset, iterate | every operation of the update engine |
| client list and threads | `rfbserver.c`, `main.c`, `sockets.c` | list with `next`/`prev`, `sock`, `refCount`, four mutexes and two condition variables | accept, refuse, iterate, close, drain, free; `clientInput`, `clientOutput` | all code that walks over clients |
| stream I/O | `sockets.c` | `outputMutex`, the socket | `rfbReadExact`, `rfbWriteExact`, `rfbCloseClient` | every message |
| event loop | `main.c`, `sockets.c` | deferral timers | `rfbProcessEvents`, `rfbCheckFds`, `rfbUpdateClient` | `watch_loop` calls it |
| handshake, authentication, sharing | `rfbserver.c`, `auth.c` | protocol state, security type, on-hold flag | one handler per state | x11vnc's hooks accept, refuse or hold |
| scaled screens | `scale.c` | list of scaled screens, reference counts | set scale, update, free | regions, NewFBSize |
| cursor drawing | `libvncserver/cursor.c` | `underCursorBuffer` of the screen | show, hide, set | updates |
| encoders, translation, HTTP, file transfer, helpers | `libvncserver/*.c` | pixel data, files | | updates, messages |
| main loop and framebuffer changes | `x11vnc/screen.c` | `change_pixel_size`, the framebuffer | `do_new_fb`, `changePixelSize`, `watch_loop` | update engine, relay session |
| polling | `x11vnc/scan.c`, `xdamage.c` | tiles, damage hints | scan, copy tiles, mark | update engine |
| window copies | `userinput.c`, `xrecord.c` | wireframe, scroll detection | `rfbDoCopyRegion` | update engine |
| input, clipboard, cursor of the display | `keyboard.c`, `pointer.c`, `selection.c`, `cursor.c` | modifiers, selection ownership | X and VNC events | clients |
| connections and logins | `connections.c`, `unixpw.c`, `sslhelper.c` | accept lists, client counts, helper processes | accept, hold, log in | handshake |
| relay session | `w_relay.c`, `w_http.c`, `w_ui*.c` | session status, command and replay sockets, threads | start, pause, resume, stop | event loop, main loop |

What is hard here: copies are promised to a viewer and executed later, while the
source or the destination of the promise changes; encodings change while something is
pending; the server draws its cursor into the shared framebuffer and takes it out;
with `-threads` three actors per client meet at four mutexes; iterators keep pointers
across critical sections; a signal on a condition variable is lost when nobody
waits; the display is drawn into while a scan compares and copies it, and the reports
that say where to look are kept for a while only; the window, the command thread, the
main thread and helpers of a session share one record, and the relay may fall silent at any
point; X events of different types are read out of order and seconds late; viewers hold
modifiers that each other's characters move, and a key that was borrowed for a keysym must be
found again before the new mapping has been read. `PROJECT.json` lists each hazard at its line, with the properties that cover it.

## 2. The modules

| component | module | proofs | instance |
|---|---|---|---|
| update engine | `Update`, implementing `Mirror` | `UpdateProofs` | `MCUpdate` |
| region algebra | `Region` | `RegionProofs` | `MCRegion` |
| client list and threads | `ClientThreads` | `ThreadsProofs` | `MCClientThreads` |
| polling | `Polling` | `PollingProofs`, `DamageProofs` | `MCPolling` |
| relay session | `Relay` | `RelayProofs` | `MCRelay` |
| clipboard | `Clipboard` | `ClipboardProofs` | itself |
| keyboard | `Keyboard` | `KeyboardProofs` | `MCKeyboard` |

Operators with a comment "Mutant of X" are wrong versions of X; each property is shown to
notice one.

**`Update`** is the update engine as one client sees it. The application draws
(`Draw`, `MarkRegionAsModified`), moves parts of the framebuffer (`BeginCopyRegion`,
`CopyOneRect` per rectangle, `ScheduleCopyRegion`), gets a new framebuffer or a new
cursor, moves the pointer; the client sends `FramebufferUpdateRequest` and `SetEncodings`. A
`SetEncodings` message clears the flags and is then read encoding by encoding (`ReadEncoding`, until
`unread` is empty), as the code holds no mutex and blocks between the reads. An update goes through
the steps of `rfbSendFramebufferUpdate`: `FindUpdate`, `TakeUpdate` (the snapshot of `modifiedRegion`),
`BeginUpdate` or `SendNewFBSize` (the flags), `PlanUpdate` or `NothingToSend` (the arithmetic under
`updateMutex`), `ShowCursor`, `SendCopies`, and `SendRectangles`, which reads and sends any part of what
is left. With `Threaded = TRUE` other threads get in between any two of these; with `FALSE` the
guards make each call run to its end, as in `rfbProcessEvents`. With threads the module is about a
server that draws no cursor (`ThreadsAssumption`): section 5 says why. `viewer` is the
picture of a client that has handled everything written to it; a copy in an update is applied to it
at once, which `SendOrderSafe` of `Region` justifies. Regions are sets of pixels, exactly what `Region`
shows the span lists to represent. Auxiliary variable: `before`, the framebuffer when a
copy began.

**`Mirror`** is what the engine promises and nothing else: what changes on a viewer's
picture becomes what the framebuffer shows at that moment, the cursor where the server
has it drawn, or blank from a resize until the viewer asks anew. `Update` implements it
with `fb <- frameBuffer, view <- viewer, shown <- plan.drawn`. `shown` may become empty at any time: the cursor
is out of the framebuffer again.

**`Region`** is `rfbregion.c`: a region is a sequence of bands that contain sequences of
spans. A loop of the library is a record: `left`, the destination spans that it has
passed, `right`, with `d_curr` at its head, and `src`, with `s_curr` at its head. `OrTurn`, `AndTurn`
and `SubtractTurn` are one turn of `sraSpanListOr`, `sraSpanListAnd` and `sraSpanListSubtract`, which
split and merge spans in the order of the C code; `Combined` takes turns until the loop
ends, on the bands and, through `sub`, on the spans of two bands that meet. `Turns`
bounds the number of turns; that every loop ends within it is proved. The state of
the module is two regions, and each step applies one call to them.

**`ClientThreads`** is the life of client records under `-threads`. A step is what
happens between two points where another thread can get in. `input[c]` is the program
counter of the listener and then of `clientInput` for the record, `output[c]` that of
`clientOutput`, `walk[w]` an iterator in a thread that marks or disconnects clients, and `gone[t]`
says how far thread `t` is in `rfbClientConnectionGone` and for which record. The client's own
threads call it at their end; `GoneCallers` says who else may:

- `"all"`: `close_all_clients` (`DisconnectAll`), with its own iterator on the record;
- `"match"`: `close_clients`, for the list that `client_match` made (`Match`, `DisconnectMatched`),
  without any reference;
- `"scale"`: `rfbSendNewScaleSize` whose answer cannot be written (`ScaleFails`), within a message of the
  client.

None of them waits for the threads of the client, and nothing keeps a record from being unlinked and
freed again by the next caller. `Disconnect` is `rfbCloseClient` alone. What an update is
due for is `"announced"`, where `updateMutex` covers a signal of `updateCond` (marks, requests), or
`"silent"`, where only the flags are set (`MoveCursor`, `SetEncodings`). Waiting on a
condition variable is the state "wait", and a signal moves only who is in it. Records are allocated
once, so that a freed one stays visible as `"freed"`, and keep their contents. Auxiliary: `record`, and
`walk[w].pinned`, whether the record was still linked when the iterator took its reference.

**`Polling`** is `scan_for_updates` with everything it calls that decides what is copied
and marked, and the ring of damage reports. `screen` is the X server's picture, `main_fb`
x11vnc's, `client` that of a viewer that has got all that was marked. A pixel stands for the
part of one line in one tile. A step reads one picture from the server or is what happens between
two of them, and the X server draws at any time: `CheckXdamageState` and `BeginScan`
(`check_xdamage_state`, `collect_xdamage`), `ScanLine` for the line of a row of tiles at this
scan's offset, the rescans, `copy_screen`, the passes over changed tiles (`CopyRun`,
`TryBackward`, `TryToFill`, `CopyAdditional`) and `HintUpdates`. `DropDamage` is
`clear_xdamage_mark_region`, which `choose_delay` calls when x11vnc is bogged down;
`CrazyEnds` the end of the time for which a flood of reports makes x11vnc do without the
Damage object. Which optional passes run is a free choice, as they depend on counts and
times.

**`Relay`** is a WizHelper session. `main` is the program counter of the thread that
`start_remote_control_func` starts and that becomes x11vnc's main thread, `helper[h]` those of the
threads that commands start; `waitInfo` and
the `...Info` variables say which session's record each has. `do_reverse_connect` tries twice. Each
attempt that comes to `start_relay` has a command thread (`command[a]`) and a command connection
(`inbox[a]`, `relayOpen[a]`), and the one of a failed attempt goes on beside the next: both
read into one `cmdReadBuffer` (`header`) and unlock one `cmdMutex`. After `start_relay`,
`rfbNewTCPOrUDPClient` checks the encryption with the viewer (`CheckPasses`, `CheckFails`, which frees
the client); after a failed attempt `TryAgainOrGoOn` starts the second, or goes to `watch_loop` without a
viewer. `ViewerLeaves` at any time after that. Packets of the relay are
their command and, where there is some, one item of data; what they contain is left out, and so
is what x11vnc sends on the connection. `read_fully` stores the result of `recv` in a
`size_t`, so that a read that times out counts as done with the old contents of the
buffer: `TimesOut` leaves `header` as it is, and `framed` says whether reads still line up with
packets; where they do not, any header may be read. `exit()` in any thread is `Exit`. After it the model
stops. `Main` includes the part of `watch_loop` that carries
out a change of the pixel size and resets its flag afterwards.

**`Clipboard`** is the part that `check_xevents` and `xcut_receive` play in the selections and
the cut buffer. `events` is x11vnc's queue; `First` takes the first event of one type, as
`XCheckTypedEvent` does, so that types overtake one another. `at` is how far
`check_xevents` has come; X clients (`AppTakes`, `AppLeaves`, `AppSetsCutBuffer`, `Answer`,
`Paste`) act between any two of its steps. Texts of viewers are only told apart as the
latest one and older ones.

**`Keyboard`** is a key event under `-modtweak` and `-add_keysyms`, which are the defaults.
`xmap` and `down` are the X server's mapping and keys; `cached` is Xlib's copy, `keycodes` and
`modifiers` x11vnc's tables, all three as of the last MappingNotify that was read.
`modifier_tweak_keyboard` is one step: without `-threads` nothing comes between the
press of Shift, the key and the release of Shift. Rows have four keysyms, as
many as `initialize_modtweak` looks at; a Mode_switch key exists; caps lock is off. A
deletion of borrowed keys may come at any time, also with a notice waiting.
Auxiliary: `lost`, the keys whose release will never come because the viewer is gone, has lost
the permission, or the key was returned under it.

## 3. What the runs check

| run | result | states | what it shows |
|---|---|---|---|
| update_picture | holds | 7.4 M | `UpdateSuffices` and `ViewerMirrors` with copies up and down, a moving server-drawn cursor, new framebuffers, clients that change encodings and know NewFBSize or not, progressive slices, merged rectangles |
| update_live | holds | 193 k | `ChangesAreSent` with three threads: what is pending is sent in the end |
| region | holds | 128 k | span lists are well formed and exact; the order of `rfbSendCopyRegion` is safe |
| threads_refs | holds | 361 k | `ListIntact`, `KeptWhileServed`, `RefCountExact`, `ReferencedIsKept` and `NoWakeUpLost` where only the client's own threads clean up, also when selects fail |
| threads_live | holds | 115 k | with all other callers of `rfbClientConnectionGone`: `RefCountExact`, `ReferencedIsKept` and `NoWakeUpLost` nevertheless; `DrainEnds`, the wait with the list locked ends unless `close_all_clients` waits for itself; `AnnouncedIsSent` |
| threads_iterator | violated |  | an iterator looks into a freed record (finding) |
| poll_display | holds | 1.2 M | `DamageRemembered`, `ChangesAreMarked`, `FramebufferCatchesUp`, with a display that changes during scans, reports dropped by a slow x11vnc and a flood of them |
| poll_forgotten | violated |  | with the default memory of one cycle and `-xdamage` given twice, a dropped report leaves a line unread for good (finding) |
| relay_session | holds | 1.3 M | `RecordInUse`, `HandshakeFirst`, `PixelChangeKept`, over two sessions with two attempts to connect each, a relay that sends, falls silent or closes at any point and a viewer that does not answer or leaves |
| relay_ends | holds | 358 k | `AttemptsEnd`, `CloseEnds`: however silent the relay is, both attempts end, and the process ends with a command connection |
| clipboard_exchange | holds | 105 k | `OwnershipKnown`, `OfferedIsLatest`, `FlagHasEvent`, `NewTextIsSent`, `PastesEnd` |
| keyboard_typing | holds | 230 k | `ModifiersAgree`, `KeysAccounted`, `TypedIsSent` |

**Properties.** `UpdateSuffices` is the comment of `rfb.h:472` made precise: outside the
two regions the viewer is right, and where a copy is pending the copy done on the
viewer would be right. It involves every operation: forgetting one overlap anywhere
breaks it several steps later. `ViewerMirrors` says that no update paints a wrong pixel
on the way. `ListIntact`, `RefCountExact` and `ReferencedIsKept` are what a thread that
dereferences a record relies on, and `KeptWhileServed` what the threads of a client do, which take no
reference between two messages or updates. `ListIntact` and `KeptWhileServed` are only true where
`clientInput` cleans up, after it has joined `clientOutput` (`GoneCallers = {}`). `NoWakeUpLost` is the
safety half of `DrainEnds`: the reference that a thread waits for is another thread's; of
`close_all_clients` it says no more than the code does. `AnnouncedIsSent` is what testing and waiting
under the mutex of the signal is for; dues that are set silently are not part of it.
`DamageRemembered` is why lines without a remembered report need not
be read: what differs is in a slot that outlives the scan that reads its line.
`ChangesAreMarked` relates the copying passes to the hints. `HandshakeFirst` is what the
two locks of `cmdMutex` in `start_relay` are for, `AttemptsEnd` that neither waits for ever, although a
command thread of the first attempt may still read into the same buffer, and `PixelChangeKept` why the late
reset of `change_pixel_size` is harmless: it depends on one thread doing the work, the reset
and the updates, in this order. `OwnershipKnown` says what `own_primary` means although
`SelectionClear` is read late, `FlagHasEvent` that `set_cutbuffer` does not outlive its
event. `ModifiersAgree` holds `mod_state` against the keys of the display,
`KeysAccounted` says that the release of a keysym finds the key that was pressed for it, and
`TypedIsSent` that X clients get the character that was sent.

**Bounds.** The screens of `Update` are strips one pixel wide and two or three rows high:
the region arithmetic of the engine is pointwise in the plane, so two rows
are a source and a destination, and three give chains of copies and partial overlaps.
Two colours tell right pixels from wrong ones. The displacements are one down, one or
two up, so pending copies meet both equal and different displacements. `Region` uses a
2 x 4 grid, on which a span list has up to four bands and sub-lists of two spans, and all
displacements that keep two cells in contact. Two clients give every neighbourhood in a
list (head, tail, both), and two walkers a reference count of more than one; nothing
compares counts with anything but 0 and 1. `threads_refs` has two clients and one walker, `threads_live`
one client and two walkers. `update_live` has one colour and leaves out the cursor and
resizing to keep the liveness check small; that `UpdateSuffices` holds with threads is proved and not run.
`Polling` has two tiles of two lines with reversed offsets: a neighbour to grow into, a run of
two, a line that is read now and one that is read next. Two drawings (`MaxDraws`) change what
was copied before: `BackAndForth` draws one line of both tiles in either colour. `NReg = 4` is the smallest ring in which the theorem promises memory,
`NReg = 3` is the default memory of one cycle. `Relay` has three packets over both command
connections (a handshake and a command), two sessions and one helper; `relay_ends` has one session and no
helper. `Clipboard` has two texts and two cuts (`MaxCuts`): a new text
follows an older one, or x11vnc owns a selection and loses it; that it takes it again is left to the
theorems. One X client pastes at a time, and x11vnc waits for one answer
at a time (`MaxOutstanding`), which means X clients that answer within the 0.6 s before it
asks again. Events that are late are the same for x11vnc as what happens late, except for the cut
buffer, which x11vnc changes itself and whose events therefore wait. `Keyboard` has two
viewers that hold two keys between them (`MaxHeld`), one letter on two keys, one character that needs
AltGr, two keysyms without a key but one key to borrow, and `DeleteAt` 1 instead of 8.

**Fairness.** `Update!FairSpec`: `watch_loop` and `rfbProcessEvents`, or with `-threads` the
threads themselves, give the sender and
the reader their turn again and again; `FindUpdate` and the request are strong because a request or an update
under way disables the turn in between. With threads this needs that the sender wakes up: the calls that make
`modifiedRegion`, `copyRegion` or `requestedRegion` larger signal `updateCond` under
`updateMutex`, under which `clientOutput` tests them. `ChangesAreSent` is about these regions; flags of
the cursor are set without a signal, and nothing here says that they are sent in time. The
application finishes what it began. The viewer re-requests the screen incrementally after each update, as
`HandleRFBServerMessage` of libvncclient does, and sends the rest of a message it has begun. No message or
drawing is assumed to happen. `ClientThreads!FairSpec`: threads run; nobody has to connect, send or start
another walk; `Unlink` is strong, which is a mutex that is not withheld for ever from
one of its waiters. `Polling!FairSpec`: `watch_loop` goes round, and the time without a Damage
object ends; it is strong because the end is seen between two scans only. `Relay!FairSpec`: the
main thread and each command thread run; a read is over after its timeout at the latest, whatever the
relay does, and so is the check of the encryption. `Clipboard!FairSpec`: `watch_loop` goes round,
`sel_waittime` passes, X clients answer; `Ask` is strong, as its turn comes back: the counter modulo 3
that chooses between the selections goes on with every look.

**Deadlock** is checked in every run but those of `Relay`, where the process ends, and `threads_live`, where
`close_all_clients` waits for itself with the list locked and everyone may come to wait for it.

**Disagreements with a comment or document that no run shows.** The first five are properties of
their modules that TLC finds violated; a configuration needs one client and one walker, or one session and
three packets.

- `connections.c:260`: `close_all_clients` calls `rfbClientConnectionGone` for the client that its own iterator
  references. With `-threads` the wait at `rfbserver.c:551` includes that reference and never ends, with the list
  locked (`DisconnectEnds`, `GoneCallers = {"all"}`). `help.c:5234` says: Use host "all" to close all
  current clients.
- `main.c:457`: `clientOutput` tests `cl->sock` before it locks `updateMutex`. If the client is closed and
  `clientInput` signals in between, no signal follows, and `pthread_join` waits for ever (`OutputEnds`).
  `main.c:561` says: Get rid of the output thread.
- `cursor.c:1903`, `main.c:625-650`, `rfbserver.c:1991-2062`: motions, new cursors and SetEncodings set flags of
  `FB_UPDATE_PENDING` without a signal; with `-threads` a sleeping output thread does not send what
  they make due until something else wakes it (`DueIsSent`). `help.c:3540` promises the motions to the viewers.
- `w_relay.c:982`: the window says Connected as the last step of `start_relay`. If no viewer then passes the check
  of the encryption and the second attempt fails too, the process stays in `watch_loop` without a
  viewer and the window says Connected still (`ConnectedHasViewer`).
- `w_relay.c:219`: `read_fully` keeps the result of `recv` in a `size_t`, so that a read that times out counts as
  done, and the command still in the buffer is carried out again (`CarriedOutOnce`). `w_relay.c:221` reports such
  a read as an error, and 819 says that it ends the process.
- `connections.c:373`, `scale.c:395`: `close_clients` and `rfbSendNewScaleSize` free a record under the threads of
  its client, which go on with it; `clientInput` unlinks and frees it a second time. `KeptWhileServed`
  and `ListIntact` fail with `GoneCallers` `{"match"}` or `{"scale"}`. `rfb.h:588-590` says that a client
  is not cleaned up while being referenced, and these threads hold no reference.
- `main.c:369`: `rfbDoCopyRegion` walks the rectangles of a region in an order in which, with several
  bands, one may overwrite the source of the next. `Region` shows this of `CopiedBefore`, which
  is the mutant of `SentBefore`; `UpdateProofs` assumes copies that are ordered safely.
- `main.c:387`: with `-threads` and CopyRect an update can be sent between the memmove of a copy
  and its scheduling; the viewer is then left wrong outside both regions.
- `rfbserver.c:2647`: a client that switches cursor shapes off gets the cursor drawn only when it moves
  or the place is changed; `rfbserver.c:1966` says that `enableCursorShapeUpdates` can never be turned off, and
  1995 resets it.
- `xevents.c:1792-1803`: a viewer's text that comes while a `SelectionClear` waits does not take
  the selection again, while `README:8496-8498` says that x11vnc then sets it.
- `selection.c:462`: a text that changes while one viewer is in its handshake is remembered as sent
  and reaches nobody.

## 4. What is proved

Every theorem is for all values of the constants that the named assumptions of its module allow.
In each module an inductive invariant `IInv` is shown to hold initially and to be kept by each action, with
one lemma per action or group of actions, and the properties follow from it.

**`UpdateProofs`**: `Invariance` (`IInv`), `TypeCorrect`, `UpdateSufficient`, `ImplementsMirror`.
`UpdateSuffices` only speaks of moments at which the application is idle and no update is
half sent, and is not inductive. `IInv` adds the moments in between: `JobInv` says what a
copy has moved so far, `Announced` is the framebuffer before the unscheduled part of it,
`ViewInv` says that outside what is pending, written or being sent the viewer is right,
`CopyInv` and `PlanCopyInv` that the pending copy and the one being sent would be right,
`PlanInv` and `ModeInv` what the sender is doing.
Between the steps of an update and of a message, `PlanInv` says which part of the plan exists in which
phase, and `ModeInv` what may be under way at once, and that without CopyRect no thread sets `useCopyRect`.
The theorems assume two things about the constants, beside the assumptions of `Update`. `CopyOrderSafe`: no rectangle of a copy
reads what an earlier one wrote; one rectangle always satisfies it. `ThreadsWithoutCopyRect`:
with threads, no client offers CopyRect. Both are necessary, see the list above. With threads the server
draws no cursor (`ThreadsAssumption` of `Update`), so what is proved for them is that of `-nocursor`, with
`SetEncodings` read in parts and updates written in parts. That
`UpdateSuffices` holds with threads rests on this theorem; `update_picture` has one thread.

**`ThreadsProofs`**: `ThreadsInvariance`, `ThreadsTypeCorrect`, `ReferencesCounted`,
`ReferencesKeep` and `WaitsAreAnswered` for any `GoneCallers`, from `ThreadsAssumption` alone;
`ListIntegrity` and `ServedRecordKept` under the hypothesis `GoneCallers = {}`, without which they are false.
`ReferencedIsKept` is not inductive: that the drain waits is only worth something if the
counter it reads is exact, and if no thread holds the record when it is zero. `IInv` joins
`RefCountExact` with `StartInv` (threads of a record start after it is linked), `KnownInv` (all pointers lead to
records that have been linked once), `WalkInv` (an iterator has a record where it
follows or drops one), `GoneInv` (a record that is drained or freed has been
unlinked; only `close_all_clients` cleans up with its own iterator on a record) and `PinInv` (a record referenced while it was linked has not got
past its drain, in whatever thread). The counting rests on two lemmas: `HoldersStep`, a step of one walker
changes the set of holders by at most that walker, from the finite-set theorems of the
library; and `NoHolder`, a counter of zero means that nobody holds the record. That the record may be cleaned up
twice does no harm to this, as every cleanup drains. A walker
that reaches a record through a stale pointer after it was unlinked is not covered, and
must not be: that is the behaviour `threads_iterator` shows. `WaitsAreAnswered` is
`NoWakeUpLost`: with `WaitInv`, a wait means a positive counter, which an exact counter turns into
an update under way or an iterator at the record; with `GoneInv` it is another thread's, or `close_all_clients`
waits. For the list, `OwnInv` says that with `GoneCallers = {}` a record is in the cleanup of its own thread only,
once and after its output thread has ended.

**`PollingProofs`**: `PollingInvariance`, `PollingTypes`, `ChangesMarked`. `ChangesAreMarked` speaks of the time
between two scans; during one, `EarlyInv` says that nothing is copied before the passes
begin, and `CopiedInv` that what has been copied and not marked lies in the lines
remembered for a tile that is still in `tile_has_diff`. `RunsInv` is why a run does
not copy a tile a second time and forget its first lines.

**`DamageProofs`**: `DamageIsRemembered`, `Spec => []DamageRemembered` if `NSCAN + 1 < NReg`. As
`NReg` is `xdamage_memory * NSCAN + 1`, this is a memory of two cycles or more. With the
default of one, `NReg` is `NSCAN + 1` and the statement fails: this is what `poll_forgotten`
shows. `MemoryInv` carries the property through a scan: what differs is reported or in
a slot that lasts (`Later`), in a line this scan still reads (`Now`), or in a tile that is
to be copied (`ToCopy`). The core is arithmetic on a ring: when the ticker goes on, ages grow by
one and turns shrink by one, and the slot that is emptied has no turn left.

**`RelayProofs`**: `RelayInvariance`, `RelayTypes`, `RecordsInUse`, `HandshakesFirst`, `PixelChangesKept`, for any
number of sessions, packets and helpers. `SessionInv` says what exists at which time, `MutexInv` that
`start_relay` holds `cmdMutex` until the command thread of its own attempt is in its loop: the thread of the
first attempt has left its handshake when the second begins, so that it cannot unlock the
mutex in the other's place. `AnswerInv` says when a connection has packets, `ResetInv` that no update goes out
between the work and the reset of the flag while there is a viewer.

**`KeyboardProofs`**: `KeyboardInvariance`, `KeyboardTypes`, `ModifiersAlwaysAgree`, `KeysAreAccounted`,
`WhatIsTypedIsSent`, for any layout in which the modifiers have keys of their own
(`ModifierKeys`), any viewers and keysyms. `MapInv` says that the server's mapping is the layout
with one borrowed, otherwise unused key for each keysym that the layout lacks; `TableInv` that
the copy is the layout with keys borrowed now or before, and the tables are made from it;
`HeldInv` that each key that is down and not lost is held by some viewer through a keysym that
finds it, both now and after the next notice. Without the latter, reading a notice
could break `KeysAccounted`. `KeysAfter` is the lemma that the tweaks before and after
a character undo one another; it needs `ModifiersAgree`, which in turn follows from it.

**`ClipboardProofs`**: `ClipboardInvariance`, `OwnershipIsKnown`, `LatestIsOffered`, `FlagIsTemporary`, for any
texts and any number of cuts and of answers under way. `OwnershipKnown` alone is not inductive: if
two clears of one selection could wait, reading the first would leave x11vnc without a selection
that the second still announces as lost. `ClearInv` says that there is one at most, and
that the selection it tells of is still another's, because x11vnc takes only selections
that it does not believe to have. `ClearsAfter` and `ClearsAppended` are the lemmas about the queue, from
which events are taken in the middle. `ClipboardTypes` is `TypeOK`, which bounds the answers that are
under way by `MaxOutstanding`: `TypeInv` adds which of the two texts a cut can have, and
`AnswerCounts` and `AskCounts` count answers in a queue of events with the finite-set theorems.

**`RegionProofs`**: `CombinedCorrect`, `BandsCombined`, `RegionInvariance`, `RegionsWellFormed`, `RegionsExact`,
`CopiesInOrder`, for a grid of any size, any displacements and any sequence of calls, from
`GridAssumption` alone. Neither `WellFormed` nor `Exact` is inductive: a list that is not
ordered is combined wrongly, and a list that is well formed on the grid only may have anything
beyond it, which a displacement moves in. `RegionInv` says of both operands that they are
well formed, that they stand for their areas and that the spans have no contents.
The hard part is `Combined`. Bands and spans are the same kind of list for it, so there is one proof for
both: the contents are from any set `C`, and for any set `P` of contents the *points* of a list
are the places at which it has contents in `P`. Every helper (`MergePrevious`, `SplitEnd`, ...) has a lemma
about the points, every turn keeps what they have to become when the loop ends, that is,
the union, the intersection or the difference, and takes a turn from the `Remaining` ones, so that
the loop has ended after `Turns`. `CombinedCorrect` is used with `P` as `{<< >>}` for the spans of
a band (`ColumnsCombined`), and then for the bands, with `P` the lists that cover a given column
(`BandsCombined`). The turns are counted by induction over the naturals, which the lemma `Induction`
states for a set and proves from the lemma `Least`. `CopiesInOrder` is `SendOrderSafe`: it follows
from the spans being apart (`SpansApart`) and the order of the iterator.

Only model-checked: liveness (`ChangesAreSent`, `DrainEnds`, `AnnouncedIsSent`, `FramebufferCatchesUp`, `AttemptsEnd`,
`CloseEnds`, `NewTextIsSent`, `PastesEnd`), which needs fairness and is out of the prover's
reach. Every invariant and every other action property of the passing runs is a theorem.

## 5. What is not modelled

Components that are not modelled, and why, are in `PROJECT.json`. In the modelled ones:

- `Update`: one client. Others have their own regions, and share the framebuffer.
  With `-threads` and a server-drawn cursor, `rfbShowCursor` writes the cursor into that framebuffer and
  `rfbHideCursor` restores what was under it (`rfbserver.c:2818-3031`, `cursor.c:455-512`): what the application
  draws in between is overwritten and lost, and the output threads of several clients share one
  `underCursorBuffer` (hazard at `cursor.c:514`). Nothing is modelled or proved of that. The framebuffer
  keeps its size when it changes: what matters is that a resized viewer
  loses its picture and asks again. With threads, `NewFramebuffer` waits for updates under way (`lock_client_sends`). SetPixelFormat and colour maps, the pseudo encodings
  that only add a message, scaled screens and failed writes are left out.
- `ClientThreads`: clients on hold, UDP clients, counts of scaled screens. A use after free has the
  mildest effect here, the old contents. Callers of `rfbClientConnectionGone` that are not modelled:
  `rfbScreenCleanup` (`main.c:991-1003`), `unixpw_deny`, and a refused client on hold
  (`main.c:616`); `handle_xrandr_change` (`xrandr.c:170`) does what `close_all_clients` does.
- `Polling`: solid backgrounds, rates, blackouts, subwindows, wireframes and scrolls,
  failed reads of the display (`SCAN_FATAL`), and a change of `xdamage_memory` at run time, which
  leaves the ring as it was allocated.
- `Relay`: contents of packets, what x11vnc sends, several relay hosts, the viewer's handshake after the check
  (it may leave at any time), chat, overlay and annotation windows.
- `Clipboard`: `-seldir` and input permissions, `resend_selection`, long texts, X clients that answer late.
- `Keyboard`: `-xkb`, `-sloppy_keys`, `-skip_dups` (which compares events of different viewers),
  `-skip_lockkeys`, `-remap`, pipes, `-nomodtweak`, caps lock, ISO_Level3_Shift (which `mod_state` does not
  follow), the key rate of scrolls (a release after a skipped repeat is skipped
  too), `clear_mods` and `clear_keys` (which leave `mod_state` as it is), `-threads`, and the pointer:
  `pointerClient`, buttons held by a viewer that leaves, and positions that `-deferptrupdate`
  delivers late.

## 6. Plan

Done: the modules above and the proofs about them.

Left, in this order:

1. `WriteExact` - `sockets.c` 530-610: the lock, partial writes, timeouts. An abstract
   channel (a prefix of what was written arrives) as its specification.
2. `Handshake` - protocol states, security types, sharing of the desktop and what it
   does to other clients, clients on hold for a login.
3. `Pointer` - `pointerClient`, deferred positions, pen mode and button replay.
4. `Scaling` - reference counts of scaled screens, replies during a size change.
5. `Deferral` - `rfbUpdateClient`, the deferral timers and the event loop; `Update` composed with
   the condition variables of `ClientThreads`.
6. `CursorThreads` - several output threads drawing the cursor in one framebuffer.
7. Proofs: the abstract channel, reference counts of scaling.
