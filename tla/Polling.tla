------------------------------- MODULE Polling -------------------------------
(***************************************************************************)
(* How x11vnc notices that the X display has changed (scan.c, xdamage.c).  *)
(* The display is cut into tiles of NSCAN lines.  Each scan compares one   *)
(* line of every row of tiles with the framebuffer, at an offset that      *)
(* scanlines[] permutes, and copies the tiles in which it saw a difference;*)
(* lines that no remembered DAMAGE report touches are skipped.  Reports    *)
(* are remembered in a ring of regions, one per scan.                      *)
(*                                                                         *)
(* The X server draws at any time: a step of the scan is one picture read  *)
(* from it, or what happens between two of them.                           *)
(***************************************************************************)
EXTENDS Integers, FiniteSets

CONSTANTS
  Cols, Rows,   \* ntiles_x, ntiles_y
  NSCAN,        \* lines in a tile
  Scanlines,    \* scanlines[]
  NReg,         \* xdamage_memory * NSCAN + 1
  Color,
  Drawings,     \* what the X server draws: parts of the display and colours
  Black,        \* the colour of the display at first
  Modes,        \* -noxdamage, -xdamage once, twice: 0, 1, 2
  Slow,         \* scans may take so long that damage reports are dropped
  MaxDraws      \* bound of the model

Tile  == (0 .. Cols - 1) \X (0 .. Rows - 1)
Lines == 0 .. NSCAN - 1
\* The part of one line that lies in one tile.
Pixel == Tile \X Lines

ASSUME PollingAssumption ==
  /\ Cols \in Nat \ {0} /\ Rows \in Nat \ {0} /\ NSCAN \in Nat \ {0}
  /\ Scanlines \in [Lines -> Lines]
  /\ \A y \in Lines : \E i \in Lines : Scanlines[i] = y
  /\ NReg \in Nat \ {0}
  /\ Drawings \subseteq (SUBSET Pixel) \X Color /\ Black \in Color
  /\ Modes \subseteq 0 .. 2
  /\ Slow \in BOOLEAN /\ MaxDraws \in Nat

VARIABLES
  screen,            \* the X server's picture
  main_fb,           \* the copy of it that is served
  client,            \* a viewer that has got all that was marked as modified
  connected,
  use_xdamage,
  xdamage,           \* whether the Damage object exists
  crazy,             \* xdamage_crazy_time
  queue,             \* what the reports not yet read cover
  xdamage_regions, xdamage_ticker,
  scheduled,         \* xdamage_scheduled_mark
  scan_count,
  tile_has_diff, tile_has_xdamage_diff, tile_tried, tile_copied,   \* sets of tiles
  tile_region,       \* the changed lines of a tile
  phase, row, col,   \* what scan_for_updates is doing, and where
  draws

picVars  == <<screen, main_fb, client>>
dispVars == <<connected, use_xdamage, xdamage, crazy>>
damVars  == <<queue, xdamage_regions, xdamage_ticker, scheduled>>
tileVars == <<tile_has_diff, tile_has_xdamage_diff, tile_tried, tile_copied, tile_region>>
posVars  == <<phase, row, col>>
vars == <<picVars, dispVars, damVars, scan_count, tileVars, posVars, draws>>

Slots == 0 .. NReg - 1

Init ==
  /\ screen = [p \in Pixel |-> Black] /\ main_fb = screen /\ client = screen
  /\ connected = FALSE
  /\ use_xdamage \in Modes
  /\ xdamage = FALSE /\ crazy = FALSE
  /\ queue = {} /\ xdamage_regions = [i \in Slots |-> {}] /\ xdamage_ticker = -1
  /\ scheduled = FALSE
  /\ scan_count = 0
  /\ tile_has_diff = {} /\ tile_has_xdamage_diff = {}
  /\ tile_tried = {} /\ tile_copied = {}
  /\ tile_region = [t \in Tile |-> {}]
  /\ phase = "idle" /\ row = 0 /\ col = 0
  /\ draws = 0

(***************************************************************************)
(* The X server and the viewers.                                           *)
(***************************************************************************)
Draw(r, c) ==
  /\ draws < MaxDraws
  /\ draws' = draws + 1
  /\ screen' = [p \in Pixel |-> IF p \in r THEN c ELSE screen[p]]
  /\ queue' = IF xdamage THEN queue \cup r ELSE queue
  /\ UNCHANGED <<main_fb, client, dispVars, xdamage_regions, xdamage_ticker,
                 scheduled, scan_count, tileVars, posVars>>

\* A viewer begins with the whole framebuffer.
Connect ==
  /\ phase = "idle" /\ ~connected
  /\ connected' = TRUE
  /\ client' = main_fb
  /\ UNCHANGED <<screen, main_fb, use_xdamage, xdamage, crazy, damVars,
                 scan_count, tileVars, posVars, draws>>

Disconnect ==
  /\ phase = "idle" /\ connected
  /\ connected' = FALSE
  /\ UNCHANGED <<picVars, use_xdamage, xdamage, crazy, damVars, scan_count,
                 tileVars, posVars, draws>>

(***************************************************************************)
(* The ring of remembered reports (xdamage.c).                             *)
(***************************************************************************)
\* add_region_xdamage: to the slot of the scan before the last one.
PrevTick == IF xdamage_ticker - 1 < 0 THEN NReg - 1 ELSE xdamage_ticker - 1
AddRegion(r) == [xdamage_regions EXCEPT ![PrevTick] = @ \cup r]

\* Mutants of NextTick: a ring one slot short, and one that never wraps.
NextTickShort == IF xdamage_ticker + 1 >= NReg - 1 THEN 0 ELSE xdamage_ticker + 1
NextTickOnward == xdamage_ticker + 1

NextTick == IF xdamage_ticker + 1 = NReg THEN 0 ELSE xdamage_ticker + 1

\* record_desired_xdamage_rect: a report that is small enough flags the tiles it
\* touches, and the next ones when it ends at their border.
Near == {c \in Tile : \E p \in queue : c[1] - p[1][1] \in {0, 1} /\ c[2] - p[1][2] \in {0, 1}}
Flagged == {tile_has_xdamage_diff \cup small : small \in SUBSET Near}

\* The part of collect_xdamage that reads the reports into slot t, which holds
\* kept.  After too many of them the whole screen may be remembered (mark_all),
\* and the Damage object be given up for a while.
Collect(t, kept) ==
  /\ queue' = {}
  /\ \E seen \in IF queue = {} THEN {{}} ELSE {queue, Pixel} :
       xdamage_regions' = [xdamage_regions EXCEPT ![t] = kept \cup seen]
  /\ \/ UNCHANGED <<xdamage, crazy>>
     \/ queue # {} /\ xdamage' = FALSE /\ crazy' = TRUE

\* clear_xdamage_mark_region(NULL, 0), when choose_delay finds x11vnc bogged
\* down or watch_loop finds that the last scan took too long.
DropDamage ==
  /\ Slow
  /\ phase = "idle" /\ connected /\ use_xdamage > 0 /\ xdamage
  /\ queue' = {}
  /\ xdamage_regions' = AddRegion(Pixel)
  /\ scheduled' \in {scheduled, TRUE}
  /\ UNCHANGED <<picVars, dispVars, xdamage_ticker, scan_count, tileVars, posVars,
                 draws>>

\* Only check_xdamage_state looks whether xdamage_crazy_delay is over.
CrazyEnds ==
  /\ phase = "idle" /\ crazy
  /\ crazy' = FALSE
  /\ UNCHANGED <<picVars, connected, use_xdamage, xdamage, damVars, scan_count,
                 tileVars, posVars, draws>>

\* check_xdamage_state: no Damage object without clients.  The X server
\* reports the whole window as damaged when one is created.
CheckXdamageState ==
  /\ phase = "idle"
  /\ phase' = IF connected THEN "begin" ELSE "idle"
  /\ \/ /\ crazy
        /\ UNCHANGED <<xdamage, damVars>>
     \/ /\ ~crazy /\ connected /\ use_xdamage > 0
        /\ xdamage' = TRUE
        /\ queue' = IF xdamage THEN queue ELSE Pixel
        /\ \/ UNCHANGED <<xdamage_regions, scheduled>>
           \/ /\ scheduled
              /\ xdamage_regions' = AddRegion(Pixel)
              /\ scheduled' = FALSE
        /\ UNCHANGED xdamage_ticker
     \/ /\ ~crazy /\ ~(connected /\ use_xdamage > 0)
        /\ xdamage' = FALSE
        /\ queue' = {}
        /\ UNCHANGED <<xdamage_regions, xdamage_ticker, scheduled>>
  /\ UNCHANGED <<picVars, connected, use_xdamage, crazy, scan_count, tileVars, row,
                 col, draws>>

(***************************************************************************)
(* Comparing lines (scan_display).                                         *)
(***************************************************************************)
BeginScan ==
  /\ phase = "begin"
  /\ scan_count' = (scan_count + 1) % NSCAN
  /\ IF use_xdamage > 0 /\ xdamage
     THEN /\ xdamage_ticker' = NextTick
          /\ Collect(NextTick, {})
          /\ tile_has_xdamage_diff' \in Flagged
     ELSE UNCHANGED <<xdamage, crazy, queue, xdamage_regions, xdamage_ticker,
                      tile_has_xdamage_diff>>
  /\ phase' = "scan"
  /\ UNCHANGED <<picVars, connected, use_xdamage, scheduled, tile_has_diff, tile_tried,
                 tile_copied, tile_region, row, col, draws>>

Rescans == {"rescan", "again", "late"}
Scans   == {"scan", "check"} \cup Rescans

\* The offset of the lines that this scan reads.
Offset ==
  Scanlines[CASE phase = "scan"   -> scan_count
              [] phase = "check"  -> (scan_count + 3) % NSCAN
              [] phase = "rescan" -> (NSCAN - scan_count) % NSCAN
              [] phase = "again"  -> (NSCAN - scan_count + 7) % NSCAN
              [] OTHER            -> (NSCAN - scan_count + 13) % NSCAN]

LineOf(r, y) == {p \in Pixel : p[1][2] = r /\ p[2] = y}
Differing(line) == {p \in line : screen[p] # main_fb[p]}

\* Mutant of HintSkip: only the latest reports are looked at.
HintSkipLatest(line) ==
  use_xdamage > 0 /\ xdamage_regions[xdamage_ticker] \cap line = {}

\* xdamage_hint_skip: no remembered report touches the line.
HintSkip(line) ==
  /\ use_xdamage > 0
  /\ \A i \in Slots : xdamage_regions[i] \cap line = {}

ScanLine ==
  /\ phase \in Scans /\ row < Rows
  /\ LET line  == LineOf(row, Offset)
         skip  == HintSkip(line) /\ phase # "check"
         found == IF skip THEN {} ELSE Differing(line)
         hinted == IF found = {} \/ phase \in Rescans THEN {}
                   ELSE {t \in tile_has_xdamage_diff : t[2] = row}
     IN /\ tile_has_diff' = tile_has_diff \cup {p[1] : p \in found} \cup hinted
        \* nodiffs stays set for the rest of a rescan
        /\ row' = IF phase \in Rescans /\ ~skip /\ found = {} THEN Rows ELSE row + 1
  /\ UNCHANGED <<picVars, dispVars, damVars, scan_count, tile_has_xdamage_diff,
                 tile_tried, tile_copied, tile_region, phase, col, draws>>

Scanned(p) == phase = p /\ row = Rows

\* The second call of collect_xdamage, and the damaged tiles not seen so far.
CollectAgain ==
  /\ Scanned("scan")
  /\ IF use_xdamage > 0 /\ xdamage
     THEN LET t == IF xdamage_ticker < 0 THEN 0 ELSE xdamage_ticker
          IN /\ Collect(t, xdamage_regions[t])
             /\ xdamage_ticker' = t
             /\ \E flagged \in Flagged : tile_has_diff' = tile_has_diff \cup flagged
     ELSE /\ tile_has_diff' = tile_has_diff \cup tile_has_xdamage_diff
          /\ UNCHANGED <<xdamage, crazy, queue, xdamage_regions, xdamage_ticker>>
  /\ tile_has_xdamage_diff' = {}    \* all of them are in tile_has_diff now
  /\ phase' = "collected"
  /\ UNCHANGED <<picVars, connected, use_xdamage, scheduled, scan_count, tile_tried,
                 tile_copied, tile_region, row, col, draws>>

StartScan(p) ==
  /\ phase' = p /\ row' = 0
  /\ UNCHANGED <<picVars, dispVars, damVars, scan_count, tileVars, col, draws>>

\* Every few seconds lines are read although no report touches them, ...
CheckScan == phase = "collected" /\ use_xdamage = 1 /\ StartScan("check")

\* ... and when they differ too often the reports are not used any more.
TurnOffXdamage ==
  /\ Scanned("check") /\ use_xdamage = 1
  /\ use_xdamage' = 0
  /\ xdamage_regions' = [i \in Slots |-> {}]
  /\ xdamage' = FALSE /\ queue' = {}
  /\ UNCHANGED <<picVars, connected, crazy, xdamage_ticker, scheduled, scan_count,
                 tileVars, posVars, draws>>

\* Enough tiles changed to look at other lines too (frac1, frac2).
Rescan ==
  /\ tile_has_diff # {}
  /\ \/ (phase = "collected" \/ Scanned("check")) /\ StartScan("rescan")
     \/ Scanned("rescan") /\ StartScan("again")

ScansDone == phase = "collected" \/ \E p \in {"check", "rescan", "again"} : Scanned(p)

(***************************************************************************)
(* Copying (copy_screen, copy_tiles and the passes that call it).          *)
(***************************************************************************)
BeginCopyScreen ==
  /\ ScansDone /\ tile_has_diff # {}
  /\ StartScan("copy_screen")

CopyScreenBlock ==
  /\ phase = "copy_screen" /\ row < Rows
  /\ main_fb' = [p \in Pixel |-> IF p[1][2] = row THEN screen[p] ELSE main_fb[p]]
  /\ row' = row + 1
  /\ UNCHANGED <<screen, client, dispVars, damVars, scan_count, tileVars, phase, col,
                 draws>>

\* What is known of the tiles is not read again; scan_for_updates resets it
\* when it is called next, the model at once.
EndScan ==
  /\ phase' = "idle" /\ row' = 0 /\ col' = 0
  /\ tile_has_diff' = {} /\ tile_has_xdamage_diff' = {}
  /\ tile_tried' = {} /\ tile_copied' = {}
  /\ tile_region' = [t \in Tile |-> {}]

EndCopyScreen ==
  /\ Scanned("copy_screen")
  /\ client' = main_fb
  /\ EndScan
  /\ UNCHANGED <<screen, main_fb, dispVars, damVars, scan_count, draws>>

ChangedLines(t) == {y \in Lines : screen[<<t, y>>] # main_fb[<<t, y>>]}

\* The lines first_line .. last_line of a tile.
Hull(S) == {y \in Lines : \E a, b \in S : a <= y /\ y <= b}

\* copy_tiles on a set of neighbours: one picture of all of them, from which
\* the lines between the first and the last that differ are copied; the tiles
\* that guessed adds may have changed too.
CopyTiles(T, guessed) ==
  LET changed == {t \in T : ChangedLines(t) # {}}
  IN /\ main_fb' = [p \in Pixel |-> IF p[1] \in T THEN screen[p] ELSE main_fb[p]]
     /\ tile_has_diff' = (tile_has_diff \ T) \cup changed \cup guessed
     /\ tile_tried' = tile_tried \cup T
     /\ tile_copied' = tile_copied \cup changed
     /\ tile_region' = [t \in Tile |-> IF t \in changed THEN Hull(ChangedLines(t))
                                       ELSE tile_region[t]]

BeginRuns ==
  /\ ScansDone
  /\ phase' = "runs" /\ row' = 0 /\ col' = 0
  /\ UNCHANGED <<picVars, dispVars, damVars, scan_count, tileVars, draws>>

Ahead(t) == t[2] > row \/ (t[2] = row /\ t[1] >= col)
Between(t, u) == {<<x, t[2]>> : x \in t[1] .. u[1]}

\* copy_all_tile_runs: the next run of changed tiles in a row; the tiles below
\* and the one to the right may be guessed from what changed at the edges.
CopyRun ==
  /\ phase = "runs"
  /\ \E t, u \in tile_has_diff :
       /\ t[2] = u[2] /\ t[1] <= u[1] /\ Ahead(t)
       /\ \A v \in tile_has_diff : Ahead(v) => t[2] < v[2] \/ (t[2] = v[2] /\ t[1] <= v[1])
       /\ Between(t, u) \subseteq tile_has_diff
       /\ <<u[1] + 1, u[2]>> \notin tile_has_diff
       /\ LET below == {<<v[1], v[2] + 1>> : v \in Between(t, u)}
              right == <<u[1] + 1, u[2]>>
          IN \E guessed \in SUBSET ((below \cup {right}) \cap Tile) :
               CopyTiles(Between(t, u), guessed \ tile_has_diff)
       /\ row' = u[2] /\ col' = u[1] + 1
  /\ UNCHANGED <<screen, client, dispVars, damVars, scan_count,
                 tile_has_xdamage_diff, phase, draws>>

Goto(p) ==
  /\ phase' = p /\ row' = 0 /\ col' = 0
  /\ UNCHANGED <<picVars, dispVars, damVars, scan_count, tileVars, draws>>

EndRuns ==
  /\ phase = "runs" /\ \A t \in tile_has_diff : ~Ahead(t)
  /\ Goto("backward")

CopyOne(t) ==
  /\ CopyTiles({t}, {})
  /\ UNCHANGED <<screen, client, dispVars, damVars, scan_count,
                 tile_has_xdamage_diff, posVars, draws>>

\* A tile that no pass has read in this scan.
TryTile(t) ==
  /\ t \notin tile_tried \cup tile_has_diff
  /\ CopyOne(t)

\* copy_tiles_backward_pass: the tile above or to the left of a changed one.
TryBackward(t) ==
  /\ phase = "backward"
  /\ <<t[1] + 1, t[2]>> \in tile_has_diff \/ <<t[1], t[2] + 1>> \in tile_has_diff
  /\ TryTile(t)

\* grow_islands and fill_tile_gaps: next to a changed tile in its row, or
\* between two changed tiles of a row or column.
TryToFill(t) ==
  /\ phase = "grow"
  /\ \/ <<t[1] - 1, t[2]>> \in tile_has_diff \/ <<t[1] + 1, t[2]>> \in tile_has_diff
     \/ \E u, v \in tile_has_diff :
          \/ u[2] = t[2] /\ v[2] = t[2] /\ u[1] < t[1] /\ t[1] < v[1]
          \/ u[1] = t[1] /\ v[1] = t[1] /\ u[2] < t[2] /\ t[2] < v[2]
  /\ TryTile(t)

LateRescan ==
  /\ phase = "backward" /\ tile_has_diff # {}
  /\ StartScan("late")

\* Mutant of CopyAdditional: every changed tile is copied once more.
CopyAdditionalAgain(t) ==
  /\ Scanned("late")
  /\ t \in tile_has_diff
  /\ CopyOne(t)

\* copy_tiles_additional_pass: a tile that was copied already is not copied
\* again, which would forget its first range of lines.
CopyAdditional(t) ==
  /\ Scanned("late")
  /\ t \in tile_has_diff \ tile_copied
  /\ CopyOne(t)

EndPasses ==
  /\ \/ phase = "backward"
     \/ Scanned("late") /\ tile_has_diff \subseteq tile_copied
  /\ Goto("grow")

\* hint_updates: one rectangle for each run of changed tiles in a row.
Hinted ==
  {p \in Pixel :
     \E t, u \in tile_has_diff :
       /\ t[2] = p[1][2] /\ u[2] = p[1][2]
       /\ \A x \in 0 .. Cols - 1 :
            (\E v, w \in {t, u, p[1]} : v[1] <= x /\ x <= w[1]) =>
               <<x, t[2]>> \in tile_has_diff
       /\ \E a \in tile_region[t], b \in tile_region[u] : a <= p[2] /\ p[2] <= b}

HintUpdates ==
  /\ phase = "grow"
  /\ client' = [p \in Pixel |-> IF p \in Hinted THEN main_fb[p] ELSE client[p]]
  /\ EndScan
  /\ UNCHANGED <<screen, main_fb, dispVars, damVars, scan_count, draws>>

Poll ==
  \/ CheckXdamageState \/ BeginScan \/ ScanLine \/ CollectAgain
  \/ CheckScan \/ TurnOffXdamage \/ Rescan
  \/ BeginCopyScreen \/ CopyScreenBlock \/ EndCopyScreen
  \/ BeginRuns \/ CopyRun \/ EndRuns
  \/ LateRescan \/ EndPasses \/ HintUpdates
  \/ \E t \in Tile : TryBackward(t) \/ TryToFill(t) \/ CopyAdditional(t)

Next ==
  \/ \E d \in Drawings : Draw(d[1], d[2])
  \/ Connect \/ Disconnect
  \/ DropDamage \/ CrazyEnds
  \/ Poll

Spec == Init /\ [][Next]_vars

\* watch_loop goes round, and the time without reports ends.
FairSpec == Spec /\ WF_vars(Poll) /\ SF_vars(CrazyEnds)

(***************************************************************************)
(* Properties.                                                             *)
(***************************************************************************)
PicturesOK ==
  /\ screen \in [Pixel -> Color] /\ main_fb \in [Pixel -> Color]
  /\ client \in [Pixel -> Color]
FlagsOK == {connected, xdamage, crazy, scheduled} \subseteq BOOLEAN
DamageOK ==
  /\ use_xdamage \in 0 .. 2
  /\ queue \subseteq Pixel /\ xdamage_regions \in [Slots -> SUBSET Pixel]
  /\ xdamage_ticker \in -1 .. NReg - 1
TilesOK ==
  /\ tile_has_diff \subseteq Tile /\ tile_has_xdamage_diff \subseteq Tile
  /\ tile_tried \subseteq Tile /\ tile_copied \subseteq Tile
  /\ tile_region \in [Tile -> SUBSET Lines]
PlaceOK ==
  /\ phase \in Scans \cup {"idle", "begin", "collected", "copy_screen", "runs",
                            "backward", "grow"}
  /\ row \in 0 .. Rows /\ col \in 0 .. Cols
  /\ scan_count \in Lines /\ draws \in 0 .. MaxDraws

TypeOK == PicturesOK /\ FlagsOK /\ DamageOK /\ TilesOK /\ PlaceOK

\* Scans since slot i was the current one, and scans until the lines with
\* offset y are read.
Age(i) == IF i <= xdamage_ticker THEN xdamage_ticker - i ELSE xdamage_ticker - i + NReg
Turn(i) == IF i > scan_count THEN i - scan_count ELSE i - scan_count + NSCAN

\* Between two scans, a part of the display that differs from the framebuffer
\* is in a report that waits, or in a slot of the ring that outlives the scan
\* that reads its line.  collect_xdamage empties a slot NReg scans after it
\* was filled, wherever the tiles were copied, drawn into or skipped meanwhile.
DamageRemembered ==
  phase = "idle" /\ use_xdamage > 0 /\ xdamage =>
    \A p \in Pixel : screen[p] # main_fb[p] =>
      \/ p \in queue
      \/ \E i \in Slots, k \in Lines :
           /\ p \in xdamage_regions[i]
           /\ Scanlines[k] = p[2] /\ Age(i) + Turn(k) < NReg

\* Between two scans, whatever the passes copied into the framebuffer has been
\* marked as modified (hint_updates): a tile copied twice, or cleared from
\* tile_has_diff after it was copied, would leave a viewer wrong for good.
ChangesAreMarked ==
  phase = "idle" /\ connected => client = main_fb

\* Once the X server stops drawing, the framebuffer becomes what it shows, if
\* a viewer stays connected: every scan goes on where the ring of reports tells
\* it to look.
FramebufferCatchesUp ==
  connected /\ main_fb # screen ~> main_fb = screen \/ ~connected
=============================================================================
