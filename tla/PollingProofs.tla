---------------------------- MODULE PollingProofs ----------------------------
(***************************************************************************)
(* Proofs about the polling of the display, for every size of the screen,  *)
(* of the tiles and of the ring of reports: types, and that what the       *)
(* passes of a scan copy into the framebuffer is marked as modified.       *)
(***************************************************************************)
EXTENDS Polling, TLAPS

(***************************************************************************)
(* The inductive invariant, in named parts.                                *)
(***************************************************************************)
Passes == {"runs", "backward", "late", "grow"}

\* watch_loop polls for a connected viewer only.
ScanInv == phase # "idle" => connected

\* Until the copying passes begin, no tile has been copied, ...
EarlyInv ==
  phase \notin Passes \cup {"copy_screen"} =>
    /\ tile_copied = {} /\ tile_tried = {}
    /\ connected => client = main_fb

\* ... and from then on, what has been copied and not marked lies in the lines
\* remembered for a changed tile.
ToBeMarked ==
  \A p \in Pixel : client[p] # main_fb[p] =>
    p[1] \in tile_copied /\ p[1] \in tile_has_diff /\ p[2] \in tile_region[p[1]]

CopiedInv ==
  phase \in Passes => ToBeMarked /\ tile_copied \subseteq tile_tried

\* copy_all_tile_runs never comes back to a tile.
RunsInv == phase = "runs" => \A t \in tile_copied : ~Ahead(t)

IInv ==
  /\ PicturesOK /\ FlagsOK /\ DamageOK /\ TilesOK /\ PlaceOK
  /\ ScanInv /\ EarlyInv /\ CopiedInv /\ RunsInv

(***************************************************************************)
(* Facts about tiles.                                                      *)
(***************************************************************************)
LEMMA PixelParts == \A p \in Pixel : p[1] \in Tile /\ p[2] \in Lines
BY DEF Pixel

\* A tile is its column and its row.
LEMMA TileParts ==
  \A t \in Tile : t = <<t[1], t[2]>> /\ t[1] \in 0 .. Cols - 1 /\ t[2] \in 0 .. Rows - 1
BY DEF Tile

\* copy_tiles on tiles that have not been copied in this scan: what differs from
\* the viewer afterwards is in the lines it remembers.
LEMMA CopyMarks ==
  ASSUME PicturesOK, TilesOK, ToBeMarked, tile_copied \subseteq tile_tried,
         NEW T \in SUBSET Tile, NEW guessed \in SUBSET Tile,
         T \cap tile_copied = {},
         CopyTiles(T, guessed),
         client' = client, screen' = screen, tile_has_xdamage_diff' = tile_has_xdamage_diff
  PROVE  /\ PicturesOK' /\ TilesOK' /\ ToBeMarked'
         /\ tile_copied' \subseteq tile_tried'
         /\ tile_copied' \subseteq tile_copied \cup T
<1> DEFINE changed == {t \in T : ChangedLines(t) # {}}
<1>1. /\ main_fb' = [p \in Pixel |-> IF p[1] \in T THEN screen[p] ELSE main_fb[p]]
      /\ tile_has_diff' = (tile_has_diff \ T) \cup changed \cup guessed
      /\ tile_tried' = tile_tried \cup T
      /\ tile_copied' = tile_copied \cup changed
      /\ tile_region' = [t \in Tile |-> IF t \in changed THEN Hull(ChangedLines(t))
                                        ELSE tile_region[t]]
  BY DEF CopyTiles
<1>2. \A t \in Tile : ChangedLines(t) \subseteq Hull(ChangedLines(t))
  BY DEF ChangedLines, Hull, Lines
<1>3. PicturesOK'
  BY <1>1 DEF PicturesOK
<1>4. TilesOK'
  BY <1>1 DEF TilesOK, Hull
<1>5. ToBeMarked'
  <2> SUFFICES ASSUME NEW p \in Pixel, client[p] # main_fb'[p]
               PROVE  p[1] \in tile_copied' /\ p[1] \in tile_has_diff'
                        /\ p[2] \in tile_region'[p[1]]
    BY DEF ToBeMarked
  <2>1. p[1] \in Tile /\ p[2] \in Lines /\ p = <<p[1], p[2]>>
    BY DEF Pixel
  <2>2. CASE p[1] \in T
    <3>1. p[1] \notin tile_copied
      BY <2>2
    <3>2. client[p] = main_fb[p]
      BY <3>1 DEF ToBeMarked
    <3>3. screen[p] # main_fb[p]
      BY <1>1, <2>2, <3>2
    <3>4. p[2] \in ChangedLines(p[1])
      BY <2>1, <3>3 DEF ChangedLines
    <3>5. p[1] \in changed
      BY <2>2, <3>4
    <3> QED
      BY <1>1, <1>2, <2>1, <3>4, <3>5
  <2>3. CASE p[1] \notin T
    <3>1. client[p] # main_fb[p]
      BY <1>1, <2>3
    <3> QED
      BY <1>1, <2>1, <2>3, <3>1 DEF ToBeMarked
  <2> QED
    BY <2>2, <2>3
<1> QED
  BY <1>1, <1>3, <1>4, <1>5

(***************************************************************************)
(* The steps.                                                              *)
(***************************************************************************)
LEMMA InitInv == Init => IInv
<1> SUFFICES ASSUME Init PROVE IInv
  OBVIOUS
<1>1. PicturesOK
  BY PollingAssumption DEF Init, PicturesOK
<1>2. FlagsOK
  BY Zenon DEF Init, FlagsOK
<1>3. DamageOK /\ TilesOK
  BY PollingAssumption DEF Init, DamageOK, TilesOK
<1>4. PlaceOK
  BY PollingAssumption DEF Init, PlaceOK, Lines
<1> QED
  BY <1>1, <1>2, <1>3, <1>4 DEF Init, IInv, ScanInv, EarlyInv, CopiedInv, RunsInv, Passes

\* Steps that leave the tiles and the framebuffer alone.
LEMMA StillMarked ==
  ASSUME IInv, UNCHANGED <<main_fb, client, connected, phase, row, col,
                           tile_has_diff, tile_tried, tile_copied, tile_region>>
  PROVE  ScanInv' /\ EarlyInv' /\ CopiedInv' /\ RunsInv'
BY DEF IInv, ScanInv, EarlyInv, CopiedInv, ToBeMarked, RunsInv, Ahead

\* The X server and the viewers, at any moment.
LEMMA DrawStep == ASSUME IInv, NEW d \in Drawings, Draw(d[1], d[2]) PROVE IInv'
<1>1. d[1] \subseteq Pixel /\ d[2] \in Color
  BY PollingAssumption
<1>2. PicturesOK' /\ DamageOK' /\ TilesOK' /\ PlaceOK'
  BY <1>1, PollingAssumption DEF Draw, IInv, PicturesOK, DamageOK, TilesOK, PlaceOK, dispVars,
     tileVars, posVars
<1>3. FlagsOK'
  BY Zenon DEF Draw, IInv, FlagsOK, dispVars
<1>4. ScanInv' /\ EarlyInv' /\ CopiedInv' /\ RunsInv'
  BY StillMarked DEF Draw, dispVars, tileVars, posVars
<1> QED
  BY <1>2, <1>3, <1>4 DEF IInv

\* Viewers come and go.
LEMMA ViewerStep == IInv /\ (Connect \/ Disconnect) => IInv'
<1> SUFFICES ASSUME IInv, Connect \/ Disconnect PROVE IInv'
  OBVIOUS
<1>1. PicturesOK' /\ DamageOK' /\ TilesOK' /\ PlaceOK'
  BY DEF Connect, Disconnect, IInv, PicturesOK, DamageOK, TilesOK, PlaceOK, picVars, damVars,
     tileVars, posVars
<1>2. FlagsOK'
  BY Zenon DEF Connect, Disconnect, IInv, FlagsOK, damVars
<1>3. ScanInv' /\ EarlyInv' /\ CopiedInv' /\ RunsInv'
  BY DEF Connect, Disconnect, IInv, ScanInv, EarlyInv, CopiedInv, RunsInv, Passes, picVars,
     tileVars, posVars
<1> QED
  BY <1>1, <1>2, <1>3 DEF IInv

\* Reports that get lost or are waited for.
LEMMA DamageStep == IInv /\ (DropDamage \/ CrazyEnds) => IInv'
<1> SUFFICES ASSUME IInv, DropDamage \/ CrazyEnds PROVE IInv'
  OBVIOUS
<1>1. PicturesOK' /\ DamageOK' /\ TilesOK' /\ PlaceOK'
  BY DEF DropDamage, CrazyEnds, AddRegion, IInv, PicturesOK, DamageOK, TilesOK, PlaceOK, picVars,
     dispVars, damVars, tileVars, posVars
<1>2. FlagsOK'
  BY Zenon DEF DropDamage, CrazyEnds, IInv, FlagsOK, dispVars, damVars
<1>3. ScanInv' /\ EarlyInv' /\ CopiedInv' /\ RunsInv'
  BY StillMarked DEF DropDamage, CrazyEnds, picVars, dispVars, tileVars, posVars
<1> QED
  BY <1>1, <1>2, <1>3 DEF IInv

\* The next slot of the ring, and what is collected in it.
LEMMA CollectTypes ==
  ASSUME DamageOK, NEW t \in Slots, NEW kept \in SUBSET Pixel, Collect(t, kept),
         xdamage_ticker' = t, use_xdamage' = use_xdamage
  PROVE  DamageOK'
BY DEF DamageOK, Collect, Slots

\* collect_xdamage leaves its flags flags.
LEMMA CollectFlags ==
  ASSUME FlagsOK, NEW t, NEW kept, Collect(t, kept)
  PROVE  xdamage' \in BOOLEAN /\ crazy' \in BOOLEAN
BY Zenon DEF FlagsOK, Collect

\* Reports flag tiles.
LEMMA FlaggedTiles ==
  ASSUME tile_has_xdamage_diff \subseteq Tile, NEW flagged \in Flagged
  PROVE  flagged \subseteq Tile
<1>1. PICK small \in SUBSET Near : flagged = tile_has_xdamage_diff \cup small
  BY DEF Flagged
<1>2. Near \subseteq Tile
  BY DEF Near
<1> QED
  BY <1>1, <1>2

\* The ticker goes on inside the ring.
LEMMA NextTickSlot == DamageOK => NextTick \in Slots
BY PollingAssumption DEF DamageOK, NextTick, Slots

\* The beginning of scan_for_updates.
LEMMA BeginStep == IInv /\ (CheckXdamageState \/ BeginScan) => IInv'
<1> SUFFICES ASSUME IInv, CheckXdamageState \/ BeginScan PROVE IInv'
  OBVIOUS
<1>1. CASE CheckXdamageState
  <2>1. PicturesOK' /\ DamageOK' /\ TilesOK' /\ PlaceOK'
    BY <1>1 DEF CheckXdamageState, AddRegion, IInv, PicturesOK, DamageOK, TilesOK, PlaceOK, picVars,
       damVars, tileVars
  <2>2. FlagsOK'
    BY <1>1, Zenon DEF CheckXdamageState, IInv, FlagsOK, damVars
  <2>3. ScanInv' /\ EarlyInv' /\ CopiedInv' /\ RunsInv'
    BY <1>1 DEF CheckXdamageState, IInv, ScanInv, EarlyInv, CopiedInv, RunsInv, Passes, picVars,
       tileVars
  <2> QED
    BY <2>1, <2>2, <2>3 DEF IInv
<1>2. CASE BeginScan
  <2>1. DamageOK'
    BY <1>2, CollectTypes, NextTickSlot DEF BeginScan, IInv, DamageOK
  <2>2. FlagsOK'
    BY <1>2, CollectFlags, Zenon DEF BeginScan, IInv, FlagsOK
  <2>3. tile_has_xdamage_diff' \subseteq Tile
    BY <1>2, FlaggedTiles DEF BeginScan, IInv, TilesOK
  <2>4. scan_count' \in Lines
    BY <1>2, PollingAssumption DEF BeginScan, IInv, PlaceOK, Lines
  <2>5. PicturesOK' /\ TilesOK' /\ PlaceOK'
    BY <1>2, <2>3, <2>4 DEF BeginScan, IInv, PicturesOK, TilesOK, PlaceOK, Scans, picVars
  <2>6. ScanInv' /\ EarlyInv' /\ CopiedInv' /\ RunsInv'
    BY <1>2 DEF BeginScan, IInv, ScanInv, EarlyInv, CopiedInv, RunsInv, Passes, picVars
  <2> QED
    BY <2>1, <2>2, <2>5, <2>6 DEF IInv
<1> QED
  BY <1>1, <1>2

\* Comparing lines changes only what is known of the tiles.
LEMMA ScanLineStep == IInv /\ ScanLine => IInv'
<1> SUFFICES ASSUME IInv, ScanLine PROVE IInv'
  OBVIOUS
<1>1. PICK found \in SUBSET Pixel, hinted \in SUBSET Tile :
        tile_has_diff' = tile_has_diff \cup {p[1] : p \in found} \cup hinted
  <2> DEFINE line   == LineOf(row, Offset)
             skip   == HintSkip(line) /\ phase # "check"
             found  == IF skip THEN {} ELSE Differing(line)
             hinted == IF found = {} \/ phase \in Rescans THEN {}
                       ELSE {t \in tile_has_xdamage_diff : t[2] = row}
  <2>1. found \in SUBSET Pixel
    BY DEF LineOf, Differing
  <2>2. hinted \in SUBSET Tile
    BY DEF IInv, TilesOK
  <2>3. tile_has_diff' = tile_has_diff \cup {p[1] : p \in found} \cup hinted
    BY DEF ScanLine
  <2> HIDE DEF found, hinted
  <2> QED
    BY <2>1, <2>2, <2>3
<1>2. tile_has_diff \subseteq tile_has_diff' /\ tile_has_diff' \subseteq Tile
  BY <1>1, PixelParts DEF IInv, TilesOK
<1>3. row' \in 0 .. Rows /\ phase \in Scans /\ phase' = phase
  BY PollingAssumption DEF ScanLine, IInv, PlaceOK
<1>4. UNCHANGED <<picVars, dispVars, damVars, scan_count, tile_has_xdamage_diff,
                  tile_tried, tile_copied, tile_region, col, draws>>
  BY DEF ScanLine
<1>5. PicturesOK' /\ DamageOK' /\ TilesOK' /\ PlaceOK'
  BY <1>2, <1>3, <1>4 DEF IInv, PicturesOK, DamageOK, TilesOK, PlaceOK, picVars, dispVars, damVars
<1>6. FlagsOK'
  BY <1>4, Zenon DEF IInv, FlagsOK, dispVars, damVars
<1>7. ScanInv' /\ EarlyInv' /\ CopiedInv' /\ RunsInv'
  BY <1>2, <1>3, <1>4 DEF IInv, ScanInv, EarlyInv, CopiedInv, ToBeMarked, RunsInv, Scans, Rescans,
     Passes, picVars, dispVars
<1> QED
  BY <1>5, <1>6, <1>7 DEF IInv

\* The second collect_xdamage of a scan adds to the slot of this cycle.
LEMMA CollectStep == IInv /\ CollectAgain => IInv'
<1> SUFFICES ASSUME IInv, CollectAgain PROVE IInv'
  OBVIOUS
<1> DEFINE t == IF xdamage_ticker < 0 THEN 0 ELSE xdamage_ticker
<1>1. t \in Slots /\ xdamage_regions[t] \in SUBSET Pixel
  BY PollingAssumption DEF IInv, DamageOK, Slots
<1> HIDE DEF t
<1>2. DamageOK'
  BY <1>1, CollectTypes DEF CollectAgain, IInv, DamageOK, t
<1>3. FlagsOK'
  <2>1. xdamage' \in BOOLEAN /\ crazy' \in BOOLEAN
    BY CollectFlags, Zenon DEF CollectAgain, IInv, FlagsOK
  <2> QED
    BY <2>1, Zenon DEF CollectAgain, IInv, FlagsOK
<1>4. tile_has_diff' \subseteq Tile
  BY FlaggedTiles DEF CollectAgain, IInv, TilesOK
<1>5. PicturesOK' /\ TilesOK' /\ PlaceOK'
  BY <1>4 DEF CollectAgain, Scanned, IInv, PicturesOK, TilesOK, PlaceOK, picVars
<1>6. ScanInv' /\ EarlyInv' /\ CopiedInv' /\ RunsInv'
  BY DEF CollectAgain, Scanned, IInv, ScanInv, EarlyInv, CopiedInv, RunsInv, Passes, picVars
<1> QED
  BY <1>2, <1>3, <1>5, <1>6 DEF IInv

\* Going on to another part of scan_for_updates: among the scans, or from the
\* backward pass to the late rescan and on to the last passes.
LEMMA GoesOn ==
  ASSUME IInv, NEW from, NEW to \in Scans \cup Passes \cup {"copy_screen"},
         phase = from, phase' = to, row' = 0, col' \in {col, 0},
         UNCHANGED <<picVars, dispVars, damVars, scan_count, tileVars, draws>>,
         from # "idle",
         \/ from \notin Passes \cup {"copy_screen"}
         \/ from \in Passes /\ to \in Passes \ {"runs"}
  PROVE  IInv'
<1>1. PicturesOK' /\ DamageOK' /\ TilesOK' /\ PlaceOK'
  BY PollingAssumption DEF IInv, PicturesOK, DamageOK, TilesOK, PlaceOK, Scans, Rescans, Passes,
     picVars, dispVars, damVars, tileVars
<1>2. FlagsOK'
  BY Zenon DEF IInv, FlagsOK, dispVars, damVars
<1>3. ScanInv' /\ EarlyInv' /\ CopiedInv' /\ RunsInv'
  BY DEF IInv, ScanInv, EarlyInv, CopiedInv, ToBeMarked, RunsInv, Scans, Rescans, Passes,
     picVars, dispVars, tileVars
<1> QED
  BY <1>1, <1>2, <1>3 DEF IInv

\* scan_for_updates goes on to its next pass, or back to the lines.
LEMMA PhaseStep ==
  IInv /\ (CheckScan \/ Rescan \/ BeginCopyScreen \/ BeginRuns \/ EndRuns \/ LateRescan \/ EndPasses)
    => IInv'
<1> SUFFICES ASSUME IInv,
                    CheckScan \/ Rescan \/ BeginCopyScreen \/ BeginRuns \/ EndRuns
                      \/ LateRescan \/ EndPasses
             PROVE  IInv'
  OBVIOUS
<1>1. /\ phase' \in Scans \cup Passes \cup {"copy_screen"}
      /\ row' = 0 /\ col' \in {col, 0}
      /\ UNCHANGED <<picVars, dispVars, damVars, scan_count, tileVars, draws>>
      /\ phase # "idle"
      /\ \/ phase \notin Passes \cup {"copy_screen"}
         \/ phase \in Passes /\ phase' \in Passes \ {"runs"}
  BY DEF CheckScan, Rescan, BeginCopyScreen, BeginRuns, EndRuns, LateRescan, EndPasses, StartScan,
     Goto, ScansDone, Scanned, Scans, Rescans, Passes, tileVars
<1> QED
  BY <1>1, GoesOn

\* use_xdamage is switched off; pictures and tiles stay as they are.
LEMMA TurnOffStep == IInv /\ TurnOffXdamage => IInv'
<1> SUFFICES ASSUME IInv, TurnOffXdamage PROVE IInv'
  OBVIOUS
<1>1. PicturesOK' /\ DamageOK' /\ TilesOK' /\ PlaceOK'
  BY DEF TurnOffXdamage, IInv, PicturesOK, DamageOK, TilesOK, PlaceOK, picVars, tileVars, posVars
<1>2. FlagsOK'
  BY Zenon DEF TurnOffXdamage, IInv, FlagsOK
<1>3. ScanInv' /\ EarlyInv' /\ CopiedInv' /\ RunsInv'
  BY StillMarked DEF TurnOffXdamage, picVars, tileVars, posVars
<1> QED
  BY <1>1, <1>2, <1>3 DEF IInv

(***************************************************************************)
(* Copying.                                                                *)
(***************************************************************************)
\* copy_screen, whose blocks are all marked at its end.
LEMMA ScreenStep == IInv /\ (CopyScreenBlock \/ EndCopyScreen) => IInv'
<1> SUFFICES ASSUME IInv, CopyScreenBlock \/ EndCopyScreen PROVE IInv'
  OBVIOUS
<1>1. FlagsOK'
  BY Zenon DEF CopyScreenBlock, EndCopyScreen, IInv, FlagsOK, dispVars, damVars
<1>2. CASE CopyScreenBlock
  <2>1. PicturesOK' /\ DamageOK' /\ TilesOK' /\ PlaceOK'
    BY <1>2, PollingAssumption DEF CopyScreenBlock, IInv, PicturesOK, DamageOK, TilesOK, PlaceOK,
       dispVars, damVars, tileVars
  <2>2. ScanInv' /\ EarlyInv' /\ CopiedInv' /\ RunsInv'
    BY <1>2 DEF CopyScreenBlock, IInv, ScanInv, EarlyInv, CopiedInv, RunsInv, Passes, dispVars
  <2> QED
    BY <1>1, <2>1, <2>2 DEF IInv
<1>3. CASE EndCopyScreen
  <2>1. PicturesOK' /\ DamageOK' /\ TilesOK' /\ PlaceOK'
    BY <1>3, PollingAssumption DEF EndCopyScreen, EndScan, IInv, PicturesOK, DamageOK, TilesOK, PlaceOK,
       dispVars, damVars
  <2>2. ScanInv' /\ EarlyInv' /\ CopiedInv' /\ RunsInv'
    BY <1>3 DEF EndCopyScreen, EndScan, IInv, ScanInv, EarlyInv, CopiedInv, RunsInv, Passes,
       dispVars
  <2> QED
    BY <1>1, <2>1, <2>2 DEF IInv
<1> QED
  BY <1>2, <1>3

\* A run of tiles ahead of the place copy_all_tile_runs has come to.
LEMMA RunStep == IInv /\ CopyRun => IInv'
<1> SUFFICES ASSUME IInv, CopyRun PROVE IInv'
  OBVIOUS
<1>1. PICK t \in tile_has_diff, u \in tile_has_diff :
        /\ t[2] = u[2] /\ t[1] <= u[1] /\ Ahead(t)
        /\ Between(t, u) \subseteq tile_has_diff
        /\ \E guessed \in SUBSET Tile : CopyTiles(Between(t, u), guessed)
        /\ row' = u[2] /\ col' = u[1] + 1
  <2>1. PICK t \in tile_has_diff, u \in tile_has_diff :
          /\ t[2] = u[2] /\ t[1] <= u[1] /\ Ahead(t)
          /\ Between(t, u) \subseteq tile_has_diff
          /\ \E guessed \in SUBSET (({<<v[1], v[2] + 1>> : v \in Between(t, u)}
                                       \cup {<<u[1] + 1, u[2]>>}) \cap Tile) :
               CopyTiles(Between(t, u), guessed \ tile_has_diff)
          /\ row' = u[2] /\ col' = u[1] + 1
    BY DEF CopyRun
  <2> QED
    BY <2>1
<1> DEFINE T == Between(t, u)
<1>2. PICK guessed \in SUBSET Tile : CopyTiles(T, guessed)
  BY <1>1
<1>3. /\ phase = "runs" /\ phase' = phase
      /\ UNCHANGED <<screen, client, dispVars, damVars, scan_count, tile_has_xdamage_diff, draws>>
  BY DEF CopyRun
<1>4. /\ t \in Tile /\ t[1] \in 0 .. Cols - 1 /\ t[2] \in 0 .. Rows - 1
      /\ u \in Tile /\ u[1] \in 0 .. Cols - 1 /\ u[2] \in 0 .. Rows - 1
  BY TileParts DEF IInv, TilesOK
<1>5. T \in SUBSET Tile /\ \A v \in T : v[2] = t[2] /\ t[1] <= v[1] /\ v[1] <= u[1]
  BY <1>1, <1>4 DEF Between, IInv, TilesOK
<1>6. row \in Nat /\ col \in Nat
  BY DEF IInv, PlaceOK
<1>7. T \cap tile_copied = {}
  <2> SUFFICES ASSUME NEW v \in T PROVE v \notin tile_copied
    OBVIOUS
  <2>1. v[1] \in 0 .. Cols - 1 /\ v[2] = t[2] /\ t[1] <= v[1]
    BY <1>5, TileParts
  <2>2. Ahead(v)
    BY <1>1, <1>4, <1>6, <2>1 DEF Ahead
  <2> QED
    BY <1>3, <2>2 DEF IInv, RunsInv
<1> HIDE DEF T
<1>8. ToBeMarked /\ tile_copied \subseteq tile_tried
  BY <1>3 DEF IInv, CopiedInv, Passes
<1>9. /\ PicturesOK' /\ TilesOK' /\ ToBeMarked' /\ tile_copied' \subseteq tile_tried'
      /\ tile_copied' \subseteq tile_copied \cup T
  BY <1>2, <1>3, <1>5, <1>7, <1>8, CopyMarks DEF IInv
<1>10. RunsInv'
  <2> SUFFICES ASSUME NEW v \in tile_copied' PROVE ~(v[2] > row' \/ (v[2] = row' /\ v[1] >= col'))
    BY DEF RunsInv, Ahead
  <2>1. v \in Tile /\ v[1] \in 0 .. Cols - 1 /\ v[2] \in 0 .. Rows - 1
    BY <1>9, TileParts DEF TilesOK
  <2>2. CASE v \in T
    BY <1>1, <1>4, <1>5, <2>1, <2>2
  <2>3. CASE v \in tile_copied
    <3>1. ~Ahead(v)
      BY <1>3, <2>3 DEF IInv, RunsInv
    <3> QED
      BY <1>1, <1>4, <1>6, <2>1, <3>1 DEF Ahead
  <2> QED
    BY <1>9, <2>2, <2>3
<1>11. FlagsOK'
  BY <1>3, Zenon DEF IInv, FlagsOK, dispVars, damVars
<1>12. DamageOK' /\ PlaceOK'
  BY <1>1, <1>3, <1>4, PollingAssumption DEF IInv, DamageOK, PlaceOK, dispVars, damVars
<1>13. ScanInv' /\ EarlyInv' /\ CopiedInv'
  BY <1>3, <1>9 DEF IInv, ScanInv, EarlyInv, CopiedInv, Passes, dispVars
<1> QED
  BY <1>9, <1>10, <1>11, <1>12, <1>13 DEF IInv

\* A single tile that no pass of this scan has copied.
LEMMA OneTile ==
  ASSUME IInv, NEW t \in Tile, CopyOne(t), phase \in Passes \ {"runs"}, t \notin tile_copied
  PROVE  IInv'
<1>1. CopyTiles({t}, {})
  BY DEF CopyOne
<1>2. UNCHANGED <<screen, client, dispVars, damVars, scan_count, tile_has_xdamage_diff, posVars, draws>>
  BY DEF CopyOne
<1>3. ToBeMarked /\ tile_copied \subseteq tile_tried
  BY DEF IInv, CopiedInv
<1>4. /\ PicturesOK' /\ TilesOK' /\ ToBeMarked' /\ tile_copied' \subseteq tile_tried'
  BY <1>1, <1>2, <1>3, CopyMarks DEF IInv
<1>5. FlagsOK'
  BY <1>2, Zenon DEF IInv, FlagsOK, dispVars, damVars
<1>6. DamageOK' /\ PlaceOK'
  BY <1>2 DEF IInv, DamageOK, PlaceOK, dispVars, damVars, posVars
<1>7. ScanInv' /\ EarlyInv' /\ CopiedInv' /\ RunsInv'
  BY <1>2, <1>4 DEF IInv, ScanInv, EarlyInv, CopiedInv, RunsInv, Passes, dispVars, posVars
<1> QED
  BY <1>4, <1>5, <1>6, <1>7 DEF IInv

\* The passes that try the neighbours of tiles: no tile is copied twice.
LEMMA TileStep ==
  ASSUME IInv, NEW t \in Tile, TryBackward(t) \/ TryToFill(t) \/ CopyAdditional(t)
  PROVE  IInv'
<1>1. CASE TryBackward(t) \/ TryToFill(t)
  <2>1. CopyOne(t) /\ phase \in Passes \ {"runs"} /\ t \notin tile_tried
    BY <1>1 DEF TryBackward, TryToFill, TryTile, Passes
  <2>2. t \notin tile_copied
    BY <2>1 DEF IInv, CopiedInv
  <2> QED
    BY <2>1, <2>2, OneTile
<1>2. CASE CopyAdditional(t)
  BY <1>2, OneTile DEF CopyAdditional, Scanned, Passes
<1> QED
  BY <1>1, <1>2

\* hint_updates marks every line that a tile remembers.
LEMMA HintStep == IInv /\ HintUpdates => IInv'
<1> SUFFICES ASSUME IInv, HintUpdates PROVE IInv'
  OBVIOUS
<1>1. \A p \in Pixel : p[1] \in tile_has_diff /\ p[2] \in tile_region[p[1]] => p \in Hinted
  <2> SUFFICES ASSUME NEW p \in Pixel, p[1] \in tile_has_diff, p[2] \in tile_region[p[1]]
               PROVE  p \in Hinted
    OBVIOUS
  <2>1. p[1] \in Tile /\ p[1] = <<p[1][1], p[1][2]>> /\ p[1][1] \in 0 .. Cols - 1
    BY PixelParts, TileParts
  <2>2. \A x \in 0 .. Cols - 1 :
          (\E v, w \in {p[1]} : v[1] <= x /\ x <= w[1]) => <<x, p[1][2]>> \in tile_has_diff
    BY <2>1
  <2>3. p[2] \in Int
    BY PixelParts DEF Lines
  <2> QED
    BY <2>1, <2>2, <2>3 DEF Hinted
<1>2. phase = "grow" /\ connected
  BY DEF HintUpdates, IInv, ScanInv
<1>3. \A p \in Pixel : p \notin Hinted => client[p] = main_fb[p]
  BY <1>1, <1>2 DEF IInv, CopiedInv, ToBeMarked, Passes
<1>4. client' = main_fb /\ main_fb' = main_fb
  BY <1>3 DEF HintUpdates, IInv, PicturesOK
<1>5. PicturesOK'
  BY <1>4 DEF HintUpdates, IInv, PicturesOK
<1>6. FlagsOK'
  BY Zenon DEF HintUpdates, IInv, FlagsOK, dispVars, damVars
<1>7. DamageOK' /\ TilesOK' /\ PlaceOK'
  BY PollingAssumption DEF HintUpdates, EndScan, IInv, DamageOK, TilesOK, PlaceOK, dispVars, damVars
<1>8. ScanInv' /\ EarlyInv' /\ CopiedInv' /\ RunsInv'
  BY <1>4 DEF HintUpdates, EndScan, ScanInv, EarlyInv, CopiedInv, RunsInv, Passes
<1> QED
  BY <1>5, <1>6, <1>7, <1>8 DEF IInv

(***************************************************************************)
(* Theorems.                                                               *)
(***************************************************************************)
\* The invariant above holds however the display is drawn into, reports are
\* lost and scans choose their passes (scan.c, xdamage.c).
THEOREM PollingInvariance == Spec => []IInv
<1>1. IInv /\ [Next]_vars => IInv'
  <2> SUFFICES ASSUME IInv, [Next]_vars PROVE IInv'
    OBVIOUS
  <2>1. CASE UNCHANGED vars
    <3>1. UNCHANGED <<picVars, dispVars, damVars, scan_count, tileVars, posVars, draws>>
      BY <2>1 DEF vars
    <3>2. FlagsOK'
      BY <3>1, Zenon DEF IInv, FlagsOK, dispVars, damVars
    <3>3. ScanInv' /\ EarlyInv' /\ CopiedInv' /\ RunsInv'
      BY <3>1, StillMarked DEF picVars, dispVars, tileVars, posVars
    <3>4. PicturesOK' /\ DamageOK' /\ TilesOK' /\ PlaceOK'
      BY <3>1 DEF IInv, PicturesOK, DamageOK, TilesOK, PlaceOK, picVars, dispVars, damVars,
         tileVars, posVars
    <3> QED
      BY <3>2, <3>3, <3>4 DEF IInv
  <2>2. CASE Poll
    BY <2>2, BeginStep, ScanLineStep, CollectStep, PhaseStep, TurnOffStep, ScreenStep, RunStep,
       TileStep, HintStep DEF Poll
  <2>3. CASE Next /\ ~Poll
    BY <2>3, DrawStep, ViewerStep, DamageStep DEF Next
  <2> QED
    BY <2>1, <2>2, <2>3
<1> QED
  BY <1>1, InitInv, PTL DEF Spec

\* Type correctness; in particular the ticker stays inside the ring of reports.
THEOREM PollingTypes == Spec => []TypeOK
<1>1. IInv => TypeOK
  BY DEF IInv, TypeOK
<1> QED
  BY <1>1, PollingInvariance, PTL

\* Between two scans a viewer has been told of everything in the framebuffer.
THEOREM ChangesMarked == Spec => []ChangesAreMarked
<1>1. IInv => ChangesAreMarked
  BY DEF IInv, EarlyInv, ChangesAreMarked, Passes
<1> QED
  BY <1>1, PollingInvariance, PTL
=============================================================================
