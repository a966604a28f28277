---------------------------- MODULE DamageProofs -----------------------------
(***************************************************************************)
(* The ring of remembered damage reports forgets nothing that the          *)
(* framebuffer still lacks, provided it has more than NSCAN + 1 slots.     *)
(***************************************************************************)
EXTENDS PollingProofs

(***************************************************************************)
(* What DamageRemembered says between two scans, carried through a scan.   *)
(***************************************************************************)
\* Lines are skipped, and reports come.
Active == use_xdamage > 0 /\ xdamage

\* A slot outlives the scan that reads the line of p, ...
Later(p) ==
  \E i \in Slots, k \in Lines :
    p \in xdamage_regions[i] /\ Scanlines[k] = p[2] /\ Age(i) + Turn(k) < NReg

\* ... this scan will read it, ...
Now(p) ==
  /\ phase = "scan" /\ row <= p[1][2] /\ p[2] = Scanlines[scan_count]
  /\ \E i \in Slots : p \in xdamage_regions[i]

\* ... or its tile has been found to differ and is still to be copied.
ToCopy(p) ==
  \/ phase \in {"scan", "check", "rescan", "again", "collected"} /\ p[1] \in tile_has_diff
  \/ phase = "runs" /\ p[1] \in tile_has_diff /\ Ahead(p[1])
  \/ phase = "copy_screen" /\ row <= p[1][2]

MemoryInv ==
  Active => \A p \in Pixel :
    screen[p] # main_fb[p] => p \in queue \/ Later(p) \/ Now(p) \/ ToCopy(p)

TickInv ==
  /\ Active /\ phase \notin {"idle", "begin"} => xdamage_ticker \in Slots
  /\ phase \in {"idle", "begin"} => row = 0

DInv == IInv /\ MemoryInv /\ TickInv

(***************************************************************************)
(* Ages of slots and turns of lines.                                       *)
(***************************************************************************)
\* scan_count goes round.
LEMMA Modulo ==
  ASSUME NEW n \in Nat \ {0}, NEW x \in 0 .. n
  PROVE  x % n = IF x = n THEN 0 ELSE x
<1>1. x < n => x % n = x
  OBVIOUS
<1>2. n % n = 0
  OBVIOUS
<1> QED
  BY <1>1, <1>2

\* Every line is read once in the next NSCAN scans.
LEMMA TurnRange ==
  ASSUME NEW k \in Lines
  PROVE  /\ scan_count \in Lines => Turn(k) \in 1 .. NSCAN
         /\ scan_count' \in Lines => Turn(k)' \in 1 .. NSCAN
<1>1. ASSUME NEW s \in Lines
      PROVE  (IF k > s THEN k - s ELSE k - s + NSCAN) \in 1 .. NSCAN
  <2>1. NSCAN \in Nat \ {0} /\ k \in 0 .. NSCAN - 1 /\ s \in 0 .. NSCAN - 1
    BY PollingAssumption DEF Lines
  <2>2. k > s => k - s \in 1 .. NSCAN
    BY <2>1
  <2>3. ~(k > s) => k - s + NSCAN \in 1 .. NSCAN
    BY <2>1
  <2> QED
    BY <2>2, <2>3
<1> QED
  BY <1>1 DEF Turn

\* A turn comes one scan nearer, or is there.
LEMMA TurnNext ==
  ASSUME NEW k \in Lines, scan_count \in Lines,
         scan_count' = IF scan_count + 1 = NSCAN THEN 0 ELSE scan_count + 1
  PROVE  /\ Turn(k) = 1 => k = scan_count'
         /\ Turn(k) # 1 => Turn(k)' = Turn(k) - 1
<1>1. NSCAN \in Nat \ {0} /\ k \in 0 .. NSCAN - 1 /\ scan_count \in 0 .. NSCAN - 1
  BY PollingAssumption DEF Lines
<1> QED
  BY <1>1 DEF Turn

\* A slot of the ring is at most NReg cycles old.
LEMMA AgeRange == ASSUME DamageOK, NEW i \in Slots PROVE Age(i) \in 0 .. NReg
BY PollingAssumption DEF DamageOK, Age, Slots

\* The ticker goes on: the slot that is emptied is the oldest, and every other
\* is one cycle older.
LEMMA AgeNext ==
  ASSUME DamageOK, NEW i \in Slots, xdamage_ticker' = NextTick
  PROVE  /\ i = NextTick => Age(i)' = 0 /\ Age(i) >= NReg - 1
         /\ i # NextTick => Age(i)' = Age(i) + 1
BY PollingAssumption DEF DamageOK, Age, Slots, NextTick

\* The newest slot is at most one cycle old.
LEMMA AgePrev == ASSUME DamageOK PROVE PrevTick \in Slots /\ Age(PrevTick) <= 1
BY PollingAssumption DEF DamageOK, Age, Slots, PrevTick

\* While the ring stays what it is, or slots get more, what it remembers lasts.
LEMMA LaterLasts ==
  ASSUME DamageOK, \A i \in Slots : xdamage_regions[i] \subseteq xdamage_regions'[i],
         xdamage_ticker' = xdamage_ticker, scan_count' = scan_count
  PROVE  \A p \in Pixel : Later(p) => Later(p)'
BY DEF Later, Age, Turn

\* Steps that change neither ring nor pictures nor what is known of tiles.
LEMMA StillRemembered ==
  ASSUME MemoryInv, Active' => Active, DamageOK, queue \subseteq queue',
         \A i \in Slots : xdamage_regions[i] \subseteq xdamage_regions'[i],
         UNCHANGED <<screen, main_fb, xdamage_ticker, scan_count, phase, row, col>>,
         tile_has_diff \subseteq tile_has_diff'
  PROVE  MemoryInv'
<1>1. \A p \in Pixel : Later(p) => Later(p)'
  BY LaterLasts
<1>2. \A p \in Pixel : Now(p) => Now(p)'
  BY DEF Now
<1>3. \A p \in Pixel : ToCopy(p) => ToCopy(p)'
  BY DEF ToCopy, Ahead
<1> QED
  BY <1>1, <1>2, <1>3 DEF MemoryInv

(***************************************************************************)
(* Every step keeps it.                                                    *)
(***************************************************************************)
LEMMA DInit == Init => DInv
BY InitInv DEF Init, DInv, MemoryInv, TickInv, Active

\* What is drawn is reported to the X server's queue.
LEMMA DDraw ==
  ASSUME DInv, NEW d \in Drawings, Draw(d[1], d[2]) PROVE MemoryInv' /\ TickInv'
<1>1. UNCHANGED <<main_fb, use_xdamage, xdamage, xdamage_regions, xdamage_ticker, scan_count,
                  phase, row, col, tile_has_diff>>
  BY DEF Draw, dispVars, tileVars, posVars
<1>2. TickInv'
  BY <1>1 DEF DInv, TickInv, Active
<1>3. ASSUME Active', NEW p \in Pixel, screen'[p] # main_fb'[p]
      PROVE  p \in queue' \/ Later(p)' \/ Now(p)' \/ ToCopy(p)'
  <2>1. Active /\ queue' = queue \cup d[1]
    BY <1>1, <1>3 DEF Active, Draw
  <2>2. CASE p \in d[1]
    BY <2>1, <2>2
  <2>3. CASE p \notin d[1]
    <3>1. screen'[p] = screen[p]
      BY <2>3 DEF Draw
    <3>2. p \in queue \/ Later(p) \/ Now(p) \/ ToCopy(p)
      BY <1>1, <1>3, <2>1, <3>1 DEF DInv, MemoryInv
    <3> QED
      BY <1>1, <2>1, <3>2 DEF Later, Age, Turn, Now, ToCopy, Ahead
  <2> QED
    BY <2>2, <2>3
<1> QED
  BY <1>2, <1>3 DEF MemoryInv

\* Viewers and the end of a crazy phase leave the ring to itself; when the reports
\* are dropped, the whole screen goes into the newest slot.
LEMMA DOthers ==
  ASSUME DInv, NSCAN + 1 < NReg, Connect \/ Disconnect \/ DropDamage \/ CrazyEnds
  PROVE MemoryInv' /\ TickInv'
<1>1. UNCHANGED <<screen, main_fb, use_xdamage, xdamage, xdamage_ticker, scan_count,
                  phase, row, col, tile_has_diff>>
  BY DEF Connect, Disconnect, DropDamage, CrazyEnds, picVars, dispVars, damVars, tileVars, posVars
<1>2. TickInv'
  BY <1>1 DEF DInv, TickInv, Active
<1>3. DamageOK /\ PlaceOK /\ DamageOK' /\ PlaceOK'
  BY ViewerStep, DamageStep DEF DInv, IInv
<1>4. CASE Connect \/ Disconnect \/ CrazyEnds
  <2>1. queue' = queue /\ xdamage_regions' = xdamage_regions
    BY <1>4 DEF Connect, Disconnect, CrazyEnds, damVars
  <2> QED
    BY <1>1, <1>2, <1>3, <2>1, StillRemembered DEF DInv, Active
<1>5. CASE DropDamage
  <2>1. PICK i \in Slots : i = PrevTick /\ Age(i) <= 1
    BY <1>3, AgePrev
  <2>2. \A p \in Pixel : p \in xdamage_regions'[i]
    BY <1>3, <1>5, <2>1 DEF DropDamage, AddRegion, DamageOK
  <2>3. \A p \in Pixel : Later(p)'
    <3> SUFFICES ASSUME NEW p \in Pixel PROVE Later(p)'
      OBVIOUS
    <3>1. PICK k \in Lines : Scanlines[k] = p[2]
      BY PixelParts, PollingAssumption
    <3>2. Turn(k) \in 1 .. NSCAN /\ Age(i) \in 0 .. NReg
      BY <1>3, <2>1, TurnRange, AgeRange DEF PlaceOK
    <3>3. Age(i) + Turn(k) < NReg
      BY <2>1, <3>2, PollingAssumption
    <3>4. Age(i)' = Age(i) /\ Turn(k)' = Turn(k)
      BY <1>1 DEF Age, Turn
    <3> QED
      BY <2>2, <3>1, <3>3, <3>4 DEF Later
  <2> QED
    BY <1>2, <2>3 DEF MemoryInv
<1> QED
  BY <1>4, <1>5

\* check_xdamage_state: a new Damage object reports the whole screen, an old one
\* loses nothing.
LEMMA DCheck ==
  ASSUME DInv, NSCAN + 1 < NReg, CheckXdamageState PROVE MemoryInv' /\ TickInv'
<1>1. UNCHANGED <<screen, main_fb, use_xdamage, xdamage_ticker, scan_count,
                  row, col, tile_has_diff>>
  BY DEF CheckXdamageState, picVars, damVars, tileVars
<1>2. phase = "idle" /\ phase' \in {"idle", "begin"}
  BY DEF CheckXdamageState
<1>3. TickInv'
  BY <1>1, <1>2 DEF DInv, TickInv, Active
<1>4. DamageOK /\ PlaceOK
  BY DEF DInv, IInv
<1>5. \A p \in Pixel : ~Now(p) /\ ~ToCopy(p)
  BY <1>2 DEF Now, ToCopy
<1>6. CASE Active' /\ ~xdamage
  <2>1. queue' = Pixel
    BY <1>1, <1>6 DEF CheckXdamageState, Active
  <2> QED
    BY <1>3, <2>1 DEF MemoryInv
<1>7. CASE Active' /\ xdamage
  <2>1. /\ Active /\ queue' = queue
        /\ xdamage_regions' = xdamage_regions \/ xdamage_regions' = AddRegion(Pixel)
    BY <1>1, <1>7 DEF CheckXdamageState, Active, damVars
  <2>2. \A i \in Slots : xdamage_regions[i] \subseteq xdamage_regions'[i]
    BY <1>4, <2>1 DEF AddRegion, DamageOK
  <2>3. \A p \in Pixel : Later(p) => Later(p)'
    BY <1>1, <1>4, <2>2, LaterLasts
  <2> QED
    BY <1>1, <1>3, <1>5, <2>1, <2>3 DEF DInv, MemoryInv
<1> QED
  BY <1>3, <1>6, <1>7 DEF MemoryInv

\* The slot gets at least what was reported.
LEMMA CollectSees ==
  ASSUME DamageOK, NEW t, NEW kept, Collect(t, kept)
  PROVE  \E seen : /\ queue \subseteq seen
                   /\ xdamage_regions' = [xdamage_regions EXCEPT ![t] = kept \cup seen]
<1>1. PICK seen \in IF queue = {} THEN {{}} ELSE {queue, Pixel} :
        xdamage_regions' = [xdamage_regions EXCEPT ![t] = kept \cup seen]
  BY DEF Collect
<1>2. queue \subseteq seen
  BY <1>1 DEF DamageOK
<1> QED
  BY <1>1, <1>2

\* One scan later a report is one scan older and its line one scan nearer; the
\* slot that is emptied has none that counts any more.
LEMMA DBegin == ASSUME DInv, NSCAN + 1 < NReg, BeginScan PROVE MemoryInv' /\ TickInv'
<1>1. UNCHANGED <<screen, main_fb, use_xdamage, row, col, tile_has_diff>>
  BY DEF BeginScan, picVars
<1>2. phase = "begin" /\ phase' = "scan" /\ row = 0
  BY DEF BeginScan, DInv, TickInv
<1>3. DamageOK /\ PlaceOK /\ DamageOK' /\ PlaceOK'
  BY BeginStep DEF DInv, IInv
<1>4. scan_count \in Lines /\ scan_count' = IF scan_count + 1 = NSCAN THEN 0 ELSE scan_count + 1
  <2>1. scan_count \in Lines /\ scan_count' = (scan_count + 1) % NSCAN
    BY <1>3 DEF BeginScan, PlaceOK
  <2>2. NSCAN \in Nat \ {0} /\ scan_count + 1 \in 0 .. NSCAN
    BY <2>1, PollingAssumption DEF Lines
  <2> QED
    BY <2>1, <2>2, Modulo
<1>5. CASE ~Active'
  BY <1>2, <1>5 DEF MemoryInv, TickInv
<1>6. CASE Active'
  <2>1. /\ Active /\ xdamage_ticker' = NextTick
        /\ Collect(NextTick, {})
    BY <1>1, <1>6, Zenon DEF BeginScan, Active, Collect
  <2>5. PICK seen : /\ queue \subseteq seen
                    /\ xdamage_regions' = [xdamage_regions EXCEPT ![NextTick] = {} \cup seen]
    BY <1>3, <2>1, CollectSees
  <2>2. NextTick \in Slots
    BY <1>3, NextTickSlot
  <2>3. TickInv'
    BY <1>2, <2>1, <2>2 DEF TickInv
  <2>4. ASSUME NEW p \in Pixel, screen'[p] # main_fb'[p]
        PROVE  Later(p)' \/ Now(p)'
    <3>1. p \in queue \/ Later(p)
      BY <1>1, <1>2, <2>1, <2>4 DEF DInv, MemoryInv, Now, ToCopy
    <3>2. CASE p \in queue
      <4>1. PICK i \in Slots : i = NextTick
        BY <2>2
      <4>2. Age(i)' = 0 /\ p \in xdamage_regions'[i]
        BY <1>3, <2>1, <2>5, <3>2, <4>1, AgeNext DEF DamageOK
      <4>3. PICK k \in Lines : Scanlines[k] = p[2]
        BY PixelParts, PollingAssumption
      <4>4. Turn(k)' \in 1 .. NSCAN
        BY <1>3, TurnRange DEF PlaceOK
      <4>5. Age(i)' + Turn(k)' < NReg
        BY <4>2, <4>4, PollingAssumption
      <4> QED
        BY <4>2, <4>3, <4>5 DEF Later
    <3>3. CASE Later(p)
      <4>1. PICK i \in Slots, k \in Lines :
              p \in xdamage_regions[i] /\ Scanlines[k] = p[2] /\ Age(i) + Turn(k) < NReg
        BY <3>3 DEF Later
      <4>2. Age(i) \in 0 .. NReg /\ Turn(k) \in 1 .. NSCAN
        BY <1>3, AgeRange, TurnRange DEF PlaceOK
      <4>3. i # NextTick
        BY <1>3, <2>1, <4>1, <4>2, AgeNext, PollingAssumption
      <4>4. Age(i)' = Age(i) + 1 /\ p \in xdamage_regions'[i]
        BY <1>3, <2>1, <2>5, <4>1, <4>3, AgeNext DEF DamageOK
      <4>5. CASE Turn(k) = 1
        <5>1. k = scan_count'
          BY <1>4, <4>5, TurnNext
        <5>2. 0 <= p[1][2]
          BY PixelParts, TileParts
        <5> QED
          BY <1>1, <1>2, <4>1, <4>4, <5>1, <5>2 DEF Now
      <4>6. CASE Turn(k) # 1
        <5>1. Turn(k)' = Turn(k) - 1
          BY <1>4, <4>6, TurnNext
        <5>2. Age(i)' + Turn(k)' < NReg
          BY <4>1, <4>2, <4>4, <5>1, PollingAssumption
        <5> QED
          BY <4>1, <4>4, <5>2 DEF Later
      <4> QED
        BY <4>5, <4>6
    <3> QED
      BY <3>1, <3>2, <3>3
  <2> QED
    BY <2>3, <2>4 DEF MemoryInv
<1> QED
  BY <1>5, <1>6

\* A line that a report touches is read, and its differing tiles are noted.
LEMMA DScanLine == ASSUME DInv, ScanLine PROVE MemoryInv' /\ TickInv'
<1>1. UNCHANGED <<screen, main_fb, use_xdamage, xdamage, queue, xdamage_regions,
                  xdamage_ticker, scan_count, phase, col>>
  BY DEF ScanLine, picVars, dispVars, damVars
<1>2. tile_has_diff \subseteq tile_has_diff' /\ phase \in Scans
  BY DEF ScanLine
<1>3. TickInv'
  BY <1>1, <1>2 DEF DInv, TickInv, Active, Scans, Rescans
<1>4. ASSUME Active', NEW p \in Pixel, screen'[p] # main_fb'[p]
      PROVE  p \in queue' \/ Later(p)' \/ Now(p)' \/ ToCopy(p)'
  <2>1. p \in queue \/ Later(p) \/ Now(p) \/ ToCopy(p)
    BY <1>1, <1>4 DEF DInv, MemoryInv, Active
  <2>2. CASE p \in queue \/ Later(p) \/ ToCopy(p)
    BY <1>1, <1>2, <2>2 DEF Later, Age, Turn, ToCopy, Scans, Rescans
  <2>3. CASE Now(p) /\ row # p[1][2]
    <3>1. row' = row + 1
      BY <2>3 DEF Now, ScanLine, Rescans
    <3>2. row + 1 <= p[1][2]
      BY <2>3, PixelParts, TileParts DEF Now, DInv, IInv, PlaceOK
    <3> QED
      BY <1>1, <2>3, <3>1, <3>2 DEF Now
  <2>4. CASE Now(p) /\ row = p[1][2]
    <3>1. p \in Differing(LineOf(row, Offset))
      BY <1>1, <1>4, <2>4 DEF Now, Differing, LineOf, Offset
    <3>2. ~HintSkip(LineOf(row, Offset))
      BY <2>4, <3>1 DEF Now, HintSkip, Differing
    <3>3. p[1] \in tile_has_diff'
      BY <3>1, <3>2 DEF ScanLine
    <3> QED
      BY <1>1, <2>4, <3>3 DEF Now, ToCopy
  <2> QED
    BY <2>1, <2>2, <2>3, <2>4
<1> QED
  BY <1>3, <1>4 DEF MemoryInv

\* The reports that came during the scan are remembered with this scan.
LEMMA DCollect == ASSUME DInv, NSCAN + 1 < NReg, CollectAgain PROVE MemoryInv' /\ TickInv'
<1>1. /\ UNCHANGED <<screen, main_fb, use_xdamage, scan_count, row, col>>
      /\ phase = "scan" /\ row = Rows /\ phase' = "collected"
  BY DEF CollectAgain, Scanned, picVars
<1>2. CASE ~Active'
  BY <1>1, <1>2 DEF MemoryInv, TickInv
<1>3. CASE Active'
  <2>1. Active
    BY <1>1, <1>3, Zenon DEF CollectAgain, Active
  <2>2. xdamage_ticker \in Slots /\ DamageOK /\ PlaceOK
    BY <1>1, <2>1 DEF DInv, IInv, TickInv
  <2>3. xdamage_ticker \in Nat /\ (IF xdamage_ticker < 0 THEN 0 ELSE xdamage_ticker) = xdamage_ticker
    BY <2>2, PollingAssumption DEF Slots
  <2>4. /\ xdamage_ticker' = xdamage_ticker
        /\ Collect(xdamage_ticker, xdamage_regions[xdamage_ticker])
        /\ tile_has_diff \subseteq tile_has_diff'
    BY <2>1, <2>3, Zenon DEF CollectAgain, Active
  <2>5. PICK seen : /\ queue \subseteq seen
                    /\ xdamage_regions' = [xdamage_regions EXCEPT ![xdamage_ticker] = @ \cup seen]
    BY <2>2, <2>4, CollectSees
  <2>6. TickInv'
    BY <1>1, <2>2, <2>4 DEF TickInv
  <2>7. ASSUME NEW p \in Pixel, screen'[p] # main_fb'[p]
        PROVE  Later(p)' \/ ToCopy(p)'
    <3>1. p \in queue \/ Later(p) \/ Now(p) \/ ToCopy(p)
      BY <1>1, <2>1, <2>7 DEF DInv, MemoryInv
    <3>2. ~Now(p)
      BY <1>1, PixelParts, TileParts, PollingAssumption DEF Now
    <3>3. CASE p \in queue
      <4>1. PICK i \in Slots : i = xdamage_ticker
        BY <2>2
      <4>2. Age(i)' = 0
        BY <2>3, <2>4, <4>1 DEF Age
      <4>3. p \in xdamage_regions'[i]
        BY <2>2, <2>5, <3>3, <4>1 DEF DamageOK
      <4>4. PICK k \in Lines : Scanlines[k] = p[2]
        BY PixelParts, PollingAssumption
      <4>5. Turn(k)' \in 1 .. NSCAN
        BY <1>1, <2>2, TurnRange DEF PlaceOK
      <4>6. Age(i)' + Turn(k)' < NReg
        BY <4>2, <4>5, PollingAssumption
      <4> QED
        BY <4>3, <4>4, <4>6 DEF Later
    <3>4. CASE Later(p)
      <4>1. \A i \in Slots : xdamage_regions[i] \subseteq xdamage_regions'[i]
        BY <2>2, <2>5 DEF DamageOK
      <4> QED
        BY <1>1, <2>2, <2>4, <3>4, <4>1, LaterLasts
    <3>5. CASE ToCopy(p)
      BY <1>1, <2>4, <3>5 DEF ToCopy
    <3> QED
      BY <3>1, <3>2, <3>3, <3>4, <3>5
  <2> QED
    BY <2>6, <2>7 DEF MemoryInv
<1> QED
  BY <1>2, <1>3

\* From scan to scan and to the copying, what was noted is still to be copied.
LEMMA DPhase ==
  ASSUME DInv,
         CheckScan \/ Rescan \/ BeginCopyScreen \/ BeginRuns \/ EndRuns \/ LateRescan \/ EndPasses
  PROVE  MemoryInv' /\ TickInv'
<1>1. UNCHANGED <<screen, main_fb, use_xdamage, xdamage, queue, xdamage_regions,
                  xdamage_ticker, scan_count, tile_has_diff>>
  BY DEF CheckScan, Rescan, BeginCopyScreen, BeginRuns, EndRuns, LateRescan, EndPasses, StartScan,
     Goto, picVars, dispVars, damVars, tileVars
<1>2. phase \notin {"idle", "begin", "scan"} /\ phase' \notin {"idle", "begin"}
  BY DEF CheckScan, Rescan, BeginCopyScreen, BeginRuns, EndRuns, LateRescan, EndPasses, StartScan,
     Goto, ScansDone, Scanned
<1>3. TickInv'
  BY <1>1, <1>2 DEF DInv, TickInv, Active
<1>4. ASSUME NEW p \in Pixel, ToCopy(p) PROVE ToCopy(p)'
  <2>1. p[1][1] \in Nat /\ p[1][2] \in Nat
    BY PixelParts, TileParts, PollingAssumption
  <2>2. CASE CheckScan \/ Rescan
    <3>1. p[1] \in tile_has_diff
      BY <1>4, <2>2 DEF ToCopy, CheckScan, Rescan, Scanned
    <3>2. phase' \in {"check", "rescan", "again"}
      BY <2>2 DEF CheckScan, Rescan, StartScan
    <3> QED
      BY <1>1, <3>1, <3>2 DEF ToCopy
  <2>3. CASE BeginCopyScreen
    BY <2>1, <2>3 DEF BeginCopyScreen, StartScan, ToCopy
  <2>4. CASE BeginRuns
    <3>1. p[1] \in tile_has_diff
      BY <1>4, <2>4 DEF ToCopy, BeginRuns, ScansDone, Scanned
    <3> QED
      BY <1>1, <2>1, <2>4, <3>1 DEF BeginRuns, ToCopy, Ahead
  <2>5. CASE EndRuns \/ LateRescan \/ EndPasses
    BY <1>4, <2>5 DEF ToCopy, EndRuns, LateRescan, EndPasses, Scanned
  <2> QED
    BY <2>2, <2>3, <2>4, <2>5
<1>5. ASSUME NEW p \in Pixel
      PROVE  ~Now(p) /\ (Later(p) => Later(p)')
  BY <1>1, <1>2 DEF Now, Later, Age, Turn
<1> QED
  BY <1>1, <1>3, <1>4, <1>5 DEF DInv, MemoryInv, Active

\* Without reports nothing depends on the ring.
LEMMA DTurnOff == ASSUME DInv, TurnOffXdamage PROVE MemoryInv' /\ TickInv'
<1>1. use_xdamage' = 0 /\ phase' = phase /\ row' = row
  BY DEF TurnOffXdamage, posVars
<1>2. ~Active'
  BY <1>1 DEF Active
<1> QED
  BY <1>1, <1>2 DEF DInv, MemoryInv, TickInv

\* Steps that copy: what is not copied keeps what remembers it.
LEMMA Copied ==
  ASSUME DInv, UNCHANGED <<screen, use_xdamage, xdamage, queue, xdamage_regions,
                           xdamage_ticker, scan_count>>,
         phase \notin {"idle", "begin", "scan"},
         \A p \in Pixel : main_fb'[p] = screen[p] \/ main_fb'[p] = main_fb[p],
         \A p \in Pixel : ToCopy(p) => ToCopy(p)' \/ main_fb'[p] = screen[p]
  PROVE  MemoryInv'
<1>1. ASSUME NEW p \in Pixel
      PROVE  ~Now(p) /\ (Later(p) => Later(p)')
  BY DEF Now, Later, Age, Turn
<1> QED
  BY <1>1 DEF DInv, MemoryInv, Active

\* copy_screen copies the rows of tiles one after the other.
LEMMA DScreen == ASSUME DInv, CopyScreenBlock \/ EndCopyScreen PROVE MemoryInv' /\ TickInv'
<1>1. /\ UNCHANGED <<screen, use_xdamage, xdamage, queue, xdamage_regions, xdamage_ticker,
                     scan_count>>
      /\ phase = "copy_screen" /\ phase' \in {"copy_screen", "idle"}
      /\ phase' = "idle" => row' = 0
  BY DEF CopyScreenBlock, EndCopyScreen, Scanned, EndScan, dispVars, damVars
<1>2. TickInv'
  BY <1>1 DEF DInv, TickInv, Active
<1>3. CASE CopyScreenBlock
  <2>1. \A p \in Pixel : main_fb'[p] = IF p[1][2] = row THEN screen[p] ELSE main_fb[p]
    BY <1>3 DEF CopyScreenBlock
  <2>2. \A p \in Pixel : row <= p[1][2] /\ p[1][2] # row => row + 1 <= p[1][2]
    BY PixelParts, TileParts DEF DInv, IInv, PlaceOK
  <2>3. \A p \in Pixel : ToCopy(p) => ToCopy(p)' \/ main_fb'[p] = screen[p]
    BY <1>1, <1>3, <2>1, <2>2 DEF CopyScreenBlock, ToCopy
  <2> QED
    BY <1>1, <1>2, <2>1, <2>3, Copied
<1>4. CASE EndCopyScreen
  <2>1. main_fb' = main_fb /\ row = Rows
    BY <1>4 DEF EndCopyScreen, Scanned
  <2>2. \A p \in Pixel : ~ToCopy(p)
    BY <1>1, <2>1, PixelParts, TileParts, PollingAssumption DEF ToCopy
  <2> QED
    BY <1>1, <1>2, <2>1, <2>2, Copied
<1> QED
  BY <1>3, <1>4

\* A run of tiles that differ is copied in one piece.
LEMMA DRun == ASSUME DInv, CopyRun PROVE MemoryInv' /\ TickInv'
<1>1. /\ UNCHANGED <<screen, use_xdamage, xdamage, queue, xdamage_regions, xdamage_ticker,
                     scan_count>>
      /\ phase = "runs" /\ phase' = "runs"
  BY DEF CopyRun, dispVars, damVars
<1>2. TickInv'
  BY <1>1 DEF DInv, TickInv, Active
<1>3. PICK t \in tile_has_diff, u \in tile_has_diff, guessed \in SUBSET Tile :
        /\ t[2] = u[2] /\ t[1] <= u[1]
        /\ \A v \in tile_has_diff : Ahead(v) => t[2] < v[2] \/ (t[2] = v[2] /\ t[1] <= v[1])
        /\ CopyTiles(Between(t, u), guessed)
        /\ row' = u[2] /\ col' = u[1] + 1
  BY DEF CopyRun
<1>4. t \in Tile /\ u \in Tile
  BY DEF DInv, IInv, TilesOK
<1> HIDE DEF DInv
<1>5. \A p \in Pixel : main_fb'[p] = IF p[1] \in Between(t, u) THEN screen[p] ELSE main_fb[p]
  BY <1>3 DEF CopyTiles
<1>6. ASSUME NEW p \in Pixel, ToCopy(p), p[1] \notin Between(t, u)
      PROVE  ToCopy(p)'
  <2>1. p[1] \in tile_has_diff /\ Ahead(p[1])
    BY <1>1, <1>6 DEF ToCopy
  <2>2. p[1] \in tile_has_diff'
    BY <1>3, <1>6, <2>1 DEF CopyTiles
  <2>3. /\ p[1] = <<p[1][1], p[1][2]>> /\ p[1][1] \in Int /\ p[1][2] \in Int
        /\ t[1] \in Int /\ t[2] \in Int /\ u[1] \in Int /\ u[2] \in Int
    BY <1>4, PixelParts, TileParts
  <2>4. t[2] < p[1][2] \/ (t[2] = p[1][2] /\ t[1] <= p[1][1])
    BY <1>3, <2>1
  <2>5. t[2] = p[1][2] => u[1] + 1 <= p[1][1]
    <3>1. t[2] = p[1][2] => p[1][1] \notin t[1] .. u[1]
      BY <1>6, <2>3 DEF Between
    <3> QED
      BY <2>3, <2>4, <3>1
  <2>6. Ahead(p[1])'
    BY <1>3, <2>3, <2>4, <2>5 DEF Ahead
  <2> QED
    BY <1>1, <2>2, <2>6 DEF ToCopy
<1> QED
  BY <1>1, <1>2, <1>5, <1>6, Copied

\* A tile that is tried because of its neighbours is copied if it differs.
LEMMA DTile ==
  ASSUME DInv, NEW t \in Tile, TryBackward(t) \/ TryToFill(t) \/ CopyAdditional(t)
  PROVE  MemoryInv' /\ TickInv'
<1>1. CopyOne(t) /\ phase \in {"backward", "grow", "late"}
  BY DEF TryBackward, TryToFill, TryTile, CopyAdditional, Scanned
<1>2. /\ UNCHANGED <<screen, use_xdamage, xdamage, queue, xdamage_regions, xdamage_ticker,
                     scan_count, phase, row, col>>
      /\ CopyTiles({t}, {})
  BY <1>1 DEF CopyOne, dispVars, damVars, posVars
<1>3. TickInv'
  BY <1>1, <1>2 DEF DInv, TickInv, Active
<1>4. \A p \in Pixel : main_fb'[p] = screen[p] \/ main_fb'[p] = main_fb[p]
  BY <1>2 DEF CopyTiles
<1>5. \A p \in Pixel : ~ToCopy(p)
  BY <1>1 DEF ToCopy
<1> QED
  BY <1>1, <1>2, <1>3, <1>4, <1>5, Copied

\* The last step of a scan forgets the tiles, which are all copied.
LEMMA DHint == ASSUME DInv, HintUpdates PROVE MemoryInv' /\ TickInv'
<1>1. /\ UNCHANGED <<screen, main_fb, use_xdamage, xdamage, queue, xdamage_regions,
                     xdamage_ticker, scan_count>>
      /\ phase = "grow" /\ phase' = "idle" /\ row' = 0
  BY DEF HintUpdates, EndScan, dispVars, damVars
<1>2. TickInv'
  BY <1>1 DEF TickInv
<1>3. \A p \in Pixel : ~ToCopy(p)
  BY <1>1 DEF ToCopy
<1> QED
  BY <1>1, <1>2, <1>3, Copied

\* A ring with more than NSCAN + 1 slots remembers what the framebuffer lacks:
\* the slot of a report is emptied only after the scan that reads its line.
THEOREM DamageIsRemembered ==
  ASSUME NSCAN + 1 < NReg PROVE Spec => []DamageRemembered
<1>1. Init => MemoryInv /\ TickInv
  BY DInit DEF DInv
<1>2. IInv /\ MemoryInv /\ TickInv /\ [Next]_vars => MemoryInv' /\ TickInv'
  <2> SUFFICES ASSUME DInv, [Next]_vars PROVE MemoryInv' /\ TickInv'
    BY DEF DInv
  <2>1. CASE UNCHANGED vars
    <3>1. UNCHANGED <<screen, main_fb, use_xdamage, xdamage, queue, xdamage_regions, xdamage_ticker,
                      scan_count, tile_has_diff, phase, row, col>>
      BY <2>1 DEF vars, picVars, dispVars, damVars, tileVars, posVars
    <3> QED
      BY <3>1 DEF DInv, MemoryInv, TickInv, Active, Later, Age, Turn, Now, ToCopy, Ahead
  <2>2. CASE \E d \in Drawings : Draw(d[1], d[2])
    BY <2>2, DDraw
  <2>3. CASE Connect \/ Disconnect \/ DropDamage \/ CrazyEnds
    BY <2>3, DOthers
  <2>4. CASE Poll
    <3>1. CASE CheckXdamageState \/ BeginScan
      BY <3>1, DCheck, DBegin
    <3>2. CASE ScanLine \/ CollectAgain
      BY <3>2, DScanLine, DCollect
    <3>3. CASE CheckScan \/ Rescan \/ BeginCopyScreen \/ BeginRuns \/ EndRuns \/ LateRescan
                 \/ EndPasses
      BY <3>3, DPhase
    <3>4. CASE TurnOffXdamage \/ CopyScreenBlock \/ EndCopyScreen \/ CopyRun
      BY <3>4, DTurnOff, DScreen, DRun
    <3>5. CASE HintUpdates \/ \E t \in Tile : TryBackward(t) \/ TryToFill(t) \/ CopyAdditional(t)
      BY <3>5, DHint, DTile
    <3> QED
      BY <2>4, <3>1, <3>2, <3>3, <3>4, <3>5 DEF Poll
  <2> QED
    BY <2>1, <2>2, <2>3, <2>4 DEF Next
<1>3. IInv /\ MemoryInv => DamageRemembered
  BY DEF MemoryInv, DamageRemembered, Active, Later, Now, ToCopy
<1> QED
  BY <1>1, <1>2, <1>3, PollingInvariance, PTL DEF Spec
=============================================================================
