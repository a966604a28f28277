------------------------------- MODULE Keyboard -------------------------------
(***************************************************************************)
(* Keys from viewers to the X display under -modtweak and -add_keysyms, the *)
(* defaults (keyboard.c; check_xevents of xevents.c).  A viewer sends       *)
(* keysyms; x11vnc looks for a key that has the keysym, puts Shift and AltGr *)
(* for a moment into the position in which the key types it, and borrows an *)
(* unused key for a keysym that no key has.                                 *)
(*                                                                         *)
(* x11vnc changes the keyboard mapping of the X server, but looks keys up in *)
(* Xlib's copy of it and in tables of its own, which follow when the        *)
(* MappingNotify event has been read.  Without -threads a key event is      *)
(* handled in one go.                                                       *)
(***************************************************************************)
EXTENDS Integers, FiniteSets

CONSTANTS
  Viewers,
  Keysym, NoSymbol,
  Latin,            \* keysyms of printable Latin-1 characters
  Keycode,
  Layout,           \* the mapping of the X server without x11vnc: a row of
                    \* four keysyms for each keycode, in which a letter that
                    \* is alone in its pair is written out in both cases
  DeleteAt,         \* 8: number of borrowed keys that are worth returning
  MaxHeld           \* bound: keys that viewers hold at a time

NoCode == 0
Column == 0 .. 3
Shifts == {"Shift_L", "Shift_R"}
Mods   == Shifts \cup {"Mode_switch"}

Mapping == [Keycode -> [Column -> Keysym \cup {NoSymbol}]]

ASSUME KeyboardAssumption ==
  /\ Keycode \subseteq Nat \ {NoCode}
  /\ Mods \subseteq Keysym /\ NoSymbol \notin Keysym
  /\ Latin \subseteq Keysym \ Mods
  /\ Layout \in Mapping
  /\ DeleteAt \in Nat \ {0} /\ MaxHeld \in Nat \ {0}

\* Each modifier has a key, and such a key has nothing else.
ASSUME ModifierKeys ==
  /\ \A m \in Mods : \E k \in Keycode : Layout[k][0] = m
  /\ \A k \in Keycode, i, j \in Column :
       Layout[k][i] \in Mods => Layout[k][j] \in {Layout[k][i], NoSymbol}

VARIABLES
  xmap,             \* the mapping of the X server
  down,             \* keys that are down there
  typed,            \* what x11vnc's last step made X clients get
  cached,           \* Xlib's copy of the mapping
  notices,          \* a MappingNotify waits
  keycodes, modifiers,      \* tables for Latin keysyms: key and column
  added_keysyms,    \* of each borrowed key
  mod_state,        \* modifiers that viewers hold
  allowed,          \* viewers that may type (get_allowed_input)
  held,             \* keysyms that each viewer has pressed, as far as x11vnc read
  lost              \* auxiliary: keys whose release never comes

xVars      == <<xmap, down>>
tableVars  == <<cached, notices, keycodes, modifiers>>
viewerVars == <<allowed, held>>
vars == <<xVars, typed, tableVars, added_keysyms, mod_state, viewerVars, lost>>

-----------------------------------------------------------------------------
\* The key that XKeysymToKeycode finds: first by column, then by keycode.
Having(map, c, s) == {k \in Keycode : map[k][c] = s}
Least(S) == CHOOSE k \in S : \A l \in S : k <= l
KeycodeOf(map, s) ==
  LET columns == {c \in Column : Having(map, c, s) # {}}
  IN  IF columns = {} THEN NoCode ELSE Least(Having(map, Least(columns), s))

left_shift_code == KeycodeOf(Layout, "Shift_L")
altgr_code      == KeycodeOf(Layout, "Mode_switch")
Code(m)         == KeycodeOf(Layout, m)

\* initialize_modtweak: the last of the columns in which the key of s has s.
ColumnOf(map, s) ==
  LET columns == {c \in Column : KeycodeOf(map, s) # NoCode /\ map[KeycodeOf(map, s)][c] = s}
  IN  IF columns = {} THEN -1 ELSE CHOOSE c \in columns : \A d \in columns : d <= c

\* What the X server types for a key: the second pair of columns with AltGr if
\* there is something in it, the second of a pair with Shift.
Typed(map, k, keys) ==
  LET row   == map[k]
      first == IF Code("Mode_switch") \in keys /\ (row[2] # NoSymbol \/ row[3] # NoSymbol)
               THEN 2 ELSE 0
      shift == \E m \in Shifts : Code(m) \in keys
  IN  IF shift /\ row[first + 1] # NoSymbol THEN row[first + 1] ELSE row[first]

Unused(map, k) == \A c \in Column : map[k][c] = NoSymbol
Fresh == \A k \in Keycode : Unused(cached, k) \/ cached[k] = xmap[k]

Init ==
  /\ xmap = Layout /\ down = {} /\ typed = NoSymbol
  /\ cached = Layout /\ notices = FALSE
  /\ keycodes = [s \in Latin |-> KeycodeOf(Layout, s)]
  /\ modifiers = [s \in Latin |-> ColumnOf(Layout, s)]
  /\ added_keysyms = [k \in Keycode |-> NoSymbol]
  /\ mod_state = {}
  /\ allowed = Viewers /\ held = [v \in Viewers |-> {}]
  /\ lost = {}

-----------------------------------------------------------------------------
(***************************************************************************)
(* One key event.                                                          *)
(***************************************************************************)
\* Mutant of Lifted: AltGr is left as it is.
LiftedShifts(mod, state) ==
  {Code(m) : m \in {n \in state \cap Shifts : mod # 1}}

\* Mutant of Pressed: Shift_L whether a Shift key is held or not.
PressedAlways(mod, state) ==
  (IF mod = 1 THEN {left_shift_code} ELSE {}) \cup
  (IF mod = 2 /\ "Mode_switch" \notin state THEN {altgr_code} ELSE {})

\* Keys that are to be up while a key is struck in column mod, and those that
\* are to be down, both against what the viewers hold.
Lifted(mod, state) ==
  {Code(m) : m \in {n \in state : IF n \in Shifts THEN mod # 1 ELSE mod # 2}}
Pressed(mod, state) ==
  (IF mod = 1 /\ state \cap Shifts = {} THEN {left_shift_code} ELSE {}) \cup
  (IF mod = 2 /\ "Mode_switch" \notin state THEN {altgr_code} ELSE {})

tweak_mod(mod, dn, state, keys) ==
  IF mod = -1 THEN keys
  ELSE IF dn THEN (keys \ Lifted(mod, state)) \cup Pressed(mod, state)
             ELSE (keys \cup Lifted(mod, state)) \ Pressed(mod, state)

\* Mutant of Borrowed: the "race before MappingNotify" is not seen.
BorrowedUnseen(s) == {}

\* The key that add_keysym finds or borrows for s; the first key is not used.
Borrowed(s) == {k \in Keycode : added_keysyms[k] = s}
Free == {k \in Keycode : Unused(xmap, k) /\ \E l \in Keycode : l < k}
AddedCode(s) ==
  IF Borrowed(s) # {} THEN Least(Borrowed(s))
  ELSE IF Free # {} THEN Least(Free) ELSE NoCode

add_keysym(s) ==
  IF Borrowed(s) # {} \/ Free = {}
    THEN UNCHANGED <<xmap, added_keysyms, notices>>
    ELSE /\ xmap' = [xmap EXCEPT ![AddedCode(s)] = [c \in Column |-> s]]
         /\ added_keysyms' = [added_keysyms EXCEPT ![AddedCode(s)] = s]
         /\ notices' = TRUE

\* The key that an event for s goes to.
Found(dn, s) == IF dn /\ s \in Latin THEN keycodes[s] ELSE KeycodeOf(cached, s)
Missing(dn, s) == Found(dn, s) = NoCode /\ s \notin Mods
KeyFor(dn, s) == IF Missing(dn, s) THEN AddedCode(s) ELSE Found(dn, s)

\* Mutant of ADJUSTMOD: for every keysym.
ADJUSTMODAny(dn, s) == IF dn THEN mod_state \cup {s} ELSE mod_state \ {s}

ADJUSTMOD(dn, s) == IF dn THEN mod_state \cup ({s} \cap Mods) ELSE mod_state \ {s}

modifier_tweak_keyboard(dn, s) ==
  LET state  == ADJUSTMOD(dn, s)
      mod    == IF dn /\ s \in Latin THEN modifiers[s] ELSE -1
      key    == {KeyFor(dn, s)} \ {NoCode}
      ready  == tweak_mod(mod, TRUE, state, down)
      struck == IF dn THEN ready \cup key ELSE ready \ key
  IN  /\ mod_state' = state
      /\ IF Missing(dn, s) THEN add_keysym(s) ELSE UNCHANGED <<xmap, added_keysyms, notices>>
      /\ down' = tweak_mod(mod, FALSE, state, struck)
      /\ typed' = IF dn /\ key # {} THEN Typed(xmap', KeyFor(dn, s), ready) ELSE NoSymbol

\* A viewer presses a key, again and again if it repeats.  A key may be struck
\* that has lost the keysym it is remembered for.
KeyDown(v, s) ==
  /\ held' = [held EXCEPT ![v] = @ \cup {s}]
  /\ Cardinality({e \in Viewers \X Keysym : e[2] \in held'[e[1]]}) <= MaxHeld
  /\ IF v \in allowed
       THEN /\ modifier_tweak_keyboard(TRUE, s)
            /\ lost' = IF Fresh THEN lost ELSE lost \cup ({KeyFor(TRUE, s)} \cap down')
       ELSE UNCHANGED <<xVars, notices, added_keysyms, mod_state, lost>> /\ typed' = NoSymbol
  /\ UNCHANGED <<cached, keycodes, modifiers, allowed>>

\* Keys that events for the keysyms would release.
KeysOf(S) == {KeyFor(FALSE, s) : s \in S}

KeyUp(v, s) ==
  /\ s \in held[v]
  /\ held' = [held EXCEPT ![v] = @ \ {s}]
  /\ IF v \in allowed
       THEN /\ modifier_tweak_keyboard(FALSE, s)
            /\ lost' = lost \cap down'
       ELSE /\ lost' = lost \cup (KeysOf({s}) \cap down)
            /\ typed' = NoSymbol /\ UNCHANGED <<xVars, notices, added_keysyms, mod_state>>
  /\ UNCHANGED <<cached, keycodes, modifiers, allowed>>

-----------------------------------------------------------------------------
\* A viewer is gone and another one takes its place.  Nobody releases what it
\* held.
Gone(v) ==
  /\ held[v] # {}
  /\ lost' = lost \cup (KeysOf(held[v]) \cap down)
  /\ held' = [held EXCEPT ![v] = {}]
  /\ typed' = NoSymbol /\ UNCHANGED <<xVars, tableVars, added_keysyms, mod_state, allowed>>

\* The remote control changes who may type.
SetInput(v) ==
  /\ allowed' = IF v \in allowed THEN allowed \ {v} ELSE allowed \cup {v}
  /\ typed' = NoSymbol /\ UNCHANGED <<xVars, tableVars, added_keysyms, mod_state, held, lost>>

\* Every five minutes, unless somebody has typed in the last five seconds.
check_add_keysyms ==
  LET borrowed == {k \in Keycode : added_keysyms[k] # NoSymbol}
  IN  /\ Cardinality(borrowed) >= DeleteAt
      /\ xmap' = [k \in Keycode |-> IF k \in borrowed THEN [c \in Column |-> NoSymbol]
                                    ELSE xmap[k]]
      /\ added_keysyms' = [k \in Keycode |-> NoSymbol]
      /\ notices' = TRUE
      /\ lost' = lost \cup (borrowed \cap down)
      /\ typed' = NoSymbol /\ UNCHANGED <<down, cached, keycodes, modifiers, mod_state, viewerVars>>

\* check_xevents, once a second: XRefreshKeyboardMapping and initialize_modtweak.
MappingNotify ==
  /\ notices
  /\ notices' = FALSE
  /\ cached' = xmap
  /\ keycodes' = [s \in Latin |-> KeycodeOf(xmap, s)]
  /\ modifiers' = [s \in Latin |-> ColumnOf(xmap, s)]
  /\ typed' = NoSymbol /\ UNCHANGED <<xVars, added_keysyms, mod_state, viewerVars, lost>>

Next ==
  \/ \E v \in Viewers : \E s \in Keysym : KeyDown(v, s) \/ KeyUp(v, s)
  \/ \E v \in Viewers : Gone(v) \/ SetInput(v)
  \/ check_add_keysyms
  \/ MappingNotify

Spec == Init /\ [][Next]_vars

(***************************************************************************)
(* Properties.                                                             *)
(***************************************************************************)
TypeOK ==
  /\ xmap \in Mapping /\ cached \in Mapping /\ notices \in BOOLEAN
  /\ down \subseteq Keycode /\ lost \subseteq Keycode
  /\ typed \in Keysym \cup {NoSymbol}
  /\ keycodes \in [Latin -> Keycode \cup {NoCode}]
  /\ modifiers \in [Latin -> Column \cup {-1}]
  /\ added_keysyms \in [Keycode -> Keysym \cup {NoSymbol}]
  /\ mod_state \subseteq Mods /\ allowed \subseteq Viewers
  /\ held \in [Viewers -> SUBSET Keysym]

\* x11vnc's idea of the modifiers agrees with the X display, however the
\* tweaks for the characters of several viewers move the same keys.
ModifiersAgree == \A m \in Mods : m \in mod_state <=> Code(m) \in down

\* A Latin character that a viewer types is the one that X clients get, if there
\* is a key for it that needs no more than one modifier, and no borrowed key has
\* been returned unnoticed.  Not looked at are the columns that take two
\* modifiers and, with them, characters on borrowed keys that the tables know:
\* such a key has its keysym in every column, and the tables take the last.
TypedIsSent ==
  [][\A v \in allowed, s \in Latin :
       KeyDown(v, s) /\ Fresh /\ modifiers[s] < 3 /\ KeyFor(TRUE, s) # NoCode
         => typed' = s]_vars

\* Of every key that is down, some viewer holds a keysym whose release will
\* find that same key: through the mapping, or through the list of borrowed keys
\* until the mapping is read.
KeysAccounted ==
  down \ lost \subseteq KeysOf(UNION {held[v] : v \in Viewers})
=============================================================================
