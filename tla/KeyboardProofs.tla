---------------------------- MODULE KeyboardProofs ----------------------------
(***************************************************************************)
(* Proofs about Keyboard, for any keyboard on which the three modifiers have *)
(* keys of their own, any number of viewers and any keysyms.               *)
(***************************************************************************)
EXTENDS Keyboard, FiniteSetTheorems, WellFoundedInduction, TLAPS

-----------------------------------------------------------------------------
(***************************************************************************)
(* Looking keys up.                                                        *)
(***************************************************************************)
\* A set of naturals that is not empty has a least member.
LEMMA LeastExists ==
  ASSUME NEW T, T \subseteq Nat, T # {}
  PROVE  Least(T) \in T /\ \A l \in T : Least(T) <= l
<1>1. IsWellFoundedOn(OpToRel(<, Nat), Nat)
  BY NatLessThanWellFounded
<1>2. PICK x \in T : \A y \in T : ~ (<<y, x>> \in OpToRel(<, Nat))
  BY <1>1, WFMin
<1>3. \A y \in T : ~ (y < x)
  BY <1>2 DEF OpToRel
<1>4. \A y \in T : x <= y
  BY <1>3
<1> QED BY <1>4 DEF Least

\* KeycodeOf (XKeysymToKeycode) finds a key that has the keysym in some column.
LEMMA KeycodeFound ==
  ASSUME NEW map \in Mapping, NEW s,
         NEW k \in Keycode, NEW c \in Column, map[k][c] = s
  PROVE  /\ KeycodeOf(map, s) \in Keycode
         /\ \E d \in Column : map[KeycodeOf(map, s)][d] = s
<1> DEFINE columns == {d \in Column : Having(map, d, s) # {}}
<1>1. k \in Having(map, c, s)
  BY DEF Having
<1>2. columns # {} /\ columns \subseteq Nat
  BY <1>1 DEF Column
<1>3. Least(columns) \in columns
  BY <1>2, LeastExists
<1>4. /\ Having(map, Least(columns), s) # {}
      /\ Having(map, Least(columns), s) \subseteq Nat
  BY <1>3, KeyboardAssumption DEF Having
<1>5. Least(Having(map, Least(columns), s)) \in Having(map, Least(columns), s)
  BY <1>4, LeastExists
<1>6. KeycodeOf(map, s) = Least(Having(map, Least(columns), s))
  BY <1>2 DEF KeycodeOf
<1> QED BY <1>3, <1>5, <1>6 DEF Having

\* It finds none exactly if no key has the keysym.
LEMMA KeycodeNone ==
  ASSUME NEW map \in Mapping, NEW s,
         \A k \in Keycode, c \in Column : map[k][c] # s
  PROVE  KeycodeOf(map, s) = NoCode
BY DEF KeycodeOf, Having

\* XKeysymToKeycode finds a key that has the keysym, or none.
LEMMA KeycodeType ==
  ASSUME NEW map \in Mapping, NEW s
  PROVE  /\ KeycodeOf(map, s) \in Keycode \cup {NoCode}
         /\ KeycodeOf(map, s) # NoCode =>
              \E c \in Column : map[KeycodeOf(map, s)][c] = s
BY KeycodeFound, KeycodeNone

\* What it finds depends on where the keysym is and on nothing else.
LEMMA KeycodeSame ==
  ASSUME NEW map \in Mapping, NEW map2 \in Mapping, NEW s,
         \A k \in Keycode, c \in Column : map[k][c] = s <=> map2[k][c] = s
  PROVE  KeycodeOf(map, s) = KeycodeOf(map2, s)
<1>1. \A c \in Column : Having(map, c, s) = Having(map2, c, s)
  BY DEF Having
<1>2. {c \in Column : Having(map, c, s) # {}} = {c \in Column : Having(map2, c, s) # {}}
  BY <1>1
<1>3. ASSUME {c \in Column : Having(map, c, s) # {}} # {}
      PROVE  Least({c \in Column : Having(map, c, s) # {}}) \in Column
  <2>1. {c \in Column : Having(map, c, s) # {}} \subseteq Nat
    BY DEF Column
  <2> QED BY <1>3, <2>1, LeastExists
<1> QED BY <1>1, <1>2, <1>3 DEF KeycodeOf

\* The column that initialize_modtweak remembers is one in which the key of the
\* keysym has it.
LEMMA ColumnFound ==
  ASSUME NEW map \in Mapping, NEW s
  PROVE  /\ ColumnOf(map, s) \in Column \cup {-1}
         /\ KeycodeOf(map, s) = NoCode <=> ColumnOf(map, s) = -1
         /\ KeycodeOf(map, s) # NoCode => map[KeycodeOf(map, s)][ColumnOf(map, s)] = s
<1> DEFINE columns == {c \in Column : KeycodeOf(map, s) # NoCode
                                      /\ map[KeycodeOf(map, s)][c] = s}
<1>1. CASE KeycodeOf(map, s) = NoCode
  BY <1>1 DEF ColumnOf
<1>2. CASE KeycodeOf(map, s) # NoCode
  <2>1. columns # {} /\ columns \subseteq Column
    BY <1>2, KeycodeType
  <2>2. \E c \in columns : \A d \in columns : d <= c
    <3>1. CASE 3 \in columns BY <3>1, <2>1 DEF Column
    <3>2. CASE 3 \notin columns /\ 2 \in columns BY <3>2, <2>1 DEF Column
    <3>3. CASE 3 \notin columns /\ 2 \notin columns /\ 1 \in columns
      BY <3>3, <2>1 DEF Column
    <3>4. CASE 3 \notin columns /\ 2 \notin columns /\ 1 \notin columns
      BY <3>4, <2>1 DEF Column
    <3> QED BY <3>1, <3>2, <3>3, <3>4
  <2>3. ColumnOf(map, s) = CHOOSE c \in columns : \A d \in columns : d <= c
    BY <2>1 DEF ColumnOf
  <2>4. ColumnOf(map, s) \in columns
    BY <2>2, <2>3
  <2> QED BY <1>2, <2>4 DEF Column
<1> QED BY <1>1, <1>2

-----------------------------------------------------------------------------
(***************************************************************************)
(* The inductive invariant.                                                *)
(***************************************************************************)
InLayout(s) == \E k \in Keycode, c \in Column : Layout[k][c] = s
Whole(s) == [c \in Column |-> s]

\* The server's mapping: the layout, and each borrowed key with the keysym that
\* it was borrowed for, which the layout lacks.
MapInv ==
  /\ \A k \in Keycode : added_keysyms[k] = NoSymbol => xmap[k] = Layout[k]
  /\ \A k \in Keycode : added_keysyms[k] # NoSymbol =>
       /\ Unused(Layout, k) /\ xmap[k] = Whole(added_keysyms[k])
       /\ ~InLayout(added_keysyms[k])
  /\ \A k, l \in Keycode :
       added_keysyms[k] # NoSymbol /\ added_keysyms[k] = added_keysyms[l] => k = l

\* Xlib's copy: the layout, and keys borrowed now or before; and the tables made
\* from it.
TableInv ==
  /\ \A k \in Keycode :
       \/ cached[k] = Layout[k]
       \/ Unused(Layout, k) /\ \E s \in Keysym : ~InLayout(s) /\ cached[k] = Whole(s)
  /\ keycodes = [s \in Latin |-> KeycodeOf(cached, s)]
  /\ modifiers = [s \in Latin |-> ColumnOf(cached, s)]

\* Some viewer holds a keysym that has the key k in the server's mapping, and its
\* release goes there.
Held(k) ==
  \E v \in Viewers : \E s \in held[v] : KeyFor(FALSE, s) = k /\ KeycodeOf(xmap, s) = k

HeldInv == \A k \in down \ lost : Held(k)

IInv == TypeOK /\ MapInv /\ TableInv /\ ModifiersAgree /\ HeldInv

-----------------------------------------------------------------------------
(***************************************************************************)
(* Lemmas about the mappings.                                              *)
(***************************************************************************)
\* NoCode is no key.
LEMMA NoCodeNoKey == NoCode \notin Keycode
BY KeyboardAssumption

\* A borrowed key has its keysym in every column.
LEMMA WholeRow ==
  ASSUME NEW s
  PROVE  \A c \in Column : Whole(s)[c] = s
BY DEF Whole

\* A keysym of the layout is in the copies of the mapping exactly where the
\* layout has it.
LEMMA LayoutKept ==
  ASSUME MapInv, TableInv, NEW s \in Keysym, InLayout(s)
  PROVE  \A k \in Keycode, c \in Column :
           /\ xmap[k][c] = s <=> Layout[k][c] = s
           /\ cached[k][c] = s <=> Layout[k][c] = s
<1> SUFFICES ASSUME NEW k \in Keycode, NEW c \in Column
             PROVE  /\ xmap[k][c] = s <=> Layout[k][c] = s
                    /\ cached[k][c] = s <=> Layout[k][c] = s
  OBVIOUS
<1>1. s # NoSymbol
  BY KeyboardAssumption
<1>2. xmap[k][c] = s <=> Layout[k][c] = s
  <2>1. CASE added_keysyms[k] = NoSymbol
    BY <2>1 DEF MapInv
  <2>2. CASE added_keysyms[k] # NoSymbol
    BY <1>1, <2>2, WholeRow DEF MapInv, Unused
  <2> QED BY <2>1, <2>2
<1>3. cached[k][c] = s <=> Layout[k][c] = s
  <2>1. CASE cached[k] = Layout[k]
    BY <2>1
  <2>2. CASE Unused(Layout, k) /\ \E t \in Keysym : ~InLayout(t) /\ cached[k] = Whole(t)
    BY <1>1, <2>2, WholeRow DEF Unused
  <2> QED BY <2>1, <2>2 DEF TableInv
<1> QED BY <1>2, <1>3

\* A keysym of the layout is found at the same key in the server's mapping and
\* in x11vnc's copy.
LEMMA LayoutCodes ==
  ASSUME TypeOK, MapInv, TableInv, NEW s \in Keysym, InLayout(s)
  PROVE  /\ KeycodeOf(xmap, s) = KeycodeOf(Layout, s)
         /\ KeycodeOf(cached, s) = KeycodeOf(Layout, s)
         /\ KeycodeOf(Layout, s) \in Keycode
<1>1. xmap \in Mapping /\ cached \in Mapping /\ Layout \in Mapping
  BY KeyboardAssumption DEF TypeOK
<1>2. KeycodeOf(xmap, s) = KeycodeOf(Layout, s)
  BY <1>1, LayoutKept, KeycodeSame
<1>3. KeycodeOf(cached, s) = KeycodeOf(Layout, s)
  BY <1>1, LayoutKept, KeycodeSame
<1> QED BY <1>1, <1>2, <1>3, KeycodeFound DEF InLayout

\* A borrowed key is the only one for its keysym, and add_keysym finds it.
LEMMA BorrowedCode ==
  ASSUME TypeOK, MapInv, NEW s \in Keysym,
         NEW k \in Keycode, added_keysyms[k] = s
  PROVE  /\ KeycodeOf(xmap, s) = k
         /\ Borrowed(s) = {k}
         /\ AddedCode(s) = k
<1>1. s # NoSymbol /\ xmap \in Mapping
  BY KeyboardAssumption DEF TypeOK
<1>2. \A l \in Keycode, c \in Column : xmap[l][c] = s => l = k
  <2> SUFFICES ASSUME NEW l \in Keycode, NEW c \in Column, xmap[l][c] = s
               PROVE  l = k
    OBVIOUS
  <2>1. added_keysyms[l] # NoSymbol
    BY <1>1 DEF MapInv, InLayout
  <2>2. added_keysyms[l] = s
    BY <2>1, WholeRow DEF MapInv
  <2> QED BY <2>1, <2>2 DEF MapInv
<1>3. xmap[k][0] = s /\ 0 \in Column
  BY <1>1, WholeRow DEF MapInv, Column
<1>4. KeycodeOf(xmap, s) = k
  BY <1>1, <1>2, <1>3, KeycodeFound
<1>5. Borrowed(s) = {k}
  BY <1>1 DEF Borrowed, MapInv
<1>6. Borrowed(s) \subseteq Nat
  BY <1>5, KeyboardAssumption
<1>7. Least(Borrowed(s)) = k
  BY <1>5, <1>6, LeastExists
<1> QED BY <1>4, <1>5, <1>7 DEF AddedCode

\* A key that add_keysym may take has neither been borrowed nor anything on it.
LEMMA FreeKey ==
  ASSUME MapInv, NEW k \in Keycode, Unused(xmap, k)
  PROVE  added_keysyms[k] \in Keysym \cup {NoSymbol}
           => added_keysyms[k] = NoSymbol /\ Unused(Layout, k)
<1> SUFFICES ASSUME added_keysyms[k] \in Keysym \cup {NoSymbol}
             PROVE  added_keysyms[k] = NoSymbol /\ Unused(Layout, k)
  OBVIOUS
<1>1. 0 \in Column
  BY DEF Column
<1>2. added_keysyms[k] = NoSymbol
  BY <1>1, WholeRow DEF MapInv, Unused
<1> QED BY <1>2 DEF MapInv, Unused

\* add_keysym borrows a key that has no keysym.
LEMMA FreeCode ==
  ASSUME NEW s, Borrowed(s) = {}, Free # {}
  PROVE  AddedCode(s) \in Free /\ AddedCode(s) \in Keycode /\ Unused(xmap, AddedCode(s))
<1>1. Free \subseteq Nat
  BY KeyboardAssumption DEF Free
<1>2. Least(Free) \in Free
  BY <1>1, LeastExists
<1>3. AddedCode(s) = Least(Free)
  BY DEF AddedCode
<1> QED BY <1>2, <1>3 DEF Free

\* A keysym that is looked for in vain is not in the layout.
LEMMA MissingNotInLayout ==
  ASSUME TypeOK, MapInv, TableInv, NEW s \in Keysym, NEW dn, Found(dn, s) = NoCode
  PROVE  ~InLayout(s) /\ KeycodeOf(cached, s) = NoCode
<1>1. KeycodeOf(cached, s) = NoCode
  BY DEF Found, TableInv
<1> QED BY <1>1, LayoutCodes, NoCodeNoKey

\* The table and the copy of the mapping give the same key.
LEMMA FoundSame ==
  ASSUME TableInv, NEW s, NEW dn
  PROVE  Found(dn, s) = KeycodeOf(cached, s)
BY DEF Found, TableInv

-----------------------------------------------------------------------------
(***************************************************************************)
(* Lemmas about one key event.                                             *)
(***************************************************************************)
ModKeys == {Code(m) : m \in Mods}

\* Every modifier has a key in the layout.
LEMMA ModsInLayout ==
  ASSUME NEW m \in Mods
  PROVE  m \in Keysym /\ m # NoSymbol /\ InLayout(m)
<1>1. 0 \in Column
  BY DEF Column
<1> QED BY <1>1, KeyboardAssumption, ModifierKeys DEF InLayout

\* The key of a modifier has nothing else, so that no two share one.
LEMMA ModKey ==
  ASSUME NEW m \in Mods
  PROVE  /\ Code(m) \in Keycode
         /\ \E c \in Column : Layout[Code(m)][c] = m
         /\ \A c \in Column : Layout[Code(m)][c] \in {m, NoSymbol}
<1>1. PICK k \in Keycode, c \in Column : Layout[k][c] = m
  BY ModsInLayout DEF InLayout
<1>2. /\ Code(m) \in Keycode
      /\ \E d \in Column : Layout[Code(m)][d] = m
  BY <1>1, KeyboardAssumption, KeycodeFound DEF Code
<1> QED BY <1>2, ModifierKeys

\* No two modifiers share a key.
LEMMA ModKeysDistinct ==
  ASSUME NEW m \in Mods, NEW n \in Mods, Code(m) = Code(n)
  PROVE  m = n
BY ModKey, ModsInLayout

\* Events for other keysyms never go to the key of a modifier.
LEMMA OtherKeys ==
  ASSUME TypeOK, MapInv, TableInv, NEW s \in Keysym \ Mods, NEW dn,
         KeyFor(dn, s) # NoCode
  PROVE  KeyFor(dn, s) \in Keycode \ ModKeys
<1>0. s # NoSymbol /\ cached \in Mapping
  BY KeyboardAssumption DEF TypeOK
<1>1. CASE Missing(dn, s)
  <2>1. KeyFor(dn, s) = AddedCode(s)
    BY <1>1 DEF KeyFor
  <2>2. CASE Borrowed(s) # {}
    <3>1. PICK k \in Keycode : added_keysyms[k] = s
      BY <2>2 DEF Borrowed
    <3>2. AddedCode(s) = k /\ Unused(Layout, k)
      BY <1>0, <3>1, BorrowedCode DEF MapInv
    <3> QED BY <2>1, <3>2, ModKey, ModsInLayout DEF ModKeys, Unused
  <2>3. CASE Borrowed(s) = {}
    <3>1. AddedCode(s) \in Keycode /\ Unused(xmap, AddedCode(s))
      BY <2>1, <2>3, FreeCode DEF AddedCode
    <3>2. Unused(Layout, AddedCode(s))
      BY <3>1, FreeKey DEF TypeOK
    <3> QED BY <2>1, <3>1, <3>2, ModKey, ModsInLayout DEF ModKeys, Unused
  <2> QED BY <2>2, <2>3
<1>2. CASE ~Missing(dn, s)
  <2>1. KeyFor(dn, s) = KeycodeOf(cached, s)
    BY <1>2, FoundSame DEF KeyFor
  <2>2. PICK c \in Column : cached[KeyFor(dn, s)][c] = s
    BY <1>0, <2>1, KeycodeType
  <2>3. KeyFor(dn, s) \in Keycode
    BY <1>0, <2>1, KeycodeType
  <2>4. KeyFor(dn, s) \notin ModKeys
    <3> SUFFICES ASSUME NEW m \in Mods, KeyFor(dn, s) = Code(m)
                 PROVE  FALSE
      BY DEF ModKeys
    <3>1. ~Unused(Layout, Code(m))
      BY ModKey, ModsInLayout DEF Unused
    <3>2. cached[Code(m)] = Layout[Code(m)]
      BY <3>1, ModKey DEF TableInv
    <3> QED BY <1>0, <2>2, <3>2, ModKey
  <2> QED BY <2>3, <2>4
<1> QED BY <1>1, <1>2

\* Events for a modifier go to its key.
LEMMA ModifierCode ==
  ASSUME TypeOK, MapInv, TableInv, NEW m \in Mods, NEW dn
  PROVE  KeyFor(dn, m) = Code(m) /\ ~Missing(dn, m) /\ m \notin Latin
<1>1. KeycodeOf(cached, m) = Code(m)
  BY ModsInLayout, LayoutCodes DEF Code
<1> QED BY <1>1, FoundSame, KeyboardAssumption DEF KeyFor, Missing

\* What a tweak releases is down, and what it presses is not.
LEMMA TweakKeys ==
  ASSUME TypeOK, ModifiersAgree, NEW mod
  PROVE  /\ Lifted(mod, mod_state) \subseteq down \cap ModKeys
         /\ Pressed(mod, mod_state) \subseteq ModKeys \ down
<1>1. Lifted(mod, mod_state) \subseteq down \cap ModKeys
  BY DEF Lifted, ModKeys, TypeOK, ModifiersAgree
<1>2. Pressed(mod, mod_state) \subseteq ModKeys \ down
  BY DEF Pressed, left_shift_code, altgr_code, Code, ModKeys, ModifiersAgree, Mods, Shifts
<1> QED BY <1>1, <1>2

\* The tweaks undo one another: apart from its own key an event leaves the
\* keyboard as it was.
LEMMA KeysAfter ==
  ASSUME TypeOK, MapInv, TableInv, ModifiersAgree,
         NEW s \in Keysym, NEW dn \in BOOLEAN, modifier_tweak_keyboard(dn, s)
  PROVE  down' = IF dn THEN down \cup ({KeyFor(dn, s)} \ {NoCode})
                       ELSE down \ ({KeyFor(dn, s)} \ {NoCode})
<1> DEFINE state == ADJUSTMOD(dn, s)
           mod   == IF dn /\ s \in Latin THEN modifiers[s] ELSE -1
           key   == {KeyFor(dn, s)} \ {NoCode}
           ready == tweak_mod(mod, TRUE, state, down)
           struck == IF dn THEN ready \cup key ELSE ready \ key
<1>1. down' = tweak_mod(mod, FALSE, state, struck)
  BY DEF modifier_tweak_keyboard
<1>2. CASE mod = -1
  BY <1>1, <1>2 DEF tweak_mod
<1>3. CASE mod # -1
  <2>1. dn /\ s \in Latin
    BY <1>3
  <2>2. s \notin Mods /\ state = mod_state
    BY <2>1, KeyboardAssumption DEF ADJUSTMOD
  <2>5. ready = (down \ Lifted(mod, mod_state)) \cup Pressed(mod, mod_state)
    BY <1>3, <2>2 DEF tweak_mod
  <2>6. down' = (struck \cup Lifted(mod, mod_state)) \ Pressed(mod, mod_state)
    BY <1>1, <1>3, <2>2 DEF tweak_mod
  <2>7. key \cap ModKeys = {}
    BY <2>2, OtherKeys
  <2>8. struck = ready \cup key
    BY <2>1
  <2> HIDE DEF key, ready, struck, mod, state
  <2>9. down' = down \cup key
    BY <2>5, <2>6, <2>7, <2>8, TweakKeys
  <2> QED BY <2>1, <2>9 DEF key
<1> QED BY <1>2, <1>3

\* An event of modifier_tweak_keyboard leaves mod_state and the keys that are
\* down in agreement.
LEMMA AgreeAfter ==
  ASSUME TypeOK, MapInv, TableInv, ModifiersAgree,
         NEW s \in Keysym, NEW dn \in BOOLEAN, modifier_tweak_keyboard(dn, s)
  PROVE  ModifiersAgree'
<1> SUFFICES ASSUME NEW m \in Mods
             PROVE  m \in mod_state' <=> Code(m) \in down'
  BY DEF ModifiersAgree
<1>1. mod_state' = ADJUSTMOD(dn, s)
  BY DEF modifier_tweak_keyboard
<1>2. m \in mod_state <=> Code(m) \in down
  BY DEF ModifiersAgree
<1>3. CASE s \in Mods
  <2>1. KeyFor(dn, s) = Code(s) /\ Code(s) # NoCode
    BY <1>3, ModifierCode, ModKey, NoCodeNoKey
  <2>2. s = m <=> Code(s) = Code(m)
    BY <1>3, ModKeysDistinct
  <2> QED BY <1>1, <1>2, <1>3, <2>1, <2>2, KeysAfter DEF ADJUSTMOD
<1>4. CASE s \notin Mods
  <2>1. Code(m) \in ModKeys
    BY DEF ModKeys
  <2>2. Code(m) \notin {KeyFor(dn, s)} \ {NoCode}
    BY <1>4, <2>1, OtherKeys
  <2>3. m # s
    BY <1>4
  <2> QED BY <1>1, <1>2, <2>2, <2>3, KeysAfter DEF ADJUSTMOD
<1> QED BY <1>3, <1>4

-----------------------------------------------------------------------------
(***************************************************************************)
(* Borrowing a key.                                                        *)
(***************************************************************************)
\* The key that add_keysym takes for a keysym it has not added.
LEMMA NewKey ==
  ASSUME TypeOK, MapInv, TableInv, NEW s \in Keysym, NEW dn,
         Missing(dn, s), Borrowed(s) = {}, Free # {}
  PROVE  /\ AddedCode(s) \in Keycode
         /\ added_keysyms[AddedCode(s)] = NoSymbol
         /\ Unused(xmap, AddedCode(s)) /\ Unused(Layout, AddedCode(s))
         /\ ~InLayout(s)
<1>1. AddedCode(s) \in Keycode /\ Unused(xmap, AddedCode(s))
  BY FreeCode
<1>2. added_keysyms[AddedCode(s)] \in Keysym \cup {NoSymbol}
  BY <1>1 DEF TypeOK
<1>3. ~InLayout(s)
  BY MissingNotInLayout DEF Missing
<1> QED BY <1>1, <1>2, <1>3, FreeKey

\* An event borrows the key, or leaves the mapping as it is.
LEMMA MapAfter ==
  ASSUME TypeOK, MapInv, TableInv, NEW s \in Keysym, NEW dn \in BOOLEAN,
         modifier_tweak_keyboard(dn, s)
  PROVE  \/ /\ Missing(dn, s) /\ Borrowed(s) = {} /\ Free # {}
            /\ xmap' = [xmap EXCEPT ![AddedCode(s)] = Whole(s)]
            /\ added_keysyms' = [added_keysyms EXCEPT ![AddedCode(s)] = s]
            /\ notices' = TRUE
         \/ /\ UNCHANGED <<xmap, added_keysyms, notices>>
            /\ Missing(dn, s) => Borrowed(s) # {} \/ AddedCode(s) = NoCode
<1>1. CASE Missing(dn, s)
  <2>1. add_keysym(s)
    BY <1>1 DEF modifier_tweak_keyboard
  <2>2. CASE Borrowed(s) # {} \/ Free = {}
    <3>1. UNCHANGED <<xmap, added_keysyms, notices>>
      BY <2>1, <2>2 DEF add_keysym
    <3>2. Borrowed(s) # {} \/ AddedCode(s) = NoCode
      BY <2>2 DEF AddedCode
    <3> QED BY <3>1, <3>2
  <2>3. CASE ~(Borrowed(s) # {} \/ Free = {})
    BY <1>1, <2>1, <2>3 DEF add_keysym, Whole
  <2> QED BY <2>2, <2>3
<1>2. CASE ~Missing(dn, s)
  BY <1>2 DEF modifier_tweak_keyboard
<1> QED BY <1>1, <1>2

\* A key that an event borrows is an unused one, and for a keysym that had none.
LEMMA MapInvAfter ==
  ASSUME TypeOK, MapInv, TableInv, NEW s \in Keysym, NEW dn \in BOOLEAN,
         modifier_tweak_keyboard(dn, s)
  PROVE  MapInv'
<1>1. CASE UNCHANGED <<xmap, added_keysyms, notices>>
  BY <1>1 DEF MapInv
<1>2. CASE ~UNCHANGED <<xmap, added_keysyms, notices>>
  <2> DEFINE k == AddedCode(s)
  <2>1. /\ Missing(dn, s) /\ Borrowed(s) = {} /\ Free # {}
        /\ xmap' = [xmap EXCEPT ![k] = Whole(s)]
        /\ added_keysyms' = [added_keysyms EXCEPT ![k] = s]
    BY <1>2, MapAfter
  <2>2. /\ k \in Keycode /\ added_keysyms[k] = NoSymbol
        /\ Unused(Layout, k) /\ ~InLayout(s)
    BY <2>1, NewKey
  <2> HIDE DEF k
  <2>3. s # NoSymbol /\ \A l \in Keycode : added_keysyms[l] # s
    BY <2>1, KeyboardAssumption DEF Borrowed
  <2>4. /\ xmap'[k] = Whole(s) /\ added_keysyms'[k] = s
        /\ \A l \in Keycode \ {k} : /\ xmap'[l] = xmap[l]
                                    /\ added_keysyms'[l] = added_keysyms[l]
    BY <2>1, <2>2 DEF TypeOK, Mapping
  <2>5. \A l \in Keycode : added_keysyms'[l] = NoSymbol => xmap'[l] = Layout[l]
    BY <2>3, <2>4 DEF MapInv
  <2>6. \A l \in Keycode : added_keysyms'[l] # NoSymbol =>
          /\ Unused(Layout, l) /\ xmap'[l] = Whole(added_keysyms'[l])
          /\ ~InLayout(added_keysyms'[l])
    BY <2>2, <2>4 DEF MapInv
  <2>7. \A l, n \in Keycode :
          added_keysyms'[l] # NoSymbol /\ added_keysyms'[l] = added_keysyms'[n] => l = n
    BY <2>3, <2>4 DEF MapInv
  <2> QED BY <2>5, <2>6, <2>7 DEF MapInv
<1> QED BY <1>1, <1>2

\* A keysym that is on a key and not in the layout has been borrowed that key.
LEMMA OnBorrowed ==
  ASSUME TypeOK, MapInv, NEW t \in Keysym, ~InLayout(t),
         NEW k \in Keycode, KeycodeOf(xmap, t) = k
  PROVE  added_keysyms[k] = t
<1>1. PICK c \in Column : xmap[k][c] = t
  BY KeycodeType, NoCodeNoKey DEF TypeOK
<1>2. added_keysyms[k] # NoSymbol
  BY <1>1 DEF MapInv, InLayout
<1> QED BY <1>1, <1>2, WholeRow DEF MapInv

\* What an event borrows does not stand in the way of keys that are held.
LEMMA HeldKept ==
  ASSUME TypeOK, MapInv, TableInv, NEW s \in Keysym, NEW dn \in BOOLEAN,
         modifier_tweak_keyboard(dn, s), cached' = cached,
         NEW t \in Keysym, NEW k \in Keycode,
         KeyFor(FALSE, t) = k, KeycodeOf(xmap, t) = k
  PROVE  KeyFor(FALSE, t)' = k /\ KeycodeOf(xmap', t) = k
<1>1. CASE UNCHANGED <<xmap, added_keysyms, notices>>
  BY <1>1 DEF KeyFor, Missing, Found, AddedCode, Borrowed, Free
<1>2. CASE ~UNCHANGED <<xmap, added_keysyms, notices>>
  <2> DEFINE n == AddedCode(s)
  <2>1. /\ Missing(dn, s) /\ Borrowed(s) = {} /\ Free # {}
        /\ xmap' = [xmap EXCEPT ![n] = Whole(s)]
        /\ added_keysyms' = [added_keysyms EXCEPT ![n] = s]
    BY <1>2, MapAfter
  <2>2. /\ n \in Keycode /\ added_keysyms[n] = NoSymbol
        /\ Unused(xmap, n) /\ ~InLayout(s)
    BY <2>1, NewKey
  <2> HIDE DEF n
  <2>3. t # s
    BY <2>1, <2>2, OnBorrowed DEF Borrowed
  <2>4. t # NoSymbol
    BY KeyboardAssumption
  <2>5. xmap' \in Mapping
    BY <2>1, <2>2 DEF TypeOK, Mapping, Whole
  <2>6. \A l \in Keycode, c \in Column : xmap[l][c] = t <=> xmap'[l][c] = t
    BY <2>1, <2>2, <2>3, <2>4, WholeRow DEF TypeOK, Mapping, Unused
  <2>7. KeycodeOf(xmap', t) = k
    BY <2>5, <2>6, KeycodeSame DEF TypeOK
  <2>8. CASE Found(FALSE, t) # NoCode
    BY <2>7, <2>8 DEF KeyFor, Missing, Found
  <2>9. CASE Found(FALSE, t) = NoCode
    <3>1. ~InLayout(t)
      BY <2>9, MissingNotInLayout
    <3>2. added_keysyms[k] = t
      BY <3>1, OnBorrowed
    <3>3. Borrowed(t) = {k}
      BY <3>2, BorrowedCode
    <3>4. Borrowed(t)' = {k}
      BY <2>1, <2>2, <2>3, <2>4, <3>2, <3>3 DEF Borrowed, TypeOK
    <3>5. {k} \subseteq Nat
      BY KeyboardAssumption
    <3>6. Least({k}) = k
      BY <3>5, LeastExists
    <3>7. AddedCode(t)' = k
      BY <3>4, <3>6 DEF AddedCode
    <3>8. Missing(FALSE, t)'
      <4>1. t \notin Mods
        BY <3>1, ModsInLayout
      <4> QED BY <2>9, <4>1 DEF Missing, Found
    <3> QED BY <2>7, <3>7, <3>8 DEF KeyFor
  <2> QED BY <2>8, <2>9
<1> QED BY <1>1, <1>2

\* The key that is struck is the one that the release will go to, whether it was
\* found in the table, among the borrowed ones, or is borrowed now.
LEMMA StruckKey ==
  ASSUME TypeOK, MapInv, TableInv, NEW s \in Keysym,
         modifier_tweak_keyboard(TRUE, s), cached' = cached, Fresh,
         KeyFor(TRUE, s) # NoCode
  PROVE  KeyFor(FALSE, s)' = KeyFor(TRUE, s) /\ KeycodeOf(xmap', s) = KeyFor(TRUE, s)
<1> DEFINE k == KeyFor(TRUE, s)
<1>0. s # NoSymbol /\ cached \in Mapping /\ xmap \in Mapping
  BY KeyboardAssumption DEF TypeOK
<1>1. Found(TRUE, s) = KeycodeOf(cached, s) /\ Found(FALSE, s) = KeycodeOf(cached, s)
  BY FoundSame
<1>2. KeyFor(FALSE, s) = k
  BY <1>1 DEF KeyFor, Missing
<1>3. CASE ~Missing(TRUE, s)
  <2>1. k = KeycodeOf(cached, s)
    BY <1>1, <1>3 DEF KeyFor
  <2>2. k \in Keycode
    BY <1>0, <2>1, KeycodeType
  <2>3. PICK c \in Column : cached[k][c] = s
    BY <1>0, <2>1, KeycodeType
  <2>4. xmap[k] = cached[k]
    BY <1>0, <2>2, <2>3 DEF Fresh, Unused
  <2>5. KeycodeOf(xmap, s) = k
    <3>1. CASE InLayout(s)
      BY <2>1, <3>1, LayoutCodes
    <3>2. CASE ~InLayout(s)
      <4>1. added_keysyms[k] # NoSymbol
        BY <2>2, <2>3, <2>4, <3>2 DEF MapInv, InLayout
      <4>2. xmap[k] = Whole(added_keysyms[k])
        BY <2>2, <4>1 DEF MapInv
      <4>3. Whole(added_keysyms[k])[c] = added_keysyms[k]
        BY WholeRow
      <4>4. added_keysyms[k] = s
        BY <2>3, <2>4, <4>2, <4>3
      <4> QED BY <2>2, <4>4, BorrowedCode
    <3> QED BY <3>1, <3>2
  <2> QED BY <1>2, <2>2, <2>5, HeldKept
<1>4. CASE Missing(TRUE, s) /\ Borrowed(s) # {}
  <2>1. PICK l \in Keycode : added_keysyms[l] = s
    BY <1>4 DEF Borrowed
  <2>2. k = l /\ KeycodeOf(xmap, s) = l
    BY <1>4, <2>1, BorrowedCode DEF KeyFor
  <2> QED BY <1>2, <2>1, <2>2, HeldKept
<1>5. CASE Missing(TRUE, s) /\ Borrowed(s) = {}
  <2>1. k = AddedCode(s)
    BY <1>5 DEF KeyFor
  <2>2. /\ Free # {}
        /\ xmap' = [xmap EXCEPT ![k] = Whole(s)]
        /\ added_keysyms' = [added_keysyms EXCEPT ![k] = s]
    BY <1>5, <2>1, MapAfter
  <2>3. /\ k \in Keycode /\ added_keysyms[k] = NoSymbol /\ ~InLayout(s)
    BY <1>5, <2>1, <2>2, NewKey
  <2> HIDE DEF k
  <2>4. \A l \in Keycode, c \in Column : xmap[l][c] # s
    <3> SUFFICES ASSUME NEW l \in Keycode, NEW c \in Column, xmap[l][c] = s
                 PROVE  FALSE
      OBVIOUS
    <3>1. added_keysyms[l] # NoSymbol
      BY <2>3 DEF MapInv, InLayout
    <3>2. added_keysyms[l] = s
      BY <3>1, WholeRow DEF MapInv
    <3> QED BY <1>5, <3>2 DEF Borrowed
  <2>5. xmap' \in Mapping
    BY <1>0, <2>2, <2>3 DEF Mapping, Whole
  <2>6. \A l \in Keycode, c \in Column : xmap'[l][c] = s => l = k
    BY <1>0, <2>2, <2>3, <2>4 DEF Mapping
  <2>7. xmap'[k][0] = s /\ 0 \in Column
    BY <1>0, <2>2, <2>3, WholeRow DEF Mapping, Column
  <2>8. KeycodeOf(xmap', s) = k
    BY <2>3, <2>5, <2>6, <2>7, KeycodeFound
  <2>9. Borrowed(s)' = {k}
    BY <1>0, <1>5, <2>2, <2>3 DEF Borrowed, TypeOK
  <2>10. {k} \subseteq Nat
    BY <2>3, KeyboardAssumption
  <2>11. Least({k}) = k
    BY <2>10, LeastExists
  <2>12. AddedCode(s)' = k
    BY <2>9, <2>11 DEF AddedCode
  <2>13. Missing(FALSE, s)'
    BY <1>1, <1>5 DEF Missing, Found
  <2> QED BY <2>8, <2>12, <2>13 DEF KeyFor, k
<1> QED BY <1>3, <1>4, <1>5

-----------------------------------------------------------------------------
(***************************************************************************)
(* What X clients get.                                                     *)
(***************************************************************************)
\* While a key is struck, Shift is down for the second column only, and AltGr
\* for the third.
LEMMA ReadyMods ==
  ASSUME TypeOK, ModifiersAgree, NEW mod \in {0, 1, 2}
  PROVE  LET ready == tweak_mod(mod, TRUE, mod_state, down)
         IN  /\ Code("Mode_switch") \in ready <=> mod = 2
             /\ (\E m \in Shifts : Code(m) \in ready) <=> mod = 1
<1> DEFINE ready == tweak_mod(mod, TRUE, mod_state, down)
<1>1. ready = (down \ Lifted(mod, mod_state)) \cup Pressed(mod, mod_state)
  BY DEF tweak_mod
<1> HIDE DEF ready
<1>2. \A m, n \in Mods : Code(m) = Code(n) => m = n
  BY ModKeysDistinct
<1>3. \A m \in Mods : Code(m) \in Lifted(mod, mod_state) <=>
        m \in mod_state /\ IF m \in Shifts THEN mod # 1 ELSE mod # 2
  BY <1>2 DEF Lifted, TypeOK
<1>4. \A m \in Mods : Code(m) \in Pressed(mod, mod_state) <=>
        \/ m = "Shift_L" /\ mod = 1 /\ mod_state \cap Shifts = {}
        \/ m = "Mode_switch" /\ mod = 2 /\ "Mode_switch" \notin mod_state
  <2>1. left_shift_code = Code("Shift_L") /\ altgr_code = Code("Mode_switch")
    BY DEF left_shift_code, altgr_code, Code
  <2>2. "Shift_L" \in Mods /\ "Mode_switch" \in Mods
    BY DEF Mods, Shifts
  <2> QED BY <1>2, <2>1, <2>2 DEF Pressed
<1>5. \A m \in Mods : Code(m) \in down <=> m \in mod_state
  BY DEF ModifiersAgree
<1>6. \A m \in Mods : Code(m) \in ready <=>
        \/ m \in mod_state /\ ~IF m \in Shifts THEN mod # 1 ELSE mod # 2
        \/ m = "Shift_L" /\ mod = 1 /\ mod_state \cap Shifts = {}
        \/ m = "Mode_switch" /\ mod = 2 /\ "Mode_switch" \notin mod_state
  BY <1>1, <1>3, <1>4, <1>5
<1>7. /\ "Mode_switch" \in Mods /\ "Mode_switch" \notin Shifts
      /\ Shifts \subseteq Mods /\ "Shift_L" \in Shifts /\ "Shift_L" # "Mode_switch"
  BY DEF Mods, Shifts
<1>8. Code("Mode_switch") \in ready <=> mod = 2
  BY <1>6, <1>7
<1>9. (\E m \in Shifts : Code(m) \in ready) <=> mod = 1
  <2>1. CASE mod_state \cap Shifts = {}
    BY <1>6, <1>7, <2>1
  <2>2. CASE mod_state \cap Shifts # {}
    BY <1>6, <1>7, <2>2
  <2> QED BY <2>1, <2>2
<1> QED BY <1>8, <1>9 DEF ready

\* With tables that are up to date the key and its modifiers give the character.
LEMMA TypedRight ==
  ASSUME TypeOK, MapInv, TableInv, ModifiersAgree, NEW s \in Latin,
         modifier_tweak_keyboard(TRUE, s), Fresh, modifiers[s] < 3,
         KeyFor(TRUE, s) # NoCode
  PROVE  typed' = s
<1> DEFINE k == KeyFor(TRUE, s)
           mod == modifiers[s]
           ready == tweak_mod(mod, TRUE, mod_state, down)
<1>0. s \in Keysym /\ s \notin Mods /\ s # NoSymbol /\ cached \in Mapping
  BY KeyboardAssumption DEF TypeOK
<1>1. typed' = Typed(xmap', k, ready)
  BY <1>0 DEF modifier_tweak_keyboard, ADJUSTMOD
<1>2. mod = ColumnOf(cached, s) /\ Found(TRUE, s) = KeycodeOf(cached, s)
  BY FoundSame DEF TableInv
<1>3. CASE Missing(TRUE, s)
  <2>1. xmap'[k] = Whole(s)
    <3>0. k = AddedCode(s)
      BY <1>3 DEF KeyFor
    <3>1. CASE Borrowed(s) # {}
      <4>1. PICK l \in Keycode : added_keysyms[l] = s
        BY <3>1 DEF Borrowed
      <4>2. k = l
        BY <1>0, <3>0, <4>1, BorrowedCode
      <4>3. xmap[l] = Whole(s)
        BY <1>0, <4>1 DEF MapInv
      <4>4. xmap' = xmap
        BY <1>0, <3>1, MapAfter
      <4> QED BY <4>2, <4>3, <4>4
    <3>2. CASE Borrowed(s) = {}
      <4>1. Free # {} /\ xmap' = [xmap EXCEPT ![k] = Whole(s)]
        BY <1>0, <1>3, <3>0, <3>2, MapAfter
      <4>2. k \in Keycode
        BY <1>0, <1>3, <3>0, <3>2, <4>1, NewKey
      <4> QED BY <4>1, <4>2 DEF TypeOK, Mapping
    <3> QED BY <3>1, <3>2
  <2>2. \A c \in {0, 1, 2, 3} : xmap'[k][c] = s
    BY <2>1, WholeRow DEF Column
  <2> HIDE DEF k, ready
  <2> QED BY <1>1, <2>2 DEF Typed
<1>4. CASE ~Missing(TRUE, s)
  <2>1. k = KeycodeOf(cached, s)
    BY <1>2, <1>4 DEF KeyFor
  <2>2. k \in Keycode
    BY <1>0, <2>1, KeycodeType
  <2>3. mod \in Column /\ cached[k][mod] = s
    BY <1>0, <1>2, <2>1, ColumnFound
  <2>4. mod \in {0, 1, 2}
    BY <2>3 DEF Column
  <2>5. xmap[k] = cached[k]
    BY <1>0, <2>2, <2>3 DEF Fresh, Unused
  <2>6. xmap' = xmap
    BY <1>0, <1>4, MapAfter
  <2>7. xmap'[k][mod] = s
    BY <2>3, <2>5, <2>6
  <2>8. /\ Code("Mode_switch") \in ready <=> mod = 2
        /\ (\E m \in Shifts : Code(m) \in ready) <=> mod = 1
    BY <2>4, ReadyMods
  <2> HIDE DEF k, mod, ready
  <2>9. CASE mod = 0
    BY <1>0, <1>1, <2>7, <2>8, <2>9 DEF Typed
  <2>10. CASE mod = 1
    BY <1>0, <1>1, <2>7, <2>8, <2>10 DEF Typed
  <2>11. CASE mod = 2
    BY <1>0, <1>1, <2>7, <2>8, <2>11 DEF Typed
  <2> QED BY <2>4, <2>9, <2>10, <2>11
<1> QED BY <1>3, <1>4

-----------------------------------------------------------------------------
(***************************************************************************)
(* The actions.                                                            *)
(***************************************************************************)
LEMMA InitInv == Init => IInv
<1> SUFFICES ASSUME Init
             PROVE  IInv
  OBVIOUS
<1> USE DEF Init
<1>1. Layout \in Mapping /\ Latin \subseteq Keysym
  BY KeyboardAssumption
<1>2. TypeOK
  BY <1>1, KeycodeType, ColumnFound DEF TypeOK
<1>3. MapInv /\ TableInv
  BY KeyboardAssumption DEF MapInv, TableInv
<1>4. ModifiersAgree /\ HeldInv
  BY DEF ModifiersAgree, HeldInv
<1> QED BY <1>2, <1>3, <1>4 DEF IInv

\* What an event does to the types.
LEMMA TypesAfter ==
  ASSUME TypeOK, MapInv, TableInv, ModifiersAgree,
         NEW s \in Keysym, NEW dn \in BOOLEAN, modifier_tweak_keyboard(dn, s)
  PROVE  /\ xmap' \in Mapping /\ notices' \in BOOLEAN
         /\ added_keysyms' \in [Keycode -> Keysym \cup {NoSymbol}]
         /\ down' \subseteq Keycode /\ mod_state' \subseteq Mods
         /\ typed' \in Keysym \cup {NoSymbol}
<1>1. KeyFor(dn, s) \in Keycode \cup {NoCode}
  <2>1. CASE s \in Mods
    BY <2>1, ModifierCode, ModKey
  <2>2. CASE s \notin Mods
    BY <2>2, OtherKeys
  <2> QED BY <2>1, <2>2
<1>2. /\ xmap' \in Mapping /\ notices' \in BOOLEAN
      /\ added_keysyms' \in [Keycode -> Keysym \cup {NoSymbol}]
  <2>1. CASE UNCHANGED <<xmap, added_keysyms, notices>>
    BY <2>1 DEF TypeOK
  <2>2. CASE ~UNCHANGED <<xmap, added_keysyms, notices>>
    <3>1. /\ xmap' = [xmap EXCEPT ![AddedCode(s)] = Whole(s)]
          /\ added_keysyms' = [added_keysyms EXCEPT ![AddedCode(s)] = s]
          /\ notices' = TRUE
      BY <2>2, MapAfter
    <3>2. Whole(s) \in [Column -> Keysym \cup {NoSymbol}]
      BY DEF Whole
    <3> QED BY <3>1, <3>2 DEF TypeOK, Mapping
  <2> QED BY <2>1, <2>2
<1>3. down' \subseteq Keycode
  BY <1>1, KeysAfter DEF TypeOK
<1>4. mod_state' \subseteq Mods
  BY DEF modifier_tweak_keyboard, ADJUSTMOD, TypeOK
<1>5. typed' \in Keysym \cup {NoSymbol}
  <2>1. ASSUME NEW k \in Keycode, NEW keys
        PROVE  Typed(xmap', k, keys) \in Keysym \cup {NoSymbol}
    <3>1. \A c \in {0, 1, 2, 3} : xmap'[k][c] \in Keysym \cup {NoSymbol}
      BY <1>2 DEF Mapping, Column
    <3> QED BY <3>1 DEF Typed
  <2> QED BY <1>1, <2>1 DEF modifier_tweak_keyboard
<1> QED BY <1>2, <1>3, <1>4, <1>5

\* A viewer presses a key.
LEMMA KeyDownKeeps ==
  ASSUME IInv, NEW v \in Viewers, NEW s \in Keysym, KeyDown(v, s)
  PROVE  IInv'
<1>0. TypeOK /\ MapInv /\ TableInv /\ ModifiersAgree /\ HeldInv
  BY DEF IInv
<1>1. /\ held' = [held EXCEPT ![v] = @ \cup {s}]
      /\ UNCHANGED <<cached, keycodes, modifiers, allowed>>
  BY DEF KeyDown
<1>2. held' \in [Viewers -> SUBSET Keysym] /\ \A w \in Viewers : held[w] \subseteq held'[w]
  BY <1>0, <1>1 DEF TypeOK
<1>3. TableInv'
  BY <1>0, <1>1 DEF TableInv
<1>4. CASE v \in allowed
  <2>1. modifier_tweak_keyboard(TRUE, s)
    BY <1>4 DEF KeyDown
  <2>2. lost' = IF Fresh THEN lost ELSE lost \cup ({KeyFor(TRUE, s)} \cap down')
    BY <1>4 DEF KeyDown
  <2>3. down' = down \cup ({KeyFor(TRUE, s)} \ {NoCode})
    BY <1>0, <2>1, KeysAfter
  <2>4. TypeOK'
    BY <1>0, <1>1, <1>2, <2>1, <2>2, TypesAfter DEF TypeOK
  <2>5. MapInv' /\ ModifiersAgree'
    BY <1>0, <2>1, MapInvAfter, AgreeAfter
  <2>6. HeldInv'
    <3> SUFFICES ASSUME NEW k \in down' \ lost'
                 PROVE  Held(k)'
      BY DEF HeldInv
    <3>1. CASE k \in down /\ k \notin lost
      <4>0. PICK w \in Viewers : \E t \in held[w] :
              KeyFor(FALSE, t) = k /\ KeycodeOf(xmap, t) = k
        BY <1>0, <3>1 DEF HeldInv, Held
      <4>1. PICK t \in held[w] : KeyFor(FALSE, t) = k /\ KeycodeOf(xmap, t) = k
        BY <4>0
      <4>2. t \in Keysym /\ k \in Keycode
        BY <1>0, <3>1 DEF TypeOK
      <4>3. KeyFor(FALSE, t)' = k /\ KeycodeOf(xmap', t) = k
        BY <1>0, <1>1, <2>1, <4>1, <4>2, HeldKept
      <4>4. t \in held'[w]
        BY <1>2
      <4> QED BY <4>3, <4>4 DEF Held
    <3>2. CASE ~(k \in down /\ k \notin lost)
      <4>1. k = KeyFor(TRUE, s) /\ k # NoCode /\ Fresh
        BY <2>2, <2>3, <3>2
      <4>2. KeyFor(FALSE, s)' = k /\ KeycodeOf(xmap', s) = k
        BY <1>0, <1>1, <2>1, <4>1, StruckKey
      <4>3. s \in held'[v]
        BY <1>0, <1>1 DEF TypeOK
      <4> QED BY <4>2, <4>3 DEF Held
    <3> QED BY <3>1, <3>2
  <2> QED BY <1>3, <2>4, <2>5, <2>6 DEF IInv
<1>5. CASE v \notin allowed
  <2>1. UNCHANGED <<xmap, down, notices, added_keysyms, mod_state, lost>> /\ typed' = NoSymbol
    BY <1>5 DEF KeyDown, xVars
  <2>2. TypeOK'
    BY <1>0, <1>1, <1>2, <2>1 DEF TypeOK
  <2>3. MapInv' /\ ModifiersAgree'
    BY <1>0, <2>1 DEF MapInv, ModifiersAgree
  <2>4. \A t \in Keysym : KeyFor(FALSE, t)' = KeyFor(FALSE, t)
    BY <1>1, <2>1 DEF KeyFor, Missing, Found, AddedCode, Borrowed, Free
  <2>5. HeldInv'
    BY <1>0, <1>2, <2>1, <2>4 DEF HeldInv, Held, TypeOK
  <2> QED BY <1>3, <2>2, <2>3, <2>5 DEF IInv
<1> QED BY <1>4, <1>5

\* A viewer releases a key.
LEMMA KeyUpKeeps ==
  ASSUME IInv, NEW v \in Viewers, NEW s \in Keysym, KeyUp(v, s)
  PROVE  IInv'
<1>0. TypeOK /\ MapInv /\ TableInv /\ ModifiersAgree /\ HeldInv
  BY DEF IInv
<1>1. /\ held' = [held EXCEPT ![v] = @ \ {s}]
      /\ UNCHANGED <<cached, keycodes, modifiers, allowed>>
  BY DEF KeyUp
<1>2. /\ held' \in [Viewers -> SUBSET Keysym]
      /\ \A w \in Viewers : \A t \in held[w] : t \in held'[w] \/ t = s
  BY <1>0, <1>1 DEF TypeOK
<1>3. TableInv'
  BY <1>0, <1>1 DEF TableInv
<1>4. CASE v \in allowed
  <2>1. modifier_tweak_keyboard(FALSE, s) /\ lost' = lost \cap down'
    BY <1>4 DEF KeyUp
  <2>2. down' = down \ ({KeyFor(FALSE, s)} \ {NoCode})
    BY <1>0, <2>1, KeysAfter
  <2>3. TypeOK'
    BY <1>0, <1>1, <1>2, <2>1, TypesAfter DEF TypeOK
  <2>4. MapInv' /\ ModifiersAgree'
    BY <1>0, <2>1, MapInvAfter, AgreeAfter
  <2>5. HeldInv'
    <3> SUFFICES ASSUME NEW k \in down' \ lost'
                 PROVE  Held(k)'
      BY DEF HeldInv
    <3>1. k \in down \ lost /\ k \in Keycode
      BY <1>0, <2>1, <2>2 DEF TypeOK
    <3>0. PICK w \in Viewers : \E t \in held[w] :
            KeyFor(FALSE, t) = k /\ KeycodeOf(xmap, t) = k
      BY <1>0, <3>1 DEF HeldInv, Held
    <3>2. PICK t \in held[w] : KeyFor(FALSE, t) = k /\ KeycodeOf(xmap, t) = k
      BY <3>0
    <3>3. t \in Keysym
      BY <1>0 DEF TypeOK
    <3>4. KeyFor(FALSE, t)' = k /\ KeycodeOf(xmap', t) = k
      BY <1>0, <1>1, <2>1, <3>1, <3>2, <3>3, HeldKept
    <3>5. t # s
      BY <2>2, <3>1, <3>2, NoCodeNoKey
    <3>6. t \in held'[w]
      BY <1>2, <3>5
    <3> QED BY <3>4, <3>6 DEF Held
  <2> QED BY <1>3, <2>3, <2>4, <2>5 DEF IInv
<1>5. CASE v \notin allowed
  <2>1. /\ UNCHANGED <<xmap, down, notices, added_keysyms, mod_state>> /\ typed' = NoSymbol
        /\ lost' = lost \cup (KeysOf({s}) \cap down)
    BY <1>5 DEF KeyUp, xVars
  <2>2. TypeOK'
    BY <1>0, <1>1, <1>2, <2>1 DEF TypeOK
  <2>3. MapInv' /\ ModifiersAgree'
    BY <1>0, <2>1 DEF MapInv, ModifiersAgree
  <2>4. \A t \in Keysym : KeyFor(FALSE, t)' = KeyFor(FALSE, t)
    BY <1>1, <2>1 DEF KeyFor, Missing, Found, AddedCode, Borrowed, Free
  <2>5. KeyFor(FALSE, s) \in KeysOf({s})
    BY DEF KeysOf
  <2>6. HeldInv'
    <3> SUFFICES ASSUME NEW k \in down' \ lost'
                 PROVE  Held(k)'
      BY DEF HeldInv
    <3>1. k \in down \ lost /\ k # KeyFor(FALSE, s)
      BY <2>1, <2>5
    <3>2. PICK w \in Viewers : \E t \in held[w] :
            KeyFor(FALSE, t) = k /\ KeycodeOf(xmap, t) = k
      BY <1>0, <3>1 DEF HeldInv, Held
    <3>3. PICK t \in held[w] : KeyFor(FALSE, t) = k /\ KeycodeOf(xmap, t) = k
      BY <3>2
    <3>4. t \in Keysym
      BY <1>0 DEF TypeOK
    <3>5. t \in held'[w]
      BY <1>2, <3>1, <3>3
    <3>6. KeyFor(FALSE, t)' = k /\ KeycodeOf(xmap', t) = k
      BY <2>1, <2>4, <3>3, <3>4
    <3> QED BY <3>5, <3>6 DEF Held
  <2> QED BY <1>3, <2>2, <2>3, <2>6 DEF IInv
<1> QED BY <1>4, <1>5

\* A viewer leaves with keys down.
LEMMA GoneKeeps ==
  ASSUME IInv, NEW v \in Viewers, Gone(v)
  PROVE  IInv'
<1>0. TypeOK /\ MapInv /\ TableInv /\ ModifiersAgree /\ HeldInv
  BY DEF IInv
<1>1. /\ UNCHANGED <<xmap, down, cached, notices, keycodes, modifiers,
                     added_keysyms, mod_state, allowed>>
      /\ typed' = NoSymbol
      /\ held' = [held EXCEPT ![v] = {}]
      /\ lost' = lost \cup (KeysOf(held[v]) \cap down)
  BY DEF Gone, xVars, tableVars
<1>2. held' \in [Viewers -> SUBSET Keysym] /\ \A w \in Viewers \ {v} : held'[w] = held[w]
  BY <1>0, <1>1 DEF TypeOK
<1>3. TypeOK'
  BY <1>0, <1>1, <1>2 DEF TypeOK
<1>4. MapInv' /\ TableInv' /\ ModifiersAgree'
  BY <1>0, <1>1 DEF MapInv, TableInv, ModifiersAgree
<1>5. \A t \in Keysym : KeyFor(FALSE, t)' = KeyFor(FALSE, t)
  BY <1>1 DEF KeyFor, Missing, Found, AddedCode, Borrowed, Free
<1>6. \A t \in held[v] : KeyFor(FALSE, t) \in KeysOf(held[v])
  BY DEF KeysOf
<1>7. HeldInv'
  <2> SUFFICES ASSUME NEW k \in down' \ lost'
               PROVE  Held(k)'
    BY DEF HeldInv
  <2>1. k \in down \ lost /\ k \notin KeysOf(held[v])
    BY <1>1
  <2>2. PICK w \in Viewers : \E t \in held[w] :
          KeyFor(FALSE, t) = k /\ KeycodeOf(xmap, t) = k
    BY <1>0, <2>1 DEF HeldInv, Held
  <2>3. PICK t \in held[w] : KeyFor(FALSE, t) = k /\ KeycodeOf(xmap, t) = k
    BY <2>2
  <2>4. t \in Keysym /\ w # v
    BY <1>0, <1>6, <2>1, <2>3 DEF TypeOK
  <2>5. t \in held'[w]
    BY <1>2, <2>4
  <2>6. KeyFor(FALSE, t)' = k /\ KeycodeOf(xmap', t) = k
    BY <1>1, <1>5, <2>3, <2>4
  <2> QED BY <2>5, <2>6 DEF Held
<1> QED BY <1>3, <1>4, <1>7 DEF IInv

\* The input that a viewer may give is changed.
LEMMA SetInputKeeps ==
  ASSUME IInv, NEW v \in Viewers, SetInput(v)
  PROVE  IInv'
<1>0. TypeOK /\ MapInv /\ TableInv /\ ModifiersAgree /\ HeldInv
  BY DEF IInv
<1>1. /\ UNCHANGED <<xmap, down, cached, notices, keycodes, modifiers,
                     added_keysyms, mod_state, held, lost>>
      /\ typed' = NoSymbol
      /\ allowed' = IF v \in allowed THEN allowed \ {v} ELSE allowed \cup {v}
  BY DEF SetInput, xVars, tableVars
<1>2. TypeOK'
  BY <1>0, <1>1 DEF TypeOK
<1>3. MapInv' /\ TableInv' /\ ModifiersAgree'
  BY <1>0, <1>1 DEF MapInv, TableInv, ModifiersAgree
<1>4. \A t \in Keysym : KeyFor(FALSE, t)' = KeyFor(FALSE, t)
  BY <1>1 DEF KeyFor, Missing, Found, AddedCode, Borrowed, Free
<1>5. HeldInv'
  BY <1>0, <1>1, <1>4 DEF HeldInv, Held, TypeOK
<1> QED BY <1>2, <1>3, <1>5 DEF IInv

\* The keys that are returned leave the layout; the other keys that are down are
\* found as before.
LEMMA ReturnKeeps ==
  ASSUME IInv, check_add_keysyms
  PROVE  IInv'
<1> DEFINE borrowed == {k \in Keycode : added_keysyms[k] # NoSymbol}
<1>0. TypeOK /\ MapInv /\ TableInv /\ ModifiersAgree /\ HeldInv
  BY DEF IInv
<1>1. /\ UNCHANGED <<down, cached, keycodes, modifiers, mod_state, allowed, held>>
      /\ xmap' = [k \in Keycode |-> IF k \in borrowed THEN [c \in Column |-> NoSymbol]
                                    ELSE xmap[k]]
      /\ added_keysyms' = [k \in Keycode |-> NoSymbol]
      /\ notices' = TRUE
      /\ lost' = lost \cup (borrowed \cap down)
      /\ typed' = NoSymbol
  BY DEF check_add_keysyms, viewerVars
<1>2. \A k \in Keycode : xmap'[k] = Layout[k]
  <2> SUFFICES ASSUME NEW k \in Keycode
               PROVE  xmap'[k] = Layout[k]
    OBVIOUS
  <2>1. CASE added_keysyms[k] = NoSymbol
    BY <1>0, <1>1, <2>1 DEF MapInv
  <2>2. CASE added_keysyms[k] # NoSymbol
    <3>1. xmap'[k] = [c \in Column |-> NoSymbol]
      BY <1>1, <2>2
    <3>2. Unused(Layout, k)
      BY <1>0, <2>2 DEF MapInv
    <3>3. Layout[k] \in [Column -> Keysym \cup {NoSymbol}]
      BY KeyboardAssumption DEF Mapping
    <3> QED BY <3>1, <3>2, <3>3 DEF Unused
  <2> QED BY <2>1, <2>2
<1>3. xmap' = Layout
  <2>1. Layout = [k \in Keycode |-> Layout[k]]
    BY KeyboardAssumption DEF Mapping
  <2>2. xmap' = [k \in Keycode |-> xmap'[k]]
    BY <1>1
  <2> QED BY <1>2, <2>1, <2>2
<1>4. TypeOK'
  BY <1>0, <1>1, <1>3, KeyboardAssumption DEF TypeOK
<1>5. MapInv' /\ TableInv' /\ ModifiersAgree'
  BY <1>0, <1>1, <1>3 DEF MapInv, TableInv, ModifiersAgree
<1>6. HeldInv'
  <2> SUFFICES ASSUME NEW k \in down' \ lost'
               PROVE  Held(k)'
    BY DEF HeldInv
  <2>1. k \in down \ lost /\ k \in Keycode /\ added_keysyms[k] = NoSymbol
    BY <1>0, <1>1 DEF TypeOK
  <2>2. PICK w \in Viewers : \E t \in held[w] :
          KeyFor(FALSE, t) = k /\ KeycodeOf(xmap, t) = k
    BY <1>0, <2>1 DEF HeldInv, Held
  <2>3. PICK t \in held[w] : KeyFor(FALSE, t) = k /\ KeycodeOf(xmap, t) = k
    BY <2>2
  <2>4. t \in Keysym /\ k # NoCode /\ xmap \in Mapping
    BY <1>0, <2>1, NoCodeNoKey DEF TypeOK
  <2>5. PICK c \in Column : xmap[k][c] = t
    BY <2>3, <2>4, KeycodeType
  <2>6. InLayout(t)
    BY <1>0, <2>1, <2>5 DEF MapInv, InLayout
  <2>7. KeycodeOf(Layout, t) = k /\ KeycodeOf(cached, t) = k
    BY <1>0, <2>3, <2>4, <2>6, LayoutCodes
  <2>8. KeycodeOf(xmap', t) = k /\ KeycodeOf(cached', t) = k
    BY <1>1, <1>3, <2>7
  <2>9. KeyFor(FALSE, t)' = k
    BY <2>4, <2>8 DEF KeyFor, Missing, Found
  <2> QED BY <1>1, <2>3, <2>8, <2>9 DEF Held
<1> QED BY <1>4, <1>5, <1>6 DEF IInv

\* Once the mapping has been read, every key that is down is found in it.
LEMMA NotifyKeeps ==
  ASSUME IInv, MappingNotify
  PROVE  IInv'
<1>0. TypeOK /\ MapInv /\ TableInv /\ ModifiersAgree /\ HeldInv
  BY DEF IInv
<1>1. /\ UNCHANGED <<xmap, down, added_keysyms, mod_state, allowed, held, lost>>
      /\ notices' = FALSE /\ cached' = xmap /\ typed' = NoSymbol
      /\ keycodes' = [s \in Latin |-> KeycodeOf(xmap, s)]
      /\ modifiers' = [s \in Latin |-> ColumnOf(xmap, s)]
  BY DEF MappingNotify, xVars, viewerVars
<1>2. xmap \in Mapping
  BY <1>0 DEF TypeOK
<1>3. keycodes' \in [Latin -> Keycode \cup {NoCode}]
  BY <1>1, <1>2, KeycodeType
<1>4. modifiers' \in [Latin -> Column \cup {-1}]
  BY <1>1, <1>2, ColumnFound
<1>5. TypeOK'
  BY <1>0, <1>1, <1>3, <1>4 DEF TypeOK
<1>6. MapInv' /\ ModifiersAgree'
  BY <1>0, <1>1 DEF MapInv, ModifiersAgree
<1>7. TableInv'
  <2>1. ASSUME NEW k \in Keycode
        PROVE  \/ xmap[k] = Layout[k]
               \/ Unused(Layout, k) /\ \E s \in Keysym : ~InLayout(s) /\ xmap[k] = Whole(s)
    <3>1. CASE added_keysyms[k] = NoSymbol
      BY <1>0, <3>1 DEF MapInv
    <3>2. CASE added_keysyms[k] # NoSymbol
      <4>1. added_keysyms[k] \in Keysym
        BY <1>0, <3>2 DEF TypeOK
      <4> QED BY <1>0, <3>2, <4>1 DEF MapInv
    <3> QED BY <3>1, <3>2
  <2> QED BY <1>1, <2>1 DEF TableInv
<1>8. HeldInv'
  <2> SUFFICES ASSUME NEW k \in down' \ lost'
               PROVE  Held(k)'
    BY DEF HeldInv
  <2>1. k \in down \ lost /\ k # NoCode
    BY <1>0, <1>1, NoCodeNoKey DEF TypeOK
  <2>2. PICK w \in Viewers : \E t \in held[w] : KeycodeOf(xmap, t) = k
    BY <1>0, <2>1 DEF HeldInv, Held
  <2>3. PICK t \in held[w] : KeycodeOf(xmap, t) = k
    BY <2>2
  <2>4. KeycodeOf(xmap', t) = k /\ KeycodeOf(cached', t) = k
    BY <1>1, <2>3
  <2>5. KeyFor(FALSE, t)' = k
    BY <2>1, <2>4 DEF KeyFor, Missing, Found
  <2> QED BY <1>1, <2>3, <2>4, <2>5 DEF Held
<1> QED BY <1>5, <1>6, <1>7, <1>8 DEF IInv

\* A step that changes nothing.
LEMMA StutterKeeps ==
  ASSUME IInv, UNCHANGED vars
  PROVE  IInv'
<1>0. TypeOK /\ MapInv /\ TableInv /\ ModifiersAgree /\ HeldInv
  BY DEF IInv
<1>1. UNCHANGED <<xmap, down, typed, cached, notices, keycodes, modifiers,
                  added_keysyms, mod_state, allowed, held, lost>>
  BY DEF vars, xVars, tableVars, viewerVars
<1>2. TypeOK' /\ MapInv' /\ TableInv' /\ ModifiersAgree'
  BY <1>0, <1>1 DEF TypeOK, MapInv, TableInv, ModifiersAgree
<1>3. \A t \in Keysym : KeyFor(FALSE, t)' = KeyFor(FALSE, t)
  BY <1>1 DEF KeyFor, Missing, Found, AddedCode, Borrowed, Free
<1>4. HeldInv'
  BY <1>0, <1>1, <1>3 DEF HeldInv, Held, TypeOK
<1> QED BY <1>2, <1>4 DEF IInv

-----------------------------------------------------------------------------
(***************************************************************************)
(* The theorems.                                                           *)
(***************************************************************************)
\* The invariant of the keyboard: what the mappings, the tables and the viewers'
\* keys have to do with each other between two events.
THEOREM KeyboardInvariance == Spec => []IInv
<1>1. IInv /\ [Next]_vars => IInv'
  <2> SUFFICES ASSUME IInv, [Next]_vars
               PROVE  IInv'
    OBVIOUS
  <2>1. CASE UNCHANGED vars
    BY <2>1, StutterKeeps
  <2>2. CASE Next
    BY <2>2, KeyDownKeeps, KeyUpKeeps, GoneKeeps, SetInputKeeps, ReturnKeeps, NotifyKeeps
       DEF Next
  <2> QED BY <2>1, <2>2
<1> QED BY <1>1, InitInv, PTL DEF Spec

\* Type correctness; mod_state, which ADJUSTMOD keeps, has nothing but modifiers.
THEOREM KeyboardTypes == Spec => []TypeOK
<1>1. IInv => TypeOK
  BY DEF IInv
<1> QED BY <1>1, KeyboardInvariance, PTL

\* mod_state is what is down in the X display, for any number of viewers that
\* type between each other's modifiers (modifier_tweak_keyboard, tweak_mod).
THEOREM ModifiersAlwaysAgree == Spec => []ModifiersAgree
<1>1. IInv => ModifiersAgree
  BY DEF IInv
<1> QED BY <1>1, KeyboardInvariance, PTL

\* The release of a keysym finds the key that is down for it, also where
\* add_keysym has borrowed the key and the MappingNotify has not been read.
THEOREM KeysAreAccounted == Spec => []KeysAccounted
<1>1. IInv => KeysAccounted
  BY DEF IInv, HeldInv, Held, KeysAccounted, KeysOf
<1> QED BY <1>1, KeyboardInvariance, PTL

\* The character that modifier_tweak_keyboard strikes is the one that was sent.
THEOREM WhatIsTypedIsSent == Spec => TypedIsSent
<1>1. IInv => \A v \in allowed, s \in Latin :
                KeyDown(v, s) /\ Fresh /\ modifiers[s] < 3 /\ KeyFor(TRUE, s) # NoCode
                  => typed' = s
  BY TypedRight DEF IInv, KeyDown
<1> QED BY <1>1, KeyboardInvariance, PTL DEF TypedIsSent
=============================================================================
