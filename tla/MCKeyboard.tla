------------------------------ MODULE MCKeyboard ------------------------------
(***************************************************************************)
(* A keyboard for TLC: an AltGr key, two Shift keys, two keys with the same *)
(* letter, and two unused ones, of which the first is never borrowed.      *)
(***************************************************************************)
EXTENDS Keyboard, Sequences, TLC

Row(symbols) ==
  [c \in Column |-> IF c < Len(symbols) THEN symbols[c + 1] ELSE NoSymbol]

MCLayout ==
  <<Row(<<>>), Row(<<"Shift_L">>), Row(<<"a", "A", "at">>), Row(<<"a", "A">>),
    Row(<<"Mode_switch">>), Row(<<"Shift_R">>), Row(<<>>)>>

\* Nothing tells one viewer from another.
Symmetry == Permutations(Viewers)
=============================================================================
