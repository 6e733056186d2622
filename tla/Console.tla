------------------------------- MODULE Console -------------------------------
(***************************************************************************)
(* printf (src/src/kernel.cpp): the text cursor is kept in two static      *)
(* bytes that every caller shares.  Programs call printf with interrupts   *)
(* on, so a printer can be preempted between any two accesses to them, in  *)
(* the middle of an x++ too, which the unoptimised build compiles to a     *)
(* load and a store.  The print system calls, which are not interrupted,   *)
(* are the interleavings in which nobody else moves.                       *)
(*                                                                         *)
(* The characters are left out: only the three kinds printf tells apart    *)
(* move the cursor.                                                        *)
(***************************************************************************)
EXTENDS Integers

CONSTANTS
  Printers,        \* tasks that call printf
  Columns, Rows,   \* 80 and 25
  ByteRange        \* a uint8_t holds 0 .. ByteRange - 1

ASSUME ConsoleAssumption ==
  /\ ByteRange \in Nat
  /\ Columns \in 1 .. ByteRange - 1
  /\ Rows \in 1 .. ByteRange - 1

VARIABLES
  column, row,   \* the statics x and y
  at,            \* where each printer is in printf
  loaded         \* what it has loaded for a ++ or a --

consoleVars == <<column, row, at, loaded>>

ConsoleInit ==
  /\ column = 0 /\ row = 0
  /\ at = [p \in Printers |-> "outside"]
  /\ loaded = [p \in Printers |-> 0]

-----------------------------------------------------------------------------
Go(p, from, to) == at[p] = from /\ at' = [at EXCEPT ![p] = to]

Load(p, from, byte, to) ==
  /\ Go(p, from, to)
  /\ loaded' = [loaded EXCEPT ![p] = byte]
  /\ UNCHANGED <<column, row>>

StoreColumn(p, from, byte, to) ==
  Go(p, from, to) /\ column' = byte /\ UNCHANGED <<row, loaded>>

StoreRow(p, from, byte, to) ==
  Go(p, from, to) /\ row' = byte /\ UNCHANGED <<column, loaded>>

Branch(p, from, test, yes, no) ==
  /\ Go(p, from, IF test THEN yes ELSE no)
  /\ UNCHANGED <<column, row, loaded>>

Plus1(p)  == (loaded[p] + 1) % ByteRange
Minus1(p) == (loaded[p] - 1) % ByteRange

(* The call and the end of the string.                                     *)
Call(p)   == Branch(p, "outside", TRUE, "next", "next")
Return(p) == Branch(p, "next", TRUE, "outside", "outside")

(* A character is written at the cursor, then x++.                         *)
Character(p) == Load(p, "next", column, "advance")
Advance(p)   == StoreColumn(p, "advance", Plus1(p), "right edge")

(* '\n': x = 0, then y++.                                                  *)
Newline(p)      == StoreColumn(p, "next", 0, "newline")
NewlineLoad(p)  == Load(p, "newline", row, "newline store")
NewlineStore(p) == StoreRow(p, "newline store", Plus1(p), "right edge")

(* '\b': if(x > 0) x--.                                                    *)
Backspace(p)      == Branch(p, "next", column > 0, "backspace", "right edge")
BackspaceLoad(p)  == Load(p, "backspace", column, "backspace store")
BackspaceStore(p) == StoreColumn(p, "backspace store", Minus1(p), "right edge")

(* if(x >= 80) {x = 0; y++;}                                               *)
ExactEdge(p) ==                                  \* mutant: == instead of >=
  Branch(p, "right edge", column = Columns, "wrap", "bottom edge")
RightEdge(p) == Branch(p, "right edge", column >= Columns, "wrap", "bottom edge")
Wrap(p)      == StoreColumn(p, "wrap", 0, "wrap row")
WrapLoad(p)  == Load(p, "wrap row", row, "wrap store")
WrapStore(p) == StoreRow(p, "wrap store", Plus1(p), "bottom edge")

(* if(y >= 25) {the screen is cleared; x = 0; y = 0;}                      *)
BottomEdge(p)  == Branch(p, "bottom edge", row >= Rows, "clear", "next")
ClearScreen(p) == StoreColumn(p, "clear", 0, "home")
Home(p)        == StoreRow(p, "home", 0, "next")

Printf(p) ==
  \/ Call(p) \/ Return(p)
  \/ Character(p) \/ Advance(p)
  \/ Newline(p) \/ NewlineLoad(p) \/ NewlineStore(p)
  \/ Backspace(p) \/ BackspaceLoad(p) \/ BackspaceStore(p)
  \/ RightEdge(p) \/ Wrap(p) \/ WrapLoad(p) \/ WrapStore(p)
  \/ BottomEdge(p) \/ ClearScreen(p) \/ Home(p)

ConsoleNext == \E p \in Printers : Printf(p)

ConsoleSpec == ConsoleInit /\ [][ConsoleNext]_consoleVars

-----------------------------------------------------------------------------
(* Properties                                                              *)

Outside == \A p \in Printers : at[p] = "outside"

(* While printers overtake each other the cursor can run off the screen,   *)
(* as far as a byte can count, and the next characters are written there.  *)
(* But it always comes back: when nobody is inside printf, the cursor is   *)
(* on the screen, whatever was lost or counted twice.                      *)
CursorSettles == Outside => column < Columns /\ row < Rows

(* Why: whoever stores a byte that is off the screen has the test of it    *)
(* still before it, and does not lose its way if others reset the cursor.  *)
Correcting(p) == at[p] \in {"right edge", "wrap"}
Scrolling(p)  == at[p] \in {"right edge", "wrap", "wrap row", "wrap store",
                            "bottom edge", "clear", "home"}

CursorIsMinded ==
  /\ column >= Columns => \E p \in Printers : Correcting(p)
  /\ row >= Rows => \E p \in Printers : Scrolling(p)
=============================================================================
