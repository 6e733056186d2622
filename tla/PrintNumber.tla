----------------------------- MODULE PrintNumber ------------------------------
(***************************************************************************)
(* printDec32 (src/src/kernel.cpp): a number as text, made in place in an  *)
(* array of ten characters and a terminator: the digits from the right,    *)
(* the zeros in front of them counted, and the rest moved to the left over *)
(* itself.  A character is its digit.                                      *)
(***************************************************************************)
EXTENDS Integers, Sequences

CONSTANT Numbers   \* of 32 bits, so that ten digits are enough

ASSUME NumbersAssumption ==
  /\ Numbers \subseteq Nat
  /\ \A number \in Numbers : number \div 1000000000 < 10

VARIABLES
  argument,   \* history: the key that printDec32 was called with
  foo,
  printing    \* [step, key, i, j]: where it is, and its locals

printVars == <<argument, foo, printing>>

Terminator == -1

PrintInit ==
  /\ argument \in Numbers
  /\ foo = [k \in 0 .. 10 |-> IF k = 10 THEN Terminator ELSE 0]
  /\ printing = [step |-> "digits", key |-> argument, i |-> 9, j |-> 0]

-----------------------------------------------------------------------------
(* for(int i = 9; i >= 0; i--), and i = 0 again.                           *)
Digits ==
  /\ printing.step = "digits"
  /\ foo' = [foo EXCEPT ![printing.i] = printing.key % 10]
  /\ printing' = IF printing.i = 0
                 THEN [printing EXCEPT !.step = "zeros"]
                 ELSE [printing EXCEPT !.i = @ - 1, !.key = @ \div 10]
  /\ UNCHANGED argument

(* while(foo[i] == '0') i++; if nothing is left, the last zero stays.      *)
NothingStays(i) == i                             \* mutant: no if(i == 10)
FirstKept(i) == IF i = 10 THEN i - 1 ELSE i

Zeros ==
  /\ printing.step = "zeros"
  /\ printing' = IF foo[printing.i] = 0
                 THEN [printing EXCEPT !.i = @ + 1]
                 ELSE [printing EXCEPT !.step = "move",
                         !.i = FirstKept(@), !.j = FirstKept(printing.i)]
  /\ UNCHANGED <<argument, foo>>

(* for(int j = i; j < 10; j++) foo[j - i] = foo[j], and the terminator.    *)
MoveLeft ==
  /\ printing.step = "move"
  /\ LET i == printing.i
         j == printing.j
     IN  \/ /\ j < 10
            /\ foo' = [foo EXCEPT ![j - i] = foo[j]]
            /\ printing' = [printing EXCEPT !.j = j + 1]
         \/ /\ j = 10
            /\ foo' = [foo EXCEPT ![10 - i] = Terminator]
            /\ printing' = [printing EXCEPT !.step = "print"]
  /\ UNCHANGED argument

PrintNext == Digits \/ Zeros \/ MoveLeft

PrintSpec == PrintInit /\ [][PrintNext]_printVars

-----------------------------------------------------------------------------
(* Properties                                                              *)

(* What is printed, up to the terminator, is the number, without zeros in  *)
(* front of it, but with one digit at least.                               *)
Text == CHOOSE text \in {[k \in 1 .. n |-> foo[k - 1]] : n \in 0 .. 10} :
          Terminator \notin {text[k] : k \in DOMAIN text} /\ foo[Len(text)] = Terminator

NumberIn(text) ==
  LET Prefix[k \in 0 .. Len(text)] ==
        IF k = 0 THEN 0 ELSE 10 * Prefix[k - 1] + text[k]
  IN  Prefix[Len(text)]

NumbersAreRight ==
  printing.step = "print" =>
    /\ Text # <<>> /\ NumberIn(Text) = argument
    /\ Text[1] = 0 => argument = 0 /\ Len(Text) = 1
=============================================================================
