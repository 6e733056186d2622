------------------------ MODULE GlobalDescriptorTable -------------------------
(***************************************************************************)
(* SegmentDescriptor (src/src/gdt.cpp): a segment's base and limit are     *)
(* spread over the eight bytes the processor expects, a limit of more than *)
(* 16 bits counted in pages, and read back by Base and Limit.              *)
(*                                                                         *)
(* The widths follow from the number of values of four bits, 16; a smaller *)
(* number lets all limits and bases be tried.                              *)
(***************************************************************************)
EXTENDS Integers

CONSTANTS
  Nibble,           \* values of four bits
  Bases, Limits     \* what the constructor may be given

Byte == Nibble * Nibble
Page == Byte * Nibble
WordSize == Byte * Byte * Byte * Byte

ASSUME SegmentAssumption ==
  /\ Nibble \in Nat /\ Nibble >= 2
  /\ Bases \subseteq 0 .. WordSize - 1
  /\ Limits \subseteq 0 .. WordSize - 1

VARIABLES
  given,        \* the arguments of the constructor
  descriptor    \* the eight bytes, once it has run

segmentVars == <<given, descriptor>>

NoDescriptor == <<>>

SegmentInit ==
  /\ given \in [base : Bases, limit : Limits]
  /\ descriptor = NoDescriptor

-----------------------------------------------------------------------------
Small(limit) == limit <= Byte * Byte

(* The limit in the descriptor's unit, never rounded up.                   *)
SqueezeUp(limit) ==                              \* mutant: low bits cut off
  IF Small(limit) THEN limit ELSE limit \div Page
Squeeze(limit) ==
  CASE Small(limit)             -> limit
    [] ~Small(limit) /\ limit % Page # Page - 1 -> limit \div Page - 1
    [] OTHER                    -> limit \div Page

(* limit0, limit1 and base0 to base3 are bytes, limit2 the lower half of   *)
(* the byte whose upper half has the page bit.                             *)
Encode(base, limit) ==
  [limit0 |-> Squeeze(limit) % Byte,
   limit1 |-> (Squeeze(limit) \div Byte) % Byte,
   limit2 |-> (Squeeze(limit) \div (Byte * Byte)) % Nibble,
   pages  |-> ~Small(limit),
   base0  |-> base % Byte,
   base1  |-> (base \div Byte) % Byte,
   base2  |-> (base \div (Byte * Byte)) % Byte,
   base3  |-> (base \div (Byte * Byte * Byte)) % Byte]

Base(d) == ((d.base3 * Byte + d.base2) * Byte + d.base1) * Byte + d.base0

Limit(d) ==
  LET count == (d.limit2 * Byte + d.limit1) * Byte + d.limit0
  IN  IF d.pages THEN count * Page + Page - 1 ELSE count

Construct ==
  /\ descriptor = NoDescriptor
  /\ descriptor' = Encode(given.base, given.limit)
  /\ UNCHANGED given

SegmentSpec == SegmentInit /\ [][Construct]_segmentVars

-----------------------------------------------------------------------------
(* Properties                                                              *)

(* The segment starts where it was told to, does not reach further than it *)
(* was told to, and wastes less than a page ("we might go beyond the       *)
(* physical limit", "might have up to 4095 wasted bytes").                 *)
SegmentIsExact ==
  descriptor # NoDescriptor =>
    /\ Base(descriptor) = given.base
    /\ Limit(descriptor) <= given.limit
    /\ given.limit - Limit(descriptor) < Page
=============================================================================
