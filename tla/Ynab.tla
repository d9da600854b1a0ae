--------------------------------- MODULE Ynab ---------------------------------
(***************************************************************************)
(* The arithmetic of src/src/ynab.rs: the text of an amount, as the        *)
(* parsers find it in a mail, becomes the negative milliunits of a YNAB    *)
(* transaction, in checked 32-bit arithmetic.                              *)
(*                                                                         *)
(* An Option of the code is a set here: {} is None, {n} is Some(n).        *)
(***************************************************************************)
EXTENDS Integers

CONSTANT MaxI32         \* i32::MAX; TLC takes a smaller one

ASSUME MaxI32Assumption == MaxI32 \in Nat

I32 == (-MaxI32 - 1) .. MaxI32

(* What the conversion tells apart in a text once its commas are gone: the *)
(* dollar signs in front, digits, and a dot with two digits; `plain' is    *)
(* FALSE if there is anything else in it.                                  *)
AmountText == [signs : Nat, dollars : Nat, cents : 0 .. 99, plain : BOOLEAN]

(* Defect: arithmetic that wraps around.                                   *)
WrappingMul(option, k) ==
    LET width == 2 * (MaxI32 + 1)
    IN  {((n * k + MaxI32 + 1) % width) - MaxI32 - 1 : n \in option}

CheckedMul(option, k) == {n * k : n \in option} \intersect I32
CheckedAdd(option, k) == {n + k : n \in option} \intersect I32
CheckedNeg(option) == {-n : n \in option} \intersect I32

(* The pattern allows one dollar sign at most; the digits are parsed into  *)
(* an i32 before anything is computed.                                     *)
Captures(text) == text.plain /\ text.signs <= 1 /\ text.dollars \in I32

convert_amount_to_ynab_form(text) ==
    IF Captures(text)
    THEN CheckedNeg(CheckedMul(CheckedAdd(CheckedMul({text.dollars}, 100),
                                          text.cents), 10))
    ELSE {}
-----------------------------------------------------------------------------
(* The amount a text stands for, in milliunits, over the integers.         *)
Milliunits(text) == -(1000 * text.dollars + 10 * text.cents)

(* ... if YNAB can be told of it.                                          *)
ExactMilliunits(text) ==
    IF text.plain /\ text.signs <= 1 /\ -Milliunits(text) <= MaxI32
    THEN {Milliunits(text)}
    ELSE {}
=============================================================================
