------------------------------- MODULE ParseInt -------------------------------
(***************************************************************************)
(* strconvParseInt (gateway/fix/session.go), which reads the quantities    *)
(* and prices of FIX orders: a sign, then one character per step.  Sums    *)
(* and products wrap, as int64 does.                                       *)
(***************************************************************************)
EXTENDS Integers

CONSTANTS
  Limit,         (* 2^63, the least number that is too great               *)
  MaxChars       (* bound of the characters of a number                    *)

ASSUME ParseIntAssumption == Limit \in Nat \ {0} /\ MaxChars \in Nat

VARIABLES
  parse,         (* "start", "digits", "error" or "end"                    *)
  negative, result,
  chars,         (* how many characters were read                          *)
  value          (* history: the number that they write                    *)

intVars == <<parse, negative, result, chars, value>>

IntInit ==
  /\ parse = "start"
  /\ negative = FALSE
  /\ result = 0
  /\ chars = 0
  /\ value = 0

Modulus == 2 * Limit
Lowest == -Limit

(* Two's complement. *)
Wrap(x) == ((x - Lowest) % Modulus) + Lowest

Sign(minus) ==
  /\ parse = "start"
  /\ parse' = "digits"
  /\ negative' = minus
  /\ chars' = IF minus THEN 1 ELSE 0
  /\ UNCHANGED <<result, value>>

(* Any other character stands as 10. *)
IsDigit(c) == c \in 0..9

(* Mutant of Shifted: the sum does not wrap, and is cut off at the end.     *)
ShiftedCut(c) == IF result * 10 + c >= Limit THEN Limit - 1 ELSE result * 10 + c

Shifted(c) == Wrap(result * 10 + c)

ReadChar(c) ==
  /\ parse = "digits"
  /\ chars < MaxChars
  /\ chars' = chars + 1
  /\ parse' = IF IsDigit(c) THEN "digits" ELSE "error"
  /\ result' = IF IsDigit(c) THEN Shifted(c) ELSE 0
  /\ value' = value * 10 + c
  /\ UNCHANGED negative

End ==
  /\ parse = "digits"
  /\ parse' = "end"
  /\ result' = IF negative THEN Wrap(-result) ELSE result
  /\ value' = IF negative THEN -value ELSE value
  /\ UNCHANGED <<negative, chars>>

IntNext == End \/ \E minus \in BOOLEAN : Sign(minus) \/ \E c \in 0..10 : ReadChar(c)

IntSpec == IntInit /\ [][IntNext]_intVars

-----------------------------------------------------------------------------
(* A number that an int64 can hold is read exactly, the lowest one, whose   *)
(* amount does not fit, included.  A greater one is not refused: what is    *)
(* read has its last bits.                                                  *)
NumbersAreExact ==
  parse = "end" =>
    /\ value \in Lowest..(Limit - 1) => result = value
    /\ result = Wrap(value)
=============================================================================
