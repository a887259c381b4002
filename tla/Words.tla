------------------------------- MODULE Words -------------------------------
(***************************************************************************)
(* Scores: 32-bit words in two's complement, which wrap.  A word is four   *)
(* bytes; the number of bits of a byte is a parameter, 8 in the code.      *)
(***************************************************************************)
EXTENDS Integers

CONSTANT ByteBits

ASSUME ByteBitsAssumption == ByteBits \in Nat \ {0}

Bits    == 4 * ByteBits   \* 32
Byte    == 2 ^ ByteBits   \* 256, %%256
Half    == Byte * Byte    \* 65536, %%65536
HighBit == 2 ^ (Bits - 1) \* minus i32::MIN
Word    == -HighBit .. HighBit - 1

Wrap(n) == ((n + HighBit) % (2 * HighBit)) - HighBit

Add(a, b)   == Wrap(a + b)
Times(a, b) == Wrap(a * b)

(* Mutant: rounded down.                                                   *)
OverFloor(a, b) == Wrap(IF b < 0 THEN (-a) \div (-b) ELSE a \div b)

(* `/=`, as the interpreter does it: towards zero.                         *)
Over(a, b) ==
  LET Abs(n) == IF n < 0 THEN -n ELSE n
      q == Abs(a) \div Abs(b)
  IN Wrap(IF (a < 0) = (b < 0) THEN q ELSE -q)

(* `%=` by what is not negative: never negative.                           *)
Mod(a, b) == a % b

(* The byte i of a word, the lowest first.                                 *)
ByteOf(w, i) == (w \div Byte ^ i) % Byte

(* intrinsic:and, or and xor: as many rounds as a word has bits, each of   *)
(* which looks at the sign bits of a and b.  `ones` has the pairs of bits  *)
(* for which the bit of the result is set.                                 *)
Bitwise(ones, a, b) ==
  LET round[n \in 0 .. Bits] ==
        IF n = 0 THEN [result |-> 0, a |-> a, b |-> b]
        ELSE LET s   == round[n - 1]
                 bit == IF <<s.a < 0, s.b < 0>> \in ones THEN 1 ELSE 0
             IN [result |-> Add(Add(s.result, s.result), bit),
                 a |-> Add(s.a, s.a),
                 b |-> Add(s.b, s.b)]
  IN round[Bits].result

And(a, b) == Bitwise({<<TRUE, TRUE>>}, a, b)

(* powtab[s]: the last entry is not positive.                              *)
Power(s) == Wrap(2 ^ s)

(* intrinsic:lshr.  Without the sign bit the division is exact; the bit    *)
(* goes back in as powtab[31 - s].                                         *)
Lshr(a, s) ==
  CASE s >= Bits -> 0
    [] s < 1     -> a
    [] s \in 1 .. Bits - 1 /\ a >= 0 -> Over(a, Power(s))
    [] s \in 1 .. Bits - 1 /\ a < 0  ->
         Add(Over(Add(a, -HighBit), Power(s)), Power(Bits - 1 - s))
=============================================================================
