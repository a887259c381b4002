------------------------------- MODULE Shifts -------------------------------
(***************************************************************************)
(* Shifts and bitwise instructions.  Scores can only be added, multiplied, *)
(* divided and compared; what LLVM asks of a bit pattern is put together   *)
(* from these.                                                             *)
(***************************************************************************)
EXTENDS WordInstructions

(* 1 << s, as the compiler computes it in 32 bits.                         *)
One(s) == Power(s)

(* Mutant: one doubling too few.                                           *)
ShlOnceLess(a, s) == Wrap(a * 2 ^ (IF s > 1 THEN s - 1 ELSE 0))

(* intrinsic:shl doubles as long as the distance is positive.              *)
Shl(a, s) ==
  LET doubled[n \in 0 .. (IF s > 0 THEN s ELSE 0)] ==
        IF n = 0 THEN a ELSE Times(doubled[n - 1], 2)
  IN doubled[IF s > 0 THEN s ELSE 0]

(* Mutant: the quotient is rounded towards zero.                           *)
AshrTruncated(a, s) == Over(a, Power(s))

(* intrinsic:ashr: what is negative is first lowered by the divisor less 1.*)
Ashr(a, s) == Over(IF a < 0 THEN Add(a, - (Power(s) - 1)) ELSE a, Power(s))

(* intrinsic:shl64.  For more than 32 both shl and lshr are given a        *)
(* negative distance somewhere, for which they do nothing.                 *)
Shl64(lo, hi, s) == <<Shl(lo, s), Add(Shl(hi, s), Lshr(lo, Bits - s))>>

(* intrinsic:lshr64; as with shl64, up to 32.                              *)
Lshr64(lo, hi, s) == <<Add(Lshr(lo, s), Shl(hi, Bits - s)), Lshr(hi, s)>>

(* intrinsic:llvm_fshr_i32; %tempfshr_%5%0 chooses b when nothing is       *)
(* shifted.                                                                *)
Fshr(a, b, s) ==
  LET t == ModConst(s, Bits)
  IN IF t = 0 THEN b ELSE Add(Shl(a, Bits - t), Lshr(b, t))

(* Mutant: the loop does not stop at 32.                                   *)
CtlzPositive(a) ==
  IF a < 0 THEN 0 ELSE IF a = 0 THEN 0
  ELSE CHOOSE n \in 1 .. Bits : Shl(a, n) < 0 /\ \A m \in 1 .. n - 1 : Shl(a, m) >= 0

(* intrinsic:llvm_ctlz_i32: doublings until the sign bit is set, at most   *)
(* as many as there are bits.                                              *)
Ctlz(a) ==
  LET loop[n \in 1 .. Bits] ==
        IF n < Bits /\ Shl(a, n) >= 0 THEN loop[n + 1] ELSE n
  IN IF a < 0 THEN 0 ELSE loop[1]

Or(a, b) == Bitwise({<<TRUE, TRUE>>, <<TRUE, FALSE>>, <<FALSE, TRUE>>}, a, b)

Xor(a, b) == Bitwise({<<TRUE, FALSE>>, <<FALSE, TRUE>>}, a, b)

-----------------------------------------------------------------------------
(* The instructions.                                                       *)

(* Narrower types have a word too.  Whatever it has above their bits is    *)
(* shifted with the rest.                                                  *)
Narrow == {ByteBits, 2 * ByteBits, 3 * ByteBits}

(* A multiplication by a constant must not leave an i8, i16 or i24.  The   *)
(* bound of an i24 is 16777216, one too many; what is negative passes.     *)
Largest(bits) == IF bits = 3 * ByteBits THEN 2 ^ bits ELSE 2 ^ bits - 1

ShlVariable ==
  Waiting /\ \E bits \in Narrow \union {Bits} : \E a \in Operands, s \in 0 .. bits - 1 :
    /\ Executes("shl", FALSE, bits, <<a>>, <<>>, s)
    /\ dest' = <<IF bits < Bits THEN ModConst(Shl(a, s), One(bits)) ELSE Shl(a, s)>>
    /\ cited' = {2} \union (IF bits < Bits THEN {One(bits)} ELSE {})
    /\ UNCHANGED passed

ShlConst ==
  Waiting /\ \E bits \in Narrow \union {Bits} : \E a \in Operands, s \in 0 .. bits - 1 :
    /\ Executes("shl", TRUE, bits, <<a>>, <<>>, s)
    /\ dest' = <<TimesConst(a, One(s))>>
    /\ cited' = {One(s)}
    /\ passed' = (bits < Bits => dest'[1] <= Largest(bits))

(* From here on a has a low and a high word.  Constant distances are not   *)
(* 0: LLVM removes such a shift, and the compiler cannot compute 1 << 32.  *)
Shl64Variable ==
  Waiting /\ \E lo, hi \in Operands, s \in 0 .. 2 * Bits - 1 :
    /\ Executes("shl", FALSE, 2 * Bits, <<lo, hi>>, <<>>, s)
    /\ dest' = Shl64(lo, hi, s)
    /\ cited' = {2, -1}
    /\ UNCHANGED passed

(* A constant distance below 32.  The bits that go from the low to the     *)
(* high word come from a signed division; the multipliers are literals.    *)
Shl64ConstNear ==
  Waiting /\ \E lo, hi \in Operands, s \in 1 .. Bits - 1 :
    /\ Executes("shl", TRUE, 2 * Bits, <<lo, hi>>, <<>>, s)
    /\ dest' = <<Times(lo, One(s)), Add(Times(hi, One(s)), Over(lo, One(Bits - s)))>>
    /\ cited' = {}
    /\ passed' = (hi \in 0 .. Wrap((2 ^ Bits - 1) \div 2 ^ s))

Shl64ConstFar ==
  Waiting /\ \E lo, hi \in Operands, s \in Bits .. 2 * Bits - 1 :
    /\ Executes("shl", TRUE, 2 * Bits, <<lo, hi>>, <<>>, s)
    /\ dest' = <<0, Times(lo, One(s - Bits))>>
    /\ cited' = {}
    /\ UNCHANGED passed

(* An i48 is shifted by whole bytes, and must not leave its low word.      *)
Shl48 ==
  Waiting /\ \E lo, hi \in Operands, n \in 1 .. 4 :
    /\ hi \in 0 .. Half - 1
    /\ Executes("shl", TRUE, 6 * ByteBits, <<lo, hi>>, <<>>, n * ByteBits)
    /\ dest' = IF n = 4 THEN <<0, lo>> ELSE <<Times(lo, Byte ^ n), 0>>
    /\ cited' = {}
    /\ passed' = (hi = 0 /\ lo \in 0 .. (IF n = 4 THEN Byte ELSE Byte ^ (4 - n)) - 1)

LshrVariable ==
  Waiting /\ \E bits \in Narrow \union {Bits} : \E a \in Operands, s \in 0 .. bits - 1 :
    /\ Executes("lshr", FALSE, bits, <<a>>, <<>>, s)
    /\ dest' = <<Lshr(a, s)>>
    /\ cited' = {-1}
    /\ UNCHANGED passed

Lshr64Variable ==
  Waiting /\ \E lo, hi \in Operands, s \in 0 .. 2 * Bits - 1 :
    /\ Executes("lshr", FALSE, 2 * Bits, <<lo, hi>>, <<>>, s)
    /\ dest' = Lshr64(lo, hi, s)
    /\ cited' = {2, -1}
    /\ UNCHANGED passed

(* lshr_64_bit_const.  The bits that go from the high to the low word are  *)
(* cut off and moved up by constants that are named by their numbers.      *)
Lshr64ConstNear ==
  Waiting /\ \E lo, hi \in Operands, s \in 1 .. Bits - 1 :
    /\ Executes("lshr", TRUE, 2 * Bits, <<lo, hi>>, <<>>, s)
    /\ LET temp == TimesConst(ModConst(hi, One(s)), One(Bits - s))
       IN dest' = <<Add(Lshr(lo, s), temp), Lshr(hi, s)>>
    /\ cited' = {One(s), One(Bits - s), -1}
    /\ UNCHANGED passed

Lshr64ConstFar ==
  Waiting /\ \E lo, hi \in Operands, s \in Bits .. 2 * Bits - 1 :
    /\ Executes("lshr", TRUE, 2 * Bits, <<lo, hi>>, <<>>, s)
    /\ dest' = <<IF s > Bits THEN Lshr(hi, s - Bits) ELSE hi, 0>>
    /\ cited' = IF s > Bits THEN {-1} ELSE {}
    /\ UNCHANGED passed

AshrVariable ==
  Waiting /\ \E bits \in Narrow \union {Bits} : \E a \in Operands, s \in 0 .. bits - 1 :
    /\ Executes("ashr", FALSE, bits, <<a>>, <<>>, s)
    /\ dest' = <<Ashr(a, s)>>
    /\ cited' = {}
    /\ UNCHANGED passed

(* llvm.fshr.i32: the distance is any word.                                *)
FunnelShift ==
  Waiting /\ \E a, b, s \in Operands :
    /\ Executes("fshr", FALSE, Bits, <<a>>, <<b>>, s)
    /\ dest' = <<Fshr(a, b, s)>>
    /\ cited' = {Bits, 2, -1}
    /\ UNCHANGED passed

(* llvm.ctlz.i32.                                                          *)
CountZeros ==
  Waiting /\ \E a \in Operands :
    /\ Executes("ctlz", FALSE, Bits, <<a>>, <<>>, 0)
    /\ dest' = <<Ctlz(a)>>
    /\ cited' = {2}
    /\ UNCHANGED passed

(* And, Or and Xor: word by word, except on i1, where scores are compared. *)
BitOp(op, a, b) ==
  CASE op = "and" -> And(a, b) [] op = "or" -> Or(a, b) [] op = "xor" -> Xor(a, b)

FlagOp(op, a, b) ==
  CASE op = "and" -> IF a = 1 /\ b = 1 THEN 1 ELSE 0
    [] op = "or"  -> IF a = 0 /\ b = 0 THEN 0 ELSE 1
    [] op = "xor" -> IF (a = 1 /\ b = 0) \/ (a = 0 /\ b = 1) THEN 1 ELSE 0

BitwiseWord ==
  Waiting /\ \E op \in {"and", "or", "xor"} : \E a, b \in Operands :
    /\ Executes(op, FALSE, Bits, <<a>>, <<b>>, 0)
    /\ dest' = <<BitOp(op, a, b)>>
    /\ cited' = {}
    /\ UNCHANGED passed

BitwiseFlag ==
  Waiting /\ \E op \in {"and", "or", "xor"} : \E a, b \in {0, 1} :
    /\ Executes(op, FALSE, 1, <<a>>, <<b>>, 0)
    /\ dest' = <<FlagOp(op, a, b)>>
    /\ cited' = {}
    /\ UNCHANGED passed

NextShift ==
  \/ ShlVariable \/ ShlConst \/ Shl64Variable \/ Shl64ConstNear \/ Shl64ConstFar \/ Shl48
  \/ LshrVariable \/ Lshr64Variable \/ Lshr64ConstNear \/ Lshr64ConstFar
  \/ AshrVariable \/ FunnelShift \/ CountZeros \/ BitwiseWord \/ BitwiseFlag

-----------------------------------------------------------------------------
(* Properties.                                                             *)

ShiftedLeft  == Unsigned(dest) = (Unsigned(instr.a) * 2 ^ instr.s) % 2 ^ instr.bits
ShiftedRight == Unsigned(dest) = Unsigned(instr.a) \div 2 ^ instr.s

(* shl shifts, through the loop, the masking of narrow types and the       *)
(* exchange between two words, if the distance is at most one word; by a   *)
(* constant, if its assertions hold: they keep every bit of a clean holder *)
(* in the type.  The i24, a 64-bit value with bit 31 set, and one << 31    *)
(* are left out.  Of any other holder of a narrow type the bits of the     *)
(* type are right, whatever the rest of it leaves above them.              *)
ShlShifts ==
  /\ /\ instr.op = "shl"
     /\ ~ instr.const => instr.s <= Bits
     /\ instr.const =>
          /\ passed /\ cited \subseteq Initialised
          /\ instr.bits # 3 * ByteBits
          /\ instr.bits < Bits => Clean(instr.a[1], instr.bits)
          /\ ~ (instr.bits = 2 * Bits /\ instr.s < Bits /\ instr.a[1] < 0)
     => ShiftedLeft
  /\ instr.op = "shl" /\ instr.const /\ instr.bits < Bits /\ cited \subseteq Initialised
     => dest[1] % 2 ^ instr.bits = (Unsigned(instr.a) * 2 ^ instr.s) % 2 ^ instr.bits

(* lshr shifts zeros in, from a byte to two words, if the constants it is  *)
(* compiled with are set, a variable distance is at most one word and a    *)
(* narrow holder is clean; ashr rounds down if a narrow holder is          *)
(* sign-extended, and wherever the lowered dividend is still a word and    *)
(* the divisor positive.                                                   *)
ShrShifts ==
  /\ /\ instr.op = "lshr" /\ cited \subseteq Initialised
     /\ instr.const \/ instr.s <= Bits
     /\ instr.bits < Bits => Clean(instr.a[1], instr.bits)
     => ShiftedRight
  /\ /\ instr.op = "ashr" /\ SignExtended(instr.a[1], instr.bits)
     /\ instr.s < Bits - 1 /\ instr.a[1] - (2 ^ instr.s - 1) \in Word
     => dest[1] = Signed(instr.a[1] % 2 ^ instr.bits, instr.bits) \div 2 ^ instr.s

(* "l = (l >> s) | (h << (32 - s))", as lshr64.mcfunction begins, and the  *)
(* same of shl64.mcfunction, for any distance a 64-bit shift may have.     *)
Shifts64 ==
  instr.bits = 2 * Bits /\ ~ instr.const =>
    /\ instr.op = "shl"  => ShiftedLeft
    /\ instr.op = "lshr" => ShiftedRight

(* fshr takes 32 of the 64 bits of a and b; ctlz counts the zeros above the*)
(* highest one; each bit of and, or and xor is that of the operands' bits. *)
BitsRight ==
  /\ instr.op = "fshr" =>
       Unsigned(dest) =
         (Unsigned(<<instr.b[1], instr.a[1]>>) \div 2 ^ (instr.s % Bits)) % 2 ^ Bits
  /\ instr.op = "ctlz" =>
       /\ dest[1] \in 0 .. Bits
       /\ dest[1] > 0 => Unsigned(instr.a) < 2 ^ (Bits - dest[1])
       /\ dest[1] < Bits => Unsigned(instr.a) >= 2 ^ (Bits - dest[1] - 1)
  /\ instr.op \in {"and", "or", "xor"} =>
       \A i \in 0 .. Bits - 1 :
         LET Bit(w) == (w \div 2 ^ i) % 2
             both   == Bit(instr.a[1]) + Bit(instr.b[1])
         IN Bit(dest[1]) = CASE instr.op = "and" -> both \div 2
                             [] instr.op = "or"  -> (both + 1) \div 2
                             [] instr.op = "xor" -> both % 2

(* Every shift and bitwise instruction, on one word and on two, is that of *)
(* the numbers, though every command is signed: what the three parts say.  *)
ShiftsRight == ShlShifts /\ ShrShifts /\ BitsRight
=============================================================================
