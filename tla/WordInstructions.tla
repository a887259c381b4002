-------------------------- MODULE WordInstructions ---------------------------
(***************************************************************************)
(* What instructions on words have in common.  Scores have no memory of    *)
(* their own here: a behaviour is one instruction, on any operands.        *)
(***************************************************************************)
EXTENDS Constants, Sequences

CONSTANT Operands  \* the words that operands are made of

ASSUME OperandsAssumption == Operands \subseteq Word

(* Four flags, a byte each, fill no word, and the number of bits of a word *)
(* is one of the constants that are set.                                   *)
ASSUME LengthAssumption == ByteBits > 1 /\ Bits \in Initialised

VARIABLES
  instr,  \* the instruction and its operands, the lowest word first
  dest,   \* its result
  cited,  \* the constants %%n that its commands read
  passed  \* its !INTERPRETER: ASSERT commands hold

vars == <<instr, dest, cited, passed>>

(* `const`: the second operand is a constant, s, the distance of a shift.  *)
NoInstr == [op |-> "none", const |-> FALSE, bits |-> 0, a |-> <<>>, b |-> <<>>, s |-> 0]

Init == instr = NoInstr /\ dest = <<>> /\ cited = {} /\ passed = TRUE

Waiting == instr = NoInstr

Executes(op, const, bits, a, b, s) ==
  instr' = [op |-> op, const |-> const, bits |-> bits, a |-> a, b |-> b, s |-> s]

-----------------------------------------------------------------------------
(* Words as numbers.                                                       *)

Unsigned(ws) == (ws[1] % 2 ^ Bits) + (IF Len(ws) = 2 THEN 2 ^ Bits * (ws[2] % 2 ^ Bits) ELSE 0)

(* In two's complement.                                                    *)
Number(ws) == IF Len(ws) = 2 THEN (ws[1] % 2 ^ Bits) + 2 ^ Bits * ws[2] ELSE ws[1]

(* What a register of some bits stands for as a signed number.             *)
Signed(w, bits) == IF w < 2 ^ (bits - 1) THEN w ELSE w - 2 ^ bits

(* A holder of a narrow type is clean after a load, a trunc or a zext, and *)
(* sign-extended if it is a constant; after a sum it is neither.           *)
Clean(w, bits)        == w \in 0 .. 2 ^ bits - 1
SignExtended(w, bits) == w \in -(2 ^ (bits - 1)) .. 2 ^ (bits - 1) - 1

-----------------------------------------------------------------------------
(* Properties of every instruction.                                        *)

(* Operands and results are at most two words, a vector of four words, and *)
(* none is wider than a score.                                             *)
TypeOK ==
  /\ \A ws \in {instr.a, instr.b, dest} :
       Len(ws) \in {0, 1, 2, 4} /\ \A i \in DOMAIN ws : ws[i] \in Word
  /\ cited \subseteq Word /\ passed \in BOOLEAN

(* No constant is read that was never set ("read from uninitialized        *)
(* variable" stops the interpreter), but for two: a distance that makes it *)
(* 1 << 31, and the 0 of a subtraction of two words.                       *)
OtherConstantsSet ==
  /\ ~ (instr.op = "sub" /\ Len(instr.a) = 2)
  /\ instr.const => instr.s # Bits - 1 /\ (instr.op = "lshr" => instr.s # 1)
  => cited \subseteq Initialised
=============================================================================
