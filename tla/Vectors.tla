------------------------------- MODULE Vectors -------------------------------
(***************************************************************************)
(* Instructions on vectors: a word for each element, or, for flags (i1), a *)
(* byte of one word for each.  An i64 under And, Or and Xor is treated as  *)
(* a vector of two words.                                                  *)
(***************************************************************************)
EXTENDS Shifts, Conversions

(* Vectors of two elements.  The first elements of a and b are any two     *)
(* words, and so are the second ones.                                      *)
OnVectors(op, a, b, s, constants) ==
  /\ Executes(op, FALSE, Bits, a, b, s)
  /\ cited' = constants
  /\ UNCHANGED passed

Lanes == {1, 2}

ArithmeticLanes ==
  Waiting /\ \E a \in Doubles, w \in Operands, op \in {"v.add", "v.sub", "v.mul"} :
    LET b == <<w, a[1]>>
    IN /\ OnVectors(op, a, b, 0, {})
       /\ dest' = [i \in Lanes |-> CASE op = "v.add" -> Add(a[i], b[i])
                                     [] op = "v.sub" -> Wrap(a[i] - b[i])
                                     [] op = "v.mul" -> Times(a[i], b[i])]

BitwiseLanes ==
  Waiting /\ \E a \in Doubles, w \in Operands, op \in {"v.and", "v.or", "v.xor"} :
    LET b == <<w, a[1]>>
    IN /\ OnVectors(op, a, b, 0, {})
       /\ dest' = [i \in Lanes |-> CASE op = "v.and" -> And(a[i], b[i])
                                     [] op = "v.or"  -> Or(a[i], b[i])
                                     [] op = "v.xor" -> Xor(a[i], b[i])]

(* ICmp: each flag is added in its byte of the destination, which is not   *)
(* set to 0 before: `old` is what it held.                                 *)
LanePred == [eq  |-> "v.eq",  ne  |-> "v.ne",  ult |-> "v.ult",
             ule |-> "v.ule", uge |-> "v.uge", ugt |-> "v.ugt"]

ICmpLanes ==
  Waiting /\ \E a \in Doubles, w \in Operands, old \in {0, 1}, pred \in DOMAIN LanePred :
    LET b == <<w, a[1]>>
        flag(i) == TimesConst(Flag(Compare(pred, a[i], b[i])), Byte ^ (i - 1))
    IN /\ OnVectors(LanePred[pred], a, b, old, {1, Byte})
       /\ dest' = <<Add(Add(old, flag(1)), flag(2))>>

(* ShuffleVector: an index beyond the first vector is one into the second; *)
(* for the first element of the second the compiler panics.                *)
ShuffleWords ==
  Waiting /\ \E a, b \in Doubles :
    \E mask \in {<<m, n>> : m, n \in {0, 1, 3}} :
      /\ a[1] < a[2] /\ b[1] = a[2]
      /\ OnVectors("shuffle", a, b, mask, {})
      /\ dest' = [i \in Lanes |->
                    IF mask[i] > 2 THEN b[mask[i] - 1] ELSE a[mask[i] + 1]]

ExtractElement ==
  Waiting /\ \E a \in Doubles, i \in {0, 1} :
    /\ OnVectors("extract.element", a, <<>>, i, {})
    /\ dest' = <<a[i + 1]>>

(* The flags above the one extracted stay.                                 *)
ExtractFlag ==
  Waiting /\ \E flags \in [1 .. 4 -> {0, 1}], i \in 0 .. 3 :
    /\ OnVectors("extract.flag", <<FlagsWord(flags)>>, <<>>, i, {Byte ^ i})
    /\ dest' = <<Over(FlagsWord(flags), Byte ^ i)>>

(* Mutant: the element goes one place too far.                             *)
InsertedAfter(v, i, e) == [v EXCEPT ![2 - i] = e]

Inserted(v, i, e) == [v EXCEPT ![i + 1] = e]

InsertElement ==
  Waiting /\ \E a \in Doubles, e \in Operands, i \in {0, 1} :
    /\ OnVectors("insert.element", a, <<e>>, i, {})
    /\ dest' = Inserted(a, i, e)

NextVector ==
  \/ ArithmeticLanes \/ BitwiseLanes \/ ICmpLanes
  \/ ShuffleWords \/ ExtractElement \/ ExtractFlag \/ InsertElement

-----------------------------------------------------------------------------
(* Properties.                                                             *)

Low(w) == w % 2 ^ Bits

LaneRight(i) ==
  LET a == Low(instr.a[i])  b == Low(instr.b[i])
      bit(w, n) == (w \div 2 ^ n) % 2
      flag == ByteOf(dest[1], i - 1)
  IN /\ instr.op = "v.add" => Low(dest[i]) = Low(a + b)
     /\ instr.op = "v.sub" => Low(dest[i]) = Low(a - b)
     /\ instr.op = "v.mul" => Low(dest[i]) = Low(a * b)
     /\ \A n \in 0 .. Bits - 1 :
          /\ instr.op = "v.and" => bit(dest[i], n) = bit(a, n) * bit(b, n)
          /\ instr.op = "v.or"  => (bit(dest[i], n) = 0) = (bit(a, n) + bit(b, n) = 0)
          /\ instr.op = "v.xor" => (bit(dest[i], n) = 0) = (bit(a, n) = bit(b, n))
     /\ instr.s = 0 =>
          /\ instr.op = "v.eq"  => flag = Flag(a = b)
          /\ instr.op = "v.ne"  => flag = Flag(a # b)
          /\ instr.op = "v.ult" => flag = Flag(a < b)
          /\ instr.op = "v.ule" => flag = Flag(a <= b)
          /\ instr.op = "v.uge" => flag = Flag(a >= b)
          /\ instr.op = "v.ugt" => flag = Flag(a > b)

(* Each element is computed alone: no carry and no flag reaches the next   *)
(* one, and one that is moved leaves the others.  Flags are right if the   *)
(* destination held 0 and, extracted, if no flag above them is set.        *)
VectorsRight ==
  /\ instr.op \in {"v.add", "v.sub", "v.mul", "v.and", "v.or", "v.xor",
                   "v.eq", "v.ne", "v.ult", "v.ule", "v.uge", "v.ugt"} =>
       \A i \in Lanes : LaneRight(i)
  /\ instr.op = "shuffle" => dest = [i \in Lanes |-> (instr.a \o instr.b)[instr.s[i] + 1]]
  /\ instr.op = "extract.element" => dest[1] = instr.a[instr.s + 1]
  /\ instr.op = "insert.element" =>
       /\ dest[instr.s + 1] = instr.b[1]
       /\ dest[2 - instr.s] = instr.a[2 - instr.s]
  /\ instr.op = "extract.flag" /\ instr.a[1] < Byte ^ (instr.s + 1) =>
       dest[1] = ByteOf(instr.a[1], instr.s)
=============================================================================
