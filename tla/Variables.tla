------------------------------ MODULE Variables ------------------------------
(***************************************************************************)
(* The global variables of an LLVM module: their types and initialisers.   *)
(* Con is a table of constants like Ty; a constant has a `kind` and, with  *)
(* it: "int" its `value`; "zero" nothing, whatever its type; "parts" the   *)
(* constants `of` which an array or struct is made; "ref" the variable     *)
(* `to` which it points; "gep" that and a `path` from there; "null"        *)
(* nothing; "cast" the constant `of` which it is another view; "fn" the    *)
(* function `to` which it points.                                          *)
(***************************************************************************)
EXTENDS Types

CONSTANTS
  Con,       \* the constants
  Var,       \* the variables
  VarType,   \* the type of each
  VarInit,   \* the initialiser of each
  Fn         \* the functions of the module

ASSUME VariablesAssumption ==
  /\ IsFiniteSet(Var)
  /\ VarType \in [Var -> Type]
  /\ VarInit \in [Var -> DOMAIN Con]

(* A place is a variable and a path into it; a leaf is one that holds a    *)
(* scalar.                                                                 *)
Leaf  == UNION {{<<v, p>> : p \in leafPaths[VarType[v]]} : v \in Var}
Place == UNION {{<<v, p>> : p \in paths[VarType[v]]} : v \in Var}
TypeOf(l) == typeAt[VarType[l[1]]][l[2]]

(* A part of an initialiser: make_zeroed writes out what is zero.          *)
ConPart(k, i) == IF Con[k].kind = "zero" THEN k ELSE Con[k].of[i + 1]

conAt[k \in DOMAIN Con, path \in Seq(Int)] ==
  IF path = <<>> THEN k ELSE conAt[ConPart(k, Head(path)), Tail(path)]

(* Mutant: the bytes are not cut off from those above them.                *)
BytesUncut(n, size) == [i \in 1 .. size |-> n \div Byte ^ (i - 1)]

(* The low `size` bytes of a number in two's complement.                   *)
Bytes(n, size) == [i \in 1 .. size |-> (n \div Byte ^ (i - 1)) % Byte]

Number(bytes) ==
  FoldLeft(LAMBDA n, i : n + bytes[i] * Byte ^ (i - 1), 0, [i \in DOMAIN bytes |-> i])

(* The data behind a scalar: a number's bytes, the place pointed at, or a  *)
(* function.                                                               *)
Null == <<"null">>
PlaceValue(l) == <<"to", l>>
FnValue(f) == <<"fn", f>>

valueOf[k \in DOMAIN Con, size \in Nat] ==
  LET c == Con[k]
  IN CASE c.kind = "int"  -> Bytes(c.value, size)
       [] c.kind = "zero" -> Bytes(0, size)
       [] c.kind = "ref"  -> PlaceValue(<<c.to, <<>>>>)
       [] c.kind = "gep"  -> PlaceValue(<<c.to, c.path>>)
       [] c.kind = "null" -> Null
       [] c.kind = "cast" -> valueOf[c.of, size]
       [] c.kind = "fn"   -> FnValue(c.to)

(* What a scalar holds when the program starts.                            *)
Initial(l) == valueOf[conAt[VarInit[l[1]], l[2]], Size(TypeOf(l))]
=============================================================================
