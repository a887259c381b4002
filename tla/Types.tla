-------------------------------- MODULE Types --------------------------------
(***************************************************************************)
(* LLVM types and how compile_ir.rs lays them out in memory.  Ty is a      *)
(* table: a type is its index there, and comes after the types it is made  *)
(* of.  An entry has a `kind` and, with it: "int" its `bits`; "ptr" the    *)
(* type `to` which it points; "code", a pointer to a function, nothing;    *)
(* "struct" its `elems` and whether it is `packed`; "array" the type `of`  *)
(* its `n` elements; "named" its definition `of`.  (A variable of a vector *)
(* type cannot be initialised.)                                            *)
(***************************************************************************)
EXTENDS Words, Sequences, SequencesExt

CONSTANT Ty

Type == DOMAIN Ty
Kind(t) == Ty[t].kind

(* What type_layout has a case for.                                        *)
WellFormedType(t) ==
  /\ Kind(t) \in {"int", "ptr", "code", "struct", "array", "named"}
  /\ Kind(t) = "int" => Ty[t].bits \in {1, 8, 16, 24, 32, 48, 64}
  /\ Kind(t) = "struct" => Ty[t].packed \in BOOLEAN /\ Ty[t].elems \in Seq(1 .. t - 1)
  /\ Kind(t) = "array" => Ty[t].n \in Nat /\ Ty[t].of \in 1 .. t - 1
  /\ Kind(t) = "named" => Ty[t].of \in 1 .. t - 1 /\ Kind(Ty[t].of) = "struct"

ASSUME TypesAssumption ==
  Ty \in Seq(ToSet(Ty)) /\ \A t \in Type : WellFormedType(t)

(* std::alloc::Layout: a size and an alignment, and what extend and        *)
(* pad_to_align make of them.                                              *)
PadTo(n, align) == n + ((align - (n % align)) % align)
Greater(a, b) == IF a < b THEN b ELSE a

EmptyLayout == [size |-> 0, align |-> 1]
OffsetAfter(l, m) == PadTo(l.size, m.align)
Extend(l, m) == [size  |-> OffsetAfter(l, m) + m.size,
                 align |-> Greater(l.align, m.align)]
PadToAlign(l) == [l EXCEPT !.size = PadTo(@, l.align)]

ExtendAll(layouts) == FoldLeft(Extend, EmptyLayout, layouts)
SumSizes(layouts)  == FoldLeft(LAMBDA n, l : n + l.size, 0, layouts)

IntLayout(bits) ==
  CASE bits \in {1, 8} -> [size |-> 1, align |-> 1]
    [] bits = 16       -> [size |-> 2, align |-> 2]
    [] bits = 24       -> [size |-> 3, align |-> 4]
    [] bits = 32       -> [size |-> 4, align |-> 4]
    [] bits = 48       -> [size |-> 6, align |-> 4]
    [] bits = 64       -> [size |-> 8, align |-> 4]

PointerLayout == [size |-> 4, align |-> 4]

(* The size of a type does not include the padding behind its last part.   *)
typeLayout[t \in Type] ==
  LET elems    == [i \in DOMAIN Ty[t].elems |-> typeLayout[Ty[t].elems[i]]]
      copies   == [i \in 1 .. Ty[t].n |-> typeLayout[Ty[t].of]]
  IN CASE Kind(t) = "int"    -> IntLayout(Ty[t].bits)
       [] Kind(t) \in {"ptr", "code"} -> PointerLayout
       [] Kind(t) = "struct" -> IF Ty[t].packed
                                THEN [size |-> SumSizes(elems), align |-> 1]
                                ELSE ExtendAll(elems)
       [] Kind(t) = "named"  -> typeLayout[Ty[t].of]
       [] Kind(t) = "array"  -> ExtendAll(copies)

Size(t) == typeLayout[t].size

(* The distance from one element to the next one.                          *)
Stride(t) == PadToAlign(typeLayout[t]).size

(* Where part i of a struct begins, counted from 0.                        *)
OffsetOfPacked(t, i) ==
  SumSizes([j \in 1 .. i |-> typeLayout[Ty[t].elems[j]]])

(* Mutant: parts of a struct follow each other without padding.            *)
OffsetOfUnpadded(t, i) == OffsetOfPacked(t, i)

OffsetOf(t, i) ==
  IF Ty[t].packed THEN OffsetOfPacked(t, i)
  ELSE OffsetAfter(ExtendAll([j \in 1 .. i |-> typeLayout[Ty[t].elems[j]]]),
                   typeLayout[Ty[t].elems[i + 1]])

(* Where element i of an array of t begins.                                *)
OffsetOfArray(t, i) ==
  OffsetAfter(ExtendAll([j \in 1 .. i |-> typeLayout[t]]), typeLayout[t])

-----------------------------------------------------------------------------
(* Paths: the indices that lead to a part of a part ... of a value.        *)
Scalar(t) == Kind(t) \in {"int", "ptr", "code"}

Part(t, i) ==
  CASE Kind(t) = "struct" -> Ty[t].elems[i + 1]
    [] Kind(t) = "array"  -> Ty[t].of
    [] Kind(t) = "named"  -> Ty[Ty[t].of].elems[i + 1]

PartCount(t) ==
  CASE Kind(t) = "struct" -> Len(Ty[t].elems)
    [] Kind(t) = "array"  -> Ty[t].n
    [] Kind(t) = "named"  -> Len(Ty[Ty[t].of].elems)

leafPaths[t \in Type] ==
  IF Scalar(t) THEN {<<>>}
  ELSE UNION {{<<i>> \o p : p \in leafPaths[Part(t, i)]} : i \in 0 .. PartCount(t) - 1}

(* How far one index leads into a value of type t.                         *)
PartOffset(t, i) ==
  CASE Kind(t) = "struct" -> OffsetOf(t, i)
    [] Kind(t) = "named"  -> OffsetOf(Ty[t].of, i)
    [] Kind(t) = "array"  -> Stride(Ty[t].of) * i

(* The indices that getelementptr_const takes: those of the parts of a     *)
(* struct, and of an array whatever it is given.                           *)
Indexed(t, i) ==
  \/ Kind(t) = "array"
  \/ Kind(t) \in {"struct", "named"} /\ i \in 0 .. PartCount(t) - 1

(* getelementptr_const: where a path leads, to a part of which type and    *)
(* how far into a value of type t.                                         *)
typeAt[t \in Type] ==
  [path \in Seq(Int) |->
     IF path = <<>> \/ ~ Indexed(t, Head(path)) THEN t
     ELSE typeAt[Part(t, Head(path))][Tail(path)]]

pathOffset[t \in Type] ==
  [path \in Seq(Int) |->
     IF path = <<>> \/ ~ Indexed(t, Head(path)) THEN 0
     ELSE PartOffset(t, Head(path)) + pathOffset[Part(t, Head(path))][Tail(path)]]

(* Every path into a value, those to its inner parts included.             *)
paths[t \in Type] ==
  {<<>>} \cup
  IF Scalar(t) THEN {}
  ELSE UNION {{<<i>> \o p : p \in paths[Part(t, i)]} : i \in 0 .. PartCount(t) - 1}
=============================================================================
