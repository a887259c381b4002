-------------------------- MODULE MCCompiledModule --------------------------
(***************************************************************************)
(* CompiledModule for TLC: a module of three functions, one of which calls *)
(* itself and one of which is called through a pointer in a variable, with *)
(* bytes of two bits.  Its variables have holes, a packed struct, pointers *)
(* into one another and more bytes than words.                             *)
(***************************************************************************)
EXTENDS CompiledModule

int(bits)         == [kind |-> "int", bits |-> bits]
ptr(t)            == [kind |-> "ptr", to |-> t]
struct(packed, e) == [kind |-> "struct", packed |-> packed, elems |-> e]
array(n, t)       == [kind |-> "array", n |-> n, of |-> t]

MCTy == <<
  int(8), int(16), int(32), int(64),   \*  1 to 4
  struct(FALSE, <<3, 1>>),             \*  5  a word and a byte
  array(2, 5),                         \*  6
  ptr(5), ptr(1), ptr(3),              \*  7 to 9
  struct(FALSE, <<1, 2, 7>>),          \* 10
  [kind |-> "named", of |-> 10],       \* 11
  struct(TRUE, <<1, 4, 1>>),           \* 12
  [kind |-> "code"] >>                 \* 13

con(n)   == [kind |-> "int", value |-> n]
parts(e) == [kind |-> "parts", of |-> e]

MCCon == <<
  con(3), con(1), [kind |-> "zero"],                   \* 1 to 3
  parts(<<2, 1>>), parts(<<4, 3>>),                    \* 4 and 5
  [kind |-> "gep", to |-> "a", path |-> <<1>>],        \* 6
  [kind |-> "cast", of |-> 6], con(14),                \* 7 and 8
  parts(<<1, 8, 7>>),                                  \* 9
  con(60000), parts(<<2, 10, 1>>),                     \* 10 and 11
  [kind |-> "fn", to |-> "dec.1"] >>                     \* 12

MCVarType == [a |-> 6, u |-> 11, p |-> 12, d |-> 13]
MCVarInit == [a |-> 5, u |-> 9,  p |-> 11, d |-> 12]

MCOrders == {<<"a", "u", "p", "d">>, <<"p", "d", "u", "a">>}

(* Names that new_sub changes, of functions and of blocks.                 *)
MCFnOrder == <<"Inc", "main", "dec.1">>
MCNorm == "Inc" :> "inc" @@ "main" :> "main" @@ "dec.1" :> "dec_1"
          @@ "If.Then" :> "if_then" @@ "If-Else" :> "if_else" @@ "exit" :> "exit"
MCNumerals == [t \in {"0", "2", "3", "4", "5"} |-> t]
MCIntrinsics == <<"intrinsic:setptr">>
MCParams == "Inc" :> <<"n", "f">> @@ "main" :> <<>> @@ "dec.1" :> <<"n", "f">>

MCRegType ==
  [n |-> 3, x |-> 3, r |-> 3, s |-> 3, y |-> 3, k |-> 3, z |-> 1,
   e |-> 7, b |-> 8, w |-> 9, h |-> 13, f |-> 13]

block(name, phis, items, term) ==
  [name |-> name, phis |-> phis, items |-> items, term |-> term]

(* Chooses an element of the array, has its byte set, and goes one of two  *)
(* ways, of which one calls what d points at and the other changes it.     *)
MCMain == <<
  block(number("0"), <<>>,
    <<input("x", {0, 1}),
      call("r", fun("Inc"), <<reg("x"), fun("dec.1")>>),
      gep("e", at(<<"a", <<>>>>), <<lit(0), reg("x")>>),
      gep("b", reg("e"), <<lit(0), lit(1)>>),
      store(1, reg("b"), reg("r"))>>,
    condbr("x", named("If.Then"), named("If-Else"))),
  block(named("If.Then"), <<>>,
    <<load("h", at(<<"d", <<>>>>)),
      call("s", reg("h"), <<reg("r"), fun("Inc")>>)>>,
    br(number("3"))),
  block(named("If-Else"), <<>>,
    <<store(13, at(<<"d", <<>>>>), fun("Inc")),
      load("k", at(<<"a", <<1, 0>>>>))>>,
    br(number("3"))),
  block(number("3"),
    <<[dest |-> "y", from |->
             << <<named("If.Then"), reg("s")>>, <<named("If-Else"), reg("k")>> >>]>>,
    <<input("z", {0, 1, -3, 3})>>,
    switch("z", << <<0, named("exit")>>, <<1, named("If.Then")>> >>, number("5"))),
  block(named("exit"), <<>>, <<>>, ret(reg("y"))),
  block(number("5"), <<>>, <<>>, unreachable) >>

(* Calls itself, or reads a neighbour of the element u points at.          *)
MCInc == <<
  block(number("2"), <<>>, <<input("x", {0, 1})>>, condbr("x", number("3"), number("4"))),
  block(number("3"), <<>>, <<call("r", fun("Inc"), <<lit(1), reg("f")>>)>>, ret(reg("r"))),
  block(number("4"), <<>>,
    <<load("e", at(<<"u", <<2>>>>)),
      input("k", {-1, 0}),
      gep("w", reg("e"), <<reg("k"), lit(0)>>),
      load("y", reg("w"))>>,
    ret(reg("y"))) >>

MCDec == <<
  block(number("2"), <<>>,
    <<store(2, at(<<"u", <<1>>>>), reg("n")),
      call("y", reg("f"), <<lit(0), reg("f")>>)>>,
    ret(reg("n"))) >>

MCBlocks == "Inc" :> MCInc @@ "main" :> MCMain @@ "dec.1" :> MCDec
=============================================================================
