------------------------------- MODULE Globals -------------------------------
(***************************************************************************)
(* Where compile_ir.rs puts the global variables of a module, and the      *)
(* memory that the function init writes.  Addresses count bytes; what init *)
(* writes are words.  A function is a global too: its address is its place *)
(* in the list of generated functions, unknown until do_relocation.        *)
(***************************************************************************)
EXTENDS Variables

CONSTANTS
  CondStackBytes,  \* what is reserved for the condition stack: 500
  Orders           \* the orders in which the module may have its variables

ASSUME GlobalsAssumption ==
  /\ CondStackBytes \in Nat
  /\ \A o \in Orders : o \in Seq(Var) /\ IsInjective(o) /\ ToSet(o) = Var

VARIABLES
  order,         \* the variables, in the order of the module
  laid,          \* how many of them have an address
  alloc,         \* the first free address
  addr,          \* the addresses of those that have one
  fnAddr,        \* the places of the functions
  condstackptr,  \* the addresses that init gives to the stacks, and where
  main_return,   \* main finds its return address
  stackptr

layout == <<order, laid, alloc, addr, condstackptr, main_return, stackptr>>

Unknown == -1   \* u32::MAX as a score

LayoutInit ==
  /\ order \in Orders
  /\ laid = 0
  /\ alloc = 4
  /\ addr = <<>>
  /\ fnAddr = [f \in Fn |-> Unknown]
  /\ condstackptr = 0 /\ main_return = 0 /\ stackptr = 0

(* StaticAllocator::reserve gives out whole words.                         *)
Reserved(n) == PadTo(n, 4)

(* Mutant: what is reserved is not rounded up.                             *)
LayOutUnrounded ==
  /\ laid < Len(order)
  /\ LET v == order[laid + 1]
     IN /\ addr' = [w \in DOMAIN addr \cup {v} |-> IF w = v THEN alloc ELSE addr[w]]
        /\ alloc' = alloc + Size(VarType[v])
  /\ laid' = laid + 1
  /\ UNCHANGED <<order, condstackptr, main_return, stackptr>>

(* global_var_layout, one variable.                                        *)
LayOut ==
  /\ laid < Len(order)
  /\ LET v == order[laid + 1]
     IN /\ addr' = [w \in DOMAIN addr \cup {v} |-> IF w = v THEN alloc ELSE addr[w]]
        /\ alloc' = alloc + Reserved(Size(VarType[v]))
  /\ laid' = laid + 1
  /\ UNCHANGED <<order, condstackptr, main_return, stackptr>>

(* The end of compile_module: the stacks come after the variables.         *)
ReserveStacks ==
  /\ condstackptr' = alloc
  /\ main_return' = alloc + Reserved(CondStackBytes)
  /\ stackptr' = main_return' + Reserved(4)
  /\ alloc' = stackptr' + Reserved(4)
  /\ UNCHANGED <<order, laid, addr>>

-----------------------------------------------------------------------------
(* getelementptr_const: the address of a place.                            *)
AddressOf(l) == addr[l[1]] + pathOffset[VarType[l[1]]][l[2]]

(* eval_constant: integers are sign-extended, all but an i24.              *)
SignExtended(n, size) ==
  IF size # 3 /\ n >= Byte ^ size \div 2 THEN n - Byte ^ size ELSE n

evalConstant[k \in DOMAIN Con, t \in Type] ==
  LET c == Con[k]
  IN CASE c.kind = "int"  -> SignExtended(c.value, Size(t))
       [] c.kind = "zero" -> 0
       [] c.kind = "null" -> 0
       [] c.kind = "ref"  -> AddressOf(<<c.to, <<>>>>)
       [] c.kind = "gep"  -> AddressOf(<<c.to, c.path>>)
       [] c.kind = "fn"   -> fnAddr[c.to]
       [] c.kind = "cast" -> evalConstant[c.of, t]

(* init_data: the bytes of an initialiser, by their distance from the      *)
(* start; of two bytes at one place the later stays.                       *)
Shifted(bytes, n) == [a \in {b + n : b \in DOMAIN bytes} |-> bytes[a - n]]

PlacedAt(t, i) ==
  CASE Kind(t) = "array"  -> OffsetOfArray(Ty[t].of, i)
    [] Kind(t) = "struct" -> OffsetOf(t, i)
    [] Kind(t) = "named"  -> OffsetOf(Ty[t].of, i)

initData[t \in Type, k \in DOMAIN Con] ==
  IF Scalar(t)
  THEN Shifted(Bytes(evalConstant[k, t], Size(t)), -1)
  ELSE FoldLeft(LAMBDA bytes, i :
                  Shifted(initData[Part(t, i), ConPart(k, i)], PlacedAt(t, i)) @@ bytes,
                <<>>, [i \in 1 .. PartCount(t) |-> i - 1])

(* one_global_var_init: the words from the first byte to the last, holes   *)
(* filled with zeros, written from the address of the variable on.         *)
Put(m, a, bytes) ==
  [i \in DOMAIN m |-> IF i - a + 1 \in DOMAIN bytes THEN bytes[i - a + 1] ELSE m[i]]

VarBytes(v) ==
  LET bytes == initData[VarType[v], VarInit[v]]
      begin == Min(DOMAIN bytes)
      end   == PadTo(Max(DOMAIN bytes) + 1, 4)
  IN IF bytes = <<>> THEN <<>>
     ELSE [i \in 1 .. end - begin |->
             IF begin + i - 1 \in DOMAIN bytes THEN bytes[begin + i - 1] ELSE 0]

(* What init makes of a memory, whatever was in it.                        *)
VariablesWritten(m) == FoldLeft(LAMBDA n, v : Put(n, addr[v], VarBytes(v)), m, order)

Initialised(m) == Put(VariablesWritten(m), main_return, Bytes(-1, 4))

-----------------------------------------------------------------------------
(* Properties of the layout.                                               *)

Extent(v) == addr[v] .. addr[v] + Reserved(Size(VarType[v])) - 1

(* No two variables share a word, none is at the null address, and the     *)
(* condition stack, the return address of main and the stack come after    *)
(* all of them, the return address where main's return pops it.            *)
GlobalsApart ==
  /\ \A v \in DOMAIN addr : addr[v] % 4 = 0 /\ addr[v] >= 4
  /\ \A v, w \in DOMAIN addr : v # w => Extent(v) \cap Extent(w) = {}
  /\ \A v \in DOMAIN addr : \A a \in Extent(v) : a < alloc
  /\ stackptr # 0 =>
       /\ \A v \in DOMAIN addr : \A a \in Extent(v) : a < condstackptr
       /\ condstackptr + CondStackBytes <= main_return
       /\ stackptr = main_return + 4

(* LLVM lets the compiler rely on the alignment of a type, and the loads   *)
(* and stores of words and halfwords do.  A scalar that is in no packed    *)
(* struct lies at a multiple of its own alignment.                         *)
Unpacked(l) ==
  \A n \in 0 .. Len(l[2]) - 1 :
    LET t == typeAt[VarType[l[1]]][SubSeq(l[2], 1, n)]
    IN /\ Kind(t) = "struct" => ~Ty[t].packed
       /\ Kind(t) = "named"  => ~Ty[Ty[t].of].packed

LeavesAligned ==
  \A l \in Leaf : l[1] \in DOMAIN addr /\ Unpacked(l) =>
    AddressOf(l) % typeLayout[TypeOf(l)].align = 0
=============================================================================
