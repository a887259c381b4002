--------------------------- MODULE CompiledModule ---------------------------
(***************************************************************************)
(* compile_module, step by step, and the program it produces.  One action  *)
(* lays out a variable, compiles a function, links, relocates or finishes; *)
(* then the program is started, as often as its user likes, and one action *)
(* runs one generated function.  Registers are saved and restored by the   *)
(* calling convention of CallFrames: each activation has its own here, but *)
(* all share the parameters, the result and %phi.                          *)
(***************************************************************************)
EXTENDS CodeGeneration

CONSTANTS
  MaxParams,  \* the parameter holders that matter
  MemBytes,   \* bound of the model: the memory that holds variables
  Garbage,    \* a byte in memory before the program is started
  MaxActs     \* bound of the model: activations at a time

ASSUME CompiledModuleAssumption ==
  /\ MaxParams \in Nat /\ MemBytes \in Nat /\ MaxActs \in Nat
  /\ Garbage \in 0 .. Byte - 1

VARIABLES
  phase,     \* "layout", "compile", "relocate", "finish", "ready", "started"
  compiled,  \* how many functions compile_module_abstract is through with
  heads,     \* the first generated function of each, `funcs`
  tails,     \* the others, `after_blocks`
  starts,    \* func_starts
  list,      \* the generated functions with their terminators
  table,     \* the functions that __langcraft_call knows, by their place
  next,      \* the name of the function to run next, or none
  acts,      \* the registers of each activation
  rets,      \* the return addresses on the stack
  mem,       \* the memory of the variables, byte by byte
  param, return0, phi,   \* the holders %param<i>%0, %return%0 and %phi
  taken      \* how many edges of the last terminator were taken

compiler == <<phase, compiled, heads, tails, starts, list, table>>
machine  == <<next, acts, rets, mem, param, return0, phi, taken>>
vars == <<layout, fnAddr, compiler, machine>>

NoFunction == <<>>

Init ==
  /\ LayoutInit
  /\ phase = "layout" /\ compiled = 0
  /\ heads = <<>> /\ tails = <<>> /\ starts = <<>> /\ list = <<>> /\ table = <<>>
  /\ next = NoFunction /\ acts = <<>> /\ rets = <<>>
  /\ mem = [a \in 0 .. MemBytes - 1 |-> Garbage]
  /\ param = [i \in 1 .. MaxParams |-> 1] /\ return0 = 1 /\ phi = 0
  /\ taken = 1

-----------------------------------------------------------------------------
LayOutVariable ==
  /\ phase = "layout"
  /\ LayOut
  /\ phase' = IF laid' = Len(order) THEN "compile" ELSE "layout"
  /\ UNCHANGED <<fnAddr, compiled, heads, tails, starts, list, table, machine>>

(* compile_module_abstract: the first blocks of all functions come before  *)
(* the other blocks.                                                       *)
CompileNext ==
  /\ phase = "compile"
  /\ \E f \in {FnOrder[compiled + 1]} : \E blocks \in {CompileFunction(f)} :
       /\ starts' = [g \in DOMAIN starts \cup {f} |->
                       IF g = f THEN Head(blocks).id ELSE starts[g]]
       /\ heads' = Append(heads, Head(blocks))
       /\ tails' = tails \o Tail(blocks)
  /\ compiled' = compiled + 1
  /\ phase' = IF compiled' = Len(FnOrder) THEN "link" ELSE "compile"
  /\ UNCHANGED <<layout, fnAddr, list, table, machine>>

(* reify_block for every block; the intrinsics follow.                     *)
Link ==
  /\ phase = "link"
  /\ LET blocks == heads \o tails
     IN list' = [i \in DOMAIN blocks |-> ReifyBlock(blocks[i], starts)]
                \o [i \in DOMAIN Intrinsics |->
                      [id |-> <<Intrinsics[i], Zero, 0>>, cmds |-> <<>>]]
  /\ phase' = "relocate"
  /\ UNCHANGED <<layout, fnAddr, compiled, heads, tails, starts, table, machine>>

Runtime(name) == [id |-> <<name, Zero, 0>>, cmds |-> <<>>]

(* do_relocation.  Mutant: __langcraft_return is put in front of the list, *)
(* after the places were taken.                                            *)
RelocateShifting ==
  /\ phase = "relocate"
  /\ fnAddr' = [f \in Fn |-> Position(list, starts[f])]
  /\ table' = [i \in DOMAIN list |-> list[i].id]
  /\ list' = ApplyFixups(<<Runtime("rust:__langcraft_return")>> \o list
                         \o <<Runtime("rust:__langcraft_call")>>, starts)
  /\ phase' = "finish"
  /\ UNCHANGED <<layout, compiled, heads, tails, starts, machine>>

Relocate ==
  /\ phase = "relocate"
  /\ fnAddr' = [f \in Fn |-> Position(list, starts[f])]
  /\ table' = [i \in DOMAIN list |-> list[i].id]
  /\ list' = ApplyFixups(list \o <<Runtime("rust:__langcraft_call"),
                                   Runtime("rust:__langcraft_return")>>, starts)
  /\ phase' = "finish"
  /\ UNCHANGED <<layout, compiled, heads, tails, starts, machine>>

Finish ==
  /\ phase = "finish"
  /\ ReserveStacks
  /\ list' = list \o <<Runtime("init"), Runtime("__langcraft_on_tick"), Runtime("")>>
  /\ phase' = "ready"
  /\ UNCHANGED <<fnAddr, compiled, heads, tails, starts, table, machine>>

-----------------------------------------------------------------------------
(* init and the start of main.  A program that runs is abandoned.          *)
Start ==
  /\ phase \in {"ready", "started"}
  /\ phase' = "started"
  /\ next' = Text(starts[Main])
  /\ acts' = <<>>
  /\ mem' = Initialised(mem)
  /\ rets' = <<Wrap(Number([i \in 1 .. 4 |-> mem'[stackptr - 5 + i]]))>>
  /\ param' = [i \in DOMAIN param |-> 1] /\ return0' = 1 /\ phi' = 1
  /\ UNCHANGED <<layout, fnAddr, compiled, heads, tails, starts, list, table,
                 taken>>

(* The state of the machine while a generated function runs.               *)
Machine(given) ==
  [next |-> next, acts |-> acts, rets |-> rets, mem |-> mem, param |-> param,
   return0 |-> return0, phi |-> phi, taken |-> 0, given |-> given,
   tested |-> 0, fnptr |-> 0]

Value(m, x) == IF x.op = "lit" THEN x.n ELSE Last(m.acts)[x.r]
Assign(m, r, n) ==
  [m EXCEPT !.acts[Len(m.acts)] = [q \in DOMAIN @ \cup {r} |-> IF q = r THEN n ELSE @[q]]]
Put4(m, a, bytes) == [m EXCEPT !.mem = Put(@, a, bytes)]

(* __langcraft_call: -1 and places out of range end the program.           *)
Dispatch(m, p) ==
  [m EXCEPT !.next = IF p + 1 \in DOMAIN table THEN Text(table[p + 1]) ELSE NoFunction,
            !.taken = @ + 1]

Received(m, params) ==
  [r \in ToSet(params) |-> m.param[CHOOSE i \in DOMAIN params : params[i] = r]]

Passes(m, c) == m.tested \notin c.unless /\ (c.ifs = {} \/ m.tested \in c.ifs)

(* What a command does that is no edge.                                    *)
Execute(m, c) ==
  CASE c.op = "prolog" -> [m EXCEPT !.acts = Append(@, Received(m, c.params))]
    [] c.op = "input"  -> [Assign(m, c.dest, Head(m.given)) EXCEPT !.given = Tail(@)]
    [] c.op = "assign" -> Assign(m, c.dest, Value(m, c.what))
    [] c.op = "add"    -> Assign(m, c.dest,
                            Add(Last(m.acts)[c.dest], Times(c.times, Value(m, c.what))))
    [] c.op = "read"   -> Assign(m, c.dest,
                            Wrap(Number([i \in 1 .. c.size |->
                                           m.mem[Value(m, c.what) + i - 1]])))
    [] c.op = "write"  -> Put4(m, Value(m, c.to), Bytes(Value(m, c.what), c.size))
    [] c.op = "push"   -> [m EXCEPT !.rets = Append(@, Value(m, c.what))]
    [] c.op = "param"  -> [m EXCEPT !.param[c.n] = Value(m, c.what)]
    [] c.op = "fetch"  -> Assign(m, c.dest, m.return0)
    [] c.op = "phi"    -> IF m.phi = c.n THEN Assign(m, c.dest, Value(m, c.what)) ELSE m
    [] c.op = "ended"  -> [m EXCEPT !.phi = c.n]
    [] c.op = "test"   -> LET n == Value(m, c.what)
                          IN [m EXCEPT !.tested = IF c.by = 0 THEN n ELSE Mod(n, c.by)]
    [] c.op = "edge"   -> IF Passes(m, c)
                          THEN [m EXCEPT !.next = c.to, !.taken = @ + 1] ELSE m
    [] c.op = "pointer" -> [m EXCEPT !.fnptr = Value(m, c.what)]
    [] c.op = "call"   -> Dispatch(m, m.fnptr)
    [] c.op = "result" -> [m EXCEPT !.return0 = Value(m, c.what)]
    [] c.op = "load_regs" -> [m EXCEPT !.acts = Front(@)]
    [] c.op = "return" -> Dispatch([m EXCEPT !.rets = Front(@)], Last(m.rets))
    [] c.op = "stop"   -> [m EXCEPT !.next = NoFunction, !.taken = @ + 1]

Code(name) == list[CHOOSE i \in DOMAIN list : Text(list[i].id) = name].cmds

RunFunction ==
  /\ phase = "started" /\ next # NoFunction
  /\ Head(Code(next)).op = "prolog" => Len(acts) < MaxActs
  /\ \E given \in Inputs(Code(next)) :
       LET m == FoldLeft(Execute, Machine(given), Code(next))
       IN /\ next' = m.next /\ acts' = m.acts /\ rets' = m.rets /\ mem' = m.mem
          /\ param' = m.param /\ return0' = m.return0 /\ phi' = m.phi
          /\ taken' = m.taken
  /\ UNCHANGED <<layout, fnAddr, compiler>>

Next ==
  \/ LayOutVariable \/ CompileNext \/ Link \/ Relocate \/ Finish
  \/ Start \/ RunFunction

Spec == Init /\ [][Next]_vars

-----------------------------------------------------------------------------
(* Properties.                                                             *)

(* The bound MemBytes leaves room for the variables and for what init      *)
(* writes after them, the return address of main.                          *)
Fits == stackptr <= MemBytes

(* The places of the compiler are addresses in memory and indices in the   *)
(* list; no address of the running program leaves the memory of variables. *)
TypeOK ==
  /\ Fits
  /\ phase \in {"layout", "compile", "link", "relocate", "finish", "ready", "started"}
  /\ laid \in 0 .. Len(order) /\ compiled \in 0 .. Len(FnOrder)
  /\ DOMAIN addr \subseteq Var /\ DOMAIN starts \subseteq Fn
  /\ \A v \in DOMAIN addr : addr[v] \in 0 .. MemBytes - 1
  /\ fnAddr \in [Fn -> {Unknown} \cup 0 .. Len(list) - 1]
  /\ Len(acts) <= MaxActs /\ Len(rets) <= MaxActs + 1
  /\ mem \in [0 .. MemBytes - 1 -> 0 .. Byte - 1]
  /\ \A i \in DOMAIN param : param[i] \in Word
  /\ return0 \in Word /\ phi \in Nat

(* A function is found by its name: Minecraft runs it by name, and the     *)
(* fixups look for its place by name.  No two share one, given names that  *)
(* lower case and underscores keep apart.                                  *)
NamesUnique ==
  \A i, j \in DOMAIN list : Text(list[i].id) = Text(list[j].id) => i = j

(* The places that do_relocation, the fixups and __langcraft_call computed *)
(* while the list still grew are those of the final list, and every        *)
(* return address on the stack is that of a part behind a call, but main's *)
(* which is none.                                                          *)
PlacesAgree ==
  phase \in {"finish", "ready", "started"} =>
    /\ \A f \in Fn : list[fnAddr[f] + 1].id = starts[f]
    /\ \A i \in DOMAIN table : table[i] = list[i].id
    /\ \A i \in DOMAIN rets :
         IF i = 1 THEN rets[i] = -1 ELSE list[rets[i] + 1].id[3] > 0

(* A generated function writes the name of its successor exactly once: no  *)
(* two edges of a terminator hold together, and one does, so that never a  *)
(* destination is run that an earlier function has left in the block.      *)
OneEdge == taken = 1

-----------------------------------------------------------------------------
(* What the state of the machine means.                                    *)
Meaning(t, n) ==
  CASE Kind(t) = "int"  -> n
    [] Kind(t) = "ptr"  ->
         IF n = 0 THEN Null
         ELSE PlaceValue(CHOOSE l \in Place : TypeOf(l) = Ty[t].to /\ AddressOf(l) = n)
    [] Kind(t) = "code" ->
         FnValue(CHOOSE f \in Fn : fnAddr[f] = n)

MeaningOfData(t, bytes) ==
  IF Kind(t) = "int" THEN bytes ELSE Meaning(t, Number(bytes))

Registers(regs) == [r \in DOMAIN regs |-> Meaning(RegType[r], regs[r])]

PositionOf(id) ==
  LET f == CHOOSE g \in Fn : Norm[g] = id[1]
  IN <<f, CHOOSE b \in Names(f) : NormBlock(b) = id[2], id[3]>>

Running == next # NoFunction
At      == PositionOf(Parse(next))
Inside  == At[3] > 0
AtEntry == At[2] = EntryOf(At[1]) /\ ~Inside

M == INSTANCE ModuleSemantics WITH
  pos    <- IF Running THEN At ELSE <<>>,
  prev   <- IF Running /\ ~AtEntry /\ ~Inside THEN <<phi + 1>> ELSE <<>>,
  local  <- IF Running /\ ~AtEntry THEN Registers(Last(acts)) ELSE <<>>,
  stack  <- IF Running
            THEN [i \in 1 .. Len(rets) - 1 |->
                    [pos   |-> PositionOf(table[rets[i + 1] + 1]),
                     local |-> Registers(acts[i])]]
            ELSE <<>>,
  passed <- IF Running /\ AtEntry
            THEN [i \in DOMAIN Params[At[1]] |->
                    Meaning(RegType[Params[At[1]][i]], param[i])]
            ELSE <<>>,
  result <- IF Running /\ Inside
            THEN <<Meaning(RegType[CallAt(At[1], At[2], At[3]).dest], return0)>>
            ELSE <<>>,
  value  <- IF phase = "started"
            THEN [l \in Leaf |->
                    MeaningOfData(TypeOf(l),
                      [i \in 1 .. Size(TypeOf(l)) |-> mem[AddressOf(l) + i - 1]])]
            ELSE <<>>

(* The generated functions mean what the module means: through the cutting *)
(* of blocks, the edges, the return addresses and function pointers, the   *)
(* layout and initialisation of variables and the arithmetic on addresses, *)
(* every activation goes where LLVM sends it, with the values LLVM gives   *)
(* to its registers and to memory; started again, too.                     *)
ImplementsModule == M!Spec
=============================================================================
