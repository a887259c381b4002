# A verification project for langcraft

langcraft compiles LLVM bitcode to a Minecraft datapack. A compiled program is a
set of Minecraft functions; the game runs them with chain command blocks, scores
and blocks that hold data, a bounded number of commands in each tick. The
repository also holds an interpreter of such commands, which runs a datapack
without the game and which the tests use.

This directory holds TLA+ modules that model the generated code and the
interpreter, TLC configurations that check them on small instances, and proofs
about most of them. Line numbers below are those of `src/src/compile_ir.rs`
unless another file is named.

## 1. The system

### Components

| component | source | state | operations |
|---|---|---|---|
| command chain | `compile_block_end` 3119, `create_call_func` 584, `create_return_func` 571, `make_build_cmds` 1059, `__langcraft_on_tick.mcfunction` | four command blocks, the entity `next`, the count of commands, the redstone block, the return addresses | end of a block (branch, call, call through a pointer, return, stop), a tick, the function without a name, which starts the program |
| call frames | `save_regs` 461, `load_regs` 486, `push`/`pop` 3764-3808, `reify_block` 3082, `compile_alloca` 3925, `compile_call` 2803, `Ret` 2879 | holders of locals and parameters, `%stackptr`, `%stackbaseptr`, the stack in memory | entry, call, return, the block after a call, alloca |
| memory | `intrinsic/setptr`, `load_*`, `store_*`, `Instruction::Store` 4488, `Load` 4655 | a word in each jukebox, `%ptr`, the entity `ptr` | loads and stores of 1, 2, 3 and 4k bytes, aligned or not |
| block operations | `intrinsic/memcpy`, `memset`, `bcmp`, `compile_memcpy` 1609 | the above and the loops' temporaries | memcpy (called or in line), memset, bcmp |
| shifts, bitwise operations | `intrinsic/shl`, `lshr`, `ashr`, `and`, `or`, `xor`, `shl64`, `lshr64`, 1770-2164 | none: functions of words | |
| arithmetic and comparisons | 2687-2771, 3530-3762, 3973-4100, `intrinsic/mul_32_to_64` | none: functions of one or two words | |
| conversions, select, structs in registers | `compile_instr` 5211-5605, 4440 | none: functions of words | Trunc, SExt, ZExt, BitCast, Select, ExtractValue, InsertValue |
| vectors | 3729, 4399, 5049, 5735-5929 | none: functions of words | the same instructions by elements, shuffles, one element |
| the remaining instructions and calls | `compile_instr` 4429, `compile_call` 2166 | none besides locals | printing, the turtle, blocks of the world |
| layout, constants, globals | 1124-1500, 3810-3902, 4185, 5954-6279 | the address of each global | compile-time functions of types; `init`, which writes the variables |
| order of code | `compile_function` 3323, fixups 798-1042, `do_relocation` 770 | the list of functions | splitting of blocks after calls, patching of addresses |
| edges | `analysis.rs` 250 | none | conditions of branches and switches |
| estimates | `analysis.rs` 110, `intrinsics.rs` | none | commands that a block may run |
| interpreter | `interpreter.rs` | the call stack, commands of the chain blocks, scores, memory | one command at a time, next block, halting |
| command syntax | `cir.rs`, `cir/raw_text.rs` | none | printing, parsing |
| output, options, setup | `lib.rs`, `bin/main.rs`, `setup.mcfunction`, `stdout/` | files | |
| demonstration program | `src/rust_interp` | a stack machine | compiled, not part of the compiler |

### How they interact

A basic block becomes one or more Minecraft functions, cut after each call. A
function is the body of the block followed by commands that write *which function
runs next* into the chain block that comes next; return addresses and function
pointers are indices of the list of all functions. The body works on scores,
which are global and outlive functions, and on words of memory, through the
entity `ptr` that stands at the jukebox last addressed. Caller and callee share
holders: a function saves on the stack every holder it will write (caller's
values), so the calling convention is what gives a recursive function locals of
its own. Intrinsics are plain Minecraft functions that take their arguments in
`%ptr` and `%param<i>%0`, and leave results in `%param0%0` or `%return%0`,
differently for each.

### What is hard

* One block ends and the next begins through five or so commands whose order
  matters: write before moving the entity, remove the other block at the limit,
  place redstone only where there is none.
* A suspended program is rebuilt a tick later from one template block; the
  suspending block may be either chain block.
* The user may start the program again between two ticks.
* The stack holds four kinds of words in one sequence (return address, saved
  holders, link, allocated memory), written by different pieces of generated code.
* Bytes in words, signed words: masks, shifts and products that overflow.
* State outlives its use (`ptr`'s place, `%return%0`, `%phi`, the command in a
  chain block), so a missing command is not an error but an old value.
* The compiler computes addresses and places of functions while the lists they
  index still grow, and finds functions by names that it composes and parses.
* The type says how many bits of a holder count; nothing keeps the others clear.

### What makes each component correct

* chain: the blocks run are exactly those the control flow names; a suspended
  program resumes; the chain of a tick is bounded.
* frames: each activation has its own locals and memory; arguments and results
  arrive; what is pushed is popped.
* memory: the words in jukeboxes are the bytes LLVM expects.
* block operations: `len` bytes are copied, set or compared, and no other byte is
  touched.
* interpreter: what it executes is what the machine in the game does; it halts
  only when main has returned.
* shifts and arithmetic: agreement with integers modulo 2^32 and 2^64; every
  constant that is read has been set.
* conversions: only the bits of the operand's type count, whatever a holder has
  above them; no element of a vector or part of a struct changes another.
* layout and initialisation: `offset_of`, `getelementptr` and initialisers agree
  on where a scalar is; variables and stacks do not overlap.
* order of code and edges: a place names the same function before and after the
  list is complete, every terminator chooses exactly one successor, the right one,
  and a phi gets the value of the block control came from.

`PROJECT.json` lists the hazards, each at its line, with the properties that
would catch it, or why none does yet.

## 2. Modules

| module | models | extends or instantiates |
|---|---|---|
| `Program` | a compiled program's control flow, as constants | |
| `ControlFlow` | what the chain promises: one block after another | `Program` |
| `CommandChain` | the machine of command blocks in the game | `Program`; implements `ControlFlow` |
| `CommandChainProofs` | theorems about it | `CommandChain` |
| `CompiledCode` | the generated commands, as sequences | `Program` |
| `Interpreter` | `interpreter.rs` in Chain mode running them | `CompiledCode`; implements `ControlFlow` |
| `InterpreterProofs` | theorems about it | `Interpreter` |
| `Routines` | functions, holders, clobber lists, as constants | |
| `Activations` | what calls promise: locals, arguments, memory of each activation | `Routines` |
| `CallFrames` | the calling convention with one stack | `Routines`; implements `Activations` |
| `CallFramesProofs` | theorems about it | `CallFrames` |
| `Words` | 32-bit scores, `and`, `lshr` | |
| `Constants` | the scores `%%n` that stand for numbers | `Words` |
| `WordInstructions` | what instructions on words have in common | `Constants` |
| `Shifts` | shifts, funnel shift, leading zeros, and, or, xor | `WordInstructions` |
| `Arithmetic` | sums, products, quotients, comparisons, overflow intrinsics | `WordInstructions` |
| `Conversions` | conversions, select, structs in registers | `Arithmetic` |
| `Vectors` | the instructions on vectors | `Shifts`, `Conversions` |
| `WordOps` | any of these instructions | `Vectors` |
| `WordOpsProofs` | theorems about every instruction on words | `WordOps`, `JukeboxProofs` |
| `ByteMemory` | what LLVM expects of memory | `Words` |
| `Jukeboxes` | setptr, the load and store intrinsics, as operators | `Words` |
| `JukeboxProofs` | lemmas about words, bytes and jukeboxes | `Jukeboxes` |
| `Memory` | Load and Store instructions | `Jukeboxes`; implements `ByteMemory` |
| `MemoryProofs` | theorems about it | `Memory`, `JukeboxProofs` |
| `BlockOps` | memcpy, memset, bcmp, one loop iteration a step | `Jukeboxes` |
| `BlockOpsProofs` | theorems about it | `BlockOps`, `JukeboxProofs` |
| `Types` | LLVM types, their layout, paths into values | `Words` |
| `Variables` | global variables, initialisers, what each scalar means | `Types` |
| `ModuleIR` | functions, blocks, instructions of a module | `Variables` |
| `ModuleSemantics` | what a module means: registers, memory by scalars, calls | `ModuleIR` |
| `Globals` | addresses of variables, constants, what `init` writes | `Variables` |
| `CodeGeneration` | cutting of blocks, terminators, fixups, as operators | `ModuleIR`, `Globals` |
| `CompiledModule` | `compile_module` step by step, then the program running | `CodeGeneration`; implements `ModuleSemantics` |
| `CompiledModuleProofs` | theorems about types, layout, names and places, for every module | `CompiledModule` |
| `MC*` | values of the constants for TLC | |

### The chain: `CommandChain`

`cmd` is the command in each block ("A" at -2 0 1, "B" at -2 0 2, the template
"R" at -2 1 1); `start`, `redstone` and `queued` are the impulse block, the
redstone block above it and the tick it has pending; `at` is the chain block being
run, `next` the entity's place, `count` the score `%%cmdcount`, `stack` the return
addresses. An action is one command block's whole run: body and end of the
function, and the game's move to the next block of the chain. `RunMain` is the
function without a name together with `init`; `OnTick` is
`__langcraft_on_tick`; `RunBranch`, `RunCall`, `RunReturn` and `RunStop` are the
kinds of ends; `PassOn` and `Suspend` are the two halves of `compile_block_end`,
under the limit and at it. `hasLimit`, whether somebody has set the score
`%%CMD_LIMIT`, is part of the world the user starts from (`LimitStates`);
`RunStranded` is what is left of an end when nobody has: both comparisons fail.
`burst` and `runs` count, for a property and for a bound.

How Minecraft runs chain blocks (conditional ones included), executes at no entity,
or writes to a block that is not there, is taken from how the code uses it and is
external to the repository. Pointers a program may call include words that are no
function.

### The interpreter: `CompiledCode` and `Interpreter`

`CompiledCode` builds, for each function, the sequence of its commands (kind,
position, condition). `Interpreter` is `step`: `StepCommand` executes the next
command of the top frame, with `execute_setblock` and the rest of `execute_cmd`
for these commands, leaves finished functions and picks the next chain block;
`StepFails` is an error or a panic, `StepTooMany` the limit of commands. Where
`CommandChain` takes the end of a block as one action, here its commands
interleave with the interpreter's own state. Scores of the program are left out:
a condition is the choice `decide` made before. Breakpoints and Grid mode are not
modelled: nothing generates commands for the latter any more.

### Call frames: `CallFrames`

`score` is the value of each holder, `mem` the words of the stack. `Enter` is
`reify_block`: `save_regs`, then the parameters are put into locals. `CallOp`
pushes the return address and sets `%param`s; `Return` sets `%return%0`, pops to
the base and restores; `Resume` is the head of the block after a call.
`Intrinsic` is any intrinsic: it leaves junk in parameter and return holders.
`Alloca` gives memory between the frame and the next push. `frames` and `calls` are
history: the functions entered, with what they own, and the sites they were called
from. Programs use memory through
pointers they were given (`StoreOp`, `LoadOp`), including those into a caller's
frame; stores to addresses nobody owns are undefined in LLVM and are left out.
Values and parameters are one word. The refinement mapping says where an
activation's local is: in its holder, unless a function entered since saved it
(`Kept`).

### Memory: `Words`, `Jukeboxes`, `Memory`

The number of bits of a byte and the grid's sides are constants. `SetPtr` is the
arithmetic of `setptr.mcfunction`; `Index` is `get_index`, its inverse. The
operators `LoadByte`, `StoreByte`, ... compute on words exactly as the intrinsics
do: product and shift to isolate a byte, `and` with a mask by doubling 32 times
and looking at the sign, division towards zero. `Memory` has one action for each
instruction, with the choice among the intrinsics by length and alignment; `ptr`
and `pos` are `%ptr` and the place of the entity when the instruction ends. Byte
addresses given are aligned as declared, which LLVM guarantees. `ByteMemory` is
plain bytes; `done`, the instruction carried out, is in both, so that a store of
two bytes cannot pass for a store of one.

### Block operations: `BlockOps`

The three loops of memcpy and memset are phases: `HeadByte` up to a word
boundary, `CopyWord`, `TailByte`, each an iteration; `call` is history, with memory
before the call. `MemcpyInline` is what `compile_memcpy` emits for a constant
length and aligned pointers. `ret` is `%return%0`. The mode of
`intrinsic:memcpy` that goes on in the next tick is not modelled:
`compile_block_end` has a `todo!()` in the place of its call (3124). Regions of a
memcpy are equal or disjoint (LLVM's condition).

### Shifts and arithmetic: `Constants`, `WordInstructions`, `Shifts`, `Arithmetic`

These are functions of one or two words, so a behaviour is a single instruction:
one action for each case that `compile_shl`, `compile_lshr`, `compile_ashr`,
`compile_arithmetic`, `ICmp` and the intrinsics distinguish (constant or variable
distance, one word, two words, an i48), on any operands. `dest` is the result;
`passed` says whether the commands that `mark_assertion` emits hold, which
only the interpreter looks at; `cited` are the constants `%%n` that are read, of
which `Initialised` has those that `compile_global_var_init` sets. The
intrinsics' loops are recursive functions that double as often as the loop does;
quotients and remainders of scores are those of the interpreter (`/=` towards
zero, `%=` by a positive number never negative): `ashr` and `lshr` depend on them.
A shift or a division that LLVM leaves undefined is left out, as is a `%=` by a
negative score.

`Conversions` and `Vectors` add instructions of the same form. In `Conversions`
an operand is any word, also where its type is narrower, as it is in all of these
modules: a byte that was loaded has zeros above its bits (`Clean`), a constant its
sign (5996, `SignExtended`), a sum whatever was carried. Some instructions look at
the bits of the type only; others take the holder as it is (comparisons, shifts to
the right, the byte of an InsertValue), and the properties say for which holders
these are right. A struct in
registers is one word for each four bytes; its last byte may have a word of its
own. In `Vectors` a vector has two words, and flags are the bytes of one word.

Properties compare the words, read as numbers of 32 or 64 bits, with `*`, `\div`
and `%` on integers. Where the code is wrong the property is restricted to what
is right; section 3 lists what it leaves out, and a run of its own has the full
property for the 64-bit shifts.

### The module: `Types` to `CompiledModule`

The constants are an LLVM module: a table of types, variables with initialisers,
functions made of blocks. `Types` has the layouts of `type_layout` (of which the
size leaves out the padding at the end), `offset_of` and the strides of
`compile_getelementptr`; `std::alloc::Layout` is external. `Globals` has the
allocator, `eval_constant`, `init_data` and the words that `init` writes,
including the zeros it fills holes with.

`CompiledModule` has two halves. In the first, `LayOutVariable`, `CompileNext`,
`Link`, `Relocate` and `Finish` are the steps of `compile_module`: addresses of
variables one by one, then the functions (`heads` and `tails` are `funcs` and
`after_blocks`), `reify_block` for each, `do_relocation` with the fixups, and the
functions that come last. A generated function is a sequence of commands; a return
address is the text of a function's name until a fixup parses it and adds one to
its number, and a function's address is unknown (-1) until relocation, so that
`eval_constant` answers differently before and after. In the second half `Start`
runs `init` and the function without a name, at any time, and `RunFunction` folds
the commands of one generated function over the machine: `next` is the name in
the chain block, `acts` the registers of the activations, `rets` the return
addresses, `mem` the bytes of the variables; `%param<i>%0`, `%return%0` and `%phi`
are shared by all.

`ModuleSemantics` is the same module as LLVM means it: a position is a function, a
block and how many of its calls are done; memory maps scalars to values; a pointer
is a place, a function pointer a function. The refinement mapping parses `next`
and reads addresses and places of functions back.

A function is a text and a block is a number or a text (`number`, `named`), as in
`llvm_ir`. `Id` is `FunctionId::new_sub`: `Norm` is what lower-casing and replacing
`$`, `.` and `-` leave of a text, given for the texts that occur. `Text` is `Display`,
which leaves out what is 0, `Parse` is `FromStr`, which takes a block whose text is a
numeral for a number (`Numerals`). Names in the checked module have capitals, dots and
dashes. `NamesApart` says that nothing becomes equal by this; it is no assumption of
the model but the hypothesis of two theorems.

Instructions that compute
numbers are in `Shifts`, `Arithmetic` and `Conversions`; here `input` stands for
all of them and gives any of a few numbers. `CallFrames` is where registers are
saved, `CommandChain` how the next function gets to run, and `Memory` how bytes
are kept in words: that a stop leaves one old command in the chain (3163), for
example, is `RunStop` there and no part of `CompiledModule`, whose stop is an end.

## 3. What is checked

| run | shows | bounds and size |
|---|---|---|
| `chain` | a looping program with calls of two depths, calls through good and bad pointers: `NextIsReady`, `OneTickPending`, `BurstBounded`, `ReturnsAreGood`, the refinement of `ControlFlow` (`ImplementsControlFlow`), and two liveness properties | 8 functions; `Limit` 113, a sum of charges that is hit exactly and that makes programs suspend at "A" and at "B"; `MaxChain` 12; two runs, so one restart at every possible moment |
| `chain_stop` | with unreachable code: no tick is queued again before the user's next run, and the block left in the chain is the last (`StopIsFinal`) | `Limit` 53, so that the leftover block can reach the limit; worlds with the score and without |
| `interp` | the generated commands one by one: the same control flow (`ImplementsControlFlow`), no tick queued twice, an assertion of the code (`TickQueuedOnce`), halted means returned (`HaltedMeansReturned`) | 10 functions with every kind of end; `Limit` 97, hit exactly; `MaxCommands` 40 for 60 000, and one block of 40 commands to exceed it |
| `frames` | locals, arguments, results and memory of activations: refinement of `Activations` (`ImplementsActivations`); links of the frames (`FramesLinked`), the return address under each is that of the very call that entered it (`ReturnsToCaller`), and nothing is left on the stack but frames and what was allocated (`StackBalanced`) | three functions that share holders, one recursive and one that is given a pointer into its caller's frame; 13 words of stack, 3 activations, 5 instructions: enough for a recursion with an alloca between two frames |
| `memory` | loads and stores of 1, 2, 3, 4 and 8 bytes at each alignment and address: refinement of `ByteMemory` (`ImplementsByteMemory`); the entity stands where it is read | a byte has 2 bits and a word 8; 2 by 2 by 2 jukeboxes, so that each coordinate takes part; two instructions: every overlap of two stores, and each load after each store |
| `blocks` | memcpy, memset, bcmp: after each iteration the bytes done are right and all others are as before, and at the end all are done (`PartDone`, `CallsDone`, `InlineCopies`) | 4 jukeboxes; every pair of places, lengths 0 to a chunk (8 for 1024); memories that mix two words |
| `words` | shifts of 8, 16, 24, 32, 48 and 64 bits equal those of the number where the assertions pass and a narrow holder is clean (lshr, constant shl) or sign-extended (ashr), and so do bitwise instructions (`ShiftsRight`); sums, differences and products are right modulo 2^32 and 2^64, and so are quotients and the values of the overflow intrinsics (`ArithmeticRight`); comparisons are right for operands that are held alike, signed ones where the holders have the signs (`ComparisonsRight`); conversions look at the bits of their type only, parts of structs and elements of vectors are independent (`ConversionsRight`, `VectorsRight`); the constants read are set | a byte has 2 bits, so a word 8 and a double word 16; 18 words, any four of them as two double words: all combinations of signs, both ends, carries out of each half-word, powers of two; every distance |
| `module` | a compiled module means what the module means (`ImplementsModule`); variables and stacks lie apart (`GlobalsApart`), scalars at their alignment (`LeavesAligned`), no two functions share a name, though all names lose case, dots and dashes (`NamesUnique`), places computed early are right later (`PlacesAgree`), each function names one successor (`OneEdge`) | two orders of four variables: an array of structs with padding, a struct with holes and pointers into the array, a packed struct with an i64 and cast pointers, a function pointer that the program changes; three functions: one calls itself, one is called through pointers only, `main` has a phi whose value comes from a call, a switch on a byte with other bits above it, and addresses with an index known at run time; 4 activations; the program may be started again at any time |

Each bound is a constant with a comment in its module. Two bits in a byte are
enough since nothing in the intrinsics depends on the 8 except through the
constants 8, 256, 65536, ..., which are computed from it; sign bit, carry into the
next byte and wrap-around all occur.

Runs that end in a violation, each a finding:

* `interp_template`: when main returns in the block that reaches the limit, the
  end of the program removes the template, and an assertion of the interpreter
  fails (`TemplateIsCommandBlock`).
* `blocks_inline`: the last bytes of a memcpy in line are taken from
  `%return%0` (1705); `load_byte` returns them in `%param0%0` (`InlineCopies`).
* `chain_stalled`: README.md of the repository (4, 16-19) says that datapacks run in a
  real world and names two commands to set it up, `/function setup:` and
  `/function rust:`. Neither sets `%%CMD_LIMIT`, which only the interpreter does
  (`interpreter.rs` 184), and nothing summons the entity `next`. In a world set up so,
  the end of main's first block writes nothing and the chain goes on to an empty
  command, which is no step of the control flow (`ImplementsControlFlow`).
* `words_shift64`: a 64-bit shift by a variable distance above 32 shifts the other
  word by a negative distance, which the one-word intrinsics ignore (`Shifts64`).

The passing runs leave out, by a constant or in the property's premise, what the
following would violate:

* `memory` has no load of three bytes: it is emitted without `setptr` (4731) and
  reads where an earlier access left the entity.
* `blocks` has no memcpy longer than a chunk whose length is known only at run
  time: one chunk at most is copied (1731).
* `ShiftsRight`: a 64-bit shl by a constant below 32 moves bits between the
  words by a signed division, wrong when bit 31 of the low word is set (1880); the
  assertion on an i24 is off by one (2008). A variable 64-bit distance above 32 is
  `words_shift64`.
* `ShiftsRight`: near the least word, lowering the dividend of ashr wraps and the
  sign is lost; for a distance of 31 the divisor is negative.
* `ShiftsRight`: shifts of i8, i16 and i24 take the whole holder. A constant is
  sign-extended in it (5996-5997; an i24 is not, 5999), and a sum, product or
  quotient is that of words, never cut to its type (3744-3759). lshr (2073-2088)
  shifts what is above the type in, ashr (2113-2164) gives a loaded negative number for a
  positive one, and a shl by a constant (1979-2014) leaves there what it moved out, for
  its assertion is only about numbers above the largest and lets negative ones
  pass (2004-2012). Of every shl the bits of the type are right. An lshr of an i48 is
  not modelled.
* `ComparisonsRight`: an i1, i8, i16 or i24 is compared as its holder is (5120-5160): a
  loaded 255 is not equal to the constant -1, and neither is a sum that carried to the
  number it stands for. The signed predicates of an i48 compare the low words with a
  sign and the high words, which are never negative, without one (5126-5151): they are
  wrong for numbers of different signs, or for equal high words when the low words
  differ in bit 31.
* `ArithmeticRight`: the flag of an i8 uadd.with.overflow is right for two clean bytes
  (2753-2771), and an sdiv or srem of a narrow type is that of the words that the
  holders have.
* `OtherConstantsSet`: a shl by the constant 31 and a 64-bit lshr by the constant
  1 read `%%-2147483648` (2002, 3501), a 64-bit subtraction reads `%%0` (3705).
  Neither is set: the interpreter stops with "read from uninitialized variable".
* `ArithmeticRight`: `%=` is never negative, so srem of a negative dividend is not
  what LLVM means (4775).
* `ArithmeticRight`: the flag of usub.with.overflow, for words the carry of
  a + (-b), is set when nothing overflows (2701).
* `CallsDone`: a memset whose byte is not in 0..255, which a constant i8 may be.
* `ConversionsRight`: ExtractValue of a byte cuts it out of what the destination
  held before ("FIXME: THIS DOES NOT WORK", 5324); the commands that evaluate the
  operands of InsertValue are dropped (5384), so an operand that is a constant of
  two words reads holders nobody set; the assertion before a byte is put in
  demands that the word is *no* byte (5393), which `passed` records. The holder of that
  byte is added as it is (5395-5402): a negative constant or a sum that carried changes
  the bytes beside it, so that these are right only for a clean holder.
* `VectorsRight`: a comparison of vectors adds its flags to a destination it does
  not set to 0 (5069), so the property is about one that held 0; the signed predicates
  and comparisons of <4 x i8> are not in the model; ExtractElement of a flag leaves the flags above it (5876).
  Shuffles of flags divide by the index of a byte instead of by a power of 256
  (5828), and any shuffle takes the first element of the second vector for one
  beyond the first (5788; the compiler panics): neither is in the model.
* `ImplementsModule`: the checked module has no phi that reads another phi of its
  block (they are assigned one after the other, 5203), no switch on an i8 or i16
  with a case in the upper half (the remainder of the operand is compared with the
  sign-extended case, 2989), no null function pointer, which is also
  the pointer to the function at place 0, no `PtrToInt` of a function, which is -1
  before relocation (5979).
* `NamesUnique`: two functions, or two blocks of one function, whose names become equal
  in lower case and with `_` for `$`, `.` and `-` (`cir.rs` 431-443) share a name; so
  do a block called `7` and the unnamed block 7, which a return address is parsed as
  (489-496). The checked module has none (`NamesApart`); that such functions do collide
  is the theorem `NamesCollide`. By `NamesAssumption` no function of the module is
  called `init` or `__langcraft_on_tick` either, which would share its name with one
  of the runtime's: nothing in the code asserts that there is none.
* `frames` has no dynamic alloca: its loop over `1..type_size` adds the count once
  too few (3954), and the next push overwrites the end of the memory.
* Holders longer than 40 characters are abbreviated (`cir.rs` 22); an abbreviation
  can be the name of another holder. The models take holders to be distinct.

`CHECK_DEADLOCK FALSE` stands where a behaviour really ends: a program that has
ended, a single instruction, or a bound that is reached.

### Fairness

`CommandChain` assumes weak fairness of `OnTick` and of running the block the chain
is at: the game's tick loop runs a powered impulse block and a chain block that is
triggered. Nothing obliges the user to start the program. Under it, `chain` shows
that a suspended program is woken (`SuspendedResumes`) and that control always
progresses (`ControlProgresses`). `Interpreter`, `CallFrames`, `Memory`,
`BlockOps` and `CompiledModule` state safety only: they are sequential, and a step is always enabled
until they end. `WordOps` takes one step.

## 4. What is proved

`CommandChainProofs`, for every program, limit, chain length and number of runs:

* `TypeCorrect`: the type invariant, with no further assumption;
* under `Ready` (the score and the entity exist, the limit is at most ten times
  the game's chain length, no terminator without destination):
  `ChainInvariant`, and from it `NextAlwaysReady`, `OneTickOnly`, `TicksBounded`,
  `GoodReturns`, and `Refinement`: the machine implements `ControlFlow!Spec`.

None of the properties is inductive. That the entity stands at the other block
when a block starts depends on what `Suspend` and `OnTick` leave in the template
while nothing runs; that a chain block is never the last by the game's limit
depends on the count, which only bounds the chain if the count of a tick starts
at zero. `ChainInv` therefore joins: the type; while a chain block runs or a tick
is pending the template holds a function and `start` exists; while the chain runs
both properties of the entity, no redstone and no queued tick, and
`10 * burst <= count < Limit`; and the shape of the stack (main's return address
below, functions above) whenever the program has something to do. Each action
preserves it: the ends of blocks by one lemma on `HandOver`, which is split into
`PassOn` and `Suspend`. The refinement maps a step of a block to the step of its
kind, `OnTick` and steps after the end to stutters, and `RunMain` to `Start`.

Two more theorems are about the worlds that `Ready` leaves out, those of the runs
`chain_stop` and `chain_stalled`:

* `StoppedForGood` (`StopIsFinal`), in worlds with the entity, with terminators that
  have no destination and a game that may cut a chain short: after such a terminator no
  tick is queued until the user runs the program again, and at most the one block left
  in the chain still runs, with none after it. Most of `ChainInv` fails there; `StopInv`
  keeps that the template holds a command, that no tick is pending without the
  impulse block, and, as long as that block is there, that the entity stands at
  the block to be written (`Live`): a bad pointer therefore removes the very block
  the chain would go on to, and afterwards nothing rings the impulse block again.
* `NeverPastMain`, in worlds without the score (`LimitStates = {FALSE}`): no program
  runs any function but main's first (`StalledInMain`), since the template and the
  other chain block keep what `init` and the first tick put there (`Unwritten`). It
  says of every program what `chain_stalled` shows of one.

`InterpreterProofs`, for every program whose code `CompiledCode` generates, every
limit and every number of commands:

* `InterpreterInvariant`, and from it `TypesOfInterpreter` (`TypeOK`),
  `OneTickQueued` (`TickQueuedOnce`, the interpreter's own assertion) and
  `MainHasReturned` (`HaltedMeansReturned`), the last for programs none of whose
  pointers is main's return address: one such pointer ends the program in the
  middle;
* `CommandsRefineControlFlow`: the interpreter, a command at a time, implements
  `ControlFlow!Spec`, as the machine of the game does a block at a time.

No property is inductive, since each speaks of the end of a block and the
commands of one block are up to N + 10 steps. `InterpInv` says what the call stack
looks like while nothing has failed: main's own function (`Booting`), with `init`
above it (`Initing`), the impulse block (`Ticking`), a block alone (`OwnLine`) or
with the functions that follow a pointer above it (`Returning`, `Calling`), or
nothing (`Ended`); and for each line of each, what the lines before it have
written: the destination (`Written`), the return address (`StackAt`), the block the
entity is at, the template and the queued tick. The commands are computed from the
position of a line in the block (`ChargeAt`, `TpAt`, `AirAt`), so that half of the
proof says which command stands at which line, for any number of edges. In the
refinement the last command of a block, whichever of its three forms it has, is the
step of the block's kind, the last of main's function is `Start`, and every other a
stutter. Since the interpreter has no scores, `chosen` and `decide` are there to
settle which edge is taken before its commands are met.

It assumes `ProgramAssumption`, of which a part is that a call that goes through no
pointer has one callee, and `InterpreterAssumption` (the absent command is no
number; limits are numbers).

`CallFramesProofs`, for any functions, clobber lists, programs, stacks and depths:

* `FramesInvariant`, and from it `TypesOfFrames` (`TypeOK`), `FramesStayLinked`
  (`FramesLinked`), `ReturnAddressesRight` (`ReturnsToCaller`: under every frame is
  the address that the call of this activation pushed, and a return goes on behind the
  last call that has not come back) and `StackComesBack` (`StackBalanced`: the stack
  is empty at the end, and otherwise consists of frames and what `alloca` gave). `FrameInv` adds `Stacked`, that frames are intervals of the
  stack in the order of their entry, with what `alloca` gave between the link of
  one and the return address of the next, and `Expected`, that a function about to
  be entered finds its return address on top. Without `Stacked`, a store through a
  pointer or a push could overwrite a saved holder or a link, and nothing would be
  preserved; it is also what makes `StoreOp` harmless, which writes only words
  somebody owns;
* `FramesRefineActivations` (`ImplementsActivations`): although all activations
  share holders, each has locals of its own. The proof shows that the refinement
  mapping, which looks for a local in its holder or in the first frame above that
  saved it, has for each action the value the abstract step says. The cases that
  matter are entry (what was in the holder moves to the new frame: `InHolders`
  becomes `InFrames`), return (it moves back, also where several frames saved the
  same holder) and stores to memory (never into a frame).

They assume `RoutinesAssumption` (clobber lists and parameter lists name a holder
once, a function's parameters are among its locals, no more parameters than
holders for them, sites are numbers, a call's result is a local of the caller) and
`CallFramesAssumption`.

`WordOpsProofs`, for words of any length:

* `CarryTells`: the three conditions of `add_32_with_carry` hold exactly when the
  unsigned sum leaves a word, and the wrapped sum and the carry together are the
  unsigned sum. It rests on `SumWraps` (a sum of two words wraps at most once) and
  `UnsignedWord`;
* `ComparisonsCorrect` (`ComparisonsRight`): equality and the unsigned relations for
  words, double words, i48s and narrow holders that are held alike, the signed ones
  where the holders have the signs. The three
  checks of `compile_unsigned_cmp` are the unsigned order (`UnsignedLessTells`),
  the relations made of them follow (`CompareTells`), and double words are
  ordered by their high words first (`TwoDigits`, `DoubleTells`);
* `ArithmeticCorrect` (`ArithmeticRight`): words are congruent modulo 2^32 to the
  numbers meant (`CongruentSums`, `WrapCongruent`), the carry counts the multiples
  (`DoubleIs`, `Add64Is`, `Sub64Is`), and `mul_64_two_words` loses no carry between
  its half-words (`CrossProducts`, `LongProduct`);
* `ShiftsCorrect` (`ShiftsRight`), for the distances and narrow holders its premises
  admit (a variable distance over two words up to 32): a multiplication or a division by a power of
  two is a shift of the bits that stay (`ShlIs`, `ShlWord`, `LshrWord`,
  `AshrIs`), what leaves one word of two is what enters the other (`MovedOut`,
  `LeftDouble`, `RightDouble`), and the loop of ctlz ends at the first bit
  (`LoopEnds`, `CtlzIs`). `BitwiseBits` gives the bits of and, or and xor;
* `ConversionsCorrect` (`ConversionsRight`): of conversions, whatever stands above the
  bits of a type, the remainder by 256 or 65536 is the value of its bits
  (`NarrowRest`, `SignExtendIs`); a byte put into a word arrives, and disturbs no other
  if its holder is clean (`InsertedByte`). Extraction of a byte is not covered;
* `VectorsCorrect` (`VectorsRight`), one element at a time (`LaneRightIs`);
* `WordsTypeCorrect` (`TypeOK`) and `ConstantsAreSet` (`OtherConstantsSet`), by the
  kind of instruction.

The properties are inductive because each step is a whole instruction; the work is
in the lemmas. The hypothesis of the first two is that `HighBit`, 2^(Bits - 1), is a
positive number and half of 2^Bits (`PowersOfTwo`); that of the others is `Powers`,
below. They assume `OperandsAssumption` (operands are words) and `LengthAssumption`
(four flags fill less than a word; the number of bits of a word is one of the
constants `%%n`, as 32 is). The instructions that the premises of the properties
leave out are those of section 3.

`CompiledModuleProofs`, for every module, with any number of variables of any size
in any order and any functions, blocks and calls:

* `VariablesApart` (`GlobalsApart`). The property is not inductive: that
  a new variable overlaps no earlier one needs that everything reserved so far ends
  where the free memory begins, and that this is a multiple of 4; that the stacks
  come after all variables needs that none is laid out once they are. `LayoutInv`
  says so; `ReservedWords` is the lemma on rounding up to words;
* `ScalarsAligned` (`LeavesAligned`): a scalar that is in no packed struct lies at a
  multiple of its alignment, however deep it is in structs, arrays and named types.
  A type comes after those it is made of in the table, so what holds of a type if it
  does of all before it holds of all (`TypesInduction`), and a function defined by
  recursion on types equals its definition (`LayoutOfTypes`, `TypeAtOfTypes`, ...).
  By that induction layouts are layouts (`LayoutsAre`), and a leaf is in place
  (`LeavesInPlace`): its offset is a multiple of its alignment, which is no larger
  than that of the whole, so that adding the offset of the whole, and at last the
  address of the variable, a multiple of 4, leaves it so (`PartAligned`,
  `OffsetsAdd`);
* `NamesDistinct` (`NamesUnique`): if `NamesApart` holds of the module, no two
  generated functions have one name, at any stage. The list only exists after `Link`, so the invariant begins with what leads
  to it: `CompileInv` says of the functions compiled so far that `heads` and
  `tails` together are parts of blocks with distinct ids, that a part which ends
  with a call has one that follows it (its id, one call further), and that the only
  address a part pushes is its own name, before a call. The steps behind it are
  lemmas on the folds of `CutBlock` and `CompileFunction` (`CutIs`, `CutBlockIs`,
  `FunctionIs`): a block cut behind its calls gives parts numbered 0, 1, ..., the last
  without a call. `ListInv` continues after `Link` through the fixups, `Relocate`
  and `Finish`. That ids differ is not enough: names are printed without the
  numbers that are 0, and `TextInjective` shows that this loses nothing;
* `NamesCollide`: the hypothesis cannot be dropped. Two functions whose names and entry
  blocks the conversion makes equal, as it does `f.1` and `f_1`, have one name in the
  list from linking on, in every behaviour, and nothing stops the compiler. By
  `HeadsInv`, the list begins, at every stage, with the first parts of the functions of the
  module in their order (`BeginsWithHeads`);
* `PlacesFixed` (`PlacesAgree`), also under `NamesApart`: function pointers, the table of
  `__langcraft_call` and return addresses are places in the final list, and at any
  moment of any run the return addresses on the stack belong to parts behind
  calls, main's, the lowest, being none. `ListInv` has what it needs of the list:
  every edge names a function that exists, a push has a number whose place holds a
  part with `sub` > 0 (`FixPush`: the name that was pushed, parsed and counted up,
  is found), a return comes last in its function. `RunInv` says of the machine that
  `next` names a function, that the stack is never empty while the program runs and
  that its lowest word is -1. A function runs as a fold over its commands; by
  `CommandIs` each keeps this, and `FunctionRuns` is the induction over the fold.
  That main's return address is read as -1 is arithmetic on the four bytes `init`
  writes last (`NoReturn`).

They assume `TypesAssumption` (types are those that `type_layout` has a case for,
which is a `todo!()` for the others, and no type is part of itself),
`VariablesAssumption` (finitely many variables), `GlobalsAssumption` (an order names variables only; what is reserved for
the condition stack is a number), `ModuleAssumption` and `BlocksAssumption` (what
LLVM guarantees: blocks of a function have different names, terminators go on with
blocks of their own function, calls name functions of the module), `NumeralsAssumption` (0 is printed as 0)
and `NamesAssumption` (no function of the module has the name of an intrinsic, which `compile_module_abstract` asserts at 565, or of
`init`, `__langcraft_on_tick`, `rust:__langcraft_call` or `rust:__langcraft_return`,
which nothing asserts). That names of the module stay apart is no assumption of
theirs but, where it is needed, a hypothesis (`NamesApart`). `PlacesFixed` further has `Powers` and the hypothesis
`[]Fits`: the memory of the model has room for what `init` writes. `Fits` is part of
the type invariant of run `module`; in the game memory is larger.

`JukeboxProofs` is the lemmas that `WordOpsProofs` and the next two modules share, for bytes and grids of
any size: a word is the wrapped sum of its four bytes (`BytesOfJoin`, `WrapBytes`,
`SameBytes`); the loop of `and`, which looks at the signs and doubles, is the
conjunction of bits (`BitwiseIs`), so that a mask clears one byte or two
(`AndMask`) and a store puts its value there (`StoredByte`, `StoredHalf`); a product
by a power of 256 and the loop of `lshr` isolate a byte (`LshrIs`, `LoadedByte`,
`LoadedHalf`); `setptr` is the inverse of `get_index` (`SetPtrIs`,
`SetPtrOfIndex`). On top of these, `BytesOf(m)` is memory as bytes, and each
intrinsic is stated in it: a load returns the bytes from its address on
(`LoadByteIs`, `LoadWordUnalignedIs`, ...), a store changes the bytes it covers and no
other (`StoreByteIs`, `StoreWordCovers`, `StoreBytesCovers`, `StoreWordsCovers`).

What the loops compute is proved by induction over a set of numbers (`Induction`,
`BoundedInduction`, from `LeastNumber`), with the property as a set; that a recursive
function equals its definition is `RecursionExists`, whose argument is a function
and not an operator, which is how it stays within reach of the provers.

`MemoryProofs`, for any grid, width of a byte, lengths, alignments and values:

* `TypesOfMemory` (`TypeOK`): words stay words, and the entity stays in the grid;
* `LoadsReadAtPtr` (`ReadsAtPtr`): the entity stands at the word `%ptr` addresses
  when a load ends;
* `MemoryIsBytes` (`ImplementsByteMemory`): every Load and Store is the one step of
  an array of bytes. The type invariant is all the strengthening it needs, for the
  refinement mapping is a function of `mem` alone and each step a whole
  instruction; the work is in the lemmas on what an instruction reads and covers.

The last two exclude a load of three bytes (`3 \notin LoadLengths`), which reads where
an earlier access left the entity: section 3.

`BlockOpsProofs`, for any lengths, places, chunk and contents:

* `BlockInvariant`, and from it `TypesOfBlocks` (`TypeOK`), `PartsAreDone`
  (`PartDone`), `WholeWordsAreCopied` (`InlineCopies`) and `CallsAreDone`
  (`CallsDone`). `PartDone` alone is not inductive. `BlockInv` adds `Progress`:
  `dst`, `src` and `left` move together, the offset kept by the head is that of
  `dst`, the word loop has an aligned `dst` or nothing left, and the tail has less
  than a word; and `Apart`: without disjoint (or equal) regions the bytes still to be
  copied might have been written. A byte or word step extends what is done by
  `ByteDone` or `WordDone`. For `bcmp`, `Compared` relates `%return%0` to the
  bytes seen so far.

They assume `WholeWords`: a memcpy in line has no bytes beside its words (with such
bytes run `blocks_inline` shows it wrong). `CallsAreDone` also assumes
`WithinChunk`, no memcpy longer than a chunk, which is another entry of section 3.

`MemoryProofs`, `BlockOpsProofs` and most of `WordOpsProofs` assume `Powers`, which
defines the power of a natural number (b^0 = 1,
b^(n+1) = b * b^n, positive): the provers know nothing of `^`. The modules' own
assumptions are as weak as the code has them: `SizeAssumption` (an address is a
word), `LengthsAssumption` (the lengths and alignments `compile_instr` has code for,
all others being a `todo!()`; lengths are numbers), `WordsAssumption` and
`ValuesAssumption` (memory and stored values are words).

Model-checked only:

* liveness (`SuspendedResumes`, `ControlProgresses`): fairness and `ENABLED` are out
  of the prover's reach;
* `TypeOK` of `CompiledModule`: that a register holds a word of its type, and a
  pointer the address of a place, is as much as that the program means what the
  module means, for which a type system of the IR would have to be stated first;
* `OneEdge`: rests on the values in registers too: a condition is 0 or 1, a function
  pointer the place of a function and not of an intrinsic;
* `ImplementsModule`: that the machine's memory holds the variables needs the bytes
  of initialisers, which are recursive in two arguments, and the values of registers,
  as for `TypeOK`.

## 5. Not modelled, and the plan

Not modelled: printing and parsing of commands, files, options, the output to the
player, the turtle (no property above depends on them); Grid mode and breakpoints;
the dynamic alloca; how a function's clobber list is collected from its commands
(`CallFrames` takes it as given); the counts of `analysis.rs` and `intrinsics.rs`,
which are only written in place of a comment nothing emits; the tests.

Plan, in this order:

1. `CallFrames` composed with `CompiledModule`: registers in shared holders, saved
   by clobber lists made from the commands.
2. Scores in `Interpreter`: which of its operations differ from the game's.
3. The demonstration program's lexer, parser and stack machine.

Theorems planned: `TypeOK` and `OneEdge` of `CompiledModule`, from a type system of
the IR.
