----------------------------- MODULE CallFrames -----------------------------
(***************************************************************************)
(* The calling convention of the generated code: one stack in memory, with *)
(* the scores %stackptr and %stackbaseptr, and callee-saved holders.  From *)
(* the bottom, a frame is the return address its caller pushed, the saved  *)
(* holders of its function, the caller's %stackbaseptr and what alloca has *)
(* reserved since.  Addresses count words.                                 *)
(***************************************************************************)
EXTENDS Routines

CONSTANTS
  Junk,        \* a value that intrinsics leave in %param and %return holders
  Literals,    \* the constants of the program
  AllocSizes,  \* the sizes of its allocas, in words
  StackWords,  \* bound of the model: the memory of the stack
  MaxFrames,   \* bound of the model: the depth of calls
  MaxWork      \* bound of the model: the instructions a program runs

ASSUME CallFramesAssumption ==
  /\ Literals \subseteq Words /\ Junk \in Words
  /\ AllocSizes \subseteq Nat \ {0}
  /\ StackWords \in Nat \ {0} /\ 0 .. StackWords \subseteq Words
  /\ MaxFrames \in Nat /\ MaxWork \in Nat

VARIABLES
  score,         \* the holders of locals and parameters
  return0,       \* the holder %return%0
  mem,           \* the memory of the stack
  stackptr, stackbaseptr,
  phase,         \* whether callee's first block or site runs next, or the
  callee,        \* middle of some function's code
  site,
  frames,        \* history: the functions entered, where their frames are and
                 \* what alloca gave them
  calls,         \* history: the sites called from and not yet resumed at
  work           \* the instructions run, returns apart

vars == <<score, return0, mem, stackptr, stackbaseptr, phase, callee, site,
          frames, calls, work>>

Running == frames[Len(frames)]
Fits(n) == stackptr + n <= StackWords

-----------------------------------------------------------------------------
(* init: the return address of main, then every clobbered holder is 1.     *)
Init ==
  /\ score = [r \in Holder \cup ParamHolders |-> 1]
  /\ return0 = 1
  /\ mem = [a \in 0 .. StackWords - 1 |-> IF a = 0 THEN MainReturn ELSE 1]
  /\ stackptr = 1 /\ stackbaseptr = 0
  /\ phase = "enter" /\ callee = Main /\ site = MainReturn
  /\ frames = <<>> /\ calls = <<MainReturn>>
  /\ work = 0

(* The prolog: save_regs, then the parameters are put in their holders.    *)
Pushed(f) == [i \in DOMAIN Saved[f] |-> score[Saved[f][i]]] \o <<stackbaseptr>>

Written(first, words) ==
  [a \in DOMAIN mem |->
     IF a - first + 1 \in DOMAIN words THEN words[a - first + 1] ELSE mem[a]]

Received(f) ==
  [r \in DOMAIN score |->
     IF r \in Range(Args[f])
     THEN score[Param[CHOOSE i \in DOMAIN Args[f] : Args[f][i] = r]]
     ELSE score[r]]

(* Mutants: %stackbaseptr is not set; the parameters are put in their      *)
(* holders before those are saved.                                         *)
EnterKeepingBase ==
  /\ phase = "enter"
  /\ Len(frames) < MaxFrames
  /\ Fits(Len(Pushed(callee)))
  /\ mem' = Written(stackptr, Pushed(callee))
  /\ stackptr' = stackptr + Len(Pushed(callee))
  /\ score' = Received(callee)
  /\ frames' = Append(frames, [fn |-> callee, base |-> stackptr, own |-> {}])
  /\ phase' = "run"
  /\ UNCHANGED <<return0, stackbaseptr, callee, site, calls, work>>

EnterParamsFirst ==
  /\ phase = "enter"
  /\ Len(frames) < MaxFrames
  /\ Fits(Len(Pushed(callee)))
  /\ score' = Received(callee)
  /\ mem' = Written(stackptr, [i \in DOMAIN Saved[callee] |-> score'[Saved[callee][i]]]
                              \o <<stackbaseptr>>)
  /\ stackptr' = stackptr + Len(Pushed(callee))
  /\ stackbaseptr' = stackptr'
  /\ frames' = Append(frames, [fn |-> callee, base |-> stackptr, own |-> {}])
  /\ phase' = "run"
  /\ UNCHANGED <<return0, callee, site, calls, work>>

Enter ==
  /\ phase = "enter"
  /\ Len(frames) < MaxFrames
  /\ Fits(Len(Pushed(callee)))
  /\ mem' = Written(stackptr, Pushed(callee))
  /\ stackptr' = stackptr + Len(Pushed(callee))
  /\ stackbaseptr' = stackptr'
  /\ score' = Received(callee)
  /\ frames' = Append(frames, [fn |-> callee, base |-> stackptr, own |-> {}])
  /\ phase' = "run"
  /\ UNCHANGED <<return0, callee, site, calls, work>>

-----------------------------------------------------------------------------
(* The body of a function.                                                 *)
Working ==
  /\ phase = "run"
  /\ work < MaxWork
  /\ work' = work + 1

Compute ==
  /\ Working
  /\ \E r \in Locals(Running.fn), v \in Literals :
       score' = [score EXCEPT ![r] = v]
  /\ UNCHANGED <<return0, mem, stackptr, stackbaseptr, phase, callee, site,
                 frames, calls>>

(* Intrinsics work with the holders of parameters and results.             *)
Intrinsic ==
  /\ Working
  /\ score' = [r \in DOMAIN score |-> IF r \in ParamHolders THEN Junk ELSE score[r]]
  /\ return0' = Junk
  /\ UNCHANGED <<mem, stackptr, stackbaseptr, phase, callee, site, frames, calls>>

Granted(n) ==
  [frames EXCEPT ![Len(frames)].own = @ \cup stackptr .. stackptr + n - 1]

(* Mutant: one word too few is reserved.                                   *)
AllocaShort ==
  /\ Working
  /\ \E r \in Locals(Running.fn), n \in AllocSizes :
       /\ Fits(n)
       /\ score' = [score EXCEPT ![r] = stackptr]
       /\ stackptr' = stackptr + n - 1
       /\ frames' = Granted(n)
  /\ UNCHANGED <<return0, mem, stackbaseptr, phase, callee, site, calls>>

Alloca ==
  /\ Working
  /\ \E r \in Locals(Running.fn), n \in AllocSizes :
       /\ Fits(n)
       /\ score' = [score EXCEPT ![r] = stackptr]
       /\ stackptr' = stackptr + n
       /\ frames' = Granted(n)
  /\ UNCHANGED <<return0, mem, stackbaseptr, phase, callee, site, calls>>

(* A program uses no memory of the stack but what alloca gave to the       *)
(* activations that are still there.                                       *)
Live == UNION {frames[i].own : i \in DOMAIN frames}

StoreOp ==
  /\ Working
  /\ \E p, r \in Locals(Running.fn) :
       /\ score[p] \in Live
       /\ mem' = [mem EXCEPT ![score[p]] = score[r]]
  /\ UNCHANGED <<score, return0, stackptr, stackbaseptr, phase, callee, site,
                 frames, calls>>

LoadOp ==
  /\ Working
  /\ \E p, r \in Locals(Running.fn) :
       /\ score[p] \in Live
       /\ score' = [score EXCEPT ![r] = mem[score[p]]]
  /\ UNCHANGED <<return0, mem, stackptr, stackbaseptr, phase, callee, site,
                 frames, calls>>

-----------------------------------------------------------------------------
(* A call pushes the return address and passes the arguments.              *)
CallOp ==
  /\ Working
  /\ Fits(1)
  /\ \E s \in Site, g \in Fn :
       /\ Caller[s] = Running.fn
       /\ mem' = [mem EXCEPT ![stackptr] = s]
       /\ callee' = g
       /\ calls' = Append(calls, s)
       /\ \E from \in [DOMAIN Args[g] -> Locals(Running.fn)] :
            score' = [r \in DOMAIN score |->
                        IF \E i \in DOMAIN from : r = Param[i]
                        THEN score[from[CHOOSE i \in DOMAIN from : r = Param[i]]]
                        ELSE score[r]]
  /\ stackptr' = stackptr + 1
  /\ phase' = "enter"
  /\ UNCHANGED <<return0, stackbaseptr, site, frames>>

(* load_regs, popping what save_regs pushed in the reverse order, and then *)
(* __langcraft_return, which pops the return address.                      *)
Popped(f) == [i \in DOMAIN Saved[f] |-> mem[stackbaseptr - 1 - Len(Saved[f]) + i - 1]]

Restored(f) ==
  [r \in DOMAIN score |->
     IF r \in Range(Saved[f])
     THEN Popped(f)[CHOOSE i \in DOMAIN Saved[f] : Saved[f][i] = r]
     ELSE score[r]]

(* Mutants: one word is not popped; %stackptr is not set back to the frame *)
(* first.                                                                  *)
ReturnLeavingOne ==
  /\ phase = "run"
  /\ \E r \in Locals(Running.fn) : return0' = score[r]
  /\ score' = Restored(Running.fn)
  /\ stackptr' = stackbaseptr - 1 - Len(Saved[Running.fn])
  /\ stackbaseptr' = mem[stackbaseptr - 1]
  /\ site' = mem[stackptr']
  /\ phase' = IF site' \in Site THEN "resume" ELSE "halted"
  /\ frames' = SubSeq(frames, 1, Len(frames) - 1)
  /\ UNCHANGED <<mem, callee, calls, work>>

ReturnFromTop ==
  /\ phase = "run"
  /\ \E r \in Locals(Running.fn) : return0' = score[r]
  /\ score' = [r \in DOMAIN score |->
                 IF r \in Range(Saved[Running.fn]) THEN Junk ELSE score[r]]
  /\ stackptr' = stackptr - 2 - Len(Saved[Running.fn])
  /\ stackbaseptr' = mem[stackptr - 1]
  /\ site' = mem[stackptr']
  /\ phase' = IF site' \in Site THEN "resume" ELSE "halted"
  /\ frames' = SubSeq(frames, 1, Len(frames) - 1)
  /\ UNCHANGED <<mem, callee, calls, work>>

Return ==
  /\ phase = "run"
  /\ \E r \in Locals(Running.fn) : return0' = score[r]
  /\ score' = Restored(Running.fn)
  /\ stackptr' = stackbaseptr - 2 - Len(Saved[Running.fn])
  /\ stackbaseptr' = mem[stackbaseptr - 1]
  /\ site' = mem[stackptr']
  /\ phase' = IF site' \in Site THEN "resume" ELSE "halted"
  /\ frames' = SubSeq(frames, 1, Len(frames) - 1)
  /\ UNCHANGED <<mem, callee, calls, work>>

(* The block after the call puts the result where the call wants it.       *)
Resume ==
  /\ phase = "resume"
  /\ score' = [score EXCEPT ![Dest[site]] = return0]
  /\ phase' = "run"
  /\ calls' = SubSeq(calls, 1, Len(calls) - 1)
  /\ UNCHANGED <<return0, mem, stackptr, stackbaseptr, callee, site, frames,
                 work>>

Next ==
  \/ Enter \/ Compute \/ Intrinsic \/ Alloca \/ StoreOp \/ LoadOp
  \/ CallOp \/ Return \/ Resume

Spec == Init /\ [][Next]_vars

-----------------------------------------------------------------------------
(***************************************************************************)
(* Properties.                                                             *)
(***************************************************************************)
TypeOK ==
  /\ score \in [Holder \cup ParamHolders -> Words]
  /\ return0 \in Words
  /\ mem \in [0 .. StackWords - 1 -> Words]
  /\ stackptr \in 0 .. StackWords /\ stackbaseptr \in 0 .. StackWords
  /\ phase \in {"enter", "run", "resume", "halted"}
  /\ callee \in Fn
  /\ site \in Site \cup {MainReturn}
  /\ calls \in Seq(Site \cup {MainReturn})
  /\ work \in 0 .. MaxWork
  /\ \A i \in DOMAIN frames : /\ frames[i].fn \in Fn
                              /\ frames[i].base \in 0 .. StackWords - 1
                              /\ frames[i].own \subseteq 0 .. StackWords - 1

(* The frames are linked: between the saved holders of a frame and what    *)
(* its activation allocates is the %stackbaseptr of the caller, so that    *)
(* each return finds its frame whatever alloca has added to it.            *)
Link(i) == frames[i].base + Len(Saved[frames[i].fn])

FramesLinked ==
  /\ \A i \in DOMAIN frames :
       mem[Link(i)] = IF i = 1 THEN 0 ELSE Link(i - 1) + 1
  /\ stackbaseptr = IF frames = <<>> THEN 0 ELSE Link(Len(frames)) + 1

(* The return address under a frame is that of the very call that entered  *)
(* it (main's under the lowest), whatever was called, stored and allocated *)
(* since; and a return goes on at the last call that has not come back.    *)
ReturnsToCaller ==
  /\ \A i \in DOMAIN frames : mem[frames[i].base - 1] = calls[i]
  /\ phase \in {"resume", "halted"} => site = calls[Len(calls)]

(* What was pushed is popped: a program that ends leaves an empty stack,   *)
(* and while it runs nothing lies between the link of a frame and the next *)
(* return address (or the top of the stack) but the words its own allocas  *)
(* took.  So a call gives %stackptr back as it found it.                   *)
End(i) ==
  IF i < Len(frames) THEN frames[i + 1].base - 1
  ELSE IF phase = "enter" THEN stackptr - 1 ELSE stackptr

StackBalanced ==
  /\ phase = "halted" => stackptr = 0 /\ frames = <<>>
  /\ \A i \in DOMAIN frames : frames[i].own = Link(i) + 1 .. End(i) - 1

(***************************************************************************)
(* Where the local of an activation is: in its holder, unless a function   *)
(* entered since has saved that holder; then the first that did keeps it.  *)
(***************************************************************************)
Savers(i, r) ==
  {j \in i + 1 .. Len(frames) : r \in Range(Saved[frames[j].fn])}

Kept(i, r) ==
  IF Savers(i, r) = {} THEN score[r]
  ELSE LET j == Min(Savers(i, r))
           f == frames[j].fn
       IN mem[frames[j].base - 1 + CHOOSE k \in DOMAIN Saved[f] : Saved[f][k] = r]

Waiting(i) ==
  IF i < Len(frames) THEN mem[frames[i + 1].base - 1]
  ELSE CASE phase = "enter"  -> mem[stackptr - 1]
         [] phase = "resume" -> site
         [] OTHER            -> MainReturn

actsBar ==
  [i \in DOMAIN frames |->
     [fn    |-> frames[i].fn,
      local |-> [r \in Locals(frames[i].fn) |-> Kept(i, r)],
      own   |-> frames[i].own,
      site  |-> Waiting(i)]]

cellBar == [a \in Live |-> mem[a]]

passedBar ==
  IF phase = "enter" THEN [i \in DOMAIN Args[callee] |-> score[Param[i]]] ELSE <<>>

resultBar == IF phase \in {"resume", "halted"} THEN return0 ELSE 0

A == INSTANCE Activations WITH
  acts <- actsBar, cell <- cellBar, passed <- passedBar, result <- resultBar

(* Through any sequence of calls, returns, allocations and stores, each    *)
(* activation finds its locals, its arguments, its memory and its results  *)
(* as if nobody else had used the holders.                                 *)
ImplementsActivations == A!Spec
=============================================================================
