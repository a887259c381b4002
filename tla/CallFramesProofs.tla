-------------------------- MODULE CallFramesProofs --------------------------
(***************************************************************************)
(* Proofs about the calling convention, for any functions with any clobber *)
(* lists, any program and any depth of calls.                              *)
(***************************************************************************)
EXTENDS CallFrames, SequenceTheorems, FiniteSetTheorems, TLAPS

(***************************************************************************)
(* The invariant.  The frames lie on the stack in the order in which they  *)
(* were entered: each begins behind the return address that was pushed for *)
(* it, and what alloca gave to its activation lies behind its link and     *)
(* before the next return address.  `Reach` is where the running function  *)
(* has pushed and allocated to.                                            *)
(***************************************************************************)
FrameRecord == [fn : Fn, base : 1 .. StackWords - 1, own : SUBSET (0 .. StackWords - 1)]

Reach == IF phase = "enter" THEN stackptr - 1 ELSE stackptr

Stacked ==
  /\ frames \in Seq(FrameRecord)
  /\ \A i \in DOMAIN frames :
       /\ i = 1 => frames[i].base = 1
       /\ Link(i) < Reach
       /\ \A a \in frames[i].own : Link(i) < a /\ a < Reach
  /\ \A i, j \in DOMAIN frames :
       i < j => /\ Link(i) + 1 < frames[j].base
                /\ \A a \in frames[i].own : a < frames[j].base - 1

(* What the next step relies on: that a callee finds its return address at *)
(* the top of the stack, and that some function runs.                      *)
Expected ==
  /\ phase = "enter" =>
       /\ stackptr > 0
       /\ IF frames = <<>>
          THEN callee = Main /\ stackptr = 1 /\ mem[0] = MainReturn
          ELSE mem[stackptr - 1] \in Site /\ Caller[mem[stackptr - 1]] = Running.fn
  /\ phase \in {"run", "resume"} => frames # <<>>
  /\ phase = "resume" => site \in Site /\ Caller[site] = Running.fn

(* Every return address is that of a call in the function whose frame is   *)
(* below, and the lowest is main's.                                        *)
CallersBelow ==
  \A i \in DOMAIN frames :
    LET address == mem[frames[i].base - 1]
    IN IF i = 1 THEN address = MainReturn
       ELSE address \in Site /\ Caller[address] = frames[i - 1].fn

FrameInv ==
  /\ TypeOK
  /\ Stacked
  /\ Expected
  /\ FramesLinked
  /\ CallersBelow

-----------------------------------------------------------------------------
LEMMA ConstantFacts ==
  /\ MainReturn \notin Site /\ MainReturn \in Words /\ Site \subseteq Words
  /\ 0 .. StackWords \subseteq Words /\ 1 \in Words
  /\ StackWords \in Nat /\ StackWords >= 1
  /\ \A f \in Fn : /\ Saved[f] \in Seq(Holder \cup ParamHolders)
                   /\ Args[f] \in Seq(Locals(f))
                   /\ Len(Saved[f]) \in Nat /\ DOMAIN Saved[f] = 1 .. Len(Saved[f])
                   /\ Locals(f) \subseteq Holder
<1>1. MainReturn \notin Site /\ MainReturn \in Words /\ Site \subseteq Words
  BY RoutinesAssumption DEF MainReturn
<1>2. 0 .. StackWords \subseteq Words /\ StackWords \in Nat /\ StackWords >= 1
  BY CallFramesAssumption
<1>3. 1 \in Words
  BY <1>2
<1>4. ASSUME NEW f \in Fn
      PROVE  /\ Saved[f] \in Seq(Holder \cup ParamHolders)
             /\ Args[f] \in Seq(Locals(f))
             /\ Len(Saved[f]) \in Nat /\ DOMAIN Saved[f] = 1 .. Len(Saved[f])
  BY RoutinesAssumption
<1>5. ASSUME NEW f \in Fn
      PROVE  Locals(f) \subseteq Holder
  <2>1. Saved[f] \in Seq(Holder \cup ParamHolders)
    BY <1>4
  <2>2. Range(Saved[f]) \in SUBSET (Holder \cup ParamHolders)
    BY <2>1, RangeOfSeq
  <2> QED
    BY <2>2 DEF Locals
<1> QED
  BY <1>1, <1>2, <1>3, <1>4, <1>5

LEMMA FrameFacts ==
  ASSUME FrameInv, NEW i \in DOMAIN frames
  PROVE  /\ Len(frames) \in Nat /\ DOMAIN frames = 1 .. Len(frames)
         /\ i \in Int /\ 1 <= i /\ i <= Len(frames)
         /\ frames[i].fn \in Fn
         /\ frames[i].base \in Int /\ 1 <= frames[i].base
         /\ Len(Saved[frames[i].fn]) \in Nat
         /\ Link(i) \in Int /\ frames[i].base <= Link(i)
         /\ Link(i) = frames[i].base + Len(Saved[frames[i].fn])
         /\ frames[i].own \subseteq 0 .. StackWords - 1
         /\ stackptr \in Int /\ Reach \in Int /\ Reach <= stackptr
         /\ stackptr <= StackWords
<1>1. frames \in Seq(FrameRecord)
  BY DEF FrameInv, Stacked
<1>2. frames[i] \in FrameRecord /\ Len(frames) \in Nat /\ DOMAIN frames = 1 .. Len(frames)
  BY <1>1
<1>3. frames[i].fn \in Fn /\ frames[i].base \in 1 .. StackWords - 1
      /\ frames[i].own \subseteq 0 .. StackWords - 1
  BY <1>2 DEF FrameRecord
<1>4. stackptr \in 0 .. StackWords
  BY DEF FrameInv, TypeOK
<1> QED
  BY <1>2, <1>3, <1>4, ConstantFacts DEF Link, Reach

(* The words of a frame that the calling convention relies on are nobody's *)
(* memory.                                                                 *)
LEMMA ControlWords ==
  ASSUME FrameInv, NEW i \in DOMAIN frames, NEW a \in Int,
         frames[i].base - 1 <= a, a <= Link(i)
  PROVE  a \in 0 .. StackWords - 1 /\ a < Reach /\ a \notin Live
<1>1. a < Reach
  BY FrameFacts DEF FrameInv, Stacked
<1>2. a \in 0 .. StackWords - 1
  BY <1>1, FrameFacts, ConstantFacts
<1>3. ASSUME NEW j \in DOMAIN frames, a \in frames[j].own PROVE FALSE
  <2>1. CASE j < i
    BY <1>3, <2>1, FrameFacts, SMTT(30) DEF FrameInv, Stacked
  <2>2. CASE j = i
    BY <1>3, <2>2, FrameFacts DEF FrameInv, Stacked
  <2>3. CASE i < j
    <3>1. Link(i) + 1 < frames[j].base /\ Link(j) < a
      BY <1>3, <2>3 DEF FrameInv, Stacked
    <3> QED
      BY <3>1, FrameFacts
  <2> QED
    BY <2>1, <2>2, <2>3, FrameFacts
<1> QED
  BY <1>1, <1>2, <1>3 DEF Live

-----------------------------------------------------------------------------
(***************************************************************************)
(* What the operators of the prolog and of the return compute.             *)
(***************************************************************************)
LEMMA ListIsSeq ==
  ASSUME NEW S, NEW n \in Nat, NEW s \in [1 .. n -> S]
  PROVE  s \in Seq(S) /\ Len(s) = n
<1>1. s \in Seq(S)
  BY SeqDef
<1>2. Len(s) \in Nat /\ DOMAIN s = 1 .. Len(s)
  BY <1>1, LenProperties
<1>3. 1 .. n = 1 .. Len(s)
  BY <1>2
<1>4. Len(s) = n
  BY <1>2, <1>3
<1> QED
  BY <1>1, <1>4

(* What save_regs pushes: the clobbered holders in order, then the base.   *)
LEMMA PushedWords ==
  ASSUME TypeOK, NEW f \in Fn
  PROVE  /\ Pushed(f) \in Seq(Words)
         /\ Len(Pushed(f)) = Len(Saved[f]) + 1
         /\ \A k \in DOMAIN Saved[f] : Pushed(f)[k] = score[Saved[f][k]]
         /\ Pushed(f)[Len(Saved[f]) + 1] = stackbaseptr
<1> DEFINE saved == [i \in DOMAIN Saved[f] |-> score[Saved[f][i]]]
<1>1. score \in [Holder \cup ParamHolders -> Words] /\ stackbaseptr \in Words
  BY ConstantFacts DEF TypeOK
<1>2. Len(Saved[f]) \in Nat /\ DOMAIN Saved[f] = 1 .. Len(Saved[f])
      /\ \A k \in DOMAIN Saved[f] : Saved[f][k] \in Holder \cup ParamHolders
  BY ConstantFacts
<1>3. saved \in [1 .. Len(Saved[f]) -> Words]
  BY <1>1, <1>2
<1> HIDE DEF saved
<1>4. saved \in Seq(Words) /\ Len(saved) = Len(Saved[f])
  BY <1>2, <1>3, ListIsSeq
<1>5. <<stackbaseptr>> \in Seq(Words) /\ Len(<<stackbaseptr>>) = 1
  BY <1>1
<1>6. /\ saved \o <<stackbaseptr>> \in Seq(Words)
      /\ Len(saved \o <<stackbaseptr>>) = Len(Saved[f]) + 1
      /\ \A k \in 1 .. Len(Saved[f]) + 1 :
           (saved \o <<stackbaseptr>>)[k] =
             IF k <= Len(Saved[f]) THEN saved[k]
             ELSE <<stackbaseptr>>[k - Len(Saved[f])]
  BY <1>4, <1>5, ConcatProperties
<1>7. Pushed(f) = saved \o <<stackbaseptr>>
  BY DEF Pushed, saved
<1>8. \A k \in DOMAIN Saved[f] : saved[k] = score[Saved[f][k]]
  BY DEF saved
<1> QED
  BY <1>2, <1>6, <1>7, <1>8

LEMMA WrittenWords ==
  ASSUME mem \in [0 .. StackWords - 1 -> Words],
         NEW first \in Nat, NEW words \in Seq(Words)
  PROVE  /\ Written(first, words) \in [0 .. StackWords - 1 -> Words]
         /\ \A a \in 0 .. StackWords - 1 :
              a < first => Written(first, words)[a] = mem[a]
         /\ \A k \in 1 .. Len(words) :
              first + k <= StackWords => Written(first, words)[first + k - 1] = words[k]
<1>1. DOMAIN words = 1 .. Len(words) /\ \A k \in DOMAIN words : words[k] \in Words
  OBVIOUS
<1>2. DOMAIN mem = 0 .. StackWords - 1
  OBVIOUS
<1>3. Written(first, words) \in [0 .. StackWords - 1 -> Words]
  BY <1>1, <1>2 DEF Written
<1>4. ASSUME NEW a \in 0 .. StackWords - 1, a < first
      PROVE  Written(first, words)[a] = mem[a]
  <2>1. a - first + 1 \notin DOMAIN words
    BY <1>1, <1>4
  <2> QED
    BY <1>2, <2>1 DEF Written
<1>5. ASSUME NEW k \in 1 .. Len(words), first + k <= StackWords
      PROVE  Written(first, words)[first + k - 1] = words[k]
  <2>1. first + k - 1 \in 0 .. StackWords - 1
    BY <1>5, ConstantFacts
  <2>2. (first + k - 1) - first + 1 = k
    OBVIOUS
  <2> QED
    BY <1>1, <1>2, <2>1, <2>2 DEF Written
<1> QED
  BY <1>3, <1>4, <1>5

(* The parameters arrive in their holders, and nothing else changes.       *)
LEMMA ReceivedWords ==
  ASSUME TypeOK, NEW f \in Fn
  PROVE  /\ Received(f) \in [Holder \cup ParamHolders -> Words]
         /\ \A i \in DOMAIN Args[f] : Received(f)[Args[f][i]] = score[Param[i]]
         /\ \A r \in Holder \cup ParamHolders :
              r \notin Range(Args[f]) => Received(f)[r] = score[r]
<1>1. score \in [Holder \cup ParamHolders -> Words]
  BY DEF TypeOK
<1>2. /\ DOMAIN Args[f] \subseteq DOMAIN Param
      /\ \A i \in DOMAIN Args[f] : Args[f][i] \in Holder
      /\ \A i, j \in DOMAIN Args[f] : Args[f][i] = Args[f][j] => i = j
  <2>1. Args[f] \in Seq(Locals(f)) /\ Param \in Seq(ParamHolders)
        /\ Len(Args[f]) <= Len(Param) /\ IsInjective(Args[f])
    BY RoutinesAssumption
  <2>2. DOMAIN Args[f] = 1 .. Len(Args[f]) /\ DOMAIN Param = 1 .. Len(Param)
        /\ Len(Args[f]) \in Nat /\ Len(Param) \in Nat
        /\ \A i \in DOMAIN Args[f] : Args[f][i] \in Locals(f)
    BY <2>1
  <2> QED
    BY <2>1, <2>2, ConstantFacts DEF IsInjective
<1>3. \A i \in DOMAIN Param : Param[i] \in ParamHolders
  BY DEF ParamHolders, Range
<1>4. ASSUME NEW i \in DOMAIN Args[f]
      PROVE  Received(f)[Args[f][i]] = score[Param[i]]
  <2>1. (CHOOSE j \in DOMAIN Args[f] : Args[f][j] = Args[f][i]) = i
    BY <1>2
  <2>2. Args[f][i] \in DOMAIN score /\ Args[f][i] \in Range(Args[f])
    BY <1>1, <1>2 DEF Range
  <2> QED
    BY <2>1, <2>2 DEF Received
<1>5. ASSUME NEW r \in Holder \cup ParamHolders, r \notin Range(Args[f])
      PROVE  Received(f)[r] = score[r]
  BY <1>1, <1>5 DEF Received
<1>6. ASSUME NEW r \in Holder \cup ParamHolders
      PROVE  Received(f)[r] \in Words
  <2>1. CASE r \in Range(Args[f])
    <3>1. PICK i \in DOMAIN Args[f] : Args[f][i] = r
      BY <2>1 DEF Range
    <3> QED
      BY <1>1, <1>2, <1>3, <1>4, <3>1
  <2> QED
    BY <1>1, <1>5, <2>1
<1>7. Received(f) = [r \in Holder \cup ParamHolders |-> Received(f)[r]]
  BY <1>1 DEF Received
<1> QED
  BY <1>4, <1>5, <1>6, <1>7

(* The running function's frame is the last one, and %stackbaseptr is      *)
(* behind its link.                                                        *)
LEMMA RunningFrame ==
  ASSUME FrameInv, phase \in {"run", "resume"}
  PROVE  /\ Len(frames) \in DOMAIN frames /\ frames # <<>>
         /\ Running = frames[Len(frames)] /\ Running.fn \in Fn
         /\ Reach = stackptr
         /\ stackbaseptr = Link(Len(frames)) + 1
         /\ stackbaseptr <= stackptr
<1>1. frames # <<>> /\ frames \in Seq(FrameRecord)
  BY DEF FrameInv, Expected, Stacked
<1>2. Len(frames) \in DOMAIN frames
  <2>1. Len(frames) \in Nat \ {0} /\ DOMAIN frames = 1 .. Len(frames)
    BY <1>1, EmptySeq, LenProperties
  <2> QED
    BY <2>1
<1>3. Running.fn \in Fn
  BY <1>2, FrameFacts DEF Running
<1>4. Reach = stackptr
  BY DEF Reach
<1>5. stackbaseptr = Link(Len(frames)) + 1
  BY <1>1 DEF FrameInv, FramesLinked
<1>6. Link(Len(frames)) < Reach
  BY <1>2 DEF FrameInv, Stacked
<1> QED
  BY <1>1, <1>2, <1>3, <1>4, <1>5, <1>6, FrameFacts DEF Running

(* load_regs finds what save_regs pushed.                                  *)
LEMMA RestoredWords ==
  ASSUME FrameInv, phase = "run"
  PROVE  /\ Restored(Running.fn) \in [Holder \cup ParamHolders -> Words]
         /\ \A k \in DOMAIN Saved[Running.fn] :
              Restored(Running.fn)[Saved[Running.fn][k]] = mem[Running.base - 1 + k]
         /\ \A r \in Holder \cup ParamHolders :
              r \notin Range(Saved[Running.fn]) => Restored(Running.fn)[r] = score[r]
<1> DEFINE f == Running.fn
           n == Len(frames)
<1>1. score \in [Holder \cup ParamHolders -> Words] /\ mem \in [0 .. StackWords - 1 -> Words]
  BY DEF FrameInv, TypeOK
<1>2. f \in Fn /\ n \in DOMAIN frames /\ Running = frames[n]
      /\ stackbaseptr = Link(n) + 1
  BY RunningFrame
<1>3. /\ DOMAIN Saved[f] = 1 .. Len(Saved[f]) /\ Len(Saved[f]) \in Nat
      /\ \A k \in DOMAIN Saved[f] : Saved[f][k] \in Holder \cup ParamHolders
  BY <1>2, ConstantFacts
<1>4. \A j, k \in DOMAIN Saved[f] : Saved[f][j] = Saved[f][k] => j = k
  BY <1>2, RoutinesAssumption DEF IsInjective
<1>5. ASSUME NEW k \in DOMAIN Saved[f]
      PROVE  Popped(f)[k] = mem[Running.base - 1 + k] /\ Popped(f)[k] \in Words
  <2>1. Link(n) = frames[n].base + Len(Saved[f]) /\ frames[n].base \in Int
        /\ Link(n) \in Int
    BY <1>2, FrameFacts
  <2>2. stackbaseptr - 1 - Len(Saved[f]) + k - 1 = Running.base - 1 + k
    BY <1>2, <1>3, <2>1, SMTT(30)
  <2>3. frames[n].base - 1 + k \in Int /\ frames[n].base - 1 <= frames[n].base - 1 + k
        /\ frames[n].base - 1 + k <= Link(n)
    BY <1>3, <2>1
  <2>4. frames[n].base - 1 + k \in 0 .. StackWords - 1
    BY <1>2, <2>3, ControlWords
  <2> QED
    BY <1>1, <1>2, <2>2, <2>4 DEF Popped
<1>6. ASSUME NEW k \in DOMAIN Saved[f]
      PROVE  Restored(f)[Saved[f][k]] = Popped(f)[k]
  <2>1. (CHOOSE j \in DOMAIN Saved[f] : Saved[f][j] = Saved[f][k]) = k
    BY <1>4
  <2>2. Saved[f][k] \in DOMAIN score /\ Saved[f][k] \in Range(Saved[f])
    BY <1>1, <1>3 DEF Range
  <2> QED
    BY <2>1, <2>2 DEF Restored
<1>7. ASSUME NEW r \in Holder \cup ParamHolders, r \notin Range(Saved[f])
      PROVE  Restored(f)[r] = score[r]
  BY <1>1, <1>7 DEF Restored
<1>8. ASSUME NEW r \in Holder \cup ParamHolders
      PROVE  Restored(f)[r] \in Words
  <2>1. CASE r \in Range(Saved[f])
    <3>1. PICK k \in DOMAIN Saved[f] : Saved[f][k] = r
      BY <2>1 DEF Range
    <3> QED
      BY <1>5, <1>6, <3>1
  <2> QED
    BY <1>1, <1>7, <2>1
<1>9. Restored(f) = [r \in Holder \cup ParamHolders |-> Restored(f)[r]]
  BY <1>1 DEF Restored
<1> QED
  BY <1>5, <1>6, <1>7, <1>8, <1>9

-----------------------------------------------------------------------------
(***************************************************************************)
(* Every step preserves the invariant.                                     *)
(***************************************************************************)

(* Links and return addresses stay as long as their words do.              *)
LEMMA SameControl ==
  ASSUME FrameInv,
         DOMAIN frames' = DOMAIN frames, Len(frames') = Len(frames),
         frames' = <<>> <=> frames = <<>>,
         \A i \in DOMAIN frames : /\ frames'[i].fn = frames[i].fn
                                  /\ frames'[i].base = frames[i].base,
         stackbaseptr' = stackbaseptr,
         \A a \in 0 .. StackWords - 1 : a < Reach /\ a \notin Live => mem'[a] = mem[a]
  PROVE  FramesLinked' /\ CallersBelow' /\ \A i \in DOMAIN frames : Link(i)' = Link(i)
<1>1. \A i \in DOMAIN frames : Link(i)' = Link(i)
  BY DEF Link
<1>2. ASSUME NEW i \in DOMAIN frames
      PROVE  /\ mem'[Link(i)] = mem[Link(i)]
             /\ mem'[frames[i].base - 1] = mem[frames[i].base - 1]
  <2>1. /\ Link(i) \in Int /\ frames[i].base - 1 \in Int
        /\ frames[i].base - 1 <= Link(i)
        /\ frames[i].base - 1 <= frames[i].base - 1 /\ Link(i) <= Link(i)
    BY FrameFacts
  <2>2. \A a \in {Link(i), frames[i].base - 1} :
          a \in 0 .. StackWords - 1 /\ a < Reach /\ a \notin Live
    BY <2>1, ControlWords
  <2> QED
    BY <2>2
<1>3. \A i \in DOMAIN frames : i # 1 => i - 1 \in DOMAIN frames
  BY FrameFacts
<1>4. frames # <<>> => Len(frames) \in DOMAIN frames
  <2>1. frames \in Seq(FrameRecord)
    BY DEF FrameInv, Stacked
  <2>2. frames # <<>> => Len(frames) \in Nat \ {0} /\ DOMAIN frames = 1 .. Len(frames)
    BY <2>1, EmptySeq, LenProperties
  <2> QED
    BY <2>2
<1>5. FramesLinked'
  <2>1. \A i \in DOMAIN frames :
          mem'[Link(i)'] = IF i = 1 THEN 0 ELSE Link(i - 1)' + 1
    BY <1>1, <1>2, <1>3 DEF FrameInv, FramesLinked
  <2>2. stackbaseptr' = IF frames = <<>> THEN 0 ELSE Link(Len(frames))' + 1
    BY <1>1, <1>4 DEF FrameInv, FramesLinked
  <2> QED
    BY <2>1, <2>2 DEF FramesLinked
<1>6. CallersBelow'
  BY <1>2, <1>3 DEF FrameInv, CallersBelow
<1> QED
  BY <1>1, <1>5, <1>6

LEMMA FramesTyped ==
  ASSUME NEW fs \in Seq(FrameRecord)
  PROVE  \A i \in DOMAIN fs : /\ fs[i].fn \in Fn
                              /\ fs[i].base \in 0 .. StackWords - 1
                              /\ fs[i].own \subseteq 0 .. StackWords - 1
<1> SUFFICES ASSUME NEW i \in DOMAIN fs
             PROVE  /\ fs[i].fn \in Fn
                    /\ fs[i].base \in 0 .. StackWords - 1
                    /\ fs[i].own \subseteq 0 .. StackWords - 1
  OBVIOUS
<1>1. fs[i] \in FrameRecord
  OBVIOUS
<1> QED
  BY <1>1, ConstantFacts DEF FrameRecord

LEMMA InitInv == Init => FrameInv
<1> SUFFICES ASSUME Init PROVE FrameInv
  OBVIOUS
<1>1. frames = <<>> /\ DOMAIN frames = {} /\ frames \in Seq(FrameRecord)
  BY DEF Init
<1>2. TypeOK
  BY <1>1, ConstantFacts, RoutinesAssumption, CallFramesAssumption
  DEF Init, TypeOK
<1>3. Stacked
  BY <1>1 DEF Stacked
<1>4. Expected
  BY <1>1, ConstantFacts DEF Init, Expected
<1>5. FramesLinked /\ CallersBelow
  BY <1>1 DEF Init, FramesLinked, CallersBelow
<1> QED
  BY <1>2, <1>3, <1>4, <1>5 DEF FrameInv

(* Steps that leave the stack's extent alone and write to program memory   *)
(* at most.                                                                *)
LEMMA QuietStep ==
  ASSUME FrameInv, TypeOK',
         phase \in {"run", "resume"}, phase' = "run",
         UNCHANGED <<frames, stackptr, stackbaseptr>>,
         \A a \in 0 .. StackWords - 1 : a \notin Live => mem'[a] = mem[a]
  PROVE  FrameInv'
<1>1. FramesLinked' /\ CallersBelow' /\ \A i \in DOMAIN frames : Link(i)' = Link(i)
  BY SameControl
<1>2. Reach' = Reach
  BY DEF Reach
<1>3. Stacked'
  BY <1>1, <1>2 DEF FrameInv, Stacked
<1>4. Expected'
  BY RunningFrame DEF Expected
<1> QED
  BY <1>1, <1>3, <1>4 DEF FrameInv

LEMMA LiveWords == FrameInv => Live \subseteq 0 .. StackWords - 1
BY FrameFacts DEF Live

LEMMA BodyStep ==
  ASSUME FrameInv, Compute \/ Intrinsic \/ StoreOp \/ LoadOp
  PROVE  FrameInv'
<1>1. phase = "run" /\ phase' = "run" /\ UNCHANGED <<frames, stackptr, stackbaseptr>>
  BY DEF Compute, Intrinsic, StoreOp, LoadOp, Working
<1>2. /\ score \in [Holder \cup ParamHolders -> Words] /\ return0 \in Words
      /\ mem \in [0 .. StackWords - 1 -> Words]
      /\ Junk \in Words /\ Literals \subseteq Words
      /\ Locals(Running.fn) \subseteq Holder
  BY <1>1, RunningFrame, ConstantFacts, CallFramesAssumption DEF FrameInv, TypeOK
<1>3. work' \in 0 .. MaxWork
  BY CallFramesAssumption
  DEF FrameInv, TypeOK, Compute, Intrinsic, StoreOp, LoadOp, Working
<1>4. /\ score' \in [Holder \cup ParamHolders -> Words] /\ return0' \in Words
      /\ mem' \in [0 .. StackWords - 1 -> Words]
      /\ \A a \in 0 .. StackWords - 1 : a \notin Live => mem'[a] = mem[a]
  <2>1. CASE Compute
    BY <1>2, <2>1 DEF Compute
  <2>2. CASE Intrinsic
    BY <1>2, <2>2 DEF Intrinsic
  <2>3. CASE StoreOp
    BY <1>2, <2>3 DEF StoreOp
  <2>4. CASE LoadOp
    BY <1>2, <2>4, LiveWords DEF LoadOp
  <2> QED
    BY <2>1, <2>2, <2>3, <2>4
<1>5. UNCHANGED <<callee, site, calls>>
  BY DEF Compute, Intrinsic, StoreOp, LoadOp
<1>6. TypeOK'
  BY <1>1, <1>3, <1>4, <1>5 DEF FrameInv, TypeOK
<1> QED
  BY <1>1, <1>4, <1>6, QuietStep

LEMMA ShorterCalls ==
  ASSUME NEW S, NEW s \in Seq(S)
  PROVE  SubSeq(s, 1, Len(s) - 1) \in Seq(S)
<1>1. Len(s) - 1 \in Int /\ \A i \in 1 .. Len(s) - 1 : s[i] \in S
  OBVIOUS
<1> QED
  BY <1>1, SubSeqProperties

LEMMA ResumeStep ==
  ASSUME FrameInv, Resume
  PROVE  FrameInv'
<1>1. score' \in [Holder \cup ParamHolders -> Words]
  BY DEF FrameInv, TypeOK, Resume
<1>3. calls' \in Seq(Site \cup {MainReturn})
  BY ShorterCalls DEF FrameInv, TypeOK, Resume
<1>2. TypeOK'
  BY <1>1, <1>3 DEF FrameInv, TypeOK, Resume
<1> QED
  BY <1>2, QuietStep DEF Resume

(* What alloca grants goes to the running activation.                      *)
LEMMA GrantedFrames ==
  ASSUME FrameInv, phase = "run", NEW m \in AllocSizes, Fits(m)
  PROVE  /\ m \in Nat /\ m > 0 /\ stackptr + m \in 0 .. StackWords
         /\ Granted(m) \in Seq(FrameRecord) /\ Len(Granted(m)) = Len(frames)
         /\ DOMAIN Granted(m) = DOMAIN frames /\ Granted(m) # <<>>
         /\ \A i \in DOMAIN frames :
              /\ Granted(m)[i].fn = frames[i].fn /\ Granted(m)[i].base = frames[i].base
              /\ i # Len(frames) => Granted(m)[i].own = frames[i].own
         /\ Granted(m)[Len(frames)].own = Running.own \cup stackptr .. stackptr + m - 1
<1> DEFINE n == Len(frames)
<1>2. /\ n \in DOMAIN frames /\ Running = frames[n]
      /\ DOMAIN frames = 1 .. n /\ n \in Nat
  BY RunningFrame, FrameFacts
<1>4. /\ stackptr \in 0 .. StackWords /\ m \in Nat /\ m > 0
      /\ stackptr + m \in 0 .. StackWords
  BY ConstantFacts, CallFramesAssumption DEF FrameInv, TypeOK, Fits
<1> DEFINE area == stackptr .. stackptr + m - 1
<1>5. area \subseteq 0 .. StackWords - 1
  BY <1>4, ConstantFacts DEF Fits
<1> DEFINE top == [frames[n] EXCEPT !.own = @ \cup area]
<1>6. frames \in Seq(FrameRecord) /\ frames[n] \in FrameRecord
  BY <1>2 DEF FrameInv, Stacked
<1>7. top \in FrameRecord
      /\ top.fn = frames[n].fn /\ top.base = frames[n].base
      /\ top.own = frames[n].own \cup area
  BY <1>5, <1>6 DEF FrameRecord
<1>8. Granted(m) = [frames EXCEPT ![n] = top]
  BY DEF Granted
<1> HIDE DEF top, area
<1>9. /\ Granted(m) \in Seq(FrameRecord) /\ Len(Granted(m)) = n
      /\ DOMAIN Granted(m) = DOMAIN frames /\ Granted(m) # <<>>
      /\ \A i \in DOMAIN frames :
           /\ Granted(m)[i].fn = frames[i].fn /\ Granted(m)[i].base = frames[i].base
           /\ i # n => Granted(m)[i].own = frames[i].own
      /\ Granted(m)[n].own = frames[n].own \cup area
  <2>1. /\ Granted(m) \in Seq(FrameRecord) /\ Len(Granted(m)) = n
        /\ \A i \in 1 .. n : Granted(m)[i] = IF i = n THEN top ELSE frames[i]
    BY <1>2, <1>6, <1>7, <1>8, ExceptSeq
  <2>2. DOMAIN Granted(m) = DOMAIN frames
    BY <1>8
  <2>3. Granted(m) # <<>>
    BY <1>2, <2>2
  <2> QED
    BY <1>2, <1>7, <2>1, <2>2, <2>3
<1> QED
  BY <1>2, <1>4, <1>9 DEF area

LEMMA AllocaStep ==
  ASSUME FrameInv, Alloca
  PROVE  FrameInv'
<1> DEFINE n == Len(frames)
<1>1. phase = "run" /\ phase' = "run"
  BY DEF Alloca, Working
<1>2. /\ n \in DOMAIN frames /\ Running.fn \in Fn /\ Reach = stackptr
      /\ DOMAIN frames = 1 .. n /\ n \in Nat
      /\ stackbaseptr = Link(n) + 1 /\ stackbaseptr <= stackptr /\ Link(n) \in Int
  BY <1>1, RunningFrame, FrameFacts
<1>3. PICK r \in Locals(Running.fn), m \in AllocSizes :
        /\ Fits(m)
        /\ score' = [score EXCEPT ![r] = stackptr]
        /\ stackptr' = stackptr + m
        /\ frames' = Granted(m)
  BY DEF Alloca
<1>4. /\ stackptr \in 0 .. StackWords /\ m \in Nat /\ m > 0
      /\ stackptr' \in 0 .. StackWords
  BY <1>3, ConstantFacts, CallFramesAssumption DEF FrameInv, TypeOK, Fits
<1> DEFINE area == stackptr .. stackptr + m - 1
<1>9. /\ frames' \in Seq(FrameRecord) /\ Len(frames') = n
      /\ DOMAIN frames' = DOMAIN frames /\ frames' # <<>>
      /\ \A i \in DOMAIN frames :
           /\ frames'[i].fn = frames[i].fn /\ frames'[i].base = frames[i].base
           /\ i # n => frames'[i].own = frames[i].own
      /\ frames'[n].own = frames[n].own \cup area
  BY <1>1, <1>3, GrantedFrames DEF Running
<1> HIDE DEF area
<1>10. UNCHANGED <<mem, stackbaseptr, return0, callee, site, calls>>
  BY DEF Alloca
<1>11. FramesLinked' /\ CallersBelow' /\ \A i \in DOMAIN frames : Link(i)' = Link(i)
  BY <1>1, <1>9, <1>10, RunningFrame, SameControl
<1>12. Reach' = stackptr + m
  BY <1>1, <1>3 DEF Reach
<1>13. Stacked'
  <2>1. ASSUME NEW i \in DOMAIN frames'
        PROVE  /\ i = 1 => frames'[i].base = 1
               /\ Link(i)' < Reach'
               /\ \A a \in frames'[i].own : Link(i)' < a /\ a < Reach'
    <3>1. /\ i \in DOMAIN frames /\ i = 1 => frames[i].base = 1
          /\ Link(i) < Reach /\ \A a \in frames[i].own : Link(i) < a /\ a < Reach
          /\ Link(i) \in Int /\ frames[i].own \subseteq 0 .. StackWords - 1
      BY <1>9, <2>1, FrameFacts DEF FrameInv, Stacked
    <3>2. Link(i)' = Link(i)
      BY <1>9, <3>1 DEF Link
    <3>3. ASSUME NEW a \in frames'[i].own PROVE Link(i)' < a /\ a < Reach'
      <4>1. CASE a \in frames[i].own
        BY <1>2, <1>4, <1>12, <3>1, <3>2, <4>1
      <4>2. CASE a \in area
        BY <1>2, <1>4, <1>12, <3>1, <3>2, <4>2 DEF area
      <4> QED
        BY <1>9, <3>1, <3>3, <4>1, <4>2
    <3> QED
      BY <1>2, <1>4, <1>9, <1>12, <3>1, <3>2, <3>3
  <2>2. ASSUME NEW i \in DOMAIN frames', NEW j \in DOMAIN frames', i < j
        PROVE  /\ Link(i)' + 1 < frames'[j].base
               /\ \A a \in frames'[i].own : a < frames'[j].base - 1
    <3>1. i \in DOMAIN frames /\ j \in DOMAIN frames /\ i # n
      BY <1>2, <1>9, <2>2
    <3> QED
      BY <1>9, <1>11, <2>2, <3>1 DEF FrameInv, Stacked
  <2> QED
    BY <1>9, <2>1, <2>2 DEF Stacked
<1>14. TypeOK'
  <2>1. score' \in [Holder \cup ParamHolders -> Words]
    BY <1>3, <1>4, ConstantFacts DEF FrameInv, TypeOK
  <2>2. work' \in 0 .. MaxWork
    BY CallFramesAssumption DEF FrameInv, TypeOK, Alloca, Working
  <2>3. \A i \in DOMAIN frames' : /\ frames'[i].fn \in Fn
                                  /\ frames'[i].base \in 0 .. StackWords - 1
                                  /\ frames'[i].own \subseteq 0 .. StackWords - 1
    BY <1>9, FramesTyped
  <2> QED
    BY <1>1, <1>4, <1>10, <2>1, <2>2, <2>3 DEF FrameInv, TypeOK
<1>15. Expected'
  BY <1>1, <1>9 DEF Expected
<1> QED
  BY <1>11, <1>13, <1>14, <1>15 DEF FrameInv

LEMMA CallStep ==
  ASSUME FrameInv, CallOp
  PROVE  FrameInv'
<1> DEFINE n == Len(frames)
<1>1. /\ phase = "run" /\ phase' = "enter" /\ stackptr' = stackptr + 1
      /\ UNCHANGED <<return0, stackbaseptr, site, frames>>
      /\ stackptr + 1 <= StackWords /\ work' = work + 1 /\ work < MaxWork
  BY DEF CallOp, Working, Fits
<1>2. PICK s \in Site, g \in Fn :
        /\ Caller[s] = Running.fn
        /\ mem' = [mem EXCEPT ![stackptr] = s]
        /\ callee' = g
        /\ calls' = Append(calls, s)
        /\ \E from \in [DOMAIN Args[g] -> Locals(Running.fn)] :
             score' = [r \in DOMAIN score |->
                         IF \E i \in DOMAIN from : r = Param[i]
                         THEN score[from[CHOOSE i \in DOMAIN from : r = Param[i]]]
                         ELSE score[r]]
  BY DEF CallOp
<1>3. /\ n \in DOMAIN frames /\ frames # <<>> /\ Running.fn \in Fn /\ Reach = stackptr
      /\ stackptr \in 0 .. StackWords /\ stackptr \in 0 .. StackWords - 1
  BY <1>1, RunningFrame, ConstantFacts DEF FrameInv, TypeOK
<1>4. Reach' = Reach
  BY <1>1, <1>3 DEF Reach
<1>5. mem \in [0 .. StackWords - 1 -> Words] /\ s \in Words
  BY ConstantFacts DEF FrameInv, TypeOK
<1>6. /\ mem' \in [0 .. StackWords - 1 -> Words] /\ mem'[stackptr] = s
      /\ \A a \in 0 .. StackWords - 1 : a < Reach => mem'[a] = mem[a]
  BY <1>2, <1>3, <1>5
<1>7. FramesLinked' /\ CallersBelow' /\ \A i \in DOMAIN frames : Link(i)' = Link(i)
  BY <1>1, <1>6, SameControl
<1>8. Stacked'
  BY <1>1, <1>4, <1>7 DEF FrameInv, Stacked
<1>9. score' \in [Holder \cup ParamHolders -> Words]
  <2>1. PICK from \in [DOMAIN Args[g] -> Locals(Running.fn)] :
          score' = [r \in DOMAIN score |->
                      IF \E i \in DOMAIN from : r = Param[i]
                      THEN score[from[CHOOSE i \in DOMAIN from : r = Param[i]]]
                      ELSE score[r]]
    BY <1>2
  <2>2. score \in [Holder \cup ParamHolders -> Words]
        /\ \A i \in DOMAIN from : score[from[i]] \in Words
    BY <1>3, ConstantFacts DEF FrameInv, TypeOK
  <2>3. ASSUME NEW r \in Holder \cup ParamHolders
        PROVE  (IF \E i \in DOMAIN from : r = Param[i]
                THEN score[from[CHOOSE i \in DOMAIN from : r = Param[i]]]
                ELSE score[r]) \in Words
    <3>1. CASE \E i \in DOMAIN from : r = Param[i]
      <4>1. (CHOOSE i \in DOMAIN from : r = Param[i]) \in DOMAIN from
        BY <3>1
      <4> QED
        BY <2>2, <3>1, <4>1
    <3> QED
      BY <2>2, <3>1
  <2> QED
    BY <2>1, <2>2, <2>3
<1>10. TypeOK'
  <2>1. stackptr' \in 0 .. StackWords /\ work' \in 0 .. MaxWork
    BY <1>1, <1>3, ConstantFacts, CallFramesAssumption DEF FrameInv, TypeOK
  <2>2. calls' \in Seq(Site \cup {MainReturn})
    BY <1>2 DEF FrameInv, TypeOK
  <2> QED
    BY <1>1, <1>2, <1>6, <1>9, <2>1, <2>2 DEF FrameInv, TypeOK
<1>11. Expected'
  <2>1. mem'[stackptr' - 1] = s /\ stackptr' > 0
    BY <1>1, <1>3, <1>6
  <2>2. Running' = Running
    BY <1>1 DEF Running
  <2> QED
    BY <1>1, <1>2, <1>3, <2>1, <2>2 DEF Expected
<1> QED
  BY <1>7, <1>8, <1>10, <1>11 DEF FrameInv

(* The prolog finds the stack as the call left it, puts a frame on it and  *)
(* leaves what is below.                                                   *)
LEMMA EnterFinds ==
  ASSUME FrameInv, Enter
  PROVE  /\ callee \in Fn /\ stackptr \in 0 .. StackWords /\ stackptr > 0
         /\ Len(Pushed(callee)) = Len(Saved[callee]) + 1
         /\ mem' \in [0 .. StackWords - 1 -> Words]
         /\ \A a \in 0 .. StackWords - 1 : a < stackptr => mem'[a] = mem[a]
         /\ \A k \in DOMAIN Saved[callee] :
              mem'[stackptr - 1 + k] = score[Saved[callee][k]]
         /\ mem'[stackptr + Len(Saved[callee])] = stackbaseptr
         /\ frames' \in Seq(FrameRecord) /\ Len(frames') = Len(frames) + 1
         /\ frames' # <<>> /\ DOMAIN frames' = 1 .. Len(frames) + 1
         /\ \A i \in DOMAIN frames : frames'[i] = frames[i]
         /\ frames'[Len(frames) + 1].fn = callee
         /\ frames'[Len(frames) + 1].base = stackptr
         /\ frames'[Len(frames) + 1].own = {}
<1> DEFINE n == Len(frames)
           f == callee
           new == [fn |-> f, base |-> stackptr, own |-> {}]
<1>1. /\ phase = "enter" /\ phase' = "run"
      /\ mem' = Written(stackptr, Pushed(f))
      /\ stackptr' = stackptr + Len(Pushed(f)) /\ stackbaseptr' = stackptr'
      /\ stackptr + Len(Pushed(f)) <= StackWords
      /\ score' = Received(f)
      /\ frames' = Append(frames, new)
      /\ UNCHANGED <<return0, callee, site, calls, work>>
  BY DEF Enter, Fits
<1>2. /\ TypeOK /\ f \in Fn /\ stackptr \in 0 .. StackWords /\ stackptr > 0
      /\ mem \in [0 .. StackWords - 1 -> Words] /\ StackWords \in Nat
      /\ Len(Saved[f]) \in Nat /\ DOMAIN Saved[f] = 1 .. Len(Saved[f])
      /\ frames \in Seq(FrameRecord)
      /\ n \in Nat /\ DOMAIN frames = 1 .. n
  <2>1. frames \in Seq(FrameRecord)
    BY DEF FrameInv, Stacked
  <2> QED
    BY <1>1, <2>1, ConstantFacts, LenProperties DEF FrameInv, TypeOK, Expected
<1>3. /\ Pushed(f) \in Seq(Words) /\ Len(Pushed(f)) = Len(Saved[f]) + 1
      /\ Pushed(f)[Len(Saved[f]) + 1] = stackbaseptr
      /\ \A k \in DOMAIN Saved[f] : Pushed(f)[k] = score[Saved[f][k]]
  BY <1>2, PushedWords
<1> HIDE DEF f
<1>4. /\ mem' \in [0 .. StackWords - 1 -> Words]
      /\ \A a \in 0 .. StackWords - 1 : a < stackptr => mem'[a] = mem[a]
      /\ \A k \in DOMAIN Saved[f] : mem'[stackptr - 1 + k] = score[Saved[f][k]]
      /\ mem'[stackptr + Len(Saved[f])] = stackbaseptr
  <2>1. /\ Written(stackptr, Pushed(f)) \in [0 .. StackWords - 1 -> Words]
        /\ \A a \in 0 .. StackWords - 1 :
             a < stackptr => Written(stackptr, Pushed(f))[a] = mem[a]
        /\ \A k \in 1 .. Len(Pushed(f)) :
             stackptr + k <= StackWords =>
               Written(stackptr, Pushed(f))[stackptr + k - 1] = Pushed(f)[k]
    BY <1>2, <1>3, WrittenWords
  <2>2. stackptr + (Len(Saved[f]) + 1) - 1 = stackptr + Len(Saved[f])
    BY <1>2
  <2>3. Len(Saved[f]) + 1 \in 1 .. Len(Pushed(f))
    BY <1>2, <1>3
  <2>4. ASSUME NEW k \in DOMAIN Saved[f]
        PROVE  mem'[stackptr - 1 + k] = score[Saved[f][k]]
    <3>1. k \in 1 .. Len(Saved[f])
      BY <1>2
    <3>2. /\ k \in 1 .. Len(Pushed(f)) /\ stackptr + k <= StackWords
          /\ stackptr + k - 1 = stackptr - 1 + k
      <4>1. /\ stackptr \in Nat /\ StackWords \in Nat /\ Len(Saved[f]) \in Nat
            /\ Len(Pushed(f)) = Len(Saved[f]) + 1
            /\ stackptr + Len(Pushed(f)) <= StackWords
        BY <1>1, <1>2, <1>3
      <4> QED
        BY <3>1, <4>1
    <3> QED
      BY <1>1, <1>3, <2>1, <3>2
  <2> QED
    BY <1>1, <1>2, <1>3, <2>1, <2>2, <2>3, <2>4
<1>5. new \in FrameRecord
  BY <1>1, <1>2, <1>3 DEF FrameRecord
<1>6. /\ frames' \in Seq(FrameRecord) /\ Len(frames') = n + 1 /\ frames' # <<>>
      /\ DOMAIN frames' = 1 .. n + 1
      /\ \A i \in DOMAIN frames : frames'[i] = frames[i]
      /\ frames'[n + 1].fn = f /\ frames'[n + 1].base = stackptr
      /\ frames'[n + 1].own = {}
  <2>1. /\ frames' \in Seq(FrameRecord) /\ Len(frames') = n + 1 /\ frames' # <<>>
        /\ \A i \in DOMAIN frames : frames'[i] = frames[i]
        /\ frames'[n + 1] = new
    BY <1>1, <1>2, <1>5, AppendProperties
  <2>2. DOMAIN frames' = 1 .. n + 1
    BY <2>1, LenProperties
  <2> QED
    BY <2>1, <2>2
<1> QED
  BY <1>2, <1>3, <1>4, <1>6 DEF f

LEMMA EnterStep ==
  ASSUME FrameInv, Enter
  PROVE  FrameInv'
<1> DEFINE n == Len(frames)
           f == callee
           new == [fn |-> f, base |-> stackptr, own |-> {}]
<1>1. /\ phase = "enter" /\ phase' = "run"
      /\ mem' = Written(stackptr, Pushed(f))
      /\ stackptr' = stackptr + Len(Pushed(f)) /\ stackbaseptr' = stackptr'
      /\ stackptr + Len(Pushed(f)) <= StackWords
      /\ score' = Received(f)
      /\ frames' = Append(frames, new)
      /\ UNCHANGED <<return0, callee, site, calls, work>>
  BY DEF Enter, Fits
<1>2. /\ TypeOK /\ f \in Fn /\ stackptr \in 0 .. StackWords /\ stackptr > 0
      /\ mem \in [0 .. StackWords - 1 -> Words] /\ StackWords \in Nat
      /\ Len(Saved[f]) \in Nat /\ frames \in Seq(FrameRecord)
      /\ n \in Nat /\ DOMAIN frames = 1 .. n
  <2>1. frames \in Seq(FrameRecord)
    BY DEF FrameInv, Stacked
  <2> QED
    BY <1>1, <2>1, ConstantFacts, LenProperties DEF FrameInv, TypeOK, Expected
<1>3. /\ Pushed(f) \in Seq(Words) /\ Len(Pushed(f)) = Len(Saved[f]) + 1
      /\ Pushed(f)[Len(Saved[f]) + 1] = stackbaseptr
  BY <1>2, PushedWords
<1> HIDE DEF f
<1>4. /\ mem' \in [0 .. StackWords - 1 -> Words]
      /\ \A a \in 0 .. StackWords - 1 : a < stackptr => mem'[a] = mem[a]
      /\ mem'[stackptr + Len(Saved[f])] = stackbaseptr
      /\ frames' \in Seq(FrameRecord)
  BY EnterFinds DEF f
<1>6. /\ frames' \in Seq(FrameRecord) /\ Len(frames') = n + 1 /\ frames' # <<>>
      /\ DOMAIN frames' = 1 .. n + 1
      /\ \A i \in DOMAIN frames : frames'[i] = frames[i]
      /\ frames'[n + 1].fn = f /\ frames'[n + 1].base = stackptr
      /\ frames'[n + 1].own = {}
  BY EnterFinds DEF f
<1>7. /\ Reach = stackptr - 1
      /\ Reach' = stackptr + Len(Saved[f]) + 1
  BY <1>1, <1>2, <1>3 DEF Reach
<1>8. \A i \in DOMAIN frames' : i \in DOMAIN frames \/ i = n + 1
  BY <1>2, <1>6
<1>9. Stacked'
  <2>1. ASSUME NEW i \in DOMAIN frames'
        PROVE  /\ i = 1 => frames'[i].base = 1
               /\ Link(i)' < Reach'
               /\ \A a \in frames'[i].own : Link(i)' < a /\ a < Reach'
    <3>1. CASE i \in DOMAIN frames
      <4>1. /\ i = 1 => frames[i].base = 1
            /\ Link(i) < Reach /\ \A a \in frames[i].own : Link(i) < a /\ a < Reach
            /\ Link(i) \in Int /\ frames[i].own \subseteq 0 .. StackWords - 1
        BY <3>1, FrameFacts DEF FrameInv, Stacked
      <4>2. Link(i)' = Link(i) /\ frames'[i] = frames[i]
        BY <1>6, <3>1 DEF Link
      <4> QED
        BY <1>2, <1>7, <4>1, <4>2
    <3>2. CASE i = n + 1
      <4>1. Link(i)' = stackptr + Len(Saved[f]) /\ frames'[i].own = {}
            /\ frames'[i].base = stackptr
        BY <1>6, <3>2 DEF Link
      <4>2. i = 1 => stackptr = 1
        BY <1>1, <1>2, <3>2, EmptySeq DEF FrameInv, Expected
      <4> QED
        BY <1>2, <1>7, <4>1, <4>2
    <3> QED
      BY <1>8, <3>1, <3>2
  <2>2. ASSUME NEW i \in DOMAIN frames', NEW j \in DOMAIN frames', i < j
        PROVE  /\ Link(i)' + 1 < frames'[j].base
               /\ \A a \in frames'[i].own : a < frames'[j].base - 1
    <3>1. i \in DOMAIN frames /\ frames'[i] = frames[i] /\ Link(i)' = Link(i)
      BY <1>2, <1>6, <2>2 DEF Link
    <3>2. CASE j \in DOMAIN frames
      BY <1>6, <2>2, <3>1, <3>2 DEF FrameInv, Stacked
    <3>3. CASE j = n + 1
      <4>1. /\ Link(i) < Reach /\ \A a \in frames[i].own : a < Reach
            /\ Link(i) \in Int /\ frames[i].own \subseteq 0 .. StackWords - 1
        BY <3>1, FrameFacts DEF FrameInv, Stacked
      <4> QED
        BY <1>2, <1>6, <1>7, <3>1, <3>3, <4>1
    <3> QED
      BY <1>8, <3>2, <3>3
  <2> QED
    BY <1>6, <2>1, <2>2 DEF Stacked
<1>10. ASSUME NEW i \in DOMAIN frames
       PROVE  /\ mem'[Link(i)] = mem[Link(i)]
              /\ mem'[frames[i].base - 1] = mem[frames[i].base - 1]
  <2>1. /\ Link(i) \in Int /\ frames[i].base - 1 \in Int
        /\ frames[i].base - 1 <= Link(i)
        /\ frames[i].base - 1 <= frames[i].base - 1 /\ Link(i) <= Link(i)
    BY FrameFacts
  <2>2. \A a \in {Link(i), frames[i].base - 1} : a \in 0 .. StackWords - 1 /\ a < Reach
    BY <2>1, ControlWords
  <2> QED
    BY <1>2, <1>4, <1>7, <2>2
<1>11. n # 0 <=> frames # <<>>
  BY <1>2, EmptySeq
<1>12. FramesLinked'
  <2>1. ASSUME NEW i \in DOMAIN frames'
        PROVE  mem'[Link(i)'] = IF i = 1 THEN 0 ELSE Link(i - 1)' + 1
    <3>1. i # 1 => i - 1 \in DOMAIN frames /\ Link(i - 1)' = Link(i - 1)
      BY <1>2, <1>6 DEF Link
    <3>2. CASE i \in DOMAIN frames
      <4>1. Link(i)' = Link(i)
        BY <1>6, <3>2 DEF Link
      <4> QED
        BY <1>10, <3>1, <3>2, <4>1 DEF FrameInv, FramesLinked
    <3>3. CASE i = n + 1
      <4>1. Link(i)' = stackptr + Len(Saved[f])
        BY <1>6, <3>3 DEF Link
      <4>2. mem'[Link(i)'] = stackbaseptr
        BY <1>4, <4>1
      <4>3. CASE n = 0
        BY <1>11, <3>3, <4>2, <4>3 DEF FrameInv, FramesLinked
      <4>4. CASE n # 0
        <5>1. i # 1 /\ i - 1 = n
          BY <1>2, <3>3, <4>4
        <5> QED
          BY <1>11, <3>1, <4>2, <4>4, <5>1 DEF FrameInv, FramesLinked
      <4> QED
        BY <4>3, <4>4
    <3> QED
      BY <1>8, <3>2, <3>3
  <2>2. stackbaseptr' = Link(Len(frames))' + 1
    <3>1. Link(Len(frames))' = stackptr + Len(Saved[f])
      BY <1>6 DEF Link
    <3> QED
      BY <1>1, <1>2, <1>3, <3>1
  <2> QED
    BY <1>6, <2>1, <2>2 DEF FramesLinked
<1>13. CallersBelow'
  <2> SUFFICES ASSUME NEW i \in DOMAIN frames'
               PROVE  LET address == mem'[frames'[i].base - 1]
                      IN IF i = 1 THEN address = MainReturn
                         ELSE /\ address \in Site
                              /\ Caller[address] = frames'[i - 1].fn
    BY DEF CallersBelow
  <2>1. i # 1 => i - 1 \in DOMAIN frames /\ frames'[i - 1] = frames[i - 1]
    BY <1>2, <1>6
  <2>2. CASE i \in DOMAIN frames
    BY <1>6, <1>10, <2>1, <2>2 DEF FrameInv, CallersBelow
  <2>3. CASE i = n + 1
    <3>1. mem'[frames'[i].base - 1] = mem[stackptr - 1]
      BY <1>2, <1>4, <1>6, <2>3
    <3>2. CASE n = 0
      BY <1>1, <1>11, <2>3, <3>1, <3>2 DEF FrameInv, Expected
    <3>3. CASE n # 0
      <4>1. i # 1 /\ frames'[i - 1] = Running
        BY <1>2, <2>1, <2>3, <3>3 DEF Running
      <4> QED
        BY <1>1, <1>11, <3>1, <3>3, <4>1 DEF FrameInv, Expected
    <3> QED
      BY <3>2, <3>3
  <2> QED
    BY <1>8, <2>2, <2>3
<1>14. TypeOK'
  <2>1. score' \in [Holder \cup ParamHolders -> Words]
    BY <1>1, <1>2, ReceivedWords
  <2>2. stackptr' \in 0 .. StackWords
    BY <1>1, <1>2, <1>3
  <2>3. \A i \in DOMAIN frames' : /\ frames'[i].fn \in Fn
                                  /\ frames'[i].base \in 0 .. StackWords - 1
                                  /\ frames'[i].own \subseteq 0 .. StackWords - 1
    BY <1>6, FramesTyped
  <2> QED
    BY <1>1, <1>4, <2>1, <2>2, <2>3 DEF FrameInv, TypeOK
<1>15. Expected'
  BY <1>1, <1>6 DEF Expected
<1> QED
  BY <1>9, <1>12, <1>13, <1>14, <1>15 DEF FrameInv

(* What a return finds: its own link and its own return address.           *)
LEMMA ReturnFinds ==
  ASSUME FrameInv, Return
  PROVE  /\ stackptr' = Running.base - 1
         /\ stackbaseptr' = IF Len(frames) = 1 THEN 0 ELSE Link(Len(frames) - 1) + 1
         /\ site' = mem[Running.base - 1]
         /\ IF Len(frames) = 1 THEN site' = MainReturn /\ phase' = "halted"
            ELSE /\ site' \in Site /\ phase' = "resume"
                 /\ Caller[site'] = frames[Len(frames) - 1].fn
         /\ frames' \in Seq(FrameRecord) /\ Len(frames') = Len(frames) - 1
         /\ DOMAIN frames' = 1 .. Len(frames) - 1
         /\ \A i \in DOMAIN frames' : frames'[i] = frames[i]
         /\ frames' = <<>> <=> Len(frames) = 1
<1> DEFINE n == Len(frames)
           f == Running.fn
<1>1. /\ phase = "run"
      /\ stackptr' = stackbaseptr - 2 - Len(Saved[f])
      /\ stackbaseptr' = mem[stackbaseptr - 1]
      /\ site' = mem[stackptr']
      /\ phase' = IF site' \in Site THEN "resume" ELSE "halted"
      /\ frames' = SubSeq(frames, 1, n - 1)
  BY DEF Return
<1>2. /\ n \in DOMAIN frames /\ Running = frames[n] /\ stackbaseptr = Link(n) + 1
      /\ DOMAIN frames = 1 .. n /\ n \in Nat /\ n >= 1
      /\ Link(n) \in Int /\ Link(n) = Running.base + Len(Saved[f])
      /\ Running.base \in Int /\ Len(Saved[f]) \in Nat
  BY <1>1, RunningFrame, FrameFacts
<1>3. stackptr' = Running.base - 1
  <2>1. \A s, l, b, k \in Int : s = l + 1 /\ l = b + k => s - 2 - k = b - 1
    OBVIOUS
  <2>2. stackbaseptr \in Int
    BY <1>2
  <2>3. stackbaseptr - 2 - Len(Saved[f]) = Running.base - 1
    BY <1>2, <2>1, <2>2, SMTT(30)
  <2> QED
    BY <1>1, <2>3
<1>4. stackbaseptr' = IF n = 1 THEN 0 ELSE Link(n - 1) + 1
  <2>1. stackbaseptr - 1 = Link(n)
    BY <1>2
  <2> QED
    BY <1>1, <1>2, <2>1 DEF FrameInv, FramesLinked
<1>5. IF n = 1 THEN site' = MainReturn /\ phase' = "halted"
      ELSE /\ site' \in Site /\ phase' = "resume"
           /\ Caller[site'] = frames[n - 1].fn
  BY <1>1, <1>2, <1>3, ConstantFacts DEF FrameInv, CallersBelow
<1>6. frames \in Seq(FrameRecord)
  BY DEF FrameInv, Stacked
<1>7. /\ frames' \in Seq(FrameRecord) /\ Len(frames') = n - 1
      /\ \A i \in 1 .. n - 1 : frames'[i] = frames[i]
  <2>1. n - 1 \in Int /\ \A i \in 1 .. n - 1 : frames[i] \in FrameRecord
    BY <1>2, <1>6
  <2>2. /\ SubSeq(frames, 1, n - 1) \in Seq(FrameRecord)
        /\ Len(SubSeq(frames, 1, n - 1)) = IF 1 <= n - 1 THEN (n - 1) - 1 + 1 ELSE 0
        /\ \A i \in 1 .. (n - 1) - 1 + 1 : SubSeq(frames, 1, n - 1)[i] = frames[1 + i - 1]
    BY <2>1, SubSeqProperties
  <2> QED
    BY <1>1, <1>2, <2>2, SMTT(30)
<1>8. DOMAIN frames' = 1 .. n - 1
  BY <1>7, LenProperties
<1>9. frames' = <<>> <=> n = 1
  <2>1. frames' = <<>> <=> Len(frames') = 0
    BY <1>7, EmptySeq
  <2> QED
    BY <1>2, <1>7, <2>1
<1> QED
  BY <1>1, <1>3, <1>4, <1>5, <1>7, <1>8, <1>9

LEMMA ReturnStep ==
  ASSUME FrameInv, Return
  PROVE  FrameInv'
<1> DEFINE n == Len(frames)
<1>1. /\ phase = "run" /\ UNCHANGED <<mem, callee, calls, work>>
      /\ score' = Restored(Running.fn)
      /\ \E r \in Locals(Running.fn) : return0' = score[r]
  BY DEF Return
<1>2. /\ n \in DOMAIN frames /\ Running = frames[n]
      /\ DOMAIN frames = 1 .. n /\ n \in Nat /\ n >= 1
      /\ Running.fn \in Fn
  BY <1>1, RunningFrame, FrameFacts
<1>3. /\ stackptr' = Running.base - 1
      /\ stackbaseptr' = IF n = 1 THEN 0 ELSE Link(n - 1) + 1
      /\ IF n = 1 THEN site' = MainReturn /\ phase' = "halted"
         ELSE site' \in Site /\ phase' = "resume" /\ Caller[site'] = frames[n - 1].fn
      /\ frames' \in Seq(FrameRecord) /\ Len(frames') = n - 1
      /\ DOMAIN frames' = 1 .. n - 1
      /\ \A i \in DOMAIN frames' : frames'[i] = frames[i]
      /\ frames' = <<>> <=> n = 1
  BY ReturnFinds
<1>4. \A i \in DOMAIN frames' : i \in DOMAIN frames /\ i < n
  BY <1>2, <1>3
<1>5. phase' \in {"resume", "halted"}
  BY <1>3
<1>6. Reach' = frames[n].base - 1
  BY <1>2, <1>3, <1>5 DEF Reach
<1>7. \A i \in DOMAIN frames' : Link(i)' = Link(i)
  BY <1>3 DEF Link
<1>8. Stacked'
  <2>1. ASSUME NEW i \in DOMAIN frames'
        PROVE  /\ i = 1 => frames'[i].base = 1
               /\ Link(i)' < Reach'
               /\ \A a \in frames'[i].own : Link(i)' < a /\ a < Reach'
    <3>1. i \in DOMAIN frames /\ i < n /\ frames'[i] = frames[i] /\ Link(i)' = Link(i)
      BY <1>3, <1>4 DEF Link
    <3>2. /\ i = 1 => frames[i].base = 1
          /\ \A a \in frames[i].own : Link(i) < a
          /\ Link(i) + 1 < frames[n].base
          /\ \A a \in frames[i].own : a < frames[n].base - 1
      BY <1>2, <3>1 DEF FrameInv, Stacked
    <3>3. Link(i) \in Int /\ frames[n].base \in Int
      BY <1>2, <3>1, FrameFacts
    <3> QED
      BY <1>6, <3>1, <3>2, <3>3
  <2>2. ASSUME NEW i \in DOMAIN frames', NEW j \in DOMAIN frames', i < j
        PROVE  /\ Link(i)' + 1 < frames'[j].base
               /\ \A a \in frames'[i].own : a < frames'[j].base - 1
    <3>1. /\ i \in DOMAIN frames /\ frames'[i] = frames[i] /\ Link(i)' = Link(i)
          /\ j \in DOMAIN frames /\ frames'[j] = frames[j]
      BY <1>3, <1>4 DEF Link
    <3> QED
      BY <2>2, <3>1 DEF FrameInv, Stacked
  <2> QED
    BY <1>3, <2>1, <2>2 DEF Stacked
<1>9. FramesLinked'
  <2>1. ASSUME NEW i \in DOMAIN frames'
        PROVE  mem'[Link(i)'] = IF i = 1 THEN 0 ELSE Link(i - 1)' + 1
    <3>1. i # 1 => i - 1 \in DOMAIN frames'
      BY <1>2, <1>3
    <3>2. i # 1 => Link(i - 1)' = Link(i - 1)
      BY <1>3, <3>1 DEF Link
    <3>3. Link(i)' = Link(i)
      BY <1>3 DEF Link
    <3> QED
      BY <1>1, <1>4, <3>2, <3>3 DEF FrameInv, FramesLinked
  <2>2. stackbaseptr' = IF frames' = <<>> THEN 0 ELSE Link(Len(frames))' + 1
    <3>1. n # 1 => n - 1 \in DOMAIN frames'
      BY <1>2, <1>3
    <3>2. n # 1 => Link(Len(frames))' = Link(n - 1)
      BY <1>3, <3>1 DEF Link
    <3> QED
      BY <1>3, <3>2
  <2> QED
    BY <2>1, <2>2 DEF FramesLinked
<1>10. CallersBelow'
  <2> SUFFICES ASSUME NEW i \in DOMAIN frames'
               PROVE  LET address == mem'[frames'[i].base - 1]
                      IN IF i = 1 THEN address = MainReturn
                         ELSE /\ address \in Site
                              /\ Caller[address] = frames'[i - 1].fn
    BY DEF CallersBelow
  <2>1. i # 1 => i - 1 \in DOMAIN frames'
    BY <1>2, <1>3
  <2> QED
    BY <1>1, <1>3, <1>4, <2>1 DEF FrameInv, CallersBelow
<1>12. Expected'
  <2>1. phase' = "resume" => Caller[site'] = Running'.fn
    <3>1. n # 1 => frames'[n - 1] = frames[n - 1]
      BY <1>2, <1>3, SMTT(30)
    <3> QED
      BY <1>3, <3>1 DEF Running
  <2> QED
    BY <1>3, <1>5, <2>1 DEF Expected
<1>13. TypeOK'
  <2>1. score' \in [Holder \cup ParamHolders -> Words]
    BY <1>1, RestoredWords
  <2>2. return0' \in Words
    BY <1>1, <1>2, ConstantFacts DEF FrameInv, TypeOK
  <2>3. stackptr' \in 0 .. StackWords
    <3>1. Link(n) < Reach
      BY <1>2 DEF FrameInv, Stacked
    <3>2. /\ Link(n) \in Int /\ frames[n].base \in Int
          /\ 1 <= frames[n].base /\ frames[n].base <= Link(n)
          /\ Reach \in Int /\ Reach <= stackptr /\ stackptr <= StackWords
          /\ stackptr \in Int
      BY <1>2, FrameFacts
    <3> QED
      BY <1>2, <1>3, <3>1, <3>2, ConstantFacts, SMTT(30)
  <2>4. stackbaseptr' \in 0 .. StackWords
    <3>1. CASE n = 1
      BY <1>3, <3>1, ConstantFacts
    <3>2. CASE n # 1
      <4>1. n - 1 \in DOMAIN frames
        BY <1>2, <3>2
      <4>2. Link(n - 1) < Reach
        BY <4>1 DEF FrameInv, Stacked
      <4>3. /\ Link(n - 1) \in Int /\ frames[n - 1].base \in Int
            /\ 1 <= frames[n - 1].base /\ frames[n - 1].base <= Link(n - 1)
            /\ Reach \in Int /\ Reach <= stackptr /\ stackptr <= StackWords
            /\ stackptr \in Int
        BY <4>1, FrameFacts
      <4> QED
        BY <1>3, <3>2, <4>2, <4>3, ConstantFacts, SMTT(30)
    <3> QED
      BY <3>1, <3>2
  <2>5. \A i \in DOMAIN frames' : /\ frames'[i].fn \in Fn
                                  /\ frames'[i].base \in 0 .. StackWords - 1
                                  /\ frames'[i].own \subseteq 0 .. StackWords - 1
    BY <1>3, FramesTyped
  <2>6. site' \in Site \cup {MainReturn}
    BY <1>3
  <2> QED
    BY <1>1, <1>5, <2>1, <2>2, <2>3, <2>4, <2>5, <2>6 DEF FrameInv, TypeOK
<1> QED
  BY <1>8, <1>9, <1>10, <1>12, <1>13 DEF FrameInv

LEMMA NextInv == FrameInv /\ [Next]_vars => FrameInv'
<1> SUFFICES ASSUME FrameInv, [Next]_vars PROVE FrameInv'
  OBVIOUS
<1>1. CASE Enter
  BY <1>1, EnterStep
<1>2. CASE Compute \/ Intrinsic \/ StoreOp \/ LoadOp
  BY <1>2, BodyStep
<1>3. CASE Alloca
  BY <1>3, AllocaStep
<1>4. CASE CallOp
  BY <1>4, CallStep
<1>5. CASE Return
  BY <1>5, ReturnStep
<1>6. CASE Resume
  BY <1>6, ResumeStep
<1>7. CASE UNCHANGED vars
  <2>1. UNCHANGED <<score, return0, mem, stackptr, stackbaseptr, phase, callee,
                    site, frames, calls, work>>
    BY <1>7 DEF vars
  <2>2. TypeOK' /\ FramesLinked' /\ CallersBelow'
    BY <2>1 DEF FrameInv, TypeOK, FramesLinked, CallersBelow, Link, Running
  <2>3. Stacked' /\ Expected'
    BY <2>1 DEF FrameInv, Stacked, Expected, Reach, Link, Running
  <2> QED
    BY <2>2, <2>3 DEF FrameInv
<1> QED
  BY <1>1, <1>2, <1>3, <1>4, <1>5, <1>6, <1>7 DEF Next

(* For any functions, clobber lists and programs, the frames on the stack  *)
(* are disjoint intervals in the order of the calls, with program memory   *)
(* inside them.                                                            *)
THEOREM FramesInvariant == Spec => []FrameInv
<1>1. Init => FrameInv
  BY InitInv
<1>2. FrameInv /\ [Next]_vars => FrameInv'
  BY NextInv
<1> QED
  BY <1>1, <1>2, PTL DEF Spec

(* Every holder and every word of the stack keeps its type, %stackptr and  *)
(* %stackbaseptr stay on the stack.                                        *)
THEOREM TypesOfFrames == Spec => []TypeOK
BY FramesInvariant, PTL DEF FrameInv

(* Each frame holds the %stackbaseptr of the frame below it, whatever      *)
(* programs store and however calls are nested.                            *)
THEOREM FramesStayLinked == Spec => []FramesLinked
BY FramesInvariant, PTL DEF FrameInv

-----------------------------------------------------------------------------
(***************************************************************************)
(* Return addresses.  The site that a call pushes stays under the frame it *)
(* opens, because no other step writes there, and the return takes the     *)
(* address of the frame it removes.                                        *)
(***************************************************************************)
Recorded ==
  /\ Len(calls) = Len(frames) + (IF phase = "run" THEN 0 ELSE 1)
  /\ phase = "enter" => mem[stackptr - 1] = calls[Len(calls)]
  /\ ReturnsToCaller

LEMMA CountsOfFrames ==
  ASSUME FrameInv
  PROVE  /\ Len(frames) \in Nat /\ DOMAIN frames = 1 .. Len(frames)
         /\ calls \in Seq(Site \cup {MainReturn}) /\ Len(calls) \in Nat
         /\ DOMAIN calls = 1 .. Len(calls)
<1>1. frames \in Seq(FrameRecord) /\ calls \in Seq(Site \cup {MainReturn})
  BY DEF FrameInv, Stacked, TypeOK
<1> QED
  BY <1>1, LenProperties

LEMMA AddressStays ==
  ASSUME FrameInv, NEW i \in DOMAIN frames,
         \A a \in 0 .. StackWords - 1 : a < Reach /\ a \notin Live => mem'[a] = mem[a]
  PROVE  mem'[frames[i].base - 1] = mem[frames[i].base - 1]
<1> DEFINE a == frames[i].base - 1
<1>1. a \in Int /\ frames[i].base - 1 <= a /\ a <= Link(i)
  BY FrameFacts
<1> HIDE DEF a
<1>2. a \in 0 .. StackWords - 1 /\ a < Reach /\ a \notin Live
  BY <1>1, ControlWords
<1>3. mem'[a] = mem[a]
  BY <1>2
<1> QED
  BY <1>3 DEF a

(* Steps that leave the calls alone and write to program memory at most.   *)
LEMMA QuietRecord ==
  ASSUME FrameInv, Recorded, phase = "run", phase' = "run", calls' = calls,
         Len(frames') = Len(frames), DOMAIN frames' = DOMAIN frames,
         \A i \in DOMAIN frames : frames'[i].base = frames[i].base,
         \A a \in 0 .. StackWords - 1 : a < Reach /\ a \notin Live => mem'[a] = mem[a]
  PROVE  Recorded'
BY AddressStays DEF Recorded, ReturnsToCaller

LEMMA AllocaRecord ==
  ASSUME FrameInv, Recorded, Alloca
  PROVE  Recorded'
<1>1. /\ phase = "run" /\ phase' = "run" /\ calls' = calls /\ mem' = mem
      /\ \E m \in AllocSizes : Fits(m) /\ frames' = Granted(m)
  BY DEF Alloca, Working
<1>2. PICK m \in AllocSizes : Fits(m) /\ frames' = Granted(m)
  BY <1>1
<1>3. /\ Len(frames') = Len(frames) /\ DOMAIN frames' = DOMAIN frames
      /\ \A i \in DOMAIN frames : frames'[i].base = frames[i].base
  BY <1>1, <1>2, GrantedFrames
<1> QED
  BY <1>1, <1>3, QuietRecord

LEMMA CallRecord ==
  ASSUME FrameInv, Recorded, CallOp
  PROVE  Recorded'
<1>1. PICK s \in Site :
        /\ mem' = [mem EXCEPT ![stackptr] = s]
        /\ calls' = Append(calls, s)
  BY DEF CallOp
<1>2. /\ phase = "run" /\ phase' = "enter" /\ stackptr' = stackptr + 1
      /\ frames' = frames /\ stackptr + 1 <= StackWords
  BY DEF CallOp, Working, Fits
<1>3. /\ mem \in [0 .. StackWords - 1 -> Words] /\ stackptr \in 0 .. StackWords
      /\ stackptr \in 0 .. StackWords - 1 /\ Reach = stackptr
  BY <1>2, ConstantFacts DEF FrameInv, TypeOK, Reach
<1>4. /\ \A a \in 0 .. StackWords - 1 : a < Reach => mem'[a] = mem[a]
      /\ mem'[stackptr' - 1] = s
  BY <1>1, <1>2, <1>3
<1> DEFINE k == Len(calls)
<1>5. /\ k \in Nat /\ k = Len(frames) /\ Len(calls') = k + 1 /\ calls'[k + 1] = s
      /\ \A i \in 1 .. k : calls'[i] = calls[i]
  BY <1>1, <1>2, CountsOfFrames, AppendProperties DEF Recorded
<1>6. \A i \in DOMAIN frames : mem'[frames'[i].base - 1] = calls'[i]
  <2> SUFFICES ASSUME NEW i \in DOMAIN frames
               PROVE  mem'[frames[i].base - 1] = calls'[i]
    BY <1>2
  <2>1. mem'[frames[i].base - 1] = mem[frames[i].base - 1]
    BY <1>4, AddressStays
  <2>2. i \in 1 .. k
    BY <1>5, CountsOfFrames
  <2> QED
    BY <1>5, <2>1, <2>2 DEF Recorded, ReturnsToCaller
<1> QED
  BY <1>2, <1>4, <1>5, <1>6 DEF Recorded, ReturnsToCaller

LEMMA EnterRecord ==
  ASSUME FrameInv, Recorded, Enter
  PROVE  Recorded'
<1> DEFINE n == Len(frames)
<1>1. phase = "enter" /\ phase' = "run" /\ calls' = calls
  BY DEF Enter
<1>2. /\ stackptr \in 0 .. StackWords /\ stackptr > 0 /\ StackWords \in Nat
      /\ \A a \in 0 .. StackWords - 1 : a < stackptr => mem'[a] = mem[a]
      /\ Len(frames') = n + 1 /\ DOMAIN frames' = 1 .. n + 1
      /\ \A i \in DOMAIN frames : frames'[i] = frames[i]
      /\ frames'[n + 1].base = stackptr
  BY EnterFinds, ConstantFacts
<1>3. /\ n \in Nat /\ DOMAIN frames = 1 .. n /\ Len(calls) = n + 1
      /\ mem[stackptr - 1] = calls[n + 1]
  BY <1>1, CountsOfFrames DEF Recorded
<1>4. Reach = stackptr - 1
  BY <1>1 DEF Reach
<1>5. ASSUME NEW i \in DOMAIN frames'
      PROVE  mem'[frames'[i].base - 1] = calls[i]
  <2>1. CASE i \in DOMAIN frames
    <3>1. \A a \in 0 .. StackWords - 1 : a < Reach /\ a \notin Live => mem'[a] = mem[a]
      BY <1>2, <1>4
    <3>2. mem'[frames[i].base - 1] = mem[frames[i].base - 1]
      BY <2>1, <3>1, AddressStays
    <3> QED
      BY <1>2, <2>1, <3>2 DEF Recorded, ReturnsToCaller
  <2>2. CASE i = n + 1
    <3>1. mem'[stackptr - 1] = mem[stackptr - 1]
      BY <1>2
    <3> QED
      BY <1>2, <1>3, <2>2, <3>1
  <2> QED
    BY <1>2, <1>3, <2>1, <2>2
<1> QED
  BY <1>1, <1>2, <1>3, <1>5 DEF Recorded, ReturnsToCaller

LEMMA ReturnRecord ==
  ASSUME FrameInv, Recorded, Return
  PROVE  Recorded'
<1> DEFINE n == Len(frames)
<1>1. phase = "run" /\ mem' = mem /\ calls' = calls
  BY DEF Return
<1>2. /\ n \in DOMAIN frames /\ Running = frames[n] /\ n \in Nat /\ n >= 1
      /\ DOMAIN frames = 1 .. n
  BY <1>1, RunningFrame, FrameFacts
<1>3. /\ site' = mem[Running.base - 1] /\ phase' # "run" /\ phase' # "enter"
      /\ Len(frames') = n - 1 /\ DOMAIN frames' = 1 .. n - 1
      /\ \A i \in DOMAIN frames' : frames'[i] = frames[i]
  BY ReturnFinds
<1>4. Len(calls) = n /\ site' = calls[n]
  BY <1>1, <1>2, <1>3 DEF Recorded, ReturnsToCaller
<1>5. \A i \in DOMAIN frames' : mem'[frames'[i].base - 1] = calls'[i]
  <2> SUFFICES ASSUME NEW i \in DOMAIN frames'
               PROVE  mem[frames[i].base - 1] = calls[i]
    BY <1>1, <1>3
  <2>1. i \in DOMAIN frames
    BY <1>2, <1>3
  <2> QED
    BY <2>1 DEF Recorded, ReturnsToCaller
<1> QED
  BY <1>1, <1>2, <1>3, <1>4, <1>5 DEF Recorded, ReturnsToCaller

LEMMA ResumeRecord ==
  ASSUME FrameInv, Recorded, Resume
  PROVE  Recorded'
<1> DEFINE n == Len(frames)
<1>1. /\ phase = "resume" /\ phase' = "run" /\ mem' = mem /\ frames' = frames
      /\ calls' = SubSeq(calls, 1, Len(calls) - 1)
  BY DEF Resume
<1>2. /\ n \in Nat /\ DOMAIN frames = 1 .. n /\ Len(calls) = n + 1
      /\ calls \in Seq(Site \cup {MainReturn})
  BY <1>1, CountsOfFrames DEF Recorded
<1>3. Len(calls') = n /\ \A i \in 1 .. n : calls'[i] = calls[i]
  <2>1. n \in Int /\ \A i \in 1 .. n : calls[i] \in Site \cup {MainReturn}
    BY <1>2
  <2>2. /\ Len(SubSeq(calls, 1, n)) = IF 1 <= n THEN n - 1 + 1 ELSE 0
        /\ \A i \in 1 .. n - 1 + 1 : SubSeq(calls, 1, n)[i] = calls[1 + i - 1]
    BY <2>1, SubSeqProperties
  <2>3. calls' = SubSeq(calls, 1, n)
    <3>1. Len(calls) - 1 = n
      BY <1>2
    <3> QED
      BY <1>1, <3>1
  <2> QED
    BY <1>2, <2>2, <2>3
<1> QED
  BY <1>1, <1>2, <1>3 DEF Recorded, ReturnsToCaller

LEMMA RecordStep ==
  ASSUME FrameInv, Recorded, [Next]_vars
  PROVE  Recorded'
<1>1. CASE Compute \/ Intrinsic \/ StoreOp \/ LoadOp
  <2>1. /\ phase = "run" /\ phase' = "run" /\ UNCHANGED <<frames, calls>>
    BY <1>1 DEF Compute, Intrinsic, StoreOp, LoadOp, Working
  <2>2. \A a \in 0 .. StackWords - 1 : a \notin Live => mem'[a] = mem[a]
    BY <1>1 DEF Compute, Intrinsic, StoreOp, LoadOp, FrameInv, TypeOK
  <2> QED
    BY <2>1, <2>2, QuietRecord
<1>2. CASE UNCHANGED vars
  <2>1. UNCHANGED <<mem, stackptr, phase, site, frames, calls>>
    BY <1>2 DEF vars
  <2> QED
    BY <2>1 DEF Recorded, ReturnsToCaller
<1> QED
  BY <1>1, <1>2, AllocaRecord, CallRecord, EnterRecord, ReturnRecord, ResumeRecord
  DEF Next

(* Under every frame lies the site of the very call that opened it, and a  *)
(* return goes on at the last call that has not come back: for any program,*)
(* any depth of calls, and two calls of one function kept apart.           *)
THEOREM ReturnAddressesRight == Spec => []ReturnsToCaller
<1>1. Init => Recorded
  <2> SUFFICES ASSUME Init PROVE Recorded
    OBVIOUS
  <2>1. /\ frames = <<>> /\ DOMAIN frames = {} /\ Len(frames) = 0
        /\ phase = "enter" /\ stackptr = 1
    BY DEF Init
  <2>2. calls = <<MainReturn>> /\ Len(calls) = 1 /\ calls[1] = MainReturn
    BY DEF Init
  <2>3. mem[stackptr - 1] = MainReturn
    BY <2>1, ConstantFacts DEF Init
  <2> QED
    BY <2>1, <2>2, <2>3 DEF Recorded, ReturnsToCaller
<1>2. FrameInv /\ Recorded /\ [Next]_vars => Recorded'
  BY RecordStep
<1>3. Recorded => ReturnsToCaller
  BY DEF Recorded
<1> QED
  BY <1>1, <1>2, <1>3, FramesInvariant, PTL DEF Spec

-----------------------------------------------------------------------------
(***************************************************************************)
(* The stack pointer.  What alloca gave to an activation fills its frame   *)
(* from the link to End, so that a return, which goes back by the link,    *)
(* puts %stackptr where the caller had it.                                 *)
(***************************************************************************)
LEMMA SameExtent ==
  ASSUME FrameInv, StackBalanced, phase' # "halted",
         Len(frames') = Len(frames), DOMAIN frames' = DOMAIN frames,
         \A i \in DOMAIN frames : frames'[i] = frames[i],
         Reach' = Reach
  PROVE  StackBalanced'
<1> SUFFICES ASSUME NEW i \in DOMAIN frames
             PROVE  frames'[i].own = Link(i)' + 1 .. End(i)' - 1
  BY DEF StackBalanced
<1>1. i \in Nat /\ Len(frames) \in Nat /\ DOMAIN frames = 1 .. Len(frames)
  BY FrameFacts
<1>2. i < Len(frames) => i + 1 \in DOMAIN frames
  BY <1>1
<1>3. Link(i)' = Link(i) /\ End(i)' = End(i)
  BY <1>2 DEF Link, End, Reach
<1> QED
  BY <1>3 DEF StackBalanced

LEMMA AllocaBalance ==
  ASSUME FrameInv, StackBalanced, Alloca
  PROVE  StackBalanced'
<1> DEFINE n == Len(frames)
<1>1. PICK m \in AllocSizes : Fits(m) /\ stackptr' = stackptr + m /\ frames' = Granted(m)
  BY DEF Alloca
<1>2. phase = "run" /\ phase' = "run"
  BY DEF Alloca, Working
<1>3. /\ n \in DOMAIN frames /\ Running = frames[n] /\ Reach = stackptr
      /\ n \in Nat /\ DOMAIN frames = 1 .. n /\ Link(n) \in Int
      /\ stackptr \in Int /\ Link(n) < stackptr
  BY <1>2, RunningFrame, FrameFacts
<1>4. /\ m \in Nat /\ m > 0
      /\ Len(frames') = n /\ DOMAIN frames' = DOMAIN frames
      /\ \A i \in DOMAIN frames :
           /\ frames'[i].fn = frames[i].fn /\ frames'[i].base = frames[i].base
           /\ i # n => frames'[i].own = frames[i].own
      /\ frames'[n].own = frames[n].own \cup (stackptr .. stackptr + m - 1)
  BY <1>1, <1>2, GrantedFrames DEF Running
<1>5. ASSUME NEW i \in DOMAIN frames
      PROVE  frames'[i].own = Link(i)' + 1 .. End(i)' - 1
  <2>1. Link(i)' = Link(i) /\ frames[i].own = Link(i) + 1 .. End(i) - 1
    BY <1>4 DEF Link, StackBalanced
  <2>2. CASE i = n
    <3>1. End(i) = stackptr /\ End(i)' = stackptr + m
      BY <1>1, <1>2, <1>3, <1>4, <2>2 DEF End
    <3>2. \A l, p, k \in Int :
            l < p /\ k > 0 =>
              (l + 1 .. p - 1) \cup (p .. p + k - 1) = l + 1 .. p + k - 1
      OBVIOUS
    <3>3. (Link(n) + 1 .. stackptr - 1) \cup (stackptr .. stackptr + m - 1)
            = Link(n) + 1 .. stackptr + m - 1
      BY <1>3, <1>4, <3>2
    <3>4. frames'[n].own = (Link(n) + 1 .. stackptr - 1) \cup (stackptr .. stackptr + m - 1)
      BY <1>4, <2>1, <2>2, <3>1
    <3>5. Link(i) = Link(n)
      BY <2>2
    <3>6. End(i)' - 1 = stackptr + m - 1
      BY <1>3, <1>4, <3>1
    <3>7. frames'[i].own = Link(n) + 1 .. stackptr + m - 1
      BY <2>2, <3>3, <3>4
    <3> QED
      BY <2>1, <3>5, <3>6, <3>7
  <2>3. CASE i # n
    <3>1. i < n /\ i + 1 \in DOMAIN frames
      BY <1>3, <2>3
    <3>2. End(i)' = End(i)
      BY <1>4, <3>1 DEF End
    <3> QED
      BY <1>4, <2>1, <2>3, <3>2
  <2> QED
    BY <2>2, <2>3
<1> QED
  BY <1>2, <1>4, <1>5 DEF StackBalanced

LEMMA EnterBalance ==
  ASSUME FrameInv, StackBalanced, Enter
  PROVE  StackBalanced'
<1> DEFINE n == Len(frames)
<1>1. /\ phase = "enter" /\ phase' = "run"
      /\ stackptr' = stackptr + Len(Pushed(callee))
  BY DEF Enter
<1>2. /\ callee \in Fn /\ stackptr \in 0 .. StackWords /\ StackWords \in Nat
      /\ Len(Pushed(callee)) = Len(Saved[callee]) + 1 /\ Len(Saved[callee]) \in Nat
      /\ Len(frames') = n + 1 /\ DOMAIN frames' = 1 .. n + 1
      /\ \A i \in DOMAIN frames : frames'[i] = frames[i]
      /\ frames'[n + 1].fn = callee /\ frames'[n + 1].base = stackptr
      /\ frames'[n + 1].own = {}
  BY EnterFinds, ConstantFacts
<1>3. n \in Nat /\ DOMAIN frames = 1 .. n
  BY CountsOfFrames
<1>4. ASSUME NEW i \in DOMAIN frames'
      PROVE  frames'[i].own = Link(i)' + 1 .. End(i)' - 1
  <2>1. CASE i \in DOMAIN frames
    <3>1. frames'[i] = frames[i] /\ Link(i)' = Link(i)
      BY <1>2, <2>1 DEF Link
    <3>2. End(i)' = End(i)
      <4>1. CASE i < n
        <5>1. i + 1 \in DOMAIN frames /\ i < n + 1
          BY <1>3, <2>1, <4>1
        <5> QED
          BY <1>2, <4>1, <5>1 DEF End
      <4>2. CASE i = n
        BY <1>1, <1>2, <1>3, <4>2 DEF End
      <4> QED
        BY <1>3, <2>1, <4>1, <4>2
    <3> QED
      BY <2>1, <3>1, <3>2 DEF StackBalanced
  <2>2. CASE i = n + 1
    <3>1. Link(i)' = stackptr + Len(Saved[callee])
      BY <1>2, <2>2 DEF Link
    <3>2. End(i)' = stackptr + (Len(Saved[callee]) + 1)
      BY <1>1, <1>2, <1>3, <2>2 DEF End
    <3>3. \A p, k \in Int : p + k + 1 .. p + (k + 1) - 1 = {}
      OBVIOUS
    <3>4. Link(i)' + 1 .. End(i)' - 1 = {}
      BY <1>2, <3>1, <3>2, <3>3
    <3> QED
      BY <1>2, <2>2, <3>4
  <2> QED
    BY <1>2, <1>3, <2>1, <2>2
<1> QED
  BY <1>1, <1>4 DEF StackBalanced

LEMMA ReturnBalance ==
  ASSUME FrameInv, StackBalanced, Return
  PROVE  StackBalanced'
<1> DEFINE n == Len(frames)
<1>1. phase = "run"
  BY DEF Return
<1>2. /\ n \in DOMAIN frames /\ Running = frames[n] /\ n \in Nat /\ n >= 1
      /\ DOMAIN frames = 1 .. n
  BY <1>1, RunningFrame, FrameFacts
<1>3. /\ stackptr' = Running.base - 1 /\ phase' # "enter"
      /\ phase' = "halted" => n = 1
      /\ Len(frames') = n - 1 /\ DOMAIN frames' = 1 .. n - 1
      /\ \A i \in DOMAIN frames' : frames'[i] = frames[i]
      /\ frames' = <<>> <=> n = 1
  BY ReturnFinds
<1>4. n = 1 => Running.base = 1
  BY <1>2 DEF FrameInv, Stacked
<1>5. ASSUME NEW i \in DOMAIN frames'
      PROVE  frames'[i].own = Link(i)' + 1 .. End(i)' - 1
  <2>1. i \in DOMAIN frames /\ i < n /\ i \in Nat
    BY <1>2, <1>3
  <2>2. Link(i)' = Link(i) /\ frames'[i] = frames[i]
    BY <1>3 DEF Link
  <2>3. End(i)' = End(i)
    <3>1. CASE i = n - 1
      BY <1>2, <1>3, <2>1, <3>1 DEF End
    <3>2. CASE i < n - 1
      <4>1. i + 1 \in DOMAIN frames'
        BY <1>2, <1>3, <2>1, <3>2
      <4> QED
        BY <1>2, <1>3, <2>1, <3>2, <4>1 DEF End
    <3> QED
      BY <1>2, <2>1, <3>1, <3>2
  <2> QED
    BY <2>1, <2>2, <2>3 DEF StackBalanced
<1> QED
  BY <1>3, <1>4, <1>5 DEF StackBalanced

LEMMA BalanceStep ==
  ASSUME FrameInv, StackBalanced, [Next]_vars
  PROVE  StackBalanced'
<1>1. CASE Compute \/ Intrinsic \/ StoreOp \/ LoadOp \/ Resume
  <2>1. phase' = "run" /\ phase # "enter" /\ UNCHANGED <<frames, stackptr>>
    BY <1>1 DEF Compute, Intrinsic, StoreOp, LoadOp, Working, Resume
  <2> QED
    BY <2>1, SameExtent DEF Reach
<1>2. CASE CallOp
  <2>1. /\ phase' = "enter" /\ phase = "run" /\ frames' = frames
        /\ stackptr' = stackptr + 1 /\ stackptr \in Int
    BY <1>2 DEF CallOp, Working, FrameInv, TypeOK
  <2>2. Reach' = Reach
    BY <2>1 DEF Reach
  <2> QED
    BY <2>1, <2>2, SameExtent
<1>3. CASE UNCHANGED vars
  BY <1>3 DEF vars, StackBalanced, End, Link
<1> QED
  BY <1>1, <1>2, <1>3, AllocaBalance, EnterBalance, ReturnBalance DEF Next

(* A program that ends has popped all it pushed, and while it runs each    *)
(* frame ends where the allocas of its activation end: a call gives        *)
(* %stackptr back as it found it, whatever the callee allocated.           *)
THEOREM StackComesBack == Spec => []StackBalanced
<1>1. Init => StackBalanced
  <2> SUFFICES ASSUME Init PROVE StackBalanced
    OBVIOUS
  <2>1. DOMAIN frames = {} /\ phase # "halted"
    BY DEF Init
  <2> QED
    BY <2>1 DEF StackBalanced
<1>2. FrameInv /\ StackBalanced /\ [Next]_vars => StackBalanced'
  BY BalanceStep
<1> QED
  BY <1>1, <1>2, FramesInvariant, PTL DEF Spec

-----------------------------------------------------------------------------
(***************************************************************************)
(* The refinement: where the locals of an activation are.                  *)
(***************************************************************************)

(* None of the frames from the i-th up to the m-th has saved r.            *)
Unsaved(fs, i, m, r) == \A j \in i .. m : r \notin Range(Saved[fs[j].fn])

(* actsBar, said of holders and words.                                     *)
ActsShape ==
  /\ Len(actsBar) = Len(frames) /\ DOMAIN actsBar = DOMAIN frames
  /\ actsBar = [i \in DOMAIN frames |-> actsBar[i]]
  /\ \A i \in DOMAIN frames :
       /\ actsBar[i] = [fn |-> frames[i].fn, local |-> actsBar[i].local,
                        own |-> frames[i].own, site |-> actsBar[i].site]
       /\ actsBar[i].fn = frames[i].fn /\ actsBar[i].own = frames[i].own
       /\ actsBar[i].local = [r \in Locals(frames[i].fn) |-> actsBar[i].local[r]]

InHolders ==
  \A i \in DOMAIN frames : \A r \in Locals(frames[i].fn) :
    Unsaved(frames, i + 1, Len(frames), r) => actsBar[i].local[r] = score[r]

InFrames ==
  \A i \in DOMAIN frames : \A r \in Locals(frames[i].fn) :
    \A j \in i + 1 .. Len(frames) : \A k \in DOMAIN Saved[frames[j].fn] :
      Saved[frames[j].fn][k] = r /\ Unsaved(frames, i + 1, j - 1, r)
        => actsBar[i].local[r] = mem[frames[j].base - 1 + k]

Sites ==
  \A i \in DOMAIN frames :
    actsBar[i].site = IF i < Len(frames) THEN mem[frames[i + 1].base - 1]
                      ELSE CASE phase = "enter"  -> mem[stackptr - 1]
                             [] phase = "resume" -> site
                             [] OTHER            -> MainReturn

ActsMean == ActsShape /\ InHolders /\ InFrames /\ Sites

(* A set of numbers that is not empty has a least one: the interval below  *)
(* it is the least of the intervals.                                       *)
LEMMA Smallest ==
  ASSUME NEW S \in SUBSET Nat, S # {}
  PROVE  Min(S) \in S /\ \A x \in S : Min(S) <= x
<1> DEFINE T == {0 .. x : x \in S}
<1>1. \E t \in T : \A u \in T : ~ (<<u, t>> \in StrictSubsetOrdering(Nat))
  <2>1. IsWellFoundedOn(StrictSubsetOrdering(Nat), FiniteSubsetsOf(Nat))
    BY FS_StrictSubsetOrderingWellFounded
  <2>2. \A x \in S : 0 .. x \in SUBSET Nat /\ IsFiniteSet(0 .. x)
    <3> TAKE x \in S
    <3>1. x \in Int /\ 0 \in Int
      OBVIOUS
    <3>2. IsFiniteSet(0 .. x)
      BY <3>1, FS_Interval
    <3> QED
      BY <3>2
  <2>3. T \subseteq FiniteSubsetsOf(Nat) /\ T # {}
    BY <2>2 DEF FiniteSubsetsOf
  <2> QED
    BY <2>1, <2>3, WFMin
<1>2. PICK x \in S : \A u \in T : ~ (<<u, 0 .. x>> \in StrictSubsetOrdering(Nat))
  BY <1>1
<1>3. ASSUME NEW y \in S
      PROVE  x <= y
  <2>1. ~ (<<0 .. y, 0 .. x>> \in StrictSubsetOrdering(Nat))
    BY <1>2
  <2>2. 0 .. y \in SUBSET Nat /\ 0 .. x \in SUBSET Nat
    OBVIOUS
  <2>3. ~ (0 .. y \subseteq 0 .. x /\ 0 .. y # 0 .. x)
    BY <2>1, <2>2 DEF StrictSubsetOrdering
  <2>4. SUFFICES ASSUME y < x PROVE FALSE
    OBVIOUS
  <2>5. 0 .. y \subseteq 0 .. x
    BY <2>4
  <2>6. x \in 0 .. x /\ x \notin 0 .. y
    BY <2>4
  <2> QED
    BY <2>3, <2>5, <2>6
<1> QED
  BY <1>3 DEF Min

(* A local is in its holder, or some frame was the first to save it.       *)
LEMMA Home ==
  ASSUME FrameInv, NEW i \in DOMAIN frames, NEW r
  PROVE  \/ Savers(i, r) = {} /\ Unsaved(frames, i + 1, Len(frames), r)
         \/ \E j \in i + 1 .. Len(frames) : \E k \in DOMAIN Saved[frames[j].fn] :
              /\ Saved[frames[j].fn][k] = r
              /\ Unsaved(frames, i + 1, j - 1, r)
<1>1. i \in Nat /\ Len(frames) \in Nat
  BY FrameFacts
<1>2. CASE Savers(i, r) = {}
  BY <1>2 DEF Savers, Unsaved
<1>3. CASE Savers(i, r) # {}
  <2> DEFINE j == Min(Savers(i, r))
  <2>1. Savers(i, r) \in SUBSET Nat
    BY <1>1 DEF Savers
  <2>2. j \in Savers(i, r) /\ \A x \in Savers(i, r) : j <= x
    BY <1>3, <2>1, Smallest
  <2> HIDE DEF j
  <2>3. j \in i + 1 .. Len(frames) /\ r \in Range(Saved[frames[j].fn])
    BY <2>2 DEF Savers
  <2>4. ASSUME NEW m \in i + 1 .. j - 1
        PROVE  r \notin Range(Saved[frames[m].fn])
    <3>1. m \in i + 1 .. Len(frames) /\ ~ (j <= m)
      BY <1>1, <2>3
    <3> QED
      BY <2>2, <3>1 DEF Savers
  <2>5. Unsaved(frames, i + 1, j - 1, r)
    BY <2>4 DEF Unsaved
  <2>6. PICK k \in DOMAIN Saved[frames[j].fn] : Saved[frames[j].fn][k] = r
    BY <2>3 DEF Range
  <2> QED
    BY <2>3, <2>5, <2>6
<1> QED
  BY <1>2, <1>3

(* What Kept computes.                                                     *)
LEMMA KeptWords ==
  ASSUME FrameInv, NEW i \in DOMAIN frames, NEW r
  PROVE  /\ Unsaved(frames, i + 1, Len(frames), r) => Kept(i, r) = score[r]
         /\ \A j \in i + 1 .. Len(frames) : \A k \in DOMAIN Saved[frames[j].fn] :
              Saved[frames[j].fn][k] = r /\ Unsaved(frames, i + 1, j - 1, r)
                => Kept(i, r) = mem[frames[j].base - 1 + k]
<1>1. i \in Nat /\ Len(frames) \in Nat /\ DOMAIN frames = 1 .. Len(frames)
  BY FrameFacts
<1>2. ASSUME Unsaved(frames, i + 1, Len(frames), r)
      PROVE  Kept(i, r) = score[r]
  <2>1. Savers(i, r) = {}
    BY <1>2 DEF Savers, Unsaved
  <2> QED
    BY <2>1 DEF Kept
<1>3. ASSUME NEW j \in i + 1 .. Len(frames), NEW k \in DOMAIN Saved[frames[j].fn],
             Saved[frames[j].fn][k] = r, Unsaved(frames, i + 1, j - 1, r)
      PROVE  Kept(i, r) = mem[frames[j].base - 1 + k]
  <2> DEFINE m == Min(Savers(i, r))
  <2>1. j \in Savers(i, r)
    BY <1>3 DEF Savers, Range
  <2>2. Savers(i, r) \in SUBSET Nat
    BY <1>1 DEF Savers
  <2>3. m \in Savers(i, r) /\ m <= j
    BY <2>1, <2>2, Smallest
  <2>4. m = j
    <3> HIDE DEF m
    <3>1. m \in i + 1 .. Len(frames) /\ r \in Range(Saved[frames[m].fn])
      BY <2>3 DEF Savers
    <3>2. ~ (m \in i + 1 .. j - 1)
      BY <1>3, <3>1 DEF Unsaved
    <3> QED
      BY <1>1, <2>3, <3>1, <3>2
  <2>5. frames[j].fn \in Fn
    <3>1. j \in DOMAIN frames
      BY <1>1
    <3> QED
      BY <3>1, FrameFacts
  <2>6. IsInjective(Saved[frames[j].fn])
    BY <2>5, RoutinesAssumption
  <2>7. (CHOOSE l \in DOMAIN Saved[frames[j].fn] : Saved[frames[j].fn][l] = r) = k
    BY <1>3, <2>6 DEF IsInjective
  <2> QED
    BY <2>1, <2>4, <2>7 DEF Kept
<1> QED
  BY <1>2, <1>3

LEMMA ActsMeaning == FrameInv => ActsMean
<1> SUFFICES ASSUME FrameInv PROVE ActsMean
  OBVIOUS
<1>1. frames \in Seq(FrameRecord) /\ Len(frames) \in Nat /\ DOMAIN frames = 1 .. Len(frames)
  BY DEF FrameInv, Stacked
<1>2. actsBar = [i \in DOMAIN frames |-> actsBar[i]]
  BY DEF actsBar
<1>3. Len(actsBar) = Len(frames) /\ DOMAIN actsBar = DOMAIN frames
  <2> DEFINE S == {actsBar[i] : i \in DOMAIN frames}
  <2>1. actsBar \in [1 .. Len(frames) -> S]
    <3>1. \A i \in DOMAIN frames : actsBar[i] \in S
      OBVIOUS
    <3> HIDE DEF S
    <3> QED
      BY <1>1, <1>2, <3>1
  <2> HIDE DEF S
  <2> QED
    BY <1>1, <1>2, <2>1, ListIsSeq
<1>4. ASSUME NEW i \in DOMAIN frames
      PROVE  /\ actsBar[i] = [fn |-> frames[i].fn, local |-> actsBar[i].local,
                              own |-> frames[i].own, site |-> actsBar[i].site]
             /\ actsBar[i].fn = frames[i].fn /\ actsBar[i].own = frames[i].own
             /\ actsBar[i].local = [r \in Locals(frames[i].fn) |-> actsBar[i].local[r]]
             /\ \A r \in Locals(frames[i].fn) : actsBar[i].local[r] = Kept(i, r)
             /\ actsBar[i].site = Waiting(i)
  BY DEF actsBar
<1>5. ActsShape
  BY <1>2, <1>3, <1>4 DEF ActsShape
<1>6. InHolders /\ InFrames
  <2>1. ASSUME NEW i \in DOMAIN frames, NEW r \in Locals(frames[i].fn)
        PROVE  /\ actsBar[i].local[r] = Kept(i, r)
               /\ Unsaved(frames, i + 1, Len(frames), r) => Kept(i, r) = score[r]
               /\ \A j \in i + 1 .. Len(frames) : \A k \in DOMAIN Saved[frames[j].fn] :
                    Saved[frames[j].fn][k] = r /\ Unsaved(frames, i + 1, j - 1, r)
                      => Kept(i, r) = mem[frames[j].base - 1 + k]
    <3>1. actsBar[i].local[r] = Kept(i, r)
      BY <1>4
    <3>2. Unsaved(frames, i + 1, Len(frames), r) => Kept(i, r) = score[r]
      BY KeptWords
    <3>3. ASSUME NEW j \in i + 1 .. Len(frames), NEW k \in DOMAIN Saved[frames[j].fn],
                 Saved[frames[j].fn][k] = r, Unsaved(frames, i + 1, j - 1, r)
          PROVE  Kept(i, r) = mem[frames[j].base - 1 + k]
      BY <3>3, KeptWords
    <3> QED
      BY <3>1, <3>2, <3>3
  <2>2. InHolders
    BY <2>1 DEF InHolders
  <2>3. InFrames
    BY <2>1 DEF InFrames
  <2> QED
    BY <2>2, <2>3
<1>7. Sites
  BY <1>4 DEF Sites, Waiting
<1> QED
  BY <1>5, <1>6, <1>7 DEF ActsMean

(* Where a frame keeps the holders it saved.                               *)
LEMMA SavedWord ==
  ASSUME FrameInv, NEW j \in DOMAIN frames, NEW k \in DOMAIN Saved[frames[j].fn]
  PROVE  /\ frames[j].base - 1 + k \in 0 .. StackWords - 1
         /\ frames[j].base - 1 + k < Reach
         /\ frames[j].base - 1 + k \notin Live
<1>1. /\ frames[j].fn \in Fn /\ frames[j].base \in Int
      /\ Len(Saved[frames[j].fn]) \in Nat
      /\ Link(j) = frames[j].base + Len(Saved[frames[j].fn])
  BY FrameFacts
<1>2. k \in 1 .. Len(Saved[frames[j].fn])
  BY <1>1, ConstantFacts
<1>3. /\ frames[j].base - 1 + k \in Int
      /\ frames[j].base - 1 <= frames[j].base - 1 + k
      /\ frames[j].base - 1 + k <= Link(j)
  BY <1>1, <1>2
<1> QED
  BY <1>3, ControlWords

-----------------------------------------------------------------------------
(***************************************************************************)
(* What a step of the code leaves of the activations.                      *)
(***************************************************************************)

(* The locals of the running function are in their holders, and those of   *)
(* the others are not among its holders.                                   *)
LEMMA RunningLocals ==
  ASSUME FrameInv, frames # <<>>, NEW fs, NEW m
  PROVE  /\ \A r : Unsaved(fs, Len(frames) + 1, Len(frames), r)
         /\ \A i \in DOMAIN frames : \A r \in Locals(Running.fn) :
              i < Len(frames) => ~ Unsaved(frames, i + 1, Len(frames), r)
<1>1. Len(frames) \in Nat /\ DOMAIN frames = 1 .. Len(frames)
  BY DEF FrameInv, Stacked
<1>2. \A r : Unsaved(fs, Len(frames) + 1, Len(frames), r)
  BY <1>1 DEF Unsaved
<1>3. \A i \in DOMAIN frames : \A r \in Locals(Running.fn) :
        i < Len(frames) => ~ Unsaved(frames, i + 1, Len(frames), r)
  BY <1>1 DEF Unsaved, Locals, Running
<1> QED
  BY <1>2, <1>3

(* An activation keeps a local wherever it is, when the words of the frames *)
(* stay and the holder too if nobody has saved it.                         *)
LEMMA LocalKept ==
  ASSUME FrameInv, FrameInv', NEW i \in DOMAIN frames,
         DOMAIN frames' = DOMAIN frames, Len(frames') = Len(frames),
         \A j \in DOMAIN frames : /\ frames'[j].fn = frames[j].fn
                                  /\ frames'[j].base = frames[j].base,
         \A a \in 0 .. StackWords - 1 : a < Reach /\ a \notin Live => mem'[a] = mem[a],
         NEW r \in Locals(frames[i].fn),
         Unsaved(frames, i + 1, Len(frames), r) => score'[r] = score[r]
  PROVE  actsBar'[i].local[r] = actsBar[i].local[r]
<1>1. InHolders /\ InHolders' /\ InFrames /\ InFrames'
  <2>1. FrameInv => ActsMean
    BY ActsMeaning
  <2>2. FrameInv' => ActsMean'
    BY ActsMeaning, PTL
  <2> QED
    BY <2>1, <2>2 DEF ActsMean
<1>2. Len(frames) \in Nat /\ DOMAIN frames = 1 .. Len(frames) /\ i \in Nat /\ 1 <= i
  BY FrameFacts
<1>3. \A m \in 0 .. Len(frames) :
        Unsaved(frames', i + 1, m, r) <=> Unsaved(frames, i + 1, m, r)
  BY <1>2 DEF Unsaved
<1>4. r \in Locals(frames'[i].fn) /\ i \in DOMAIN frames'
  OBVIOUS
<1>5. CASE Unsaved(frames, i + 1, Len(frames), r)
  <2>1. actsBar[i].local[r] = score[r]
    BY <1>1, <1>5 DEF InHolders
  <2>2. Unsaved(frames', i + 1, Len(frames'), r)
    BY <1>2, <1>3, <1>5
  <2>3. actsBar'[i].local[r] = score'[r]
    BY <1>1, <1>4, <2>2 DEF InHolders
  <2> QED
    BY <1>5, <2>1, <2>3
<1>6. CASE ~ Unsaved(frames, i + 1, Len(frames), r)
  <2>0. PICK j \in i + 1 .. Len(frames) : \E k \in DOMAIN Saved[frames[j].fn] :
          Saved[frames[j].fn][k] = r /\ Unsaved(frames, i + 1, j - 1, r)
    BY <1>6, Home
  <2>1. PICK k \in DOMAIN Saved[frames[j].fn] :
          Saved[frames[j].fn][k] = r /\ Unsaved(frames, i + 1, j - 1, r)
    BY <2>0
  <2>2. j \in DOMAIN frames /\ j - 1 \in 0 .. Len(frames)
    BY <1>2
  <2>3. actsBar[i].local[r] = mem[frames[j].base - 1 + k]
    BY <1>1, <2>1 DEF InFrames
  <2>4. j \in i + 1 .. Len(frames') /\ k \in DOMAIN Saved[frames'[j].fn]
        /\ Saved[frames'[j].fn][k] = r /\ Unsaved(frames', i + 1, j - 1, r)
    BY <1>3, <2>1, <2>2
  <2>5. actsBar'[i].local[r] = mem'[frames'[j].base - 1 + k]
    BY <1>1, <1>4, <2>4 DEF InFrames
  <2>6. mem'[frames[j].base - 1 + k] = mem[frames[j].base - 1 + k]
    BY <2>1, <2>2, SavedWord
  <2> QED
    BY <2>2, <2>3, <2>5, <2>6
<1> QED
  BY <1>5, <1>6

(* Of a step within one function only the last activation can change, and  *)
(* its locals are what its holders then say.                               *)
LEMMA LastActivation ==
  ASSUME FrameInv, FrameInv', frames # <<>>,
         DOMAIN frames' = DOMAIN frames, Len(frames') = Len(frames),
         \A i \in DOMAIN frames : /\ frames'[i].fn = frames[i].fn
                                  /\ frames'[i].base = frames[i].base
                                  /\ i < Len(frames) => frames'[i].own = frames[i].own,
         \A a \in 0 .. StackWords - 1 : a < Reach /\ a \notin Live => mem'[a] = mem[a],
         \A r \in Holder : r \notin Locals(Running.fn) => score'[r] = score[r]
  PROVE  /\ Len(frames) \in Nat /\ 1 <= Len(frames) /\ Len(frames) \in DOMAIN frames
         /\ DOMAIN frames = 1 .. Len(frames)
         /\ Len(actsBar) = Len(frames) /\ Len(actsBar') = Len(frames)
         /\ actsBar = [i \in 1 .. Len(frames) |-> actsBar[i]]
         /\ actsBar' = [i \in 1 .. Len(frames) |-> actsBar'[i]]
         /\ \A i \in 1 .. Len(frames) : i # Len(frames) => actsBar'[i] = actsBar[i]
         /\ actsBar[Len(frames)] =
              [fn |-> Running.fn, local |-> [r \in Locals(Running.fn) |-> score[r]],
               own |-> Running.own, site |-> actsBar[Len(frames)].site]
         /\ actsBar'[Len(frames)] =
              [fn |-> Running.fn, local |-> [r \in Locals(Running.fn) |-> score'[r]],
               own |-> frames'[Len(frames)].own, site |-> actsBar'[Len(frames)].site]
<1> DEFINE n == Len(frames)
<1>1. /\ ActsShape /\ InHolders /\ InFrames /\ Sites
      /\ ActsShape' /\ InHolders' /\ InFrames' /\ Sites'
  <2>1. FrameInv => ActsMean
    BY ActsMeaning
  <2>2. FrameInv' => ActsMean'
    BY ActsMeaning, PTL
  <2> QED
    BY <2>1, <2>2 DEF ActsMean
<1>2. n \in Nat /\ 1 <= n /\ n \in DOMAIN frames /\ DOMAIN frames = 1 .. n
      /\ Running = frames[n]
  <2>1. frames \in Seq(FrameRecord)
    BY DEF FrameInv, Stacked
  <2>2. n # 0
    BY <2>1, EmptySeq
  <2> QED
    BY <2>1, <2>2 DEF Running
<1>3. /\ Len(actsBar) = n /\ Len(actsBar') = n
      /\ actsBar = [i \in 1 .. n |-> actsBar[i]]
      /\ actsBar' = [i \in 1 .. n |-> actsBar'[i]]
  BY <1>1, <1>2 DEF ActsShape
<1>4. /\ \A r : Unsaved(frames, n + 1, n, r)
      /\ \A r : Unsaved(frames', n + 1, n, r)
      /\ \A i \in DOMAIN frames : \A r \in Locals(Running.fn) :
              i < n => ~ Unsaved(frames, i + 1, n, r)
  BY RunningLocals
<1>5. ASSUME NEW i \in 1 .. n, i # n
      PROVE  actsBar'[i] = actsBar[i]
  <2>1. i \in DOMAIN frames /\ i < n /\ i + 1 \in DOMAIN frames
    <3>1. \A m \in Nat : \A x \in 1 .. m : x # m => x < m /\ x + 1 \in 1 .. m
      OBVIOUS
    <3> QED
      BY <1>2, <1>5, <3>1
  <2>2. \A r \in Locals(frames[i].fn) : actsBar'[i].local[r] = actsBar[i].local[r]
    <3> TAKE r \in Locals(frames[i].fn)
    <3>1. r \in Holder
      BY <2>1, FrameFacts, ConstantFacts
    <3>2. Unsaved(frames, i + 1, Len(frames), r) => score'[r] = score[r]
      BY <1>4, <2>1, <3>1
    <3> QED
      BY <2>1, <3>2, LocalKept
  <2>3. frames'[i].fn = frames[i].fn /\ frames'[i].own = frames[i].own
    BY <2>1
  <2>4. actsBar[i].local = [r \in Locals(frames[i].fn) |-> actsBar[i].local[r]]
    BY <1>1, <2>1 DEF ActsShape
  <2>5. actsBar'[i].local = [r \in Locals(frames[i].fn) |-> actsBar'[i].local[r]]
    BY <1>1, <2>1, <2>3 DEF ActsShape
  <2>6. actsBar'[i].local = actsBar[i].local
    BY <2>2, <2>4, <2>5
  <2>7. actsBar'[i].site = actsBar[i].site
    <3>1. actsBar[i].site = mem[frames[i + 1].base - 1]
      BY <1>1, <2>1 DEF Sites
    <3>2. actsBar'[i].site = mem'[frames'[i + 1].base - 1]
      BY <1>1, <2>1 DEF Sites
    <3>3. mem'[frames[i + 1].base - 1] = mem[frames[i + 1].base - 1]
      <4>1. frames[i + 1].base \in Int /\ frames[i + 1].base <= Link(i + 1) /\ Link(i + 1) \in Int
        BY <2>1, FrameFacts
      <4>2. frames[i + 1].base - 1 \in Int /\ frames[i + 1].base - 1 <= Link(i + 1)
            /\ frames[i + 1].base - 1 <= frames[i + 1].base - 1
        BY <4>1
      <4> QED
        BY <2>1, <4>2, ControlWords
    <3> QED
      BY <2>1, <3>1, <3>2, <3>3
  <2>8. actsBar[i] = [fn |-> frames[i].fn, local |-> actsBar[i].local,
                      own |-> frames[i].own, site |-> actsBar[i].site]
    BY <1>1, <2>1 DEF ActsShape
  <2>9. actsBar'[i] = [fn |-> frames'[i].fn, local |-> actsBar'[i].local,
                       own |-> frames'[i].own, site |-> actsBar'[i].site]
    BY <1>1, <2>1 DEF ActsShape
  <2> QED
    BY <2>3, <2>6, <2>7, <2>8, <2>9
<1>6. actsBar[n].local = [r \in Locals(Running.fn) |-> score[r]]
  <2>1. actsBar[n].local = [r \in Locals(Running.fn) |-> actsBar[n].local[r]]
    BY <1>1, <1>2 DEF ActsShape
  <2>2. \A r \in Locals(Running.fn) : actsBar[n].local[r] = score[r]
    <3>1. \A r \in Locals(frames[n].fn) :
            Unsaved(frames, n + 1, n, r) => actsBar[n].local[r] = score[r]
      BY <1>1, <1>2 DEF InHolders
    <3> QED
      BY <1>2, <1>4, <3>1
  <2> QED
    BY <2>1, <2>2
<1>7. actsBar'[n].local = [r \in Locals(Running.fn) |-> score'[r]]
  <2>1. n \in DOMAIN frames' /\ frames'[n].fn = Running.fn
    BY <1>2
  <2>2. actsBar'[n].local = [r \in Locals(Running.fn) |-> actsBar'[n].local[r]]
    BY <1>1, <2>1 DEF ActsShape
  <2>3. \A r \in Locals(Running.fn) : actsBar'[n].local[r] = score'[r]
    <3>1. \A r \in Locals(frames'[n].fn) :
            Unsaved(frames', n + 1, n, r) => actsBar'[n].local[r] = score'[r]
      BY <1>1, <1>2 DEF InHolders
    <3> QED
      BY <1>4, <2>1, <3>1
  <2> QED
    BY <2>2, <2>3
<1>8. actsBar[n] = [fn |-> Running.fn, local |-> actsBar[n].local,
                    own |-> Running.own, site |-> actsBar[n].site]
  BY <1>1, <1>2 DEF ActsShape
<1>9. actsBar'[n] = [fn |-> Running.fn, local |-> actsBar'[n].local,
                     own |-> frames'[n].own, site |-> actsBar'[n].site]
  BY <1>1, <1>2 DEF ActsShape
<1> QED
  BY <1>2, <1>3, <1>5, <1>6, <1>7, <1>8, <1>9

-----------------------------------------------------------------------------
(***************************************************************************)
(* Every step maps to a step of Activations, or to none.                   *)
(***************************************************************************)
LEMMA SameConstants ==
  /\ \A f \in Fn : A!Locals(f) = Locals(f)
  /\ A!MainReturn = MainReturn
  /\ \A S : A!Min(S) = Min(S)
<1>1. \A f \in Fn : A!Locals(f) = Locals(f)
  BY DEF A!Locals, Locals, A!ParamHolders, ParamHolders, A!Range, Range
<1>2. A!MainReturn = MainReturn
  BY DEF A!MainReturn, MainReturn
<1>3. \A S : A!Min(S) = Min(S)
  BY DEF A!Min, Min
<1> QED
  BY <1>1, <1>2, <1>3

LEMMA OwnedIsLive == FrameInv => A!Owned = Live
<1> SUFFICES ASSUME FrameInv PROVE A!Owned = Live
  OBVIOUS
<1>1. ActsShape
  BY ActsMeaning DEF ActsMean
<1>2. DOMAIN actsBar = DOMAIN frames /\ \A i \in DOMAIN frames : actsBar[i].own = frames[i].own
  BY <1>1 DEF ActsShape
<1> QED
  BY <1>2 DEF A!Owned, Live

(* Steps within a function, Resume and Alloca apart: what each leaves alone. *)
LEMMA LocalStepFacts ==
  ASSUME FrameInv, Compute \/ Intrinsic \/ StoreOp \/ LoadOp
  PROVE  /\ frames # <<>> /\ phase = "run" /\ phase' = "run" /\ callee' = callee
         /\ Running.fn \in Fn /\ frames' = frames
         /\ \A a \in 0 .. StackWords - 1 : a < Reach /\ a \notin Live => mem'[a] = mem[a]
         /\ \A r \in Holder : r \notin Locals(Running.fn) => score'[r] = score[r]
<1>1. phase = "run" /\ phase' = "run" /\ callee' = callee /\ frames' = frames
  BY DEF Compute, Intrinsic, StoreOp, LoadOp, Working
<1>2. frames # <<>> /\ Running.fn \in Fn
  BY <1>1, RunningFrame
<1>3. score \in [Holder \cup ParamHolders -> Words] /\ mem \in [0 .. StackWords - 1 -> Words]
  BY DEF FrameInv, TypeOK
<1>4. Locals(Running.fn) \subseteq Holder /\ Holder \cap ParamHolders = {}
  BY <1>2, ConstantFacts, RoutinesAssumption
<1>5. \A a \in 0 .. StackWords - 1 : a < Reach /\ a \notin Live => mem'[a] = mem[a]
  BY <1>3 DEF Compute, Intrinsic, StoreOp, LoadOp
<1>6. \A r \in Holder : r \notin Locals(Running.fn) => score'[r] = score[r]
  <2>1. CASE Compute \/ LoadOp
    BY <1>3, <2>1 DEF Compute, LoadOp
  <2>2. CASE Intrinsic
    BY <1>3, <1>4, <2>2 DEF Intrinsic
  <2>3. CASE StoreOp
    BY <2>3 DEF StoreOp
  <2> QED
    BY <2>1, <2>2, <2>3
<1> QED
  BY <1>1, <1>2, <1>5, <1>6

(* The site of the running activation, while no call is under way.         *)
LEMMA RunningSite == FrameInv /\ phase = "run" => actsBar[Len(frames)].site = MainReturn
<1> SUFFICES ASSUME FrameInv, phase = "run"
             PROVE  actsBar[Len(frames)].site = MainReturn
  OBVIOUS
<1>1. Sites
  BY ActsMeaning DEF ActsMean
<1>2. Len(frames) \in DOMAIN frames /\ Len(frames) \in Nat
  BY RunningFrame, FrameFacts
<1> QED
  BY <1>1, <1>2 DEF Sites

LEMMA ChangedLocals ==
  ASSUME NEW f, NEW l, NEW o, NEW s, NEW m, NEW act,
         act = [fn |-> f, local |-> l, own |-> o, site |-> s]
  PROVE  [act EXCEPT !.local = m] = [fn |-> f, local |-> m, own |-> o, site |-> s]
OBVIOUS

(* A step that changes at most one local of the running activation.        *)
LEMMA OneLocal ==
  ASSUME FrameInv, FrameInv', Compute \/ Intrinsic \/ StoreOp \/ LoadOp,
         NEW r \in Locals(Running.fn), NEW v,
         \A x \in Locals(Running.fn) : score'[x] = IF x = r THEN v ELSE score[x]
  PROVE  /\ Len(actsBar) = Len(frames) /\ Len(actsBar') = Len(actsBar)
         /\ actsBar' = [actsBar EXCEPT ![Len(actsBar)].local[r] = v]
         /\ actsBar'[Len(actsBar)].local[r] = v
         /\ A!Top.fn = Running.fn
         /\ \A x \in Locals(Running.fn) : A!Top.local[x] = score[x]
<1> DEFINE n == Len(frames)
<1>1. /\ frames # <<>> /\ phase = "run" /\ phase' = "run" /\ frames' = frames
      /\ \A a \in 0 .. StackWords - 1 : a < Reach /\ a \notin Live => mem'[a] = mem[a]
      /\ \A x \in Holder : x \notin Locals(Running.fn) => score'[x] = score[x]
  BY LocalStepFacts
<1>2. /\ n \in Nat /\ n \in 1 .. n
      /\ Len(actsBar) = n /\ Len(actsBar') = n
      /\ actsBar = [i \in 1 .. n |-> actsBar[i]]
      /\ actsBar' = [i \in 1 .. n |-> actsBar'[i]]
      /\ \A i \in 1 .. n : i # n => actsBar'[i] = actsBar[i]
      /\ actsBar[n] =
           [fn |-> Running.fn, local |-> [x \in Locals(Running.fn) |-> score[x]],
            own |-> Running.own, site |-> actsBar[n].site]
      /\ actsBar'[n] =
           [fn |-> Running.fn, local |-> [x \in Locals(Running.fn) |-> score'[x]],
            own |-> frames'[n].own, site |-> actsBar'[n].site]
  BY <1>1, LastActivation
<1>3. frames'[n].own = Running.own
  BY <1>1 DEF Running
<1>4. actsBar'[n].site = actsBar[n].site
  <2>1. actsBar[Len(frames)].site = MainReturn
    BY <1>1, RunningSite
  <2>2. actsBar'[Len(frames')].site = MainReturn
    <3>1. FrameInv' /\ (phase = "run")' => (actsBar[Len(frames)].site = MainReturn)'
      BY RunningSite, PTL
    <3> QED
      BY <1>1, <3>1
  <2> QED
    BY <1>1, <2>1, <2>2
<1>5. [x \in Locals(Running.fn) |-> score'[x]]
        = [[x \in Locals(Running.fn) |-> score[x]] EXCEPT ![r] = v]
  OBVIOUS
<1>6. actsBar'[n] = [actsBar[n] EXCEPT !.local = [@ EXCEPT ![r] = v]]
  <2>1. actsBar[n].local = [x \in Locals(Running.fn) |-> score[x]]
    BY <1>2
  <2>2. actsBar'[n] = [actsBar[n] EXCEPT !.local = [x \in Locals(Running.fn) |-> score'[x]]]
    BY <1>2, <1>3, <1>4, ChangedLocals
  <2> QED
    BY <1>5, <2>1, <2>2
<1>7. actsBar' = [actsBar EXCEPT ![n].local[r] = v]
  BY <1>2, <1>6
<1> QED
  BY <1>2, <1>7 DEF A!Top

(* A step in the middle of a function passes nothing.                      *)
LEMMA NothingOnTheWay ==
  ASSUME FrameInv, phase = "run", phase' = "run", callee' = callee
  PROVE  passedBar = <<>> /\ UNCHANGED <<phase, callee, passedBar, resultBar>>
BY DEF passedBar, resultBar

LEMMA SameCells ==
  ASSUME frames' = frames, mem' = mem
  PROVE  cellBar' = cellBar
BY DEF cellBar, Live

LEMMA ComputeMaps ==
  ASSUME FrameInv, FrameInv', Compute
  PROVE  A!SetLocal
<1>1. PICK r \in Locals(Running.fn), v \in Literals : score' = [score EXCEPT ![r] = v]
  BY DEF Compute
<1>2. /\ phase = "run" /\ phase' = "run" /\ callee' = callee
      /\ Running.fn \in Fn /\ frames' = frames
  BY LocalStepFacts
<1>3. mem' = mem
  BY DEF Compute
<1>4. \A x \in Locals(Running.fn) : score'[x] = IF x = r THEN v ELSE score[x]
  <2>1. DOMAIN score = Holder \cup ParamHolders /\ Locals(Running.fn) \subseteq Holder
    BY <1>2, ConstantFacts DEF FrameInv, TypeOK
  <2> QED
    BY <1>1, <2>1
<1>5. /\ Len(actsBar') = Len(actsBar)
      /\ actsBar' = [actsBar EXCEPT ![Len(actsBar)].local[r] = v]
      /\ actsBar'[Len(actsBar)].local[r] = v
      /\ A!Top.fn = Running.fn
  BY <1>4, OneLocal
<1>6. cellBar' = cellBar /\ UNCHANGED <<phase, callee, passedBar, resultBar>>
  BY <1>2, <1>3, SameCells, NothingOnTheWay
<1>7. r \in A!Locals(A!Top.fn)
  BY <1>2, <1>5, SameConstants
<1>8. actsBar' = [actsBar EXCEPT ![Len(actsBar)].local[r] = actsBar'[Len(actsBar)].local[r]]
  BY <1>5
<1> QED
  BY <1>2, <1>5, <1>6, <1>7, <1>8 DEF A!SetLocal

LEMMA LoadMaps ==
  ASSUME FrameInv, FrameInv', LoadOp
  PROVE  A!Load
<1>1. PICK p, r \in Locals(Running.fn) :
        score[p] \in Live /\ score' = [score EXCEPT ![r] = mem[score[p]]]
  BY DEF LoadOp
<1> DEFINE w == mem[score[p]]
<1>2. /\ phase = "run" /\ phase' = "run" /\ callee' = callee
      /\ Running.fn \in Fn /\ frames' = frames
  BY LocalStepFacts
<1>3. mem' = mem
  BY DEF LoadOp
<1>4. \A x \in Locals(Running.fn) : score'[x] = IF x = r THEN w ELSE score[x]
  <2>1. DOMAIN score = Holder \cup ParamHolders /\ Locals(Running.fn) \subseteq Holder
    BY <1>2, ConstantFacts DEF FrameInv, TypeOK
  <2> QED
    BY <1>1, <2>1
<1>5. /\ actsBar' = [actsBar EXCEPT ![Len(actsBar)].local[r] = w]
      /\ A!Top.fn = Running.fn
      /\ A!Top.local[p] = score[p]
  <2> HIDE DEF w
  <2> QED
    BY <1>4, OneLocal
<1>6. cellBar' = cellBar /\ UNCHANGED <<phase, callee, passedBar, resultBar>>
  BY <1>2, <1>3, SameCells, NothingOnTheWay
<1>7. p \in A!Locals(A!Top.fn) /\ r \in A!Locals(A!Top.fn)
  BY <1>2, <1>5, SameConstants
<1>8. A!Top.local[p] \in A!Owned /\ cellBar[A!Top.local[p]] = mem[score[p]]
  BY <1>1, <1>5, OwnedIsLive DEF cellBar
<1>9. actsBar' = [actsBar EXCEPT ![Len(actsBar)].local[r] = cellBar[A!Top.local[p]]]
  BY <1>5, <1>8
<1> QED
  BY <1>2, <1>6, <1>7, <1>8, <1>9 DEF A!Load

(* An assignment of what a local holds already changes nothing.            *)
LEMMA NoLocal ==
  ASSUME FrameInv, FrameInv', Intrinsic \/ StoreOp,
         \A x \in Locals(Running.fn) : score'[x] = score[x]
  PROVE  /\ actsBar' = actsBar
         /\ A!Top.fn = Running.fn
         /\ \A x \in Locals(Running.fn) : A!Top.local[x] = score[x]
<1> DEFINE n == Len(frames)
<1>1. /\ frames # <<>> /\ phase = "run" /\ phase' = "run" /\ frames' = frames
      /\ \A a \in 0 .. StackWords - 1 : a < Reach /\ a \notin Live => mem'[a] = mem[a]
      /\ \A x \in Holder : x \notin Locals(Running.fn) => score'[x] = score[x]
  BY LocalStepFacts
<1>2. /\ n \in Nat /\ n \in 1 .. n
      /\ Len(actsBar) = n
      /\ actsBar = [i \in 1 .. n |-> actsBar[i]]
      /\ actsBar' = [i \in 1 .. n |-> actsBar'[i]]
      /\ \A i \in 1 .. n : i # n => actsBar'[i] = actsBar[i]
      /\ actsBar[n] =
           [fn |-> Running.fn, local |-> [x \in Locals(Running.fn) |-> score[x]],
            own |-> Running.own, site |-> actsBar[n].site]
      /\ actsBar'[n] =
           [fn |-> Running.fn, local |-> [x \in Locals(Running.fn) |-> score'[x]],
            own |-> frames'[n].own, site |-> actsBar'[n].site]
  BY <1>1, LastActivation
<1>3. frames'[n].own = Running.own
  BY <1>1 DEF Running
<1>4. actsBar'[n].site = actsBar[n].site
  <2>1. actsBar[Len(frames)].site = MainReturn
    BY <1>1, RunningSite
  <2>2. FrameInv' /\ (phase = "run")' => (actsBar[Len(frames)].site = MainReturn)'
    BY RunningSite, PTL
  <2> QED
    BY <1>1, <2>1, <2>2
<1>5. [x \in Locals(Running.fn) |-> score'[x]] = [x \in Locals(Running.fn) |-> score[x]]
  OBVIOUS
<1>6. actsBar'[n] = actsBar[n]
  BY <1>2, <1>3, <1>4, <1>5
<1>7. actsBar' = actsBar
  BY <1>2, <1>6
<1> QED
  BY <1>2, <1>7 DEF A!Top

LEMMA IntrinsicMaps ==
  ASSUME FrameInv, FrameInv', Intrinsic
  PROVE  UNCHANGED A!actVars
<1>1. /\ phase = "run" /\ phase' = "run" /\ callee' = callee
      /\ Running.fn \in Fn /\ frames' = frames
  BY LocalStepFacts
<1>2. mem' = mem
  BY DEF Intrinsic
<1>3. \A x \in Locals(Running.fn) : score'[x] = score[x]
  <2>1. DOMAIN score = Holder \cup ParamHolders /\ Locals(Running.fn) \subseteq Holder
        /\ Holder \cap ParamHolders = {}
    BY <1>1, ConstantFacts, RoutinesAssumption DEF FrameInv, TypeOK
  <2> QED
    BY <2>1 DEF Intrinsic
<1>4. actsBar' = actsBar
  BY <1>3, NoLocal
<1>5. cellBar' = cellBar /\ UNCHANGED <<phase, callee, passedBar, resultBar>>
  BY <1>1, <1>2, SameCells, NothingOnTheWay
<1> QED
  BY <1>4, <1>5 DEF A!actVars

LEMMA StoreMaps ==
  ASSUME FrameInv, FrameInv', StoreOp
  PROVE  A!Store
<1>1. PICK p, r \in Locals(Running.fn) :
        score[p] \in Live /\ mem' = [mem EXCEPT ![score[p]] = score[r]]
  BY DEF StoreOp
<1>2. /\ phase = "run" /\ phase' = "run" /\ callee' = callee
      /\ Running.fn \in Fn /\ frames' = frames
  BY LocalStepFacts
<1>3. score' = score
  BY DEF StoreOp
<1>4. /\ actsBar' = actsBar /\ A!Top.fn = Running.fn
      /\ A!Top.local[p] = score[p] /\ A!Top.local[r] = score[r]
  BY <1>3, NoLocal
<1>5. cellBar' = [cellBar EXCEPT ![score[p]] = score[r]]
  <2>1. Live' = Live /\ Live \subseteq DOMAIN mem
    <3>1. Live' = Live
      BY <1>2 DEF Live
    <3>2. DOMAIN mem = 0 .. StackWords - 1
      BY DEF FrameInv, TypeOK
    <3>3. \A i \in DOMAIN frames : frames[i].own \subseteq 0 .. StackWords - 1
      BY FrameFacts
    <3> QED
      BY <3>1, <3>2, <3>3 DEF Live
  <2>2. \A a \in Live : mem'[a] = IF a = score[p] THEN score[r] ELSE mem[a]
    BY <1>1, <2>1
  <2> QED
    BY <1>1, <2>1, <2>2 DEF cellBar
<1>6. UNCHANGED <<phase, callee, passedBar, resultBar>>
  BY <1>2, NothingOnTheWay
<1>7. p \in A!Locals(A!Top.fn) /\ r \in A!Locals(A!Top.fn) /\ A!Top.local[p] \in A!Owned
  BY <1>1, <1>2, <1>4, SameConstants, OwnedIsLive
<1>8. cellBar' = [cellBar EXCEPT ![A!Top.local[p]] = A!Top.local[r]]
  BY <1>4, <1>5
<1> QED
  BY <1>2, <1>4, <1>6, <1>7, <1>8 DEF A!Store

(* Who waits for whom, by the phase of the last activation.                *)
LEMMA LastSite ==
  ASSUME FrameInv, frames # <<>>
  PROVE  /\ phase = "enter" => actsBar[Len(frames)].site = mem[stackptr - 1]
         /\ phase = "resume" => actsBar[Len(frames)].site = site
         /\ phase = "run" => actsBar[Len(frames)].site = MainReturn
<1>1. Sites
  BY ActsMeaning DEF ActsMean
<1>2. Len(frames) \in DOMAIN frames /\ Len(frames) \in Nat
  <2>1. frames \in Seq(FrameRecord)
    BY DEF FrameInv, Stacked
  <2>2. Len(frames) # 0
    BY <2>1, EmptySeq
  <2> QED
    BY <2>1, <2>2
<1> QED
  BY <1>1, <1>2 DEF Sites

LEMMA ResumeMaps ==
  ASSUME FrameInv, FrameInv', Resume
  PROVE  A!Resume
<1> DEFINE n == Len(frames)
<1>1. /\ phase = "resume" /\ phase' = "run" /\ callee' = callee /\ frames' = frames
      /\ mem' = mem /\ return0' = return0
      /\ score' = [score EXCEPT ![Dest[site]] = return0]
  BY DEF Resume
<1>2. frames # <<>> /\ Running.fn \in Fn /\ Running = frames[n]
  BY <1>1, RunningFrame
<1>3. Dest[site] \in Locals(Running.fn)
  <2>1. Caller[site] = Running.fn /\ site \in Site \cup {MainReturn}
    BY <1>1 DEF FrameInv, Expected, TypeOK
  <2>2. site \in Site
    BY <1>1 DEF FrameInv, Expected
  <2> QED
    BY <2>1, <2>2, RoutinesAssumption
<1>4. DOMAIN score = Holder \cup ParamHolders /\ Locals(Running.fn) \subseteq Holder
  BY <1>2, ConstantFacts DEF FrameInv, TypeOK
<1>5. \A x \in Holder : x \notin Locals(Running.fn) => score'[x] = score[x]
  BY <1>1, <1>3, <1>4
<1>6. /\ n \in Nat /\ n \in 1 .. n
      /\ Len(actsBar) = n
      /\ actsBar = [i \in 1 .. n |-> actsBar[i]]
      /\ actsBar' = [i \in 1 .. n |-> actsBar'[i]]
      /\ \A i \in 1 .. n : i # n => actsBar'[i] = actsBar[i]
      /\ actsBar[n] =
           [fn |-> Running.fn, local |-> [x \in Locals(Running.fn) |-> score[x]],
            own |-> Running.own, site |-> actsBar[n].site]
      /\ actsBar'[n] =
           [fn |-> Running.fn, local |-> [x \in Locals(Running.fn) |-> score'[x]],
            own |-> frames'[n].own, site |-> actsBar'[n].site]
  BY <1>1, <1>2, <1>5, LastActivation
<1>7. actsBar[n].site = site
  BY <1>1, <1>2, LastSite
<1>8. actsBar'[n].site = MainReturn
  <2>1. FrameInv' /\ (phase = "run")' => (actsBar[Len(frames)].site = MainReturn)'
    BY RunningSite, PTL
  <2> QED
    BY <1>1, <2>1
<1>9. [x \in Locals(Running.fn) |-> score'[x]]
        = [[x \in Locals(Running.fn) |-> score[x]] EXCEPT ![Dest[site]] = return0]
  BY <1>1, <1>3, <1>4
<1>10. actsBar'[n] = [fn |-> Running.fn,
                      local |-> [actsBar[n].local EXCEPT ![Dest[site]] = return0],
                      own |-> Running.own, site |-> MainReturn]
  <2>1. frames'[n].own = Running.own
    BY <1>1, <1>2
  <2>2. actsBar[n].local = [x \in Locals(Running.fn) |-> score[x]]
    BY <1>6
  <2>3. actsBar'[n].local = [actsBar[n].local EXCEPT ![Dest[site]] = return0]
    BY <1>6, <1>9, <2>2, SMTT(30)
  <2>4. actsBar'[n].local = [x \in Locals(Running.fn) |-> score'[x]]
    BY <1>6
  <2> QED
    BY <1>6, <1>8, <2>1, <2>3, <2>4
<1>11. actsBar' = [actsBar EXCEPT ![n].local[Dest[site]] = return0, ![n].site = MainReturn]
  <2> DEFINE m == [actsBar[n].local EXCEPT ![Dest[site]] = return0]
  <2>0. actsBar'[n] = [fn |-> Running.fn, local |-> m, own |-> Running.own,
                       site |-> MainReturn]
    BY <1>10
  <2> DEFINE l == [x \in Locals(Running.fn) |-> score[x]]
             top == actsBar[n]
  <2>3. top = [fn |-> Running.fn, local |-> l, own |-> Running.own, site |-> site]
    BY <1>6, <1>7
  <2> HIDE DEF m, l, top
  <2>1. [[top EXCEPT !.local = m] EXCEPT !.site = MainReturn]
          = [fn |-> Running.fn, local |-> m, own |-> Running.own, site |-> MainReturn]
    <3> DEFINE changed == [top EXCEPT !.local = m]
    <3>1. changed = [fn |-> Running.fn, local |-> m, own |-> Running.own, site |-> site]
      BY <2>3, ChangedLocals
    <3> HIDE DEF changed
    <3>2. [changed EXCEPT !.site = MainReturn]
            = [fn |-> Running.fn, local |-> m, own |-> Running.own, site |-> MainReturn]
      BY <3>1
    <3> QED
      BY <3>2 DEF changed
  <2>4. actsBar'[n] = [[top EXCEPT !.local = m] EXCEPT !.site = MainReturn]
    BY <2>0, <2>1
  <2> USE DEF top
  <2>2. actsBar' = [actsBar EXCEPT ![n].local = m, ![n].site = MainReturn]
    BY <1>6, <2>4
  <2> QED
    BY <2>2 DEF m
<1>12. cellBar' = cellBar /\ passedBar' = passedBar /\ resultBar = return0 /\ resultBar' = 0
  BY <1>1, SameCells DEF passedBar, resultBar
<1>13. A!Top.site = site
  BY <1>6, <1>7 DEF A!Top
<1>14. actsBar' = [actsBar EXCEPT ![Len(actsBar)].local[Dest[A!Top.site]] = resultBar,
                                  ![Len(actsBar)].site = A!MainReturn]
  BY <1>6, <1>11, <1>12, <1>13, SameConstants
<1> QED
  BY <1>1, <1>12, <1>14 DEF A!Resume

LEMMA AllocaMaps ==
  ASSUME FrameInv, FrameInv', Alloca
  PROVE  A!Allocate
<1> DEFINE n == Len(frames)
<1>1. PICK r \in Locals(Running.fn), m \in AllocSizes :
        /\ Fits(m)
        /\ score' = [score EXCEPT ![r] = stackptr]
        /\ stackptr' = stackptr + m
        /\ frames' = Granted(m)
  BY DEF Alloca
<1>2. phase = "run" /\ phase' = "run" /\ callee' = callee /\ mem' = mem
  BY DEF Alloca, Working
<1>3. frames # <<>> /\ Running.fn \in Fn /\ Running = frames[n] /\ n \in DOMAIN frames
      /\ Reach = stackptr
  BY <1>2, RunningFrame
<1> DEFINE area == stackptr .. stackptr + m - 1
<1>4. /\ m \in Nat /\ m > 0 /\ Len(frames') = n /\ DOMAIN frames' = DOMAIN frames
      /\ \A i \in DOMAIN frames :
           /\ frames'[i].fn = frames[i].fn /\ frames'[i].base = frames[i].base
           /\ i # n => frames'[i].own = frames[i].own
      /\ frames'[n].own = Running.own \cup area
  BY <1>1, <1>2, GrantedFrames
<1>5. stackptr \in Int /\ stackptr \in area /\ (\A a \in area : stackptr <= a)
      /\ \A i \in DOMAIN frames : \A a \in frames[i].own : a < stackptr
  <2>1. stackptr \in Int
    BY DEF FrameInv, TypeOK
  <2>2. \A i \in DOMAIN frames : \A a \in frames[i].own : a < stackptr
    BY <1>3 DEF FrameInv, Stacked
  <2> QED
    BY <1>4, <2>1, <2>2
<1>6. area \cap Live = {} /\ area # {} /\ Live' = Live \cup area
  <2>1. area \cap Live = {}
    BY <1>3, <1>5, FrameFacts DEF Live
  <2>2. Live' = UNION {frames'[i].own : i \in DOMAIN frames}
    BY <1>4 DEF Live
  <2>3. Live' = Live \cup area
    <3> HIDE DEF area
    <3> QED
      BY <1>3, <1>4, <2>2 DEF Live
  <2> QED
    BY <1>5, <2>1, <2>3
<1>7. Min(area) = stackptr
  BY <1>5 DEF Min
<1> HIDE DEF area
<1>8. DOMAIN score = Holder \cup ParamHolders /\ Locals(Running.fn) \subseteq Holder
  BY <1>3, ConstantFacts DEF FrameInv, TypeOK
<1>9. /\ n \in Nat /\ n \in 1 .. n
      /\ Len(actsBar) = n /\ Len(actsBar') = n
      /\ actsBar = [i \in 1 .. n |-> actsBar[i]]
      /\ actsBar' = [i \in 1 .. n |-> actsBar'[i]]
      /\ \A i \in 1 .. n : i # n => actsBar'[i] = actsBar[i]
      /\ actsBar[n] =
           [fn |-> Running.fn, local |-> [x \in Locals(Running.fn) |-> score[x]],
            own |-> Running.own, site |-> actsBar[n].site]
      /\ actsBar'[n] =
           [fn |-> Running.fn, local |-> [x \in Locals(Running.fn) |-> score'[x]],
            own |-> frames'[n].own, site |-> actsBar'[n].site]
  <2>1. \A x \in Holder : x \notin Locals(Running.fn) => score'[x] = score[x]
    BY <1>1, <1>8
  <2>2. \A i \in DOMAIN frames : i < n => frames'[i].own = frames[i].own
    BY <1>4, FrameFacts
  <2> QED
    BY <1>2, <1>3, <1>4, <2>1, <2>2, LastActivation
<1>10. actsBar[n].site = MainReturn /\ actsBar'[n].site = MainReturn
  <2>1. FrameInv' /\ (phase = "run")' => (actsBar[Len(frames)].site = MainReturn)'
    BY RunningSite, PTL
  <2> QED
    BY <1>2, <1>4, <2>1, RunningSite
<1>11. [x \in Locals(Running.fn) |-> score'[x]]
         = [[x \in Locals(Running.fn) |-> score[x]] EXCEPT ![r] = stackptr]
  BY <1>1, <1>8
<1> DEFINE l == [x \in Locals(Running.fn) |-> score[x]]
           k == [l EXCEPT ![r] = stackptr]
           top == actsBar[n]
<1>12. top = [fn |-> Running.fn, local |-> l, own |-> Running.own, site |-> MainReturn]
  BY <1>9, <1>10
<1>13. actsBar'[n] = [fn |-> Running.fn, local |-> k, own |-> Running.own \cup area,
                      site |-> MainReturn]
  BY <1>4, <1>9, <1>10, <1>11
<1>14. top.local = l /\ top.own = Running.own /\ top.fn = Running.fn
       /\ actsBar'[n].own = Running.own \cup area
  <2> HIDE DEF l, k, top
  <2> QED
    BY <1>12, <1>13
<1>15. actsBar' = [actsBar EXCEPT ![n].local[r] = stackptr, ![n].own = @ \cup area]
  <2> HIDE DEF l, k, top
  <2> DEFINE changed == [top EXCEPT !.local = k]
  <2>1. changed = [fn |-> Running.fn, local |-> k, own |-> Running.own, site |-> MainReturn]
    BY <1>12, ChangedLocals
  <2> HIDE DEF changed
  <2>2. [changed EXCEPT !.own = @ \cup area]
          = [fn |-> Running.fn, local |-> k, own |-> Running.own \cup area,
             site |-> MainReturn]
    BY <2>1, SMTT(30)
  <2>3. actsBar'[n] = [changed EXCEPT !.own = @ \cup area]
    BY <1>13, <2>2
  <2> USE DEF changed, top
  <2>4. actsBar' = [actsBar EXCEPT ![n].local = k, ![n].own = @ \cup area]
    BY <1>9, <2>3
  <2> QED
    BY <1>14, <2>4 DEF k
<1>16. area = actsBar'[Len(actsBar)].own \ A!Top.own
  <2>1. area \cap Running.own = {}
    BY <1>3, <1>6 DEF Live
  <2>2. A!Top.own = Running.own
    BY <1>9, <1>14 DEF A!Top
  <2> QED
    BY <1>9, <1>14, <2>1, <2>2
<1>17. r \in A!Locals(A!Top.fn)
  BY <1>3, <1>9, <1>14, SameConstants DEF A!Top
<1>18. DOMAIN cellBar' = DOMAIN cellBar \cup area
       /\ \A b \in DOMAIN cellBar : cellBar'[b] = cellBar[b]
  BY <1>2, <1>6 DEF cellBar
<1>19. area \cap A!Owned = {} /\ A!Min(area) = stackptr
  BY <1>6, <1>7, OwnedIsLive, SameConstants
<1>20. UNCHANGED <<phase, callee, passedBar, resultBar>>
  BY <1>2, NothingOnTheWay
<1> HIDE DEF l, k, top
<1> QED
  BY <1>2, <1>6, <1>9, <1>15, <1>16, <1>17, <1>18, <1>19, <1>20 DEF A!Allocate

LEMMA CallMaps ==
  ASSUME FrameInv, FrameInv', CallOp
  PROVE  A!Call
<1> DEFINE n == Len(frames)
<1>1. /\ phase = "run" /\ phase' = "enter" /\ stackptr' = stackptr + 1
      /\ frames' = frames /\ stackptr + 1 <= StackWords
  BY DEF CallOp, Fits, Working
<1>2. PICK s \in Site, g \in Fn :
        /\ Caller[s] = Running.fn
        /\ mem' = [mem EXCEPT ![stackptr] = s]
        /\ callee' = g
        /\ \E from \in [DOMAIN Args[g] -> Locals(Running.fn)] :
             score' = [r \in DOMAIN score |->
                         IF \E i \in DOMAIN from : r = Param[i]
                         THEN score[from[CHOOSE i \in DOMAIN from : r = Param[i]]]
                         ELSE score[r]]
  BY DEF CallOp
<1>3. PICK from \in [DOMAIN Args[g] -> Locals(Running.fn)] :
        score' = [r \in DOMAIN score |->
                    IF \E i \in DOMAIN from : r = Param[i]
                    THEN score[from[CHOOSE i \in DOMAIN from : r = Param[i]]]
                    ELSE score[r]]
  BY <1>2
<1>4. /\ frames # <<>> /\ Running.fn \in Fn /\ Running = frames[n] /\ n \in DOMAIN frames
      /\ Reach = stackptr
  BY <1>1, RunningFrame
<1>5. DOMAIN score = Holder \cup ParamHolders /\ Locals(Running.fn) \subseteq Holder
      /\ DOMAIN mem = 0 .. StackWords - 1 /\ stackptr \in 0 .. StackWords
  BY <1>4, ConstantFacts DEF FrameInv, TypeOK
<1>6. /\ DOMAIN Args[g] \subseteq DOMAIN Param
      /\ \A i \in DOMAIN Param : Param[i] \in ParamHolders
      /\ \A i, j \in DOMAIN Param : Param[i] = Param[j] => i = j
      /\ Holder \cap ParamHolders = {}
  <2>1. Args[g] \in Seq(Locals(g)) /\ Param \in Seq(ParamHolders)
        /\ Len(Args[g]) <= Len(Param) /\ IsInjective(Param) /\ Holder \cap ParamHolders = {}
    BY RoutinesAssumption
  <2>2. DOMAIN Args[g] = 1 .. Len(Args[g]) /\ DOMAIN Param = 1 .. Len(Param)
        /\ Len(Args[g]) \in Nat /\ Len(Param) \in Nat
        /\ \A i \in DOMAIN Param : Param[i] \in ParamHolders
    BY <2>1
  <2> QED
    BY <2>1, <2>2 DEF IsInjective
<1>7. \A r \in Holder : score'[r] = score[r]
  BY <1>3, <1>5, <1>6
<1>8. \A i \in DOMAIN Args[g] : score'[Param[i]] = score[from[i]]
  <2> TAKE i \in DOMAIN Args[g]
  <2>1. (CHOOSE j \in DOMAIN from : Param[i] = Param[j]) = i
    BY <1>6
  <2>2. Param[i] \in DOMAIN score /\ \E j \in DOMAIN from : Param[i] = Param[j]
    BY <1>5, <1>6
  <2> QED
    BY <1>3, <2>1, <2>2
<1>9. \A a \in 0 .. StackWords - 1 : a < Reach /\ a \notin Live => mem'[a] = mem[a]
  BY <1>2, <1>4, <1>5
<1>10. /\ n \in Nat /\ n \in 1 .. n
       /\ Len(actsBar) = n
       /\ actsBar = [i \in 1 .. n |-> actsBar[i]]
       /\ actsBar' = [i \in 1 .. n |-> actsBar'[i]]
       /\ \A i \in 1 .. n : i # n => actsBar'[i] = actsBar[i]
       /\ actsBar[n] =
            [fn |-> Running.fn, local |-> [x \in Locals(Running.fn) |-> score[x]],
             own |-> Running.own, site |-> actsBar[n].site]
       /\ actsBar'[n] =
            [fn |-> Running.fn, local |-> [x \in Locals(Running.fn) |-> score'[x]],
             own |-> frames'[n].own, site |-> actsBar'[n].site]
  BY <1>1, <1>4, <1>7, <1>9, LastActivation
<1>11. actsBar'[n].site = s
  <2>1. FrameInv' /\ (frames # <<>>)' /\ (phase = "enter")'
          => (actsBar[Len(frames)].site = mem[stackptr - 1])'
    BY LastSite, PTL
  <2>2. mem'[stackptr' - 1] = s
    BY <1>1, <1>2, <1>5, ConstantFacts
  <2> QED
    BY <1>1, <1>4, <2>1, <2>2
<1>12. [x \in Locals(Running.fn) |-> score'[x]] = [x \in Locals(Running.fn) |-> score[x]]
  BY <1>5, <1>7
<1> DEFINE l == [x \in Locals(Running.fn) |-> score[x]]
           w == actsBar[n].site
<1>13. actsBar[n] = [fn |-> Running.fn, local |-> l, own |-> Running.own, site |-> w]
  BY <1>10
<1>14. actsBar'[n] = [fn |-> Running.fn, local |-> l, own |-> Running.own, site |-> s]
  BY <1>1, <1>4, <1>10, <1>11, <1>12
<1>15. actsBar' = [actsBar EXCEPT ![n].site = s]
  <2> HIDE DEF l, w
  <2>1. actsBar'[n] = [actsBar[n] EXCEPT !.site = s]
    BY <1>13, <1>14
  <2> QED
    BY <1>10, <2>1
<1>16. A!Top.fn = Running.fn /\ \A x \in Locals(Running.fn) : A!Top.local[x] = score[x]
  BY <1>10 DEF A!Top
<1>17. passedBar' = [i \in DOMAIN Args[g] |-> A!Top.local[from[i]]]
  BY <1>1, <1>2, <1>8, <1>16 DEF passedBar
<1>18. cellBar' = cellBar
  <2>1. Live' = Live
    BY <1>1 DEF Live
  <2>2. stackptr \notin Live
    <3>1. \A i \in DOMAIN frames : \A a \in frames[i].own : a < stackptr
      BY <1>4 DEF FrameInv, Stacked
    <3> QED
      BY <1>5, <3>1, FrameFacts DEF Live
  <2>3. \A a \in Live : mem'[a] = mem[a]
    BY <1>2, <2>2, LiveWords, <1>5
  <2> QED
    BY <2>1, <2>3 DEF cellBar
<1>19. resultBar' = resultBar
  BY <1>1 DEF resultBar
<1>20. from \in [DOMAIN Args[g] -> A!Locals(A!Top.fn)] /\ Caller[s] = A!Top.fn
  BY <1>2, <1>4, <1>16, SameConstants
<1>21. actsBar' = [actsBar EXCEPT ![Len(actsBar)].site = s]
  BY <1>10, <1>15
<1>22. \E h \in [DOMAIN Args[g] -> A!Locals(A!Top.fn)] :
         passedBar' = [i \in DOMAIN Args[g] |-> A!Top.local[h[i]]]
  BY <1>17, <1>20
<1> HIDE DEF l, w
<1> QED
  BY <1>1, <1>2, <1>18, <1>19, <1>20, <1>21, <1>22 DEF A!Call

(* Entering a function saves the locals it would overwrite.                *)
LEMMA EnterKeeps ==
  ASSUME FrameInv, FrameInv', Enter, NEW i \in DOMAIN frames,
         NEW r \in Locals(frames[i].fn)
  PROVE  actsBar'[i].local[r] = actsBar[i].local[r]
<1> DEFINE n == Len(frames)
<1>1. InHolders /\ InFrames /\ InHolders' /\ InFrames'
  <2>1. FrameInv' => ActsMean'
    BY ActsMeaning, PTL
  <2> QED
    BY <2>1, ActsMeaning DEF ActsMean
<1>2. /\ callee \in Fn /\ stackptr \in 0 .. StackWords
      /\ \A a \in 0 .. StackWords - 1 : a < stackptr => mem'[a] = mem[a]
      /\ \A k \in DOMAIN Saved[callee] :
           mem'[stackptr - 1 + k] = score[Saved[callee][k]]
      /\ Len(frames') = n + 1 /\ DOMAIN frames' = 1 .. n + 1
      /\ \A j \in DOMAIN frames : frames'[j] = frames[j]
      /\ frames'[n + 1].fn = callee /\ frames'[n + 1].base = stackptr
  BY EnterFinds
<1>3. n \in Nat /\ DOMAIN frames = 1 .. n /\ i \in Nat /\ 1 <= i /\ i <= n
      /\ frames[i].fn \in Fn /\ Reach <= stackptr /\ Reach \in Int /\ stackptr \in Int
  BY FrameFacts
<1>4. i \in DOMAIN frames' /\ r \in Locals(frames'[i].fn)
  BY <1>2, <1>3
<1>5. \A m \in 0 .. n : Unsaved(frames', i + 1, m, r) <=> Unsaved(frames, i + 1, m, r)
  BY <1>2, <1>3, SMTT(30) DEF Unsaved
<1>6. CASE Unsaved(frames, i + 1, n, r)
  <2>1. actsBar[i].local[r] = score[r]
    BY <1>1, <1>6 DEF InHolders
  <2>2. Unsaved(frames', i + 1, n, r)
    BY <1>3, <1>5, <1>6
  <2>3. CASE r \in Range(Saved[callee])
    <3>1. PICK k \in DOMAIN Saved[callee] : Saved[callee][k] = r
      BY <2>3 DEF Range
    <3>2. /\ n + 1 \in i + 1 .. Len(frames') /\ k \in DOMAIN Saved[frames'[n + 1].fn]
          /\ Saved[frames'[n + 1].fn][k] = r /\ Unsaved(frames', i + 1, (n + 1) - 1, r)
      BY <1>2, <1>3, <2>2, <3>1
    <3>3. actsBar'[i].local[r] = mem'[frames'[n + 1].base - 1 + k]
      BY <1>1, <1>4, <3>2 DEF InFrames
    <3> QED
      BY <1>2, <2>1, <3>1, <3>3
  <2>4. CASE r \notin Range(Saved[callee])
    <3>1. Unsaved(frames', i + 1, Len(frames'), r)
      BY <1>2, <1>3, <2>2, <2>4 DEF Unsaved
    <3>2. actsBar'[i].local[r] = score'[r]
      BY <1>1, <1>4, <3>1 DEF InHolders
    <3>3. r \notin Range(Args[callee])
      <4>1. Args[callee] \in Seq(Locals(callee))
        BY <1>2, ConstantFacts
      <4>2. Range(Args[callee]) \subseteq Locals(callee)
        BY <4>1 DEF Range
      <4> QED
        BY <2>4, <4>2 DEF Locals
    <3>4. score'[r] = score[r]
      <4>1. score' = Received(callee) /\ TypeOK
        BY DEF Enter, FrameInv
      <4>2. r \in Holder \cup ParamHolders
        BY <1>3, ConstantFacts
      <4> QED
        BY <1>2, <3>3, <4>1, <4>2, ReceivedWords
    <3> QED
      BY <2>1, <3>2, <3>4
  <2> QED
    BY <2>3, <2>4
<1>7. CASE ~ Unsaved(frames, i + 1, n, r)
  <2>1. PICK j \in i + 1 .. n : \E k \in DOMAIN Saved[frames[j].fn] :
          Saved[frames[j].fn][k] = r /\ Unsaved(frames, i + 1, j - 1, r)
    BY <1>7, Home
  <2>2. PICK k \in DOMAIN Saved[frames[j].fn] :
          Saved[frames[j].fn][k] = r /\ Unsaved(frames, i + 1, j - 1, r)
    BY <2>1
  <2>3. j \in DOMAIN frames /\ j - 1 \in 0 .. n /\ j \in i + 1 .. Len(frames')
    BY <1>2, <1>3
  <2>4. actsBar[i].local[r] = mem[frames[j].base - 1 + k]
    BY <1>1, <2>2 DEF InFrames
  <2>5. /\ k \in DOMAIN Saved[frames'[j].fn] /\ Saved[frames'[j].fn][k] = r
        /\ Unsaved(frames', i + 1, j - 1, r)
    BY <1>2, <1>5, <2>2, <2>3
  <2>6. actsBar'[i].local[r] = mem'[frames'[j].base - 1 + k]
    BY <1>1, <1>4, <2>3, <2>5 DEF InFrames
  <2>7. mem'[frames[j].base - 1 + k] = mem[frames[j].base - 1 + k]
    BY <1>2, <1>3, <2>3, SavedWord
  <2> QED
    BY <1>2, <2>3, <2>4, <2>6, <2>7
<1> QED
  BY <1>6, <1>7

(* Returning restores them.                                                *)
LEMMA ReturnKeeps ==
  ASSUME FrameInv, FrameInv', Return, NEW i \in DOMAIN frames', i \in DOMAIN frames,
         NEW r \in Locals(frames[i].fn)
  PROVE  actsBar'[i].local[r] = actsBar[i].local[r]
<1> DEFINE n == Len(frames)
<1>1. InHolders /\ InFrames /\ InHolders' /\ InFrames'
  <2>1. FrameInv' => ActsMean'
    BY ActsMeaning, PTL
  <2> QED
    BY <2>1, ActsMeaning DEF ActsMean
<1>2. /\ Len(frames') = n - 1 /\ DOMAIN frames' = 1 .. n - 1
      /\ \A j \in DOMAIN frames' : frames'[j] = frames[j]
  BY ReturnFinds
<1>3. /\ phase = "run" /\ mem' = mem /\ score' = Restored(Running.fn)
  BY DEF Return
<1>4. n \in Nat /\ DOMAIN frames = 1 .. n /\ i \in Nat /\ 1 <= i /\ i <= n - 1
      /\ frames[i].fn \in Fn /\ Running = frames[n]
  BY <1>2, FrameFacts DEF Running
<1>5. r \in Locals(frames'[i].fn) /\ r \in Holder \cup ParamHolders
  BY <1>2, <1>4, ConstantFacts
<1>6. \A m \in 0 .. n - 1 :
        Unsaved(frames', i + 1, m, r) <=> Unsaved(frames, i + 1, m, r)
  <2>1. \A m \in 0 .. n - 1, j \in Int : i + 1 <= j /\ j <= m => j \in 1 .. n - 1
    BY <1>4
  <2>2. \A m \in 0 .. n - 1 : \A j \in i + 1 .. m : frames'[j] = frames[j]
    BY <1>2, <2>1
  <2> QED
    BY <2>2 DEF Unsaved
<1>7. /\ \A k \in DOMAIN Saved[Running.fn] :
           score'[Saved[Running.fn][k]] = mem[Running.base - 1 + k]
      /\ r \notin Range(Saved[Running.fn]) => score'[r] = score[r]
  BY <1>3, <1>5, RestoredWords
<1>8. Unsaved(frames, i + 1, n - 1, r) => actsBar'[i].local[r] = score'[r]
  <2>1. Unsaved(frames, i + 1, n - 1, r) => Unsaved(frames', i + 1, Len(frames'), r)
    BY <1>2, <1>4, <1>6
  <2> QED
    BY <1>1, <1>5, <2>1 DEF InHolders
<1>9. CASE Unsaved(frames, i + 1, n, r)
  <2>1. actsBar[i].local[r] = score[r]
    BY <1>1, <1>9 DEF InHolders
  <2>2. Unsaved(frames, i + 1, n - 1, r) /\ r \notin Range(Saved[Running.fn])
    BY <1>4, <1>9 DEF Unsaved
  <2> QED
    BY <1>7, <1>8, <2>1, <2>2
<1>10. CASE ~ Unsaved(frames, i + 1, n, r)
  <2>1. PICK j \in i + 1 .. n : \E k \in DOMAIN Saved[frames[j].fn] :
          Saved[frames[j].fn][k] = r /\ Unsaved(frames, i + 1, j - 1, r)
    BY <1>10, Home
  <2>2. PICK k \in DOMAIN Saved[frames[j].fn] :
          Saved[frames[j].fn][k] = r /\ Unsaved(frames, i + 1, j - 1, r)
    BY <2>1
  <2>3. actsBar[i].local[r] = mem[frames[j].base - 1 + k]
    BY <1>1, <2>2 DEF InFrames
  <2>4. CASE j = n
    BY <1>4, <1>7, <1>8, <2>2, <2>3, <2>4
  <2>5. CASE j # n
    <3>1. j \in DOMAIN frames' /\ j - 1 \in 0 .. n - 1 /\ j \in i + 1 .. Len(frames')
      BY <1>2, <1>4, <2>5
    <3>2. /\ k \in DOMAIN Saved[frames'[j].fn] /\ Saved[frames'[j].fn][k] = r
          /\ Unsaved(frames', i + 1, j - 1, r)
      BY <1>2, <1>6, <2>2, <3>1
    <3>3. actsBar'[i].local[r] = mem'[frames'[j].base - 1 + k]
      BY <1>1, <1>5, <3>1, <3>2 DEF InFrames
    <3> QED
      BY <1>2, <1>3, <2>3, <3>1, <3>3
  <2> QED
    BY <2>4, <2>5
<1> QED
  BY <1>9, <1>10

LEMMA Predecessors ==
  ASSUME NEW n \in Nat, n >= 1
  PROVE  /\ \A i \in 1 .. n : i \in 1 .. n - 1 \/ i = n
         /\ \A i \in 1 .. n - 1 : i \in 1 .. n /\ i < n /\ i + 1 \in 1 .. n
         /\ \A i \in 1 .. n - 1 : ~ (i < n - 1) => i + 1 = n /\ n # 1
OBVIOUS

(* An activation is its function, its locals, its memory and who waits.    *)
LEMMA SameActivation ==
  ASSUME FrameInv, FrameInv', NEW i \in DOMAIN frames, i \in DOMAIN frames',
         frames'[i] = frames[i],
         \A r \in Locals(frames[i].fn) : actsBar'[i].local[r] = actsBar[i].local[r],
         actsBar'[i].site = actsBar[i].site
  PROVE  actsBar'[i] = actsBar[i]
<1>1. ActsShape /\ ActsShape'
  <2>1. FrameInv' => ActsMean'
    BY ActsMeaning, PTL
  <2> QED
    BY <2>1, ActsMeaning DEF ActsMean
<1>2. actsBar[i] = [fn |-> frames[i].fn, local |-> actsBar[i].local,
                    own |-> frames[i].own, site |-> actsBar[i].site]
  BY <1>1 DEF ActsShape
<1>3. actsBar'[i] = [fn |-> frames[i].fn, local |-> actsBar'[i].local,
                     own |-> frames[i].own, site |-> actsBar'[i].site]
  BY <1>1 DEF ActsShape
<1>4. actsBar[i].local = [r \in Locals(frames[i].fn) |-> actsBar[i].local[r]]
  BY <1>1 DEF ActsShape
<1>5. actsBar'[i].local = [r \in Locals(frames[i].fn) |-> actsBar'[i].local[r]]
  BY <1>1 DEF ActsShape
<1>6. actsBar'[i].local = actsBar[i].local
  BY <1>4, <1>5
<1> QED
  BY <1>2, <1>3, <1>6

LEMMA EnterMaps ==
  ASSUME FrameInv, FrameInv', Enter
  PROVE  A!Enter
<1> DEFINE n == Len(frames)
<1>1. /\ phase = "enter" /\ phase' = "run" /\ callee' = callee
      /\ score' = Received(callee)
  BY DEF Enter
<1>2. /\ callee \in Fn /\ stackptr \in 0 .. StackWords /\ stackptr > 0
      /\ \A a \in 0 .. StackWords - 1 : a < stackptr => mem'[a] = mem[a]
      /\ Len(frames') = n + 1 /\ DOMAIN frames' = 1 .. n + 1
      /\ \A j \in DOMAIN frames : frames'[j] = frames[j]
      /\ frames'[n + 1].fn = callee /\ frames'[n + 1].base = stackptr
      /\ frames'[n + 1].own = {}
  BY EnterFinds
<1>3. frames \in Seq(FrameRecord) /\ n \in Nat /\ DOMAIN frames = 1 .. n
  BY DEF FrameInv, Stacked
<1>4. /\ ActsShape /\ InHolders /\ Sites
      /\ ActsShape' /\ InHolders' /\ Sites'
  <2>1. FrameInv' => ActsMean'
    BY ActsMeaning, PTL
  <2> QED
    BY <2>1, ActsMeaning DEF ActsMean
<1>5. /\ Len(actsBar) = n /\ DOMAIN actsBar = 1 .. n
      /\ actsBar = [i \in 1 .. n |-> actsBar[i]]
      /\ Len(actsBar') = n + 1 /\ DOMAIN actsBar' = 1 .. n + 1
      /\ actsBar' = [i \in 1 .. n + 1 |-> actsBar'[i]]
  BY <1>2, <1>3, <1>4 DEF ActsShape
<1>6. ASSUME NEW i \in DOMAIN frames
      PROVE  actsBar'[i] = actsBar[i]
  <2>1. i \in DOMAIN frames' /\ frames'[i] = frames[i] /\ i \in Nat /\ i <= n
    BY <1>2, <1>3
  <2>2. \A r \in Locals(frames[i].fn) : actsBar'[i].local[r] = actsBar[i].local[r]
    BY EnterKeeps
  <2>3. actsBar'[i].site = actsBar[i].site
    <3>1. CASE i < n
      <4>1. i + 1 \in DOMAIN frames /\ i < Len(frames')
        BY <1>2, <1>3, <2>1, <3>1
      <4>2. actsBar[i].site = mem[frames[i + 1].base - 1]
        BY <1>4, <3>1 DEF Sites
      <4>3. actsBar'[i].site = mem'[frames'[i + 1].base - 1]
        BY <1>4, <2>1, <4>1 DEF Sites
      <4>4. frames[i + 1].base - 1 \in 0 .. StackWords - 1 /\ frames[i + 1].base - 1 < stackptr
        <5>1. /\ frames[i + 1].base \in Int /\ frames[i + 1].base <= Link(i + 1)
              /\ Link(i + 1) \in Int /\ Reach <= stackptr /\ Reach \in Int /\ stackptr \in Int
          BY <4>1, FrameFacts
        <5>2. frames[i + 1].base - 1 \in Int /\ frames[i + 1].base - 1 <= Link(i + 1)
              /\ frames[i + 1].base - 1 <= frames[i + 1].base - 1
          BY <5>1
        <5>3. frames[i + 1].base - 1 \in 0 .. StackWords - 1 /\ frames[i + 1].base - 1 < Reach
          BY <4>1, <5>2, ControlWords
        <5> QED
          BY <5>1, <5>3
      <4> QED
        BY <1>2, <4>1, <4>2, <4>3, <4>4
    <3>2. CASE ~ (i < n)
      <4>1. i = n /\ n < Len(frames')
        BY <1>2, <1>3, <2>1, <3>2
      <4>2. actsBar[i].site = mem[stackptr - 1]
        BY <1>1, <1>4, <3>2 DEF Sites
      <4>3. actsBar'[i].site = mem'[frames'[n + 1].base - 1]
        BY <1>4, <2>1, <4>1 DEF Sites
      <4>4. stackptr - 1 \in 0 .. StackWords - 1 /\ stackptr - 1 < stackptr
        BY <1>2, ConstantFacts
      <4> QED
        BY <1>2, <4>2, <4>3, <4>4
    <3> QED
      BY <3>1, <3>2
  <2> QED
    BY <2>1, <2>2, <2>3, SameActivation
<1>7. actsBar' = Append(actsBar, actsBar'[n + 1])
  <2> DEFINE new == actsBar'[n + 1]
  <2>1. \A i \in 1 .. n + 1 : actsBar'[i] = IF i = n + 1 THEN new ELSE actsBar[i]
    BY <1>3, <1>6
  <2> HIDE DEF new
  <2>2. Append(actsBar, new) = [i \in 1 .. n + 1 |-> IF i = n + 1 THEN new ELSE actsBar[i]]
    BY <1>5
  <2> QED
    BY <1>5, <2>1, <2>2 DEF new
<1>8. n + 1 \in DOMAIN frames' /\ actsBar'[n + 1].fn = callee /\ actsBar'[n + 1].own = {}
  <2>1. n + 1 \in DOMAIN frames'
    BY <1>2, <1>3
  <2>2. actsBar'[n + 1].fn = frames'[n + 1].fn /\ actsBar'[n + 1].own = frames'[n + 1].own
    BY <1>4, <2>1 DEF ActsShape
  <2> QED
    BY <1>2, <2>1, <2>2
<1>9. ASSUME NEW i \in DOMAIN Args[callee]
      PROVE  actsBar'[n + 1].local[Args[callee][i]] = passedBar[i]
  <2>1. Args[callee][i] \in Locals(frames'[n + 1].fn)
    <3>1. Args[callee] \in Seq(Locals(callee))
      BY <1>2, ConstantFacts
    <3> QED
      BY <1>2, <3>1
  <2>2. Unsaved(frames', (n + 1) + 1, Len(frames'), Args[callee][i])
    BY <1>2, <1>3 DEF Unsaved
  <2>3. actsBar'[n + 1].local[Args[callee][i]] = score'[Args[callee][i]]
    BY <1>4, <1>8, <2>1, <2>2 DEF InHolders
  <2>4. score'[Args[callee][i]] = score[Param[i]]
    BY <1>1, <1>2, ReceivedWords DEF FrameInv
  <2> QED
    BY <1>1, <2>3, <2>4 DEF passedBar
<1>10. cellBar' = cellBar
  <2>1. Live' = Live
    <3>1. Live' = UNION {frames'[i].own : i \in DOMAIN frames'}
      BY DEF Live
    <3>2. \A i \in DOMAIN frames' : i \in DOMAIN frames \/ i = n + 1
      BY <1>2, <1>3
    <3>3. DOMAIN frames \subseteq DOMAIN frames'
      BY <1>2, <1>3
    <3> QED
      BY <1>2, <3>1, <3>2, <3>3 DEF Live
  <2>2. \A a \in Live : a < stackptr /\ a \in 0 .. StackWords - 1
    <3>1. \A i \in DOMAIN frames : \A a \in frames[i].own :
            a < Reach /\ a \in 0 .. StackWords - 1 /\ Reach <= stackptr
            /\ Reach \in Int /\ stackptr \in Int
      BY FrameFacts DEF FrameInv, Stacked
    <3> QED
      BY <3>1 DEF Live
  <2>3. \A a \in Live : mem'[a] = mem[a]
    BY <1>2, <2>2
  <2> QED
    BY <2>1, <2>3 DEF cellBar
<1>11. passedBar' = <<>> /\ resultBar' = resultBar
  BY <1>1 DEF passedBar, resultBar
<1> QED
  BY <1>1, <1>5, <1>7, <1>8, <1>9, <1>10, <1>11 DEF A!Enter

LEMMA ReturnMaps ==
  ASSUME FrameInv, FrameInv', Return
  PROVE  A!Return
<1> DEFINE n == Len(frames)
<1>1. /\ phase = "run" /\ callee' = callee /\ mem' = mem
  BY DEF Return
<1>2. PICK r \in Locals(Running.fn) : return0' = score[r]
  BY DEF Return
<1>3. /\ n \in DOMAIN frames /\ Running = frames[n] /\ frames # <<>> /\ Running.fn \in Fn
      /\ n \in Nat /\ DOMAIN frames = 1 .. n /\ n >= 1
  BY <1>1, RunningFrame, FrameFacts
<1>4. /\ site' = mem[Running.base - 1]
      /\ phase' = IF n = 1 THEN "halted" ELSE "resume"
      /\ Len(frames') = n - 1 /\ DOMAIN frames' = 1 .. n - 1
      /\ \A i \in DOMAIN frames' : frames'[i] = frames[i]
  BY ReturnFinds
<1>5. ActsShape /\ InHolders /\ Sites /\ ActsShape' /\ Sites'
  <2>1. FrameInv' => ActsMean'
    BY ActsMeaning, PTL
  <2> QED
    BY <2>1, ActsMeaning DEF ActsMean
<1>6. /\ Len(actsBar) = n /\ DOMAIN actsBar = 1 .. n
      /\ actsBar = [i \in 1 .. n |-> actsBar[i]]
      /\ DOMAIN actsBar' = 1 .. n - 1
      /\ actsBar' = [i \in 1 .. n - 1 |-> actsBar'[i]]
  BY <1>3, <1>4, <1>5 DEF ActsShape
<1>7. ASSUME NEW i \in 1 .. n - 1
      PROVE  actsBar'[i] = actsBar[i]
  <2>1. i \in DOMAIN frames' /\ i \in DOMAIN frames /\ frames'[i] = frames[i]
        /\ i < n /\ i + 1 \in DOMAIN frames
    BY <1>3, <1>4
  <2>2. \A x \in Locals(frames[i].fn) : actsBar'[i].local[x] = actsBar[i].local[x]
    BY <2>1, ReturnKeeps
  <2>3. actsBar[i].site = mem[frames[i + 1].base - 1]
    BY <1>5, <2>1 DEF Sites
  <2>4. actsBar'[i].site = actsBar[i].site
    <3>1. CASE i < n - 1
      <4>1. i < Len(frames') /\ frames'[i + 1] = frames[i + 1]
        BY <1>3, <1>4, <3>1
      <4>2. actsBar'[i].site = mem'[frames'[i + 1].base - 1]
        BY <1>5, <2>1, <4>1 DEF Sites
      <4> QED
        BY <1>1, <2>3, <4>1, <4>2
    <3>2. CASE ~ (i < n - 1)
      <4>1. ~ (i < Len(frames')) /\ i + 1 = n /\ n # 1
        BY <1>3, <1>4, <3>2, Predecessors
      <4>2. actsBar'[i].site = site'
        BY <1>4, <1>5, <2>1, <4>1 DEF Sites
      <4> QED
        BY <1>3, <1>4, <2>3, <4>1, <4>2
    <3> QED
      BY <3>1, <3>2
  <2> QED
    BY <2>1, <2>2, <2>4, SameActivation
<1>8. /\ A!Below = [i \in 1 .. n - 1 |-> actsBar[i]]
      /\ A!Below = <<>> <=> n = 1
  <2> DEFINE S == {actsBar[i] : i \in 1 .. n}
  <2>1. \A i \in 1 .. n : actsBar[i] \in S
    OBVIOUS
  <2> HIDE DEF S
  <2>2. actsBar \in Seq(S)
    BY <1>3, <1>6, <2>1, ListIsSeq
  <2>3. A!Below = SubSeq(actsBar, 1, n - 1)
    BY <1>6 DEF A!Below
  <2>4. n - 1 \in Int /\ \A i \in 1 .. n - 1 : actsBar[i] \in S
    BY <1>3, <2>1
  <2>5. /\ A!Below \in Seq(S)
        /\ Len(A!Below) = IF 1 <= n - 1 THEN (n - 1) - 1 + 1 ELSE 0
        /\ \A i \in 1 .. (n - 1) - 1 + 1 : A!Below[i] = actsBar[1 + i - 1]
    BY <2>3, <2>4, SubSeqProperties
  <2>6. Len(A!Below) = n - 1 /\ \A i \in 1 .. n - 1 : A!Below[i] = actsBar[i]
    <3>1. /\ (n - 1) - 1 + 1 = n - 1 /\ (~ (1 <= n - 1) => n - 1 = 0)
          /\ \A i \in 1 .. n - 1 : 1 + i - 1 = i
      BY <1>3
    <3> QED
      BY <2>5, <3>1
  <2>7. DOMAIN A!Below = 1 .. n - 1 /\ A!Below = [i \in DOMAIN A!Below |-> A!Below[i]]
    BY <2>5, <2>6
  <2>8. A!Below = <<>> <=> Len(A!Below) = 0
    BY <2>5, EmptySeq
  <2> QED
    BY <1>3, <2>6, <2>7, <2>8
<1>9. actsBar' = A!Below
  BY <1>6, <1>7, <1>8
<1>10. A!Top.fn = Running.fn /\ A!Top.own = Running.own /\ A!Top.local[r] = score[r]
  <2>1. A!Top = actsBar[n]
    BY <1>6 DEF A!Top
  <2>2. actsBar[n].fn = Running.fn /\ actsBar[n].own = Running.own
    BY <1>3, <1>5 DEF ActsShape
  <2>3. Unsaved(frames, n + 1, n, r)
    BY <1>3 DEF Unsaved
  <2>4. actsBar[n].local[r] = score[r]
    BY <1>3, <1>5, <2>3 DEF InHolders
  <2> QED
    BY <2>1, <2>2, <2>4
<1>11. resultBar' = A!Top.local[r] /\ r \in A!Locals(A!Top.fn)
  BY <1>2, <1>3, <1>4, <1>10, SameConstants DEF resultBar
<1>12. Live' = Live \ Running.own
  <2>1. Live' = UNION {frames[i].own : i \in 1 .. n - 1}
    BY <1>4 DEF Live
  <2>2. Live = UNION {frames[i].own : i \in 1 .. n}
    BY <1>3 DEF Live
  <2>3. ASSUME NEW i \in 1 .. n - 1, NEW a \in frames[i].own
        PROVE  a \notin frames[n].own
    <3>1. i \in DOMAIN frames /\ i < n
      BY <1>3
    <3>2. a < frames[n].base - 1
      BY <1>3, <3>1 DEF FrameInv, Stacked
    <3>5. a \in Int
      BY <3>1, FrameFacts
    <3>3. a \in frames[n].own => Link(n) < a
      BY <1>3 DEF FrameInv, Stacked
    <3>4. frames[n].base <= Link(n) /\ frames[n].base \in Int /\ Link(n) \in Int
      BY <1>3, FrameFacts
    <3> QED
      BY <3>2, <3>3, <3>4, <3>5
  <2>4. \A i \in 1 .. n : i \in 1 .. n - 1 \/ i = n
    BY <1>3, Predecessors
  <2>5. \A i \in 1 .. n - 1 : i \in 1 .. n
    BY <1>3, Predecessors
  <2> QED
    BY <1>3, <2>1, <2>2, <2>3, <2>4, <2>5
<1>13. cellBar' = [a \in A!Owned \ A!Top.own |-> cellBar[a]]
  BY <1>1, <1>10, <1>12, OwnedIsLive DEF cellBar
<1>14. IF A!Below = <<>> THEN phase' = "halted" ELSE phase' = "resume"
  BY <1>4, <1>8
<1>15. passedBar' = passedBar
  BY <1>1, <1>4 DEF passedBar
<1> QED
  BY <1>1, <1>9, <1>11, <1>13, <1>14, <1>15 DEF A!Return

LEMMA InitMaps == Init => A!Init
<1> SUFFICES ASSUME Init PROVE A!Init
  OBVIOUS
<1>1. FrameInv /\ frames = <<>> /\ phase = "enter" /\ callee = Main
  BY InitInv DEF Init
<1>2. actsBar = <<>> /\ cellBar = <<>>
  <2>1. actsBar \in [1 .. 0 -> {}] /\ cellBar \in [1 .. 0 -> {}]
    BY <1>1 DEF actsBar, cellBar, Live
  <2>2. /\ actsBar \in Seq({}) /\ Len(actsBar) = 0
        /\ cellBar \in Seq({}) /\ Len(cellBar) = 0
    BY <2>1, ListIsSeq
  <2> QED
    BY <2>2, EmptySeq
<1>3. Len(passedBar) = Len(Args[Main])
  <2>1. Args[Main] \in Seq(Locals(Main))
    BY RoutinesAssumption
  <2>2. DOMAIN Args[Main] = 1 .. Len(Args[Main]) /\ Len(Args[Main]) \in Nat
    BY <2>1
  <2> DEFINE S == {passedBar[i] : i \in 1 .. Len(Args[Main])}
  <2>3. passedBar = [i \in 1 .. Len(Args[Main]) |-> passedBar[i]]
    BY <1>1, <2>2 DEF passedBar
  <2>4. \A i \in 1 .. Len(Args[Main]) : passedBar[i] \in S
    OBVIOUS
  <2> HIDE DEF S
  <2>5. passedBar \in [1 .. Len(Args[Main]) -> S]
    BY <2>3, <2>4
  <2> QED
    BY <2>2, <2>5, ListIsSeq
<1>4. resultBar = 0
  BY <1>1 DEF resultBar
<1> QED
  BY <1>1, <1>2, <1>3, <1>4 DEF A!Init

LEMMA NextMaps == FrameInv /\ FrameInv' /\ [Next]_vars => [A!Next]_A!actVars
<1> SUFFICES ASSUME FrameInv, FrameInv', [Next]_vars
             PROVE  A!Next \/ UNCHANGED A!actVars
  OBVIOUS
<1>1. CASE Enter
  BY <1>1, EnterMaps DEF A!Next
<1>2. CASE Compute
  BY <1>2, ComputeMaps DEF A!Next
<1>3. CASE Intrinsic
  BY <1>3, IntrinsicMaps
<1>4. CASE Alloca
  BY <1>4, AllocaMaps DEF A!Next
<1>5. CASE StoreOp
  BY <1>5, StoreMaps DEF A!Next
<1>6. CASE LoadOp
  BY <1>6, LoadMaps DEF A!Next
<1>7. CASE CallOp
  BY <1>7, CallMaps DEF A!Next
<1>8. CASE Return
  BY <1>8, ReturnMaps DEF A!Next
<1>9. CASE Resume
  BY <1>9, ResumeMaps DEF A!Next
<1>10. CASE UNCHANGED vars
  <2>1. UNCHANGED <<score, return0, mem, stackptr, phase, callee, site, frames>>
    BY <1>10 DEF vars
  <2>2. Live' = Live /\ \A i : Waiting(i)' = Waiting(i)
    BY <2>1 DEF Live, Waiting
  <2>3. \A i, r : Kept(i, r)' = Kept(i, r)
    BY <2>1 DEF Kept, Savers
  <2>4. actsBar' = actsBar /\ cellBar' = cellBar
    BY <2>1, <2>2, <2>3 DEF actsBar, cellBar
  <2>5. passedBar' = passedBar /\ resultBar' = resultBar
    BY <2>1 DEF passedBar, resultBar
  <2> QED
    BY <2>1, <2>4, <2>5 DEF A!actVars
<1> QED
  BY <1>1, <1>2, <1>3, <1>4, <1>5, <1>6, <1>7, <1>8, <1>9, <1>10 DEF Next

(* Whatever functions share holders, however deep they call each other and *)
(* whatever they store, every activation finds its own locals, memory,     *)
(* arguments and results: the convention implements separate activations.  *)
THEOREM FramesRefineActivations == Spec => ImplementsActivations
<1>1. Init => A!Init
  BY InitMaps
<1>2. FrameInv /\ FrameInv' /\ [Next]_vars => [A!Next]_A!actVars
  BY NextMaps
<1> QED
  BY <1>1, <1>2, FramesInvariant, PTL DEF Spec, ImplementsActivations, A!Spec
=============================================================================
