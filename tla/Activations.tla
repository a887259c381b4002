----------------------------- MODULE Activations -----------------------------
(***************************************************************************)
(* What the calling convention promises: every activation of a function    *)
(* has locals of its own, which no other activation changes, arguments     *)
(* arrive as they were passed, results return to the block after the call, *)
(* and memory allocated by an activation belongs to it until it returns.   *)
(***************************************************************************)
EXTENDS Routines

VARIABLES
  acts,    \* the activations: function, locals, addresses allocated and,
           \* below the running one, the block that waits for the result
  cell,    \* the words at those addresses
  phase,   \* "enter", "run", "resume" or "halted"
  callee,  \* the function to enter, or the block to resume
  passed,  \* the arguments on their way
  result   \* the result on its way

actVars == <<acts, cell, phase, callee, passed, result>>

Top == acts[Len(acts)]
Below == SubSeq(acts, 1, Len(acts) - 1)
Owned == UNION {acts[i].own : i \in DOMAIN acts}

Init ==
  /\ acts = <<>> /\ cell = <<>>
  /\ phase = "enter" /\ callee = Main
  /\ Len(passed) = Len(Args[Main])
  /\ result = 0

(* Locals other than the arguments start with any value.                   *)
Enter ==
  /\ phase = "enter" /\ phase' = "run"
  /\ Len(acts') = Len(acts) + 1
  /\ acts' = Append(acts, acts'[Len(acts) + 1])
  /\ LET new == acts'[Len(acts) + 1] IN
       /\ new.fn = callee /\ new.own = {}
       /\ \A i \in DOMAIN Args[callee] : new.local[Args[callee][i]] = passed[i]
  /\ passed' = <<>>
  /\ UNCHANGED <<cell, callee, result>>

SetLocal ==
  /\ phase = "run"
  /\ Len(acts') = Len(acts)
  /\ LET new == acts'[Len(acts)].local IN
       \E r \in Locals(Top.fn) :
         acts' = [acts EXCEPT ![Len(acts)].local[r] = new[r]]
  /\ UNCHANGED <<cell, phase, callee, passed, result>>

(* New memory starts at the address put in a local and with any contents.  *)
Allocate ==
  /\ phase = "run"
  /\ Len(acts') = Len(acts)
  /\ LET area == acts'[Len(acts)].own \ Top.own IN
       /\ area # {} /\ area \cap Owned = {}
       /\ \E r \in Locals(Top.fn) :
            acts' = [acts EXCEPT ![Len(acts)].local[r] = Min(area),
                                 ![Len(acts)].own = @ \cup area]
       /\ DOMAIN cell' = DOMAIN cell \cup area
       /\ \A b \in DOMAIN cell : cell'[b] = cell[b]
  /\ UNCHANGED <<phase, callee, passed, result>>

Store ==
  /\ phase = "run"
  /\ \E p, r \in Locals(Top.fn) :
       /\ Top.local[p] \in Owned
       /\ cell' = [cell EXCEPT ![Top.local[p]] = Top.local[r]]
  /\ UNCHANGED <<acts, phase, callee, passed, result>>

Load ==
  /\ phase = "run"
  /\ \E p, r \in Locals(Top.fn) :
       /\ Top.local[p] \in Owned
       /\ acts' = [acts EXCEPT ![Len(acts)].local[r] = cell[Top.local[p]]]
  /\ UNCHANGED <<cell, phase, callee, passed, result>>

Call ==
  /\ phase = "run" /\ phase' = "enter"
  /\ \E g \in Fn, s \in Site :
       /\ Caller[s] = Top.fn
       /\ callee' = g
       /\ \E from \in [DOMAIN Args[g] -> Locals(Top.fn)] :
            passed' = [i \in DOMAIN Args[g] |-> Top.local[from[i]]]
       /\ acts' = [acts EXCEPT ![Len(acts)].site = s]
  /\ UNCHANGED <<cell, result>>

Return ==
  /\ phase = "run"
  /\ \E r \in Locals(Top.fn) : result' = Top.local[r]
  /\ acts' = Below
  /\ cell' = [a \in Owned \ Top.own |-> cell[a]]
  /\ IF Below = <<>> THEN phase' = "halted" ELSE phase' = "resume"
  /\ UNCHANGED <<callee, passed>>

Resume ==
  /\ phase = "resume" /\ phase' = "run"
  /\ acts' = [acts EXCEPT ![Len(acts)].local[Dest[Top.site]] = result,
                          ![Len(acts)].site = MainReturn]
  /\ result' = 0
  /\ UNCHANGED <<cell, callee, passed>>

Next == Enter \/ SetLocal \/ Allocate \/ Store \/ Load \/ Call \/ Return \/ Resume

Spec == Init /\ [][Next]_actVars
=============================================================================
