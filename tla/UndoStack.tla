------------------------------ MODULE UndoStack ------------------------------
(***************************************************************************)
(* What the full-delta undo ring promises, with no ring in it: the recent  *)
(* history of retired instructions as a stack.  An instruction is pushed   *)
(* whole when it retires, history is only ever forgotten from its oldest   *)
(* end, and undoing takes exactly the newest instruction off.              *)
(***************************************************************************)
EXTENDS Integers, SequencesExt

CONSTANT Instr            \* retired instructions: a pre-state and its writes

VARIABLE stack            \* oldest first

Init == stack = << >>

(* An instruction retires; capacity may cost any number of the oldest.     *)
Push(i) == stack' \in Suffixes(Append(stack, i))

(* Room is made for an instruction still executing.                        *)
Forget == stack' \in Suffixes(stack)

(* The newest instruction is undone.                                       *)
Undo == /\ stack # << >>
        /\ stack' = SubSeq(stack, 1, Len(stack) - 1)

Next == \/ Forget
        \/ Undo
        \/ \E i \in Instr : Push(i)

Spec == Init /\ [][Next]_stack
==============================================================================
