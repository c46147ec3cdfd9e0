------------------------------- MODULE TxnStack -------------------------------
(***************************************************************************)
(* What the write-transaction tracker of lmdbx-js promises (spec sections  *)
(* 3 and 4.E): the frames of one environment form a stack, beginTxn pushes *)
(* one, commitTxn and abortTxn pop the one on top, and the environment's   *)
(* writingLock is held exactly while the stack is not empty.              *)
(***************************************************************************)
EXTENDS Naturals, Sequences

CONSTANT Frames   \* the frames a beginTxn may push

VARIABLES
  stack,   \* the open frames, the outermost first
  held     \* whether the environment's writing lock is held for them

Init == stack = <<>> /\ ~held

Push(f) ==
  /\ stack' = Append(stack, f)
  /\ held' = TRUE

Pop ==
  /\ stack # <<>>
  /\ stack' = SubSeq(stack, 1, Len(stack) - 1)
  /\ held' = (Len(stack) > 1)

Next == (\E f \in Frames : Push(f)) \/ Pop

Spec == Init /\ [][Next]_<<stack, held>>
=============================================================================
