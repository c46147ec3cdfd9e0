---------------------------- MODULE MCWriteWorker ----------------------------
(***************************************************************************)
(* Instruction streams for checking WriteWorker with TLC.  k1 and k2 are   *)
(* model values; k2 is the key synchronous host transactions write, so a  *)
(* condition on k2 depends on whether the host's write came first.         *)
(***************************************************************************)
EXTENDS WriteWorker

CONSTANTS k1, k2

I(op, key, ifNoExists, strict, compressible) ==
  [op |-> op, key |-> key, ifNoExists |-> ifNoExists, strict |-> strict,
   compressible |-> compressible]

\* put(k1, big value); ifNoExists(k2, () => put(k2)).
ProgCore ==
  << I("PUT", k1, FALSE, FALSE, TRUE),
     I("START_CONDITION_BLOCK", k2, TRUE, FALSE, FALSE),
     I("PUT", k2, FALSE, FALSE, FALSE),
     I("BLOCK_END", k1, FALSE, FALSE, FALSE) >>

\* put(k1, big value); a strict-order user callback; remove(k2).
ProgLive ==
  << I("PUT", k1, FALSE, FALSE, TRUE),
     I("USER_CALLBACK", k1, FALSE, TRUE, FALSE),
     I("DEL", k2, FALSE, FALSE, FALSE) >>

\* put(k1, big value); a strict-order user callback; then a condition
\* block on k2 that removes k2: a worker that reaches the block's end before it is
\* published swaps the word to WAITING_OPERATION.
ProgWait ==
  << I("PUT", k1, FALSE, FALSE, TRUE),
     I("USER_CALLBACK", k1, FALSE, TRUE, FALSE),
     I("START_CONDITION_BLOCK", k2, TRUE, FALSE, FALSE),
     I("DEL", k2, FALSE, FALSE, FALSE),
     I("BLOCK_END", k1, FALSE, FALSE, FALSE) >>

MCKeys == {k1, k2}
=============================================================================
