------------------------------ MODULE TxnTracker ------------------------------
(***************************************************************************)
(* The write-transaction tracker of lmdbx-js (src/env.cpp beginTxn,        *)
(* commitTxn, abortTxn, with WriteWorker::AcquireTxn and UnlockTxn).       *)
(*                                                                         *)
(* ew->writeTxn points at the innermost TxnTracked frame and each frame    *)
(* at its parent.  A frame that beginTxn opens without a parent takes the  *)
(* environment's writingLock (itself, or inside AcquireTxn when a write    *)
(* worker exists); the pop that leaves writeTxn null releases it.  A frame *)
(* owns its MDBX transaction only when ABORTABLE is set; otherwise it      *)
(* borrows the transaction it was built on.                                *)
(*                                                                         *)
(* The JavaScript caller is one thread: it begins transactions with the    *)
(* flag sets of the constants and ends the innermost one it opened.        *)
(***************************************************************************)
EXTENDS Naturals, Sequences

CONSTANTS
  MaxFrames,    \* bound on the TxnTracked frames a run allocates
  TopFlags,     \* flag sets the caller passes to beginTxn with no frame open
  NestedFlags,  \* flag sets the caller passes to beginTxn inside a frame
  WriteMap      \* the env was opened with MDBX_WRITEMAP

Flag == {"ABORTABLE", "SYNCHRONOUS_COMMIT", "FROM_WORKER"}

ASSUME /\ MaxFrames \in Nat \ {0}
       /\ TopFlags \cup NestedFlags \subseteq SUBSET (Flag \ {"FROM_WORKER"})
       /\ WriteMap \in BOOLEAN

Null == 0
FrameIds == 1 .. MaxFrames

\* MDBX transactions: the one frame f opens has id f; WorkerTxn is the
\* batch transaction of the write worker, which the tracker never ends.
WorkerTxn == MaxFrames + 1
TxnIds == 1 .. WorkerTxn
TxnState == {"none", "active", "committed", "aborted"}

Frame == [live: BOOLEAN, flags: SUBSET Flag, txn: TxnIds \cup {Null},
          parent: FrameIds \cup {Null}]

VARIABLES
  writeTxn,   \* EnvWrap::writeTxn, a frame id or Null
  frame,      \* the TxnTracked frames, by id
  mdbx,       \* the state of each MDBX write transaction
  lock,       \* writingLock is held by the caller's thread
  open,       \* the frames the caller has begun and not ended, innermost last
  next,       \* the id the next TxnTracked gets
  crashed     \* the process died on a null writeTxn

vars == <<writeTxn, frame, mdbx, lock, open, next, crashed>>

\* The TxnTracked constructor is declared (lmdbx-js.h) but not defined in
\* the sources; the spec's frame {txn, flags, parent?} starts with no parent.
NewTracked(t, fl) == [live |-> TRUE, flags |-> fl, txn |-> t, parent |-> Null]

Init ==
  /\ writeTxn = Null
  /\ frame = [f \in FrameIds |-> [NewTracked(Null, {}) EXCEPT !.live = FALSE]]
  /\ mdbx = [t \in TxnIds |-> IF t = WorkerTxn THEN "active" ELSE "none"]
  /\ lock = FALSE
  /\ open = <<>>
  /\ next = 1
  /\ crashed = FALSE

\* WriteWorker::AcquireTxn: with the lock taken, the worker's current batch
\* transaction, or nullptr when it has none or after an interruption.
AcquireTxn(hasWorker) == IF hasWorker THEN {WorkerTxn, Null} ELSE {Null}

\* The transaction beginTxn builds on: the open frame's, or AcquireTxn's,
\* or none (after locking writingLock itself).
Sources(hasWorker) ==
  IF writeTxn # Null THEN {frame[writeTxn].txn} ELSE AcquireTxn(hasWorker)

\* Mutant: the child frame is not linked to the frame it nests in.
ChildFrameOrphan(t, fl) == NewTracked(t, fl)

\* An ABORTABLE frame over a transaction: a child MDBX transaction, whose
\* frame is linked to the open one.
ChildFrame(t, fl) == [NewTracked(t, fl) EXCEPT !.parent = writeTxn]

\* beginTxn of a write transaction with flags fl.
BeginTxn(fl, hasWorker, src) ==
  LET f     == next
      flags == IF writeTxn = Null /\ hasWorker THEN fl \cup {"FROM_WORKER"}
               ELSE fl
  IN  /\ ~crashed
      /\ f \in FrameIds
      /\ fl \in (IF writeTxn = Null THEN TopFlags ELSE NestedFlags)
      /\ writeTxn = Null => ~lock
      /\ src \in Sources(hasWorker)
      /\ lock' = TRUE
      /\ CASE src # Null /\ "ABORTABLE" \in flags /\ ~WriteMap ->
                /\ frame' = [frame EXCEPT ![f] = ChildFrame(f, flags)]
                /\ mdbx' = [mdbx EXCEPT ![f] = "active"]
           [] src # Null ->
                /\ frame' = [frame EXCEPT ![f] =
                               NewTracked(src, flags \ {"ABORTABLE"})]
                /\ UNCHANGED mdbx
           [] OTHER ->
                /\ frame' = [frame EXCEPT ![f] =
                               NewTracked(f, flags \cup {"ABORTABLE"})]
                /\ mdbx' = [mdbx EXCEPT ![f] = "active"]
      /\ writeTxn' = f
      /\ open' = Append(open, f)
      /\ next' = next + 1
      /\ UNCHANGED crashed

\* Mutant: the transaction is ended when the frame does NOT own it.
EndTxnInverted(cur, outcome) ==
  IF "ABORTABLE" \notin cur.flags THEN [mdbx EXCEPT ![cur.txn] = outcome]
  ELSE mdbx

\* mdbx_txn_commit / mdbx_txn_abort when the frame owns its transaction.
EndTxn(cur, outcome) ==
  IF "ABORTABLE" \in cur.flags THEN [mdbx EXCEPT ![cur.txn] = outcome]
  ELSE mdbx

\* writeTxn becomes the parent; when that is null, UnlockTxn or
\* pthread_mutex_unlock releases writingLock; the frame is deleted.
PopFrame ==
  LET cur == frame[writeTxn]
  IN  /\ writeTxn' = cur.parent
      /\ lock' = (cur.parent # Null)
      /\ frame' = [frame EXCEPT ![writeTxn].live = FALSE]

\* commitTxn or abortTxn with writeTxn null reads currentTxn->flags: the
\* process dies.
NoFrame ==
  /\ crashed' = TRUE
  /\ UNCHANGED <<writeTxn, frame, mdbx, lock, open, next>>

\* The caller ends the innermost transaction it opened.
CommitTxn ==
  /\ ~crashed
  /\ open # <<>>
  /\ IF writeTxn = Null
     THEN NoFrame
     ELSE /\ mdbx' = EndTxn(frame[writeTxn], "committed")
          /\ PopFrame
          /\ open' = SubSeq(open, 1, Len(open) - 1)
          /\ UNCHANGED <<next, crashed>>

\* A frame that does not own its transaction throws "Can not abort this
\* transaction" but is still popped.
AbortTxn ==
  /\ ~crashed
  /\ open # <<>>
  /\ IF writeTxn = Null
     THEN NoFrame
     ELSE /\ mdbx' = EndTxn(frame[writeTxn], "aborted")
          /\ PopFrame
          /\ open' = SubSeq(open, 1, Len(open) - 1)
          /\ UNCHANGED <<next, crashed>>

\* Every frame id has been used and every transaction ended.
Done ==
  /\ next > MaxFrames
  /\ open = <<>>
  /\ UNCHANGED vars

Next ==
  \/ \E fl \in TopFlags \cup NestedFlags, hasWorker \in BOOLEAN,
        src \in TxnIds \cup {Null} : BeginTxn(fl, hasWorker, src)
  \/ CommitTxn
  \/ AbortTxn
  \/ Done

Spec == Init /\ [][Next]_vars

-----------------------------------------------------------------------------

TypeOK ==
  /\ writeTxn \in FrameIds \cup {Null}
  /\ frame \in [FrameIds -> Frame]
  /\ mdbx \in [TxnIds -> TxnState]
  /\ lock \in BOOLEAN
  /\ open \in Seq(FrameIds)
  /\ next \in 1 .. MaxFrames + 1
  /\ crashed \in BOOLEAN

\* When writingLock is free, no write transaction the tracker began is
\* still active: the pop that releases the lock (commitTxn/abortTxn at
\* env.cpp:604) is the one that ends the outermost owned transaction, so
\* the worker or the next beginTxn never starts a write transaction beside
\* one that was left open.
NoActiveTxnWhenUnlocked ==
  ~lock => \A t \in FrameIds : mdbx[t] # "active"

\* The frames reachable from writeTxn through parent, the outermost first.
RECURSIVE ChainFrom(_)
ChainFrom(f) ==
  IF f = Null THEN <<>> ELSE Append(ChainFrom(frame[f].parent), f)

\* The tracker implements TxnStack: the chain from writeTxn is a stack that
\* beginTxn pushes onto and commitTxn/abortTxn pop, and writingLock is held
\* exactly while it is not empty.
Abstract == INSTANCE TxnStack WITH
              Frames <- FrameIds, stack <- ChainFrom(writeTxn), held <- lock

TxnStackRefined == Abstract!Spec
=============================================================================
