------------------------------ MODULE WriteWorker ------------------------------
(***************************************************************************)
(* The batched write engine of lmdbx-js.                                   *)
(*                                                                         *)
(* A background WriteWorker (src/writer.cpp) drains a caller-owned stream  *)
(* of instruction slots inside one MDBX write transaction.  The host (the  *)
(* JavaScript thread) publishes instructions by OR-ing an opcode into a    *)
(* slot's flags word, begins synchronous transactions that borrow or       *)
(* interrupt the worker's transaction (EnvWrap::beginTxn/commitTxn/        *)
(* abortTxn, WriteWorker::AcquireTxn/UnlockTxn), and runs the progress and *)
(* completion callbacks.  Compression workers (src/compression.cpp)        *)
(* compress a value in place and hand it over through a three-state slot.  *)
(* All of them meet on one mutex (writingLock) and one condition variable  *)
(* (writingCond); MDBX's own single-writer lock is the variable writer.    *)
(*                                                                         *)
(* Data is abstracted: a key is a model value, the value an instruction    *)
(* writes is its slot number, the value the k-th synchronous host          *)
(* transaction writes is 100 + k.  A transaction is its view of the store. *)
(***************************************************************************)
EXTENDS Naturals, Sequences, FiniteSets

CONSTANTS
  Keys,             \* keys instructions and the host write
  HostKey,          \* the key each synchronous host transaction writes
  Prog,             \* the instruction stream: Prog[s] is published into slot s
  MaxBatches,       \* bound: write workers startWriting creates
  MaxSyncTxns,      \* bound: synchronous write transactions the host begins
  MaxResizes,       \* bound: env.resize() calls the host makes
  SpuriousWakeup,   \* pthread_cond_wait may return without a signal
  BeginCanFail,     \* the worker's mdbx_txn_begin may fail
  CommitCanFail,    \* the worker's mdbx_txn_commit may fail
  CompressCanFail,  \* LZ4 compression of a value may fail
  PutCanFail        \* mdbx_put may fail with a store error (MAP_FULL, ...)

Ops == {"PUT", "DEL", "START_BLOCK", "START_CONDITION_BLOCK", "BLOCK_END",
        "USER_CALLBACK"}
Instr == [op: Ops, key: Keys, ifNoExists: BOOLEAN, strict: BOOLEAN,
          compressible: BOOLEAN]

ASSUME /\ Prog \in Seq(Instr)
       /\ HostKey \in Keys
       /\ MaxBatches \in Nat \ {0}
       /\ MaxSyncTxns \in Nat
       /\ MaxResizes \in Nat
       /\ {SpuriousWakeup, BeginCanFail, CommitCanFail, CompressCanFail,
           PutCanFail} \subseteq BOOLEAN

N == Len(Prog)
Slots == 1 .. N + 1          \* slot N + 1 is never published: the stream's end
Batches == 1 .. MaxBatches
Absent == 0                  \* the value of a key that is not in the store
HostVal(k) == 100 + k
Vals == {Absent} \cup (1 .. N) \cup {HostVal(k) : k \in 1 .. MaxSyncTxns}

\* The opcode nibble: its bit 4 is HAS_KEY, its bit 8 is CONDITIONAL.
HasKey(op) == op \in {"PUT", "DEL", "START_CONDITION_BLOCK"}
IsConditional(op) == op \in {"PUT", "DEL", "USER_CALLBACK"}

Bits == {"FINISHED_OPERATION", "FAILED_CONDITION", "TXN_DELIMITER",
         "TXN_COMMITTED", "TXN_HAD_ERROR", "WAITING_OPERATION"}
Word == [op: Ops \cup {"NONE"}, bits: SUBSET Bits]

Host == <<"host", 0>>
Worker(b) == <<"worker", b>>
Compressor(s) == <<"compressor", s>>
NoThread == <<"none", 0>>

InterruptionStatus == {"NONE", "ALLOW_COMMIT", "INTERRUPT_BATCH",
                       "RESTART_WORKER_TXN", "USER_HAS_LOCK"}

VARIABLES
  mem,        \* [Slots -> Word]: the flags word of every instruction slot
  published,  \* slots the encoder has published so far
  field,      \* [Slots -> {"double","raw"}]: a compressible value's pointer field
  cstat,      \* [Slots -> {"PTR","2","1","0"}]: a compressible value's status slot
  comp,       \* [Slots -> pc]: the CompressionWorker queued for a slot
  lock,       \* owner of writingLock
  cv,         \* threads blocked in a wait on writingCond and not yet woken
  writer,     \* owner of MDBX's write lock (an open top-level write txn)
  db,         \* the committed store
  wk,         \* [Batches -> worker record]: the WriteWorker objects
  cur,        \* ew->writeWorker: the latest worker, 0 for nullptr
  nb,         \* workers created so far
  progress,   \* [Batches -> BOOLEAN]: a progress event is queued for the host
  host,       \* the host thread
  used        \* [Slots -> {"none","double","raw"}]: the pointer a PUT wrote from

vars == <<mem, published, field, cstat, comp, lock, cv, writer, db, wk, cur,
          nb, progress, host, used>>

EmptyView == [k \in Keys |-> Absent]

NewWorker(s) ==
  [pc |-> "lock", txn |-> "null", view |-> EmptyView, intr |-> "NONE",
   fin |-> TRUE, instructions |-> s, pos |-> s,
   flags |-> [op |-> "NONE", bits |-> {}], cdepth |-> 0, vdepth |-> 0,
   timed |-> FALSE, allow |-> FALSE, ret |-> "noinst", outcome |-> "none"]

\* pthread_cond_signal: wakes one waiter, if there is one.
Signalled(w) == IF w = {} THEN {w} ELSE {w \ {t} : t \in w}

\* Release writingLock and block on writingCond (pthread_cond_wait).
Wait(t) == /\ cv' = cv \cup {t}
           /\ lock' = NoThread

\* Signal writingCond, then block on it.
SignalAndWait(t) == /\ cv' \in {r \cup {t} : r \in Signalled(cv)}
                    /\ lock' = NoThread

\* The status bits stored over the word instead of OR-ed into it.
FinishOverwrite(m, s, f) == [m EXCEPT ![s].bits = f]

\* OR status bits into a slot's flags word.
Finish(m, s, f) == [m EXCEPT ![s].bits = @ \cup f]

Init ==
  /\ mem = [s \in Slots |-> [op |-> "NONE", bits |-> {}]]
  /\ published = 0
  /\ field = [s \in Slots |-> "double"]
  /\ cstat = [s \in Slots |->
                IF s <= N /\ Prog[s].compressible THEN "PTR" ELSE "0"]
  /\ comp = [s \in Slots |-> "idle"]
  /\ lock = NoThread
  /\ cv = {}
  /\ writer = NoThread
  /\ db = EmptyView
  /\ wk = [b \in Batches |-> [NewWorker(1) EXCEPT !.pc = "idle"]]
  /\ cur = 0
  /\ nb = 0
  /\ progress = [b \in Batches |-> FALSE]
  /\ host = [pc |-> "idle", sync |-> FALSE, abortable |-> FALSE, via |-> 0,
             got |-> "null", frame |-> "none", hview |-> EmptyView, n |-> 0,
             pb |-> 1, ended |-> "none", rs |-> 0]
  /\ used = [s \in Slots |-> "none"]

-----------------------------------------------------------------------------
(***************************************************************************)
(* The write worker: WriteWorker::Write and DoWrites.                      *)
(***************************************************************************)

\* Write(): finishedProgress = true, then lock writingLock.
WriteLock(b) ==
  /\ wk[b].pc = "lock"
  /\ lock = NoThread
  /\ lock' = Worker(b)
  /\ wk' = [wk EXCEPT ![b].fin = TRUE, ![b].pc = "begin"]
  /\ UNCHANGED <<mem, published, field, cstat, comp, cv, writer, db, cur, nb,
                 progress, host, used>>

\* mdbx_txn_begin of the batch transaction; on failure Write() returns
\* with SetErrorMessage and writingLock still held.
WriteBegin(b) ==
  /\ wk[b].pc = "begin"
  /\ writer = NoThread
  /\ \/ /\ writer' = Worker(b)
        /\ wk' = [wk EXCEPT ![b].txn = "live", ![b].view = db, ![b].pc = "exec"]
     \/ /\ BeginCanFail
        /\ wk' = [wk EXCEPT ![b].outcome = "error", ![b].pc = "done"]
        /\ UNCHANGED writer
  /\ UNCHANGED <<mem, published, field, cstat, comp, lock, cv, db, cur, nb,
                 progress, host, used>>

\* next_inst: flags = *start.
ReadFlags(b) ==
  /\ wk[b].pc = "exec"
  /\ wk' = [wk EXCEPT ![b].flags = mem[wk[b].pos], ![b].pc = "decode"]
  /\ UNCHANGED <<mem, published, field, cstat, comp, lock, cv, writer, db, cur,
                 nb, progress, host, used>>

WaitForInstruction(b) ==
  LET w == wk[b] IN
  /\ w.pc = "decode"
  /\ w.flags.op = "NONE"
  /\ ~w.fin \/ w.cdepth > 0
  /\ \/ /\ mem[w.pos] = w.flags
        /\ mem' = [mem EXCEPT ![w.pos] =
                     [op |-> "NONE", bits |-> {"WAITING_OPERATION"}]]
        /\ wk' = [wk EXCEPT ![b].pc = "fenter", ![b].timed = TRUE,
                            ![b].allow = (w.cdepth = 0), ![b].ret = "noinst"]
     \/ /\ mem[w.pos] # w.flags
        /\ wk' = [wk EXCEPT ![b].pc = "exec"]
        /\ UNCHANGED mem
  /\ UNCHANGED <<published, field, cstat, comp, lock, cv, writer, db, cur, nb,
                 progress, host, used>>

\* The same swap to a plain store: a word published in between is lost.
DelimitTxnBlind(b) ==
  LET w == wk[b] IN
  /\ w.pc = "decode"
  /\ w.flags.op = "NONE"
  /\ w.fin /\ w.cdepth = 0
  /\ mem' = [mem EXCEPT ![w.pos] = [op |-> "NONE", bits |-> {"TXN_DELIMITER"}]]
  /\ wk' = [wk EXCEPT ![b].instructions = w.pos, ![b].pc = "commit"]
  /\ UNCHANGED <<published, field, cstat, comp, lock, cv, writer, db, cur, nb,
                 progress, host, used>>

\* NO_INSTRUCTION_YET with nothing outstanding: compare-and-swap the word to
\* TXN_DELIMITER, remember it as worker->instructions and return 0.
DelimitTxn(b) ==
  LET w == wk[b] IN
  /\ w.pc = "decode"
  /\ w.flags.op = "NONE"
  /\ w.fin /\ w.cdepth = 0
  /\ \/ /\ mem[w.pos] = w.flags
        /\ mem' = [mem EXCEPT ![w.pos] =
                     [op |-> "NONE", bits |-> {"TXN_DELIMITER"}]]
        /\ wk' = [wk EXCEPT ![b].instructions = w.pos, ![b].pc = "commit"]
     \/ /\ mem[w.pos] # w.flags
        /\ wk' = [wk EXCEPT ![b].pc = "exec"]
        /\ UNCHANGED mem
  /\ UNCHANGED <<published, field, cstat, comp, lock, cv, writer, db, cur, nb,
                 progress, host, used>>

\* A compressible value whose pointer field still holds the encoder's double.
NeedsCompression(w) ==
  /\ w.flags.op = "PUT"
  /\ Prog[w.pos].compressible
  /\ field[w.pos] = "double"

\* The status slot taken as already compressed when a worker is compressing.
ClaimCompressionNoWait(b) ==
  LET w == wk[b]  s == w.pos IN
  /\ w.pc = "decode"
  /\ NeedsCompression(w)
  /\ cstat' = [cstat EXCEPT ![s] = "1"]
  /\ wk' = [wk EXCEPT ![b].pc = "op"]
  /\ UNCHANGED <<mem, published, field, comp, lock, cv, writer, db, cur, nb,
                 progress, host, used>>

\* Exchange the status slot to 1.  2: a compression worker is at it, wait on
\* writingCond.  A compressor pointer: compress it here (compressInstruction
\* with no env).  0: done.
ClaimCompression(b) ==
  LET w == wk[b]  s == w.pos IN
  /\ w.pc = "decode"
  /\ NeedsCompression(w)
  /\ \/ /\ cstat[s] = "2"
        /\ cstat' = [cstat EXCEPT ![s] = "1"]
        /\ Wait(Worker(b))
        /\ wk' = [wk EXCEPT ![b].pc = "cwait"]
        /\ UNCHANGED field
     \/ /\ cstat[s] = "PTR"
        /\ field' = [field EXCEPT ![s] = "raw"]
        /\ cstat' = [cstat EXCEPT ![s] = "0"]
        /\ wk' = [wk EXCEPT ![b].pc = "op"]
        /\ UNCHANGED <<lock, cv>>
     \/ /\ cstat[s] = "PTR"
        /\ CompressCanFail
        /\ cstat' = [cstat EXCEPT ![s] = "1"]
        /\ wk' = [wk EXCEPT ![b].pc = "op"]
        /\ UNCHANGED <<field, lock, cv>>
     \/ /\ cstat[s] \in {"0", "1"}
        /\ cstat' = [cstat EXCEPT ![s] = "1"]
        /\ wk' = [wk EXCEPT ![b].pc = "op"]
        /\ UNCHANGED <<field, lock, cv>>
  /\ UNCHANGED <<mem, published, comp, writer, db, cur, nb, progress, host, used>>

\* A single pthread_cond_wait instead of the loop.
CompressionWaitOnce(b) ==
  /\ wk[b].pc = "cwait"
  /\ Worker(b) \notin cv
  /\ lock = NoThread
  /\ lock' = Worker(b)
  /\ wk' = [wk EXCEPT ![b].pc = "op"]
  /\ UNCHANGED <<mem, published, field, cstat, comp, cv, writer, db, cur, nb,
                 progress, host, used>>

\* do { pthread_cond_wait } while (the pointer field is still a double).
CompressionWait(b) ==
  LET s == wk[b].pos IN
  /\ wk[b].pc = "cwait"
  /\ Worker(b) \notin cv
  /\ lock = NoThread
  /\ \/ /\ field[s] = "double"
        /\ cv' = cv \cup {Worker(b)}
        /\ UNCHANGED <<lock, wk>>
     \/ /\ field[s] = "raw"
        /\ lock' = Worker(b)
        /\ wk' = [wk EXCEPT ![b].pc = "op"]
        /\ UNCHANGED cv
  /\ UNCHANGED <<mem, published, field, cstat, comp, writer, db, cur, nb,
                 progress, host, used>>

\* The instruction of slot w.pos, its flags read, its value ready.
Executing(w) ==
  /\ w.flags.op # "NONE"
  /\ \/ w.pc = "op"
     \/ w.pc = "decode" /\ ~NeedsCompression(w)

\* validated = conditionDepth == validatedDepth.
DepthValidated(w) == w.cdepth = w.vdepth

\* The depth test, narrowed by IF_NO_EXISTS on a keyed instruction to
\* "mdbx_get returned NOTFOUND".
Validated(w) ==
  LET i == Prog[w.pos] IN
  /\ DepthValidated(w)
  /\ (HasKey(w.flags.op) /\ i.ifNoExists) =>
        w.txn # "broken" /\ w.view[i.key] = Absent

Next1(w) == [w EXCEPT !.pos = @ + 1, !.pc = "exec"]

\* A CONDITIONAL opcode (PUT, DEL, USER_CALLBACK) whose condition failed.
SkipConditional(b) ==
  LET w == wk[b] IN
  /\ Executing(w)
  /\ IsConditional(w.flags.op)
  /\ ~Validated(w)
  /\ mem' = Finish(mem, w.pos, {"FINISHED_OPERATION", "FAILED_CONDITION"})
  /\ wk' = [wk EXCEPT ![b] = Next1(w)]
  /\ UNCHANGED <<published, field, cstat, comp, lock, cv, writer, db, cur, nb,
                 progress, host, used>>

\* A store error leaves a live transaction usable or broken (MDBX sets
\* MDBX_TXN_ERROR); a broken one stays broken.
AfterError(t) == IF t = "live" THEN {"live", "broken"} ELSE {t}

\* PUT: mdbx_put into the batch transaction (the compressed copy is freed).
\* A store error (an rc other than KEYEXIST and NOTFOUND, and every rc of a
\* broken transaction) is only reported with ReportError, which sets the
\* message the completion callback carries; the word is marked
\* FINISHED_OPERATION | FAILED_CONDITION and the stream goes on.
ExecPut(b) ==
  LET w == wk[b]  i == Prog[w.pos] IN
  /\ Executing(w)
  /\ w.flags.op = "PUT"
  /\ Validated(w)
  /\ \/ /\ w.txn # "broken"
        /\ mem' = Finish(mem, w.pos, {"FINISHED_OPERATION"})
        /\ wk' = [wk EXCEPT ![b] = [Next1(w) EXCEPT !.view[i.key] = w.pos]]
     \/ /\ PutCanFail \/ w.txn = "broken"
        /\ mem' = Finish(mem, w.pos, {"FINISHED_OPERATION", "FAILED_CONDITION"})
        /\ \E t \in AfterError(w.txn) :
             wk' = [wk EXCEPT ![b] = [Next1(w) EXCEPT !.txn = t]]
  /\ used' = IF i.compressible THEN [used EXCEPT ![w.pos] = field[w.pos]]
                               ELSE used
  /\ UNCHANGED <<published, field, cstat, comp, lock, cv, writer, db, cur, nb,
                 progress, host>>

\* DEL: mdbx_del; NOTFOUND is a failed condition, not an error; on a broken
\* transaction it fails and is reported.
ExecDel(b) ==
  LET w == wk[b]  k == Prog[w.pos].key IN
  /\ Executing(w)
  /\ w.flags.op = "DEL"
  /\ Validated(w)
  /\ mem' = Finish(mem, w.pos,
                   IF w.view[k] = Absent \/ w.txn = "broken"
                   THEN {"FINISHED_OPERATION", "FAILED_CONDITION"}
                   ELSE {"FINISHED_OPERATION"})
  /\ wk' = [wk EXCEPT ![b] = [Next1(w) EXCEPT !.view[k] = Absent]]
  /\ UNCHANGED <<published, field, cstat, comp, lock, cv, writer, db, cur, nb,
                 progress, host, used>>

\* START_BLOCK / START_CONDITION_BLOCK: push a condition frame.
ExecStartBlock(b) ==
  LET w == wk[b]  ok == Validated(w) IN
  /\ Executing(w)
  /\ w.flags.op \in {"START_BLOCK", "START_CONDITION_BLOCK"}
  /\ mem' = Finish(mem, w.pos,
                   IF ok THEN {"FINISHED_OPERATION"}
                   ELSE {"FINISHED_OPERATION", "FAILED_CONDITION"})
  /\ wk' = [wk EXCEPT ![b] = [Next1(w) EXCEPT
                                !.cdepth = @ + 1,
                                !.vdepth = IF ok THEN @ + 1 ELSE @]]
  /\ UNCHANGED <<published, field, cstat, comp, lock, cv, writer, db, cur, nb,
                 progress, host, used>>

\* validatedDepth decremented whatever the depth it was validated at.
ExecBlockEndAlways(b) ==
  LET w == wk[b] IN
  /\ Executing(w)
  /\ w.flags.op = "BLOCK_END"
  /\ wk' = [wk EXCEPT ![b] = [Next1(w) EXCEPT !.cdepth = @ - 1,
                                                 !.vdepth = @ - 1]]
  /\ UNCHANGED <<mem, published, field, cstat, comp, lock, cv, writer, db, cur,
                 nb, progress, host, used>>

\* BLOCK_END: pop the condition frame and go to next_inst: no status bits.
ExecBlockEnd(b) ==
  LET w == wk[b] IN
  /\ Executing(w)
  /\ w.flags.op = "BLOCK_END"
  /\ wk' = [wk EXCEPT ![b] = [Next1(w) EXCEPT
                                !.cdepth = @ - 1,
                                !.vdepth = IF @ > w.cdepth - 1 THEN @ - 1 ELSE @]]
  /\ UNCHANGED <<mem, published, field, cstat, comp, lock, cv, writer, db, cur,
                 nb, progress, host, used>>

\* USER_CALLBACK: finishedProgress = false.  With STRICT_ORDER, mark the
\* word finished at once and call WaitForCallbacks until the host has run
\* the callback.
ExecCallback(b) ==
  LET w == wk[b] IN
  /\ Executing(w)
  /\ w.flags.op = "USER_CALLBACK"
  /\ Validated(w)
  /\ mem' = Finish(mem, w.pos, {"FINISHED_OPERATION"})
  /\ wk' = [wk EXCEPT ![b] =
              IF Prog[w.pos].strict
              THEN [w EXCEPT !.fin = FALSE, !.pc = "strict", !.timed = FALSE,
                             !.allow = (w.cdepth = 0), !.ret = "strict"]
              ELSE [Next1(w) EXCEPT !.fin = FALSE]]
  /\ UNCHANGED <<published, field, cstat, comp, lock, cv, writer, db, cur, nb,
                 progress, host, used>>

\* while (!worker->finishedProgress) WaitForCallbacks(...); then the word's
\* status bits are set and the stream continues.
StrictLoop(b) ==
  LET w == wk[b] IN
  /\ w.pc = "strict"
  /\ \/ /\ ~w.fin
        /\ wk' = [wk EXCEPT ![b].pc = "fenter"]
        /\ UNCHANGED mem
     \/ /\ w.fin
        /\ mem' = Finish(mem, w.pos, {"FINISHED_OPERATION"})
        /\ wk' = [wk EXCEPT ![b] = Next1(w)]
  /\ UNCHANGED <<published, field, cstat, comp, lock, cv, writer, db, cur, nb,
                 progress, host, used>>

(***************************************************************************)
(* WaitForCallbacks(txnAddress, allowCommit, target).                      *)
(***************************************************************************)

\* The same entry without the signal that wakes a host waiting on the lock.
FEnterNoSignal(b) ==
  LET w == wk[b] IN
  /\ w.pc = "fenter"
  /\ progress' = IF w.fin THEN progress ELSE [progress EXCEPT ![b] = TRUE]
  /\ Wait(Worker(b))
  /\ wk' = [wk EXCEPT ![b].intr = IF w.allow THEN "ALLOW_COMMIT" ELSE "NONE",
                      ![b].pc = "fwait"]
  /\ UNCHANGED <<mem, published, field, cstat, comp, writer, db, cur, nb,
                 host, used>>

\* Queue a progress event unless finishedProgress, signal writingCond, set
\* interruptionStatus to ALLOW_COMMIT or 0, and wait.
FEnter(b) ==
  LET w == wk[b] IN
  /\ w.pc = "fenter"
  /\ progress' = IF w.fin THEN progress ELSE [progress EXCEPT ![b] = TRUE]
  /\ SignalAndWait(Worker(b))
  /\ wk' = [wk EXCEPT ![b].intr = IF w.allow THEN "ALLOW_COMMIT" ELSE "NONE",
                      ![b].pc = "fwait"]
  /\ UNCHANGED <<mem, published, field, cstat, comp, writer, db, cur, nb,
                 host, used>>

\* cond_timedwait returns when its delay has passed.
FTimeout(b) ==
  /\ wk[b].pc = "fwait"
  /\ wk[b].timed
  /\ Worker(b) \in cv
  /\ cv' = cv \ {Worker(b)}
  /\ UNCHANGED <<mem, published, field, cstat, comp, lock, writer, db, wk, cur,
                 nb, progress, host, used>>

\* The timed loop ends when the target word has an opcode, or, when commit
\* is allowed, on an interruption or once the progress callback has run.
LoopExit(w) ==
  \/ mem[w.pos].op # "NONE"
  \/ w.allow /\ (w.intr = "INTERRUPT_BATCH" \/ w.fin)

\* Woken: reacquire writingLock and either wait again or go on.
FWake(b) ==
  LET w == wk[b] IN
  /\ w.pc = "fwait"
  /\ Worker(b) \notin cv
  /\ lock = NoThread
  /\ \/ /\ w.timed /\ ~LoopExit(w)
        /\ cv' = cv \cup {Worker(b)}
        /\ UNCHANGED <<lock, wk>>
     \/ /\ ~w.timed \/ LoopExit(w)
        /\ lock' = Worker(b)
        /\ wk' = [wk EXCEPT ![b].pc = "fwoke"]
        /\ UNCHANGED cv
  /\ UNCHANGED <<mem, published, field, cstat, comp, writer, db, cur, nb,
                 progress, host, used>>

\* Where WaitForCallbacks returns to: the NO_INSTRUCTION_YET reread or the
\* strict callback loop.
Return(w) == [w EXCEPT !.pc = IF w.ret = "noinst" THEN "exec" ELSE "strict"]

\* INTERRUPT_BATCH: commit the batch so far, signal the host and wait for it
\* to finish.  A failed commit returns its rc, which no caller looks at.
FInterrupt(b) ==
  LET w == wk[b] IN
  /\ w.pc = "fwoke"
  /\ w.intr = "INTERRUPT_BATCH"
  /\ writer' = NoThread
  /\ \/ /\ w.txn # "broken"
        /\ db' = w.view
        /\ SignalAndWait(Worker(b))
        /\ wk' = [wk EXCEPT ![b].intr = "RESTART_WORKER_TXN", ![b].txn = "null",
                            ![b].pc = "rwait"]
     \/ /\ CommitCanFail \/ w.txn = "broken"
        /\ wk' = [wk EXCEPT ![b] = Return([w EXCEPT !.intr = "RESTART_WORKER_TXN",
                                                    !.txn = "dead"])]
        /\ UNCHANGED <<db, lock, cv>>
  /\ UNCHANGED <<mem, published, field, cstat, comp, cur, nb, progress, host,
                 used>>

\* No interruption: interruptionStatus = 0 and return.
FReturn(b) ==
  LET w == wk[b] IN
  /\ w.pc = "fwoke"
  /\ w.intr # "INTERRUPT_BATCH"
  /\ wk' = [wk EXCEPT ![b] = Return([w EXCEPT !.intr = "NONE"])]
  /\ UNCHANGED <<mem, published, field, cstat, comp, lock, cv, writer, db, cur,
                 nb, progress, host, used>>

\* Woken after the host's transaction: reacquire writingLock.
RestartWake(b) ==
  /\ wk[b].pc = "rwait"
  /\ Worker(b) \notin cv
  /\ lock = NoThread
  /\ lock' = Worker(b)
  /\ wk' = [wk EXCEPT ![b].pc = "rbegin"]
  /\ UNCHANGED <<mem, published, field, cstat, comp, cv, writer, db, cur, nb,
                 progress, host, used>>

\* Begin a fresh batch transaction, interruptionStatus = 0, return (a
\* failed begin leaves the transaction null).
RestartTxn(b) ==
  LET w == wk[b] IN
  /\ w.pc = "rbegin"
  /\ writer = NoThread
  /\ \/ /\ writer' = Worker(b)
        /\ wk' = [wk EXCEPT ![b] = Return([w EXCEPT !.intr = "NONE",
                                                    !.txn = "live", !.view = db])]
     \/ /\ BeginCanFail
        /\ wk' = [wk EXCEPT ![b] = Return([w EXCEPT !.intr = "NONE",
                                                    !.txn = "null"])]
        /\ UNCHANGED writer
  /\ UNCHANGED <<mem, published, field, cstat, comp, lock, cv, db, cur, nb,
                 progress, host, used>>

(***************************************************************************)
(* The end of a batch: Write() after DoWrites returned 0, and the host's   *)
(* HandleOKCallback / HandleErrorCallback and the worker's destructor.      *)
(***************************************************************************)

\* mdbx_txn_commit (an error for a null or dead transaction), txn = nullptr,
\* unlock writingLock.
WriteCommit(b) ==
  LET w == wk[b] IN
  /\ w.pc = "commit"
  /\ \/ /\ w.txn = "live"
        /\ db' = w.view
        /\ wk' = [wk EXCEPT ![b].outcome = "committed", ![b].txn = "null",
                            ![b].pc = "publish"]
     \/ /\ w.txn # "live" \/ CommitCanFail
        /\ wk' = [wk EXCEPT ![b].outcome = "error", ![b].txn = "null",
                            ![b].pc = "publish"]
        /\ UNCHANGED db
  /\ writer' = IF writer = Worker(b) THEN NoThread ELSE writer
  /\ lock' = NoThread
  /\ UNCHANGED <<mem, published, field, cstat, comp, cv, cur, nb, progress,
                 host, used>>

\* instructions->fetch_or(TXN_HAD_ERROR or TXN_COMMITTED) on the delimiter.
WritePublish(b) ==
  LET w == wk[b] IN
  /\ w.pc = "publish"
  /\ mem' = Finish(mem, w.instructions,
                   IF w.outcome = "committed" THEN {"TXN_COMMITTED"}
                   ELSE {"TXN_HAD_ERROR"})
  /\ wk' = [wk EXCEPT ![b].pc = "done"]
  /\ UNCHANGED <<published, field, cstat, comp, lock, cv, writer, db, cur, nb,
                 progress, host, used>>

\* On the host: HandleOKCallback sets finishedProgress and calls back; the
\* destructor clears ew->writeWorker if it is this worker.
Complete(b) ==
  /\ host.pc = "idle"
  /\ wk[b].pc = "done"
  /\ wk' = [wk EXCEPT ![b].fin = TRUE, ![b].pc = "gone"]
  /\ cur' = IF cur = b THEN 0 ELSE cur
  /\ UNCHANGED <<mem, published, field, cstat, comp, lock, cv, writer, db, nb,
                 progress, host, used>>

(***************************************************************************)
(* The host publishes the next instruction (the JavaScript encoder): it    *)
(* fills the slot, queues the value's compression, then fetch-ors the      *)
(* opcode into the flags word and looks at what the word held.             *)
(***************************************************************************)

PublishSlot(s) ==
  /\ mem' = [mem EXCEPT ![s].op = Prog[s].op]
  /\ published' = s
  /\ comp' = IF Prog[s].compressible THEN [comp EXCEPT ![s] = "exchange"]
                                     ELSE comp

\* The word held TXN_DELIMITER, or there is no worker yet: startWriting.
PublishAndStart ==
  LET s == published + 1 IN
  /\ host.pc = "idle"
  /\ published < N
  /\ "TXN_DELIMITER" \in mem[s].bits \/ nb = 0
  /\ nb < MaxBatches
  /\ PublishSlot(s)
  /\ wk' = [wk EXCEPT ![nb + 1] = NewWorker(s)]
  /\ cur' = nb + 1
  /\ nb' = nb + 1
  /\ UNCHANGED <<field, cstat, lock, cv, writer, db, progress, host, used>>

\* The word held WAITING_OPERATION: write(env, 0) signals writingCond
\* without taking writingLock.
PublishAndWake ==
  LET s == published + 1 IN
  /\ host.pc = "idle"
  /\ published < N
  /\ "WAITING_OPERATION" \in mem[s].bits
  /\ nb > 0
  /\ PublishSlot(s)
  /\ cv' \in Signalled(cv)
  /\ UNCHANGED <<field, cstat, lock, writer, db, wk, cur, nb, progress, host,
                 used>>

\* The worker has not reached the slot yet.
PublishQuietly ==
  LET s == published + 1 IN
  /\ host.pc = "idle"
  /\ published < N
  /\ mem[s].bits \cap {"TXN_DELIMITER", "WAITING_OPERATION"} = {}
  /\ nb > 0
  /\ PublishSlot(s)
  /\ UNCHANGED <<field, cstat, lock, cv, writer, db, wk, cur, nb, progress,
                 host, used>>

(***************************************************************************)
(* Synchronous write transactions: EnvWrap::beginTxn, commitTxn, abortTxn *)
(* and WriteWorker::AcquireTxn / UnlockTxn.  The host writes HostKey.      *)
(***************************************************************************)

\* beginTxn on the write path: lock writingLock, through AcquireTxn when a
\* worker exists.
SyncBegin ==
  /\ host.pc = "idle"
  /\ host.n < MaxSyncTxns
  /\ \E sync, abortable \in BOOLEAN :
       host' = [host EXCEPT !.pc = "acq", !.sync = sync, !.abortable = abortable,
                            !.via = cur, !.n = @ + 1, !.ended = "none"]
  /\ UNCHANGED <<mem, published, field, cstat, comp, lock, cv, writer, db, wk,
                 cur, nb, progress, used>>

\* AcquireTxn returning nullptr as soon as it has asked for the interruption.
SyncAcquireNoWait ==
  LET b == host.via IN
  /\ host.pc = "acq"
  /\ lock = NoThread
  /\ \/ /\ b # 0 /\ host.sync /\ wk[b].intr = "ALLOW_COMMIT"
        /\ wk' = [wk EXCEPT ![b].intr = "INTERRUPT_BATCH"]
        /\ cv' \in Signalled(cv)
        /\ lock' = Host
        /\ host' = [host EXCEPT !.got = "null", !.pc = "open"]
     \/ /\ b # 0 /\ ~(host.sync /\ wk[b].intr = "ALLOW_COMMIT")
        /\ lock' = Host
        /\ wk' = [wk EXCEPT ![b].intr = "USER_HAS_LOCK"]
        /\ host' = [host EXCEPT !.got = wk[b].txn, !.pc = "open"]
        /\ UNCHANGED cv
     \/ /\ b = 0
        /\ lock' = Host
        /\ host' = [host EXCEPT !.got = "null", !.pc = "open"]
        /\ UNCHANGED <<cv, wk>>
  /\ UNCHANGED <<mem, published, field, cstat, comp, writer, db, cur, nb,
                 progress, used>>

\* AcquireTxn: for a synchronous commit while the worker allows one, ask it
\* to interrupt its batch, signal and wait once, and return nullptr;
\* otherwise mark USER_HAS_LOCK and borrow the worker's transaction.
\* Without a worker, plain pthread_mutex_lock.
SyncAcquire ==
  LET b == host.via IN
  /\ host.pc = "acq"
  /\ lock = NoThread
  /\ \/ /\ b # 0 /\ host.sync /\ wk[b].intr = "ALLOW_COMMIT"
        /\ wk' = [wk EXCEPT ![b].intr = "INTERRUPT_BATCH"]
        /\ SignalAndWait(Host)
        /\ host' = [host EXCEPT !.pc = "acqwait"]
     \/ /\ b # 0 /\ ~(host.sync /\ wk[b].intr = "ALLOW_COMMIT")
        /\ lock' = Host
        /\ wk' = [wk EXCEPT ![b].intr = "USER_HAS_LOCK"]
        /\ host' = [host EXCEPT !.got = wk[b].txn, !.pc = "open"]
        /\ UNCHANGED cv
     \/ /\ b = 0
        /\ lock' = Host
        /\ host' = [host EXCEPT !.got = "null", !.pc = "open"]
        /\ UNCHANGED <<cv, wk>>
  /\ UNCHANGED <<mem, published, field, cstat, comp, writer, db, cur, nb,
                 progress, used>>

\* The single pthread_cond_wait of AcquireTxn returned: relock, nullptr.
SyncAcquireWake ==
  /\ host.pc = "acqwait"
  /\ Host \notin cv
  /\ lock = NoThread
  /\ lock' = Host
  /\ host' = [host EXCEPT !.got = "null", !.pc = "open"]
  /\ UNCHANGED <<mem, published, field, cstat, comp, cv, writer, db, wk, cur,
                 nb, progress, used>>

\* With a borrowed transaction: an ABORTABLE one becomes a child txn, any
\* other reuses the worker's txn as is.  Without one: a top-level write txn,
\* which blocks while another thread holds MDBX's writer lock.
SyncOpen ==
  /\ host.pc = "open"
  /\ \/ /\ host.got # "null" /\ host.abortable
        /\ host' = [host EXCEPT !.frame = "child", !.hview = wk[host.via].view,
                                !.pc = "work"]
        /\ UNCHANGED writer
     \/ /\ host.got # "null" /\ ~host.abortable
        /\ host' = [host EXCEPT !.frame = "reuse", !.pc = "work"]
        /\ UNCHANGED writer
     \/ /\ host.got = "null"
        /\ writer = NoThread
        /\ writer' = Host
        /\ host' = [host EXCEPT !.frame = "top", !.hview = db, !.pc = "work"]
  /\ UNCHANGED <<mem, published, field, cstat, comp, lock, cv, db, wk, cur, nb,
                 progress, used>>

\* UnlockTxn without its pthread_cond_signal.
ReleaseWritingNoSignal(wks) ==
  \/ /\ cur # 0
     /\ wk' = [wks EXCEPT ![cur].intr = "NONE"]
     /\ lock' = NoThread
     /\ UNCHANGED cv
  \/ /\ cur = 0
     /\ wk' = wks
     /\ lock' = NoThread
     /\ UNCHANGED cv

\* The last frame popped: UnlockTxn (interruptionStatus = 0, signal,
\* unlock) on ew->writeWorker, or a plain unlock without one.
ReleaseWriting(wks) ==
  \/ /\ cur # 0
     /\ wk' = [wks EXCEPT ![cur].intr = "NONE"]
     /\ cv' \in Signalled(cv)
     /\ lock' = NoThread
  \/ /\ cur = 0
     /\ wk' = wks
     /\ lock' = NoThread
     /\ UNCHANGED cv

\* The host's put of HostKey inside the transaction it opened.
HostWrite(v) == [v EXCEPT ![HostKey] = HostVal(host.n)]

\* commitTxn: commit a top-level or child txn; a reused worker txn is left
\* to the worker.  Then pop the frame and release writingLock.
SyncCommit ==
  LET b == host.via IN
  /\ host.pc = "work"
  /\ \/ /\ host.frame = "top"
        /\ db' = HostWrite(host.hview)
        /\ writer' = NoThread
        /\ ReleaseWriting(wk)
     \/ /\ host.frame = "child"
        /\ ReleaseWriting([wk EXCEPT ![b].view = HostWrite(host.hview)])
        /\ UNCHANGED <<db, writer>>
     \/ /\ host.frame = "reuse"
        /\ ReleaseWriting([wk EXCEPT ![b].view = HostWrite(@)])
        /\ UNCHANGED <<db, writer>>
  /\ host' = [host EXCEPT !.frame = "none", !.ended = "commit", !.pc = "idle"]
  /\ UNCHANGED <<mem, published, field, cstat, comp, cur, nb, progress, used>>

\* abortTxn: abort a top-level or child txn; a reused worker txn cannot be
\* aborted ("Can not abort this transaction"), so the put stays in it.
SyncAbort ==
  LET b == host.via IN
  /\ host.pc = "work"
  /\ \/ /\ host.frame = "top"
        /\ writer' = NoThread
        /\ ReleaseWriting(wk)
     \/ /\ host.frame = "child"
        /\ ReleaseWriting(wk)
        /\ UNCHANGED writer
     \/ /\ host.frame = "reuse"
        /\ ReleaseWriting([wk EXCEPT ![b].view = HostWrite(@)])
        /\ UNCHANGED writer
  /\ host' = [host EXCEPT !.frame = "none", !.ended = "abort", !.pc = "idle"]
  /\ UNCHANGED <<mem, published, field, cstat, comp, db, cur, nb, progress,
                 used>>

(***************************************************************************)
(* EnvWrap::resize on the host, between transactions.  Its guard reads     *)
(* currentWriteTxn, which nothing in the sources sets, so it never throws. *)
(* libmdbx's mdbx_env_set_mapsize takes MDBX's writer lock unless the      *)
(* calling thread owns the write transaction, so the call waits while      *)
(* another thread's write transaction is open.                            *)
(***************************************************************************)

ResizeCall ==
  /\ host.pc = "idle"
  /\ host.rs < MaxResizes
  /\ host' = [host EXCEPT !.pc = "resize", !.rs = @ + 1]
  /\ UNCHANGED <<mem, published, field, cstat, comp, lock, cv, writer, db, wk,
                 cur, nb, progress, used>>

\* mdbx_env_set_mapsize returns 0 or an error that resize throws, or
\* EINVAL: then resize begins and commits an empty write transaction and
\* sets the size again, each call under MDBX's writer lock.
ResizeSetMapsize ==
  /\ host.pc \in {"resize", "resizeretry"}
  /\ writer = NoThread
  /\ host' \in {[host EXCEPT !.pc = "idle"]} \cup
                (IF host.pc = "resize" THEN {[host EXCEPT !.pc = "resizeretry"]}
                 ELSE {})
  /\ UNCHANGED <<mem, published, field, cstat, comp, lock, cv, writer, db, wk,
                 cur, nb, progress, used>>

(***************************************************************************)
(* The progress callback: HandleProgressCallback on the host.              *)
(***************************************************************************)

\* The callback has already run for this wait: nothing to do.
ProgressIgnored(b) ==
  /\ host.pc = "idle"
  /\ progress[b]
  /\ wk[b].fin
  /\ progress' = [progress EXCEPT ![b] = FALSE]
  /\ UNCHANGED <<mem, published, field, cstat, comp, lock, cv, writer, db, wk,
                 cur, nb, host, used>>

ProgressBegin(b) ==
  /\ host.pc = "idle"
  /\ progress[b]
  /\ ~wk[b].fin
  /\ progress' = [progress EXCEPT ![b] = FALSE]
  /\ host' = [host EXCEPT !.pb = b, !.pc = "plock"]
  /\ UNCHANGED <<mem, published, field, cstat, comp, lock, cv, writer, db, wk,
                 cur, nb, used>>

\* Lock writingLock and wait while the worker has no transaction; then
\* finishedProgress = true, run the callback, signal and unlock.
ProgressRun ==
  LET b == host.pb IN
  /\ host.pc \in {"plock", "pwait"}
  /\ Host \notin cv
  /\ lock = NoThread
  /\ \/ /\ wk[b].txn = "null"
        /\ cv' = cv \cup {Host}
        /\ host' = [host EXCEPT !.pc = "pwait"]
        /\ UNCHANGED wk
     \/ /\ wk[b].txn # "null"
        /\ wk' = [wk EXCEPT ![b].fin = TRUE]
        /\ cv' \in Signalled(cv)
        /\ host' = [host EXCEPT !.pc = "idle"]
  /\ UNCHANGED <<mem, published, field, cstat, comp, lock, writer, db, cur, nb,
                 progress, used>>

(***************************************************************************)
(* A CompressionWorker per compressible instruction.                       *)
(***************************************************************************)

\* Execute: exchange the status slot to 2; go on only if it held the
\* compressor pointer.
CompExchange(s) ==
  /\ comp[s] = "exchange"
  /\ cstat' = [cstat EXCEPT ![s] = "2"]
  /\ comp' = [comp EXCEPT ![s] = IF cstat[s] = "PTR" THEN "compress" ELSE "done"]
  /\ UNCHANGED <<mem, published, field, lock, cv, writer, db, wk, cur, nb,
                 progress, host, used>>

\* compress(): write the compressed pointer into the value field; on failure
\* compressInstruction returns 1 and leaves the status slot as it is.
CompCompress(s) ==
  /\ comp[s] = "compress"
  /\ \/ /\ field' = [field EXCEPT ![s] = "raw"]
        /\ comp' = [comp EXCEPT ![s] = "publish"]
     \/ /\ CompressCanFail
        /\ comp' = [comp EXCEPT ![s] = "done"]
        /\ UNCHANGED field
  /\ UNCHANGED <<mem, published, cstat, lock, cv, writer, db, wk, cur, nb,
                 progress, host, used>>

\* Signals when the slot held 2 rather than 1.
CompPublishWrongSignal(s) ==
  /\ comp[s] = "publish"
  /\ cstat' = [cstat EXCEPT ![s] = "0"]
  /\ comp' = [comp EXCEPT ![s] = IF cstat[s] = "2" THEN "signal" ELSE "done"]
  /\ UNCHANGED <<mem, published, field, lock, cv, writer, db, wk, cur, nb,
                 progress, host, used>>

\* Exchange the status slot to 0; if it held 1 a writer is waiting.
CompPublish(s) ==
  /\ comp[s] = "publish"
  /\ cstat' = [cstat EXCEPT ![s] = "0"]
  /\ comp' = [comp EXCEPT ![s] = IF cstat[s] = "1" THEN "signal" ELSE "done"]
  /\ UNCHANGED <<mem, published, field, lock, cv, writer, db, wk, cur, nb,
                 progress, host, used>>

\* pthread_mutex_lock, pthread_cond_signal, pthread_mutex_unlock.
CompSignal(s) ==
  /\ comp[s] = "signal"
  /\ lock = NoThread
  /\ cv' \in Signalled(cv)
  /\ comp' = [comp EXCEPT ![s] = "done"]
  /\ UNCHANGED <<mem, published, field, cstat, lock, writer, db, wk, cur, nb,
                 progress, host, used>>

(***************************************************************************)
(* The platform: a wait on writingCond may return without a signal.        *)
(***************************************************************************)

SpuriousReturn ==
  /\ SpuriousWakeup
  /\ \E t \in cv : cv' = cv \ {t}
  /\ UNCHANGED <<mem, published, field, cstat, comp, lock, writer, db, wk, cur,
                 nb, progress, host, used>>

-----------------------------------------------------------------------------
(***************************************************************************)
(* The specification.                                                      *)
(***************************************************************************)

\* Every step of one write worker thread.
WorkerStep(b) ==
  \/ WriteLock(b) \/ WriteBegin(b) \/ ReadFlags(b)
  \/ WaitForInstruction(b) \/ DelimitTxn(b)
  \/ ClaimCompression(b) \/ CompressionWait(b)
  \/ SkipConditional(b) \/ ExecPut(b) \/ ExecDel(b) \/ ExecStartBlock(b)
  \/ ExecBlockEnd(b) \/ ExecCallback(b) \/ StrictLoop(b)
  \/ FEnter(b) \/ FWake(b) \/ FInterrupt(b) \/ FReturn(b)
  \/ RestartWake(b) \/ RestartTxn(b)
  \/ WriteCommit(b) \/ WritePublish(b)

Publish == PublishAndStart \/ PublishAndWake \/ PublishQuietly

\* The host inside a beginTxn ... commitTxn/abortTxn, a progress callback
\* or a resize.
HostStep == SyncAcquire \/ SyncAcquireWake \/ SyncOpen \/ SyncCommit
            \/ SyncAbort \/ ProgressRun \/ ResizeSetMapsize

CompStep(s) == CompExchange(s) \/ CompCompress(s) \/ CompPublish(s)
               \/ CompSignal(s)

\* Every worker has been completed, every event handled, every compression
\* done, and the stream fully published (or the next batch is past the bound).
Quiescent ==
  /\ host.pc = "idle"
  /\ host.n = MaxSyncTxns
  /\ \A b \in 1 .. nb : wk[b].pc = "gone"
  /\ \A b \in Batches : ~progress[b]
  /\ \A s \in Slots : comp[s] \in {"idle", "done"}
  /\ published = N \/ nb = MaxBatches

Terminating == Quiescent /\ UNCHANGED vars

Next ==
  \/ \E b \in Batches : WorkerStep(b) \/ FTimeout(b) \/ Complete(b)
                        \/ ProgressIgnored(b) \/ ProgressBegin(b)
  \/ Publish \/ SyncBegin \/ ResizeCall \/ HostStep
  \/ \E s \in Slots : CompStep(s)
  \/ SpuriousReturn
  \/ Terminating

\* Threads that can run are eventually scheduled; the event loop handles
\* queued events; the application's encoder eventually writes every
\* instruction it has been given.  The host need not begin another
\* transaction or resize, and no spurious wakeup need ever happen.  A timed
\* wait eventually times out: cond_timedwait returns at its deadline, or at
\* once when the deadline it builds is invalid (EINVAL), so every call in
\* the loop of WaitForCallbacks returns.
Fairness ==
  /\ \A b \in Batches : /\ WF_vars(WorkerStep(b))
                        /\ WF_vars(Complete(b))
                        /\ WF_vars(ProgressIgnored(b) \/ ProgressBegin(b))
                        /\ WF_vars(FTimeout(b))
  /\ \A s \in Slots : WF_vars(CompStep(s))
  /\ WF_vars(HostStep)
  /\ WF_vars(Publish)

Spec == Init /\ [][Next]_vars /\ Fairness

-----------------------------------------------------------------------------
(***************************************************************************)
(* Properties.                                                             *)
(***************************************************************************)

Running == {"lock", "begin", "exec", "decode", "cwait", "op", "strict",
            "fenter", "fwait", "fwoke", "rwait", "rbegin"}

TypeOK ==
  /\ mem \in [Slots -> Word]
  /\ published \in 0 .. N
  /\ field \in [Slots -> {"double", "raw"}]
  /\ cstat \in [Slots -> {"PTR", "2", "1", "0"}]
  /\ comp \in [Slots -> {"idle", "exchange", "compress", "publish", "signal",
                         "done"}]
  /\ db \in [Keys -> Vals]
  /\ nb \in 0 .. MaxBatches
  /\ cur \in 0 .. nb
  /\ \A b \in Batches :
       /\ wk[b].pc \in Running \cup {"idle", "commit", "publish", "done", "gone"}
       /\ wk[b].txn \in {"null", "live", "broken", "dead"}
       /\ wk[b].view \in [Keys -> Vals]
       /\ wk[b].intr \in InterruptionStatus
       /\ wk[b].pos \in Slots
       /\ wk[b].cdepth \in 0 .. N
       /\ wk[b].vdepth \in 0 .. wk[b].cdepth
  /\ host.pc \in {"idle", "acq", "acqwait", "open", "work", "plock", "pwait",
                 "resize", "resizeretry"}
  /\ host.hview \in [Keys -> Vals]

\* No published instruction is left behind: while an instruction (other
\* than BLOCK_END, which is never marked) is not finished, some running
\* worker has not yet passed it.  This is what the compare-and-swap of the
\* NO_INSTRUCTION_YET word against the encoder's fetch-or guarantees.
NoStrandedInstruction ==
  \A s \in 1 .. published :
    (Prog[s].op # "BLOCK_END" /\ "FINISHED_OPERATION" \notin mem[s].bits)
      => \E b \in 1 .. nb : wk[b].pc \in Running /\ wk[b].pos <= s

\* A finished batch shows its outcome on its delimiter word: exactly one of
\* TXN_COMMITTED and TXN_HAD_ERROR, the one matching the commit, even though
\* the next worker executes and marks that same word concurrently.
OutcomeVisible ==
  \A b \in 1 .. nb :
    wk[b].pc \in {"done", "gone"} =>
      LET f == mem[wk[b].instructions].bits IN
      /\ ("TXN_COMMITTED" \in f) = (wk[b].outcome = "committed")
      /\ ("TXN_HAD_ERROR" \in f) = (wk[b].outcome = "error")

\* A PUT of a compressible value never reads the pointer field while it
\* still holds the encoder's double (the writer waits for the compression
\* worker, or compresses the value itself).
CompressedValueUsed == \A s \in Slots : used[s] # "double"

\* The thread holding writingLock is never blocked in mdbx_txn_begin on
\* MDBX's writer lock held by another thread: that thread needs writingLock
\* to commit, so the two would wait on each other forever.
BlockedOnWriter(t) ==
  \/ t = Host /\ host.pc = "open" /\ host.got = "null"
  \/ \E b \in Batches : t = Worker(b) /\ wk[b].pc \in {"begin", "rbegin"}

NoLockCycle ==
  ~(lock # NoThread /\ BlockedOnWriter(lock) /\ writer \notin {NoThread, lock})

\* Every batch a worker was started for completes on the host.
BatchCompletes ==
  \A b \in Batches : (wk[b].pc # "idle") ~> (wk[b].pc = "gone")

\* Every beginTxn and every progress callback returns to the event loop.
HostReturns == (host.pc # "idle") ~> (host.pc = "idle")

\* Every published instruction other than BLOCK_END is eventually executed.
PublishedExecuted ==
  \A s \in 1 .. N :
    (published >= s /\ Prog[s].op # "BLOCK_END")
      ~> ("FINISHED_OPERATION" \in mem[s].bits)

\* Once everything is at rest, every published instruction carries
\* FINISHED_OPERATION.
AllFinishedAtRest ==
  Quiescent => \A s \in 1 .. published : "FINISHED_OPERATION" \in mem[s].bits

\* The worker never executes an instruction outside an open transaction
\* (a broken one is still open: MDBX fails its operations cleanly).
NoOpOnDeadTxn ==
  \A b \in Batches :
    wk[b].pc \in {"decode", "op"} => wk[b].txn \in {"live", "broken"}

=============================================================================
