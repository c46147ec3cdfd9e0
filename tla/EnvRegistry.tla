------------------------------ MODULE EnvRegistry ------------------------------
(***************************************************************************)
(* The process-wide environment registry of lmdbx-js (src/env.cpp).        *)
(*                                                                         *)
(* Every EnvWrap owns the MDBX env handle its constructor created.         *)
(* EnvWrap::open looks its path up in the static vector envs under the     *)
(* static mutex envsLock: a hit adopts the registered handle and closes    *)
(* the wrapper's own, a miss configures and opens the own handle and       *)
(* appends it with count 1.  EnvWrap::closeEnv, reached from close() and   *)
(* from the environment cleanup hook open() registers, decrements the      *)
(* entry and closes the handle when the count drops to zero.  Wrappers     *)
(* live on different JavaScript threads (Node worker threads) and meet     *)
(* only on envsLock, envs and the handles.  Each wrapper also caches one  *)
(* read-only transaction (getReadTxn / resetCurrentReadTxn).               *)
(*                                                                         *)
(* The handle a wrapper's constructor creates is named by the wrapper, so  *)
(* Wrappers doubles as the set of handles; 0 is nullptr.                   *)
(***************************************************************************)
EXTENDS Naturals, Sequences, FiniteSets

LOCAL INSTANCE SequencesExt

CONSTANTS
  Wrappers,         \* EnvWrap objects, each used by its own thread
  Paths,            \* paths open() may be given
  MdbxCanFail,      \* mdbx_env_create / mdbx_env_open may fail
  SettingsCanFail,  \* the maxDbs or mapSize setting may be rejected
  ReadersCanFail    \* the maxReaders setting may be rejected

ASSUME /\ Wrappers \subseteq Nat \ {0}
       /\ {MdbxCanFail, SettingsCanFail, ReadersCanFail} \subseteq BOOLEAN

NoEnv == 0
NoPath == "none"

\* The states of an MDBX_env handle: created by mdbx_env_create, opened by
\* mdbx_env_open, freed by mdbx_env_close.
HandleState == {"none", "created", "open", "closed"}

\* Where a wrapper's thread is: idle between calls, inside open, close or
\* the exit hook, gone.  "unborn" precedes the constructor, "dead" follows
\* a constructor that threw.
Pcs == {"unborn", "ready", "opening", "closing", "exiting", "exited", "dead"}

VARIABLES
  ew,        \* [Wrappers -> wrapper record]: the EnvWrap fields and the call in progress
  handle,    \* [Wrappers -> HandleState]: the handle each constructor created
  closes,    \* [Wrappers -> Nat]: mdbx_env_close calls on each handle (history)
  envs,      \* EnvWrap::envs: a sequence of env_path_t records
  envsLock   \* owner of EnvWrap::envsLock, NoEnv when free

vars == <<ew, handle, closes, envs, envsLock>>

\* EnvWrap::EnvWrap: env, currentReadTxn and readTxnRenewed start cleared.
\* arg is the path of the open() call in progress, hook whether open()
\* registered the cleanup hook, rtxn the state of currentReadTxn.
Unborn == [pc |-> "unborn", env |-> NoEnv, arg |-> NoPath, hook |-> FALSE,
           rtxn |-> "null", renewed |-> FALSE]

Init ==
  /\ ew = [w \in Wrappers |-> Unborn]
  /\ handle = [w \in Wrappers |-> "none"]
  /\ closes = [w \in Wrappers |-> 0]
  /\ envs = << >>
  /\ envsLock = NoEnv

\* mdbx_env_close of handle h.
CloseHandle(h) ==
  /\ handle' = [handle EXCEPT ![h] = "closed"]
  /\ closes' = [closes EXCEPT ![h] = @ + 1]

\* The registry index of the entry for a path, or for an env; 0 when none.
FindPath(p) == SelectInSeq(envs, LAMBDA e : e.path = p)
FindEnv(h) == SelectInSeq(envs, LAMBDA e : e.env = h)

-----------------------------------------------------------------------------
(* EnvWrap::ctor: new EnvWrap, then mdbx_env_create.  On failure the       *)
(* handle pointer is nullptr and the constructor throws.                   *)

Ctor(w) ==
  /\ ew[w].pc = "unborn"
  /\ \/ /\ handle' = [handle EXCEPT ![w] = "created"]
        /\ ew' = [ew EXCEPT ![w].pc = "ready", ![w].env = w]
     \/ /\ MdbxCanFail
        /\ ew' = [ew EXCEPT ![w].pc = "dead"]
        /\ UNCHANGED handle
  /\ UNCHANGED <<closes, envs, envsLock>>

(* EnvWrap::open.  The JavaScript wrapper calls it once, right after the   *)
(* constructor; a call on a closed wrapper throws before any state change. *)

OpenCall(w, p) ==
  /\ ew[w].pc = "ready"
  /\ ew[w].env # NoEnv
  /\ ew[w].arg = NoPath
  /\ ew' = [ew EXCEPT ![w].pc = "opening", ![w].arg = p]
  /\ UNCHANGED <<handle, closes, envs, envsLock>>

\* Mutant: the wrapper adopts the registered env before closing "its own",
\* so the registered handle is the one closed.
OpenFoundClosesShared(w) ==
  LET i == FindPath(ew[w].arg)
  IN  /\ ew[w].pc = "opening"
      /\ envsLock = NoEnv
      /\ i # 0
      /\ CloseHandle(envs[i].env)
      /\ ew' = [ew EXCEPT ![w].pc = "ready", ![w].env = envs[i].env]
      /\ UNCHANGED <<envs, envsLock>>

\* The loop "for (env_path_t envPath : envs)" finds the path: it bumps the
\* count of its copy envPath, so envs itself is left as it was, closes the
\* wrapper's own handle, adopts the registered one and unlocks.
OpenFound(w) ==
  LET i == FindPath(ew[w].arg)
  IN  /\ ew[w].pc = "opening"
      /\ envsLock = NoEnv
      /\ i # 0
      /\ CloseHandle(ew[w].env)
      /\ ew' = [ew EXCEPT ![w].pc = "ready", ![w].env = envs[i].env]
      /\ UNCHANGED <<envs, envsLock>>

\* Mutant: the lookup never matches (the paths compared as pointers, not
\* with strcmp), so a second open of a path creates a second handle.
OpenFreshIgnoringRegistry(w) ==
  LET h == ew[w].env
      p == ew[w].arg
  IN  /\ ew[w].pc = "opening"
      /\ envsLock = NoEnv
      /\ \/ /\ SettingsCanFail
            /\ ew' = [ew EXCEPT ![w].pc = "ready"]
            /\ UNCHANGED <<handle, closes, envs, envsLock>>
         \/ /\ ReadersCanFail
            /\ ew' = [ew EXCEPT ![w].pc = "ready"]
            /\ envsLock' = w
            /\ UNCHANGED <<handle, closes, envs>>
         \/ /\ MdbxCanFail
            /\ CloseHandle(h)
            /\ ew' = [ew EXCEPT ![w].pc = "ready", ![w].env = NoEnv]
            /\ UNCHANGED <<envs, envsLock>>
         \/ /\ handle' = [handle EXCEPT ![h] = "open"]
            /\ ew' = [ew EXCEPT ![w].pc = "ready", ![w].hook = TRUE]
            /\ envs' = Append(envs, [path |-> p, env |-> h, count |-> 1])
            /\ UNCHANGED <<closes, envsLock>>

\* A miss: set maxDbs, mapSize and maxReaders, then mdbx_env_open, all with
\* envsLock held.  A rejected maxDbs or mapSize unlocks and throws; a
\* rejected maxReaders throws without unlocking; a failed mdbx_env_open
\* closes the handle, unlocks and clears env; success registers the cleanup
\* hook, appends the entry with count 1 and unlocks.
OpenFresh(w) ==
  LET h == ew[w].env
      p == ew[w].arg
  IN  /\ ew[w].pc = "opening"
      /\ envsLock = NoEnv
      /\ FindPath(p) = 0
      /\ \/ /\ SettingsCanFail
            /\ ew' = [ew EXCEPT ![w].pc = "ready"]
            /\ UNCHANGED <<handle, closes, envs, envsLock>>
         \/ /\ ReadersCanFail
            /\ ew' = [ew EXCEPT ![w].pc = "ready"]
            /\ envsLock' = w
            /\ UNCHANGED <<handle, closes, envs>>
         \/ /\ MdbxCanFail
            /\ CloseHandle(h)
            /\ ew' = [ew EXCEPT ![w].pc = "ready", ![w].env = NoEnv]
            /\ UNCHANGED <<envs, envsLock>>
         \/ /\ handle' = [handle EXCEPT ![h] = "open"]
            /\ ew' = [ew EXCEPT ![w].pc = "ready", ![w].hook = TRUE]
            /\ envs' = Append(envs, [path |-> p, env |-> h, count |-> 1])
            /\ UNCHANGED <<closes, envsLock>>

(* EnvWrap::close: Unref, throw if env is already nullptr, closeEnv.       *)

CloseCall(w) ==
  /\ ew[w].pc = "ready"
  /\ ew[w].env # NoEnv
  /\ ew' = [ew EXCEPT ![w].pc = "closing"]
  /\ UNCHANGED <<handle, closes, envs, envsLock>>

\* The thread's Node environment is torn down: the cleanup hook, if open()
\* registered one, runs closeEnv; it is never removed by close().
ExitHook(w) ==
  /\ ew[w].pc = "ready"
  /\ ew[w].hook
  /\ ew' = [ew EXCEPT ![w].pc = "exiting"]
  /\ UNCHANGED <<handle, closes, envs, envsLock>>

Exit(w) ==
  /\ ew[w].pc = "ready"
  /\ ~ew[w].hook
  /\ ew' = [ew EXCEPT ![w].pc = "exited"]
  /\ UNCHANGED <<handle, closes, envs, envsLock>>

\* Mutant: the entry is erased only when the count goes negative.
CloseEnvOffByOne(w) ==
  LET i    == FindEnv(ew[w].env)
      last == i # 0 /\ envs[i].count - 1 < 0
  IN  /\ ew[w].pc \in {"closing", "exiting"}
      /\ envsLock = NoEnv
      /\ envs' = CASE i = 0 -> envs
                   [] last  -> RemoveAt(envs, i)
                   [] OTHER -> [envs EXCEPT ![i].count = @ - 1]
      /\ IF last THEN CloseHandle(envs[i].env)
                 ELSE UNCHANGED <<handle, closes>>
      /\ ew' = [ew EXCEPT ![w].pc = IF @ = "closing" THEN "ready" ELSE "exited",
                          ![w].env = NoEnv]
      /\ UNCHANGED envsLock

\* Mutant: the last reference closes the handle but leaves the entry.
CloseEnvKeepEntry(w) ==
  LET i    == FindEnv(ew[w].env)
      last == i # 0 /\ envs[i].count - 1 <= 0
  IN  /\ ew[w].pc \in {"closing", "exiting"}
      /\ envsLock = NoEnv
      /\ envs' = IF i = 0 THEN envs ELSE [envs EXCEPT ![i].count = @ - 1]
      /\ IF last THEN CloseHandle(envs[i].env)
                 ELSE UNCHANGED <<handle, closes>>
      /\ ew' = [ew EXCEPT ![w].pc = IF @ = "closing" THEN "ready" ELSE "exited",
                          ![w].env = NoEnv]
      /\ UNCHANGED envsLock

\* EnvWrap::closeEnv: under envsLock, find the entry whose env is this
\* wrapper's, decrement it, and when the count is no longer positive erase
\* it and close the handle; then env = nullptr.  A wrapper whose env is
\* not registered (nullptr, or a handle whose open failed) changes nothing
\* but its own env.  cleanupStrayTxns ends the TxnWrap read transactions,
\* not currentReadTxn.
CloseEnv(w) ==
  LET i    == FindEnv(ew[w].env)
      last == i # 0 /\ envs[i].count - 1 <= 0
  IN  /\ ew[w].pc \in {"closing", "exiting"}
      /\ envsLock = NoEnv
      /\ envs' = CASE i = 0 -> envs
                   [] last  -> RemoveAt(envs, i)
                   [] OTHER -> [envs EXCEPT ![i].count = @ - 1]
      /\ IF last THEN CloseHandle(envs[i].env)
                 ELSE UNCHANGED <<handle, closes>>
      /\ ew' = [ew EXCEPT ![w].pc = IF @ = "closing" THEN "ready" ELSE "exited",
                          ![w].env = NoEnv]
      /\ UNCHANGED envsLock

(* The read-transaction manager, EnvWrap::getReadTxn and                   *)
(* resetCurrentReadTxn.  No write transaction is open in this module, so   *)
(* getReadTxn's first branch (return writeTxn->txn) is not taken; a call   *)
(* that finds readTxnRenewed set returns the cached txn unchanged.         *)

\* A reset txn is renewed; with none, a read-only txn is begun on env and
\* cached (mdbx_txn_begin on nullptr fails and leaves it nullptr).
GetReadTxn(w) ==
  /\ ew[w].pc = "ready"
  /\ ~ew[w].renewed
  /\ ew' = [ew EXCEPT ![w].renewed = TRUE,
                      ![w].rtxn = IF @ = "null" /\ ew[w].env = NoEnv
                                  THEN "null" ELSE "live"]
  /\ UNCHANGED <<handle, closes, envs, envsLock>>

ResetReadTxn(w) ==
  /\ ew[w].pc = "ready"
  /\ ew[w].renewed
  /\ ew' = [ew EXCEPT ![w].renewed = FALSE,
                      ![w].rtxn = IF @ = "live" THEN "reset" ELSE @]
  /\ UNCHANGED <<handle, closes, envs, envsLock>>

-----------------------------------------------------------------------------

\* Every thread has finished: nothing is left to do.
Terminated == \A w \in Wrappers : ew[w].pc \in {"exited", "dead"}

Next ==
  \/ \E w \in Wrappers :
       \/ Ctor(w)
       \/ \E p \in Paths : OpenCall(w, p)
       \/ OpenFound(w) \/ OpenFresh(w)
       \/ CloseCall(w) \/ ExitHook(w) \/ Exit(w) \/ CloseEnv(w)
       \/ GetReadTxn(w) \/ ResetReadTxn(w)
  \/ Terminated /\ UNCHANGED vars

\* A thread inside open or closeEnv is runnable whenever envsLock is free,
\* and envsLock is free between steps unless an open leaked it, so weak
\* fairness of each thread's step is what the OS scheduler gives.  The
\* calls themselves (open, close, reads, thread exit) are the program's
\* choice and carry no fairness.
Fairness ==
  \A w \in Wrappers : WF_vars(OpenFound(w) \/ OpenFresh(w) \/ CloseEnv(w))

Spec == Init /\ [][Next]_vars /\ Fairness

-----------------------------------------------------------------------------
(* Properties.                                                             *)

TypeOK ==
  /\ ew \in [Wrappers -> [pc: Pcs, env: Wrappers \cup {NoEnv},
                          arg: Paths \cup {NoPath}, hook: BOOLEAN,
                          rtxn: {"null", "live", "reset"}, renewed: BOOLEAN]]
  /\ handle \in [Wrappers -> HandleState]
  /\ closes \in [Wrappers -> Nat]
  /\ envs \in Seq([path: Paths, env: Wrappers,
                   count: 1 .. Cardinality(Wrappers)])
  /\ envsLock \in Wrappers \cup {NoEnv}

\* mdbx_env_close is called at most once on every handle: neither the
\* reopen path of open() (which closes the wrapper's own handle), nor the
\* failed-open path, nor closeEnv on the last reference, nor a second
\* closeEnv from the cleanup hook after close(), frees a handle twice.
NoDoubleClose == \A h \in Wrappers : closes[h] <= 1

\* Every handle in the registry is open: closeEnv erases an entry before
\* it closes its handle, and the reopen path of open() closes only the
\* wrapper's own unregistered handle.
RegistryEnvsOpen == \A i \in 1 .. Len(envs) : handle[envs[i].env] = "open"

\* Two wrappers that hold open handles for the same path hold the same
\* handle: open() looks the path up and appends the new entry under one
\* hold of envsLock (env.cpp:193 to the push_back), so two threads opening
\* one file never both miss the lookup, and the process never has the file
\* open through two MDBX handles.
OnePathOneHandle ==
  \A w1, w2 \in Wrappers :
    LET Holds(w) == /\ ew[w].pc \notin {"exited", "dead"}
                    /\ ew[w].env # NoEnv
                    /\ handle[ew[w].env] = "open"
    IN  (Holds(w1) /\ Holds(w2) /\ ew[w1].arg = ew[w2].arg)
          => ew[w1].env = ew[w2].env

\* No live wrapper holds a handle that has been closed: a wrapper that
\* adopted a registered env keeps it open until it closes it itself, as
\* the registry's count promises (spec section 4.C).
NoUseAfterClose ==
  \A w \in Wrappers :
    (ew[w].pc \notin {"exited", "dead"} /\ ew[w].env # NoEnv)
      => handle[ew[w].env] # "closed"
=============================================================================
