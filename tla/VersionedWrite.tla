---------------------------- MODULE VersionedWrite ----------------------------
(***************************************************************************)
(* Versioned records and version-checked writes in lmdbx-js               *)
(* (src/writer.cpp DoWrites, src/misc.cpp putWithVersion and               *)
(* getVersionAndUncompress).                                               *)
(*                                                                         *)
(* One DoWrites call executes a stream of instructions on a dbi opened     *)
(* with versions.  A PUT with SET_VERSION stores the version as an 8-byte  *)
(* prefix in front of the value (putWithVersion); a reader strips the     *)
(* prefix and exposes it as the record's version.  CONDITIONAL_VERSION on *)
(* a PUT, a DEL or a START_CONDITION_BLOCK fetches the stored record with  *)
(* mdbx_get and validates when its first 8 bytes equal the given version; *)
(* condition blocks nest through the two counters conditionDepth and      *)
(* validatedDepth.  PUT (15) and DEL (13) carry the CONDITIONAL bit in     *)
(* their opcode, so they take effect only when validated.                  *)
(*                                                                         *)
(* A stored record is abstracted to the sequence of its 8-byte words: a   *)
(* version or a value (values are model values, one word each).  The      *)
(* store's contract (spec sections 4.G and 8: a block's effects happen iff *)
(* its predicate and every enclosing one held; a put stores its version   *)
(* and its value) is kept beside the code's state as a reference: the     *)
(* key-to-(version, value) map ref and the stack of block outcomes.        *)
(***************************************************************************)
EXTENDS Naturals, Sequences

CONSTANTS
  Keys,        \* keys of the dbi
  Vals,        \* values a put may carry (one 8-byte word each)
  Versions,    \* versions (doubles) an instruction may carry
  MaxDepth,    \* bound: condition blocks open at once
  CheckedPut   \* the encoder puts CONDITIONAL_VERSION on a PUT itself

ASSUME /\ Versions \subseteq Nat
       /\ Vals \cap Versions = {}
       /\ MaxDepth \in Nat \ {0}
       /\ CheckedPut \in BOOLEAN

\* mdbx_get finds nothing: the empty record.
NotFound == <<>>

\* The reference's value for a key that holds nothing.
Missing == [ver |-> 0, val |-> <<>>, found |-> FALSE]

\* The version fields an instruction may carry: check is the
\* CONDITIONAL_VERSION bit, ver the double that follows it.
CondVersions == [check: BOOLEAN, ver: Versions]

VARIABLES
  db,       \* the dbi: key -> stored record (sequence of words)
  cdepth,   \* DoWrites' conditionDepth
  vdepth,   \* DoWrites' validatedDepth
  ref,      \* reference store: key -> [ver, val, found]
  conds     \* reference: the outcome of each open block's own predicate

vars == <<db, cdepth, vdepth, ref, conds>>

-----------------------------------------------------------------------------
(* The code.                                                               *)

\* The version check of CONDITIONAL_VERSION: mdbx_get returned 0 and the
\* first 8 bytes of what it found equal the instruction's version.
VersionMatches(r, v) == r # NotFound /\ Head(r) = v

\* Mutant: validated ignores the enclosing blocks.
ValidatedIgnoringDepth(k, cv) ==
  cv.check => VersionMatches(db[k], cv.ver)

\* validated = conditionDepth == validatedDepth, then the version check.
Validated(k, cv) ==
  /\ cdepth = vdepth
  /\ cv.check => VersionMatches(db[k], cv.ver)

\* The value a PUT hands to the store: the pointer and length decoded from
\* the instruction, unless the CONDITIONAL_VERSION fetch (into the same
\* MDBX_val value) found a record, which then replaces them.
PutValue(k, v, cv) ==
  IF cv.check /\ db[k] # NotFound THEN db[k] ELSE <<v>>

\* putWithVersion: reserve 8 more bytes, write the version, copy the data.
PutWithVersion(data, ver) == <<ver>> \o data

\* getVersionAndUncompress with hasVersions (no compression on this dbi):
\* the first 8 bytes are the version, the rest is the value.
ReadBack(r) ==
  IF r = NotFound THEN Missing
  ELSE [ver |-> Head(r), val |-> Tail(r), found |-> TRUE]

-----------------------------------------------------------------------------
(* The reference.                                                          *)

\* The effects of an instruction happen iff every open block held.
Active == \A i \in 1 .. Len(conds) : conds[i]

\* A version predicate on the reference store.
RefHolds(k, cv) == cv.check => ref[k].found /\ ref[k].ver = cv.ver

-----------------------------------------------------------------------------

\* A fresh dbi: nothing stored, no block open.
Init ==
  /\ db = [k \in Keys |-> NotFound]
  /\ cdepth = 0
  /\ vdepth = 0
  /\ ref = [k \in Keys |-> Missing]
  /\ conds = <<>>

\* PUT | SET_VERSION, with or without CONDITIONAL_VERSION.
Put(k, v, sv, cv) ==
  /\ cv.check => CheckedPut
  /\ db' = IF Validated(k, cv)
           THEN [db EXCEPT ![k] = PutWithVersion(PutValue(k, v, cv), sv)]
           ELSE db
  /\ ref' = IF Active /\ RefHolds(k, cv)
            THEN [ref EXCEPT ![k] = [ver |-> sv, val |-> <<v>>, found |-> TRUE]]
            ELSE ref
  /\ UNCHANGED <<cdepth, vdepth, conds>>

\* DEL, with or without CONDITIONAL_VERSION: mdbx_del(txn, dbi, &key,
\* nullptr) ignores the value the version fetch wrote.
Del(k, cv) ==
  /\ db' = IF Validated(k, cv) THEN [db EXCEPT ![k] = NotFound] ELSE db
  /\ ref' = IF Active /\ RefHolds(k, cv) THEN [ref EXCEPT ![k] = Missing]
                                          ELSE ref
  /\ UNCHANGED <<cdepth, vdepth, conds>>

\* START_BLOCK (cv.check = FALSE) or START_CONDITION_BLOCK with
\* CONDITIONAL_VERSION: neither carries CONDITIONAL, so the case always
\* runs; validatedDepth follows only a validated start.
StartBlock(k, cv) ==
  /\ cdepth < MaxDepth
  /\ cdepth' = cdepth + 1
  /\ vdepth' = IF Validated(k, cv) THEN vdepth + 1 ELSE vdepth
  /\ conds' = Append(conds, RefHolds(k, cv))
  /\ UNCHANGED <<db, ref>>

\* Mutant: validatedDepth is decremented on every BLOCK_END.
BlockEndAlways ==
  /\ cdepth > 0
  /\ cdepth' = cdepth - 1
  /\ vdepth' = IF vdepth > 0 THEN vdepth - 1 ELSE 0
  /\ conds' = SubSeq(conds, 1, Len(conds) - 1)
  /\ UNCHANGED <<db, ref>>

\* Mutant: validatedDepth is left alone by BLOCK_END.
BlockEndKeepValidated ==
  /\ cdepth > 0
  /\ cdepth' = cdepth - 1
  /\ UNCHANGED vdepth
  /\ conds' = SubSeq(conds, 1, Len(conds) - 1)
  /\ UNCHANGED <<db, ref>>

\* BLOCK_END: the encoder closes only blocks it opened.
BlockEnd ==
  /\ cdepth > 0
  /\ cdepth' = cdepth - 1
  /\ vdepth' = IF vdepth > cdepth - 1 THEN vdepth - 1 ELSE vdepth
  /\ conds' = SubSeq(conds, 1, Len(conds) - 1)
  /\ UNCHANGED <<db, ref>>

Next ==
  \/ \E k \in Keys, cv \in CondVersions :
       \/ \E v \in Vals, sv \in Versions : Put(k, v, sv, cv)
       \/ Del(k, cv)
       \/ StartBlock(k, cv)
  \/ BlockEnd

Spec == Init /\ [][Next]_vars

-----------------------------------------------------------------------------

TypeOK ==
  /\ db \in [Keys -> Seq(Versions \cup Vals)]
  /\ cdepth \in 0 .. MaxDepth
  /\ vdepth \in 0 .. cdepth
  /\ ref \in [Keys -> {Missing} \cup
                      [ver: Versions, val: {<<v>> : v \in Vals}, found: {TRUE}]]
  /\ conds \in Seq(BOOLEAN)

\* DoWrites tracks nesting with two counters instead of a stack: an
\* instruction is validated (conditionDepth == validatedDepth) exactly when
\* every enclosing condition block's own predicate held, however blocks
\* that failed and blocks that held are nested and closed (BLOCK_END's
\* conditional decrement of validatedDepth).
ValidatedIffAllEnclosing ==
  /\ cdepth = Len(conds)
  /\ (cdepth = vdepth) <=> Active

\* What a versioned reader gets back for every key (version and value,
\* putWithVersion then getVersionAndUncompress) is what the store's
\* contract says: the version and value of the last put that took effect,
\* where a put or delete inside a failed block or with a version that did
\* not match takes no effect (spec section 8, scenarios 4 and 5).
StoreMatchesReference ==
  \A k \in Keys : ReadBack(db[k]) = ref[k]
=============================================================================
