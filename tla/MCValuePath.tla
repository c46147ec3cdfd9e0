----------------------------- MODULE MCValuePath -----------------------------
(***************************************************************************)
(* The value formats of a record, checked in one run: the compression     *)
(* envelope (Envelope) and the version prefix with version-checked writes *)
(* (VersionedWrite).  getVersionAndUncompress handles both on one read,   *)
(* but each model has its own dbi and the two share no variable: the run  *)
(* interleaves their steps and checks the properties of each.             *)
(*                                                                         *)
(* Envelope: the threshold of scenario S2, lengths on both sides of the   *)
(* threshold, of 2^24 (the 0xFE/0xFF switch) and of LZ4_MAX_INPUT_SIZE,   *)
(* and first bytes on both sides of 250 and on the two sentinels.  TLC's  *)
(* integers stop at 2^31 - 1, so LZ4MaxInput + 1 stands for every uint32  *)
(* length LZ4 refuses, up to 2^32 - 1.                                    *)
(*                                                                         *)
(* VersionedWrite: two keys so that a block's version check and the puts  *)
(* inside it can be about different records, two values and two versions *)
(* so that a check can fail on a present record, and two levels of blocks *)
(* so that a failed block can enclose a held one and the other way round. *)
(***************************************************************************)
EXTENDS Naturals

CONSTANTS k1, k2, v1, v2, CheckedPut

VARIABLES stored, value, rec, got, outcome, decompressSize,
          db, cdepth, vdepth, ref, conds

MCLens == {0, 1, 15, 16, 16777215, 16777216, 16777217, 2113929216,
           2113929217}
MCFirsts == {0, 249, 250, 254, 255}
MCBufferSizes == {0, 65536, 2147483647}

E == INSTANCE Envelope
       WITH Threshold <- 16, Lens <- MCLens, Firsts <- MCFirsts,
            BufferSizes <- MCBufferSizes

W == INSTANCE VersionedWrite
       WITH Keys <- {k1, k2}, Vals <- {v1, v2}, Versions <- {1, 2},
            MaxDepth <- 2

envelopeVars == <<stored, value, rec, got, outcome, decompressSize>>
versionedVars == <<db, cdepth, vdepth, ref, conds>>

Spec ==
  /\ E!Init /\ W!Init
  /\ [][\/ E!Next /\ UNCHANGED versionedVars
        \/ W!Next /\ UNCHANGED envelopeVars]_<<envelopeVars, versionedVars>>

\* A put, raw or compressed, reads back byte for byte, or as an explicit
\* invalid record when the decompress buffer is too small
\* (Compression::compress, getVersionAndUncompress, Compression::decompress).
RoundTrip == E!RoundTrip

\* The versioned dbi's variables keep their types, and validatedDepth never
\* exceeds conditionDepth (DoWrites' BLOCK_END).
VersionedTypeOK == W!TypeOK

\* DoWrites' two depth counters agree with the nesting of condition
\* blocks: validated exactly when every enclosing block held.
ValidatedIffAllEnclosing == W!ValidatedIffAllEnclosing

\* A versioned reader gets the version and value of the last put that
\* took effect (putWithVersion, CONDITIONAL_VERSION in DoWrites,
\* getVersionAndUncompress).
StoreMatchesReference == W!StoreMatchesReference
=============================================================================
