------------------------------- MODULE Envelope -------------------------------
(***************************************************************************)
(* The compressed-value envelope of lmdbx-js (src/compression.cpp,         *)
(* src/misc.cpp).                                                          *)
(*                                                                         *)
(* Compression::compress prefixes an LZ4 block with a sentinel byte and    *)
(* the uncompressed length: 0xFE and 3 length bytes below 2^24 bytes, 0xFF *)
(* and the length in bytes 2..7 from 2^24 on.  On the read path            *)
(* getVersionAndUncompress treats a record whose first byte is 250 or more *)
(* as compressed and Compression::decompress decodes the header (0xFF:     *)
(* bytes 4..7) into the length it hands LZ4_decompress_safe.               *)
(*                                                                         *)
(* A value is abstracted to its length and first byte; its LZ4 block is   *)
(* the value itself, which decodes to exactly len bytes.  Lengths are      *)
(* numbers with the width the code gives them, so the header arithmetic    *)
(* is checked at the 2^24 and LZ4_MAX_INPUT_SIZE boundaries.               *)
(***************************************************************************)
EXTENDS Naturals

CONSTANTS
  Threshold,    \* Compression::compressionThreshold
  Lens,         \* value lengths a put may carry (uint32, compression.cpp:102)
  Firsts,       \* first bytes a value may start with
  BufferSizes   \* decompressSize values Compression::setBuffer may install

ASSUME /\ Threshold \in Nat
       /\ Lens \subseteq Nat   \* uint32 lengths, as far as TLC's integers reach
       /\ Firsts \subseteq 0 .. 255
       /\ BufferSizes \subseteq Nat

\* LZ4_MAX_INPUT_SIZE: LZ4_COMPRESSBOUND is 0 above it and the int input
\* size of LZ4_compress_fast_continue cannot carry it, so LZ4 returns 0.
LZ4MaxInput == 2113929216

Value == {v \in [len: Lens, first: Firsts] : v.len = 0 => v.first = 0}

\* A header byte compress() never writes (byte 1 of the 0xFF header).
Unset == 256

\* x >> 8k, one byte at a time (2^40 is beyond TLC's integers).
RECURSIVE ShiftBytes(_, _)
ShiftBytes(x, k) == IF k = 0 THEN x ELSE ShiftBytes(x \div 256, k - 1)

\* Byte k (0 = least significant) of x: (uint8_t)(x >> 8k).
ByteOf(x, k) == ShiftBytes(x, k) % 256

\* The big-endian number in bytes i..j of a header.
RECURSIVE BigEndian(_, _, _)
BigEndian(h, i, j) == IF j < i THEN 0 ELSE BigEndian(h, i, j - 1) * 256 + h[j]

\* A stored record: its header bytes 0..7 (for a raw record byte 0 is the
\* value's first byte) and the data behind them, the value itself.
Record == [hdr: [0 .. 7 -> 0 .. 256], data: Value, packed: BOOLEAN]

Raw(v) == [hdr |-> [i \in 0 .. 7 |-> IF i = 0 THEN v.first ELSE Unset],
           data |-> v, packed |-> FALSE]

\* The JavaScript encoder marks a value COMPRESSIBLE when it is long enough
\* or starts with a byte the reader would take for a sentinel.
Compressible(v) == v.len >= Threshold \/ (v.len > 0 /\ v.first >= 250)

\* Compression::compress: the value is left as is (freeValue, which
\* compressInstruction passes as nullptr) below the threshold unless it
\* starts with 250 or more; LZ4 fails (nullptr) on what it cannot take.
KeptRaw(v) == v.len < Threshold /\ ~(v.len > 0 /\ v.first >= 250)
LZ4Fails(v) == v.len > LZ4MaxInput

\* The header compress() writes in front of the LZ4 block.
Header(v) ==
  IF v.len >= 2^24
  THEN [i \in 0 .. 7 |-> CASE i = 0 -> 255
                           [] i = 1 -> Unset
                           [] OTHER -> ByteOf(v.len, 7 - i)]
  ELSE [i \in 0 .. 7 |-> CASE i = 0 -> 254
                           [] i \in 1 .. 3 -> ByteOf(v.len, 3 - i)
                           [] OTHER -> Unset]

Packed(v) == [hdr |-> Header(v), data |-> v, packed |-> TRUE]

\* Compression::decompress: the status bytes it knows, and the length a
\* header with one of them claims.
Sentinel == {254, 255}

Claimed(r) == IF r.hdr[0] = 254 THEN BigEndian(r.hdr, 1, 3)
                                ELSE BigEndian(r.hdr, 4, 7)

\* getVersionAndUncompress then decompress, with the decompress buffer of
\* size n.  LZ4_decompress_safe into a capacity smaller than the block's
\* output fails; into a larger one it succeeds and data.iov_len is the
\* claimed length.  Raw bytes handed to LZ4 as a block decode to garbage.
Ok(v) == [kind |-> "ok", val |-> v]
Failed(kind) == [kind |-> kind, val |-> [len |-> 0, first |-> 0]]

ReadBack(r, n) ==
  LET len == Claimed(r)
  IN  CASE (~r.packed /\ r.data.len = 0) \/ r.hdr[0] < 250 -> Ok(r.data)
        [] r.hdr[0] \notin Sentinel -> Failed("invalid")
        [] len > n -> Failed("invalid")
        [] ~r.packed -> Failed("garbage")
        [] r.data.len > len -> Failed("invalid")
        [] OTHER -> Ok([len |-> len, first |-> r.data.first])

-----------------------------------------------------------------------------

VARIABLES
  stored,          \* a put has stored a record
  value,           \* the value of the last put that was stored
  rec,             \* the stored record
  got,             \* the last read: what it returned and decompressSize then
  outcome,         \* whether the last compressInstruction succeeded
  decompressSize   \* Compression::decompressSize

vars == <<stored, value, rec, got, outcome, decompressSize>>

NoRead == [res |-> Failed("none"), size |-> 0]

\* Compression::ctor: decompressSize starts at 0.
Init ==
  /\ stored = FALSE
  /\ value = [len |-> 0, first |-> 0]
  /\ rec = Raw(value)
  /\ got = NoRead
  /\ outcome = "none"
  /\ decompressSize = 0

\* Compression::setBuffer installs a new decompress buffer.
SetBuffer(n) ==
  /\ decompressSize' = n
  /\ UNCHANGED <<stored, value, rec, got, outcome>>

\* A put the writer stores as it is.
PutRaw(v) ==
  /\ ~Compressible(v)
  /\ stored' = TRUE
  /\ value' = v
  /\ rec' = Raw(v)
  /\ got' = NoRead
  /\ outcome' = "raw"
  /\ UNCHANGED decompressSize

\* Mutant: the long header is used only above 2^24.
CompressOffByOne(v) ==
  /\ ~KeptRaw(v)
  /\ ~LZ4Fails(v)
  /\ stored' = TRUE
  /\ value' = v
  /\ rec' = [Packed(v) EXCEPT !.hdr =
               IF v.len > 2^24 THEN Header(v)
               ELSE [i \in 0 .. 7 |-> CASE i = 0 -> 254
                                        [] i \in 1 .. 3 -> ByteOf(v.len, 3 - i)
                                        [] OTHER -> Unset]]
  /\ got' = NoRead
  /\ outcome' = "compressed"
  /\ UNCHANGED decompressSize

\* compressInstruction of a COMPRESSIBLE put: compress() succeeds, the new
\* pointer and length replace the value.
Compress(v) ==
  /\ ~KeptRaw(v)
  /\ ~LZ4Fails(v)
  /\ stored' = TRUE
  /\ value' = v
  /\ rec' = Packed(v)
  /\ got' = NoRead
  /\ outcome' = "compressed"
  /\ UNCHANGED decompressSize

\* compress() returns nullptr: compressInstruction reports failure and the
\* value is not replaced (WriteWorker models what the writer then does).
CompressFail(v) ==
  /\ KeptRaw(v) \/ LZ4Fails(v)
  /\ outcome' = "failed"
  /\ UNCHANGED <<stored, value, rec, got, decompressSize>>

PutCompressible(v) ==
  /\ Compressible(v)
  /\ Compress(v) \/ CompressFail(v)

\* A read of the record.
Get ==
  /\ stored
  /\ got' = [res |-> ReadBack(rec, decompressSize), size |-> decompressSize]
  /\ UNCHANGED <<stored, value, rec, outcome, decompressSize>>

Next ==
  \/ \E n \in BufferSizes : SetBuffer(n)
  \/ \E v \in Value : PutRaw(v) \/ PutCompressible(v)
  \/ Get

Spec == Init /\ [][Next]_vars

-----------------------------------------------------------------------------

TypeOK ==
  /\ stored \in BOOLEAN
  /\ value \in Value
  /\ rec \in Record
  /\ got \in [res: [kind: {"none", "ok", "invalid", "garbage"}, val: Value],
              size: Nat]
  /\ outcome \in {"none", "raw", "compressed", "failed"}
  /\ decompressSize \in BufferSizes \cup {0}

\* What a read returns is the value last stored, byte for byte, or an
\* explicit invalid record when a compressed value is longer than the
\* decompress buffer installed at the time of the read: never a value of
\* another length, and never raw bytes decoded as an LZ4 block.  This is
\* the round trip of compress/getVersionAndUncompress/decompress, its
\* sentinel rule for first bytes of 250 and up, and its 0xFE/0xFF headers
\* across the 2^24 boundary (spec section 8.3, S2 and S6).
RoundTrip ==
  got.res.kind # "none" =>
    \/ got.res = Ok(value)
    \/ /\ got.res.kind = "invalid"
       /\ rec.packed
       /\ value.len > got.size
=============================================================================
