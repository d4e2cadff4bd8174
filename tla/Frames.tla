-------------------------------- MODULE Frames --------------------------------
(***************************************************************************)
(* The QSAFE container format of src/src/crypto_utils.c and                *)
(* src/docs/FORMAT.md as values: cells instead of bytes, and AEAD frames,  *)
(* recipient records and signatures that open exactly as they were made.   *)
(***************************************************************************)
EXTENDS Integers, Sequences, SequencesExt

CONSTANTS
    FrameSize,      \* QSAFE_FRAME_SIZE, in cells
    TrailerSize     \* QSAFE_TRAILER_SIZE, in cells; META is one cell

ASSUME FramesAssumption ==
    /\ FrameSize \in Nat \ {0, 1}       \* META leaves room in the first frame
    /\ TrailerSize \in Nat \ {0}

Unknown == -1                            \* QSAFE_LEN_UNKNOWN

(* The header: magic and one record per recipient, wrapping the CEK.       *)
Header(ver, recs) == [ver |-> ver, recs |-> recs]
NoHdr == Header("none", <<>>)
Record(to, cek) == [to |-> to, cek |-> cek]

(* The first record that opens under the key of who gives the CEK.         *)
Unwraps(hdr, who) == \E i \in DOMAIN hdr.recs : hdr.recs[i].to = who
UnwrapCek(hdr, who) == hdr.recs[SelectInSeq(hdr.recs, LAMBDA r : r.to = who)].cek

Meta(present, signed, pad, len) ==
    [present |-> present, signed |-> signed, padded |-> pad > 0, len |-> len, pad |-> pad]
NoMeta == Meta(FALSE, FALSE, 0, Unknown)

(* The trailer: the embedded public key, and a signature made with the key *)
(* of by over header, META and contents.                                   *)
Trailer(pk, by, hdr, meta, data) ==
    [pk |-> pk, by |-> by, hdr |-> hdr, meta |-> meta, data |-> data]
NoTrailer == Trailer("none", "none", NoHdr, NoMeta, <<>>)

SignatureOk(t, hdr, meta, data) ==
    t.by = t.pk /\ t.by # "none" /\ t.hdr = hdr /\ t.meta = meta /\ t.data = data

(* One cell of the plaintext stream META | contents | trailer | padding.   *)
Cell(t, k, meta, trailer) == [t |-> t, k |-> k, meta |-> meta, trailer |-> trailer]
DataCell(k) == Cell("data", k, NoMeta, NoTrailer)
MetaCell(m) == Cell("meta", 0, m, NoTrailer)
TrailerCells(t) == [i \in 1 .. TrailerSize |-> Cell("trailer", i, NoMeta, t)]
PadCells(n) == [i \in 1 .. n |-> Cell("pad", 0, NoMeta, NoTrailer)]
JunkCell == Cell("junk", 0, NoMeta, NoTrailer)

DataCells(data) == [i \in DOMAIN data |-> DataCell(data[i])]
Contents(cells) == [i \in DOMAIN cells |-> IF cells[i].t = "data" THEN cells[i].k ELSE Unknown]

(* crypto_padme_size.                                                      *)
FloorLog2(n) == CHOOSE e \in 0 .. n : 2 ^ e <= n /\ n < 2 ^ (e + 1)

PadmeSize(len) ==
    LET lastBits == FloorLog2(len) - (FloorLog2(FloorLog2(len)) + 1)
    IN  IF len < 2 \/ lastBits <= 0 THEN len
        ELSE ((len + 2 ^ lastBits - 1) \div 2 ^ lastBits) * 2 ^ lastBits

(* A frame is sealed under the CEK with a nonce made of its counter and    *)
(* final flag; ok is lost when the bytes are changed.                      *)
Frame(cek, ctr, last, aad, body) ==
    [cek |-> cek, ctr |-> ctr, last |-> last, aad |-> aad, body |-> body, ok |-> TRUE]

(* The header is the additional data of frame 0 only.                      *)
AadAt(hdr, ctr) == IF ctr = 0 THEN hdr ELSE NoHdr

OpensFrame(cek, ctr, last, aad, fr) ==
    fr.ok /\ fr.cek = cek /\ fr.ctr = ctr /\ fr.last = last /\ fr.aad = aad

(* The frames of a whole plaintext stream: full ones, then a shorter one.  *)
SealStream(cek, hdr, cells) ==
    [i \in 1 .. (Len(cells) \div FrameSize) + 1 |->
        Frame(cek, i - 1, i = (Len(cells) \div FrameSize) + 1, AadAt(hdr, i - 1),
              SubSeq(cells, (i - 1) * FrameSize + 1, Min({i * FrameSize, Len(cells)})))]

Complete(frames) == frames # <<>> /\ frames[Len(frames)].last

Take(s, n) == SubSeq(s, 1, Min({n, Len(s)}))
Drop(s, n) == SubSeq(s, n + 1, Len(s))
===============================================================================
