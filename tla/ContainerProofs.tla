--------------------------- MODULE ContainerProofs ---------------------------
(***************************************************************************)
(* Proofs about Container for every size of frame, trailer and buffer and  *)
(* every input.                                                            *)
(*                                                                         *)
(* The invariant describes a container by its stream, META | contents |    *)
(* trailer | padding: the writer's frames hold the stream as far as it has *)
(* come, the reader's sink holds what it has read of it taken apart, and a *)
(* container that was interfered with holds a frame of the original in its *)
(* place or one that does not open.                                        *)
(***************************************************************************)
EXTENDS Container, SequenceTheorems, FiniteSetTheorems, WellFoundedInduction, TLAPS

(***************************************************************************)
(* Types.                                                                  *)
(***************************************************************************)
AHeader ==
    [ver : {"none", "v5", "v6", "v7"}, recs : Seq([to : {"A", "B"}, cek : {Cek}])]
AMeta == [present : BOOLEAN, signed : BOOLEAN, padded : BOOLEAN, len : Int, pad : Nat]
ATrailer ==
    [pk : {"none", "S", "T"}, by : {"none", "S", "T"}, hdr : AHeader, meta : AMeta, data : Seq(Int)]
ACell == [t : {"data", "meta", "trailer", "pad", "junk"}, k : Int, meta : AMeta, trailer : ATrailer]
AFrame ==
    [cek : {Cek}, ctr : Nat, last : BOOLEAN, aad : AHeader, body : Seq(ACell), ok : BOOLEAN]
AFile ==
    [kind : {"none", "old", "plain", "cont", "armor"}, hdr : AHeader, frames : Seq(AFrame),
     data : Seq(Int), restored : BOOLEAN]

AnEnc ==
    [hdr : AHeader, meta : AMeta, ctr : Nat, left : Int, pos : Nat, done : BOOLEAN,
     trailer : ATrailer, trailer_off : Nat, pad_left : Nat, data : Seq(Int)]
ASink ==
    [hdr : AHeader, cek : {"none", Cek}, next : Nat \ {0}, meta_done : BOOLEAN, meta : AMeta,
     data : Seq(Int), tbuf : Seq(ACell), pad_seen : Nat, buf : Seq(Int), emit : Seq(Int),
     out : {"none", "res", "pipe"}, created : BOOLEAN, skipped : BOOLEAN, err : {"no", "input"}]

Types ==
    /\ fs \in [Name -> AFile]
    /\ enc \in AnEnc
    /\ sink \in ASink
    /\ truth \in Seq(Int)

(***************************************************************************)
(* Signatures: what claims to be signed with the key of S was signed.      *)
(***************************************************************************)
Genuine(S, t) == t.by = "S" => t \in S
GenuineCells(S, cells) == \A k \in 1 .. Len(cells) : Genuine(S, cells[k].trailer)
GenuineFile(S, f) == \A i \in 1 .. Len(f.frames) : GenuineCells(S, f.frames[i].body)

SaidInv ==
    /\ \A n \in Name : GenuineFile(said, fs[n])
    /\ Genuine(said, enc.trailer)
    /\ GenuineCells(said, sink.tbuf)

(***************************************************************************)
(* The stream of a container, and the container it is sealed into.         *)
(***************************************************************************)
TrailerPart(t) == IF t = NoTrailer THEN <<>> ELSE TrailerCells(t)
Stream(m, data, t) ==
    <<MetaCell(m)>> \o DataCells(data) \o TrailerPart(t) \o PadCells(m.pad)

(* The metadata m and the trailer t go with header h and contents data.    *)
Layout(h, m, data, t) ==
    /\ h \in AHeader /\ h.ver # "none" /\ h.recs # <<>> /\ h.recs[1].to = "A"
    /\ m \in AMeta
    /\ m.len \in {Unknown, Len(data)}
    /\ m.padded = (m.pad > 0)
    /\ m.pad > 0 => m.len # Unknown
    /\ m.signed = (t # NoTrailer)
    /\ h.ver # "v7" => ~m.signed /\ m.pad = 0 /\ m.len = Unknown
    /\ t = NoTrailer \/ \E pk \in {"S", "T"} : t = Trailer(pk, "S", h, m, data)

(* Frame i of the container, of so many cells, of the stream.              *)
FrameAt(h, cells, i, last, size, fr) ==
    /\ fr = Frame(Cek, i - 1, last, AadAt(h, i - 1), fr.body)
    /\ Len(fr.body) = size
    /\ \A k \in 1 .. size : fr.body[k] = cells[(i - 1) * FrameSize + k]

Sealed(frames, h, cells) ==
    IF h.ver = "v5" THEN frames = <<Frame(Cek, 0, TRUE, h, cells)>>
    ELSE LET n == Len(frames)
             rest == Len(cells) - (n - 1) * FrameSize
         IN  /\ n > 0 /\ rest >= 0 /\ rest < FrameSize
             /\ \A i \in 1 .. n :
                   FrameAt(h, cells, i, i = n, IF i = n THEN rest ELSE FrameSize, frames[i])

(* g is the container of truth as it was written.                          *)
Origin(g, h, m) ==
    /\ g \in AFile
    /\ Layout(h, m, truth, enc.trailer)
    /\ g = Cont(h, g.frames)
    /\ Sealed(g.frames, h, Stream(m, truth, enc.trailer))

(* f is what may have become of it.                                        *)
Derived(f, g) ==
    /\ f = [g EXCEPT !.hdr = f.hdr, !.frames = f.frames]
    /\ \A i \in 1 .. Len(f.frames) :
          ~f.frames[i].ok \/ \E j \in 1 .. Len(g.frames) : f.frames[i] = g.frames[j]

Outcome(f, g) ==
    /\ Derived(f, g)
    /\ touched = "no" => f = g
    /\ touched = "relay" => f # g

(***************************************************************************)
(* crypto_encrypt_file: what is written so far.                            *)
(***************************************************************************)
Encrypting == pc \in {"enc_open", "enc_frame", "enc_close", "armor"}

EncLayout(c, e) ==
    /\ e.hdr = EncHeader
    /\ e.meta.len \in Nat \cup {Unknown}
    /\ e.meta.padded = (e.meta.pad > 0)
    /\ e.meta.pad > 0 => e.meta.len # Unknown
    /\ e.meta.signed = (c.sign # "none")

EncStart(c, e) ==
    /\ EncLayout(c, e)
    /\ e = [NoEnc EXCEPT !.hdr = e.hdr, !.meta = e.meta, !.left = e.meta.len, !.pad_left = e.meta.pad]

EncParts(c, e) ==
    /\ EncLayout(c, e)
    /\ e.pos = Len(e.data)
    /\ e.left = IF e.meta.len = Unknown THEN Unknown ELSE e.meta.len - Len(e.data)
    /\ e.meta.len # Unknown => e.left >= 0
    /\ e.trailer = IF e.done /\ e.meta.signed
                   THEN Trailer(c.sign, "S", e.hdr, e.meta, e.data) ELSE NoTrailer
    /\ e.trailer_off <= Len(TrailerPart(e.trailer))
    /\ e.pad_left <= e.meta.pad
    /\ ~e.done => e.trailer_off = 0 /\ e.pad_left = e.meta.pad
    /\ e.done => e.meta.len \in {Unknown, Len(e.data)}
    /\ e.pad_left < e.meta.pad => e.trailer_off = Len(TrailerPart(e.trailer))

(* How many cells are written.                                             *)
EncUsed(e) == 1 + Len(e.data) + e.trailer_off + (e.meta.pad - e.pad_left)
EncFilled(e) ==
    IF e.ctr = 0 THEN ~e.done /\ e.data = <<>> ELSE e.ctr * FrameSize = EncUsed(e)

EncLoop(c, e, frames) ==
    /\ EncParts(c, e)
    /\ EncFilled(e)
    /\ Len(frames) = e.ctr
    /\ \A i \in 1 .. e.ctr :
          FrameAt(e.hdr, Stream(e.meta, e.data, e.trailer), i, FALSE, FrameSize, frames[i])

Written(f) ==
    /\ Layout(enc.hdr, enc.meta, enc.data, enc.trailer)
    /\ enc.hdr.ver = "v7"
    /\ f = Cont(enc.hdr, f.frames)
    /\ Sealed(f.frames, enc.hdr, Stream(enc.meta, enc.data, enc.trailer))

(* What was read is a beginning of the input, as long as nobody changes it. *)
ReadSoFar ==
    faults = 0 =>
        /\ Len(enc.data) <= Len(fs["in"].data)
        /\ \A i \in 1 .. Len(enc.data) : enc.data[i] = fs["in"].data[i]
        /\ enc.meta.len # Unknown /\ cmd.to # "in" => enc.meta.len = Len(fs["in"].data)
        /\ cmd.to = "in" => fs["in"].data = <<>>
        /\ enc.done => enc.data = fs["in"].data

Untouched(f) == f \in {NoFile, OldFile}

(* Which command is where; nobody but decryption writes to "res".          *)
Phases ==
    /\ pc = "idle" => cmd = NoCmd /\ Untouched(fs["res"])
    /\ cmd.op \in {"none", "enc", "dec"}
    /\ cmd.op = "none" => pc = "idle"
    /\ cmd.op = "enc" =>
          /\ cmd \in Encryption
          /\ Encrypting \/ pc \in {"ret", "crashed"}
          /\ Untouched(fs["res"])

IdleInv ==
    pc = "idle" =>
        /\ enc = NoEnc /\ rc = "none"
        /\ fs["in"].kind = "plain"
        /\ fs["tmp"] = NoFile /\ fs["pipe"] = NoFile
        /\ (Untouched(fs["out"]) /\ touched = "no") \/ fs["out"].kind = "cont"
        /\ touched \in {"no", "relay"}

EncInv ==
    cmd.op = "enc" =>
        /\ Encrypting /\ pc # "armor" => touched = "no" /\ fs["in"].kind \in {"plain", "cont"}
        /\ Encrypting /\ cmd.to # "out" => Untouched(fs["out"])
        /\ Encrypting /\ cmd.to # "tmp" => fs["tmp"] = NoFile
        /\ cmd.to = "in" => ~cmd.stdin
        /\ pc = "enc_open" =>
              /\ EncStart(cmd, enc)
              /\ fs["in"].kind = "plain" /\ Untouched(fs["out"])
              /\ fs["tmp"] = NoFile /\ fs["pipe"] = NoFile
              /\ faults = 0 /\ enc.meta.len # Unknown => enc.meta.len = Len(fs["in"].data)
        /\ pc = "enc_frame" =>
              /\ fs[cmd.to] = Cont(enc.hdr, fs[cmd.to].frames)
              /\ EncLoop(cmd, enc, fs[cmd.to].frames)
              /\ ReadSoFar
        /\ pc = "enc_close" =>
              Written(fs[cmd.to]) /\ (faults = 0 => enc.data = fs["in"].data)
        /\ pc = "armor" =>
              /\ cmd.to = "tmp" /\ rc = "ok"
              /\ truth = enc.data
              /\ touched \in {"no", "flush"}
              /\ \E g \in AFile : Written(g) /\ Outcome(fs["tmp"], g)
              /\ faults = 0 => truth = fs["in"].data

(* A command that has returned: crypto_encrypt_file and crypto_armor.      *)
EncReturned ==
    pc = "ret" /\ cmd.op = "enc" =>
        /\ fs["tmp"] = NoFile
        /\ rc = "ok" /\ cmd.to \notin {"out", "tmp"} => Untouched(fs["out"])
        /\ rc = "ok" /\ enc.hdr # NoHdr /\ faults = 0 => truth = fs["in"].data
        /\ rc = "ok" /\ touched = "no" =>
              LET f == fs[IF cmd.to = "tmp" THEN "out" ELSE cmd.to]
              IN  f.kind \in {"cont", "armor"} /\ Complete(f.frames)
        /\ rc # "ok" =>
              LET f == fs[IF cmd.to = "tmp" THEN "out" ELSE cmd.to]
              IN  (cmd.to # "pipe" => f.kind # "cont") /\ (f.kind = "armor" => rc = "io")

(* The second part, about encryption.                                      *)
EncAll ==
    /\ faults \in Nat
    /\ IdleInv
    /\ EncInv
    /\ EncReturned

(***************************************************************************)
(* crypto_decrypt_file: what the sink holds after j cells of the stream.   *)
(***************************************************************************)
Decrypting == pc \in {"dec_frame", "dec_finish", "dec_close"}

SinkAt(s, m, d, t, j) ==
    /\ s.err = "no"
    /\ s.meta_done = (j > 0)
    /\ j = 0 => s.data = <<>> /\ s.tbuf = <<>> /\ s.pad_seen = 0
    /\ j > 0 => s.meta = m /\ 1 + Len(s.data) + Len(s.tbuf) + s.pad_seen = j
    /\ Len(s.data) <= Len(d)
    /\ \A i \in 1 .. Len(s.data) : s.data[i] = d[i]
    /\ \A i \in 1 .. Len(s.tbuf) : s.tbuf[i] = Stream(m, d, t)[1 + Len(s.data) + i]
    /\ Len(s.tbuf) <= Len(TrailerPart(t))
    /\ s.pad_seen <= m.pad
    /\ s.pad_seen > 0 => Len(s.tbuf) = Len(TrailerPart(t))
    /\ m.len # Unknown /\ (s.tbuf # <<>> \/ s.pad_seen > 0) => Len(s.data) = Len(d)
    /\ m.len = Unknown /\ s.data # <<>> => Len(s.tbuf) = Len(TrailerPart(t))

(* The output, and what was handed to it.                                  *)
SinkOut(c, s, files) ==
    /\ ~s.meta_done => s.data = <<>> /\ ~s.skipped
    /\ c.to = "check" => s.out = "none"
    /\ c.to = "pipe" => s.out = IF s.meta_done THEN "pipe" ELSE "none"
    /\ c.to \in {"res", "dir"} =>
          /\ s.out = IF s.created THEN "res" ELSE "none"
          /\ s.meta_done => s.created # s.skipped
          /\ ~s.meta_done => ~s.created
          /\ s.created => files["res"].kind = "plain" /\ files["res"].data = s.data
    /\ c.to \notin {"res", "dir"} => ~s.created
    /\ ~s.created => Untouched(files["res"])
    /\ s.created => ~s.skipped

PipeOut(c, s, files, flushed) ==
    /\ c.to = "pipe" /\ Framed(s) => files["pipe"].data = s.data
    /\ c.to = "pipe" /\ ~Framed(s) =>
          s.buf = s.data /\ files["pipe"].data = IF flushed THEN s.data ELSE <<>>

Passed == sink.meta_done /\ FinishRc(sink) = "ok"

DecInv ==
    cmd.op = "dec" =>
        /\ cmd \in Decryption
        /\ Decrypting \/ pc \in {"ret", "crashed"}
        /\ fs["out"].kind \in {"cont", "armor"}
        /\ cmd.to # "pipe" => fs["pipe"].data = <<>>
        /\ Decrypting =>
              /\ sink.hdr = fs["out"].hdr
              /\ Stored = fs["out"].frames
              /\ Unwraps(sink.hdr, cmd.who) /\ sink.cek = UnwrapCek(sink.hdr, cmd.who)
              /\ SinkOut(cmd, sink, fs) /\ PipeOut(cmd, sink, fs, pc = "dec_close")
              /\ sink.err = "no"
        /\ pc = "dec_close" => Passed
        /\ pc = "ret" =>
              /\ fs["tmp"] = NoFile
              /\ rc \in {"ok", "skipped", "input", "integrity", "io"}
              /\ rc \in {"ok", "skipped"} =>
                    /\ Passed
                    /\ cmd.to = "pipe" => fs["pipe"].data = sink.data
              /\ fs["res"].kind = "plain" => rc = "ok"

(* As long as no recipient has made another container of it.               *)
SinkInv(g, h, m) ==
    LET cells == Stream(m, truth, enc.trailer)
    IN  /\ pc = "dec_frame" /\ Framed(sink) =>
              /\ sink.next > 1 => sink.hdr = h
              /\ sink.next <= Len(g.frames)
              /\ \A i \in 1 .. sink.next - 1 :
                    i <= Len(fs["out"].frames) /\ fs["out"].frames[i] = g.frames[i]
              /\ SinkAt(sink, m, truth, enc.trailer, (sink.next - 1) * FrameSize)
        /\ pc = "dec_frame" /\ ~Framed(sink) /\ PayloadAuthentic =>
              /\ fs["out"].frames = g.frames /\ sink.hdr = h
              /\ SinkAt(sink, m, truth, enc.trailer, Min({(sink.next - 1) * BufSize, Len(cells)}))
        /\ pc \in {"dec_finish", "dec_close"} =>
              /\ touched # "relay"
              /\ sink.hdr = h
              /\ SinkAt(sink, m, truth, enc.trailer, Len(cells))

ContOf(g, h, m) ==
    /\ Origin(g, h, m)
    /\ Outcome([fs["out"] EXCEPT !.kind = "cont"], g)
    /\ Decrypting => SinkInv(g, h, m)

ContInv ==
    /\ touched # "insider"
    /\ fs["out"].kind \in {"cont", "armor"}
    /\ pc = "idle" \/ (cmd.op = "enc" /\ pc = "ret" /\ rc = "ok") \/ Decrypting
    => \E g, h, m : ContOf(g, h, m)

InputInv ==
    cmd.op = "dec" /\ enc.hdr # NoHdr /\ faults = 0 => truth = fs["in"].data

(* crypto_decrypt_file has returned, and what has gone into the pipe.      *)
DecWhole ==
    /\ pc = "ret" /\ cmd.op = "dec" /\ touched \notin {"insider", "flush"}
    /\ fs["res"].kind = "plain"
    => rc = "ok" /\ fs["res"].data = truth

PipeInv ==
    cmd.op = "dec" /\ touched # "insider" =>
        /\ Len(fs["pipe"].data) <= Len(truth)
        /\ \A i \in 1 .. Len(fs["pipe"].data) : fs["pipe"].data[i] = truth[i]

(* The first part, of which types and signatures can be proved alone.      *)
BaseInv ==
    /\ Types
    /\ SaidInv
    /\ Phases
    /\ DecInv

(* The third part, about decryption.                                       *)
ContAll ==
    /\ ContInv
    /\ InputInv
    /\ DecWhole
    /\ PipeInv
    /\ TamperDetected
    /\ RoundTrip

IndInv == BaseInv /\ EncAll /\ ContAll

(***************************************************************************)
(* Numbers and sequences.                                                  *)
(***************************************************************************)
LEMMA MinOfTwo ==
    ASSUME NEW a \in Int, NEW b \in Int
    PROVE  Min({a, b}) = IF a <= b THEN a ELSE b
  BY DEF Min

LEMMA MaxOfTwo ==
    ASSUME NEW a \in Int, NEW b \in Int
    PROVE  Max({a, b}) = IF a >= b THEN a ELSE b
  BY DEF Max

LEMMA IsSequence ==
    ASSUME NEW S, NEW n \in Nat, NEW f \in [1 .. n -> S]
    PROVE  f \in Seq(S) /\ Len(f) = n
<1>1. f \in Seq(S)
  BY SeqDef
<1>2. QED
  BY <1>1, LenProperties

(* Take gives the first n cells, as far as there are any. *)
LEMMA TakeIs ==
    ASSUME NEW S, NEW s \in Seq(S), NEW n \in Int
    PROVE  /\ Take(s, n) \in Seq(S)
           /\ Len(Take(s, n)) = IF n <= 0 THEN 0 ELSE IF n <= Len(s) THEN n ELSE Len(s)
           /\ \A i \in 1 .. Len(Take(s, n)) : Take(s, n)[i] = s[i]
<1>1. Len(s) \in Nat /\ \A i \in 1 .. Len(s) : s[i] \in S
  BY LenProperties, ElementOfSeq
<1> DEFINE k == IF n <= Len(s) THEN n ELSE Len(s)
<1>2. Take(s, n) = SubSeq(s, 1, k) /\ k \in Int /\ k <= Len(s)
  BY <1>1, MinOfTwo DEF Take
<1> HIDE DEF k
<1>3. \A i \in 1 .. k : s[i] \in S
  BY <1>1, <1>2
<1>4. /\ SubSeq(s, 1, k) \in Seq(S)
      /\ Len(SubSeq(s, 1, k)) = IF 1 <= k THEN k - 1 + 1 ELSE 0
      /\ \A i \in 1 .. k - 1 + 1 : SubSeq(s, 1, k)[i] = s[1 + i - 1]
  BY <1>2, <1>3, SubSeqProperties
<1>5. Len(Take(s, n)) = IF 1 <= k THEN k ELSE 0
  BY <1>2, <1>4
<1>6. \A i \in 1 .. Len(Take(s, n)) : Take(s, n)[i] = s[i]
  BY <1>2, <1>4, <1>5
<1>7. QED
  BY <1>1, <1>2, <1>4, <1>5, <1>6 DEF k

(* Drop gives the cells after the first n. *)
LEMMA DropIs ==
    ASSUME NEW S, NEW s \in Seq(S), NEW n \in Nat
    PROVE  /\ Drop(s, n) \in Seq(S)
           /\ Len(Drop(s, n)) = IF n <= Len(s) THEN Len(s) - n ELSE 0
           /\ \A i \in 1 .. Len(Drop(s, n)) : Drop(s, n)[i] = s[n + i]
<1>1. Len(s) \in Nat /\ \A i \in 1 .. Len(s) : s[i] \in S
  BY LenProperties, ElementOfSeq
<1>2. \A i \in (n + 1) .. Len(s) : s[i] \in S
  BY <1>1
<1>3. /\ SubSeq(s, n + 1, Len(s)) \in Seq(S)
      /\ Len(SubSeq(s, n + 1, Len(s))) = IF n + 1 <= Len(s) THEN Len(s) - (n + 1) + 1 ELSE 0
      /\ \A i \in 1 .. Len(s) - (n + 1) + 1 : SubSeq(s, n + 1, Len(s))[i] = s[(n + 1) + i - 1]
  BY <1>1, <1>2, SubSeqProperties
<1>4. QED
  BY <1>1, <1>3 DEF Drop

LEMMA AppendIs ==
    ASSUME NEW S, NEW s \in Seq(S), NEW e \in S
    PROVE  /\ Append(s, e) \in Seq(S)
           /\ Len(Append(s, e)) = Len(s) + 1
           /\ \A i \in 1 .. Len(s) : Append(s, e)[i] = s[i]
           /\ Append(s, e)[Len(s) + 1] = e
  BY AppendProperties

LEMMA ConcatIs ==
    ASSUME NEW S, NEW s \in Seq(S), NEW t \in Seq(S)
    PROVE  /\ s \o t \in Seq(S)
           /\ Len(s \o t) = Len(s) + Len(t)
           /\ \A i \in 1 .. Len(s) : (s \o t)[i] = s[i]
           /\ \A i \in 1 .. Len(t) : (s \o t)[Len(s) + i] = t[i]
<1>1. Len(s) \in Nat /\ Len(t) \in Nat
  BY LenProperties
<1>2. /\ s \o t \in Seq(S)
      /\ Len(s \o t) = Len(s) + Len(t)
      /\ \A i \in 1 .. Len(s) + Len(t) : (s \o t)[i] = IF i <= Len(s) THEN s[i] ELSE t[i - Len(s)]
  BY ConcatProperties
<1>3. \A i \in 1 .. Len(s) : i \in 1 .. Len(s) + Len(t) /\ i <= Len(s)
  BY <1>1
<1>4. ASSUME NEW i \in 1 .. Len(t) PROVE (s \o t)[Len(s) + i] = t[i]
  <2>1. Len(s) + i \in 1 .. Len(s) + Len(t) /\ ~(Len(s) + i <= Len(s)) /\ Len(s) + i - Len(s) = i
    BY <1>1
  <2>2. QED
    BY <1>2, <2>1
<1>5. QED
  BY <1>2, <1>3, <1>4

LEMMA EmptyHasNone ==
    ASSUME NEW S, NEW s \in Seq(S)
    PROVE  /\ Len(s) \in Nat
           /\ Len(s) = 0 <=> s = <<>>
           /\ \A i \in 1 .. Len(s) : s[i] \in S
           /\ <<>> \in Seq(S) /\ Len(<<>>) = 0
  BY LenProperties, ElementOfSeq, EmptySeq

(***************************************************************************)
(* Cells.                                                                  *)
(***************************************************************************)
LEMMA Blanks ==
    /\ NoHdr \in AHeader /\ NoMeta \in AMeta /\ NoTrailer \in ATrailer
    /\ NoMeta.len = Unknown /\ Unknown = -1
    /\ NoTrailer.by = "none" /\ NoTrailer.pk = "none"
    /\ JunkCell \in ACell /\ JunkCell.trailer = NoTrailer
<1>1. NoHdr \in AHeader
  BY EmptySeq DEF NoHdr, Header, AHeader
<1>2. NoMeta \in AMeta /\ NoMeta.len = Unknown /\ Unknown = -1
  BY DEF NoMeta, Meta, AMeta, Unknown
<1>3. NoTrailer \in ATrailer /\ NoTrailer.by = "none" /\ NoTrailer.pk = "none"
  BY <1>1, <1>2, EmptySeq DEF NoTrailer, Trailer, ATrailer
<1>4. JunkCell \in ACell /\ JunkCell.trailer = NoTrailer
  BY <1>2, <1>3 DEF JunkCell, Cell, ACell
<1>5. QED
  BY <1>1, <1>2, <1>3, <1>4

LEMMA CellsIs ==
    /\ \A m \in AMeta : MetaCell(m) \in ACell /\ MetaCell(m).meta = m
                        /\ MetaCell(m).t = "meta" /\ MetaCell(m).trailer = NoTrailer
    /\ \A k \in Int : DataCell(k) \in ACell /\ DataCell(k).k = k /\ DataCell(k).t = "data"
                      /\ DataCell(k).trailer = NoTrailer
    /\ \A i \in Int, t \in ATrailer :
          Cell("trailer", i, NoMeta, t) \in ACell /\ Cell("trailer", i, NoMeta, t).trailer = t
    /\ Cell("pad", 0, NoMeta, NoTrailer) \in ACell
    /\ Cell("pad", 0, NoMeta, NoTrailer).trailer = NoTrailer
  BY Blanks DEF MetaCell, DataCell, Cell, ACell

LEMMA DataCellsIs ==
    ASSUME NEW d \in Seq(Int)
    PROVE  /\ DataCells(d) \in Seq(ACell)
           /\ Len(DataCells(d)) = Len(d)
           /\ \A i \in 1 .. Len(d) : DataCells(d)[i] = DataCell(d[i])
<1>1. Len(d) \in Nat /\ DOMAIN d = 1 .. Len(d) /\ \A i \in 1 .. Len(d) : d[i] \in Int
  BY LenProperties, ElementOfSeq
<1>2. DataCells(d) \in [1 .. Len(d) -> ACell]
  BY <1>1, CellsIs DEF DataCells
<1>3. QED
  BY <1>1, <1>2, IsSequence DEF DataCells

LEMMA ContentsIs ==
    ASSUME NEW c \in Seq(ACell)
    PROVE  /\ Contents(c) \in Seq(Int)
           /\ Len(Contents(c)) = Len(c)
           /\ \A i \in 1 .. Len(c) : \A k \in Int : c[i] = DataCell(k) => Contents(c)[i] = k
<1>1. Len(c) \in Nat /\ DOMAIN c = 1 .. Len(c) /\ \A i \in 1 .. Len(c) : c[i] \in ACell
  BY LenProperties, ElementOfSeq
<1>2. \A i \in 1 .. Len(c) : c[i].k \in Int
  BY <1>1 DEF ACell
<1>3. Contents(c) \in [1 .. Len(c) -> Int]
  BY <1>1, <1>2, Blanks DEF Contents
<1>4. QED
  BY <1>1, <1>3, CellsIs, IsSequence DEF Contents

LEMMA TrailerCellsIs ==
    ASSUME NEW t \in ATrailer
    PROVE  /\ TrailerCells(t) \in Seq(ACell)
           /\ Len(TrailerCells(t)) = TrailerSize
           /\ \A i \in 1 .. TrailerSize : TrailerCells(t)[i] = Cell("trailer", i, NoMeta, t)
           /\ \A i \in 1 .. TrailerSize : TrailerCells(t)[i].trailer = t
<1>1. TrailerCells(t) \in [1 .. TrailerSize -> ACell]
  BY CellsIs, FramesAssumption DEF TrailerCells
<1>2. \A i \in 1 .. TrailerSize : TrailerCells(t)[i] = Cell("trailer", i, NoMeta, t)
  BY DEF TrailerCells
<1>3. \A i \in 1 .. TrailerSize : TrailerCells(t)[i].trailer = t
  BY <1>2, CellsIs, FramesAssumption
<1>4. QED
  BY <1>1, <1>2, <1>3, IsSequence, FramesAssumption

LEMMA PadCellsIs ==
    ASSUME NEW n \in Nat
    PROVE  /\ PadCells(n) \in Seq(ACell)
           /\ Len(PadCells(n)) = n
           /\ \A i \in 1 .. n : PadCells(n)[i] = Cell("pad", 0, NoMeta, NoTrailer)
<1>1. PadCells(n) \in [1 .. n -> ACell]
  BY CellsIs DEF PadCells
<1>2. QED
  BY <1>1, IsSequence DEF PadCells

LEMMA TrailerPartIs ==
    ASSUME NEW t \in ATrailer
    PROVE  /\ TrailerPart(t) \in Seq(ACell)
           /\ Len(TrailerPart(t)) = IF t = NoTrailer THEN 0 ELSE TrailerSize
           /\ \A i \in 1 .. Len(TrailerPart(t)) : TrailerPart(t)[i] = TrailerCells(t)[i]
  BY TrailerCellsIs, EmptySeq, FramesAssumption DEF TrailerPart

(* Where the parts of the stream are. *)
LEMMA StreamIs ==
    ASSUME NEW m \in AMeta, NEW d \in Seq(Int), NEW t \in ATrailer
    PROVE  LET T == Len(TrailerPart(t))
               L == Len(d)
           IN  /\ Stream(m, d, t) \in Seq(ACell)
               /\ Len(Stream(m, d, t)) = 1 + L + T + m.pad
               /\ Stream(m, d, t)[1] = MetaCell(m)
               /\ \A i \in 1 .. L : Stream(m, d, t)[1 + i] = DataCell(d[i])
               /\ \A i \in 1 .. T : Stream(m, d, t)[1 + L + i] = TrailerPart(t)[i]
               /\ \A i \in 1 .. m.pad :
                     Stream(m, d, t)[1 + L + T + i] = Cell("pad", 0, NoMeta, NoTrailer)
<1> DEFINE M == <<MetaCell(m)>>
           D == DataCells(d)
           R == TrailerPart(t)
           P == PadCells(m.pad)
<1>1. M \in Seq(ACell) /\ Len(M) = 1 /\ M[1] = MetaCell(m)
  BY CellsIs
<1>2. D \in Seq(ACell) /\ Len(D) = Len(d) /\ \A i \in 1 .. Len(d) : D[i] = DataCell(d[i])
  BY DataCellsIs
<1>3. R \in Seq(ACell) /\ Len(R) \in Nat
  BY TrailerPartIs, LenProperties
<1>4. m.pad \in Nat
  BY DEF AMeta
<1>5. P \in Seq(ACell) /\ Len(P) = m.pad
      /\ \A i \in 1 .. m.pad : P[i] = Cell("pad", 0, NoMeta, NoTrailer)
  BY <1>4, PadCellsIs
<1>6. Len(d) \in Nat
  BY LenProperties
<1>7. Stream(m, d, t) = ((M \o D) \o R) \o P
  BY DEF Stream
<1> DEFINE A == M \o D
           B == A \o R
           C == B \o P
<1>8. Stream(m, d, t) = C
  BY <1>7
<1> HIDE DEF M, D, R, P
<1>9. /\ A \in Seq(ACell) /\ Len(A) = 1 + Len(d)
      /\ A[1] = MetaCell(m)
      /\ \A i \in 1 .. Len(d) : A[1 + i] = DataCell(d[i])
  <2>1. /\ M \o D \in Seq(ACell) /\ Len(M \o D) = Len(M) + Len(D)
        /\ \A i \in 1 .. Len(M) : (M \o D)[i] = M[i]
        /\ \A i \in 1 .. Len(D) : (M \o D)[Len(M) + i] = D[i]
    <3>1. M \in Seq(ACell) /\ D \in Seq(ACell)
      BY <1>1, <1>2
    <3>2. QED
      BY ONLY <3>1, ConcatIs
  <2>2. QED
    BY <1>1, <1>2, <2>1
<1> HIDE DEF A
<1>10. /\ B \in Seq(ACell) /\ Len(B) = 1 + Len(d) + Len(R)
       /\ \A i \in 1 .. 1 + Len(d) : B[i] = A[i]
       /\ \A i \in 1 .. Len(R) : B[1 + Len(d) + i] = R[i]
  <2>1. /\ A \o R \in Seq(ACell) /\ Len(A \o R) = Len(A) + Len(R)
        /\ \A i \in 1 .. Len(A) : (A \o R)[i] = A[i]
        /\ \A i \in 1 .. Len(R) : (A \o R)[Len(A) + i] = R[i]
    <3>1. A \in Seq(ACell) /\ R \in Seq(ACell)
      BY <1>3, <1>9
    <3>2. QED
      BY ONLY <3>1, ConcatIs
  <2>2. QED
    BY <1>9, <2>1
<1> HIDE DEF B
<1>10a. /\ C \in Seq(ACell) /\ Len(C) = 1 + Len(d) + Len(R) + m.pad
        /\ \A i \in 1 .. 1 + Len(d) + Len(R) : C[i] = B[i]
        /\ \A i \in 1 .. m.pad : C[1 + Len(d) + Len(R) + i] = P[i]
  <2>1. /\ B \o P \in Seq(ACell) /\ Len(B \o P) = Len(B) + Len(P)
        /\ \A i \in 1 .. Len(B) : (B \o P)[i] = B[i]
        /\ \A i \in 1 .. Len(P) : (B \o P)[Len(B) + i] = P[i]
    <3>1. B \in Seq(ACell) /\ P \in Seq(ACell)
      BY <1>5, <1>10
    <3>2. QED
      BY ONLY <3>1, ConcatIs
  <2>2. QED
    BY <1>5, <1>10, <2>1
<1> HIDE DEF C
<1>11. \A i \in 1 .. Len(d) : 1 + i \in 1 .. 1 + Len(d) /\ 1 + i \in 1 .. 1 + Len(d) + Len(R)
  BY <1>3, <1>6
<1>12. \A i \in 1 .. Len(R) : 1 + Len(d) + i \in 1 .. 1 + Len(d) + Len(R)
  BY <1>3, <1>6
<1>13. 1 \in 1 .. 1 + Len(d) /\ 1 \in 1 .. 1 + Len(d) + Len(R)
  BY <1>3, <1>6
<1>14. QED
  BY <1>5, <1>8, <1>9, <1>10, <1>10a, <1>11, <1>12, <1>13 DEF R

(***************************************************************************)
(* Files.                                                                  *)
(***************************************************************************)
LEMMA FilesAre ==
    /\ NoFile \in AFile /\ NoFile.kind = "none" /\ NoFile.data = <<>> /\ NoFile.frames = <<>>
    /\ OldFile \in AFile /\ OldFile.kind = "old" /\ OldFile.data = <<>> /\ OldFile.frames = <<>>
    /\ \A d \in Seq(Int) : /\ Plain(d) \in AFile
                           /\ Plain(d).kind = "plain" /\ Plain(d).data = d
                           /\ Plain(d).frames = <<>>
    /\ \A h \in AHeader, fr \in Seq(AFrame) :
          /\ Cont(h, fr) \in AFile
          /\ Cont(h, fr).kind = "cont" /\ Cont(h, fr).data = <<>>
          /\ Cont(h, fr).hdr = h /\ Cont(h, fr).frames = fr
<1>1. NoHdr \in AHeader /\ <<>> \in Seq(AFrame) /\ <<>> \in Seq(Int)
  BY Blanks, EmptySeq
<1>2. NoFile \in AFile /\ NoFile.kind = "none" /\ NoFile.data = <<>> /\ NoFile.frames = <<>>
  BY <1>1 DEF NoFile, File, AFile
<1>3. OldFile \in AFile /\ OldFile.kind = "old" /\ OldFile.data = <<>> /\ OldFile.frames = <<>>
  BY <1>1 DEF OldFile, File, AFile
<1>4. ASSUME NEW d \in Seq(Int)
      PROVE  /\ Plain(d) \in AFile
             /\ Plain(d).kind = "plain" /\ Plain(d).data = d /\ Plain(d).frames = <<>>
  BY <1>1 DEF Plain, File, AFile
<1>5. ASSUME NEW h \in AHeader, NEW fr \in Seq(AFrame)
      PROVE  /\ Cont(h, fr) \in AFile
             /\ Cont(h, fr).kind = "cont" /\ Cont(h, fr).data = <<>>
             /\ Cont(h, fr).hdr = h /\ Cont(h, fr).frames = fr
  BY <1>1 DEF Cont, File, AFile
<1>6. QED
  BY <1>2, <1>3, <1>4, <1>5

LEMMA FileFields ==
    ASSUME NEW f \in AFile
    PROVE  /\ f.kind \in {"none", "old", "plain", "cont", "armor"}
           /\ f.hdr \in AHeader /\ f.frames \in Seq(AFrame) /\ f.data \in Seq(Int)
           /\ Len(f.frames) \in Nat /\ Len(f.data) \in Nat
           /\ \A i \in 1 .. Len(f.frames) : f.frames[i] \in AFrame
           /\ \A i \in 1 .. Len(f.data) : f.data[i] \in Int
<1>1. /\ f.kind \in {"none", "old", "plain", "cont", "armor"}
      /\ f.hdr \in AHeader /\ f.frames \in Seq(AFrame) /\ f.data \in Seq(Int)
  BY DEF AFile
<1>2. QED
  BY <1>1, EmptyHasNone

LEMMA FrameFields ==
    ASSUME NEW fr \in AFrame
    PROVE  /\ fr.cek = Cek /\ fr.ctr \in Nat /\ fr.last \in BOOLEAN /\ fr.aad \in AHeader
           /\ fr.body \in Seq(ACell) /\ fr.ok \in BOOLEAN
           /\ Len(fr.body) \in Nat
           /\ \A k \in 1 .. Len(fr.body) : fr.body[k] \in ACell
<1>1. /\ fr.cek = Cek /\ fr.ctr \in Nat /\ fr.last \in BOOLEAN /\ fr.aad \in AHeader
      /\ fr.body \in Seq(ACell) /\ fr.ok \in BOOLEAN
  BY DEF AFrame
<1>2. QED
  BY <1>1, EmptyHasNone

LEMMA AadIs ==
    ASSUME NEW h \in AHeader, NEW i
    PROVE  AadAt(h, i) \in AHeader
  BY Blanks DEF AadAt

(* Another list of frames, or other data, in a file. *)
LEMMA FileWith ==
    ASSUME NEW f \in AFile
    PROVE  /\ \A fr \in Seq(AFrame) : /\ [f EXCEPT !.frames = fr] \in AFile
                                      /\ [f EXCEPT !.frames = fr].frames = fr
           /\ \A d \in Seq(Int) : /\ [f EXCEPT !.data = d] \in AFile
                                  /\ [f EXCEPT !.data = d].frames = f.frames
           /\ \A k \in {"none", "old", "plain", "cont", "armor"} :
                 /\ [f EXCEPT !.kind = k] \in AFile
                 /\ [f EXCEPT !.kind = k].frames = f.frames
                 /\ [f EXCEPT !.kind = k].kind = k
           /\ \A h \in AHeader : /\ [f EXCEPT !.hdr = h] \in AFile
                                 /\ [f EXCEPT !.hdr = h].frames = f.frames
  BY DEF AFile

LEMMA PrefixIs ==
    ASSUME NEW S, NEW s \in Seq(S), NEW k \in 0 .. Len(s)
    PROVE  /\ SubSeq(s, 1, k) \in Seq(S) /\ Len(SubSeq(s, 1, k)) = k
           /\ \A i \in 1 .. k : SubSeq(s, 1, k)[i] = s[i]
<1>1. Len(s) \in Nat /\ \A i \in 1 .. Len(s) : s[i] \in S
  BY LenProperties, ElementOfSeq
<1>2. \A i \in 1 .. k : s[i] \in S
  BY <1>1
<1>3. /\ SubSeq(s, 1, k) \in Seq(S)
      /\ Len(SubSeq(s, 1, k)) = IF 1 <= k THEN k - 1 + 1 ELSE 0
      /\ \A i \in 1 .. k - 1 + 1 : SubSeq(s, 1, k)[i] = s[1 + i - 1]
  BY <1>1, <1>2, SubSeqProperties
<1>4. QED
  BY <1>1, <1>3

(* A torn file is a beginning of the file. *)
LEMMA TornIs ==
    ASSUME NEW f \in AFile, NEW g \in Torn(f)
    PROVE  /\ g \in AFile
           /\ g.kind = f.kind /\ g.hdr = f.hdr /\ g.restored = f.restored
           /\ g = [f EXCEPT !.frames = g.frames] \/ g = [f EXCEPT !.data = g.data]
           /\ Len(g.frames) <= Len(f.frames)
           /\ \A i \in 1 .. Len(g.frames) : g.frames[i] = f.frames[i]
           /\ f.data = <<>> => g.data = <<>> /\ g = [f EXCEPT !.frames = g.frames]
<1>1. /\ f.frames \in Seq(AFrame) /\ f.data \in Seq(Int)
      /\ Len(f.frames) \in Nat /\ Len(f.data) \in Nat
  BY FileFields
<1>2. CASE \E k \in 0 .. (Len(f.frames) - 1) : g = [f EXCEPT !.frames = SubSeq(f.frames, 1, k)]
  <2>1. PICK k \in 0 .. (Len(f.frames) - 1) : g = [f EXCEPT !.frames = SubSeq(f.frames, 1, k)]
    BY <1>2
  <2>2. k \in 0 .. Len(f.frames)
    BY <1>1
  <2>3. /\ SubSeq(f.frames, 1, k) \in Seq(AFrame) /\ Len(SubSeq(f.frames, 1, k)) = k
        /\ \A i \in 1 .. k : SubSeq(f.frames, 1, k)[i] = f.frames[i]
    BY <1>1, <2>2, PrefixIs
  <2>4. /\ g \in AFile /\ g.kind = f.kind /\ g.hdr = f.hdr /\ g.restored = f.restored
        /\ g.frames = SubSeq(f.frames, 1, k) /\ g.data = f.data
    BY <2>1, <2>3 DEF AFile
  <2>5. QED
    BY <1>1, <2>1, <2>2, <2>3, <2>4
<1>3. CASE \E k \in 0 .. (Len(f.data) - 1) : g = [f EXCEPT !.data = SubSeq(f.data, 1, k)]
  <2>1. PICK k \in 0 .. (Len(f.data) - 1) : g = [f EXCEPT !.data = SubSeq(f.data, 1, k)]
    BY <1>3
  <2>2. k \in 0 .. Len(f.data)
    BY <1>1
  <2>3. SubSeq(f.data, 1, k) \in Seq(Int)
    BY <1>1, <2>2, PrefixIs
  <2>4. /\ g \in AFile /\ g.kind = f.kind /\ g.hdr = f.hdr /\ g.restored = f.restored
        /\ g.frames = f.frames /\ g.data = SubSeq(f.data, 1, k)
    BY <2>1, <2>3 DEF AFile
  <2>5. f.data # <<>>
    BY <1>1, <2>1, EmptySeq
  <2>6. QED
    BY <1>1, <2>1, <2>4, <2>5
<1>4. QED
  BY <1>2, <1>3 DEF Torn

LEMMA TornGenuine ==
    ASSUME NEW f \in AFile, NEW g \in Torn(f), NEW S, GenuineFile(S, f)
    PROVE  GenuineFile(S, g)
<1>1. /\ Len(g.frames) <= Len(f.frames) /\ g \in AFile
      /\ \A i \in 1 .. Len(g.frames) : g.frames[i] = f.frames[i]
  BY TornIs
<1>2. Len(g.frames) \in Nat /\ Len(f.frames) \in Nat
  BY <1>1, FileFields
<1>3. QED
  BY <1>1, <1>2 DEF GenuineFile

(***************************************************************************)
(* Whoever stores the container.                                           *)
(***************************************************************************)
(* A file with frames of f, some of them damaged.                          *)
Remade(g, f) ==
    /\ g \in AFile
    /\ g = [f EXCEPT !.hdr = g.hdr, !.frames = g.frames]
    /\ \A i \in 1 .. Len(g.frames) :
          \/ \E j \in 1 .. Len(f.frames) : g.frames[i] = f.frames[j]
          \/ /\ ~g.frames[i].ok
             /\ \E j \in 1 .. Len(f.frames) : g.frames[i].body = Garbled(f.frames[j].body)

LEMMA GarbledIs ==
    ASSUME NEW body \in Seq(ACell)
    PROVE  /\ Garbled(body) \in Seq(ACell)
           /\ \A S : GenuineCells(S, body) => GenuineCells(S, Garbled(body))
<1>1. CASE body = <<>>
  BY <1>1 DEF Garbled
<1>2. CASE body # <<>>
  <2>1. Tail(body) \in Seq(ACell) /\ Len(Tail(body)) = Len(body) - 1
        /\ \A i \in 1 .. Len(Tail(body)) : Tail(body)[i] = body[i + 1]
    BY <1>2, HeadTailProperties
  <2>2. <<JunkCell>> \in Seq(ACell) /\ Len(<<JunkCell>>) = 1 /\ <<JunkCell>>[1] = JunkCell
    BY Blanks
  <2> DEFINE J == <<JunkCell>>
             R == Tail(body)
  <2>3. J \in Seq(ACell) /\ R \in Seq(ACell)
    BY <2>1, <2>2
  <2>4. Garbled(body) = J \o R
    BY <1>2 DEF Garbled
  <2> HIDE DEF J, R
  <2>5. /\ J \o R \in Seq(ACell) /\ Len(J \o R) = Len(J) + Len(R)
        /\ \A i \in 1 .. Len(J) : (J \o R)[i] = J[i]
        /\ \A i \in 1 .. Len(R) : (J \o R)[Len(J) + i] = R[i]
    BY ONLY <2>3, ConcatIs
  <2>6. Len(J) = 1 /\ J[1] = JunkCell /\ Len(R) = Len(body) - 1 /\ Len(body) \in Nat
        /\ \A i \in 1 .. Len(R) : R[i] = body[i + 1]
    BY <2>1, <2>2, LenProperties DEF J, R
  <2>7. ASSUME NEW S, GenuineCells(S, body), NEW k \in 1 .. Len(J \o R)
        PROVE  Genuine(S, (J \o R)[k].trailer)
    <3>1. CASE k = 1
      BY <2>5, <2>6, <3>1, Blanks DEF Genuine
    <3>2. CASE k # 1
      <4>1. k - 1 \in 1 .. Len(R) /\ k = Len(J) + (k - 1) /\ k \in 1 .. Len(body)
        BY <2>5, <2>6, <3>2
      <4>2. (J \o R)[k] = R[k - 1] /\ R[k - 1] = body[k - 1 + 1] /\ k - 1 + 1 = k
        BY <2>5, <2>6, <4>1
      <4>3. QED
        BY <2>7, <4>1, <4>2 DEF GenuineCells
    <3>3. QED
      BY <3>1, <3>2
  <2>8. QED
    BY <2>4, <2>5, <2>7 DEF GenuineCells
<1>3. QED
  BY <1>1, <1>2

LEMMA RemadeGenuine ==
    ASSUME NEW f \in AFile, NEW g, Remade(g, f), NEW S, GenuineFile(S, f)
    PROVE  GenuineFile(S, g)
<1> SUFFICES ASSUME NEW i \in 1 .. Len(g.frames) PROVE GenuineCells(S, g.frames[i].body)
  BY DEF GenuineFile
<1>1. PICK j \in 1 .. Len(f.frames) :
         g.frames[i] = f.frames[j] \/ g.frames[i].body = Garbled(f.frames[j].body)
  BY DEF Remade
<1>2. GenuineCells(S, f.frames[j].body)
  BY DEF GenuineFile
<1>3. f.frames[j].body \in Seq(ACell)
  BY FileFields, FrameFields
<1>4. QED
  BY <1>1, <1>2, <1>3, GarbledIs

LEMMA RemadeDerived ==
    ASSUME NEW f \in AFile, NEW g, Remade(g, f)
    PROVE  Derived(g, f)
  BY DEF Remade, Derived

(* Frames taken from those of f. *)
LEMMA FramesFrom ==
    ASSUME NEW f \in AFile, NEW fr \in Seq(AFrame),
           \A i \in 1 .. Len(fr) : \E j \in 1 .. Len(f.frames) : fr[i] = f.frames[j]
    PROVE  Remade([f EXCEPT !.frames = fr], f)
<1>1. [f EXCEPT !.frames = fr] \in AFile /\ [f EXCEPT !.frames = fr].frames = fr
      /\ [f EXCEPT !.frames = fr].hdr = f.hdr
      /\ [f EXCEPT !.frames = fr] = [f EXCEPT !.hdr = f.hdr, !.frames = fr]
  BY DEF AFile
<1>2. QED
  BY <1>1 DEF Remade

LEMMA ConcatFrom ==
    ASSUME NEW f \in AFile, NEW a \in Seq(AFrame), NEW b \in Seq(AFrame),
           \A i \in 1 .. Len(a) : \E j \in 1 .. Len(f.frames) : a[i] = f.frames[j],
           \A i \in 1 .. Len(b) : \E j \in 1 .. Len(f.frames) : b[i] = f.frames[j]
    PROVE  Remade([f EXCEPT !.frames = a \o b], f)
<1>1. /\ a \o b \in Seq(AFrame) /\ Len(a \o b) = Len(a) + Len(b)
      /\ \A i \in 1 .. Len(a) : (a \o b)[i] = a[i]
      /\ \A i \in 1 .. Len(b) : (a \o b)[Len(a) + i] = b[i]
  BY ONLY ConcatIs, a \in Seq(AFrame), b \in Seq(AFrame)
<1>2. Len(a) \in Nat /\ Len(b) \in Nat
  BY LenProperties
<1>3. ASSUME NEW i \in 1 .. Len(a \o b)
      PROVE  \E j \in 1 .. Len(f.frames) : (a \o b)[i] = f.frames[j]
  <2>1. i \in 1 .. Len(a) \/ (i - Len(a) \in 1 .. Len(b) /\ i = Len(a) + (i - Len(a)))
    BY <1>1, <1>2
  <2>2. QED
    BY <1>1, <2>1
<1>4. QED
  BY <1>1, <1>3, FramesFrom

LEMMA SegmentIs ==
    ASSUME NEW S, NEW s \in Seq(S), NEW a \in Nat \ {0}, NEW b \in Nat, b <= Len(s)
    PROVE  /\ SubSeq(s, a, b) \in Seq(S)
           /\ Len(SubSeq(s, a, b)) = IF a <= b THEN b - a + 1 ELSE 0
           /\ \A i \in 1 .. Len(SubSeq(s, a, b)) :
                 a + i - 1 \in 1 .. Len(s) /\ SubSeq(s, a, b)[i] = s[a + i - 1]
<1>1. Len(s) \in Nat /\ \A i \in 1 .. Len(s) : s[i] \in S
  BY LenProperties, ElementOfSeq
<1>2. \A i \in a .. b : s[i] \in S
  BY <1>1
<1>3. /\ SubSeq(s, a, b) \in Seq(S)
      /\ Len(SubSeq(s, a, b)) = IF a <= b THEN b - a + 1 ELSE 0
      /\ \A i \in 1 .. b - a + 1 : SubSeq(s, a, b)[i] = s[a + i - 1]
  BY <1>1, <1>2, SubSeqProperties
<1>4. QED
  BY <1>1, <1>3

LEMMA RelayedIs ==
    ASSUME NEW f \in AFile, NEW g \in Relayed(f)
    PROVE  Remade(g, f)
<1> DEFINE fr == f.frames
           n == Len(fr)
<1>1. fr \in Seq(AFrame) /\ n \in Nat /\ f.hdr \in AHeader
      /\ \A i \in 1 .. n : fr[i] \in AFrame
  BY FileFields
<1>2. ASSUME NEW k \in 0 .. (n - 1), g = [f EXCEPT !.frames = SubSeq(fr, 1, k)]
      PROVE  Remade(g, f)
  <2>1. k \in 0 .. n
    BY <1>1
  <2>2. /\ SubSeq(fr, 1, k) \in Seq(AFrame) /\ Len(SubSeq(fr, 1, k)) = k
        /\ \A i \in 1 .. k : SubSeq(fr, 1, k)[i] = fr[i]
    BY <1>1, <2>1, PrefixIs
  <2>3. \A i \in 1 .. Len(SubSeq(fr, 1, k)) : \E j \in 1 .. n : SubSeq(fr, 1, k)[i] = fr[j]
    BY <1>1, <2>1, <2>2
  <2>4. QED
    BY <1>2, <2>2, <2>3, FramesFrom
<1>3. ASSUME NEW k \in 1 .. n, g = [f EXCEPT !.frames = RemoveAt(fr, k)]
      PROVE  Remade(g, f)
  <2> DEFINE a == SubSeq(fr, 1, k - 1)
             b == SubSeq(fr, k + 1, n)
  <2>1. /\ a \in Seq(AFrame) /\ \A i \in 1 .. Len(a) : \E j \in 1 .. n : a[i] = fr[j]
    <3>1. k - 1 \in Nat /\ k - 1 <= n /\ 1 \in Nat \ {0}
      BY <1>1
    <3>2. QED
      BY <1>1, <3>1, SegmentIs
  <2>2. /\ b \in Seq(AFrame) /\ \A i \in 1 .. Len(b) : \E j \in 1 .. n : b[i] = fr[j]
    <3>1. k + 1 \in Nat \ {0} /\ n <= n
      BY <1>1
    <3>2. QED
      BY <1>1, <3>1, SegmentIs
  <2>3. RemoveAt(fr, k) = a \o b
    BY DEF RemoveAt
  <2> HIDE DEF a, b
  <2>4. QED
    BY <1>3, <2>1, <2>2, <2>3, ConcatFrom
<1>4. ASSUME NEW k \in 1 .. n, g = [f EXCEPT !.frames = SubSeq(fr, 1, k) \o SubSeq(fr, k, n)]
      PROVE  Remade(g, f)
  <2> DEFINE a == SubSeq(fr, 1, k)
             b == SubSeq(fr, k, n)
  <2>1. /\ a \in Seq(AFrame) /\ \A i \in 1 .. Len(a) : \E j \in 1 .. n : a[i] = fr[j]
    <3>1. k \in Nat /\ k <= n /\ 1 \in Nat \ {0}
      BY <1>1
    <3>2. QED
      BY <1>1, <3>1, SegmentIs
  <2>2. /\ b \in Seq(AFrame) /\ \A i \in 1 .. Len(b) : \E j \in 1 .. n : b[i] = fr[j]
    <3>1. k \in Nat \ {0} /\ n <= n
      BY <1>1
    <3>2. QED
      BY <1>1, <3>1, SegmentIs
  <2>3. g = [f EXCEPT !.frames = a \o b]
    BY <1>4
  <2> HIDE DEF a, b
  <2>4. QED
    BY <2>1, <2>2, <2>3, ConcatFrom
<1>5. ASSUME NEW k \in 1 .. (n - 1),
             g = [f EXCEPT !.frames[k] = fr[k + 1], !.frames[k + 1] = fr[k]]
      PROVE  Remade(g, f)
  <2>1. k \in 1 .. n /\ k + 1 \in 1 .. n
    BY <1>1
  <2> DEFINE x == [fr EXCEPT ![k] = fr[k + 1]]
             y == [x EXCEPT ![k + 1] = fr[k]]
  <2>2. g = [f EXCEPT !.frames = y]
    BY <1>5 DEF AFile
  <2>3. /\ x \in Seq(AFrame) /\ Len(x) = n
        /\ \A j \in 1 .. n : x[j] = IF j = k THEN fr[k + 1] ELSE fr[j]
    BY <1>1, <2>1, ExceptSeq
  <2> HIDE DEF x
  <2>4. /\ y \in Seq(AFrame) /\ Len(y) = n
        /\ \A j \in 1 .. n : y[j] = IF j = k + 1 THEN fr[k] ELSE x[j]
    BY <1>1, <2>1, <2>3, ExceptSeq
  <2> HIDE DEF y
  <2>5. \A i \in 1 .. Len(y) : \E j \in 1 .. n : y[i] = fr[j]
    BY <2>1, <2>3, <2>4
  <2>6. QED
    BY <2>2, <2>4, <2>5, FramesFrom
<1>6. ASSUME NEW k \in 1 .. n,
             g = [f EXCEPT !.frames[k].ok = FALSE, !.frames[k].body = Garbled(@)]
      PROVE  Remade(g, f)
  <2> DEFINE x == [fr[k] EXCEPT !.ok = FALSE, !.body = Garbled(fr[k].body)]
             y == [fr EXCEPT ![k] = x]
  <2>1. fr[k] \in AFrame /\ fr[k].body \in Seq(ACell)
    BY <1>1, FrameFields
  <2>2. x \in AFrame /\ ~x.ok /\ x.body = Garbled(fr[k].body)
    BY <2>1, GarbledIs DEF AFrame
  <2>3. g = [f EXCEPT !.frames = y]
    <3> DEFINE x1 == [fr[k] EXCEPT !.ok = FALSE]
               y1 == [fr EXCEPT ![k] = x1]
               f1 == [f EXCEPT !.frames = y1]
    <3>1. x1.body = fr[k].body /\ x = [x1 EXCEPT !.body = Garbled(fr[k].body)]
      BY <2>1 DEF AFrame
    <3>2. DOMAIN fr = 1 .. n
      BY <1>1, LenProperties
    <3>3. y1[k] = x1 /\ [y1 EXCEPT ![k] = x] = y
      BY <3>2
    <3>4. f1.frames = y1 /\ [f1 EXCEPT !.frames = y] = [f EXCEPT !.frames = y]
      BY DEF AFile
    <3>5. g = [f1 EXCEPT !.frames[k].body = Garbled(f1.frames[k].body)]
      BY <1>6
    <3> HIDE DEF x, x1, y, y1, f1
    <3>6. g = [f1 EXCEPT !.frames = [y1 EXCEPT ![k] = [x1 EXCEPT !.body = Garbled(fr[k].body)]]]
      BY <3>1, <3>3, <3>4, <3>5
    <3>7. QED
      BY <3>1, <3>3, <3>4, <3>6
  <2> HIDE DEF x
  <2>4. /\ y \in Seq(AFrame) /\ Len(y) = n
        /\ \A j \in 1 .. n : y[j] = IF j = k THEN x ELSE fr[j]
    BY <1>1, <2>2, ExceptSeq
  <2> HIDE DEF y
  <2>5. \A i \in 1 .. Len(y) : \/ \E j \in 1 .. n : y[i] = fr[j]
                               \/ ~y[i].ok /\ \E j \in 1 .. n : y[i].body = Garbled(fr[j].body)
    BY <2>2, <2>4
  <2>6. /\ g \in AFile /\ g.frames = y /\ g.hdr = f.hdr
        /\ g = [f EXCEPT !.hdr = g.hdr, !.frames = g.frames]
    BY <2>3, <2>4 DEF AFile
  <2>7. QED
    BY <2>5, <2>6 DEF Remade
<1>7. ASSUME NEW h \in AHeader, g = [f EXCEPT !.hdr = h]
      PROVE  Remade(g, f)
  <2>1. /\ g \in AFile /\ g.frames = f.frames
        /\ g = [f EXCEPT !.hdr = g.hdr, !.frames = g.frames]
    BY <1>7 DEF AFile
  <2>2. QED
    BY <2>1 DEF Remade
<1>8. ASSUME g = [f EXCEPT !.hdr.ver = IF @ = "v6" THEN "v7" ELSE "v6"]
      PROVE  Remade(g, f)
  <2> DEFINE h == [f.hdr EXCEPT !.ver = IF f.hdr.ver = "v6" THEN "v7" ELSE "v6"]
  <2>1. h \in AHeader
    BY <1>1 DEF AHeader
  <2>2. g = [f EXCEPT !.hdr = h]
    BY <1>8 DEF AFile
  <2>3. QED
    BY <1>7, <2>1, <2>2
<1>9. ASSUME g = [f EXCEPT !.hdr.recs = Take(@, 1)]
      PROVE  Remade(g, f)
  <2> DEFINE h == [f.hdr EXCEPT !.recs = Take(f.hdr.recs, 1)]
  <2>0. Take(f.hdr.recs, 1) \in Seq([to : {"A", "B"}, cek : {Cek}])
    BY <1>1, TakeIs DEF AHeader
  <2>1. h \in AHeader
    BY <1>1, <2>0 DEF AHeader
  <2>2. g = [f EXCEPT !.hdr = h]
    BY <1>9 DEF AFile
  <2>3. QED
    BY <1>7, <2>1, <2>2
<1>10. QED
  BY <1>2, <1>3, <1>4, <1>5, <1>6, <1>8, <1>9 DEF Relayed

(***************************************************************************)
(* Sealing.                                                                *)
(***************************************************************************)
LEMMA DivIs ==
    ASSUME NEW a \in Nat, NEW b \in Nat \ {0}
    PROVE  a \div b \in Nat /\ (a \div b) * b <= a /\ a < (a \div b) * b + b
  OBVIOUS

LEMMA TimesMonotone ==
    ASSUME NEW a \in Int, NEW b \in Int, NEW c \in Nat, a <= b
    PROVE  a * c \in Int /\ b * c \in Int /\ a * c <= b * c
<1>1. (b - a) * c >= 0
  OBVIOUS
<1>2. (b - a) * c = b * c - a * c
  OBVIOUS
<1>3. a * c \in Int /\ b * c \in Int
  OBVIOUS
<1>4. QED
  BY <1>1, <1>2, <1>3

LEMMA FrameSizeIs == FrameSize \in Nat /\ FrameSize >= 2 /\ FrameSize \in Nat \ {0}
  BY FramesAssumption

(* Frames of a sequence of cells: where the i-th begins. *)
LEMMA FrameStarts ==
    ASSUME NEW i \in Nat \ {0}
    PROVE  /\ (i - 1) * FrameSize \in Nat
           /\ i * FrameSize = (i - 1) * FrameSize + FrameSize
           /\ (i - 1) * FrameSize >= i - 1
<1>1. (i - 1) \in Nat
  OBVIOUS
<1>2. i * FrameSize = (i - 1) * FrameSize + FrameSize
  BY FrameSizeIs
<1>3. (i - 1) * FrameSize >= (i - 1) * 1
  BY <1>1, FrameSizeIs
<1>4. QED
  BY <1>1, <1>2, <1>3, FrameSizeIs

LEMMA SealStreamIs ==
    ASSUME NEW h \in AHeader, NEW cells \in Seq(ACell)
    PROVE  /\ SealStream(Cek, h, cells) \in Seq(AFrame)
           /\ h.ver # "v5" => Sealed(SealStream(Cek, h, cells), h, cells)
           /\ \A S : GenuineCells(S, cells) =>
                 \A i \in 1 .. Len(SealStream(Cek, h, cells)) :
                    GenuineCells(S, SealStream(Cek, h, cells)[i].body)
<1> DEFINE N == Len(cells)
           n == (N \div FrameSize) + 1
           fr == SealStream(Cek, h, cells)
           Rest == N - (n - 1) * FrameSize
           Size(i) == IF i = n THEN Rest ELSE FrameSize
           Body(i) == SubSeq(cells, (i - 1) * FrameSize + 1, Min({i * FrameSize, N}))
<1>1. N \in Nat /\ \A k \in 1 .. N : cells[k] \in ACell
  BY EmptyHasNone
<1>2. N \div FrameSize \in Nat /\ (N \div FrameSize) * FrameSize <= N
      /\ N < (N \div FrameSize) * FrameSize + FrameSize
  BY <1>1, FrameSizeIs, DivIs
<1>3. n \in Nat \ {0} /\ n - 1 = N \div FrameSize /\ Rest \in Nat /\ Rest < FrameSize
      /\ (n - 1) * FrameSize + Rest = N /\ (n - 1) * FrameSize \in Nat
  BY <1>1, <1>2, FrameSizeIs
<1>4. fr = [i \in 1 .. n |-> Frame(Cek, i - 1, i = n, AadAt(h, i - 1), Body(i))]
  BY DEF SealStream
<1> HIDE DEF n, fr, Rest
<1>5. ASSUME NEW i \in 1 .. n
      PROVE  /\ Body(i) \in Seq(ACell) /\ Len(Body(i)) = Size(i)
             /\ \A k \in 1 .. Size(i) : /\ (i - 1) * FrameSize + k \in 1 .. N
                                        /\ Body(i)[k] = cells[(i - 1) * FrameSize + k]
  <2>1. i \in Nat \ {0} /\ i <= n
    BY <1>3
  <2>2. /\ (i - 1) * FrameSize \in Nat
        /\ i * FrameSize = (i - 1) * FrameSize + FrameSize
    BY <2>1, FrameStarts
  <2>3. i # n => i * FrameSize <= (n - 1) * FrameSize
    BY <1>3, <2>1, FrameSizeIs, TimesMonotone
  <2> DEFINE a == (i - 1) * FrameSize
             b == Min({i * FrameSize, N})
  <2>4. a \in Nat /\ b \in Nat /\ b = a + Size(i) /\ b <= N /\ Size(i) \in Nat
    <3>1. b = IF i * FrameSize <= N THEN i * FrameSize ELSE N
      BY <1>1, <2>2, FrameSizeIs, MinOfTwo
    <3>2. CASE i = n
      BY <1>1, <1>3, <2>2, <3>1, <3>2, FrameSizeIs
    <3>3. CASE i # n
      BY <1>1, <1>3, <2>2, <2>3, <3>1, <3>3, FrameSizeIs
    <3>4. QED
      BY <3>2, <3>3
  <2>5. Body(i) = SubSeq(cells, a + 1, b)
    OBVIOUS
  <2> HIDE DEF a, b, Body, Size
  <2>6. a + 1 \in Nat \ {0} /\ b <= Len(cells)
    BY <2>4
  <2>7. /\ SubSeq(cells, a + 1, b) \in Seq(ACell)
        /\ Len(SubSeq(cells, a + 1, b)) = IF a + 1 <= b THEN b - (a + 1) + 1 ELSE 0
        /\ \A k \in 1 .. Len(SubSeq(cells, a + 1, b)) :
              (a + 1) + k - 1 \in 1 .. N /\ SubSeq(cells, a + 1, b)[k] = cells[(a + 1) + k - 1]
    <3> DEFINE a1 == a + 1
    <3>1. cells \in Seq(ACell) /\ a1 \in Nat \ {0} /\ b \in Nat /\ b <= Len(cells)
      BY <2>4, <2>6
    <3> HIDE DEF a1
    <3>2. /\ SubSeq(cells, a1, b) \in Seq(ACell)
          /\ Len(SubSeq(cells, a1, b)) = IF a1 <= b THEN b - a1 + 1 ELSE 0
          /\ \A k \in 1 .. Len(SubSeq(cells, a1, b)) :
                a1 + k - 1 \in 1 .. Len(cells) /\ SubSeq(cells, a1, b)[k] = cells[a1 + k - 1]
      BY ONLY <3>1, SegmentIs
    <3>3. QED
      BY <3>2 DEF a1
  <2>8. Len(Body(i)) = Size(i)
    BY <2>4, <2>5, <2>7
  <2>9. \A k \in 1 .. Size(i) : a + k \in 1 .. N /\ Body(i)[k] = cells[a + k]
    <3>1. \A k \in 1 .. Size(i) : (a + 1) + k - 1 = a + k
      BY <2>4
    <3>2. QED
      BY <2>5, <2>7, <2>8, <3>1
  <2>10. QED
    BY <2>5, <2>7, <2>8, <2>9 DEF a
<1>6. ASSUME NEW i \in 1 .. n
      PROVE  /\ fr[i] \in AFrame /\ fr[i].body = Body(i)
             /\ fr[i] = Frame(Cek, i - 1, i = n, AadAt(h, i - 1), Body(i))
  <2>1. fr[i] = Frame(Cek, i - 1, i = n, AadAt(h, i - 1), Body(i))
    BY <1>4
  <2>2. i - 1 \in Nat /\ (i = n) \in BOOLEAN /\ AadAt(h, i - 1) \in AHeader
    BY <1>3, AadIs
  <2>3. Body(i) \in Seq(ACell)
    BY <1>5
  <2> HIDE DEF Body
  <2>4. QED
    BY <2>1, <2>2, <2>3 DEF Frame, AFrame
<1>7. fr \in Seq(AFrame) /\ Len(fr) = n
  <2>1. fr \in [1 .. n -> AFrame]
    BY <1>4, <1>6
  <2>2. QED
    BY <1>3, <2>1, IsSequence
<1>8. ASSUME h.ver # "v5" PROVE Sealed(fr, h, cells)
  <2>1. \A i \in 1 .. n : FrameAt(h, cells, i, i = n, IF i = n THEN Rest ELSE FrameSize, fr[i])
    <3> SUFFICES ASSUME NEW i \in 1 .. n PROVE FrameAt(h, cells, i, i = n, Size(i), fr[i])
      OBVIOUS
    <3> HIDE DEF Size, Body
    <3>1. QED
      BY <1>5, <1>6 DEF FrameAt
  <2>2. n > 0 /\ N - (n - 1) * FrameSize = Rest /\ Rest >= 0 /\ Rest < FrameSize
    BY <1>1, <1>3, FrameSizeIs
  <2>3. QED
    BY <1>7, <1>8, <2>1, <2>2 DEF Sealed
<1>9. ASSUME NEW S, GenuineCells(S, cells), NEW i \in 1 .. n
      PROVE  GenuineCells(S, fr[i].body)
  <2> HIDE DEF Body, Size
  <2>1. QED
    BY <1>5, <1>6, <1>9 DEF GenuineCells
<1>10. QED
  BY <1>7, <1>8, <1>9 DEF fr

(***************************************************************************)
(* Least numbers, powers of two, and crypto_padme_size.                    *)
(***************************************************************************)
LEMMA Lowest ==
    ASSUME NEW S \in SUBSET Nat, S # {}
    PROVE  \E h \in S : \A k \in S : h <= k
<1>1. PICK h \in S : \A k \in S : ~ (<<k, h>> \in OpToRel(<, Nat))
  BY NatLessThanWellFounded, WFMin
<1>2. ASSUME NEW k \in S PROVE h <= k
  <2>1. k \in Nat /\ h \in Nat
    OBVIOUS
  <2>2. ~ (k < h)
    BY <1>1, <2>1 DEF OpToRel
  <2>3. QED
    BY <2>1, <2>2
<1>3. QED
  BY <1>2

(* What holds of 0 and of the successor of each, for a set. *)
LEMMA AllNumbers ==
    ASSUME NEW S, 0 \in S, \A n \in Nat : n \in S => n + 1 \in S
    PROVE  Nat \subseteq S
<1> SUFFICES ASSUME Nat \ S # {} PROVE FALSE
  OBVIOUS
<1>1. PICK h \in Nat \ S : \A k \in Nat \ S : h <= k
  BY Lowest
<1>2. h # 0 /\ h \in Nat
  BY <1>1
<1>3. h - 1 \in Nat /\ ~(h <= h - 1) /\ (h - 1) + 1 = h
  BY <1>2
<1>4. QED
  BY <1>1, <1>3

LEMMA PowerIs ==
    ASSUME NEW n \in Nat
    PROVE  2 ^ n \in Nat \ {0} /\ n <= 2 ^ n
<1>1. IsFiniteSet(1 .. n) /\ Cardinality(1 .. n) = n
  BY FS_Interval
<1>2. IsFiniteSet(SUBSET (1 .. n)) /\ Cardinality(SUBSET (1 .. n)) = 2 ^ n
  BY <1>1, FS_SUBSET
<1>3. 2 ^ n \in Nat /\ 2 ^ n # 0
  BY <1>2, FS_CardinalityType, FS_EmptySet
<1> DEFINE f == [i \in 1 .. n |-> {i}]
<1>4. f \in Injection(1 .. n, SUBSET (1 .. n))
  BY DEF Injection, IsInjective
<1>5. n <= 2 ^ n
  BY <1>1, <1>2, <1>4, FS_Injection
<1>6. QED
  BY <1>3, <1>5

LEMMA SmallPowers == 2 ^ 0 = 1 /\ 2 ^ 1 = 2
<1>1. IsFiniteSet({}) /\ Cardinality({}) = 0
  BY FS_EmptySet
<1>2. Cardinality(SUBSET {}) = 2 ^ 0
  BY <1>1, FS_SUBSET
<1>3. SUBSET {} = {{}}
  OBVIOUS
<1>4. Cardinality({{}}) = 1
  BY FS_Singleton
<1>5. IsFiniteSet({1}) /\ Cardinality({1}) = 1
  BY FS_Singleton
<1>6. Cardinality(SUBSET {1}) = 2 ^ 1
  BY <1>5, FS_SUBSET
<1>7. SUBSET {1} = {{}} \cup {{1}} /\ {1} \notin {{}}
  OBVIOUS
<1>8. IsFiniteSet({{}})
  BY FS_Singleton
<1>9. Cardinality({{}} \cup {{1}}) = Cardinality({{}}) + 1
  BY <1>7, <1>8, FS_AddElement
<1>10. QED
  BY <1>2, <1>3, <1>4, <1>6, <1>7, <1>9

LEMMA FloorLog2Is ==
    ASSUME NEW n \in Nat \ {0}
    PROVE  FloorLog2(n) \in 0 .. n /\ (n >= 2 => FloorLog2(n) # 0)
<1> DEFINE S == {e \in Nat : n < 2 ^ (e + 1)}
<1>1. n + 1 <= 2 ^ (n + 1)
  BY PowerIs
<1>2. n \in S
  BY <1>1, PowerIs
<1>3. PICK e \in S : \A k \in S : e <= k
  BY <1>2, Lowest
<1>4. e \in Nat /\ e <= n /\ n < 2 ^ (e + 1)
  BY <1>2, <1>3
<1>5. 2 ^ e <= n
  <2>1. CASE e = 0
    BY <2>1, SmallPowers
  <2>2. CASE e # 0
    <3>1. e - 1 \in Nat /\ ~(e <= e - 1) /\ (e - 1) + 1 = e
      BY <1>4, <2>2
    <3>2. ~(n < 2 ^ e)
      BY <1>3, <3>1
    <3>3. QED
      BY <1>4, <3>2, PowerIs
  <2>3. QED
    BY <2>1, <2>2
<1>6. \E x \in 0 .. n : 2 ^ x <= n /\ n < 2 ^ (x + 1)
  BY <1>4, <1>5
<1>7. FloorLog2(n) \in 0 .. n /\ n < 2 ^ (FloorLog2(n) + 1)
  BY <1>6 DEF FloorLog2
<1>8. ASSUME FloorLog2(n) = 0 PROVE n < 2
  BY <1>7, <1>8, SmallPowers
<1>9. QED
  BY <1>7, <1>8

(* Padding never makes a file shorter. *)
LEMMA PadmeIs ==
    ASSUME NEW n \in Nat
    PROVE  PadmeSize(n) \in Nat /\ PadmeSize(n) >= n
<1> DEFINE b == FloorLog2(n) - (FloorLog2(FloorLog2(n)) + 1)
<1>1. CASE n < 2 \/ b <= 0
  BY <1>1 DEF PadmeSize
<1>2. CASE ~(n < 2) /\ ~(b <= 0)
  <2>1. FloorLog2(n) \in Nat \ {0}
    BY <1>2, FloorLog2Is
  <2>2. FloorLog2(FloorLog2(n)) \in Nat
    BY <2>1, FloorLog2Is
  <2>3. b \in Nat
    BY <1>2, <2>1, <2>2
  <2> DEFINE p == 2 ^ b
             a == n + p - 1
  <2>4. p \in Nat \ {0}
    BY <2>3, PowerIs
  <2>5. PadmeSize(n) = (a \div p) * p
    BY <1>2 DEF PadmeSize
  <2> HIDE DEF p
  <2>6. a \in Nat
    BY <2>4
  <2> HIDE DEF a
  <2>7. a \div p \in Nat /\ a < (a \div p) * p + p
    BY <2>4, <2>6, DivIs
  <2>8. (a \div p) * p \in Nat
    BY <2>4, <2>7
  <2>9. n + p - 1 < (a \div p) * p + p
    BY <2>7 DEF a
  <2>10. QED
    BY <2>4, <2>5, <2>8, <2>9
<1>3. QED
  BY <1>1, <1>2

(* The contents of frames, one after the other. *)
LEMMA FlattenIs ==
    ASSUME NEW T, NEW seqs, NEW n \in Nat, seqs \in [1 .. n -> Seq(T)]
    PROVE  /\ FlattenSeq(seqs) \in Seq(T)
           /\ n = 1 => FlattenSeq(seqs) = seqs[1]
<1>1. Len(seqs) = n
  BY IsSequence
<1>2. CASE n = 0
  <2>1. FlattenSeq(seqs) = seqs
    BY <1>1, <1>2 DEF FlattenSeq
  <2>2. seqs = <<>>
    BY <1>2
  <2>3. QED
    BY <1>2, <2>1, <2>2, EmptySeq
<1>3. CASE n # 0
  <2> DEFINE Rec(g, k) == g = [i \in 1 .. k |-> IF i = 1 THEN seqs[i] ELSE g[i - 1] \o seqs[i]]
             S == {k \in Nat : \E g : Rec(g, k)}
  <2>1. 0 \in S
    <3>1. Rec(<<>>, 0)
      OBVIOUS
    <3>2. QED
      BY <3>1
  <2>2. ASSUME NEW k \in Nat, k \in S PROVE k + 1 \in S
    <3>1. PICK g : Rec(g, k)
      BY <2>2
    <3> DEFINE v == IF k + 1 = 1 THEN seqs[k + 1] ELSE g[k] \o seqs[k + 1]
               h == [i \in 1 .. (k + 1) |-> IF i = k + 1 THEN v ELSE g[i]]
    <3>2. ASSUME NEW i \in 1 .. (k + 1)
          PROVE  h[i] = IF i = 1 THEN seqs[i] ELSE h[i - 1] \o seqs[i]
      <4>1. CASE i = k + 1 /\ i = 1
        BY <4>1
      <4>2. CASE i = k + 1 /\ i # 1
        <5>1. i - 1 = k /\ k \in 1 .. (k + 1) /\ k # k + 1
          BY <4>2
        <5>2. h[k] = g[k] /\ h[i] = g[k] \o seqs[i]
          BY <4>2, <5>1
        <5>3. QED
          BY <4>2, <5>1, <5>2
      <4>3. CASE i # k + 1 /\ i = 1
        <5>1. i \in 1 .. k /\ h[i] = g[i]
          BY <4>3
        <5>2. g[i] = seqs[i]
          BY <3>1, <4>3, <5>1
        <5>3. QED
          BY <4>3, <5>1, <5>2
      <4>4. CASE i # k + 1 /\ i # 1
        <5>1. i \in 1 .. k /\ i - 1 \in 1 .. (k + 1) /\ i - 1 # k + 1
          BY <4>4
        <5>2. h[i] = g[i] /\ h[i - 1] = g[i - 1]
          BY <4>4, <5>1
        <5>3. g[i] = g[i - 1] \o seqs[i]
          BY <3>1, <4>4, <5>1
        <5>4. QED
          BY <4>4, <5>2, <5>3
      <4>5. QED
        BY <4>1, <4>2, <4>3, <4>4
    <3>3. DOMAIN h = 1 .. (k + 1) /\ h = [i \in 1 .. (k + 1) |-> h[i]]
      OBVIOUS
    <3> HIDE DEF h
    <3>4. Rec(h, k + 1)
      BY <3>2, <3>3
    <3>5. k + 1 \in Nat
      OBVIOUS
    <3> HIDE DEF Rec
    <3>6. QED
      BY <3>4, <3>5
  <2>3. \E g : Rec(g, n)
    <3> HIDE DEF Rec
    <3>1. Nat \subseteq S
      BY <2>1, <2>2, AllNumbers
    <3>2. QED
      BY <3>1
  <2> DEFINE f == CHOOSE g : Rec(g, n)
  <2>4. Rec(f, n)
    <3> HIDE DEF Rec
    <3>1. QED
      BY <2>3
  <2>5. FlattenSeq(seqs) = f[n]
    BY <1>1, <1>3 DEF FlattenSeq
  <2> HIDE DEF f
  <2>6. \A i \in 1 .. n : f[i] = IF i = 1 THEN seqs[i] ELSE f[i - 1] \o seqs[i]
    BY <2>4
  <2> DEFINE G == {k \in Nat : k \in 1 .. n => f[k] \in Seq(T)}
  <2>7. 0 \in G
    OBVIOUS
  <2>8. ASSUME NEW k \in Nat, k \in G PROVE k + 1 \in G
    <3> SUFFICES ASSUME k + 1 \in 1 .. n PROVE f[k + 1] \in Seq(T)
      OBVIOUS
    <3>1. seqs[k + 1] \in Seq(T)
      OBVIOUS
    <3>2. CASE k = 0
      BY <2>6, <3>1, <3>2
    <3>3. CASE k # 0
      <4>1. k \in 1 .. n /\ k + 1 # 1 /\ k + 1 - 1 = k
        BY <3>3
      <4>1a. f[k + 1] = f[k] \o seqs[k + 1]
        <5> DEFINE j == k + 1
        <5>1. j \in 1 .. n /\ j # 1 /\ j - 1 = k
          BY <4>1
        <5> HIDE DEF j
        <5>2. f[j] = f[j - 1] \o seqs[j]
          BY <2>6, <5>1
        <5>3. f[j] = f[k] \o seqs[j]
          BY <5>1, <5>2
        <5>4. QED
          BY <5>3 DEF j
      <4>1b. f[k] \in Seq(T)
        BY <2>8, <4>1
      <4>2. f[k] \in Seq(T) /\ f[k + 1] = f[k] \o seqs[k + 1]
        BY <4>1a, <4>1b
      <4> DEFINE x == f[k]
                 y == seqs[k + 1]
      <4>3. x \in Seq(T) /\ y \in Seq(T)
        BY <3>1, <4>2
      <4> HIDE DEF x, y
      <4>4. x \o y \in Seq(T)
        BY ONLY <4>3, ConcatIs
      <4>5. QED
        BY <4>2, <4>4 DEF x, y
    <3>4. QED
      BY <3>2, <3>3
  <2>9. n \in G
    BY <2>7, <2>8, AllNumbers
  <2>10. QED
    BY <1>3, <2>5, <2>6, <2>9
<1>4. QED
  BY <1>2, <1>3

(***************************************************************************)
(* Types and signatures are kept by crypto_encrypt_file and crypto_armor.  *)
(***************************************************************************)
FilesOk(F, S) == F \in [Name -> AFile] /\ \A n \in Name : GenuineFile(S, F[n])

LEMMA EmptyGenuine ==
    ASSUME NEW f, f.frames = <<>>, NEW S
    PROVE  GenuineFile(S, f)
  BY DEF GenuineFile

LEMMA MoreGenuine ==
    ASSUME NEW S, NEW U, S \subseteq U
    PROVE  /\ \A t : Genuine(S, t) => Genuine(U, t)
           /\ \A c : GenuineCells(S, c) => GenuineCells(U, c)
           /\ \A f : GenuineFile(S, f) => GenuineFile(U, f)
  BY DEF Genuine, GenuineCells, GenuineFile

LEMMA WithFile ==
    ASSUME NEW F, NEW S, FilesOk(F, S), NEW n \in Name, NEW g \in AFile, GenuineFile(S, g)
    PROVE  FilesOk([F EXCEPT ![n] = g], S)
  BY DEF FilesOk

LEMMA RemovedOk ==
    ASSUME NEW S, FilesOk(fs, S), NEW R
    PROVE  FilesOk(Removed(R), S)
  BY FilesAre, EmptyGenuine DEF FilesOk, Removed

LEMMA EncHeaderIs ==
    /\ EncHeader \in AHeader /\ EncHeader.ver = "v7" /\ EncHeader.recs # <<>>
    /\ EncHeader.recs[1].to = "A"
<1> DEFINE r == [i \in DOMAIN Recipients |-> Record(Recipients[i], Cek)]
<1>1. Recipients \in Seq({"A", "B"}) /\ Len(Recipients) = 2 /\ DOMAIN Recipients = 1 .. 2
      /\ Recipients[1] = "A" /\ Recipients[2] = "B"
  BY DEF Recipients
<1>2. r \in [1 .. 2 -> [to : {"A", "B"}, cek : {Cek}]]
  <2>1. \A i \in 1 .. 2 : Recipients[i] \in {"A", "B"}
    BY <1>1
  <2>2. QED
    BY <1>1, <2>1 DEF Record
<1>3. r \in Seq([to : {"A", "B"}, cek : {Cek}]) /\ Len(r) = 2
  BY <1>2, IsSequence
<1>4. r[1].to = "A" /\ r # <<>>
  BY <1>1, <1>3 DEF Record
<1>5. QED
  BY <1>3, <1>4 DEF EncHeader, Header, AHeader

LEMMA EncMetaIs ==
    ASSUME NEW c \in Encryption, NEW n \in Nat
    PROVE  /\ EncMeta(c, n) \in AMeta
           /\ EncMeta(c, n).padded = (EncMeta(c, n).pad > 0)
           /\ EncMeta(c, n).signed = (c.sign # "none")
           /\ EncMeta(c, n).len = IF c.stdin THEN Unknown ELSE n
           /\ ~c.pad => EncMeta(c, n).pad = 0
<1>1. PadmeSize(n) - n \in Nat
  BY PadmeIs
<1>2. c.stdin \in BOOLEAN /\ c.pad \in BOOLEAN
  BY DEF Encryption
<1> DEFINE p == IF c.pad THEN PadmeSize(n) - n ELSE 0
<1>3. p \in Nat /\ (~c.pad => p = 0)
  BY <1>1
<1>4. EncMeta(c, n) = Meta(~c.stdin, c.sign # "none", p, IF c.stdin THEN Unknown ELSE n)
  BY DEF EncMeta
<1> HIDE DEF p
<1>5. QED
  BY <1>2, <1>3, <1>4, Blanks DEF Meta, AMeta

LEMMA NoEncIs == NoEnc \in AnEnc /\ NoEnc.trailer = NoTrailer /\ NoEnc.hdr = NoHdr
<1>1. <<>> \in Seq(Int)
  BY EmptySeq
<1>2. QED
  BY <1>1, Blanks DEF NoEnc, AnEnc

EncStarted(c, n) ==
    [NoEnc EXCEPT !.hdr = EncHeader, !.meta = EncMeta(c, n), !.left = EncMeta(c, n).len,
                  !.pad_left = EncMeta(c, n).pad]

LEMMA EncStartedIs ==
    ASSUME NEW c \in Encryption, NEW n \in Nat
    PROVE  /\ EncStarted(c, n) \in AnEnc
           /\ EncStarted(c, n).trailer = NoTrailer
           /\ EncStarted(c, n).hdr = EncHeader
           /\ EncStarted(c, n).meta = EncMeta(c, n)
<1> DEFINE m == EncMeta(c, n)
<1>1. m \in AMeta /\ EncHeader \in AHeader
  BY EncMetaIs, EncHeaderIs
<1>2. m.len \in Int /\ m.pad \in Nat
  BY <1>1 DEF AMeta
<1>3. EncStarted(c, n) = [NoEnc EXCEPT !.hdr = EncHeader, !.meta = m, !.left = m.len,
                                       !.pad_left = m.pad]
  BY DEF EncStarted
<1> HIDE DEF m
<1>4. /\ EncStarted(c, n) \in AnEnc
      /\ EncStarted(c, n).trailer = NoEnc.trailer
      /\ EncStarted(c, n).hdr = EncHeader
      /\ EncStarted(c, n).meta = m
  BY <1>1, <1>2, <1>3, NoEncIs DEF AnEnc
<1>5. QED
  BY <1>4, NoEncIs DEF m

LEMMA BaseFacts ==
    ASSUME BaseInv
    PROVE  /\ FilesOk(fs, said)
           /\ \A n \in Name : fs[n] \in AFile /\ GenuineFile(said, fs[n])
           /\ enc \in AnEnc /\ sink \in ASink /\ truth \in Seq(Int)
           /\ enc.hdr \in AHeader /\ enc.meta \in AMeta /\ enc.trailer \in ATrailer
           /\ enc.data \in Seq(Int)
<1>1. /\ FilesOk(fs, said) /\ enc \in AnEnc /\ sink \in ASink /\ truth \in Seq(Int)
      /\ \A n \in Name : fs[n] \in AFile /\ GenuineFile(said, fs[n])
  BY DEF BaseInv, Types, SaidInv, FilesOk
<1>2. /\ enc.hdr \in AHeader /\ enc.meta \in AMeta /\ enc.trailer \in ATrailer
      /\ enc.data \in Seq(Int)
  BY <1>1 DEF AnEnc
<1>3. QED
  BY <1>1, <1>2

(* A command that encrypts, from one step to the next. *)
LEMMA EncCommandKept ==
    ASSUME BaseInv, cmd' = cmd, cmd.op = "enc", sink' = sink, said \subseteq said',
           FilesOk(fs', said'), enc' \in AnEnc, Genuine(said', enc'.trailer), truth' \in Seq(Int),
           fs'["res"] = fs["res"],
           pc' \in {"enc_open", "enc_frame", "enc_close", "armor", "ret", "crashed"}
    PROVE  BaseInv'
<1>1. Types'
  BY DEF BaseInv, Types, FilesOk
<1>2. SaidInv'
  BY MoreGenuine DEF BaseInv, SaidInv, FilesOk
<1>3. Phases'
  BY DEF BaseInv, Phases, Encrypting
<1>4. DecInv'
  BY DEF DecInv
<1>5. QED
  BY <1>1, <1>2, <1>3, <1>4 DEF BaseInv

LEMMA BaseEncBegin ==
    ASSUME BaseInv, NEW c \in Encryption, EncBegin(c)
    PROVE  BaseInv'
<1>0. c.op = "enc" /\ pc = "idle" /\ cmd' = c
  BY DEF Encryption, EncBegin
<1>1. UNCHANGED <<fs, sink, said, truth>>
  BY DEF EncBegin
<1>2. Untouched(fs["res"])
  BY <1>0 DEF BaseInv, Phases
<1>3. pc' \in {"ret", "enc_open"}
  BY DEF EncBegin
<1>4. enc' = enc \/ enc' = EncStarted(c, Len(fs["in"].data))
  <2>1. enc' = enc \/ enc' = LET m == EncMeta(c, Len(fs["in"].data))
                             IN  [NoEnc EXCEPT !.hdr = EncHeader, !.meta = m, !.left = m.len,
                                               !.pad_left = m.pad]
    BY DEF EncBegin
  <2>2. QED
    BY <2>1 DEF EncStarted
<1>5. Len(fs["in"].data) \in Nat
  BY BaseFacts, FileFields DEF Name
<1>6. enc' \in AnEnc /\ Genuine(said, enc'.trailer)
  <2>1. CASE enc' = enc
    BY <2>1, BaseFacts DEF BaseInv, SaidInv
  <2>2. CASE enc' = EncStarted(c, Len(fs["in"].data))
    BY <1>5, <2>2, EncStartedIs, Blanks DEF Genuine
  <2>3. QED
    BY <1>4, <2>1, <2>2
<1>7. Types'
  BY <1>1, <1>6 DEF BaseInv, Types
<1>8. SaidInv'
  BY <1>1, <1>6 DEF BaseInv, SaidInv
<1>9. Phases'
  BY <1>0, <1>1, <1>2, <1>3 DEF Phases, Encrypting
<1>10. DecInv'
  BY <1>0 DEF DecInv
<1>11. QED
  BY <1>7, <1>8, <1>9, <1>10 DEF BaseInv

(* While a file is encrypted the output is not "res". *)
LEMMA EncTarget ==
    ASSUME BaseInv, Encrypting
    PROVE  /\ cmd.op = "enc" /\ cmd \in Encryption
           /\ cmd.to \in Name /\ cmd.to # "res"
           /\ {cmd.to, "tmp"} \ {"pipe"} \subseteq Name \ {"res"}
<1>1. cmd.op = "enc"
  BY DEF BaseInv, Phases, DecInv, NoCmd, Encrypting, Decrypting
<1>2. cmd \in Encryption
  BY <1>1 DEF BaseInv, Phases
<1>3. cmd.to \in {"out", "in", "pipe", "tmp"}
  BY <1>2 DEF Encryption
<1>4. QED
  BY <1>1, <1>2, <1>3 DEF Name

LEMMA BaseEncOpen ==
    ASSUME BaseInv, EncOpen
    PROVE  BaseInv'
<1>1. cmd.op = "enc" /\ cmd.to \in Name /\ cmd.to # "res"
  BY EncTarget DEF EncOpen, Encrypting
<1>2. UNCHANGED <<cmd, enc, sink, said, truth>> /\ pc' \in {"enc_frame", "ret"}
  BY DEF EncOpen
<1>3. enc.hdr \in AHeader /\ <<>> \in Seq(AFrame)
  BY BaseFacts, EmptySeq
<1>4. Cont(enc.hdr, <<>>) \in AFile /\ GenuineFile(said, Cont(enc.hdr, <<>>))
  BY <1>3, FilesAre, EmptyGenuine
<1>5. fs' = fs \/ fs' = [fs EXCEPT ![cmd.to] = Cont(enc.hdr, <<>>)]
  BY DEF EncOpen, Write
<1>6. FilesOk(fs', said)
  BY <1>1, <1>4, <1>5, BaseFacts, WithFile
<1>7. fs'["res"] = fs["res"]
  BY <1>1, <1>5, BaseFacts DEF FilesOk, Name
<1>8. QED
  BY <1>1, <1>2, <1>6, <1>7, BaseFacts, EncCommandKept DEF BaseInv, SaidInv

LEMMA BaseEncFail ==
    ASSUME BaseInv, NEW code, Encrypting, EncFail(code), UNCHANGED <<cmd, enc, sink, said, truth>>
    PROVE  BaseInv'
<1>1. cmd.op = "enc" /\ {cmd.to, "tmp"} \ {"pipe"} \subseteq Name \ {"res"}
  BY EncTarget
<1>2. fs' = Removed({cmd.to, "tmp"} \ {"pipe"}) /\ pc' = "ret"
  BY DEF EncFail
<1>3. FilesOk(fs', said)
  BY <1>2, BaseFacts, RemovedOk
<1>4. fs'["res"] = fs["res"]
  BY <1>1, <1>2 DEF Removed, Name
<1>5. QED
  BY <1>1, <1>2, <1>3, <1>4, BaseFacts, EncCommandKept DEF BaseInv, SaidInv

LEMMA BaseEncFault ==
    ASSUME BaseInv, EncFault
    PROVE  BaseInv'
<1>1. Encrypting /\ UNCHANGED <<cmd, enc, sink, said, truth>>
  BY DEF EncFault, Encrypting
<1>2. CASE EncFail("io")
  BY <1>1, <1>2, BaseEncFail
<1>3. CASE pc' = "ret" /\ fs' = Removed({"tmp"})
  <2>1. FilesOk(fs', said) /\ fs'["res"] = fs["res"]
    BY <1>3, BaseFacts, RemovedOk DEF Removed, Name
  <2>2. QED
    BY <1>1, <1>3, <2>1, BaseFacts, EncTarget, EncCommandKept DEF BaseInv, SaidInv
<1>4. QED
  BY <1>2, <1>3 DEF EncFault

LEMMA BaseEncClose ==
    ASSUME BaseInv, EncClose
    PROVE  BaseInv'
<1>1. cmd.op = "enc"
  BY EncTarget DEF EncClose, Encrypting
<1>2. UNCHANGED <<fs, cmd, enc, sink, said>> /\ truth' = enc.data /\ pc' \in {"armor", "ret"}
  BY DEF EncClose
<1>3. QED
  BY <1>1, <1>2, BaseFacts, EncCommandKept DEF BaseInv, SaidInv

LEMMA BaseEncFlushLost ==
    ASSUME BaseInv, EncFlushLost
    PROVE  BaseInv'
<1>1. cmd.op = "enc" /\ cmd.to \in Name /\ cmd.to # "res"
  BY EncTarget DEF EncFlushLost, Encrypting
<1>2. UNCHANGED <<cmd, enc, sink, said>> /\ truth' = enc.data /\ pc' \in {"armor", "ret"}
  BY DEF EncFlushLost
<1>3. PICK f \in Torn(fs[cmd.to]) : fs' = [fs EXCEPT ![cmd.to] = f]
  BY DEF EncFlushLost, Write
<1>4. f \in AFile /\ GenuineFile(said, f)
  BY <1>1, BaseFacts, TornIs, TornGenuine
<1>5. FilesOk(fs', said)
  BY <1>1, <1>3, <1>4, BaseFacts, WithFile
<1>5a. fs'["res"] = fs["res"]
  BY <1>1, <1>3, BaseFacts DEF FilesOk, Name
<1>6. QED
  BY <1>1, <1>2, <1>5, <1>5a, BaseFacts, EncCommandKept DEF BaseInv, SaidInv

LEMMA ArmoredIs ==
    ASSUME NEW f \in AFile
    PROVE  /\ Armored(f) \in AFile /\ Armored(f).frames = f.frames
           /\ Armored(f).kind = "armor"
           /\ \A S : GenuineFile(S, f) => GenuineFile(S, Armored(f))
<1>1. Armored(f) \in AFile /\ Armored(f).frames = f.frames /\ Armored(f).kind = "armor"
  BY FileWith DEF Armored
<1>2. QED
  BY <1>1 DEF GenuineFile

LEMMA TwoFiles ==
    ASSUME NEW F, NEW S, FilesOk(F, S), NEW n \in Name, NEW g \in AFile, GenuineFile(S, g),
           NEW k \in Name, NEW h \in AFile, GenuineFile(S, h)
    PROVE  FilesOk([F EXCEPT ![n] = g, ![k] = h], S)
<1>1. FilesOk([F EXCEPT ![n] = g], S)
  BY WithFile
<1> DEFINE G == [F EXCEPT ![n] = g]
<1>2. [F EXCEPT ![n] = g, ![k] = h] = [G EXCEPT ![k] = h]
  OBVIOUS
<1> HIDE DEF G
<1>3. FilesOk(G, S)
  BY <1>1 DEF G
<1>4. QED
  BY <1>2, <1>3, WithFile

LEMMA BaseArmor ==
    ASSUME BaseInv, Armor \/ ArmorFails
    PROVE  BaseInv'
<1>1. cmd.op = "enc" /\ pc' = "ret" /\ UNCHANGED <<cmd, enc, sink, said, truth>>
  BY EncTarget DEF Armor, ArmorFails, Encrypting
<1>2. PICK f \in {fs["out"]} \cup {Armored(g) : g \in Torn(fs["tmp"]) \cup {fs["tmp"]}} :
         fs' = [fs EXCEPT !["out"] = f, !["tmp"] = NoFile]
  BY DEF Armor, ArmorFails
<1>3. "out" \in Name /\ "tmp" \in Name /\ "res" \in Name
  BY DEF Name
<1>4. f \in AFile /\ GenuineFile(said, f)
  BY <1>2, <1>3, BaseFacts, TornIs, TornGenuine, ArmoredIs
<1>5. NoFile \in AFile /\ GenuineFile(said, NoFile)
  BY FilesAre, EmptyGenuine
<1>6. FilesOk(fs', said)
  BY <1>2, <1>3, <1>4, <1>5, BaseFacts, TwoFiles
<1>7. fs'["res"] = fs["res"]
  BY <1>2, <1>3, BaseFacts DEF FilesOk
<1>8. QED
  BY <1>1, <1>6, <1>7, BaseFacts, EncCommandKept DEF BaseInv, SaidInv

LEMMA BaseInputChanges ==
    ASSUME BaseInv, InputChanges
    PROVE  BaseInv'
<1>1. cmd.op = "enc" /\ pc' = pc /\ UNCHANGED <<cmd, enc, sink, said, truth>>
      /\ pc \in {"enc_open", "enc_frame"}
  BY EncTarget DEF InputChanges, Encrypting
<1>2. "in" \in Name /\ "res" \in Name
  BY DEF Name
<1> DEFINE d == fs["in"].data
<1>3. d \in Seq(Int)
  BY <1>2, BaseFacts, FileFields
<1>4. PICK e : fs' = [fs EXCEPT !["in"] = Plain(e)] /\ (e = Append(d, Len(d) + 1) \/ (d # <<>> /\ e = Front(d)))
  BY DEF InputChanges, Write
<1>5. e \in Seq(Int)
  <2>1. Append(d, Len(d) + 1) \in Seq(Int)
    BY <1>3, AppendIs, EmptyHasNone
  <2>2. d # <<>> => Front(d) \in Seq(Int)
    <3>1. Front(d) = SubSeq(d, 1, Len(d) - 1)
      BY DEF Front
    <3>2. d # <<>> => Len(d) - 1 \in 0 .. Len(d)
      BY <1>3, EmptyHasNone
    <3>3. QED
      BY <1>3, <3>1, <3>2, PrefixIs
  <2>3. QED
    BY <1>4, <2>1, <2>2
<1>6. Plain(e) \in AFile /\ GenuineFile(said, Plain(e))
  BY <1>5, FilesAre, EmptyGenuine
<1>7. FilesOk(fs', said) /\ fs'["res"] = fs["res"]
  BY <1>2, <1>4, <1>6, BaseFacts, WithFile DEF FilesOk
<1>8. QED
  BY <1>1, <1>7, BaseFacts, EncCommandKept DEF BaseInv, SaidInv

(***************************************************************************)
(* A frame of crypto_encrypt_file, part by part.                           *)
(***************************************************************************)
StMeta(e) == IF e.ctr = 0 THEN <<MetaCell(e.meta)>> ELSE <<>>
StRoom(e) == FrameSize - Len(StMeta(e))
StWant(e) ==
    IF e.done THEN 0 ELSE IF e.left = Unknown THEN StRoom(e) ELSE Min({StRoom(e), e.left})
StGot(e) == Take(Drop(fs["in"].data, e.pos), StWant(e))
StDone(e) ==
    e.done \/ IF e.left = Unknown THEN Len(StGot(e)) < StWant(e) ELSE e.left = Len(StGot(e))
StData(e) == e.data \o StGot(e)
StTr(e) ==
    IF ~StDone(e) \/ ~e.meta.signed THEN NoTrailer
    ELSE IF e.trailer # NoTrailer THEN e.trailer
    ELSE Trailer(cmd.sign, "S", e.hdr, e.meta, StData(e))
StSig(e) ==
    IF StTr(e) = NoTrailer THEN <<>>
    ELSE Take(Drop(TrailerCells(StTr(e)), e.trailer_off), StRoom(e) - Len(StGot(e)))
StFull(e) == e.meta.signed => e.trailer_off + Len(StSig(e)) = TrailerSize
StPad(e) ==
    IF StDone(e) /\ StFull(e)
    THEN Take(PadCells(e.pad_left), StRoom(e) - Len(StGot(e)) - Len(StSig(e))) ELSE <<>>
StBody(e) == ((StMeta(e) \o DataCells(StGot(e))) \o StSig(e)) \o StPad(e)

LEMMA StageParts ==
    ASSUME NEW e
    PROVE  /\ Stage(e).shrank = (e.left # Unknown /\ Len(StGot(e)) < StWant(e))
           /\ Stage(e).body = StBody(e)
           /\ Stage(e).next =
                [e EXCEPT !.ctr = @ + 1,
                          !.left = IF @ = Unknown THEN @ ELSE @ - Len(StGot(e)),
                          !.pos = @ + Len(StGot(e)), !.done = StDone(e), !.trailer = StTr(e),
                          !.trailer_off = @ + Len(StSig(e)), !.pad_left = @ - Len(StPad(e)),
                          !.data = StData(e)]
  BY Zenon DEF Stage, StMeta, StRoom, StWant, StGot, StDone, StData, StTr, StSig, StFull, StPad, StBody

LEMMA EncFields ==
    ASSUME NEW e \in AnEnc
    PROVE  /\ e.hdr \in AHeader /\ e.meta \in AMeta /\ e.ctr \in Nat /\ e.left \in Int
           /\ e.pos \in Nat /\ e.done \in BOOLEAN /\ e.trailer \in ATrailer
           /\ e.trailer_off \in Nat /\ e.pad_left \in Nat /\ e.data \in Seq(Int)
           /\ Len(e.data) \in Nat
<1>1. /\ e.hdr \in AHeader /\ e.meta \in AMeta /\ e.ctr \in Nat /\ e.left \in Int
      /\ e.pos \in Nat /\ e.done \in BOOLEAN /\ e.trailer \in ATrailer
      /\ e.trailer_off \in Nat /\ e.pad_left \in Nat /\ e.data \in Seq(Int)
  BY DEF AnEnc
<1>2. QED
  BY <1>1, EmptyHasNone

(* Each part is a sequence, and of what length. *)
LEMMA StGotIs ==
    ASSUME NEW e \in AnEnc, fs["in"] \in AFile
    PROVE  /\ StMeta(e) \in Seq(ACell) /\ Len(StMeta(e)) = IF e.ctr = 0 THEN 1 ELSE 0
           /\ StRoom(e) = (IF e.ctr = 0 THEN FrameSize - 1 ELSE FrameSize)
           /\ StRoom(e) \in Nat \ {0}
           /\ StWant(e) \in Int /\ StWant(e) <= StRoom(e)
           /\ StGot(e) \in Seq(Int) /\ Len(StGot(e)) \in Nat
           /\ Len(StGot(e)) <= StRoom(e)
           /\ Len(StGot(e)) <= StWant(e) \/ Len(StGot(e)) = 0
           /\ \A i \in 1 .. Len(StGot(e)) : /\ e.pos + i \in 1 .. Len(fs["in"].data)
                                            /\ StGot(e)[i] = fs["in"].data[e.pos + i]
           /\ Len(StGot(e)) < StWant(e) => e.pos + Len(StGot(e)) >= Len(fs["in"].data)
<1> DEFINE d == fs["in"].data
           x == Drop(d, e.pos)
           w == StWant(e)
           g == StGot(e)
<1>1. d \in Seq(Int) /\ e.pos \in Nat /\ e.left \in Int /\ e.meta \in AMeta /\ Len(d) \in Nat
  BY FileFields, EncFields
<1>2. StMeta(e) \in Seq(ACell) /\ Len(StMeta(e)) = IF e.ctr = 0 THEN 1 ELSE 0
  <2>1. e.ctr = 0 => StMeta(e) = <<MetaCell(e.meta)>> /\ MetaCell(e.meta) \in ACell
    BY <1>1, CellsIs DEF StMeta
  <2>2. e.ctr # 0 => StMeta(e) = <<>> /\ <<>> \in Seq(ACell) /\ Len(<<>>) = 0
    BY EmptySeq DEF StMeta
  <2>3. CASE e.ctr = 0
    <3> DEFINE c == MetaCell(e.meta)
    <3>1. c \in ACell /\ StMeta(e) = <<c>>
      BY <2>1, <2>3
    <3> HIDE DEF c
    <3>2. QED
      BY <2>3, <3>1
  <2>4. QED
    BY <2>2, <2>3
<1>3. StRoom(e) = (IF e.ctr = 0 THEN FrameSize - 1 ELSE FrameSize) /\ StRoom(e) \in Nat \ {0}
  BY <1>2, FrameSizeIs DEF StRoom
<1>4. w \in Int /\ w <= StRoom(e)
  BY <1>1, <1>3, MinOfTwo, Blanks DEF StWant
<1> HIDE DEF d, w
<1>5. /\ x \in Seq(Int) /\ Len(x) = IF e.pos <= Len(d) THEN Len(d) - e.pos ELSE 0
      /\ \A i \in 1 .. Len(x) : x[i] = d[e.pos + i]
  BY <1>1, DropIs
<1>6. g = Take(x, w)
  BY DEF StGot, d, w
<1> HIDE DEF x, g
<1>7. /\ g \in Seq(Int) /\ Len(g) = IF w <= 0 THEN 0 ELSE IF w <= Len(x) THEN w ELSE Len(x)
      /\ \A i \in 1 .. Len(g) : g[i] = x[i]
  BY <1>4, <1>5, <1>6, TakeIs
<1>8. Len(x) \in Nat
  BY <1>1, <1>5
<1>9. \A i \in 1 .. Len(g) : /\ i \in 1 .. Len(x) /\ e.pos + i \in 1 .. Len(d)
                             /\ g[i] = d[e.pos + i]
  <2> SUFFICES ASSUME NEW i \in 1 .. Len(g)
               PROVE  i \in 1 .. Len(x) /\ e.pos + i \in 1 .. Len(d) /\ g[i] = d[e.pos + i]
    OBVIOUS
  <2>1. i \in 1 .. Len(x)
    BY <1>7, <1>8
  <2>1a. i \in Nat \ {0} /\ i <= Len(x) /\ e.pos \in Nat /\ Len(d) \in Nat
    BY <1>1, <1>8, <2>1
  <2>1b. Len(x) = IF e.pos <= Len(d) THEN Len(d) - e.pos ELSE 0
    BY <1>5
  <2>2. e.pos + i \in 1 .. Len(d)
    BY ONLY <2>1a, <2>1b
  <2>3. QED
    BY <1>5, <1>7, <2>1, <2>2
<1>10. /\ Len(g) \in Nat /\ Len(g) <= StRoom(e) /\ (Len(g) <= w \/ Len(g) = 0)
       /\ Len(g) < w => e.pos + Len(g) >= Len(d)
  BY <1>1, <1>3, <1>4, <1>5, <1>7, <1>8
<1>11. QED
  BY <1>2, <1>3, <1>4, <1>7, <1>9, <1>10 DEF d, g, w

LEMMA StSigIs ==
    ASSUME NEW e \in AnEnc, fs["in"] \in AFile, cmd \in Encryption
    PROVE  LET w == StRoom(e) - Len(StGot(e))
               T == Len(TrailerPart(StTr(e)))
           IN  /\ w \in Nat
               /\ StDone(e) \in BOOLEAN
               /\ StData(e) \in Seq(Int) /\ Len(StData(e)) = Len(e.data) + Len(StGot(e))
               /\ StTr(e) \in ATrailer
               /\ StTr(e) \in {NoTrailer, e.trailer} \/ StTr(e).by = "S"
               /\ StSig(e) \in Seq(ACell)
               /\ Len(StSig(e)) \in Nat /\ Len(StSig(e)) <= w
               /\ e.trailer_off <= T => e.trailer_off + Len(StSig(e)) <= T
               /\ Len(StSig(e)) < w => e.trailer_off + Len(StSig(e)) >= T
               /\ \A i \in 1 .. Len(StSig(e)) :
                     /\ e.trailer_off + i \in 1 .. T
                     /\ StSig(e)[i] = TrailerPart(StTr(e))[e.trailer_off + i]
                     /\ StSig(e)[i].trailer = StTr(e)
<1> DEFINE w == StRoom(e) - Len(StGot(e))
           t == StTr(e)
           P == TrailerPart(t)
           T == Len(P)
           o == e.trailer_off
           x == Drop(TrailerCells(t), o)
           s == StSig(e)
<1>1. w \in Nat
  BY StGotIs
<1>2. /\ e.hdr \in AHeader /\ e.meta \in AMeta /\ e.done \in BOOLEAN /\ e.trailer \in ATrailer
      /\ e.trailer_off \in Nat /\ e.data \in Seq(Int) /\ Len(e.data) \in Nat /\ e.left \in Int
  BY EncFields
<1>3. StDone(e) \in BOOLEAN
  BY <1>2 DEF StDone
<1>4. StData(e) \in Seq(Int) /\ Len(StData(e)) = Len(e.data) + Len(StGot(e))
  <2> DEFINE a == e.data
             b == StGot(e)
  <2>1. a \in Seq(Int) /\ b \in Seq(Int)
    BY <1>2, StGotIs
  <2> HIDE DEF a, b
  <2>2. a \o b \in Seq(Int) /\ Len(a \o b) = Len(a) + Len(b)
    BY ONLY <2>1, ConcatIs
  <2>3. QED
    BY <2>2 DEF StData, a, b
<1>5. t \in ATrailer /\ (t \in {NoTrailer, e.trailer} \/ t.by = "S")
  <2>1. cmd.sign \in {"none", "S", "T"}
    BY DEF Encryption
  <2>2. Trailer(cmd.sign, "S", e.hdr, e.meta, StData(e)) \in ATrailer
        /\ Trailer(cmd.sign, "S", e.hdr, e.meta, StData(e)).by = "S"
    BY <1>2, <1>4, <2>1 DEF Trailer, ATrailer
  <2>3. QED
    BY <1>2, <2>2, Blanks DEF StTr
<1> HIDE DEF w, t
<1>6. P \in Seq(ACell) /\ T \in Nat /\ T = IF t = NoTrailer THEN 0 ELSE TrailerSize
  BY <1>5, TrailerPartIs, LenProperties, FramesAssumption
<1>7. CASE t = NoTrailer
  <2>1. s = <<>>
    BY <1>7 DEF StSig, t
  <2>2. s \in Seq(ACell) /\ Len(s) = 0
    BY <2>1, EmptySeq
  <2>3. T = 0
    BY <1>6, <1>7
  <2> HIDE DEF s, P
  <2>4. QED
    BY <1>1, <1>2, <1>3, <1>4, <1>5, <2>2, <2>3 DEF w, t, s, P
<1>8. CASE t # NoTrailer
  <2>1. /\ TrailerCells(t) \in Seq(ACell) /\ Len(TrailerCells(t)) = TrailerSize
        /\ \A i \in 1 .. TrailerSize : TrailerCells(t)[i].trailer = t
    BY <1>5, TrailerCellsIs
  <2>2. P = TrailerCells(t) /\ T = TrailerSize
    BY <1>6, <1>8 DEF TrailerPart
  <2>3. s = Take(x, w)
    BY <1>8 DEF StSig, t, w
  <2>4. /\ x \in Seq(ACell) /\ Len(x) = IF o <= T THEN T - o ELSE 0
        /\ \A i \in 1 .. Len(x) : x[i] = P[o + i]
    BY <1>2, <2>1, <2>2, DropIs
  <2> HIDE DEF x, s, P
  <2>5. /\ s \in Seq(ACell) /\ Len(s) = IF w <= 0 THEN 0 ELSE IF w <= Len(x) THEN w ELSE Len(x)
        /\ \A i \in 1 .. Len(s) : s[i] = x[i]
    BY <1>1, <2>3, <2>4, TakeIs
  <2>6. Len(x) \in Nat /\ T \in Nat /\ o \in Nat
    BY <1>2, <1>6, <2>4
  <2>7. ASSUME NEW i \in 1 .. Len(s)
        PROVE  o + i \in 1 .. T /\ s[i] = P[o + i] /\ s[i].trailer = t
    <3>1. i \in 1 .. Len(x)
      BY <1>1, <2>5, <2>6
    <3>2. o + i \in 1 .. T
      BY <2>4, <2>6, <3>1
    <3>3. s[i] = P[o + i]
      BY <2>4, <2>5, <3>1
    <3>4. QED
      BY <2>1, <2>2, <3>2, <3>3
  <2>8. /\ Len(s) \in Nat /\ Len(s) <= w
        /\ o <= T => o + Len(s) <= T
        /\ Len(s) < w => o + Len(s) >= T
    BY <1>1, <2>4, <2>5, <2>6
  <2>9. QED
    BY <1>1, <1>3, <1>4, <1>5, <2>5, <2>7, <2>8 DEF w, t, s, P
<1>9. QED
  BY <1>7, <1>8

LEMMA StPadIs ==
    ASSUME NEW e \in AnEnc, fs["in"] \in AFile, cmd \in Encryption
    PROVE  LET w == StRoom(e) - Len(StGot(e)) - Len(StSig(e))
           IN  /\ w \in Nat
               /\ StPad(e) \in Seq(ACell)
               /\ Len(StPad(e)) \in Nat /\ Len(StPad(e)) <= w
               /\ Len(StPad(e)) <= e.pad_left
               /\ StDone(e) /\ StFull(e) /\ Len(StPad(e)) < w => Len(StPad(e)) = e.pad_left
               /\ ~(StDone(e) /\ StFull(e)) => Len(StPad(e)) = 0
               /\ \A i \in 1 .. Len(StPad(e)) : StPad(e)[i] = Cell("pad", 0, NoMeta, NoTrailer)
<1> DEFINE w == StRoom(e) - Len(StGot(e)) - Len(StSig(e))
           x == PadCells(e.pad_left)
           s == StPad(e)
<1>1. w \in Nat
  BY StSigIs, StGotIs
<1>2. e.pad_left \in Nat
  BY EncFields
<1>3. /\ x \in Seq(ACell) /\ Len(x) = e.pad_left
      /\ \A i \in 1 .. e.pad_left : x[i] = Cell("pad", 0, NoMeta, NoTrailer)
  BY <1>2, PadCellsIs
<1>4. CASE ~(StDone(e) /\ StFull(e))
  <2>1. s = <<>>
    BY <1>4 DEF StPad
  <2>2. s \in Seq(ACell) /\ Len(s) = 0
    BY <2>1, EmptySeq
  <2>3. QED
    BY <1>1, <1>2, <1>4, <2>2
<1>5. CASE StDone(e) /\ StFull(e)
  <2>1. s = Take(x, w)
    BY <1>5 DEF StPad
  <2> HIDE DEF x, s, w
  <2>2. /\ s \in Seq(ACell) /\ Len(s) = IF w <= 0 THEN 0 ELSE IF w <= Len(x) THEN w ELSE Len(x)
        /\ \A i \in 1 .. Len(s) : s[i] = x[i]
    BY <1>1, <1>3, <2>1, TakeIs
  <2>3. /\ Len(s) \in Nat /\ Len(s) <= w /\ Len(s) <= e.pad_left
        /\ Len(s) < w => Len(s) = e.pad_left
    BY <1>1, <1>2, <1>3, <2>2
  <2>4. \A i \in 1 .. Len(s) : s[i] = Cell("pad", 0, NoMeta, NoTrailer)
    BY <1>2, <1>3, <2>2, <2>3
  <2>5. QED
    BY <1>1, <1>5, <2>2, <2>3, <2>4 DEF w, s
<1>6. QED
  BY <1>4, <1>5

(* Three pieces after a first one. *)
InFour(S, a, b, c, d, z) ==
    /\ z \in Seq(S)
    /\ Len(z) = Len(a) + Len(b) + Len(c) + Len(d)
    /\ \A i \in 1 .. Len(a) : z[i] = a[i]
    /\ \A i \in 1 .. Len(b) : z[Len(a) + i] = b[i]
    /\ \A i \in 1 .. Len(c) : z[Len(a) + Len(b) + i] = c[i]
    /\ \A i \in 1 .. Len(d) : z[Len(a) + Len(b) + Len(c) + i] = d[i]

LEMMA FourParts ==
    ASSUME NEW S, NEW a \in Seq(S), NEW b \in Seq(S), NEW c \in Seq(S), NEW d \in Seq(S)
    PROVE  InFour(S, a, b, c, d, ((a \o b) \o c) \o d)
<1> DEFINE x == a \o b
           y == x \o c
           z == y \o d
<1>0. Len(a) \in Nat /\ Len(b) \in Nat /\ Len(c) \in Nat /\ Len(d) \in Nat
  BY LenProperties
<1>1. /\ x \in Seq(S) /\ Len(x) = Len(a) + Len(b)
      /\ \A i \in 1 .. Len(a) : x[i] = a[i]
      /\ \A i \in 1 .. Len(b) : x[Len(a) + i] = b[i]
  BY ONLY ConcatIs, a \in Seq(S), b \in Seq(S)
<1> HIDE DEF x
<1>2. /\ y \in Seq(S) /\ Len(y) = Len(x) + Len(c)
      /\ \A i \in 1 .. Len(x) : y[i] = x[i]
      /\ \A i \in 1 .. Len(c) : y[Len(x) + i] = c[i]
  <2>1. x \in Seq(S)
    BY <1>1
  <2>2. QED
    BY ONLY <2>1, ConcatIs, c \in Seq(S)
<1> HIDE DEF y
<1>3. /\ z \in Seq(S) /\ Len(z) = Len(y) + Len(d)
      /\ \A i \in 1 .. Len(y) : z[i] = y[i]
      /\ \A i \in 1 .. Len(d) : z[Len(y) + i] = d[i]
  <2>1. y \in Seq(S)
    BY <1>2
  <2>2. QED
    BY ONLY <2>1, ConcatIs, d \in Seq(S)
<1>4. z = ((a \o b) \o c) \o d
  BY DEF x, y
<1> HIDE DEF z
<1>5. Len(z) = Len(a) + Len(b) + Len(c) + Len(d)
  BY <1>0, <1>1, <1>2, <1>3
<1>6. ASSUME NEW i \in 1 .. Len(a) PROVE z[i] = a[i]
  <2>1. i \in 1 .. Len(x) /\ i \in 1 .. Len(y)
    BY <1>0, <1>1, <1>2
  <2>2. QED
    BY <1>1, <1>2, <1>3, <2>1
<1>7. ASSUME NEW i \in 1 .. Len(b) PROVE z[Len(a) + i] = b[i]
  <2>1. Len(a) + i \in 1 .. Len(x) /\ Len(a) + i \in 1 .. Len(y)
    BY <1>0, <1>1, <1>2
  <2>2. QED
    BY <1>1, <1>2, <1>3, <2>1
<1>8. ASSUME NEW i \in 1 .. Len(c) PROVE z[Len(a) + Len(b) + i] = c[i]
  <2>1. Len(x) + i \in 1 .. Len(y)
    BY <1>0, <1>1, <1>2
  <2>2. z[Len(x) + i] = c[i]
    BY <1>2, <1>3, <2>1
  <2>3. QED
    BY <1>1, <2>2
<1>9. ASSUME NEW i \in 1 .. Len(d) PROVE z[Len(a) + Len(b) + Len(c) + i] = d[i]
  BY <1>1, <1>2, <1>3
<1>10. QED
  BY <1>3, <1>4, <1>5, <1>6, <1>7, <1>8, <1>9 DEF InFour

(* A sequence that is made of genuine parts. *)
LEMMA GenuineParts ==
    ASSUME NEW a \in Seq(ACell), NEW b \in Seq(ACell), NEW U,
           GenuineCells(U, a), GenuineCells(U, b)
    PROVE  a \o b \in Seq(ACell) /\ GenuineCells(U, a \o b)
<1>1. /\ a \o b \in Seq(ACell) /\ Len(a \o b) = Len(a) + Len(b)
      /\ \A i \in 1 .. Len(a) : (a \o b)[i] = a[i]
      /\ \A i \in 1 .. Len(b) : (a \o b)[Len(a) + i] = b[i]
  BY ONLY ConcatIs, a \in Seq(ACell), b \in Seq(ACell)
<1>2. Len(a) \in Nat /\ Len(b) \in Nat
  BY LenProperties
<1>3. ASSUME NEW i \in 1 .. Len(a \o b)
      PROVE  Genuine(U, (a \o b)[i].trailer)
  <2>1. i \in 1 .. Len(a) \/ (i - Len(a) \in 1 .. Len(b) /\ i = Len(a) + (i - Len(a)))
    BY <1>1, <1>2
  <2>2. QED
    BY <1>1, <2>1 DEF GenuineCells
<1>4. QED
  BY <1>1, <1>3 DEF GenuineCells

LEMMA GenuineKinds ==
    ASSUME NEW U
    PROVE  /\ Genuine(U, NoTrailer)
           /\ \A d \in Seq(Int) : GenuineCells(U, DataCells(d))
           /\ \A n \in Nat : GenuineCells(U, PadCells(n))
           /\ \A m \in AMeta : GenuineCells(U, <<MetaCell(m)>>)
           /\ \A t \in ATrailer : Genuine(U, t) => GenuineCells(U, TrailerCells(t))
           /\ GenuineCells(U, <<>>)
<1>1. Genuine(U, NoTrailer)
  BY Blanks DEF Genuine
<1>2. ASSUME NEW d \in Seq(Int) PROVE GenuineCells(U, DataCells(d))
  <2>1. \A i \in 1 .. Len(d) : d[i] \in Int
    BY EmptyHasNone
  <2>2. QED
    BY <1>1, <2>1, DataCellsIs, CellsIs DEF GenuineCells
<1>3. ASSUME NEW n \in Nat PROVE GenuineCells(U, PadCells(n))
  BY <1>1, PadCellsIs, CellsIs DEF GenuineCells
<1>4. ASSUME NEW m \in AMeta PROVE GenuineCells(U, <<MetaCell(m)>>)
  <2> DEFINE c == MetaCell(m)
  <2>1. c \in ACell /\ c.trailer = NoTrailer
    BY CellsIs
  <2> HIDE DEF c
  <2>2. GenuineCells(U, <<c>>)
    BY <1>1, <2>1 DEF GenuineCells
  <2>3. QED
    BY <2>2 DEF c
<1>5. ASSUME NEW t \in ATrailer, Genuine(U, t) PROVE GenuineCells(U, TrailerCells(t))
  BY <1>5, TrailerCellsIs DEF GenuineCells
<1>6. GenuineCells(U, <<>>)
  BY EmptySeq DEF GenuineCells
<1>7. QED
  BY <1>1, <1>2, <1>3, <1>4, <1>5, <1>6

LEMMA StBodyIs ==
    ASSUME NEW e \in AnEnc, fs["in"] \in AFile, cmd \in Encryption
    PROVE  LET b == StBody(e)
               M == Len(StMeta(e))
               G == Len(StGot(e))
               T == Len(StSig(e))
               P == Len(StPad(e))
           IN  /\ b \in Seq(ACell)
               /\ Len(b) = M + G + T + P /\ Len(b) \in Nat /\ Len(b) <= FrameSize
               /\ \A i \in 1 .. M : b[i] = StMeta(e)[i]
               /\ \A i \in 1 .. G : b[M + i] = DataCell(StGot(e)[i])
               /\ \A i \in 1 .. T : b[M + G + i] = StSig(e)[i]
               /\ \A i \in 1 .. P : b[M + G + T + i] = StPad(e)[i]
               /\ \A U : Genuine(U, StTr(e)) => GenuineCells(U, b)
<1> DEFINE m == StMeta(e)
           g == StGot(e)
           d == DataCells(g)
           s == StSig(e)
           p == StPad(e)
           b == ((m \o d) \o s) \o p
<1>1. m \in Seq(ACell) /\ g \in Seq(Int) /\ s \in Seq(ACell) /\ p \in Seq(ACell)
  BY StGotIs, StSigIs, StPadIs
<1>2. d \in Seq(ACell) /\ Len(d) = Len(g) /\ \A i \in 1 .. Len(g) : d[i] = DataCell(g[i])
  BY <1>1, DataCellsIs
<1>3. Len(m) + Len(g) + Len(s) + Len(p) <= FrameSize
  <2>1. Len(p) <= StRoom(e) - Len(g) - Len(s) /\ StRoom(e) \in Nat /\ Len(g) \in Nat
        /\ Len(s) \in Nat /\ Len(p) \in Nat
    BY StGotIs, StSigIs, StPadIs
  <2>2. Len(m) + StRoom(e) = FrameSize /\ Len(m) \in Nat
    <3>1. /\ Len(m) = IF e.ctr = 0 THEN 1 ELSE 0
          /\ StRoom(e) = IF e.ctr = 0 THEN FrameSize - 1 ELSE FrameSize
      BY StGotIs
    <3> HIDE DEF m
    <3>2. QED
      BY <3>1, FrameSizeIs
  <2>3. QED
    BY <2>1, <2>2, FrameSizeIs
<1>4. Len(m) \in Nat /\ Len(g) \in Nat /\ Len(s) \in Nat /\ Len(p) \in Nat
  BY <1>1, LenProperties
<1>5. ASSUME NEW U, Genuine(U, StTr(e)) PROVE GenuineCells(U, b)
  <2>1. GenuineCells(U, m)
    BY GenuineKinds, EncFields DEF StMeta
  <2>2. GenuineCells(U, d)
    BY <1>1, GenuineKinds
  <2>3. GenuineCells(U, s)
    BY <1>5, StSigIs DEF GenuineCells
  <2>4. GenuineCells(U, p)
    BY StPadIs, CellsIs, GenuineKinds DEF GenuineCells
  <2> HIDE DEF m, d, s, p
  <2> DEFINE x == m \o d
             y == x \o s
  <2>5. x \in Seq(ACell) /\ GenuineCells(U, x)
    BY <1>1, <1>2, <2>1, <2>2, GenuineParts
  <2> HIDE DEF x
  <2>6. y \in Seq(ACell) /\ GenuineCells(U, y)
    BY <1>1, <2>3, <2>5, GenuineParts
  <2> HIDE DEF y
  <2>7. GenuineCells(U, y \o p)
    BY <1>1, <2>4, <2>6, GenuineParts
  <2>8. QED
    BY <2>7 DEF x, y
<1>6. StBody(e) = b
  BY DEF StBody
<1> HIDE DEF m, g, d, s, p
<1>7. /\ b \in Seq(ACell)
      /\ Len(b) = Len(m) + Len(d) + Len(s) + Len(p)
      /\ \A i \in 1 .. Len(m) : b[i] = m[i]
      /\ \A i \in 1 .. Len(d) : b[Len(m) + i] = d[i]
      /\ \A i \in 1 .. Len(s) : b[Len(m) + Len(d) + i] = s[i]
      /\ \A i \in 1 .. Len(p) : b[Len(m) + Len(d) + Len(s) + i] = p[i]
  <2>1. m \in Seq(ACell) /\ d \in Seq(ACell) /\ s \in Seq(ACell) /\ p \in Seq(ACell)
    BY <1>1, <1>2
  <2>2. InFour(ACell, m, d, s, p, b)
    BY ONLY <2>1, FourParts
  <2>3. QED
    BY <2>2 DEF InFour
<1> HIDE DEF b
<1>8. QED
  BY <1>2, <1>3, <1>4, <1>5, <1>6, <1>7 DEF m, g, s, p

LEMMA StNextIs ==
    ASSUME NEW e \in AnEnc, fs["in"] \in AFile, cmd \in Encryption
    PROVE  LET n == Stage(e).next
           IN  /\ n \in AnEnc
               /\ n.hdr = e.hdr /\ n.meta = e.meta /\ n.ctr = e.ctr + 1
               /\ n.left = IF e.left = Unknown THEN Unknown ELSE e.left - Len(StGot(e))
               /\ n.pos = e.pos + Len(StGot(e)) /\ n.done = StDone(e) /\ n.trailer = StTr(e)
               /\ n.trailer_off = e.trailer_off + Len(StSig(e))
               /\ n.pad_left = e.pad_left - Len(StPad(e))
               /\ n.data = StData(e)
<1> DEFINE G == Len(StGot(e))
           T == Len(StSig(e))
           P == Len(StPad(e))
           d == StDone(e)
           t == StTr(e)
           x == StData(e)
           l == IF e.left = Unknown THEN Unknown ELSE e.left - G
           n == Stage(e).next
<1>1. /\ G \in Nat /\ T \in Nat /\ P \in Nat /\ P <= e.pad_left /\ d \in BOOLEAN
      /\ t \in ATrailer /\ x \in Seq(Int)
  BY StGotIs, StSigIs, StPadIs
<1>2. /\ e.ctr \in Nat /\ e.left \in Int /\ e.pos \in Nat /\ e.trailer_off \in Nat
      /\ e.pad_left \in Nat
  BY EncFields
<1>3. e.left # Unknown => l \in Int
  BY <1>1, <1>2
<1>4. l \in Int
  BY <1>3, Blanks
<1>5. n = [e EXCEPT !.ctr = e.ctr + 1, !.left = l, !.pos = e.pos + G, !.done = d, !.trailer = t,
                    !.trailer_off = e.trailer_off + T, !.pad_left = e.pad_left - P, !.data = x]
  BY StageParts, ZenonT(60) DEF AnEnc
<1> HIDE DEF G, T, P, d, t, x, l, n
<1>6. /\ e.ctr + 1 \in Nat /\ e.pos + G \in Nat /\ e.trailer_off + T \in Nat
      /\ e.pad_left - P \in Nat
  <2>1. G \in Nat /\ T \in Nat /\ P \in Nat /\ P <= e.pad_left
    BY <1>1
  <2>2. QED
    BY ONLY <1>2, <2>1
<1>7. /\ n \in AnEnc
      /\ n.hdr = e.hdr /\ n.meta = e.meta /\ n.ctr = e.ctr + 1
      /\ n.left = l
      /\ n.pos = e.pos + G /\ n.done = d /\ n.trailer = t
      /\ n.trailer_off = e.trailer_off + T
      /\ n.pad_left = e.pad_left - P
      /\ n.data = x
  BY <1>1, <1>4, <1>5, <1>6 DEF AnEnc
<1>8. QED
  BY <1>7 DEF G, T, P, d, t, x, l, n

(* What a frame that is written does. *)
StFrame(e) ==
    Frame(Cek, e.ctr, Len(StBody(e)) < FrameSize, AadAt(e.hdr, e.ctr), StBody(e))

LEMMA StFrameIs ==
    ASSUME NEW e \in AnEnc, fs["in"] \in AFile, cmd \in Encryption
    PROVE  /\ StFrame(e) \in AFrame
           /\ StFrame(e).body = StBody(e) /\ StFrame(e).ok
           /\ StFrame(e).last = (Len(StBody(e)) < FrameSize)
           /\ \A U : Genuine(U, StTr(e)) => GenuineCells(U, StFrame(e).body)
<1>1. StBody(e) \in Seq(ACell) /\ \A U : Genuine(U, StTr(e)) => GenuineCells(U, StBody(e))
  BY StBodyIs
<1> DEFINE l == Len(StBody(e)) < FrameSize
           b == StBody(e)
           h == AadAt(e.hdr, e.ctr)
<1>2. l \in BOOLEAN /\ h \in AHeader /\ e.ctr \in Nat
  BY EncFields, AadIs
<1>3. StFrame(e) = Frame(Cek, e.ctr, l, h, b)
  BY DEF StFrame
<1>4. b \in Seq(ACell)
  BY <1>1
<1> HIDE DEF l, h, b
<1>5. StFrame(e) \in AFrame /\ StFrame(e).body = b /\ StFrame(e).ok /\ StFrame(e).last = l
  BY <1>2, <1>3, <1>4 DEF Frame, AFrame
<1>6. QED
  BY <1>1, <1>5 DEF l, b

LEMMA EncFrameIs ==
    ASSUME EncFrame, enc \in AnEnc, fs["in"] \in AFile, cmd \in Encryption
    PROVE  /\ pc = "enc_frame" /\ UNCHANGED <<cmd, sink, faults, truth, touched>>
           /\ \/ EncFail("io") /\ UNCHANGED <<enc, said>>
              \/ /\ ~(enc.left # Unknown /\ Len(StGot(enc)) < StWant(enc))
                 /\ enc' = Stage(enc).next
                 /\ fs' = [fs EXCEPT ![cmd.to] =
                              [fs[cmd.to] EXCEPT !.frames = Append(fs[cmd.to].frames, StFrame(enc))]]
                 /\ pc' = IF Len(StBody(enc)) < FrameSize THEN "enc_close" ELSE pc
                 /\ said' = IF StTr(enc) = NoTrailer THEN said ELSE said \cup {StTr(enc)}
                 /\ UNCHANGED rc
<1> DEFINE s == Stage(enc)
           last == Len(s.body) < FrameSize
           fr == Frame(Cek, enc.ctr, last, AadAt(enc.hdr, enc.ctr), s.body)
<1>1. /\ pc = "enc_frame" /\ UNCHANGED <<cmd, sink, faults, truth, touched>>
      /\ IF s.shrank
         THEN EncFail("io") /\ UNCHANGED <<enc, said>>
         ELSE /\ enc' = s.next
              /\ fs' = [fs EXCEPT ![cmd.to] =
                          [fs[cmd.to] EXCEPT !.frames = Append(fs[cmd.to].frames, fr)]]
              /\ pc' = IF last THEN "enc_close" ELSE pc
              /\ said' = IF s.next.trailer = NoTrailer THEN said ELSE said \cup {s.next.trailer}
              /\ UNCHANGED rc
  BY DEF EncFrame, Write
<1>2. /\ s.shrank = (enc.left # Unknown /\ Len(StGot(enc)) < StWant(enc))
      /\ s.body = StBody(enc) /\ s.next.trailer = StTr(enc)
  BY StageParts, StNextIs
<1>3. fr = StFrame(enc)
  BY <1>2 DEF StFrame
<1> HIDE DEF s, fr
<1>4. CASE s.shrank
  BY <1>1, <1>4
<1>5. CASE ~s.shrank
  BY <1>1, <1>2, <1>3, <1>5 DEF s
<1>6. QED
  BY <1>4, <1>5

LEMMA BaseEncFrame ==
    ASSUME BaseInv, EncFrame
    PROVE  BaseInv'
<1>1. cmd.op = "enc" /\ cmd \in Encryption /\ cmd.to \in Name /\ cmd.to # "res"
  BY EncTarget DEF EncFrame, Encrypting
<1>2. enc \in AnEnc /\ fs["in"] \in AFile /\ Genuine(said, enc.trailer)
  BY BaseFacts DEF BaseInv, SaidInv, Name
<1>3. CASE EncFail("io") /\ UNCHANGED <<enc, said>>
  BY <1>1, <1>2, <1>3, BaseEncFail, EncFrameIs DEF Encrypting
<1>4. CASE /\ enc' = Stage(enc).next
           /\ fs' = [fs EXCEPT ![cmd.to] =
                        [fs[cmd.to] EXCEPT !.frames = Append(fs[cmd.to].frames, StFrame(enc))]]
           /\ pc' = IF Len(StBody(enc)) < FrameSize THEN "enc_close" ELSE pc
           /\ said' = IF StTr(enc) = NoTrailer THEN said ELSE said \cup {StTr(enc)}
  <2> DEFINE f == fs[cmd.to]
             fr == StFrame(enc)
             a == Append(f.frames, fr)
             g == [f EXCEPT !.frames = a]
  <2>1. said \subseteq said' /\ Genuine(said', StTr(enc))
    BY <1>2, <1>4, GenuineKinds DEF Genuine
  <2>2. fr \in AFrame /\ GenuineCells(said', fr.body)
    BY <1>1, <1>2, <2>1, StFrameIs
  <2>3. f \in AFile /\ GenuineFile(said, f) /\ f.frames \in Seq(AFrame)
    BY <1>1, BaseFacts, FileFields
  <2>4. GenuineFile(said', f) /\ FilesOk(fs, said')
    BY <2>1, <2>3, BaseFacts, MoreGenuine DEF FilesOk
  <2> HIDE DEF fr
  <2>5. /\ a \in Seq(AFrame) /\ Len(a) = Len(f.frames) + 1
        /\ \A i \in 1 .. Len(f.frames) : a[i] = f.frames[i]
        /\ a[Len(f.frames) + 1] = fr
    <3> DEFINE x == f.frames
    <3>1. x \in Seq(AFrame) /\ fr \in AFrame
      BY <2>2, <2>3
    <3> HIDE DEF x
    <3>2. /\ Append(x, fr) \in Seq(AFrame) /\ Len(Append(x, fr)) = Len(x) + 1
          /\ \A i \in 1 .. Len(x) : Append(x, fr)[i] = x[i]
          /\ Append(x, fr)[Len(x) + 1] = fr
      BY ONLY <3>1, AppendIs
    <3>3. QED
      BY <3>2 DEF x
  <2> HIDE DEF f, a
  <2>6. g \in AFile /\ g.frames = a
    BY <2>3, <2>5, FileWith, ZenonT(60)
  <2>7. GenuineFile(said', g)
    <3> SUFFICES ASSUME NEW i \in 1 .. Len(a) PROVE GenuineCells(said', a[i].body)
      BY <2>6 DEF GenuineFile
    <3>1. Len(f.frames) \in Nat
      BY <2>3, FileFields
    <3>2. CASE i = Len(f.frames) + 1
      BY <2>2, <2>5, <3>2
    <3>3. CASE i # Len(f.frames) + 1
      BY <2>4, <2>5, <3>1, <3>3 DEF GenuineFile
    <3>4. QED
      BY <3>2, <3>3
  <2>8. fs' = [fs EXCEPT ![cmd.to] = g]
    BY <1>4 DEF f, a, fr
  <2> HIDE DEF g
  <2>9. FilesOk(fs', said')
    BY <1>1, <2>4, <2>6, <2>7, <2>8, WithFile
  <2>10. fs'["res"] = fs["res"]
    BY <1>1, <2>8, BaseFacts DEF FilesOk, Name
  <2>11. enc' \in AnEnc /\ Genuine(said', enc'.trailer)
    BY <1>1, <1>2, <1>4, <2>1, StNextIs
  <2>12. pc' \in {"enc_close", "enc_frame"} /\ UNCHANGED <<cmd, sink, truth>>
    BY <1>1, <1>2, <1>4, EncFrameIs
  <2>13. QED
    BY <1>1, <2>1, <2>9, <2>10, <2>11, <2>12, BaseFacts, EncCommandKept
<1>5. QED
  BY <1>1, <1>2, <1>3, <1>4, EncFrameIs

(***************************************************************************)
(* The environment: a crash, and changes of the container.                 *)
(***************************************************************************)
LEMMA BaseCrash ==
    ASSUME BaseInv, Crash
    PROVE  BaseInv'
<1> DEFINE f == IF cmd.op = "enc" THEN IF pc = "armor" THEN "tmp" ELSE cmd.to ELSE "res"
<1>1. PICK g \in Torn(fs[f]) \cup {fs[f]} : fs' = [fs EXCEPT ![f] = g]
  BY DEF Crash, Write
<1>2. UNCHANGED <<cmd, enc, sink, rc, said, truth>> /\ pc' = "crashed"
  BY DEF Crash
<1>3. cmd.op \in {"enc", "dec"}
  BY DEF BaseInv, Phases, Crash, Running
<1>4. f \in Name /\ (cmd.op = "enc" => f # "res") /\ (cmd.op = "dec" => f = "res")
  <2>1. cmd.op = "enc" => cmd \in Encryption
    BY DEF BaseInv, Phases
  <2>2. QED
    BY <1>3, <2>1 DEF Encryption, Name
<1> HIDE DEF f
<1>5. g \in AFile /\ GenuineFile(said, g)
  BY <1>1, <1>4, BaseFacts, TornIs, TornGenuine
<1>6. FilesOk(fs', said)
  BY <1>1, <1>4, <1>5, BaseFacts, WithFile
<1>7. CASE cmd.op = "enc"
  <2>1. fs'["res"] = fs["res"]
    BY <1>1, <1>4, <1>7, BaseFacts DEF FilesOk, Name
  <2>2. QED
    BY <1>2, <1>6, <1>7, <2>1, BaseFacts, EncCommandKept DEF BaseInv, SaidInv
<1>8. CASE cmd.op = "dec"
  <2>1. Types' /\ SaidInv'
    BY <1>2, <1>6 DEF BaseInv, Types, SaidInv, FilesOk
  <2>2. Phases'
    BY <1>2, <1>8 DEF Phases
  <2>3. fs'["out"] = fs["out"] /\ fs'["pipe"] = fs["pipe"]
    BY <1>1, <1>4, <1>8, BaseFacts DEF FilesOk, Name
  <2>4. DecInv'
    BY <1>2, <1>8, <2>3 DEF BaseInv, DecInv, Decrypting
  <2>5. QED
    BY <2>1, <2>2, <2>4 DEF BaseInv
<1>9. QED
  BY <1>3, <1>7, <1>8

(* A container made by a recipient carries signatures there were before.   *)
LEMMA ResealedIs ==
    ASSUME BaseInv, NEW f \in AFile, NEW g \in Resealed(f)
    PROVE  g \in AFile /\ g.kind = "cont" /\ GenuineFile(said, g)
<1> DEFINE m == enc.meta
           Hs == {f.hdr, Header("v7", <<Record("A", Cek)>>)}
           Ms == {m, [m EXCEPT !.len = Unknown, !.pad = 0, !.padded = FALSE],
                  [m EXCEPT !.signed = FALSE]}
           Ds == {truth, Append(truth, 0)}
           Ts == {<<>>, TrailerCells(enc.trailer)}
                   \cup {TrailerCells(Trailer(pk, "T", f.hdr, m, truth)) : pk \in {"S", "T"}}
           C(m2, d, tr) == <<MetaCell(m2)>> \o DataCells(d) \o tr \o PadCells(m2.pad)
           G(h, m2, d, tr) == Cont(h, SealStream(Cek, h, C(m2, d, tr)))
<1>0. Resealed(f) = {G(h, m2, d, tr) : h \in Hs, m2 \in Ms, d \in Ds, tr \in Ts}
  BY DEF Resealed
<1>1. PICK h \in Hs, m2 \in Ms, d \in Ds, tr \in Ts : g = Cont(h, SealStream(Cek, h, C(m2, d, tr)))
  <2> HIDE DEF Hs, Ms, Ds, Ts, C
  <2>1. \E h \in Hs, m2 \in Ms, d \in Ds, tr \in Ts : g = G(h, m2, d, tr)
    <3> HIDE DEF G
    <3>1. QED
      BY <1>0
  <2>2. QED
    BY <2>1
<1>2. /\ f.hdr \in AHeader /\ m \in AMeta /\ truth \in Seq(Int) /\ enc.trailer \in ATrailer
      /\ Genuine(said, enc.trailer)
  BY BaseFacts, FileFields DEF BaseInv, SaidInv
<1>3. h \in AHeader
  <2>1. Record("A", Cek) \in [to : {"A", "B"}, cek : {Cek}]
    BY DEF Record
  <2>2. <<Record("A", Cek)>> \in Seq([to : {"A", "B"}, cek : {Cek}])
    BY <2>1
  <2>3. Header("v7", <<Record("A", Cek)>>) \in AHeader
    BY <2>2 DEF Header, AHeader
  <2>4. QED
    BY <1>2, <2>3
<1>4. m2 \in AMeta
  <2>1. [m EXCEPT !.len = Unknown, !.pad = 0, !.padded = FALSE] \in AMeta
    BY ONLY <1>2, Blanks DEF AMeta
  <2>2. [m EXCEPT !.signed = FALSE] \in AMeta
    BY ONLY <1>2 DEF AMeta
  <2>3. QED
    BY <1>2, <2>1, <2>2
<1>5. d \in Seq(Int)
  BY <1>2, AppendIs
<1>6. tr \in Seq(ACell) /\ GenuineCells(said, tr)
  <2>1. ASSUME NEW t \in ATrailer, Genuine(said, t)
        PROVE  TrailerCells(t) \in Seq(ACell) /\ GenuineCells(said, TrailerCells(t))
    BY <2>1, TrailerCellsIs, GenuineKinds
  <2>2. <<>> \in Seq(ACell) /\ GenuineCells(said, <<>>)
    BY EmptySeq, GenuineKinds
  <2>3. \A pk \in {"S", "T"} : /\ Trailer(pk, "T", f.hdr, m, truth) \in ATrailer
                               /\ Genuine(said, Trailer(pk, "T", f.hdr, m, truth))
    BY <1>2 DEF Trailer, ATrailer, Genuine
  <2>4. QED
    BY <1>2, <2>1, <2>2, <2>3
<1> HIDE DEF m, Hs, Ms, Ds, Ts
<1> DEFINE a == <<MetaCell(m2)>>
           b == DataCells(d)
           p == PadCells(m2.pad)
           x == a \o b
           y == x \o tr
           z == y \o p
<1>7. a \in Seq(ACell) /\ GenuineCells(said, a)
  BY <1>4, CellsIs, GenuineKinds
<1>8. b \in Seq(ACell) /\ GenuineCells(said, b)
  BY <1>5, DataCellsIs, GenuineKinds
<1>9. p \in Seq(ACell) /\ GenuineCells(said, p)
  <2>1. m2.pad \in Nat
    BY <1>4 DEF AMeta
  <2>2. QED
    BY <2>1, PadCellsIs, GenuineKinds
<1>10. C(m2, d, tr) = z
  OBVIOUS
<1> HIDE DEF a, b, p, C
<1>11. x \in Seq(ACell) /\ GenuineCells(said, x)
  BY <1>7, <1>8, GenuineParts
<1> HIDE DEF x
<1>12. y \in Seq(ACell) /\ GenuineCells(said, y)
  BY <1>6, <1>11, GenuineParts
<1> HIDE DEF y
<1>13. z \in Seq(ACell) /\ GenuineCells(said, z)
  BY <1>9, <1>12, GenuineParts
<1> HIDE DEF z
<1> DEFINE s == SealStream(Cek, h, z)
<1>14. s \in Seq(AFrame) /\ \A i \in 1 .. Len(s) : GenuineCells(said, s[i].body)
  BY <1>3, <1>13, SealStreamIs
<1>15. g = Cont(h, s)
  BY <1>1, <1>10
<1> HIDE DEF s
<1>16. g \in AFile /\ g.kind = "cont" /\ g.frames = s
  BY <1>3, <1>14, <1>15, FilesAre
<1>17. QED
  BY <1>14, <1>16 DEF GenuineFile

LEMMA BaseTamper ==
    ASSUME BaseInv, Tamper
    PROVE  BaseInv'
<1>1. PICK g \in Relayed(fs["out"]) \cup Resealed(fs["out"]) : fs' = [fs EXCEPT !["out"] = g]
  BY DEF Tamper, Write
<1>2. UNCHANGED <<pc, cmd, enc, sink, rc, said, truth>>
      /\ (pc = "idle" \/ (pc = "ret" /\ cmd.op = "enc"))
  BY DEF Tamper
<1>3. "out" \in Name /\ "res" \in Name
  BY DEF Name
<1>4. fs["out"] \in AFile /\ GenuineFile(said, fs["out"])
  BY <1>3, BaseFacts
<1>5. g \in AFile /\ GenuineFile(said, g)
  <2>1. CASE g \in Relayed(fs["out"])
    BY <1>4, <2>1, RelayedIs, RemadeGenuine, ZenonT(60) DEF Remade
  <2>2. CASE g \in Resealed(fs["out"])
    BY <1>4, <2>2, ResealedIs
  <2>3. QED
    BY <1>1, <2>1, <2>2
<1>6. FilesOk(fs', said)
  BY <1>1, <1>3, <1>5, BaseFacts, WithFile
<1>7. fs'["res"] = fs["res"]
  BY <1>1, <1>3, BaseFacts DEF FilesOk
<1>8. Types' /\ SaidInv'
  BY <1>2, <1>6 DEF BaseInv, Types, SaidInv, FilesOk
<1>9. Phases'
  BY <1>2, <1>7 DEF BaseInv, Phases, Encrypting
<1>10. cmd.op # "dec"
  BY <1>2 DEF BaseInv, Phases, NoCmd
<1>11. DecInv'
  BY <1>2, <1>10 DEF DecInv
<1>12. QED
  BY <1>8, <1>9, <1>11 DEF BaseInv

(***************************************************************************)
(* The sink of crypto_decrypt_file, part by part.                          *)
(***************************************************************************)
KnC(s, cells) == Take(cells, s.meta.len - Len(s.data))
KnR(s, cells) == Drop(cells, Len(KnC(s, cells)))
KnT(s, cells) == IF s.meta.signed THEN Take(KnR(s, cells), TrailerSize - Len(s.tbuf)) ELSE <<>>
KnP(s, cells) == Take(Drop(KnR(s, cells), Len(KnT(s, cells))), s.meta.pad - s.pad_seen)
KnErr(s, cells) ==
    IF Len(KnC(s, cells)) + Len(KnT(s, cells)) + Len(KnP(s, cells)) < Len(cells)
    THEN "input" ELSE s.err

HbAll(s, cells) == s.tbuf \o cells
HbK(s, cells) == Max({0, Len(HbAll(s, cells)) - TrailerSize})

LEMMA SinkFields ==
    ASSUME NEW s \in ASink
    PROVE  /\ s.hdr \in AHeader /\ s.cek \in {"none", Cek} /\ s.next \in Nat \ {0}
           /\ s.meta_done \in BOOLEAN /\ s.meta \in AMeta
           /\ s.data \in Seq(Int) /\ s.tbuf \in Seq(ACell) /\ s.pad_seen \in Nat
           /\ s.buf \in Seq(Int) /\ s.emit \in Seq(Int)
           /\ s.out \in {"none", "res", "pipe"} /\ s.created \in BOOLEAN
           /\ s.skipped \in BOOLEAN /\ s.err \in {"no", "input"}
           /\ Len(s.data) \in Nat /\ Len(s.tbuf) \in Nat
           /\ s.meta.len \in Int /\ s.meta.pad \in Nat /\ s.meta.signed \in BOOLEAN
           /\ s.meta.present \in BOOLEAN
<1>1. /\ s.hdr \in AHeader /\ s.cek \in {"none", Cek} /\ s.next \in Nat \ {0}
      /\ s.meta_done \in BOOLEAN /\ s.meta \in AMeta
      /\ s.data \in Seq(Int) /\ s.tbuf \in Seq(ACell) /\ s.pad_seen \in Nat
      /\ s.buf \in Seq(Int) /\ s.emit \in Seq(Int)
      /\ s.out \in {"none", "res", "pipe"} /\ s.created \in BOOLEAN
      /\ s.skipped \in BOOLEAN /\ s.err \in {"no", "input"}
  BY DEF ASink
<1>2. Len(s.data) \in Nat /\ Len(s.tbuf) \in Nat
  BY <1>1, LenProperties
<1>3. s.meta.len \in Int /\ s.meta.pad \in Nat /\ s.meta.signed \in BOOLEAN
      /\ s.meta.present \in BOOLEAN
  BY <1>1 DEF AMeta
<1>4. QED
  BY <1>1, <1>2, <1>3

(* Nothing but contents, trailer, padding and error changes.               *)
Routed(s, r, d, b, p, e) ==
    r = [s EXCEPT !.data = s.data \o d, !.emit = d, !.tbuf = b, !.pad_seen = p, !.err = e]

LEMMA SinkContentIs ==
    ASSUME NEW s \in ASink, NEW cells \in Seq(ACell)
    PROVE  Routed(s, SinkContent(s, cells), Contents(cells), s.tbuf, s.pad_seen, s.err)
  BY DEF Routed, SinkContent, ASink

LEMMA SinkKnownIs ==
    ASSUME NEW s \in ASink, NEW cells \in Seq(ACell)
    PROVE  Routed(s, SinkKnown(s, cells), Contents(KnC(s, cells)), s.tbuf \o KnT(s, cells),
                  s.pad_seen + Len(KnP(s, cells)), KnErr(s, cells))
<1> DEFINE c == Take(cells, s.meta.len - Len(s.data))
           r == Drop(cells, Len(c))
           t == IF s.meta.signed THEN Take(r, TrailerSize - Len(s.tbuf)) ELSE <<>>
           p == Take(Drop(r, Len(t)), s.meta.pad - s.pad_seen)
           d == Contents(c)
           s1 == SinkContent(s, c)
           n == Len(p)
           e == IF Len(c) + Len(t) + n < Len(cells) THEN "input" ELSE s.err
<1>1. s1 = [s EXCEPT !.data = s.data \o d, !.emit = d]
  BY DEF SinkContent
<1>2. SinkKnown(s, cells) =
        [s1 EXCEPT !.tbuf = s1.tbuf \o t, !.pad_seen = s1.pad_seen + n,
                   !.err = IF Len(c) + Len(t) + n < Len(cells) THEN "input" ELSE s1.err]
  BY DEF SinkKnown
<1>3. c = KnC(s, cells) /\ t = KnT(s, cells) /\ n = Len(KnP(s, cells)) /\ e = KnErr(s, cells)
  BY DEF KnC, KnR, KnT, KnP, KnErr
<1> HIDE DEF c, t, d, n, s1
<1>4. s1.tbuf = s.tbuf /\ s1.pad_seen = s.pad_seen /\ s1.err = s.err
  BY <1>1 DEF ASink
<1>5. SinkKnown(s, cells) = [s1 EXCEPT !.tbuf = s.tbuf \o t, !.pad_seen = s.pad_seen + n, !.err = e]
  BY <1>2, <1>4
<1> DEFINE b == s.tbuf \o t
           q == s.pad_seen + n
           x == s.data \o d
<1>5a. SinkKnown(s, cells) = [s1 EXCEPT !.tbuf = b, !.pad_seen = q, !.err = e]
  BY <1>5
<1>5b. s1 = [s EXCEPT !.data = x, !.emit = d]
  BY <1>1
<1> HIDE DEF e, b, q, x
<1>6. SinkKnown(s, cells) = [s EXCEPT !.data = x, !.emit = d, !.tbuf = b, !.pad_seen = q, !.err = e]
  BY <1>5a, <1>5b DEF ASink
<1>7. QED
  BY <1>3, <1>6 DEF Routed, b, q, d, x

LEMMA SinkHoldBackIs ==
    ASSUME NEW s \in ASink, NEW cells \in Seq(ACell)
    PROVE  Routed(s, SinkHoldBack(s, cells),
                  Contents(Take(HbAll(s, cells), HbK(s, cells))),
                  Drop(HbAll(s, cells), HbK(s, cells)), s.pad_seen, s.err)
<1> DEFINE all == s.tbuf \o cells
           k == Max({0, Len(all) - TrailerSize})
           d == Contents(Take(all, k))
           b == Drop(all, k)
           x == s.data \o d
<1>1. all = HbAll(s, cells) /\ k = HbK(s, cells)
  BY DEF HbAll, HbK
<1>2. SinkHoldBack(s, cells) = [SinkContent(s, Take(all, k)) EXCEPT !.tbuf = b]
  BY DEF SinkHoldBack
<1>3. SinkContent(s, Take(all, k)) = [s EXCEPT !.data = x, !.emit = d]
  BY DEF SinkContent
<1> HIDE DEF all, k, d, b, x
<1>4. SinkHoldBack(s, cells) = [s EXCEPT !.data = x, !.emit = d, !.tbuf = b,
                                         !.pad_seen = s.pad_seen, !.err = s.err]
  BY <1>2, <1>3 DEF ASink
<1>5. QED
  BY <1>1, <1>4 DEF Routed, d, b, x

Clamp(n, l) == IF n <= 0 THEN 0 ELSE IF n <= l THEN n ELSE l

LEMMA KnIs ==
    ASSUME NEW s \in ASink, NEW cells \in Seq(ACell)
    PROVE  LET c == KnC(s, cells)
               t == KnT(s, cells)
               p == KnP(s, cells)
               n == Len(cells)
           IN  /\ c \in Seq(ACell) /\ t \in Seq(ACell) /\ p \in Seq(ACell)
               /\ Len(c) \in Nat /\ Len(t) \in Nat /\ Len(p) \in Nat /\ n \in Nat
               /\ Len(c) = Clamp(s.meta.len - Len(s.data), n)
               /\ Len(t) = IF s.meta.signed
                           THEN Clamp(TrailerSize - Len(s.tbuf), n - Len(c)) ELSE 0
               /\ Len(p) = Clamp(s.meta.pad - s.pad_seen, n - Len(c) - Len(t))
               /\ Len(c) + Len(t) + Len(p) <= n
               /\ \A i \in 1 .. Len(c) : i \in 1 .. n /\ c[i] = cells[i]
               /\ \A i \in 1 .. Len(t) : Len(c) + i \in 1 .. n /\ t[i] = cells[Len(c) + i]
<1> DEFINE c == KnC(s, cells)
           r == KnR(s, cells)
           t == KnT(s, cells)
           u == Drop(r, Len(t))
           p == KnP(s, cells)
           n == Len(cells)
           lc == s.meta.len - Len(s.data)
           lt == TrailerSize - Len(s.tbuf)
           lp == s.meta.pad - s.pad_seen
<1>1. /\ n \in Nat /\ lc \in Int /\ lt \in Int /\ lp \in Int /\ s.meta.signed \in BOOLEAN
  BY SinkFields, LenProperties, FramesAssumption
<1>2. c = Take(cells, lc) /\ r = Drop(cells, Len(c)) /\ p = Take(u, lp)
      /\ t = IF s.meta.signed THEN Take(r, lt) ELSE <<>>
  BY DEF KnC, KnR, KnT, KnP
<1> HIDE DEF c, r, t, p, lc, lt, lp
<1>3. c \in Seq(ACell) /\ Len(c) = Clamp(lc, n) /\ \A i \in 1 .. Len(c) : c[i] = cells[i]
  BY <1>1, <1>2, TakeIs DEF Clamp
<1>4. Len(c) \in Nat /\ Len(c) <= n
  BY <1>1, <1>3 DEF Clamp
<1>5. r \in Seq(ACell) /\ Len(r) = n - Len(c) /\ \A i \in 1 .. Len(r) : r[i] = cells[Len(c) + i]
  BY <1>1, <1>2, <1>4, DropIs
<1>6. /\ t \in Seq(ACell) /\ Len(t) = IF s.meta.signed THEN Clamp(lt, n - Len(c)) ELSE 0
      /\ \A i \in 1 .. Len(t) : t[i] = r[i]
  <2>1. CASE s.meta.signed
    <3>1. t = Take(r, lt) /\ r \in Seq(ACell) /\ lt \in Int
      BY <1>1, <1>2, <1>5, <2>1
    <3>2. /\ t \in Seq(ACell) /\ Len(t) = IF lt <= 0 THEN 0 ELSE IF lt <= Len(r) THEN lt ELSE Len(r)
          /\ \A i \in 1 .. Len(t) : t[i] = r[i]
      BY ONLY <3>1, TakeIs
    <3>3. QED
      BY <1>5, <2>1, <3>2 DEF Clamp
  <2>2. CASE ~s.meta.signed
    <3>1. t = <<>>
      BY <1>2, <2>2
    <3>2. t \in Seq(ACell) /\ Len(t) = 0
      BY <3>1, EmptySeq
    <3>3. QED
      BY <2>2, <3>2
  <2>3. QED
    BY <2>1, <2>2
<1>7. Len(t) \in Nat /\ Len(t) <= n - Len(c)
  BY <1>1, <1>4, <1>6 DEF Clamp
<1>8. u \in Seq(ACell) /\ Len(u) = n - Len(c) - Len(t)
  BY <1>4, <1>5, <1>7, DropIs
<1> HIDE DEF u
<1>9. p \in Seq(ACell) /\ Len(p) = Clamp(lp, n - Len(c) - Len(t))
  BY <1>1, <1>2, <1>8, TakeIs DEF Clamp
<1>10. Len(p) \in Nat /\ Len(c) + Len(t) + Len(p) <= n
  <2> DEFINE w == n - Len(c) - Len(t)
  <2>1. w \in Nat /\ Len(p) = Clamp(lp, w)
    BY <1>1, <1>4, <1>7, <1>9
  <2> HIDE DEF w
  <2>2. Len(p) \in Nat /\ Len(p) <= w
    BY <1>1, <2>1 DEF Clamp
  <2>3. QED
    BY <1>1, <1>4, <1>7, <2>2 DEF w
<1>11. \A i \in 1 .. Len(c) : i \in 1 .. n /\ c[i] = cells[i]
  BY <1>1, <1>3, <1>4
<1>12. ASSUME NEW i \in 1 .. Len(t)
       PROVE  Len(c) + i \in 1 .. n /\ t[i] = cells[Len(c) + i]
  <2>1. i \in 1 .. Len(r) /\ Len(c) + i \in 1 .. n
    BY <1>1, <1>4, <1>5, <1>7
  <2>2. QED
    BY <1>5, <1>6, <2>1
<1>13. QED
  BY <1>1, <1>3, <1>4, <1>6, <1>7, <1>9, <1>10, <1>11, <1>12 DEF c, t, p, lc, lt, lp

LEMMA HbIs ==
    ASSUME NEW s \in ASink, NEW cells \in Seq(ACell)
    PROVE  LET a == HbAll(s, cells)
               k == HbK(s, cells)
               d == Take(a, k)
               b == Drop(a, k)
           IN  /\ a \in Seq(ACell) /\ d \in Seq(ACell) /\ b \in Seq(ACell)
               /\ Len(a) = Len(s.tbuf) + Len(cells)
               /\ \A i \in 1 .. Len(s.tbuf) : a[i] = s.tbuf[i]
               /\ \A i \in 1 .. Len(cells) : a[Len(s.tbuf) + i] = cells[i]
               /\ k \in Nat /\ k <= Len(a)
               /\ k = IF Len(a) <= TrailerSize THEN 0 ELSE Len(a) - TrailerSize
               /\ Len(d) = k /\ Len(b) = Len(a) - k
               /\ \A i \in 1 .. k : i \in 1 .. Len(a) /\ d[i] = a[i]
               /\ \A i \in 1 .. Len(b) : k + i \in 1 .. Len(a) /\ b[i] = a[k + i]
<1> DEFINE x == s.tbuf
           a == HbAll(s, cells)
           k == HbK(s, cells)
           d == Take(a, k)
           b == Drop(a, k)
<1>1. x \in Seq(ACell) /\ Len(x) \in Nat /\ Len(cells) \in Nat /\ TrailerSize \in Nat
  BY SinkFields, LenProperties, FramesAssumption
<1>2. a = x \o cells /\ k = Max({0, Len(a) - TrailerSize})
  BY DEF HbAll, HbK
<1> HIDE DEF x, a, k
<1>3. /\ x \o cells \in Seq(ACell) /\ Len(x \o cells) = Len(x) + Len(cells)
      /\ \A i \in 1 .. Len(x) : (x \o cells)[i] = x[i]
      /\ \A i \in 1 .. Len(cells) : (x \o cells)[Len(x) + i] = cells[i]
  <2>1. x \in Seq(ACell) /\ cells \in Seq(ACell)
    BY <1>1
  <2>2. QED
    BY ONLY <2>1, ConcatIs
<1>4. a \in Seq(ACell) /\ Len(a) = Len(x) + Len(cells) /\ Len(a) \in Nat
  BY <1>1, <1>2, <1>3
<1>5. k = (IF Len(a) <= TrailerSize THEN 0 ELSE Len(a) - TrailerSize) /\ k \in Nat /\ k <= Len(a)
  BY <1>1, <1>2, <1>4, MaxOfTwo
<1>6. d \in Seq(ACell) /\ Len(d) = k /\ \A i \in 1 .. Len(d) : d[i] = a[i]
  BY <1>4, <1>5, TakeIs
<1>7. b \in Seq(ACell) /\ Len(b) = Len(a) - k /\ \A i \in 1 .. Len(b) : b[i] = a[k + i]
  BY <1>4, <1>5, DropIs
<1> HIDE DEF d, b
<1>8. \A i \in 1 .. k : i \in 1 .. Len(a) /\ d[i] = a[i]
  BY <1>4, <1>5, <1>6
<1>9. \A i \in 1 .. Len(b) : k + i \in 1 .. Len(a) /\ b[i] = a[k + i]
  BY <1>4, <1>5, <1>7
<1>10. QED
  BY <1>2, <1>3, <1>4, <1>5, <1>6, <1>7, <1>8, <1>9 DEF x, a, k, d, b

RoutedTo(s, r, d, b, p, e) ==
    /\ r \in ASink
    /\ r.hdr = s.hdr /\ r.cek = s.cek /\ r.next = s.next /\ r.meta_done = s.meta_done
    /\ r.meta = s.meta /\ r.buf = s.buf /\ r.out = s.out /\ r.created = s.created
    /\ r.skipped = s.skipped
    /\ r.data = s.data \o d /\ r.emit = d /\ r.tbuf = b /\ r.pad_seen = p /\ r.err = e

LEMMA RoutedIs ==
    ASSUME NEW s \in ASink, NEW r, NEW d \in Seq(Int), NEW b \in Seq(ACell), NEW p \in Nat,
           NEW e \in {"no", "input"}, Routed(s, r, d, b, p, e)
    PROVE  RoutedTo(s, r, d, b, p, e)
<1> DEFINE x == s.data
<1>1. x \in Seq(Int)
  BY SinkFields
<1> HIDE DEF x
<1> DEFINE y == x \o d
<1>2. y \in Seq(Int)
  BY ONLY <1>1, d \in Seq(Int), ConcatIs
<1>3. r = [s EXCEPT !.data = y, !.emit = d, !.tbuf = b, !.pad_seen = p, !.err = e]
  BY DEF Routed, x
<1> HIDE DEF y
<1>4. /\ r \in ASink
      /\ r.hdr = s.hdr /\ r.cek = s.cek /\ r.next = s.next /\ r.meta_done = s.meta_done
      /\ r.meta = s.meta /\ r.buf = s.buf /\ r.out = s.out /\ r.created = s.created
      /\ r.skipped = s.skipped
      /\ r.data = y /\ r.emit = d /\ r.tbuf = b /\ r.pad_seen = p /\ r.err = e
  BY <1>2, <1>3 DEF ASink
<1>5. QED
  BY <1>4 DEF y, x, RoutedTo

(* What handing cells on can change.                                       *)
SinkRouted(s, r) ==
    /\ r \in ASink
    /\ r.hdr = s.hdr /\ r.cek = s.cek /\ r.next = s.next /\ r.meta_done = s.meta_done
    /\ r.meta = s.meta /\ r.buf = s.buf /\ r.out = s.out /\ r.created = s.created
    /\ r.skipped = s.skipped
    /\ r.data = s.data \o r.emit

LEMMA EmptyConcat ==
    ASSUME NEW S, NEW s \in Seq(S)
    PROVE  s \o <<>> = s
  BY ConcatEmptySeq

LEMMA SinkRouteIs ==
    ASSUME NEW s \in ASink, NEW cells \in Seq(ACell), s.emit = <<>>, NEW U,
           GenuineCells(U, s.tbuf), GenuineCells(U, cells)
    PROVE  /\ SinkRouted(s, SinkRoute(s, cells))
           /\ GenuineCells(U, SinkRoute(s, cells).tbuf)
<1> DEFINE r == SinkRoute(s, cells)
<1>0. /\ s.data \in Seq(Int) /\ s.tbuf \in Seq(ACell) /\ s.pad_seen \in Nat
      /\ s.err \in {"no", "input"}
  BY SinkFields
<1>1. CASE r = s
  <2>1. s.data = s.data \o <<>>
    BY <1>0, EmptyConcat
  <2>2. QED
    BY <1>1, <2>1 DEF SinkRouted
<1>2. CASE r = SinkKnown(s, cells)
  <2> DEFINE c == KnC(s, cells)
             t == KnT(s, cells)
             d == Contents(c)
             x == s.tbuf
             b == x \o t
             p == s.pad_seen + Len(KnP(s, cells))
             e == KnErr(s, cells)
  <2>1. /\ c \in Seq(ACell) /\ t \in Seq(ACell) /\ Len(KnP(s, cells)) \in Nat
        /\ \A i \in 1 .. Len(t) : Len(c) + i \in 1 .. Len(cells) /\ t[i] = cells[Len(c) + i]
    BY KnIs
  <2>2. d \in Seq(Int) /\ p \in Nat /\ e \in {"no", "input"}
    BY <1>0, <2>1, ContentsIs DEF KnErr
  <2>3. GenuineCells(U, t)
    BY <2>1 DEF GenuineCells
  <2>4. Routed(s, r, d, b, p, e)
    BY <1>2, SinkKnownIs
  <2>5. x \in Seq(ACell) /\ GenuineCells(U, x)
    BY <1>0
  <2> HIDE DEF c, t, d, x, p, e, r
  <2>6. b \in Seq(ACell) /\ GenuineCells(U, b)
    BY <2>1, <2>3, <2>5, GenuineParts
  <2> HIDE DEF b
  <2>7. RoutedTo(s, r, d, b, p, e)
    <3>1. b \in Seq(ACell)
      BY <2>6
    <3>2. QED
      BY ONLY s \in ASink, <2>2, <2>4, <3>1, RoutedIs
  <2>8. SinkRouted(s, r)
    BY <2>7 DEF SinkRouted, RoutedTo
  <2>9. QED
    BY <2>6, <2>7, <2>8 DEF r, RoutedTo
<1>3. CASE r = SinkHoldBack(s, cells)
  <2> DEFINE a == HbAll(s, cells)
             k == HbK(s, cells)
             c == Take(a, k)
             d == Contents(c)
             b == Drop(a, k)
             x == s.tbuf
             p == s.pad_seen
             e == s.err
  <2>1. /\ c \in Seq(ACell) /\ b \in Seq(ACell) /\ a = x \o cells
        /\ \A i \in 1 .. Len(b) : k + i \in 1 .. Len(a) /\ b[i] = a[k + i]
    BY HbIs DEF HbAll
  <2>2. d \in Seq(Int)
    BY <2>1, ContentsIs
  <2>4. Routed(s, r, d, b, p, e)
    BY <1>3, SinkHoldBackIs
  <2>5. x \in Seq(ACell) /\ GenuineCells(U, x) /\ p \in Nat /\ e \in {"no", "input"}
    BY <1>0
  <2> HIDE DEF a, k, c, d, b, x, p, e, r
  <2>6. GenuineCells(U, x \o cells)
    BY <2>5, GenuineParts
  <2>6a. GenuineCells(U, b)
    BY <2>1, <2>6 DEF GenuineCells
  <2>6b. b \in Seq(ACell) /\ p \in Nat /\ e \in {"no", "input"}
    BY <2>1, <2>5
  <2>7. RoutedTo(s, r, d, b, p, e)
    BY ONLY s \in ASink, <2>2, <2>4, <2>6b, RoutedIs
  <2>8. SinkRouted(s, r)
    BY <2>7 DEF SinkRouted, RoutedTo
  <2>9. QED
    BY <2>6a, <2>7, <2>8 DEF r, RoutedTo
<1>4. CASE r = SinkContent(s, cells)
  <2> DEFINE d == Contents(cells)
             b == s.tbuf
             p == s.pad_seen
             e == s.err
  <2>2. d \in Seq(Int) /\ b \in Seq(ACell) /\ p \in Nat /\ e \in {"no", "input"}
    BY <1>0, ContentsIs
  <2>4. Routed(s, r, d, b, p, e)
    BY <1>4, SinkContentIs
  <2> HIDE DEF d, b, p, e, r
  <2>7. RoutedTo(s, r, d, b, p, e)
    BY <2>2, <2>4, RoutedIs
  <2>8. SinkRouted(s, r)
    BY <2>7 DEF SinkRouted, RoutedTo
  <2>9. QED
    BY <2>7, <2>8 DEF r, b, RoutedTo
<1>5. QED
  BY <1>1, <1>2, <1>3, <1>4 DEF SinkRoute

(* What reading META can change: it opens the output, or refuses.          *)
SinkOpened(c, s, r, m) ==
    /\ r \in ASink
    /\ r.hdr = s.hdr /\ r.cek = s.cek /\ r.next = s.next /\ r.buf = s.buf
    /\ r.data = s.data /\ r.tbuf = s.tbuf /\ r.pad_seen = s.pad_seen /\ r.emit = s.emit
    /\ r.meta = m
    /\ \/ /\ ~PaddingOk(m) /\ r.err = "input" /\ r.meta_done = s.meta_done
          /\ r.out = s.out /\ r.created = s.created /\ r.skipped = s.skipped
       \/ /\ PaddingOk(m) /\ r.meta_done
          /\ \/ /\ c.to = "check" /\ r.err = s.err
                /\ r.out = s.out /\ r.created = s.created /\ r.skipped = s.skipped
             \/ /\ c.to = "pipe" /\ r.err = s.err
                /\ r.out = "pipe" /\ r.created = s.created /\ r.skipped = s.skipped
             \/ /\ c.to = "dir" /\ ~m.present /\ r.err = "input"
                /\ r.out = s.out /\ r.created = s.created /\ r.skipped = s.skipped
             \/ /\ c.to \in {"res", "dir"} /\ (c.to = "dir" => m.present) /\ r.err = s.err
                /\ \/ r.out = "res" /\ r.created /\ r.skipped = s.skipped
                   \/ r.out = s.out /\ r.created = s.created /\ r.skipped

LEMMA ParsedMetaIs ==
    ASSUME NEW s \in ASink, NEW cells \in Seq(ACell), cells # <<>>
    PROVE  ParsedMeta(s, cells) \in AMeta
<1>1. cells[1] \in ACell
  BY EmptyHasNone
<1>2. cells[1].meta \in AMeta
  BY <1>1 DEF ACell
<1>3. cells[1].meta.present \in BOOLEAN
  BY <1>2 DEF AMeta
<1>4. QED
  BY <1>2, <1>3, Blanks DEF ParsedMeta, Meta, AMeta

LEMMA SinkMetaIs ==
    ASSUME NEW s \in ASink, NEW cells \in Seq(ACell), cmd \in Decryption, ~s.meta_done, cells # <<>>
    PROVE  SinkOpened(cmd, s, SinkMeta(s, cells), ParsedMeta(s, cells))
<1> DEFINE m == ParsedMeta(s, cells)
           s1 == [s EXCEPT !.meta_done = TRUE, !.meta = m]
           r == SinkMeta(s, cells)
<1>1. m \in AMeta
  BY ParsedMetaIs
<1>2. r = IF PaddingOk(m) THEN SinkOpen(s1) ELSE [s EXCEPT !.meta = m, !.err = "input"]
  BY DEF SinkMeta
<1> HIDE DEF m, r
<1>3. CASE ~PaddingOk(m)
  <2>1. r = [s EXCEPT !.meta = m, !.err = "input"]
    BY <1>2, <1>3
  <2>2. /\ r \in ASink
        /\ r.hdr = s.hdr /\ r.cek = s.cek /\ r.next = s.next /\ r.buf = s.buf
        /\ r.data = s.data /\ r.tbuf = s.tbuf /\ r.pad_seen = s.pad_seen /\ r.emit = s.emit
        /\ r.meta = m /\ r.err = "input" /\ r.meta_done = s.meta_done
        /\ r.out = s.out /\ r.created = s.created /\ r.skipped = s.skipped
    BY <1>1, <2>1 DEF ASink
  <2>3. QED
    BY <1>3, <2>2 DEF SinkOpened, m, r
<1>4. CASE PaddingOk(m)
  <2>1. r = SinkOpen(s1)
    BY <1>2, <1>4
  <2>2. /\ s1 \in ASink
        /\ s1.hdr = s.hdr /\ s1.cek = s.cek /\ s1.next = s.next /\ s1.buf = s.buf
        /\ s1.data = s.data /\ s1.tbuf = s.tbuf /\ s1.pad_seen = s.pad_seen /\ s1.emit = s.emit
        /\ s1.meta = m /\ s1.err = s.err /\ s1.meta_done
        /\ s1.out = s.out /\ s1.created = s.created /\ s1.skipped = s.skipped
    BY <1>1 DEF ASink
  <2> HIDE DEF s1
  <2>3. cmd.to \in {"res", "dir", "pipe", "check"}
    BY DEF Decryption
  <2>4. CASE cmd.to = "check"
    <3>1. r = s1
      BY <2>1, <2>4 DEF SinkOpen
    <3>2. QED
      BY <1>4, <2>2, <2>4, <3>1 DEF SinkOpened, m, r
  <2>5. CASE cmd.to = "pipe"
    <3>1. r = [s1 EXCEPT !.out = "pipe"]
      BY <2>1, <2>5 DEF SinkOpen
    <3>2. /\ r \in ASink
          /\ r.hdr = s1.hdr /\ r.cek = s1.cek /\ r.next = s1.next /\ r.buf = s1.buf
          /\ r.data = s1.data /\ r.tbuf = s1.tbuf /\ r.pad_seen = s1.pad_seen /\ r.emit = s1.emit
          /\ r.meta = s1.meta /\ r.err = s1.err /\ r.meta_done = s1.meta_done
          /\ r.out = "pipe" /\ r.created = s1.created /\ r.skipped = s1.skipped
      BY <2>2, <3>1 DEF ASink
    <3>3. QED
      BY <1>4, <2>2, <2>5, <3>2 DEF SinkOpened, m, r
  <2>6. CASE cmd.to = "dir" /\ ~m.present
    <3>1. r = [s1 EXCEPT !.err = "input"]
      BY <2>1, <2>2, <2>6 DEF SinkOpen
    <3>2. /\ r \in ASink
          /\ r.hdr = s1.hdr /\ r.cek = s1.cek /\ r.next = s1.next /\ r.buf = s1.buf
          /\ r.data = s1.data /\ r.tbuf = s1.tbuf /\ r.pad_seen = s1.pad_seen /\ r.emit = s1.emit
          /\ r.meta = s1.meta /\ r.err = "input" /\ r.meta_done = s1.meta_done
          /\ r.out = s1.out /\ r.created = s1.created /\ r.skipped = s1.skipped
      BY <2>2, <3>1 DEF ASink
    <3>3. QED
      BY <1>4, <2>2, <2>6, <3>2 DEF SinkOpened, m, r
  <2>7. CASE cmd.to \in {"res", "dir"} /\ (cmd.to = "dir" => m.present)
    <3>1. r = IF ShouldWrite("res", cmd.agrees)
              THEN [s1 EXCEPT !.out = "res", !.created = TRUE]
              ELSE [s1 EXCEPT !.skipped = TRUE]
      BY <2>1, <2>2, <2>7 DEF SinkOpen
    <3>2. /\ r \in ASink
          /\ r.hdr = s1.hdr /\ r.cek = s1.cek /\ r.next = s1.next /\ r.buf = s1.buf
          /\ r.data = s1.data /\ r.tbuf = s1.tbuf /\ r.pad_seen = s1.pad_seen /\ r.emit = s1.emit
          /\ r.meta = s1.meta /\ r.err = s1.err /\ r.meta_done = s1.meta_done
          /\ \/ r.out = "res" /\ r.created /\ r.skipped = s1.skipped
             \/ r.out = s1.out /\ r.created = s1.created /\ r.skipped
      BY <2>2, <3>1 DEF ASink
    <3>3. QED
      BY <1>4, <2>2, <2>7, <3>2 DEF SinkOpened, m, r
  <2>8. QED
    BY <2>3, <2>4, <2>5, <2>6, <2>7
<1>5. QED
  BY <1>3, <1>4

Cleared(s) == [s EXCEPT !.emit = <<>>]

LEMMA ClearedIs ==
    ASSUME NEW s \in ASink
    PROVE  LET z == Cleared(s)
           IN  /\ z \in ASink /\ z.emit = <<>>
               /\ z.hdr = s.hdr /\ z.cek = s.cek /\ z.next = s.next /\ z.buf = s.buf
               /\ z.data = s.data /\ z.tbuf = s.tbuf /\ z.pad_seen = s.pad_seen
               /\ z.meta = s.meta /\ z.err = s.err /\ z.meta_done = s.meta_done
               /\ z.out = s.out /\ z.created = s.created /\ z.skipped = s.skipped
<1>1. <<>> \in Seq(Int)
  BY EmptySeq
<1>2. QED
  BY <1>1 DEF Cleared, ASink

LEMMA SinkWriteIs ==
    ASSUME NEW s \in ASink, NEW cells \in Seq(ACell), cmd \in Decryption, NEW U,
           GenuineCells(U, s.tbuf), GenuineCells(U, cells)
    PROVE  LET r == SinkWrite(s, cells)
               z == Cleared(s)
           IN  /\ r \in ASink /\ GenuineCells(U, r.tbuf)
               /\ \/ s.meta_done /\ SinkRouted(z, r) /\ r = SinkRoute(z, cells)
                  \/ ~s.meta_done /\ cells = <<>> /\ r = z
                  \/ /\ ~s.meta_done /\ cells # <<>>
                     /\ \E s1 : /\ SinkOpened(cmd, z, s1, ParsedMeta(z, cells))
                                /\ SinkRouted(s1, r)
                                /\ r = SinkRoute(s1, Drop(cells, 1))
                                /\ s1.err # "no" => r = s1
<1> DEFINE z == Cleared(s)
           r == SinkWrite(s, cells)
           d == Drop(cells, 1)
<1>1. /\ z \in ASink /\ z.emit = <<>> /\ z.tbuf = s.tbuf /\ z.meta_done = s.meta_done
  BY ClearedIs
<1>2. r = SinkRoute(SinkMeta(z, cells), IF s.meta_done THEN cells ELSE d)
  BY DEF SinkWrite, Cleared
<1>3. CASE s.meta_done
  <2>1. SinkMeta(z, cells) = z
    BY <1>1, <1>3 DEF SinkMeta
  <2>2. r = SinkRoute(z, cells)
    BY <1>2, <1>3, <2>1
  <2> HIDE DEF z, r
  <2>3. SinkRouted(z, SinkRoute(z, cells)) /\ GenuineCells(U, SinkRoute(z, cells).tbuf)
    BY <1>1, SinkRouteIs
  <2>4. r \in ASink
    BY <2>2, <2>3 DEF SinkRouted
  <2>5. QED
    BY <1>3, <2>2, <2>3, <2>4 DEF z, r
<1>4. CASE ~s.meta_done /\ cells = <<>>
  <2>1. SinkMeta(z, cells) = z
    BY <1>1, <1>4 DEF SinkMeta
  <2>2. r = z
    BY <1>1, <1>2, <1>4, <2>1 DEF SinkRoute
  <2> HIDE DEF z, r
  <2>3. r \in ASink /\ GenuineCells(U, r.tbuf)
    BY <1>1, <2>2
  <2>4. QED
    BY <1>4, <2>2, <2>3 DEF z, r
<1>5. CASE ~s.meta_done /\ cells # <<>>
  <2> DEFINE m == ParsedMeta(z, cells)
             s1 == SinkMeta(z, cells)
  <2> HIDE DEF z
  <2>1. SinkOpened(cmd, z, s1, m)
    BY <1>1, <1>5, SinkMetaIs
  <2>2. r = SinkRoute(s1, d)
    BY <1>2, <1>5
  <2>3. Len(cells) \in Nat /\ d \in Seq(ACell) /\ \A i \in 1 .. Len(d) : d[i] = cells[1 + i]
        /\ Len(d) = IF 1 <= Len(cells) THEN Len(cells) - 1 ELSE 0
    BY DropIs, LenProperties
  <2>4. GenuineCells(U, d)
    <3> SUFFICES ASSUME NEW i \in 1 .. Len(d) PROVE Genuine(U, d[i].trailer)
      BY DEF GenuineCells
    <3>1. 1 + i \in 1 .. Len(cells)
      BY <2>3
    <3>2. QED
      BY <2>3, <3>1 DEF GenuineCells
  <2> HIDE DEF d, s1, m, r
  <2>5. s1 \in ASink /\ s1.tbuf = s.tbuf /\ s1.emit = <<>>
    BY <1>1, <2>1 DEF SinkOpened
  <2>6. SinkRouted(s1, SinkRoute(s1, d)) /\ GenuineCells(U, SinkRoute(s1, d).tbuf)
    BY <2>3, <2>4, <2>5, SinkRouteIs
  <2>7. s1.err # "no" => r = s1
    BY <2>2 DEF SinkRoute
  <2>8. r \in ASink
    BY <2>2, <2>6 DEF SinkRouted
  <2>9. \E x : /\ SinkOpened(cmd, z, x, m) /\ SinkRouted(x, r) /\ r = SinkRoute(x, d)
               /\ x.err # "no" => r = x
    BY <2>1, <2>2, <2>6, <2>7
  <2>10. QED
    BY <1>5, <2>2, <2>6, <2>8, <2>9 DEF z, r, m, d
<1>6. QED
  BY <1>3, <1>4, <1>5

(* How the output changes when cells are handed to the sink.               *)
OutStep(c, s, r) ==
    /\ r.hdr = s.hdr /\ r.cek = s.cek /\ r.next = s.next /\ r.buf = s.buf
    /\ r.data = s.data \o r.emit
    /\ s.meta_done => /\ r.meta_done /\ r.out = s.out /\ r.created = s.created
                      /\ r.skipped = s.skipped /\ r.meta = s.meta
    /\ ~s.meta_done =>
          \/ /\ ~r.meta_done \/ r.err # "no" \/ c.to = "check"
             /\ r.emit = <<>> \/ c.to = "check"
             /\ ~r.meta_done => r.emit = <<>>
             /\ r.out = s.out /\ r.created = s.created /\ r.skipped = s.skipped
          \/ /\ r.meta_done /\ c.to = "pipe"
             /\ r.out = "pipe" /\ r.created = s.created /\ r.skipped = s.skipped
          \/ /\ r.meta_done /\ c.to \in {"res", "dir"}
             /\ \/ r.out = "res" /\ r.created /\ r.skipped = s.skipped
                \/ r.out = s.out /\ r.created = s.created /\ r.skipped

LEMMA OutStepIs ==
    ASSUME NEW s \in ASink, NEW cells \in Seq(ACell), cmd \in Decryption
    PROVE  OutStep(cmd, s, SinkWrite(s, cells))
<1> DEFINE z == Cleared(s)
           r == SinkWrite(s, cells)
<1>1. /\ z \in ASink /\ z.emit = <<>>
      /\ z.hdr = s.hdr /\ z.cek = s.cek /\ z.next = s.next /\ z.buf = s.buf
      /\ z.data = s.data /\ z.tbuf = s.tbuf /\ z.pad_seen = s.pad_seen
      /\ z.meta = s.meta /\ z.err = s.err /\ z.meta_done = s.meta_done
      /\ z.out = s.out /\ z.created = s.created /\ z.skipped = s.skipped
  BY ClearedIs
<1> DEFINE U == {t \in ATrailer : TRUE}
<1>2. GenuineCells(U, s.tbuf) /\ GenuineCells(U, cells)
  <2>1. ASSUME NEW c \in Seq(ACell) PROVE GenuineCells(U, c)
    <3>1. \A i \in 1 .. Len(c) : c[i] \in ACell
      BY EmptyHasNone
    <3>2. QED
      BY <3>1 DEF GenuineCells, Genuine, ACell
  <2>2. QED
    BY <2>1, SinkFields
<1> HIDE DEF U
<1>3. \/ s.meta_done /\ SinkRouted(z, r)
      \/ ~s.meta_done /\ cells = <<>> /\ r = z
      \/ /\ ~s.meta_done /\ cells # <<>>
         /\ \E s1 : /\ SinkOpened(cmd, z, s1, ParsedMeta(z, cells))
                    /\ SinkRouted(s1, r) /\ (s1.err # "no" => r = s1)
  BY <1>2, SinkWriteIs
<1>4. z.data \o <<>> = z.data
  BY SinkFields, <1>1, EmptyConcat
<1> HIDE DEF z, r
<1>5. CASE s.meta_done /\ SinkRouted(z, r)
  BY <1>1, <1>5 DEF SinkRouted, OutStep, r
<1>6. CASE ~s.meta_done /\ cells = <<>> /\ r = z
  BY <1>1, <1>4, <1>6 DEF OutStep, r
<1>7. CASE ~s.meta_done /\ \E s1 : /\ SinkOpened(cmd, z, s1, ParsedMeta(z, cells))
                                   /\ SinkRouted(s1, r) /\ (s1.err # "no" => r = s1)
  <2> DEFINE m == ParsedMeta(z, cells)
  <2>1. PICK s1 : SinkOpened(cmd, z, s1, m) /\ SinkRouted(s1, r) /\ (s1.err # "no" => r = s1)
    BY <1>7
  <2> HIDE DEF m
  <2>2. /\ s1.hdr = s.hdr /\ s1.cek = s.cek /\ s1.next = s.next /\ s1.buf = s.buf
        /\ s1.data = s.data /\ s1.emit = <<>>
    BY <1>1, <2>1 DEF SinkOpened
  <2>3. /\ r.hdr = s.hdr /\ r.cek = s.cek /\ r.next = s.next /\ r.buf = s.buf
        /\ r.data = s.data \o r.emit
        /\ r.meta_done = s1.meta_done /\ r.out = s1.out /\ r.created = s1.created
        /\ r.skipped = s1.skipped
    BY <2>1, <2>2 DEF SinkRouted
  <2>4. CASE s1.err # "no"
    <3>1. r = s1
      BY <2>1, <2>4
    <3>2. QED
      BY <1>1, <1>7, <2>1, <2>2, <2>3, <2>4, <3>1 DEF SinkOpened, OutStep, r
  <2>5. CASE s1.err = "no"
    BY <1>1, <1>7, <2>1, <2>3, <2>5 DEF SinkOpened, OutStep, r
  <2>6. QED
    BY <2>4, <2>5
<1>8. QED
  BY <1>3, <1>5, <1>6, <1>7

(* Where what the sink hands on goes. *)
LEMMA EmittedIs ==
    ASSUME NEW U, FilesOk(fs, U), sink \in ASink, NEW r \in ASink, cmd \in Decryption,
           SinkOut(cmd, sink, fs), sink.err = "no", OutStep(cmd, sink, r)
    PROVE  LET F == Emitted(r)
           IN  /\ FilesOk(F, U)
               /\ F["out"] = fs["out"] /\ F["in"] = fs["in"] /\ F["tmp"] = fs["tmp"]
               /\ ~r.created => F["res"] = fs["res"] /\ Untouched(fs["res"])
               /\ r.created => F["res"].kind = "plain" /\ F["res"].data = r.data
               /\ cmd.to = "pipe" /\ Framed(r) => F["pipe"].data = fs["pipe"].data \o r.emit
               /\ cmd.to # "pipe" \/ ~Framed(r) => F["pipe"] = fs["pipe"]
<1> DEFINE F == Emitted(r)
           O == Opened(r)
<1>1. /\ "out" \in Name /\ "in" \in Name /\ "tmp" \in Name /\ "res" \in Name /\ "pipe" \in Name
  BY DEF Name
<1>2. /\ r.emit \in Seq(Int) /\ r.data \in Seq(Int) /\ sink.data \in Seq(Int)
      /\ r.out \in {"none", "res", "pipe"} /\ r.created \in BOOLEAN /\ sink.created \in BOOLEAN
      /\ sink.out \in {"none", "res", "pipe"}
      /\ sink.meta_done \in BOOLEAN /\ r.meta_done \in BOOLEAN /\ sink.skipped \in BOOLEAN
  BY SinkFields
<1>3. fs \in [Name -> AFile] /\ fs["pipe"].data \in Seq(Int) /\ fs["res"].data \in Seq(Int)
  <2>1. fs \in [Name -> AFile]
    BY DEF FilesOk
  <2>2. QED
    BY <1>1, <2>1, FileFields
<1>4. cmd.to \in {"res", "dir", "pipe", "check"}
  BY DEF Decryption
<1>5. /\ Plain(<<>>) \in AFile /\ Plain(<<>>).kind = "plain" /\ Plain(<<>>).data = <<>>
      /\ GenuineFile(U, Plain(<<>>))
  BY EmptySeq, FilesAre, EmptyGenuine
<1>6. <<>> \o r.emit = r.emit /\ r.emit \in Seq(Int) /\ r.data = sink.data \o r.emit
  BY <1>2, ConcatEmptySeq DEF OutStep
<1>7. ASSUME NEW x \in Seq(Int)
      PROVE  Plain(x \o r.emit) \in AFile /\ Plain(x \o r.emit).kind = "plain"
             /\ Plain(x \o r.emit).data = x \o r.emit /\ GenuineFile(U, Plain(x \o r.emit))
  <2> DEFINE y == r.emit
  <2>1. x \in Seq(Int) /\ y \in Seq(Int)
    BY <1>2
  <2> HIDE DEF y
  <2>2. x \o y \in Seq(Int)
    BY ONLY <2>1, ConcatIs
  <2>3. QED
    BY <2>2, FilesAre, EmptyGenuine DEF y
<1>8. CASE r.out = "none"
  <2>1. F = fs
    BY <1>8 DEF Emitted
  <2>3. ~r.created /\ Untouched(fs["res"])
    BY <1>2, <1>4, <1>8 DEF OutStep, SinkOut
  <2>4. cmd.to = "pipe" => r.emit = <<>>
    <3>1. sink.meta_done => cmd.to # "pipe"
      BY <1>8 DEF OutStep, SinkOut
    <3>2. QED
      BY <1>2, <1>8, <3>1 DEF OutStep
  <2>5. fs["pipe"].data \o <<>> = fs["pipe"].data
    BY <1>3, EmptyConcat
  <2>6. QED
    BY <2>1, <2>3, <2>4, <2>5
<1>9. CASE r.out = "pipe"
  <2>1. cmd.to = "pipe" /\ ~r.created /\ ~sink.created /\ Untouched(fs["res"])
    BY <1>2, <1>4, <1>9 DEF OutStep, SinkOut
  <2>2. O = fs
    BY <2>1 DEF Opened
  <2>3. CASE ~Framed(r)
    <3>1. F = fs
      BY <1>9, <2>3 DEF Emitted, Deferred
    <3>2. QED
      BY <2>1, <2>3, <3>1
  <2>4. CASE Framed(r)
    <3>1. F = [fs EXCEPT !["pipe"] = Plain(fs["pipe"].data \o r.emit)]
      BY <1>9, <2>2, <2>4 DEF Emitted, Deferred
    <3> DEFINE g == Plain(fs["pipe"].data \o r.emit)
    <3>2. g \in AFile /\ GenuineFile(U, g) /\ g.data = fs["pipe"].data \o r.emit
      BY <1>3, <1>7
    <3>3. F = [fs EXCEPT !["pipe"] = g]
      BY <3>1
    <3> HIDE DEF g, F
    <3>4. FilesOk(F, U)
      BY <1>1, <3>2, <3>3, WithFile
    <3>5. F["pipe"] = g /\ \A n \in Name : n # "pipe" => F[n] = fs[n]
      BY <1>1, <1>3, <3>3
    <3>6. QED
      BY <1>1, <2>1, <2>4, <3>2, <3>4, <3>5 DEF F
  <2>5. QED
    BY <2>3, <2>4
<1>10. CASE r.out = "res"
  <2>1. cmd.to \in {"res", "dir"} /\ r.created
    BY <1>2, <1>4, <1>10 DEF OutStep, SinkOut
  <2>2. F = [O EXCEPT !["res"] = Plain(O["res"].data \o r.emit)]
    BY <1>10 DEF Emitted, Deferred
  <2>3. /\ FilesOk(O, U) /\ O["res"].data \in Seq(Int) /\ O["res"].data = sink.data
        /\ \A n \in Name : n # "res" => O[n] = fs[n]
    <3>1. CASE sink.created
      <4>1. O = fs
        BY <3>1 DEF Opened
      <4>2. cmd.to \in {"res", "dir"} /\ fs["res"].data = sink.data
        BY <2>1, <3>1 DEF SinkOut
      <4>3. QED
        BY <1>2, <4>1, <4>2
    <3>2. CASE ~sink.created
      <4>1. O = [fs EXCEPT !["res"] = Plain(<<>>)]
        BY <2>1, <3>2 DEF Opened
      <4>2. sink.data = <<>>
        BY <1>2, <1>10, <2>1, <3>2 DEF OutStep, SinkOut
      <4> DEFINE g == Plain(<<>>)
      <4>3. O = [fs EXCEPT !["res"] = g] /\ g \in AFile /\ GenuineFile(U, g) /\ g.data = <<>>
        BY <1>5, <4>1
      <4> HIDE DEF g, O
      <4>4. FilesOk(O, U)
        BY <1>1, <4>3, WithFile
      <4>5. O["res"] = g /\ \A n \in Name : n # "res" => O[n] = fs[n]
        BY <1>1, <1>3, <4>3
      <4>6. QED
        BY <1>2, <4>2, <4>3, <4>4, <4>5
    <3>3. QED
      BY <1>2, <3>1, <3>2
  <2> HIDE DEF O
  <2> DEFINE g == Plain(O["res"].data \o r.emit)
  <2>4. g \in AFile /\ GenuineFile(U, g) /\ g.kind = "plain" /\ g.data = O["res"].data \o r.emit
    BY <1>7, <2>3
  <2>5. g.data = r.data
    BY <1>6, <2>3, <2>4
  <2>6. F = [O EXCEPT !["res"] = g]
    BY <2>2
  <2> HIDE DEF g, F
  <2>7. FilesOk(F, U)
    BY <1>1, <2>3, <2>4, <2>6, WithFile
  <2>8. F["res"] = g /\ \A n \in Name : n # "res" => F[n] = O[n]
    BY <1>1, <2>3, <2>6 DEF FilesOk
  <2>9. \A n \in Name : n # "res" => F[n] = fs[n]
    BY <2>3, <2>8
  <2>10. QED
    BY <1>1, <2>1, <2>4, <2>5, <2>7, <2>8, <2>9 DEF F
<1>11. QED
  BY <1>2, <1>8, <1>9, <1>10

(* The output is still in step with the sink afterwards. *)
LEMMA SinkOutKept ==
    ASSUME NEW U, FilesOk(fs, U), sink \in ASink, NEW r \in ASink, cmd \in Decryption,
           SinkOut(cmd, sink, fs), PipeOut(cmd, sink, fs, FALSE), sink.err = "no",
           OutStep(cmd, sink, r), r.err = "no"
    PROVE  /\ SinkOut(cmd, r, Emitted(r))
           /\ cmd.to = "pipe" /\ Framed(r) => Emitted(r)["pipe"].data = r.data
           /\ cmd.to = "pipe" /\ ~Framed(r) =>
                 Emitted(r)["pipe"].data = <<>> /\ Buffered(r).buf = r.data
<1> DEFINE F == Emitted(r)
<1>1. /\ ~r.created => F["res"] = fs["res"] /\ Untouched(fs["res"])
      /\ r.created => F["res"].kind = "plain" /\ F["res"].data = r.data
      /\ cmd.to = "pipe" /\ Framed(r) => F["pipe"].data = fs["pipe"].data \o r.emit
      /\ cmd.to # "pipe" \/ ~Framed(r) => F["pipe"] = fs["pipe"]
  BY EmittedIs
<1>2. /\ cmd.to \in {"res", "dir", "pipe", "check"}
      /\ sink.meta_done \in BOOLEAN /\ r.meta_done \in BOOLEAN /\ sink.skipped \in BOOLEAN
      /\ r.skipped \in BOOLEAN /\ r.created \in BOOLEAN /\ sink.created \in BOOLEAN
      /\ r.data \in Seq(Int) /\ sink.data \in Seq(Int) /\ r.emit \in Seq(Int)
      /\ sink.data \o <<>> = sink.data /\ r.out \in {"none", "res", "pipe"}
      /\ sink.buf \in Seq(Int)
  BY SinkFields, EmptyConcat DEF Decryption
<1> HIDE DEF F
<1>3. ~r.meta_done => r.data = <<>> /\ ~r.skipped /\ r.emit = <<>>
  BY <1>2 DEF OutStep, SinkOut
<1>4. cmd.to = "check" => r.out = "none"
  BY <1>2 DEF OutStep, SinkOut
<1>5. cmd.to = "pipe" => r.out = IF r.meta_done THEN "pipe" ELSE "none"
  BY <1>2 DEF OutStep, SinkOut
<1>6. cmd.to \in {"res", "dir"} =>
          /\ r.out = IF r.created THEN "res" ELSE "none"
          /\ r.meta_done => r.created # r.skipped
          /\ ~r.meta_done => ~r.created
          /\ r.created => F["res"].kind = "plain" /\ F["res"].data = r.data
  BY <1>1, <1>2 DEF OutStep, SinkOut
<1>7. (cmd.to \notin {"res", "dir"} => ~r.created) /\ (r.created => ~r.skipped)
  BY <1>2 DEF OutStep, SinkOut
<1>8. SinkOut(cmd, r, F)
  BY <1>1, <1>3, <1>4, <1>5, <1>6, <1>7 DEF SinkOut
<1>9. Framed(r) <=> Framed(sink)
  BY DEF OutStep, Framed
<1>10. cmd.to = "pipe" /\ Framed(r) => F["pipe"].data = r.data
  BY <1>1, <1>9 DEF PipeOut, OutStep
<1>11. ASSUME cmd.to = "pipe", ~Framed(r)
       PROVE  F["pipe"].data = <<>> /\ Buffered(r).buf = r.data
  <2>1. F["pipe"].data = <<>> /\ sink.buf = sink.data
    BY <1>1, <1>9, <1>11 DEF PipeOut
  <2>2. r.buf = sink.data /\ r.data = sink.data \o r.emit
    BY <2>1 DEF OutStep
  <2>3. CASE Deferred(r)
    <3>1. Buffered(r) = [r EXCEPT !.buf = r.buf \o r.emit]
      BY <2>3 DEF Buffered
    <3>2. QED
      BY <2>1, <2>2, <3>1 DEF ASink
  <2>4. CASE ~Deferred(r)
    <3>1. ~r.meta_done
      BY <1>5, <1>11, <2>4 DEF Deferred
    <3>2. r.emit = <<>> /\ Buffered(r) = r
      BY <1>3, <2>4, <3>1 DEF Buffered
    <3>3. QED
      BY <1>2, <2>1, <2>2, <3>2
  <2>5. QED
    BY <2>3, <2>4
<1>12. QED
  BY <1>8, <1>10, <1>11 DEF F

(***************************************************************************)
(* Types and signatures are kept by crypto_decrypt_file.                   *)
(***************************************************************************)
(* There is one content key, whichever record opens. *)
LEMMA UnwrapIs ==
    ASSUME NEW h \in AHeader, NEW who, Unwraps(h, who)
    PROVE  UnwrapCek(h, who) = Cek
<1> DEFINE I == {i \in 1 .. Len(h.recs) : h.recs[i].to = who}
           k == CHOOSE x \in I : \A y \in I : x <= y
<1>1. h.recs \in Seq([to : {"A", "B"}, cek : {Cek}])
  BY DEF AHeader
<1>2. Len(h.recs) \in Nat /\ DOMAIN h.recs = 1 .. Len(h.recs)
      /\ \A i \in 1 .. Len(h.recs) : h.recs[i] \in [to : {"A", "B"}, cek : {Cek}]
  BY <1>1, LenProperties, ElementOfSeq
<1>3. I # {} /\ I \in SUBSET Nat
  BY <1>2 DEF Unwraps
<1>4. UnwrapCek(h, who) = h.recs[k].cek
  BY <1>3 DEF UnwrapCek, SelectInSeq, Min
<1> HIDE DEF I
<1>5. \E x \in I : \A y \in I : x <= y
  BY <1>3, Lowest
<1>6. k \in I
  BY <1>5
<1> HIDE DEF k
<1>7. k \in 1 .. Len(h.recs)
  BY <1>6 DEF I
<1>8. QED
  BY <1>2, <1>4, <1>7

LEMMA NoSinkIs ==
    /\ NoSink \in ASink /\ NoSink.tbuf = <<>> /\ NoSink.data = <<>> /\ NoSink.buf = <<>>
    /\ ~NoSink.created /\ ~NoSink.skipped /\ ~NoSink.meta_done /\ NoSink.out = "none"
    /\ NoSink.err = "no"
<1>1. <<>> \in Seq(Int) /\ <<>> \in Seq(ACell) /\ NoHdr \in AHeader /\ NoMeta \in AMeta
  BY EmptySeq, Blanks
<1>2. QED
  BY <1>1 DEF NoSink, ASink

LEMMA NoCells == \A S : GenuineCells(S, <<>>)
<1>1. Len(<<>>) = 0
  BY EmptyHasNone
<1>2. QED
  BY <1>1 DEF GenuineCells

(* A failure leaves nothing that this command has created. *)
LEMMA BaseDecFail ==
    ASSUME NEW F, NEW s \in ASink, NEW code \in {"input", "integrity", "io"}, FilesOk(F, said),
           BaseInv, DecFail(code, F, s), cmd' \in Decryption, GenuineCells(said, s.tbuf),
           UNCHANGED <<enc, said, truth>>, s.created \/ Untouched(F["res"]),
           F["out"].kind \in {"cont", "armor"}, cmd'.to # "pipe" => F["pipe"].data = <<>>
    PROVE  BaseInv'
<1>1. pc' = "ret" /\ rc' = code /\ sink' = s
      /\ fs' = [n \in Name |-> IF n = "tmp" \/ (n = "res" /\ s.created) THEN NoFile ELSE F[n]]
  BY DEF DecFail
<1>2. "out" \in Name /\ "tmp" \in Name /\ "res" \in Name /\ "pipe" \in Name
  BY DEF Name
<1>3. /\ fs'["out"] = F["out"] /\ fs'["pipe"] = F["pipe"] /\ fs'["tmp"] = NoFile
      /\ fs'["res"] = IF s.created THEN NoFile ELSE F["res"]
  BY <1>1, <1>2
<1>4. FilesOk(fs', said)
  BY <1>1, FilesAre, EmptyGenuine DEF FilesOk
<1>5. cmd'.op = "dec"
  BY DEF Decryption
<1>6. Types'
  BY <1>1, <1>4 DEF BaseInv, Types, FilesOk
<1>7. SaidInv'
  BY <1>1, <1>4 DEF BaseInv, SaidInv, FilesOk
<1>8. Phases'
  BY <1>1, <1>5 DEF Phases
<1>9. fs'["res"].kind # "plain"
  BY <1>3, FilesAre DEF Untouched
<1>10. DecInv'
  BY <1>1, <1>3, <1>9 DEF DecInv, Decrypting
<1>11. QED
  BY <1>6, <1>7, <1>8, <1>10 DEF BaseInv

LEMMA SourceIs ==
    ASSUME NEW U, FilesOk(fs, U), NEW c
    PROVE  /\ Dearmor(c) \in AFile /\ GenuineFile(U, Dearmor(c))
           /\ Source(c) \in AFile
           /\ Source(c).kind = "cont" =>
                 Source(c).hdr = fs["out"].hdr /\ Source(c).frames = fs["out"].frames
<1> DEFINE f == fs["out"]
           g == [f EXCEPT !.kind = "cont"]
<1>1. f \in AFile /\ GenuineFile(U, f)
  BY DEF FilesOk, Name
<1>2. NoFile \in AFile /\ OldFile \in AFile /\ GenuineFile(U, NoFile) /\ GenuineFile(U, OldFile)
      /\ OldFile.kind # "cont" /\ NoFile.kind # "cont"
  BY FilesAre, EmptyGenuine
<1>3. g \in AFile /\ g.frames = f.frames /\ g.hdr = f.hdr
  BY <1>1 DEF AFile
<1>4. GenuineFile(U, g)
  BY <1>1, <1>3 DEF GenuineFile
<1>5. Dearmor(c) \in {NoFile, g, OldFile}
  BY DEF Dearmor
<1>6. Source(c) \in {f, NoFile, g, OldFile}
  BY <1>5 DEF Source
<1> HIDE DEF g
<1>7. QED
  BY <1>1, <1>2, <1>3, <1>4, <1>5, <1>6

LEMMA BaseDecBegin ==
    ASSUME BaseInv, NEW c \in Decryption, DecBegin(c)
    PROVE  BaseInv'
<1> DEFINE f == Source(c)
           s == [NoSink EXCEPT !.hdr = f.hdr]
           files == [fs EXCEPT !["tmp"] = Dearmor(c), !["pipe"] = NoFile]
<1>1. /\ fs["out"].kind \in {"cont", "armor"} /\ cmd' = c /\ UNCHANGED <<enc, said, truth>>
      /\ pc = "idle" \/ (pc = "ret" /\ cmd.op = "enc")
  BY DEF DecBegin
<1>2. Untouched(fs["res"])
  BY <1>1 DEF BaseInv, Phases
<1>3. "out" \in Name /\ "tmp" \in Name /\ "res" \in Name /\ "pipe" \in Name
  BY DEF Name
<1>4. /\ Dearmor(c) \in AFile /\ GenuineFile(said, Dearmor(c)) /\ f \in AFile
      /\ f.kind = "cont" => f.hdr = fs["out"].hdr /\ f.frames = fs["out"].frames
  BY BaseFacts, SourceIs
<1>5. /\ files["out"] = fs["out"] /\ files["res"] = fs["res"] /\ files["pipe"] = NoFile
      /\ FilesOk(files, said)
  <2>1. NoFile \in AFile /\ GenuineFile(said, NoFile)
    BY FilesAre, EmptyGenuine
  <2>2. FilesOk(fs, said) /\ fs \in [Name -> AFile]
    BY BaseFacts DEF FilesOk
  <2>3. files["out"] = fs["out"] /\ files["res"] = fs["res"] /\ files["pipe"] = NoFile
    BY <1>3, <2>2
  <2>4. QED
    BY <1>3, <1>4, <2>1, <2>2, <2>3, TwoFiles
<1>6. f.hdr \in AHeader
  BY <1>4, FileFields
<1>7. /\ s \in ASink /\ s.tbuf = <<>> /\ s.data = <<>> /\ s.buf = <<>>
      /\ ~s.created /\ ~s.skipped /\ ~s.meta_done /\ s.out = "none" /\ s.err = "no"
      /\ s.hdr = f.hdr
  BY <1>6, NoSinkIs DEF ASink
<1>8. files["pipe"].data = <<>>
  BY <1>5, FilesAre
<1>9. \/ DecFail("input", files, s)
      \/ DecFail("integrity", files, s)
      \/ /\ f.kind = "cont" /\ Unwraps(f.hdr, c.who)
         /\ pc' = "dec_frame" /\ sink' = [s EXCEPT !.cek = UnwrapCek(f.hdr, c.who)]
         /\ fs' = files
  BY DEF DecBegin
<1> HIDE DEF f, s, files
<1>10. CASE \E code \in {"input", "integrity", "io"} : DecFail(code, files, s)
  <2>1. PICK code \in {"input", "integrity", "io"} : DecFail(code, files, s)
    BY <1>10
  <2>2. GenuineCells(said, s.tbuf)
    BY <1>7, NoCells
  <2>3. QED
    BY <1>1, <1>2, <1>5, <1>7, <1>8, <2>1, <2>2, BaseDecFail
<1>11. CASE /\ f.kind = "cont" /\ Unwraps(f.hdr, c.who)
            /\ pc' = "dec_frame" /\ sink' = [s EXCEPT !.cek = UnwrapCek(f.hdr, c.who)]
            /\ fs' = files
  <2>1. UnwrapCek(f.hdr, c.who) = Cek
    BY <1>6, <1>11, UnwrapIs
  <2>2. sink' = [s EXCEPT !.cek = Cek]
    BY <1>11, <2>1
  <2>3. /\ sink' \in ASink /\ sink'.tbuf = <<>> /\ sink'.data = <<>> /\ sink'.buf = <<>>
        /\ ~sink'.created /\ ~sink'.skipped /\ ~sink'.meta_done /\ sink'.out = "none"
        /\ sink'.err = "no" /\ sink'.hdr = f.hdr /\ sink'.cek = Cek
    BY <1>7, <2>2 DEF ASink
  <2>4. cmd'.op = "dec" /\ cmd' \in Decryption
    BY <1>1 DEF Decryption
  <2>5. fs'["out"] = fs["out"] /\ fs'["res"] = fs["res"] /\ fs'["pipe"].data = <<>>
    BY <1>5, <1>8, <1>11
  <2>6. Types'
    BY <1>1, <1>5, <1>11, <2>3 DEF BaseInv, Types, FilesOk
  <2>7. SaidInv'
    BY <1>1, <1>5, <1>11, <2>3, NoCells DEF BaseInv, SaidInv, FilesOk
  <2>8. Phases'
    BY <1>11, <2>4 DEF Phases
  <2>9. Stored' = fs'["out"].frames
    <3>1. Stored' = f.frames
      BY <1>1, <2>5 DEF Stored, Source, Dearmor, f
    <3>2. QED
      BY <1>4, <1>11, <2>5, <3>1
  <2>10. SinkOut(cmd', sink', fs')
    BY <1>2, <2>3, <2>5 DEF SinkOut
  <2>11. PipeOut(cmd', sink', fs', FALSE)
    BY <2>3, <2>5 DEF PipeOut
  <2>12. sink'.hdr = fs'["out"].hdr
    BY <1>4, <1>11, <2>3, <2>5
  <2>13. Unwraps(sink'.hdr, cmd'.who) /\ sink'.cek = UnwrapCek(sink'.hdr, cmd'.who)
    BY <1>1, <1>11, <2>1, <2>3
  <2>14. DecInv'
    <3>1. pc' = "dec_frame" /\ Decrypting'
      BY <1>11 DEF Decrypting
    <3>2. PipeOut(cmd, sink, fs, pc = "dec_close")'
      BY <2>11, <3>1 DEF PipeOut
    <3>3. fs'["out"].kind \in {"cont", "armor"}
      BY <1>1, <2>5
    <3>4. QED
      BY <2>3, <2>4, <2>5, <2>9, <2>10, <2>12, <2>13, <3>1, <3>2, <3>3 DEF DecInv
  <2>15. QED
    BY <2>6, <2>7, <2>8, <2>14 DEF BaseInv
<1>12. QED
  BY <1>9, <1>10, <1>11

LEMMA DecFacts ==
    ASSUME BaseInv, Decrypting
    PROVE  /\ cmd.op = "dec" /\ cmd \in Decryption /\ sink \in ASink /\ sink.err = "no"
           /\ fs["out"].kind \in {"cont", "armor"}
           /\ cmd.to # "pipe" => fs["pipe"].data = <<>>
           /\ sink.hdr = fs["out"].hdr /\ Stored = fs["out"].frames
           /\ Unwraps(sink.hdr, cmd.who) /\ sink.cek = UnwrapCek(sink.hdr, cmd.who)
           /\ SinkOut(cmd, sink, fs) /\ PipeOut(cmd, sink, fs, pc = "dec_close")
           /\ sink.created \/ Untouched(fs["res"])
           /\ GenuineCells(said, sink.tbuf) /\ FilesOk(fs, said)
<1>1. cmd.op = "dec"
  BY DEF BaseInv, Phases, Encrypting, Decrypting
<1>2. /\ cmd \in Decryption /\ sink.err = "no"
      /\ fs["out"].kind \in {"cont", "armor"}
      /\ cmd.to # "pipe" => fs["pipe"].data = <<>>
      /\ sink.hdr = fs["out"].hdr /\ Stored = fs["out"].frames
      /\ Unwraps(sink.hdr, cmd.who) /\ sink.cek = UnwrapCek(sink.hdr, cmd.who)
      /\ SinkOut(cmd, sink, fs) /\ PipeOut(cmd, sink, fs, pc = "dec_close")
  BY <1>1 DEF BaseInv, DecInv
<1>3. sink.created \/ Untouched(fs["res"])
  BY <1>2 DEF SinkOut
<1>4. QED
  BY <1>1, <1>2, <1>3, BaseFacts DEF BaseInv, SaidInv

(* Decryption goes on. *)
LEMMA BaseDecOn ==
    ASSUME BaseInv, Decrypting, pc' \in {"dec_frame", "dec_finish", "dec_close"},
           UNCHANGED <<cmd, enc, said, truth>>, FilesOk(fs', said), sink' \in ASink,
           GenuineCells(said, sink'.tbuf), sink'.hdr = sink.hdr, sink'.cek = sink.cek,
           sink'.err = "no", fs'["out"] = fs["out"],
           cmd.to # "pipe" => fs'["pipe"].data = <<>>,
           SinkOut(cmd, sink', fs'), PipeOut(cmd, sink', fs', pc' = "dec_close"),
           pc' = "dec_close" => Passed'
    PROVE  BaseInv'
<1>1. /\ cmd.op = "dec" /\ cmd \in Decryption /\ fs["out"].kind \in {"cont", "armor"}
      /\ sink.hdr = fs["out"].hdr /\ Stored = fs["out"].frames
      /\ Unwraps(sink.hdr, cmd.who) /\ sink.cek = UnwrapCek(sink.hdr, cmd.who)
  BY DecFacts
<1>2. Types'
  BY DEF BaseInv, Types, FilesOk
<1>3. SaidInv'
  BY DEF BaseInv, SaidInv, FilesOk
<1>4. Phases'
  BY <1>1 DEF Phases
<1>5. Stored' = fs'["out"].frames
  BY <1>1 DEF Stored, Source, Dearmor
<1>6. DecInv'
  BY <1>1, <1>5 DEF DecInv, Decrypting
<1>7. QED
  BY <1>2, <1>3, <1>4, <1>6 DEF BaseInv

(* The sink as it is and the files as they are, or what became of them.   *)
LEMMA BaseDecStops ==
    ASSUME BaseInv, Decrypting, NEW code \in {"input", "integrity", "io"},
           DecFail(code, fs, sink), UNCHANGED <<cmd, enc, said, truth>>
    PROVE  BaseInv'
  BY DecFacts, BaseDecFail

LEMMA BaseSinkFails ==
    ASSUME BaseInv, Decrypting, NEW r \in ASink, GenuineCells(said, r.tbuf),
           OutStep(cmd, sink, r), r.err # "no",
           DecFail(r.err, Emitted(r), r), UNCHANGED <<cmd, enc, said, truth>>
    PROVE  BaseInv'
<1> DEFINE F == Emitted(r)
<1>1. r.err = "input"
  BY SinkFields
<1>2. /\ FilesOk(F, said) /\ F["out"] = fs["out"]
      /\ ~r.created => F["res"] = fs["res"] /\ Untouched(fs["res"])
      /\ cmd.to # "pipe" => F["pipe"] = fs["pipe"]
  BY DecFacts, EmittedIs
<1>3. F["out"].kind \in {"cont", "armor"} /\ (cmd.to # "pipe" => F["pipe"].data = <<>>)
  BY <1>2, DecFacts
<1>4. DecFail("input", F, r) /\ cmd' \in Decryption /\ cmd' = cmd
  BY <1>1, DecFacts
<1> HIDE DEF F
<1>5. QED
  BY <1>2, <1>3, <1>4, BaseDecFail

LEMMA BaseDecFault ==
    ASSUME BaseInv, DecFault
    PROVE  BaseInv'
  BY BaseDecStops DEF DecFault, Decrypting

LEMMA BaseDecFrame ==
    ASSUME BaseInv, DecFrame
    PROVE  BaseInv'
<1> DEFINE cells == Stored[sink.next].body
           r == SinkWrite(sink, cells)
           F == Emitted(r)
<1>1. Decrypting /\ Framed(sink) /\ UNCHANGED <<cmd, enc, said, truth>> /\ pc = "dec_frame"
  BY DEF DecFrame, Decrypting
<1>2. \/ DecFail("input", fs, sink)
      \/ DecFail("integrity", fs, sink)
      \/ /\ ~(sink.next > Len(Stored))
         /\ \/ r.err # "no" /\ DecFail(r.err, F, r)
            \/ /\ r.err = "no" /\ fs' = F /\ sink' = [r EXCEPT !.next = @ + 1]
               /\ pc' \in {"dec_finish", "dec_frame"}
  BY <1>1 DEF DecFrame
<1>3. CASE DecFail("input", fs, sink) \/ DecFail("integrity", fs, sink)
  BY <1>1, <1>3, BaseDecStops
<1>4. CASE /\ ~(sink.next > Len(Stored))
           /\ \/ r.err # "no" /\ DecFail(r.err, F, r)
              \/ /\ r.err = "no" /\ fs' = F /\ sink' = [r EXCEPT !.next = @ + 1]
                 /\ pc' \in {"dec_finish", "dec_frame"}
  <2>1. fs["out"] \in AFile /\ GenuineFile(said, fs["out"]) /\ Stored = fs["out"].frames
    BY <1>1, BaseFacts, DecFacts DEF Name
  <2>2. sink.next \in 1 .. Len(fs["out"].frames)
    BY <1>1, <1>4, <2>1, DecFacts, SinkFields, FileFields
  <2>3. cells \in Seq(ACell) /\ GenuineCells(said, cells)
    BY <2>1, <2>2, FileFields, FrameFields DEF GenuineFile
  <2>4. /\ cmd \in Decryption /\ sink \in ASink /\ GenuineCells(said, sink.tbuf)
        /\ FilesOk(fs, said) /\ SinkOut(cmd, sink, fs) /\ PipeOut(cmd, sink, fs, FALSE)
        /\ sink.err = "no" /\ (cmd.to # "pipe" => fs["pipe"].data = <<>>)
    BY <1>1, DecFacts
  <2> HIDE DEF cells
  <2>5. r \in ASink /\ GenuineCells(said, r.tbuf)
    BY <2>3, <2>4, SinkWriteIs
  <2>6. OutStep(cmd, sink, r)
    BY <2>3, <2>4, OutStepIs
  <2> HIDE DEF r
  <2>7. CASE r.err # "no" /\ DecFail(r.err, F, r)
    BY <1>1, <2>5, <2>6, <2>7, BaseSinkFails
  <2>8. CASE /\ r.err = "no" /\ fs' = F /\ sink' = [r EXCEPT !.next = @ + 1]
             /\ pc' \in {"dec_finish", "dec_frame"}
    <3>1. /\ FilesOk(F, said) /\ F["out"] = fs["out"]
          /\ cmd.to # "pipe" => F["pipe"] = fs["pipe"]
      BY <2>4, <2>5, <2>6, EmittedIs
    <3>2. /\ SinkOut(cmd, r, F)
          /\ cmd.to = "pipe" /\ Framed(r) => F["pipe"].data = r.data
      BY <2>4, <2>5, <2>6, <2>8, SinkOutKept
    <3>3. r.hdr = sink.hdr /\ r.cek = sink.cek
      BY <2>6 DEF OutStep
    <3>4. r.next + 1 \in Nat \ {0}
      BY <2>5, SinkFields
    <3>5. /\ sink' \in ASink /\ sink'.tbuf = r.tbuf /\ sink'.hdr = r.hdr /\ sink'.cek = r.cek
          /\ sink'.err = r.err /\ sink'.data = r.data /\ sink'.buf = r.buf
          /\ sink'.meta_done = r.meta_done /\ sink'.out = r.out /\ sink'.created = r.created
          /\ sink'.skipped = r.skipped
      BY <2>5, <2>8, <3>4 DEF ASink
    <3> HIDE DEF F
    <3>6. SinkOut(cmd, sink', F)
      BY <3>2, <3>5 DEF SinkOut
    <3>7. PipeOut(cmd, sink', F, FALSE)
      BY <1>1, <3>2, <3>3, <3>5 DEF PipeOut, Framed
    <3>8. PipeOut(cmd, sink', F, pc' = "dec_close")
      BY <2>8, <3>7 DEF PipeOut
    <3>9. QED
      BY <1>1, <2>4, <2>5, <2>8, <3>1, <3>3, <3>5, <3>6, <3>8, BaseDecOn
  <2>9. QED
    BY <1>4, <2>7, <2>8
<1>5. QED
  BY <1>2, <1>3, <1>4

(* What follows the header of a version 5 container. *)
LEMMA PayloadIs ==
    ASSUME BaseInv, Decrypting
    PROVE  Payload \in Seq(ACell) /\ GenuineCells(said, Payload)
<1> DEFINE T == {c \in ACell : Genuine(said, c.trailer)}
           f == fs["out"]
           n == Len(f.frames)
           seqs == [i \in 1 .. n |-> f.frames[i].body]
<1>1. f \in AFile /\ GenuineFile(said, f) /\ Stored = f.frames
  BY BaseFacts, DecFacts DEF Name
<1>2. n \in Nat /\ f.frames \in Seq(AFrame) /\ DOMAIN f.frames = 1 .. n
  BY <1>1, FileFields, LenProperties
<1>3. ASSUME NEW i \in 1 .. n PROVE f.frames[i].body \in Seq(T)
  <2> DEFINE b == f.frames[i].body
  <2>1. b \in Seq(ACell) /\ GenuineCells(said, b)
    BY <1>1, <1>3, FileFields, FrameFields DEF GenuineFile
  <2> HIDE DEF b
  <2>2. \A k \in 1 .. Len(b) : b[k] \in T
    BY <2>1, EmptyHasNone DEF GenuineCells
  <2>3. b \in [1 .. Len(b) -> ACell] /\ Len(b) \in Nat
    BY <2>1, LenProperties
  <2> HIDE DEF T
  <2>4. b \in [1 .. Len(b) -> T]
    BY <2>2, <2>3
  <2>5. b \in Seq(T)
    BY <2>3, <2>4, IsSequence
  <2>6. QED
    BY <2>5 DEF b
<1>4. Payload = FlattenSeq(seqs)
  BY <1>1, <1>2 DEF Payload
<1>5. seqs \in [1 .. n -> Seq(T)]
  BY <1>3
<1> HIDE DEF seqs, n, f
<1>6. Payload \in Seq(T)
  <2> HIDE DEF T
  <2>1. QED
    BY <1>2, <1>4, <1>5, FlattenIs
<1> DEFINE p == Payload
<1>7. p \in Seq(T)
  BY <1>6
<1> HIDE DEF p
<1>8. Len(p) \in Nat /\ p \in [1 .. Len(p) -> T] /\ \A k \in 1 .. Len(p) : p[k] \in T
  <2> HIDE DEF T
  <2>1. QED
    BY <1>7, LenProperties, ElementOfSeq
<1>9. p \in [1 .. Len(p) -> ACell]
  BY <1>8
<1>10. p \in Seq(ACell)
  BY <1>8, <1>9, IsSequence
<1>11. GenuineCells(said, p)
  BY <1>8 DEF GenuineCells
<1>12. QED
  BY <1>10, <1>11 DEF p

LEMMA BufferedIs ==
    ASSUME NEW r \in ASink
    PROVE  LET b == Buffered(r)
           IN  /\ b \in ASink /\ b.tbuf = r.tbuf /\ b.hdr = r.hdr /\ b.cek = r.cek
               /\ b.next = r.next /\ b.err = r.err /\ b.data = r.data /\ b.meta = r.meta
               /\ b.pad_seen = r.pad_seen
               /\ b.meta_done = r.meta_done /\ b.out = r.out /\ b.created = r.created
               /\ b.skipped = r.skipped
<1> DEFINE x == r.buf
           y == r.emit
           z == x \o y
<1>1. x \in Seq(Int) /\ y \in Seq(Int)
  BY SinkFields
<1>2. Buffered(r) = IF Deferred(r) THEN [r EXCEPT !.buf = z] ELSE r
  BY DEF Buffered
<1> HIDE DEF x, y
<1>3. z \in Seq(Int)
  BY ONLY <1>1, ConcatIs
<1> HIDE DEF z
<1>4. QED
  BY <1>2, <1>3, ZenonT(60) DEF ASink

LEMMA BaseDecChunk ==
    ASSUME BaseInv, DecChunk
    PROVE  BaseInv'
<1> DEFINE cells == Take(Drop(Payload, (sink.next - 1) * BufSize), BufSize)
           r == SinkWrite(sink, cells)
           F == Emitted(r)
<1>1. Decrypting /\ ~Framed(sink) /\ UNCHANGED <<cmd, enc, said, truth>> /\ pc = "dec_frame"
  BY DEF DecChunk, Decrypting
<1>2. \/ DecFail("input", fs, sink)
      \/ DecFail("integrity", fs, sink)
      \/ pc' = "dec_finish" /\ UNCHANGED <<fs, sink>>
      \/ r.err # "no" /\ DecFail(r.err, F, r)
      \/ r.err = "no" /\ fs' = F /\ sink' = [Buffered(r) EXCEPT !.next = @ + 1] /\ pc' = pc
  BY <1>1 DEF DecChunk
<1>3. CASE DecFail("input", fs, sink) \/ DecFail("integrity", fs, sink)
  BY <1>1, <1>3, BaseDecStops
<1>3a. /\ cmd \in Decryption /\ sink \in ASink /\ GenuineCells(said, sink.tbuf)
       /\ FilesOk(fs, said) /\ SinkOut(cmd, sink, fs) /\ PipeOut(cmd, sink, fs, FALSE)
       /\ sink.err = "no" /\ (cmd.to # "pipe" => fs["pipe"].data = <<>>)
  BY <1>1, DecFacts
<1>4. CASE pc' = "dec_finish" /\ UNCHANGED <<fs, sink>>
  <2>1. PipeOut(cmd, sink', fs', pc' = "dec_close") /\ SinkOut(cmd, sink', fs')
    BY <1>3a, <1>4 DEF PipeOut
  <2>2. QED
    BY <1>1, <1>3a, <1>4, <2>1, BaseDecOn
<1>5. cells \in Seq(ACell) /\ GenuineCells(said, cells)
  <2> DEFINE p == Payload
             n == (sink.next - 1) * BufSize
             b == BufSize
             d == Drop(p, n)
  <2>1. p \in Seq(ACell) /\ GenuineCells(said, p)
    BY <1>1, PayloadIs
  <2>2. n \in Nat /\ b \in Int
    <3>1. sink.next - 1 \in Nat /\ BufSize \in Nat
      BY <1>3a, SinkFields, ContainerAssumption
    <3>2. QED
      BY <3>1
  <2> HIDE DEF p, n, b
  <2>3. /\ Len(p) \in Nat /\ d \in Seq(ACell)
        /\ Len(d) = IF n <= Len(p) THEN Len(p) - n ELSE 0
        /\ \A i \in 1 .. Len(d) : d[i] = p[n + i]
    BY <2>1, <2>2, DropIs, LenProperties
  <2> HIDE DEF d
  <2>4. /\ Take(d, b) \in Seq(ACell) /\ Len(Take(d, b)) <= Len(d) /\ Len(Take(d, b)) \in Nat
        /\ \A i \in 1 .. Len(Take(d, b)) : Take(d, b)[i] = d[i]
    BY <2>2, <2>3, TakeIs, LenProperties
  <2>5. ASSUME NEW i \in 1 .. Len(Take(d, b)) PROVE Genuine(said, Take(d, b)[i].trailer)
    <3>1. i \in 1 .. Len(d) /\ n + i \in 1 .. Len(p)
      BY <2>2, <2>3, <2>4
    <3>2. Take(d, b)[i] = p[n + i]
      BY <2>3, <2>4, <3>1
    <3>3. QED
      BY <2>1, <3>1, <3>2 DEF GenuineCells
  <2>6. QED
    BY <2>4, <2>5 DEF GenuineCells, d, p, n, b
<1> HIDE DEF cells
<1>6. r \in ASink /\ GenuineCells(said, r.tbuf)
  BY <1>3a, <1>5, SinkWriteIs
<1>7. OutStep(cmd, sink, r)
  BY <1>3a, <1>5, OutStepIs
<1> HIDE DEF r
<1>8. CASE r.err # "no" /\ DecFail(r.err, F, r)
  BY <1>1, <1>6, <1>7, <1>8, BaseSinkFails
<1>9. CASE r.err = "no" /\ fs' = F /\ sink' = [Buffered(r) EXCEPT !.next = @ + 1] /\ pc' = pc
  <2> DEFINE b == Buffered(r)
  <2>1. /\ FilesOk(F, said) /\ F["out"] = fs["out"]
        /\ cmd.to # "pipe" => F["pipe"] = fs["pipe"]
    BY <1>3a, <1>6, <1>7, EmittedIs
  <2>2. /\ SinkOut(cmd, r, F)
        /\ cmd.to = "pipe" /\ ~Framed(r) => F["pipe"].data = <<>> /\ b.buf = r.data
    BY <1>3a, <1>6, <1>7, <1>9, SinkOutKept
  <2>3. r.hdr = sink.hdr /\ r.cek = sink.cek
    BY <1>7 DEF OutStep
  <2>4. /\ b \in ASink /\ b.tbuf = r.tbuf /\ b.hdr = r.hdr /\ b.cek = r.cek
        /\ b.next = r.next /\ b.err = r.err /\ b.data = r.data
        /\ b.meta_done = r.meta_done /\ b.out = r.out /\ b.created = r.created
        /\ b.skipped = r.skipped
    BY <1>6, BufferedIs
  <2>5. sink' = [b EXCEPT !.next = @ + 1]
    BY <1>9
  <2> HIDE DEF b, F
  <2>6. b.next + 1 \in Nat \ {0}
    BY <2>4, SinkFields
  <2>7. /\ sink' \in ASink /\ sink'.tbuf = r.tbuf /\ sink'.hdr = r.hdr /\ sink'.cek = r.cek
        /\ sink'.err = r.err /\ sink'.data = r.data /\ sink'.buf = b.buf
        /\ sink'.meta_done = r.meta_done /\ sink'.out = r.out /\ sink'.created = r.created
        /\ sink'.skipped = r.skipped
    BY <2>4, <2>5, <2>6 DEF ASink
  <2>8. SinkOut(cmd, sink', F)
    BY <2>2, <2>7 DEF SinkOut
  <2>9. PipeOut(cmd, sink', F, FALSE)
    BY <1>1, <2>2, <2>3, <2>7 DEF PipeOut, Framed
  <2>10. PipeOut(cmd, sink', F, pc' = "dec_close")
    BY <1>1, <1>9, <2>9 DEF PipeOut
  <2>11. QED
    BY <1>1, <1>3a, <1>6, <1>9, <2>1, <2>3, <2>7, <2>8, <2>10, BaseDecOn
<1>10. QED
  BY <1>2, <1>3, <1>4, <1>8, <1>9

LEMMA BaseDecFinish ==
    ASSUME BaseInv, DecFinish
    PROVE  BaseInv'
<1>1. Decrypting /\ UNCHANGED <<cmd, enc, said, truth>> /\ pc = "dec_finish"
  BY DEF DecFinish, Decrypting
<1>2. /\ cmd \in Decryption /\ sink \in ASink /\ GenuineCells(said, sink.tbuf)
      /\ FilesOk(fs, said) /\ SinkOut(cmd, sink, fs) /\ PipeOut(cmd, sink, fs, FALSE)
      /\ sink.err = "no" /\ (cmd.to # "pipe" => fs["pipe"].data = <<>>)
  BY <1>1, DecFacts
<1>3. FinishRc(sink) \in {"ok", "input", "integrity"}
  BY DEF FinishRc
<1>4. \/ DecFail("input", fs, sink)
      \/ FinishRc(sink) # "ok" /\ DecFail(FinishRc(sink), fs, sink)
      \/ /\ sink.meta_done /\ FinishRc(sink) = "ok" /\ pc' = "dec_close" /\ sink' = sink
         /\ fs' = IF Deferred(sink) THEN [fs EXCEPT !["pipe"] = Plain(sink.buf)] ELSE fs
  BY DEF DecFinish
<1>5. CASE DecFail("input", fs, sink)
  BY <1>1, <1>5, BaseDecStops
<1>6. CASE FinishRc(sink) # "ok" /\ DecFail(FinishRc(sink), fs, sink)
  <2> DEFINE code == FinishRc(sink)
  <2>1. code \in {"input", "integrity", "io"} /\ DecFail(code, fs, sink)
    BY <1>3, <1>6
  <2> HIDE DEF code
  <2>2. QED
    BY <1>1, <2>1, BaseDecStops
<1>7. CASE /\ sink.meta_done /\ FinishRc(sink) = "ok" /\ pc' = "dec_close" /\ sink' = sink
           /\ fs' = IF Deferred(sink) THEN [fs EXCEPT !["pipe"] = Plain(sink.buf)] ELSE fs
  <2> DEFINE g == Plain(sink.buf)
  <2>1. sink.buf \in Seq(Int) /\ "pipe" \in Name /\ "out" \in Name /\ "res" \in Name
    BY <1>2, SinkFields DEF Name
  <2>2. g \in AFile /\ g.data = sink.buf /\ GenuineFile(said, g)
    BY <2>1, FilesAre, EmptyGenuine
  <2>3. fs' = IF Deferred(sink) THEN [fs EXCEPT !["pipe"] = g] ELSE fs
    BY <1>7
  <2> HIDE DEF g
  <2>4. FilesOk(fs', said)
    BY <1>2, <2>1, <2>2, <2>3, WithFile
  <2>5. /\ fs'["out"] = fs["out"] /\ fs'["res"] = fs["res"]
        /\ fs'["pipe"] = IF Deferred(sink) THEN g ELSE fs["pipe"]
    BY <1>2, <2>1, <2>3 DEF FilesOk
  <2>6. Deferred(sink) => cmd.to = "pipe"
    BY <1>2 DEF Deferred, SinkOut, Decryption
  <2>7. SinkOut(cmd, sink', fs')
    BY <1>2, <1>7, <2>5 DEF SinkOut
  <2>8. PipeOut(cmd, sink', fs', pc' = "dec_close")
    <3>1. CASE cmd.to = "pipe" /\ Framed(sink)
      <4>1. fs'["pipe"] = fs["pipe"]
        BY <2>5, <3>1 DEF Deferred
      <4>2. QED
        BY <1>2, <1>7, <3>1, <4>1 DEF PipeOut
    <3>2. CASE cmd.to = "pipe" /\ ~Framed(sink)
      <4>1. Deferred(sink)
        BY <1>2, <1>7, <3>2 DEF SinkOut, Deferred
      <4>2. fs'["pipe"].data = sink.buf
        BY <2>2, <2>5, <4>1
      <4>3. QED
        BY <1>2, <1>7, <3>2, <4>2 DEF PipeOut
    <3>3. CASE cmd.to # "pipe"
      BY <3>3 DEF PipeOut
    <3>4. QED
      BY <3>1, <3>2, <3>3
  <2>9. Passed'
    BY <1>1, <1>7 DEF Passed, FinishRc
  <2>10. cmd.to # "pipe" => fs'["pipe"].data = <<>>
    BY <1>2, <2>5, <2>6
  <2>11. QED
    BY <1>1, <1>2, <1>7, <2>4, <2>5, <2>7, <2>8, <2>9, <2>10, BaseDecOn
<1>8. QED
  BY <1>4, <1>5, <1>6, <1>7

(* Decryption has returned with success. *)
LEMMA BaseDecDone ==
    ASSUME BaseInv, pc = "dec_close", NEW g \in AFile, GenuineFile(said, g),
           fs' = [fs EXCEPT !["tmp"] = NoFile, !["res"] = g], pc' = "ret",
           UNCHANGED <<cmd, enc, sink, said, truth>>,
           rc' \in {"ok", "skipped"}, g.kind = "plain" => rc' = "ok"
    PROVE  BaseInv'
<1>1. Decrypting
  BY DEF Decrypting
<1>2. /\ cmd.op = "dec" /\ cmd \in Decryption /\ FilesOk(fs, said)
      /\ fs["out"].kind \in {"cont", "armor"}
      /\ cmd.to # "pipe" => fs["pipe"].data = <<>>
      /\ PipeOut(cmd, sink, fs, TRUE)
  BY <1>1, DecFacts
<1>3. Passed
  BY <1>2 DEF BaseInv, DecInv
<1>4. "out" \in Name /\ "tmp" \in Name /\ "res" \in Name /\ "pipe" \in Name
  BY DEF Name
<1>5. NoFile \in AFile /\ GenuineFile(said, NoFile)
  BY FilesAre, EmptyGenuine
<1>6. FilesOk(fs', said)
  BY <1>2, <1>4, <1>5, TwoFiles
<1>7. /\ fs'["out"] = fs["out"] /\ fs'["pipe"] = fs["pipe"] /\ fs'["tmp"] = NoFile
      /\ fs'["res"] = g
  BY <1>2, <1>4 DEF FilesOk
<1>8. Types'
  BY <1>6 DEF BaseInv, Types, FilesOk
<1>9. SaidInv'
  BY <1>6 DEF BaseInv, SaidInv, FilesOk
<1>10. Phases'
  BY <1>2 DEF Phases
<1>11. Passed'
  BY <1>3 DEF Passed, FinishRc
<1>12. cmd.to = "pipe" => fs["pipe"].data = sink.data
  BY <1>2 DEF PipeOut
<1>13. DecInv'
  BY <1>2, <1>7, <1>11, <1>12 DEF DecInv, Decrypting
<1>14. QED
  BY <1>8, <1>9, <1>10, <1>13 DEF BaseInv

LEMMA RestoredIs ==
    ASSUME NEW f \in AFile
    PROVE  /\ Restored(f) \in AFile /\ Restored(f).kind = f.kind /\ Restored(f).data = f.data
           /\ \A S : GenuineFile(S, f) => GenuineFile(S, Restored(f))
<1>1. /\ Restored(f) \in AFile /\ Restored(f).kind = f.kind /\ Restored(f).frames = f.frames
      /\ Restored(f).data = f.data
  BY DEF Restored, AFile
<1>2. QED
  BY <1>1 DEF GenuineFile

LEMMA BaseDecClose ==
    ASSUME BaseInv, DecClose \/ DecFlushLost
    PROVE  BaseInv'
<1>1. /\ pc = "dec_close" /\ pc' = "ret" /\ UNCHANGED <<cmd, enc, sink, said, truth>>
      /\ Decrypting
  BY DEF DecClose, DecFlushLost, Decrypting
<1>2. "out" \in Name /\ "tmp" \in Name /\ "res" \in Name /\ "pipe" \in Name
  BY DEF Name
<1>3. /\ fs["res"] \in AFile /\ GenuineFile(said, fs["res"])
      /\ SinkOut(cmd, sink, fs) /\ sink.created \in BOOLEAN
  BY <1>1, <1>2, BaseFacts, DecFacts, SinkFields
<1>4. CASE DecClose
  <2> DEFINE g == IF sink.created THEN Restored(fs["res"]) ELSE fs["res"]
  <2>1. fs' = [fs EXCEPT !["tmp"] = NoFile, !["res"] = g]
        /\ rc' = IF sink.skipped THEN "skipped" ELSE "ok"
    BY <1>2, <1>4 DEF DecClose
  <2>2. g \in AFile /\ GenuineFile(said, g)
    BY <1>3, RestoredIs
  <2>3. g.kind = "plain" => rc' = "ok"
    <3>1. CASE sink.created
      BY <1>3, <2>1, <3>1 DEF SinkOut
    <3>2. CASE ~sink.created
      BY <1>3, <3>2, FilesAre DEF SinkOut, Untouched
    <3>3. QED
      BY <1>3, <3>1, <3>2
  <2>4. rc' \in {"ok", "skipped"}
    BY <2>1
  <2> HIDE DEF g
  <2>5. QED
    BY <1>1, <2>1, <2>2, <2>3, <2>4, BaseDecDone
<1>5. CASE DecFlushLost
  <2>1. PICK f \in Torn(fs["res"]) :
           fs' = [fs EXCEPT !["tmp"] = NoFile, !["res"] = Restored(f)]
    BY <1>5 DEF DecFlushLost
  <2>2. f \in AFile /\ GenuineFile(said, f)
    BY <1>3, TornIs, TornGenuine
  <2>3. Restored(f) \in AFile /\ GenuineFile(said, Restored(f)) /\ rc' = "ok"
    BY <1>5, <2>2, RestoredIs DEF DecFlushLost
  <2>4. QED
    BY <1>1, <2>1, <2>3, BaseDecDone
<1>6. QED
  BY <1>4, <1>5

(***************************************************************************)
(* The beginning: containers of earlier releases.                          *)
(***************************************************************************)
LegacyMeta == Meta(TRUE, FALSE, 0, Unknown)
LegacyHdr(ver) == Header(ver, <<Record("A", Cek)>>)

LEMMA NumbersAre ==
    ASSUME NEW n \in Nat
    PROVE  Numbers(n) \in Seq(Int) /\ Len(Numbers(n)) = n
<1>1. Numbers(n) \in [1 .. n -> Int]
  BY DEF Numbers
<1>2. QED
  BY <1>1, IsSequence

LEMMA LegacyCellsAre ==
    /\ LegacyMeta \in AMeta
    /\ LegacyCells = Stream(LegacyMeta, Numbers(Legacy), NoTrailer)
    /\ LegacyCells \in Seq(ACell)
    /\ \A U : GenuineCells(U, LegacyCells)
<1> DEFINE a == <<MetaCell(LegacyMeta)>>
           b == DataCells(Numbers(Legacy))
           c == PadCells(LegacyMeta.pad)
<1>1. LegacyMeta \in AMeta /\ LegacyMeta.pad = 0
  BY Blanks DEF LegacyMeta, Meta, AMeta
<1>2. a \in Seq(ACell)
  BY <1>1, CellsIs
<1>3. b \in Seq(ACell)
  BY NumbersAre, DataCellsIs, ContainerAssumption
<1>4. c = <<>>
  <2>1. c \in Seq(ACell) /\ Len(c) = 0
    BY <1>1, PadCellsIs
  <2>2. QED
    BY <2>1, EmptyHasNone
<1>5. LegacyCells = a \o b
  BY DEF LegacyCells, LegacyMeta
<1>6. Stream(LegacyMeta, Numbers(Legacy), NoTrailer) = ((a \o b) \o <<>>) \o <<>>
  BY <1>4 DEF Stream, TrailerPart
<1>7. ASSUME NEW U PROVE a \o b \in Seq(ACell) /\ GenuineCells(U, a \o b)
  <2>1. GenuineCells(U, a) /\ GenuineCells(U, b)
    BY <1>1, NumbersAre, GenuineKinds, ContainerAssumption
  <2> HIDE DEF a, b
  <2>2. QED
    BY <1>2, <1>3, <2>1, GenuineParts
<1>8. a \o b \in Seq(ACell)
  BY <1>7
<1> DEFINE d == a \o b
<1>9. d \in Seq(ACell)
  BY <1>8
<1> HIDE DEF a, b, c, d
<1>10. d \o <<>> = d
  BY ONLY <1>9, EmptyConcat
<1>11. QED
  BY <1>1, <1>5, <1>6, <1>7, <1>8, <1>10 DEF d

LEMMA LegacyFileIs ==
    ASSUME NEW ver \in {"v5", "v6"}
    PROVE  /\ LegacyHdr(ver) \in AHeader /\ LegacyHdr(ver).ver = ver
           /\ LegacyHdr(ver).recs # <<>> /\ LegacyHdr(ver).recs[1].to = "A"
           /\ LegacyFile(ver) \in AFile
           /\ LegacyFile(ver).kind = "cont"
           /\ LegacyFile(ver) = Cont(LegacyHdr(ver), LegacyFile(ver).frames)
           /\ Sealed(LegacyFile(ver).frames, LegacyHdr(ver), LegacyCells)
           /\ \A U : GenuineFile(U, LegacyFile(ver))
<1> DEFINE h == LegacyHdr(ver)
           fr == IF ver = "v6" THEN SealStream(Cek, h, LegacyCells)
                 ELSE <<Frame(Cek, 0, TRUE, h, LegacyCells)>>
<1>1. /\ h \in AHeader /\ h.ver = ver /\ h.recs # <<>> /\ h.recs[1].to = "A"
  <2> DEFINE r == Record("A", Cek)
  <2>1. r \in [to : {"A", "B"}, cek : {Cek}] /\ r.to = "A"
    BY DEF Record
  <2> HIDE DEF r
  <2>2. <<r>> \in Seq([to : {"A", "B"}, cek : {Cek}]) /\ <<r>> # <<>> /\ <<r>>[1] = r
    BY <2>1
  <2>3. h = Header(ver, <<r>>)
    BY DEF LegacyHdr, r
  <2>4. QED
    BY <2>1, <2>2, <2>3 DEF Header, AHeader
<1>2. LegacyFile(ver) = Cont(h, fr)
  BY DEF LegacyFile, LegacyHdr
<1> HIDE DEF h
<1>3. ASSUME ver = "v6"
      PROVE  fr \in Seq(AFrame) /\ Sealed(fr, h, LegacyCells)
             /\ \A U : \A i \in 1 .. Len(fr) : GenuineCells(U, fr[i].body)
  <2>1. fr = SealStream(Cek, h, LegacyCells)
    BY <1>3
  <2> HIDE DEF fr
  <2>2. fr \in Seq(AFrame) /\ Sealed(fr, h, LegacyCells)
        /\ \A U : \A i \in 1 .. Len(fr) : GenuineCells(U, fr[i].body)
    BY <1>1, <1>3, <2>1, LegacyCellsAre, SealStreamIs
  <2>3. QED
    BY <2>2
<1>4. ASSUME ver = "v5"
      PROVE  fr \in Seq(AFrame) /\ Sealed(fr, h, LegacyCells)
             /\ \A U : \A i \in 1 .. Len(fr) : GenuineCells(U, fr[i].body)
  <2> DEFINE z == Frame(Cek, 0, TRUE, h, LegacyCells)
  <2>1. z \in AFrame /\ z.body = LegacyCells
    BY <1>1, LegacyCellsAre DEF Frame, AFrame
  <2>2. fr = <<z>>
    BY <1>4
  <2>3. Sealed(<<z>>, h, LegacyCells)
    BY <1>1, <1>4 DEF Sealed
  <2> HIDE DEF z, fr
  <2>4. fr \in Seq(AFrame) /\ Len(fr) = 1 /\ fr[1] = z
    BY <2>1, <2>2
  <2>5. \A U : \A i \in 1 .. Len(fr) : GenuineCells(U, fr[i].body)
    BY <2>1, <2>4, LegacyCellsAre
  <2>6. QED
    BY <2>2, <2>3, <2>4, <2>5
<1> DEFINE f == LegacyFile(ver)
<1> HIDE DEF fr, f
<1>5. fr \in Seq(AFrame) /\ Sealed(fr, h, LegacyCells)
      /\ \A U : \A i \in 1 .. Len(fr) : GenuineCells(U, fr[i].body)
  BY <1>3, <1>4
<1>6. f = Cont(h, fr)
  BY <1>2 DEF f
<1>7. f \in AFile /\ f.kind = "cont" /\ f.frames = fr
  BY <1>1, <1>5, <1>6, FilesAre
<1>8. \A U : GenuineFile(U, f)
  BY <1>5, <1>7 DEF GenuineFile
<1>9. f = Cont(h, f.frames) /\ Sealed(f.frames, h, LegacyCells)
  BY <1>5, <1>6, <1>7
<1>10. QED
  BY <1>1, <1>7, <1>8, <1>9 DEF f, h

LEMMA InitIs ==
    ASSUME Init
    PROVE  /\ FilesOk(fs, {}) /\ truth \in Seq(Int)
           /\ fs["tmp"] = NoFile /\ fs["pipe"] = NoFile /\ Untouched(fs["res"])
           /\ \E n \in Lengths : fs["in"] = Plain(Numbers(n))
           /\ \/ Untouched(fs["out"]) /\ truth = <<>>
              \/ /\ fs["out"] \in {LegacyFile("v5"), LegacyFile("v6")}
                 /\ truth = Numbers(Legacy)
<1>1. PICK n \in Lengths, old \in {NoFile, OldFile} :
         \E out \in {old, LegacyFile("v5"), LegacyFile("v6")} :
          /\ fs = [name \in Name |-> CASE name = "in" -> Plain(Numbers(n))
                                       [] name = "out" -> out
                                       [] name = "res" -> old
                                       [] OTHER -> NoFile]
          /\ truth = IF out.kind = "cont" THEN Numbers(Legacy) ELSE <<>>
  BY DEF Init
<1>2. PICK out \in {old, LegacyFile("v5"), LegacyFile("v6")} :
          /\ fs = [name \in Name |-> CASE name = "in" -> Plain(Numbers(n))
                                       [] name = "out" -> out
                                       [] name = "res" -> old
                                       [] OTHER -> NoFile]
          /\ truth = IF out.kind = "cont" THEN Numbers(Legacy) ELSE <<>>
  BY <1>1
<1>3. n \in Nat /\ Numbers(n) \in Seq(Int) /\ Numbers(Legacy) \in Seq(Int) /\ <<>> \in Seq(Int)
  BY NumbersAre, ContainerAssumption, EmptySeq
<1>4. /\ Plain(Numbers(n)) \in AFile /\ GenuineFile({}, Plain(Numbers(n)))
      /\ NoFile \in AFile /\ GenuineFile({}, NoFile)
      /\ old \in AFile /\ GenuineFile({}, old) /\ old.kind # "cont"
  BY <1>3, FilesAre, EmptyGenuine
<1>5. LegacyFile("v5") \in AFile /\ GenuineFile({}, LegacyFile("v5"))
      /\ LegacyFile("v5").kind = "cont"
  BY LegacyFileIs
<1>6. LegacyFile("v6") \in AFile /\ GenuineFile({}, LegacyFile("v6"))
      /\ LegacyFile("v6").kind = "cont"
  BY LegacyFileIs
<1>7. out \in AFile /\ GenuineFile({}, out)
  BY <1>4, <1>5, <1>6
<1>8. /\ fs["in"] = Plain(Numbers(n)) /\ fs["out"] = out /\ fs["res"] = old
      /\ fs["tmp"] = NoFile /\ fs["pipe"] = NoFile
  BY <1>2 DEF Name
<1>9. fs \in [Name -> AFile]
  <2>1. DOMAIN fs = Name /\ fs = [x \in Name |-> fs[x]]
    BY <1>2
  <2>2. \A x \in Name : fs[x] \in AFile
    BY <1>4, <1>7, <1>8 DEF Name
  <2>3. QED
    BY <2>1, <2>2
<1>10. \A x \in Name : GenuineFile({}, fs[x])
  BY <1>4, <1>7, <1>8 DEF Name
<1>11. truth \in Seq(Int)
  BY <1>2, <1>3
<1>12. \/ Untouched(fs["out"]) /\ truth = <<>>
       \/ fs["out"] \in {LegacyFile("v5"), LegacyFile("v6")} /\ truth = Numbers(Legacy)
  BY <1>2, <1>4, <1>5, <1>6, <1>8 DEF Untouched
<1>13. QED
  BY <1>8, <1>9, <1>10, <1>11, <1>12 DEF FilesOk, Untouched

LEMMA BaseInit ==
    ASSUME Init
    PROVE  BaseInv
<1>1. /\ pc = "idle" /\ cmd = NoCmd /\ enc = NoEnc /\ sink = NoSink /\ said = {}
      /\ cmd.op = "none"
  BY DEF Init, NoCmd
<1>2. FilesOk(fs, {}) /\ truth \in Seq(Int) /\ Untouched(fs["res"])
  BY InitIs
<1>3. Types
  BY <1>1, <1>2, NoEncIs, NoSinkIs DEF Types, FilesOk
<1>4. Genuine(said, enc.trailer) /\ GenuineCells(said, sink.tbuf)
  BY <1>1, NoEncIs, NoSinkIs, NoCells, GenuineKinds
<1>5. SaidInv
  BY <1>1, <1>2, <1>4 DEF SaidInv, FilesOk
<1>6. Phases /\ DecInv
  BY <1>1, <1>2 DEF Phases, DecInv
<1>7. QED
  BY <1>3, <1>5, <1>6 DEF BaseInv

LEMMA BaseUnchanged ==
    ASSUME BaseInv, UNCHANGED vars
    PROVE  BaseInv'
<1>1. UNCHANGED <<fs, pc, cmd, enc, sink, rc, faults, said, truth, touched>>
  BY DEF vars
<1>2. Types' /\ SaidInv' /\ Phases'
  BY <1>1 DEF BaseInv, Types, SaidInv, Phases, Encrypting
<1>3. Stored' = Stored /\ (Passed' <=> Passed)
  BY <1>1 DEF Stored, Source, Dearmor, Passed, FinishRc
<1>4. DecInv'
  BY <1>1, <1>3 DEF BaseInv, DecInv, Decrypting
<1>5. QED
  BY <1>2, <1>4 DEF BaseInv

LEMMA BaseStep ==
    ASSUME BaseInv, [Next]_vars
    PROVE  BaseInv'
<1>1. CASE \E c \in Encryption : EncBegin(c)
  BY <1>1, BaseEncBegin
<1>2. CASE \E c \in Decryption : DecBegin(c)
  BY <1>2, BaseDecBegin
<1>3. CASE EncOpen \/ EncFrame \/ EncClose \/ Armor
  BY <1>3, BaseEncOpen, BaseEncFrame, BaseEncClose, BaseArmor
<1>4. CASE DecFrame \/ DecChunk \/ DecFinish \/ DecClose
  BY <1>4, BaseDecFrame, BaseDecChunk, BaseDecFinish, BaseDecClose
<1>5. CASE EncFlushLost \/ EncFault \/ ArmorFails \/ DecFlushLost \/ DecFault
  BY <1>5, BaseEncFlushLost, BaseEncFault, BaseArmor, BaseDecClose, BaseDecFault
<1>6. CASE InputChanges \/ Crash \/ Tamper
  BY <1>6, BaseInputChanges, BaseCrash, BaseTamper
<1>7. CASE UNCHANGED vars
  BY <1>7, BaseUnchanged
<1>8. QED
  BY <1>1, <1>2, <1>3, <1>4, <1>5, <1>6, <1>7 DEF Next, Step

(* What is said to be signed by S was signed by S: in the files, in what   *)
(* crypto_encrypt_file has made and in what the sink has kept.             *)
THEOREM BaseAlways == Spec => []BaseInv
<1>1. Init => BaseInv
  BY BaseInit
<1>2. BaseInv /\ [Next]_vars => BaseInv'
  BY BaseStep
<1>3. QED
  BY <1>1, <1>2, PTL DEF Spec

(* dec_sink_finish has accepted a signature. *)
LEMMA AcceptedIsSaid ==
    ASSUME BaseInv, Passed, IsV7(sink), sink.meta.signed, TrailerOf(sink).pk = "S"
    PROVE  Trailer("S", "S", sink.hdr, sink.meta, sink.data) \in said
<1> DEFINE t == TrailerOf(sink)
<1>1. FinishRc(sink) = "ok"
  BY DEF Passed
<1>2. LayoutOk(sink) /\ SignatureOk(t, sink.hdr, sink.meta, sink.data)
  BY <1>1 DEF FinishRc
<1>3. t = sink.tbuf[1].trailer
  BY Blanks DEF TrailerOf
<1>4. sink \in ASink /\ sink.tbuf \in Seq(ACell) /\ GenuineCells(said, sink.tbuf)
  BY BaseFacts, SinkFields DEF BaseInv, SaidInv
<1>5. 1 \in 1 .. Len(sink.tbuf)
  BY <1>2, FramesAssumption DEF LayoutOk
<1>6. t \in ATrailer /\ Genuine(said, t)
  <2>1. sink.tbuf[1] \in ACell
    BY <1>4, <1>5, EmptyHasNone
  <2>2. QED
    BY <1>3, <1>4, <1>5, <2>1 DEF ACell, GenuineCells
<1> HIDE DEF t
<1>7. t.pk = "S" /\ t.by = "S" /\ t.hdr = sink.hdr /\ t.meta = sink.meta /\ t.data = sink.data
  BY <1>2 DEF SignatureOk, t
<1>8. t = [pk |-> t.pk, by |-> t.by, hdr |-> t.hdr, meta |-> t.meta, data |-> t.data]
  BY <1>6 DEF ATrailer
<1>9. t = Trailer("S", "S", sink.hdr, sink.meta, sink.data)
  BY <1>7, <1>8 DEF Trailer
<1>10. QED
  BY <1>6, <1>7, <1>9 DEF Genuine

(* A signature of S that decryption has accepted is S's statement about    *)
(* this header, metadata and contents, and what went into the pipe is what *)
(* was signed: dec_sink_finish checks before success is returned, and      *)
(* nobody who has only the content key can make such a trailer.            *)
THEOREM SignatureIsBinding == Spec => []SignatureBinds
<1>1. ASSUME BaseInv PROVE SignatureBinds
  <2> SUFFICES ASSUME Accepted, IsV7(sink), sink.meta.signed, TrailerOf(sink).pk = "S"
               PROVE  /\ Trailer("S", "S", sink.hdr, sink.meta, sink.data) \in said
                      /\ cmd.to = "pipe" => fs["pipe"].data = sink.data
    BY DEF SignatureBinds
  <2>1. Passed /\ (cmd.to = "pipe" => fs["pipe"].data = sink.data)
    BY <1>1 DEF Accepted, Decrypted, BaseInv, DecInv
  <2>2. QED
    BY <1>1, <2>1, AcceptedIsSaid
<1>2. QED
  BY <1>1, BaseAlways, PTL

(***************************************************************************)
(* crypto_encrypt_file writes the stream, cell by cell.                    *)
(***************************************************************************)
LEMMA TrailerIsSome ==
    ASSUME NEW pk, NEW h, NEW m, NEW d
    PROVE  Trailer(pk, "S", h, m, d) # NoTrailer
<1>1. Trailer(pk, "S", h, m, d).by = "S" /\ NoTrailer.by = "none"
  BY DEF Trailer, NoTrailer
<1>2. QED
  BY <1>1

(* What one pass of the loop does to the numbers. *)
EncMoves(e, G, T, P) ==
    /\ G \in Nat /\ T \in Nat /\ P \in Nat
    /\ G = Len(StGot(e)) /\ T = Len(StSig(e)) /\ P = Len(StPad(e))
    /\ e.done => G = 0 /\ StData(e) = e.data
    /\ e.left # Unknown => G <= e.left
    /\ Len(StData(e)) = Len(e.data) + G
    /\ StTr(e) = IF StDone(e) /\ e.meta.signed
                 THEN Trailer(cmd.sign, "S", e.hdr, e.meta, StData(e)) ELSE NoTrailer
    /\ e.done => StDone(e) /\ StTr(e) = e.trailer
    /\ ~StDone(e) => T = 0 /\ P = 0
    /\ StDone(e) => e.meta.len \in {Unknown, Len(StData(e))}
    /\ e.trailer_off + T <= Len(TrailerPart(StTr(e)))
    /\ P > 0 => e.trailer_off + T = Len(TrailerPart(StTr(e)))
    /\ e.pad_left < e.meta.pad => T = 0 /\ e.trailer_off = Len(TrailerPart(StTr(e)))
    /\ P <= e.pad_left

LEMMA EncMovesIs ==
    ASSUME NEW e \in AnEnc, fs["in"] \in AFile, cmd \in Encryption, EncParts(cmd, e),
           ~(e.left # Unknown /\ Len(StGot(e)) < StWant(e))
    PROVE  EncMoves(e, Len(StGot(e)), Len(StSig(e)), Len(StPad(e)))
<1> DEFINE G == Len(StGot(e))
           T == Len(StSig(e))
           P == Len(StPad(e))
           w == StWant(e)
           TT == Len(TrailerPart(StTr(e)))
<1>1. /\ e.meta \in AMeta /\ e.left \in Int /\ e.pos \in Nat /\ e.done \in BOOLEAN
      /\ e.trailer \in ATrailer /\ e.trailer_off \in Nat /\ e.pad_left \in Nat
      /\ e.data \in Seq(Int) /\ Len(e.data) \in Nat /\ e.hdr \in AHeader
  BY EncFields
<1>2. e.meta.len \in Int /\ e.meta.pad \in Nat /\ e.meta.signed \in BOOLEAN
  BY <1>1 DEF AMeta
<1>3. /\ G \in Nat /\ w \in Int /\ (G <= w \/ G = 0) /\ StRoom(e) \in Nat /\ w <= StRoom(e)
      /\ StGot(e) \in Seq(Int)
  BY StGotIs
<1>4. /\ T \in Nat /\ StDone(e) \in BOOLEAN /\ StTr(e) \in ATrailer
      /\ StData(e) \in Seq(Int) /\ Len(StData(e)) = Len(e.data) + G
      /\ e.trailer_off <= TT => e.trailer_off + T <= TT
  BY StSigIs
<1>5. P \in Nat /\ P <= e.pad_left /\ (~(StDone(e) /\ StFull(e)) => P = 0)
  BY StPadIs
<1>6. e.done => w = 0
  BY DEF StWant
<1>7. e.done => G = 0
  BY <1>3, <1>6
<1>8. e.done => StData(e) = e.data
  <2>1. ASSUME e.done PROVE e.data \o StGot(e) = e.data
    <3>1. StGot(e) = <<>>
      BY <1>3, <1>7, <2>1, EmptyHasNone
    <3>2. QED
      BY <1>1, <3>1, EmptyConcat
  <2>2. QED
    BY <2>1 DEF StData
<1>9. e.left # Unknown => w = IF e.done THEN 0 ELSE IF StRoom(e) <= e.left THEN StRoom(e) ELSE e.left
  BY <1>1, <1>3, MinOfTwo DEF StWant
<1>10. /\ e.left = IF e.meta.len = Unknown THEN Unknown ELSE e.meta.len - Len(e.data)
       /\ e.meta.len # Unknown => e.left >= 0
  BY DEF EncParts
<1>11. Unknown = -1
  BY DEF Unknown
<1>12. e.left # Unknown => G <= e.left
  BY <1>1, <1>2, <1>3, <1>7, <1>9, <1>10, <1>11
<1>13. e.done => StDone(e)
  BY DEF StDone
<1>14. e.trailer = IF e.done /\ e.meta.signed
                   THEN Trailer(cmd.sign, "S", e.hdr, e.meta, e.data) ELSE NoTrailer
  BY DEF EncParts
<1>15. StTr(e) = IF StDone(e) /\ e.meta.signed
                 THEN Trailer(cmd.sign, "S", e.hdr, e.meta, StData(e)) ELSE NoTrailer
  <2>1. CASE ~StDone(e) \/ ~e.meta.signed
    BY <2>1 DEF StTr
  <2>2. CASE StDone(e) /\ e.meta.signed /\ e.trailer # NoTrailer
    <3>1. e.done /\ StTr(e) = e.trailer
      BY <1>14, <2>2 DEF StTr
    <3>2. QED
      BY <1>8, <1>14, <2>2, <3>1
  <2>3. CASE StDone(e) /\ e.meta.signed /\ e.trailer = NoTrailer
    BY <2>3 DEF StTr
  <2>4. QED
    BY <2>1, <2>2, <2>3
<1>16. e.done => StTr(e) = e.trailer
  BY <1>8, <1>13, <1>14, <1>15
<1>17. ~StDone(e) => T = 0 /\ P = 0
  <2>1. ASSUME ~StDone(e) PROVE StSig(e) = <<>>
    BY <1>15, <2>1 DEF StSig
  <2>2. Len(<<>>) = 0
    BY EmptyHasNone
  <2>3. QED
    BY <1>5, <2>1, <2>2
<1>18. StDone(e) => e.meta.len \in {Unknown, Len(StData(e))}
  <2>1. CASE e.done
    BY <1>8, <2>1 DEF EncParts
  <2>2. CASE ~e.done /\ e.left = Unknown
    BY <1>1, <1>2, <1>10, <1>11, <2>2
  <2>3. CASE ~e.done /\ e.left # Unknown
    <3>1. StDone(e) => e.left = G
      BY <2>3 DEF StDone
    <3>2. e.meta.len # Unknown /\ e.left = e.meta.len - Len(e.data)
      BY <1>10, <2>3
    <3>3. e.left = G => e.meta.len = Len(e.data) + G
      <4> DEFINE a == e.meta.len
                 b == Len(e.data)
                 l == e.left
                 g == G
      <4>1. a \in Int /\ b \in Nat /\ g \in Nat /\ l = a - b
        BY <1>1, <1>2, <1>3, <3>2
      <4> HIDE DEF a, b, l, g
      <4>2. l = g => a = b + g
        BY <4>1
      <4>3. QED
        BY <4>2 DEF a, b, l, g
    <3>4. QED
      BY <1>4, <3>1, <3>3
  <2>4. QED
    BY <1>1, <2>1, <2>2, <2>3
<1>19. e.trailer_off <= Len(TrailerPart(e.trailer)) /\ Len(TrailerPart(NoTrailer)) = 0
  BY Blanks, TrailerPartIs DEF EncParts
<1>20. TT \in Nat /\ TT = IF StTr(e) = NoTrailer THEN 0 ELSE TrailerSize
  BY <1>4, TrailerPartIs, FramesAssumption
<1>21. e.trailer_off <= TT
  BY <1>1, <1>14, <1>16, <1>19, <1>20
<1>22. e.trailer_off + T <= TT
  BY <1>4, <1>21
<1>23. P > 0 => e.trailer_off + T = TT
  <2>1. SUFFICES ASSUME P > 0 PROVE e.trailer_off + T = TT
    OBVIOUS
  <2>2. StDone(e) /\ StFull(e)
    BY <1>5, <2>1
  <2>3. CASE e.meta.signed
    BY <1>15, <1>20, <2>2, <2>3, TrailerIsSome DEF StFull
  <2>4. CASE ~e.meta.signed
    BY <1>1, <1>4, <1>15, <1>20, <1>22, <2>4
  <2>5. QED
    BY <1>2, <2>3, <2>4
<1>24. e.pad_left < e.meta.pad => T = 0 /\ e.trailer_off = TT
  <2>1. SUFFICES ASSUME e.pad_left < e.meta.pad PROVE T = 0 /\ e.trailer_off = TT
    OBVIOUS
  <2>2. e.done /\ e.trailer_off = Len(TrailerPart(e.trailer))
    BY <1>1, <1>2, <2>1 DEF EncParts
  <2>3. QED
    BY <1>1, <1>4, <1>16, <1>20, <1>22, <2>2
<1> HIDE DEF G, T, P, w, TT
<1>25. QED
  BY <1>3, <1>4, <1>5, <1>7, <1>8, <1>12, <1>13, <1>15, <1>16, <1>17, <1>18, <1>22, <1>23, <1>24
     DEF EncMoves, G, T, P, TT

LEMMA EncPartsKept ==
    ASSUME NEW e \in AnEnc, fs["in"] \in AFile, cmd \in Encryption, EncParts(cmd, e),
           ~(e.left # Unknown /\ Len(StGot(e)) < StWant(e))
    PROVE  EncParts(cmd, Stage(e).next)
<1> DEFINE G == Len(StGot(e))
           T == Len(StSig(e))
           P == Len(StPad(e))
           n == Stage(e).next
           TT == Len(TrailerPart(StTr(e)))
<1>1. EncMoves(e, G, T, P)
  BY EncMovesIs
<1>2. /\ n \in AnEnc
      /\ n.hdr = e.hdr /\ n.meta = e.meta /\ n.ctr = e.ctr + 1
      /\ n.left = IF e.left = Unknown THEN Unknown ELSE e.left - G
      /\ n.pos = e.pos + G /\ n.done = StDone(e) /\ n.trailer = StTr(e)
      /\ n.trailer_off = e.trailer_off + T
      /\ n.pad_left = e.pad_left - P
      /\ n.data = StData(e)
  BY StNextIs
<1>3. /\ e.meta \in AMeta /\ e.left \in Int /\ e.pos \in Nat /\ e.done \in BOOLEAN
      /\ e.trailer_off \in Nat /\ e.pad_left \in Nat /\ Len(e.data) \in Nat
  BY EncFields
<1>4. e.meta.len \in Int /\ e.meta.pad \in Nat /\ e.meta.signed \in BOOLEAN
  BY <1>3 DEF AMeta
<1>5. StDone(e) \in BOOLEAN /\ StTr(e) \in ATrailer
  BY StSigIs
<1>6. TT \in Nat
  BY <1>5, TrailerPartIs, FramesAssumption
<1>7. Unknown = -1
  BY DEF Unknown
<1> HIDE DEF G, T, P, n
<1>8. EncLayout(cmd, n)
  BY <1>2 DEF EncParts, EncLayout
<1>9. n.pos = Len(n.data)
  BY <1>1, <1>2 DEF EncParts, EncMoves
<1>10. /\ n.left = IF n.meta.len = Unknown THEN Unknown ELSE n.meta.len - Len(n.data)
       /\ n.meta.len # Unknown => n.left >= 0
  <2> DEFINE a == e.meta.len
             b == Len(e.data)
             c == Len(StData(e))
             l == e.left
             k == n.left
  <2>1. /\ a \in Int /\ b \in Nat /\ l \in Int /\ G \in Nat
        /\ c = b + G /\ (l # Unknown => G <= l)
        /\ l = IF a = Unknown THEN Unknown ELSE a - b
        /\ a # Unknown => l >= 0
        /\ k = IF l = Unknown THEN Unknown ELSE l - G
    BY <1>1, <1>2, <1>3, <1>4 DEF EncParts, EncMoves
  <2> HIDE DEF a, b, c, l, k
  <2>2. k = (IF a = Unknown THEN Unknown ELSE a - c) /\ (a # Unknown => k >= 0)
    BY <1>7, <2>1
  <2>3. QED
    BY <1>2, <2>2 DEF a, c, k
<1>11. n.trailer = IF n.done /\ n.meta.signed
                   THEN Trailer(cmd.sign, "S", n.hdr, n.meta, n.data) ELSE NoTrailer
  BY <1>1, <1>2 DEF EncMoves
<1>12. n.trailer_off <= Len(TrailerPart(n.trailer))
  BY <1>1, <1>2 DEF EncMoves
<1>13. n.pad_left <= n.meta.pad
  BY <1>1, <1>2, <1>3, <1>4 DEF EncMoves, EncParts
<1>14. ~n.done => n.trailer_off = 0 /\ n.pad_left = n.meta.pad
  <2>1. SUFFICES ASSUME ~n.done PROVE n.trailer_off = 0 /\ n.pad_left = n.meta.pad
    OBVIOUS
  <2>2. T = 0 /\ P = 0 /\ ~e.done
    BY <1>1, <1>2, <2>1 DEF EncMoves
  <2>3. e.trailer_off = 0 /\ e.pad_left = e.meta.pad
    BY <2>2 DEF EncParts
  <2>4. n.trailer_off = 0 + 0 /\ n.pad_left = e.meta.pad - 0
    BY <1>2, <2>2, <2>3
  <2>5. QED
    BY <1>2, <1>4, <2>4
<1>15. n.done => n.meta.len \in {Unknown, Len(n.data)}
  BY <1>1, <1>2 DEF EncMoves
<1>16. n.pad_left < n.meta.pad => n.trailer_off = Len(TrailerPart(n.trailer))
  <2>1. CASE P > 0
    BY <1>1, <1>2, <2>1 DEF EncMoves
  <2>2. CASE P = 0
    <3>1. n.pad_left = e.pad_left
      BY <1>2, <1>3, <2>2
    <3>2. QED
      BY <1>1, <1>2, <1>3, <3>1 DEF EncMoves
  <2>3. QED
    BY <1>1, <2>1, <2>2 DEF EncMoves
<1>17. EncParts(cmd, n)
  BY <1>8, <1>9, <1>10, <1>11, <1>12, <1>13, <1>14, <1>15, <1>16 DEF EncParts
<1>18. QED
  BY <1>17 DEF n

(* Cells written, before and after. *)
LEMMA EncUsedIs ==
    ASSUME NEW e \in AnEnc, fs["in"] \in AFile, cmd \in Encryption, EncParts(cmd, e),
           EncFilled(e), ~(e.left # Unknown /\ Len(StGot(e)) < StWant(e))
    PROVE  /\ EncUsed(e) \in Nat
           /\ EncUsed(e) = e.ctr * FrameSize + Len(StMeta(e))
           /\ EncUsed(Stage(e).next) = e.ctr * FrameSize + Len(StBody(e))
           /\ EncUsed(Stage(e).next) = EncUsed(e) + Len(StGot(e)) + Len(StSig(e)) + Len(StPad(e))
           /\ (e.ctr + 1) * FrameSize = e.ctr * FrameSize + FrameSize
           /\ Len(StBody(e)) = FrameSize => EncFilled(Stage(e).next)
<1> DEFINE G == Len(StGot(e))
           T == Len(StSig(e))
           P == Len(StPad(e))
           M == Len(StMeta(e))
           B == Len(StBody(e))
           n == Stage(e).next
           u == e.ctr * FrameSize
<1>1. EncMoves(e, G, T, P)
  BY EncMovesIs
<1>2. /\ n.meta = e.meta /\ n.ctr = e.ctr + 1
      /\ n.trailer_off = e.trailer_off + T
      /\ n.pad_left = e.pad_left - P
      /\ n.data = StData(e)
  BY StNextIs
<1>3. /\ e.meta \in AMeta /\ e.ctr \in Nat /\ e.done \in BOOLEAN
      /\ e.trailer_off \in Nat /\ e.pad_left \in Nat /\ Len(e.data) \in Nat
  BY EncFields
<1>4. e.meta.pad \in Nat
  BY <1>3 DEF AMeta
<1>5. M = IF e.ctr = 0 THEN 1 ELSE 0
  BY StGotIs
<1>6. B = M + G + T + P
  BY StBodyIs
<1>7. u \in Nat /\ (e.ctr + 1) * FrameSize = u + FrameSize /\ (e.ctr = 0 => u = 0)
  <2> DEFINE c == e.ctr
             j == c + 1
  <2>1. c \in Nat
    BY <1>3
  <2> HIDE DEF c
  <2>2. j \in Nat \ {0} /\ j - 1 = c
    BY <2>1
  <2> HIDE DEF j
  <2>3. (j - 1) * FrameSize \in Nat /\ j * FrameSize = (j - 1) * FrameSize + FrameSize
    BY <2>2, FrameStarts
  <2>4. e.ctr = 0 => u = 0
    BY FrameSizeIs
  <2>5. QED
    BY <2>2, <2>3, <2>4 DEF j, c
<1>8. e.pad_left <= e.meta.pad /\ (~e.done => e.trailer_off = 0 /\ e.pad_left = e.meta.pad)
  BY DEF EncParts
<1>9. EncUsed(e) \in Nat
  BY <1>3, <1>4, <1>8 DEF EncUsed
<1>10. Len(<<>>) = 0
  BY EmptyHasNone
<1>11. EncUsed(e) = u + M
  <2>1. CASE e.ctr = 0
    BY <1>3, <1>4, <1>5, <1>7, <1>8, <1>10, <2>1 DEF EncFilled, EncUsed
  <2>2. CASE e.ctr # 0
    BY <1>5, <1>9, <2>2 DEF EncFilled
  <2>3. QED
    BY <2>1, <2>2
<1> HIDE DEF G, T, P, M, B, n, u
<1>12. G \in Nat /\ T \in Nat /\ P \in Nat /\ Len(StData(e)) = Len(e.data) + G
  BY <1>1 DEF EncMoves
<1>13. EncUsed(n) = EncUsed(e) + G + T + P
  <2> DEFINE a == Len(e.data)
             b == e.trailer_off
             c == e.meta.pad
             d == e.pad_left
  <2>1. a \in Nat /\ b \in Nat /\ c \in Nat /\ d \in Nat
    BY <1>3, <1>4
  <2>2. EncUsed(e) = 1 + a + b + (c - d)
    BY DEF EncUsed
  <2>3. EncUsed(n) = 1 + (a + G) + (b + T) + (c - (d - P))
    BY <1>2, <1>12 DEF EncUsed
  <2> HIDE DEF a, b, c, d
  <2>4. QED
    BY <1>12, <2>1, <2>2, <2>3
<1>14. EncUsed(n) = u + B
  BY <1>5, <1>6, <1>7, <1>11, <1>12, <1>13
<1>15. ASSUME B = FrameSize PROVE EncFilled(n)
  <2>1. n.ctr # 0 /\ n.ctr * FrameSize = EncUsed(n)
    BY <1>2, <1>3, <1>7, <1>14, <1>15
  <2>2. QED
    BY <2>1 DEF EncFilled
<1>16. QED
  BY <1>7, <1>9, <1>11, <1>13, <1>14, <1>15 DEF G, T, P, M, B, n, u

(* What was written stays part of the stream when more is read. *)
LEMMA StreamKept ==
    ASSUME NEW e \in AnEnc, fs["in"] \in AFile, cmd \in Encryption, EncParts(cmd, e),
           ~(e.left # Unknown /\ Len(StGot(e)) < StWant(e)), NEW k \in 1 .. EncUsed(e)
    PROVE  /\ Stream(e.meta, StData(e), StTr(e))[k] = Stream(e.meta, e.data, e.trailer)[k]
           /\ k <= Len(Stream(e.meta, e.data, e.trailer))
<1> DEFINE m == e.meta
           d == e.data
           t == e.trailer
           d2 == StData(e)
           t2 == StTr(e)
           L == Len(d)
           T == Len(TrailerPart(t))
<1>1. EncMoves(e, Len(StGot(e)), Len(StSig(e)), Len(StPad(e)))
  BY EncMovesIs
<1>2. /\ m \in AMeta /\ d \in Seq(Int) /\ t \in ATrailer /\ e.done \in BOOLEAN
      /\ e.trailer_off \in Nat /\ e.pad_left \in Nat /\ L \in Nat
  BY EncFields
<1>3. m.pad \in Nat
  BY <1>2 DEF AMeta
<1>4. d2 \in Seq(Int) /\ t2 \in ATrailer
  BY StSigIs
<1>5. T \in Nat
  BY <1>2, TrailerPartIs, FramesAssumption
<1>6. /\ e.pad_left <= m.pad /\ e.trailer_off <= T
      /\ ~e.done => e.trailer_off = 0 /\ e.pad_left = m.pad
      /\ e.done => d2 = d /\ t2 = t
  BY <1>1 DEF EncParts, EncMoves
<1>7. EncUsed(e) = 1 + L + e.trailer_off + (m.pad - e.pad_left)
  BY DEF EncUsed
<1>8. d2 = d \o StGot(e) /\ StGot(e) \in Seq(Int)
  BY StGotIs DEF StData
<1> HIDE DEF m, d, t, d2, t2, L, T
<1>9. /\ Len(Stream(m, d, t)) = 1 + L + T + m.pad
      /\ Stream(m, d, t)[1] = MetaCell(m)
      /\ \A i \in 1 .. L : Stream(m, d, t)[1 + i] = DataCell(d[i])
  <2>1. /\ Len(Stream(m, d, t)) = 1 + Len(d) + Len(TrailerPart(t)) + m.pad
        /\ Stream(m, d, t)[1] = MetaCell(m)
        /\ \A i \in 1 .. Len(d) : Stream(m, d, t)[1 + i] = DataCell(d[i])
    BY <1>2, StreamIs
  <2>2. QED
    BY <2>1 DEF L, T
<1>10. k <= Len(Stream(m, d, t)) /\ k \in Nat \ {0}
  BY <1>2, <1>3, <1>5, <1>6, <1>7, <1>9, SMTT(30)
<1>11. Stream(m, d2, t2)[k] = Stream(m, d, t)[k]
  <2>1. CASE e.done
    BY <1>6, <2>1
  <2>2. CASE ~e.done
    <3>1. k \in 1 .. 1 + L
      BY <1>2, <1>3, <1>6, <1>7, <2>2
    <3> DEFINE g == StGot(e)
    <3>2. d2 = d \o g /\ g \in Seq(Int)
      BY <1>8
    <3> HIDE DEF g
    <3>3. Len(d \o g) = Len(d) + Len(g) /\ Len(g) \in Nat /\ \A i \in 1 .. Len(d) : (d \o g)[i] = d[i]
      BY <1>2, <3>2, ConcatIs, LenProperties
    <3>4. Len(d2) = L + Len(g) /\ \A i \in 1 .. L : d2[i] = d[i]
      BY <3>2, <3>3 DEF L
    <3>5. /\ Stream(m, d2, t2)[1] = MetaCell(m)
          /\ \A i \in 1 .. Len(d2) : Stream(m, d2, t2)[1 + i] = DataCell(d2[i])
      BY <1>2, <1>4, StreamIs
    <3>6. CASE k = 1
      BY <1>9, <3>5, <3>6
    <3>7. CASE k # 1
      <4> DEFINE i == k - 1
      <4>1. i \in 1 .. L /\ i \in 1 .. Len(d2) /\ k = 1 + i
        BY <1>2, <3>1, <3>3, <3>4, <3>7
      <4> HIDE DEF i
      <4>2. QED
        BY <1>9, <3>4, <3>5, <4>1
    <3>8. QED
      BY <3>6, <3>7
  <2>3. QED
    BY <1>2, <2>1, <2>2
<1>12. QED
  BY <1>10, <1>11 DEF m, d, t, d2, t2

(* A frame holds its part of the stream. *)
LEMMA EncCellsAre ==
    ASSUME NEW e \in AnEnc, fs["in"] \in AFile, cmd \in Encryption, EncParts(cmd, e),
           EncFilled(e), ~(e.left # Unknown /\ Len(StGot(e)) < StWant(e)),
           NEW k \in 1 .. Len(StBody(e))
    PROVE  StBody(e)[k] = Stream(e.meta, StData(e), StTr(e))[e.ctr * FrameSize + k]
<1> DEFINE G == Len(StGot(e))
           T == Len(StSig(e))
           P == Len(StPad(e))
           M == Len(StMeta(e))
           u == e.ctr * FrameSize
           m == e.meta
           d == StData(e)
           t == StTr(e)
           b == StBody(e)
           L == Len(e.data)
           D == Len(d)
           TT == Len(TrailerPart(t))
           o == e.trailer_off
           p == m.pad - e.pad_left
<1>1. EncMoves(e, G, T, P)
  BY EncMovesIs
<1>2. /\ G \in Nat /\ T \in Nat /\ P \in Nat /\ D = L + G
      /\ e.done => G = 0
      /\ ~StDone(e) => T = 0 /\ P = 0
      /\ o + T <= TT
      /\ P > 0 => o + T = TT
      /\ e.pad_left < m.pad => T = 0 /\ o = TT
      /\ P <= e.pad_left
  BY <1>1 DEF EncMoves
<1>3. /\ m \in AMeta /\ e.ctr \in Nat /\ e.done \in BOOLEAN /\ o \in Nat /\ e.pad_left \in Nat
      /\ L \in Nat /\ e.data \in Seq(Int)
  BY EncFields
<1>4. m.pad \in Nat
  BY <1>3 DEF AMeta
<1>5. d \in Seq(Int) /\ t \in ATrailer
  BY StSigIs
<1>6. /\ e.pad_left <= m.pad
      /\ ~e.done => o = 0 /\ e.pad_left = m.pad
  BY DEF EncParts
<1>7. u \in Nat /\ u + M = 1 + L + o + p
  <2>1. EncUsed(e) = u + M /\ EncUsed(e) = 1 + L + o + p
    BY EncUsedIs DEF EncUsed
  <2>2. u \in Nat
    BY <1>3, FrameSizeIs
  <2>3. QED
    BY <2>1, <2>2
<1>8. M = (IF e.ctr = 0 THEN 1 ELSE 0) /\ (M = 1 => StMeta(e) = <<MetaCell(m)>>) /\ (e.ctr = 0 => u = 0)
  <2>1. M = (IF e.ctr = 0 THEN 1 ELSE 0)
    BY StGotIs
  <2>2. e.ctr = 0 => u = 0 /\ StMeta(e) = <<MetaCell(m)>>
    BY FrameSizeIs DEF StMeta
  <2>3. QED
    BY <2>1, <2>2
<1>9. /\ Len(b) = M + G + T + P
      /\ \A i \in 1 .. M : b[i] = StMeta(e)[i]
      /\ \A i \in 1 .. G : b[M + i] = DataCell(StGot(e)[i])
      /\ \A i \in 1 .. T : b[M + G + i] = StSig(e)[i]
      /\ \A i \in 1 .. P : b[M + G + T + i] = StPad(e)[i]
  BY StBodyIs
<1>10. \A i \in 1 .. T : o + i \in 1 .. TT /\ StSig(e)[i] = TrailerPart(t)[o + i]
  BY StSigIs
<1>11. \A i \in 1 .. P : StPad(e)[i] = Cell("pad", 0, NoMeta, NoTrailer)
  BY StPadIs
<1>12. \A i \in 1 .. G : d[L + i] = StGot(e)[i]
  <2> DEFINE x == e.data
             y == StGot(e)
  <2>1. x \in Seq(Int) /\ y \in Seq(Int)
    BY <1>3, StGotIs
  <2>2. d = x \o y
    BY DEF StData
  <2> HIDE DEF x, y, d
  <2>3. \A i \in 1 .. Len(y) : (x \o y)[Len(x) + i] = y[i]
    BY ONLY <2>1, ConcatIs
  <2>4. QED
    BY <2>2, <2>3 DEF x, y
<1> HIDE DEF G, T, P, M, u, d, t, b, L, D, TT, o
<1>13. TT \in Nat
  BY <1>5, TrailerPartIs, FramesAssumption DEF TT
<1>14. /\ Stream(m, d, t)[1] = MetaCell(m)
       /\ \A i \in 1 .. D : Stream(m, d, t)[1 + i] = DataCell(d[i])
       /\ \A i \in 1 .. TT : Stream(m, d, t)[1 + D + i] = TrailerPart(t)[i]
       /\ \A i \in 1 .. m.pad : Stream(m, d, t)[1 + D + TT + i] = Cell("pad", 0, NoMeta, NoTrailer)
  <2>1. m \in AMeta /\ d \in Seq(Int) /\ t \in ATrailer
    BY <1>3, <1>5
  <2>2. QED
    BY ONLY <2>1, StreamIs DEF D, TT
<1>15. k \in 1 .. (M + G + T + P) /\ M \in Nat
  <2>1. k \in 1 .. Len(b)
    BY DEF b
  <2>2. QED
    BY <1>8, <1>9, <2>1
<1> DEFINE x == b[k]
           s == Stream(m, d, t)
           q == m.pad
           z == e.pad_left
<1>15a. /\ q \in Nat /\ z \in Nat /\ z <= q /\ P <= z /\ p = q - z
        /\ z < q => T = 0 /\ o = TT
  BY <1>2, <1>3, <1>4, <1>6
<1> HIDE DEF x, s, q, z, p
<1>15b. T > 0 => p = 0
  BY <1>2, <1>15a
<1>15c. P > 0 => o + T = TT /\ P <= z /\ \A i \in 1 .. P : p + i \in 1 .. q
  BY <1>2, <1>3, <1>15a
<1>15d. p \in Nat /\ q = m.pad
  BY <1>15a DEF q
<1>16. x = s[u + k]
  <2>1. CASE k <= M
    <3>1. M = 1 /\ k = 1 /\ e.ctr = 0 /\ u = 0
      BY <1>8, <1>15, <2>1
    <3>2. b[1] = MetaCell(m)
      BY <1>8, <1>9, <3>1
    <3>3. QED
      BY <1>14, <3>1, <3>2 DEF x, s
  <2>2. CASE k > M /\ k <= M + G
    <3> DEFINE i == k - M
               j == L + i
    <3>1. i \in 1 .. G /\ k = M + i /\ o = 0 /\ p = 0 /\ j \in 1 .. D /\ u + k = 1 + j
      <4>1. G > 0 /\ i \in 1 .. G /\ k = M + i
        BY <1>2, <1>15, <2>2
      <4>2. o = 0 /\ e.pad_left = m.pad
        BY <1>2, <1>3, <1>6, <4>1
      <4>3. p = 0
        BY <1>15a, <4>2 DEF q, z
      <4> HIDE DEF i
      <4>4. QED
        BY <1>2, <1>3, <1>7, <1>15, <4>1, <4>2, <4>3
    <3> HIDE DEF i, j
    <3>2. x = DataCell(StGot(e)[i])
      BY <1>9, <3>1 DEF x
    <3>3. s[1 + j] = DataCell(d[j])
      BY <1>14, <3>1 DEF s
    <3>4. d[j] = StGot(e)[i]
      BY <1>12, <3>1 DEF j
    <3>5. QED
      BY <3>1, <3>2, <3>3, <3>4
  <2>3. CASE k > M + G /\ k <= M + G + T
    <3> DEFINE i == k - (M + G)
               j == o + i
    <3>1. i \in 1 .. T /\ k = M + G + i /\ p = 0 /\ u + k = 1 + D + j
      <4>1. T > 0 /\ i \in 1 .. T /\ k = M + G + i
        BY <1>2, <1>15, <2>3
      <4> HIDE DEF i
      <4>2. p = 0
        BY <1>15b, <4>1
      <4>3. L \in Nat /\ o \in Nat /\ G \in Nat /\ T \in Nat /\ D = L + G
        BY <1>2, <1>3 DEF L, o
      <4>4. k \in Int /\ u \in Nat /\ M \in Nat /\ u + M = 1 + L + o + p /\ i \in Nat
        BY <1>7, <1>15, <4>1
      <4>5. u + k = 1 + D + (o + i)
        BY ONLY <4>1, <4>2, <4>3, <4>4
      <4>6. QED
        BY <4>1, <4>2, <4>5
    <3>1a. j \in 1 .. TT /\ StSig(e)[i] = TrailerPart(t)[j]
      BY <1>10, <3>1
    <3> HIDE DEF i, j
    <3>2. x = StSig(e)[i]
      BY <1>9, <3>1 DEF x
    <3>3. s[1 + D + j] = TrailerPart(t)[j]
      BY <1>14, <3>1a DEF s
    <3>4. QED
      BY <3>1, <3>1a, <3>2, <3>3
  <2>4. CASE k > M + G + T
    <3> DEFINE i == k - (M + G + T)
               j == p + i
    <3>1. i \in 1 .. P /\ k = M + G + T + i /\ o + T = TT /\ j \in 1 .. m.pad /\ u + k = 1 + D + TT + j
      <4>1. P > 0 /\ i \in 1 .. P /\ k = M + G + T + i
        BY <1>2, <1>15, <2>4
      <4> HIDE DEF i
      <4>2. o + T = TT /\ j \in 1 .. q
        BY <1>15c, <4>1
      <4> HIDE DEF j
      <4>3. i \in Nat /\ j \in Int /\ j = p + i
        BY <1>2, <1>15d, <4>1 DEF j
      <4>4. L \in Nat /\ o \in Nat /\ G \in Nat /\ T \in Nat /\ D = L + G
        BY <1>2, <1>3 DEF L, o
      <4>5. k \in Int /\ u \in Nat /\ M \in Nat /\ u + M = 1 + L + o + p /\ k = M + G + T + i
        BY <1>7, <1>15, <4>1
      <4>6. u + k = 1 + D + TT + j
        BY ONLY <1>13, <1>15d, <4>2, <4>3, <4>4, <4>5
      <4>7. QED
        BY <1>15d, <4>1, <4>2, <4>6
    <3> HIDE DEF i, j
    <3>2. x = StPad(e)[i] /\ StPad(e)[i] = Cell("pad", 0, NoMeta, NoTrailer)
      BY <1>9, <1>11, <3>1 DEF x
    <3>3. s[1 + D + TT + j] = Cell("pad", 0, NoMeta, NoTrailer)
      BY <1>14, <3>1 DEF s
    <3>4. QED
      BY <3>1, <3>2, <3>3
  <2>5. QED
    BY <1>2, <1>15, <2>1, <2>2, <2>3, <2>4
<1>17. QED
  BY <1>16 DEF x, s, b, d, t, u

(* A frame that is not full is the last: everything is written. *)
LEMMA EncWhole ==
    ASSUME NEW e \in AnEnc, fs["in"] \in AFile, cmd \in Encryption, EncParts(cmd, e),
           EncFilled(e), ~(e.left # Unknown /\ Len(StGot(e)) < StWant(e)),
           Len(StBody(e)) < FrameSize
    PROVE  /\ StDone(e)
           /\ e.ctr * FrameSize + Len(StBody(e)) = Len(Stream(e.meta, StData(e), StTr(e)))
<1> DEFINE G == Len(StGot(e))
           T == Len(StSig(e))
           P == Len(StPad(e))
           M == Len(StMeta(e))
           R == StRoom(e)
           w == StWant(e)
           n == Stage(e).next
           TT == Len(TrailerPart(StTr(e)))
<1>1. EncMoves(e, G, T, P)
  BY EncMovesIs
<1>2. /\ G \in Nat /\ T \in Nat /\ P \in Nat
      /\ StTr(e) = IF StDone(e) /\ e.meta.signed
                   THEN Trailer(cmd.sign, "S", e.hdr, e.meta, StData(e)) ELSE NoTrailer
      /\ e.trailer_off + T <= TT
      /\ P <= e.pad_left
  BY <1>1 DEF EncMoves
<1>3. /\ e.meta \in AMeta /\ e.left \in Int /\ e.done \in BOOLEAN /\ e.trailer_off \in Nat
      /\ e.pad_left \in Nat /\ Len(e.data) \in Nat /\ e.meta.signed \in BOOLEAN /\ e.meta.pad \in Nat
  BY EncFields DEF AMeta
<1>4. /\ M \in Nat /\ R = FrameSize - M /\ R \in Nat /\ w \in Int /\ w <= R /\ (G <= w \/ G = 0)
  <2>1. M = IF e.ctr = 0 THEN 1 ELSE 0
    BY StGotIs
  <2>2. QED
    BY <2>1, StGotIs DEF StRoom
<1>5. Len(StBody(e)) = M + G + T + P
  BY StBodyIs
<1>6. G + T + P < R
  BY <1>2, <1>4, <1>5, FrameSizeIs
<1>7. w = IF e.done THEN 0 ELSE IF e.left = Unknown THEN R ELSE IF R <= e.left THEN R ELSE e.left
  BY <1>3, <1>4, MinOfTwo DEF StWant
<1>8. /\ Unknown = -1
      /\ e.left # Unknown => e.left >= 0 /\ ~(G < w)
  BY DEF Unknown, EncParts
<1>9. StDone(e) = (e.done \/ IF e.left = Unknown THEN G < w ELSE e.left = G)
  BY DEF StDone
<1> HIDE DEF G, T, P, M, R, w, TT
<1>10. StDone(e)
  <2>1. CASE e.done
    BY <1>9, <2>1
  <2>2. CASE ~e.done /\ e.left = Unknown
    <3>1. w = R
      BY <1>7, <2>2
    <3>2. G < R
      BY ONLY <1>2, <1>4, <1>6
    <3>3. QED
      BY <1>9, <2>2, <3>1, <3>2
  <2>3. CASE ~e.done /\ e.left # Unknown
    <3> DEFINE l == e.left
    <3>1. l \in Int /\ l >= 0 /\ ~(G < w) /\ w = IF R <= l THEN R ELSE l
      BY <1>3, <1>7, <1>8, <2>3
    <3> HIDE DEF l
    <3>2. l = G
      BY <1>2, <1>4, <1>6, <3>1
    <3>3. QED
      BY <1>9, <2>3, <3>2 DEF l
  <2>4. QED
    BY <1>3, <2>1, <2>2, <2>3
<1>11. T < R - G => e.trailer_off + T >= TT
  BY StSigIs DEF T, R, G, TT
<1>12. TT \in Nat /\ TT = IF StTr(e) = NoTrailer THEN 0 ELSE TrailerSize
  <2>1. StTr(e) \in ATrailer
    BY StSigIs
  <2>2. QED
    BY <2>1, TrailerPartIs, FramesAssumption DEF TT
<1>13. e.trailer_off + T = TT
  <2> DEFINE o == e.trailer_off
  <2>1. /\ o \in Nat /\ T \in Nat /\ G \in Nat /\ P \in Nat /\ R \in Nat /\ TT \in Nat
        /\ o + T <= TT /\ G + T + P < R /\ (T < R - G => o + T >= TT)
    BY <1>2, <1>3, <1>4, <1>6, <1>11, <1>12
  <2> HIDE DEF o
  <2>2. o + T = TT
    BY ONLY <2>1
  <2>3. QED
    BY <2>2 DEF o
<1>14. StFull(e)
  <2>1. ASSUME e.meta.signed PROVE TT = TrailerSize
    BY <1>2, <1>10, <1>12, <2>1, TrailerIsSome
  <2>2. QED
    BY <1>13, <2>1 DEF StFull, T
<1>15. P = e.pad_left
  <2>1. P < R - G - T => P = e.pad_left
    BY <1>10, <1>14, StPadIs DEF P, R, G, T
  <2>2. QED
    BY <1>2, <1>4, <1>6, <2>1
<1>16. EncUsed(n) = e.ctr * FrameSize + Len(StBody(e))
  BY EncUsedIs
<1>17. /\ n.meta = e.meta /\ n.trailer_off = e.trailer_off + T
       /\ n.pad_left = e.pad_left - P /\ n.data = StData(e)
  BY StNextIs DEF T, P
<1>18. EncUsed(n) = 1 + Len(StData(e)) + TT + (e.meta.pad - 0)
  <2>1. n.pad_left = 0
    BY <1>3, <1>15, <1>17
  <2>2. QED
    BY <1>13, <1>17, <2>1 DEF EncUsed
<1>19. Len(Stream(e.meta, StData(e), StTr(e))) = 1 + Len(StData(e)) + TT + e.meta.pad
  <2>1. StData(e) \in Seq(Int) /\ StTr(e) \in ATrailer
    BY StSigIs
  <2>2. QED
    BY <1>3, <2>1, StreamIs DEF TT
<1>20. e.meta.pad - 0 = e.meta.pad
  BY <1>3
<1>21. QED
  BY <1>10, <1>16, <1>18, <1>19, <1>20

(* A frame as it is written. *)
LEMMA StFrameAt ==
    ASSUME NEW e \in AnEnc, fs["in"] \in AFile, cmd \in Encryption, EncParts(cmd, e),
           EncFilled(e), ~(e.left # Unknown /\ Len(StGot(e)) < StWant(e))
    PROVE  FrameAt(e.hdr, Stream(e.meta, StData(e), StTr(e)), e.ctr + 1,
                   Len(StBody(e)) < FrameSize, Len(StBody(e)), StFrame(e))
<1> DEFINE b == StBody(e)
           c == Stream(e.meta, StData(e), StTr(e))
           i == e.ctr + 1
<1>1. \A k \in 1 .. Len(b) : b[k] = c[e.ctr * FrameSize + k]
  BY EncCellsAre
<1>2. e.ctr \in Nat /\ i - 1 = e.ctr
  BY EncFields
<1>3. StFrame(e) = Frame(Cek, e.ctr, Len(b) < FrameSize, AadAt(e.hdr, e.ctr), b)
  BY DEF StFrame
<1>4. StFrame(e).body = b
  BY StFrameIs
<1> HIDE DEF b, c, i
<1>5. FrameAt(e.hdr, c, i, Len(b) < FrameSize, Len(b), StFrame(e))
  BY <1>1, <1>2, <1>3, <1>4 DEF FrameAt
<1>6. QED
  BY <1>5 DEF b, c, i

(* Frames written before stay where they are in the stream. *)
LEMMA FrameStays ==
    ASSUME NEW e \in AnEnc, fs["in"] \in AFile, cmd \in Encryption, EncParts(cmd, e),
           EncFilled(e), ~(e.left # Unknown /\ Len(StGot(e)) < StWant(e)),
           NEW i \in 1 .. e.ctr, NEW fr,
           FrameAt(e.hdr, Stream(e.meta, e.data, e.trailer), i, FALSE, FrameSize, fr)
    PROVE  FrameAt(e.hdr, Stream(e.meta, StData(e), StTr(e)), i, FALSE, FrameSize, fr)
<1> DEFINE c == Stream(e.meta, e.data, e.trailer)
           d == Stream(e.meta, StData(e), StTr(e))
           u == (i - 1) * FrameSize
<1>1. e.ctr \in Nat /\ i \in Nat \ {0} /\ i <= e.ctr
  BY EncFields
<1>2. u \in Nat /\ i * FrameSize = u + FrameSize
  BY <1>1, FrameStarts
<1>3. i * FrameSize <= e.ctr * FrameSize /\ e.ctr * FrameSize \in Int
  BY <1>1, FrameSizeIs, TimesMonotone
<1>4. e.ctr * FrameSize = EncUsed(e)
  BY <1>1 DEF EncFilled
<1>5. ASSUME NEW k \in 1 .. FrameSize PROVE d[u + k] = c[u + k]
  <2>1. u + k \in 1 .. EncUsed(e)
    BY <1>2, <1>3, <1>4, FrameSizeIs
  <2>2. QED
    BY <2>1, StreamKept
<1>6. /\ fr = Frame(Cek, i - 1, FALSE, AadAt(e.hdr, i - 1), fr.body)
      /\ Len(fr.body) = FrameSize
      /\ \A k \in 1 .. FrameSize : fr.body[k] = c[u + k]
  BY DEF FrameAt
<1> HIDE DEF c, d, u
<1>7. \A k \in 1 .. FrameSize : fr.body[k] = d[u + k]
  BY <1>5, <1>6
<1>8. QED
  BY <1>6, <1>7 DEF FrameAt, d, u

(* One more full frame, or the whole container. *)
LEMMA EncLoopKept ==
    ASSUME NEW e \in AnEnc, fs["in"] \in AFile, cmd \in Encryption, NEW frames \in Seq(AFrame),
           EncLoop(cmd, e, frames), ~(e.left # Unknown /\ Len(StGot(e)) < StWant(e)),
           Len(StBody(e)) = FrameSize
    PROVE  EncLoop(cmd, Stage(e).next, Append(frames, StFrame(e)))
<1> DEFINE n == Stage(e).next
           fr == StFrame(e)
           a == Append(frames, fr)
           c == Stream(e.meta, StData(e), StTr(e))
<1>1. /\ EncParts(cmd, e) /\ EncFilled(e) /\ Len(frames) = e.ctr /\ e.ctr \in Nat
      /\ \A i \in 1 .. e.ctr :
            FrameAt(e.hdr, Stream(e.meta, e.data, e.trailer), i, FALSE, FrameSize, frames[i])
  BY EncFields DEF EncLoop
<1>2. n.hdr = e.hdr /\ n.meta = e.meta /\ n.ctr = e.ctr + 1 /\ n.trailer = StTr(e) /\ n.data = StData(e)
  BY StNextIs
<1>3. EncParts(cmd, n) /\ EncFilled(n)
  BY <1>1, EncPartsKept, EncUsedIs
<1>4. fr \in AFrame
  BY StFrameIs
<1>5. FrameAt(e.hdr, c, e.ctr + 1, Len(StBody(e)) < FrameSize, Len(StBody(e)), fr)
  BY <1>1, StFrameAt
<1>6. (Len(StBody(e)) < FrameSize) = FALSE
  BY FrameSizeIs
<1>7. \A i \in 1 .. e.ctr : FrameAt(e.hdr, c, i, FALSE, FrameSize, frames[i])
  BY <1>1, FrameStays
<1> HIDE DEF n, fr, c
<1>8. /\ Len(a) = Len(frames) + 1 /\ \A i \in 1 .. Len(frames) : a[i] = frames[i]
      /\ a[Len(frames) + 1] = fr
  BY <1>4, AppendIs
<1> HIDE DEF a
<1>9. ASSUME NEW i \in 1 .. n.ctr PROVE FrameAt(e.hdr, c, i, FALSE, FrameSize, a[i])
  <2>1. CASE i = e.ctr + 1
    BY <1>1, <1>5, <1>6, <1>8, <2>1
  <2>2. CASE i # e.ctr + 1
    <3>1. i \in 1 .. e.ctr
      BY <1>1, <1>2, <2>2
    <3>2. QED
      BY <1>1, <1>7, <1>8, <3>1
  <2>3. QED
    BY <2>1, <2>2
<1>10. EncLoop(cmd, n, a)
  BY <1>1, <1>2, <1>3, <1>8, <1>9 DEF EncLoop, c
<1>11. QED
  BY <1>10 DEF n, a, fr

LEMMA EncEnds ==
    ASSUME NEW e \in AnEnc, fs["in"] \in AFile, cmd \in Encryption, NEW frames \in Seq(AFrame),
           EncLoop(cmd, e, frames), ~(e.left # Unknown /\ Len(StGot(e)) < StWant(e)),
           Len(StBody(e)) < FrameSize
    PROVE  /\ Layout(e.hdr, e.meta, StData(e), StTr(e))
           /\ e.hdr.ver = "v7"
           /\ Sealed(Append(frames, StFrame(e)), e.hdr, Stream(e.meta, StData(e), StTr(e)))
<1> DEFINE fr == StFrame(e)
           a == Append(frames, fr)
           c == Stream(e.meta, StData(e), StTr(e))
           t == StTr(e)
           d == StData(e)
           b == Len(StBody(e))
<1>1. /\ EncParts(cmd, e) /\ EncFilled(e) /\ Len(frames) = e.ctr /\ e.ctr \in Nat
      /\ \A i \in 1 .. e.ctr :
            FrameAt(e.hdr, Stream(e.meta, e.data, e.trailer), i, FALSE, FrameSize, frames[i])
      /\ e.meta \in AMeta /\ e.hdr \in AHeader
  BY EncFields DEF EncLoop
<1>2. StDone(e) /\ e.ctr * FrameSize + b = Len(c)
  BY <1>1, EncWhole
<1>3. EncMoves(e, Len(StGot(e)), Len(StSig(e)), Len(StPad(e)))
  BY <1>1, EncMovesIs
<1>4. /\ e.meta.len \in {Unknown, Len(d)}
      /\ t = IF e.meta.signed THEN Trailer(cmd.sign, "S", e.hdr, e.meta, d) ELSE NoTrailer
  BY <1>2, <1>3 DEF EncMoves
<1>5. /\ e.hdr = EncHeader /\ e.meta.padded = (e.meta.pad > 0)
      /\ e.meta.pad > 0 => e.meta.len # Unknown
      /\ e.meta.signed = (cmd.sign # "none")
  BY <1>1 DEF EncParts, EncLayout
<1>6. cmd.sign \in {"none", "S", "T"} /\ e.meta.signed \in BOOLEAN
  BY <1>1 DEF Encryption, AMeta
<1>7. FrameAt(e.hdr, c, e.ctr + 1, b < FrameSize, b, fr)
  BY <1>1, StFrameAt
<1>8. \A i \in 1 .. e.ctr : FrameAt(e.hdr, c, i, FALSE, FrameSize, frames[i])
  BY <1>1, FrameStays
<1>9. fr \in AFrame /\ b \in Nat
  BY StFrameIs, StBodyIs
<1>10. /\ Len(a) = Len(frames) + 1 /\ \A i \in 1 .. Len(frames) : a[i] = frames[i]
       /\ a[Len(frames) + 1] = fr
  BY <1>9, AppendIs
<1>11. (b < FrameSize) = TRUE
  BY <1>9
<1> HIDE DEF fr, a, c, t, d, b
<1>12. Layout(e.hdr, e.meta, d, t)
  <2>1. e.meta.signed = (t # NoTrailer)
    BY <1>4, <1>6, TrailerIsSome
  <2>2. t = NoTrailer \/ \E pk \in {"S", "T"} : t = Trailer(pk, "S", e.hdr, e.meta, d)
    BY <1>4, <1>5, <1>6
  <2>3. e.hdr.ver = "v7" /\ e.hdr.recs # <<>> /\ e.hdr.recs[1].to = "A"
    BY <1>5, EncHeaderIs
  <2>4. QED
    BY <1>1, <1>4, <1>5, <2>1, <2>2, <2>3 DEF Layout
<1>13. e.hdr.ver = "v7"
  BY <1>5, EncHeaderIs
<1>14. Sealed(a, e.hdr, c)
  <2> DEFINE n == Len(a)
             rest == Len(c) - (n - 1) * FrameSize
  <2>1. n = e.ctr + 1 /\ n - 1 = e.ctr /\ n > 0
    BY <1>1, <1>10
  <2>2. e.ctr * FrameSize \in Nat
    BY <1>1, FrameSizeIs
  <2>3. rest = b
    <3> DEFINE u == e.ctr * FrameSize
    <3>1. rest = Len(c) - u /\ u + b = Len(c) /\ u \in Nat
      BY <1>2, <2>1, <2>2
    <3> HIDE DEF u, rest
    <3>2. QED
      BY <1>9, <3>1
  <2> HIDE DEF n, rest
  <2>4. ASSUME NEW i \in 1 .. n
        PROVE  FrameAt(e.hdr, c, i, i = n, IF i = n THEN rest ELSE FrameSize, a[i])
    <3>1. CASE i = n
      <4>1. (i = n) = TRUE /\ a[i] = fr
        BY <1>1, <1>10, <2>1, <3>1
      <4>2. QED
        BY <1>7, <1>11, <2>1, <2>3, <3>1, <4>1
    <3>2. CASE i # n
      <4>1. (i = n) = FALSE /\ i \in 1 .. e.ctr
        BY <1>1, <2>1, <3>2
      <4>2. a[i] = frames[i]
        BY <1>1, <1>10, <4>1
      <4>3. QED
        BY <1>8, <3>2, <4>1, <4>2
    <3>3. QED
      BY <3>1, <3>2
  <2>5. QED
    BY <1>9, <1>13, <2>1, <2>3, <2>4 DEF Sealed, n, rest, b
<1>15. QED
  BY <1>12, <1>13, <1>14 DEF a, fr, c, t, d

LEMMA SealedComplete ==
    ASSUME NEW frames \in Seq(AFrame), NEW h, NEW cells, h.ver # "v5", Sealed(frames, h, cells)
    PROVE  Complete(frames)
<1> DEFINE n == Len(frames)
           rest == Len(cells) - (n - 1) * FrameSize
<1>1. /\ n > 0
      /\ \A i \in 1 .. n :
            FrameAt(h, cells, i, i = n, IF i = n THEN rest ELSE FrameSize, frames[i])
  BY DEF Sealed
<1>2. n \in Nat /\ n \in 1 .. n
  BY <1>1, EmptyHasNone
<1> HIDE DEF n, rest
<1>3. FrameAt(h, cells, n, n = n, IF n = n THEN rest ELSE FrameSize, frames[n])
  BY <1>1, <1>2
<1>4. frames[n] = Frame(Cek, n - 1, n = n, AadAt(h, n - 1), frames[n].body)
  BY <1>3 DEF FrameAt
<1>5. frames[n].last = (n = n)
  BY <1>4 DEF Frame
<1>6. frames # <<>>
  BY <1>1, EmptyHasNone DEF n
<1>7. QED
  BY <1>5, <1>6 DEF Complete, n

(* What has been read so far, after one more read. *)
LEMMA ReadKept ==
    ASSUME NEW e \in AnEnc, fs["in"] \in AFile, cmd \in Encryption, EncParts(cmd, e),
           ~(e.left # Unknown /\ Len(StGot(e)) < StWant(e)),
           Len(e.data) <= Len(fs["in"].data),
           \A i \in 1 .. Len(e.data) : e.data[i] = fs["in"].data[i],
           e.meta.len # Unknown /\ cmd.to # "in" => e.meta.len = Len(fs["in"].data),
           cmd.to = "in" => fs["in"].data = <<>>,
           e.done => e.data = fs["in"].data
    PROVE  /\ Len(StData(e)) <= Len(fs["in"].data)
           /\ \A i \in 1 .. Len(StData(e)) : StData(e)[i] = fs["in"].data[i]
           /\ StDone(e) => StData(e) = fs["in"].data
<1> DEFINE x == fs["in"].data
           d == e.data
           g == StGot(e)
           z == StData(e)
           X == Len(x)
           D == Len(d)
           G == Len(g)
<1>1. x \in Seq(Int) /\ X \in Nat
  BY FileFields
<1>2. d \in Seq(Int) /\ D \in Nat /\ e.left \in Int /\ e.done \in BOOLEAN /\ e.meta.len \in Int
  BY EncFields DEF AMeta
<1>3. /\ g \in Seq(Int) /\ G \in Nat
      /\ \A i \in 1 .. G : D + i \in 1 .. X /\ g[i] = x[D + i]
      /\ G < StWant(e) => D + G >= X
  BY StGotIs DEF EncParts
<1>4. z = d \o g
  BY DEF StData
<1>5. /\ D <= X /\ \A i \in 1 .. D : d[i] = x[i]
      /\ e.done => d = x
      /\ cmd.to = "in" => x = <<>>
  OBVIOUS
<1>6. EncMoves(e, G, Len(StSig(e)), Len(StPad(e)))
  BY EncMovesIs
<1>7. StDone(e) = (e.done \/ IF e.left = Unknown THEN G < StWant(e) ELSE e.left = G)
  BY DEF StDone
<1>8. /\ e.left = IF e.meta.len = Unknown THEN Unknown ELSE e.meta.len - D
      /\ e.meta.len # Unknown => e.left >= 0
  BY DEF EncParts
<1>9. e.done => z = d
  BY <1>6 DEF EncMoves
<1>10. e.meta.len # Unknown /\ cmd.to # "in" => e.meta.len = X
  OBVIOUS
<1> HIDE DEF x, d, g, z, X, D, G
<1>11. /\ z \in Seq(Int) /\ Len(z) = D + G
       /\ \A i \in 1 .. D : z[i] = d[i]
       /\ \A i \in 1 .. G : z[D + i] = g[i]
  <2>1. /\ d \o g \in Seq(Int) /\ Len(d \o g) = Len(d) + Len(g)
        /\ \A i \in 1 .. Len(d) : (d \o g)[i] = d[i]
        /\ \A i \in 1 .. Len(g) : (d \o g)[Len(d) + i] = g[i]
    BY ONLY <1>2, <1>3, ConcatIs
  <2>2. QED
    BY <1>4, <2>1 DEF D, G
<1>12. D + G <= X
  <2>1. CASE G = 0
    BY <1>1, <1>2, <1>3, <1>5, <2>1
  <2>2. CASE G # 0
    <3>1. G \in 1 .. G
      BY <1>3, <2>2
    <3>2. D + G \in 1 .. X
      BY <1>3, <3>1
    <3>3. QED
      BY <3>2
  <2>3. QED
    BY <2>1, <2>2
<1>13. ASSUME NEW i \in 1 .. Len(z) PROVE z[i] = x[i]
  <2>1. CASE i \in 1 .. D
    BY <1>5, <1>11, <2>1
  <2>2. CASE i \notin 1 .. D
    <3> DEFINE j == i - D
    <3>1. j \in 1 .. G /\ i = D + j
      <4>1. D \in Nat /\ G \in Nat /\ Len(z) = D + G
        BY <1>2, <1>3, <1>11
      <4>2. QED
        BY ONLY <2>2, <4>1, i \in 1 .. Len(z)
    <3> HIDE DEF j
    <3>2. QED
      BY <1>3, <1>11, <3>1
  <2>3. QED
    BY <2>1, <2>2
<1>14. ASSUME StDone(e) PROVE z = x
  <2>1. CASE e.done
    BY <1>5, <1>9, <2>1
  <2>2. CASE ~e.done
    <3>1. Len(z) = X
      <4>1. CASE cmd.to = "in"
        <5>1. X = 0
          BY <1>1, <1>5, <4>1, EmptyHasNone DEF X
        <5>2. QED
          BY <1>1, <1>2, <1>3, <1>11, <1>12, <5>1
      <4>2. CASE cmd.to # "in" /\ e.left = Unknown
        BY <1>1, <1>2, <1>3, <1>7, <1>11, <1>12, <1>14, <2>2, <4>2
      <4>3. CASE cmd.to # "in" /\ e.left # Unknown
        <5> DEFINE l == e.left
                   k == e.meta.len
        <5>1. l = G
          BY <1>7, <1>14, <2>2, <4>3
        <5>2. k # Unknown /\ l = k - D
          BY <1>8, <4>3
        <5>3. k = X
          BY <1>10, <4>3, <5>2
        <5>4. k \in Int /\ l \in Int
          BY <1>2
        <5> HIDE DEF l, k
        <5>5. QED
          BY <1>1, <1>2, <1>3, <1>11, <5>1, <5>2, <5>3, <5>4
      <4>4. QED
        BY <4>1, <4>2, <4>3
    <3>2. QED
      BY <1>1, <1>11, <1>13, <3>1, SeqEqual DEF X
  <2>3. QED
    BY <1>2, <2>1, <2>2
<1>15. QED
  BY <1>11, <1>12, <1>13, <1>14 DEF x, z, X

(***************************************************************************)
(* crypto_encrypt_file and crypto_armor, step by step.                     *)
(***************************************************************************)
LEMMA EncReturns ==
    ASSUME EncInv, cmd' = cmd, pc' = "ret", faults' \in Nat, EncReturned'
    PROVE  EncAll'
<1>1. IdleInv'
  BY DEF IdleInv
<1>2. EncInv'
  BY DEF EncInv, Encrypting
<1>3. QED
  BY <1>1, <1>2 DEF EncAll

LEMMA EncAllBegin ==
    ASSUME BaseInv, EncAll, NEW c \in Encryption, EncBegin(c)
    PROVE  EncAll'
<1>1. /\ pc = "idle" /\ cmd' = c /\ UNCHANGED <<fs, faults, touched>>
      /\ c.to = "in" => ~c.stdin
      /\ fs["out"].kind # "cont"
  BY DEF EncBegin
<1>2. /\ fs["in"].kind = "plain" /\ fs["tmp"] = NoFile /\ fs["pipe"] = NoFile
      /\ Untouched(fs["out"]) /\ touched = "no"
  BY <1>1 DEF EncAll, IdleInv
<1>3. c.op = "enc" /\ c.to \in {"out", "in", "pipe", "tmp"}
  BY DEF Encryption
<1>4. Len(fs["in"].data) \in Nat
  BY BaseFacts, FileFields DEF Name
<1>5. CASE pc' = "ret" /\ rc' = "input"
  <2>1. fs["out"].kind \in {"none", "old"} /\ NoFile.kind = "none"
    BY <1>2, FilesAre DEF Untouched
  <2>2. EncReturned'
    BY <1>1, <1>2, <1>3, <1>5, <2>1 DEF EncReturned
  <2>3. EncInv' /\ IdleInv'
    BY <1>1, <1>3, <1>5 DEF EncInv, IdleInv, Encrypting
  <2>4. QED
    BY <1>1, <2>2, <2>3 DEF EncAll
<1>6. CASE pc' = "enc_open" /\ enc' = EncStarted(c, Len(fs["in"].data))
  <2> DEFINE n == Len(fs["in"].data)
             e == EncStarted(c, n)
  <2>1. /\ e \in AnEnc /\ e.hdr = EncHeader /\ e.meta = EncMeta(c, n)
    BY <1>4, EncStartedIs
  <2>2. /\ e.meta \in AMeta
        /\ e.meta.padded = (e.meta.pad > 0)
        /\ e.meta.signed = (c.sign # "none")
        /\ e.meta.len = IF c.stdin THEN Unknown ELSE n
        /\ ~c.pad => e.meta.pad = 0
    BY <1>4, <2>1, EncMetaIs
  <2>3. c.pad => ~c.stdin
    BY <1>1, <1>6 DEF EncBegin, EncRefused
  <2>4. e.meta.pad > 0 => e.meta.len # Unknown
    BY <1>4, <2>2, <2>3 DEF Unknown
  <2>5. e = [NoEnc EXCEPT !.hdr = e.hdr, !.meta = e.meta, !.left = e.meta.len, !.pad_left = e.meta.pad]
    BY <2>1 DEF EncStarted
  <2>6. e.meta.len \in Nat \cup {Unknown}
    BY <1>4, <2>2
  <2>7. EncStart(c, e)
    BY <2>1, <2>2, <2>4, <2>5, <2>6 DEF EncStart, EncLayout
  <2>8. e.meta.len # Unknown => e.meta.len = n
    BY <2>2
  <2> HIDE DEF e
  <2>9. enc' = e
    BY <1>6 DEF e
  <2>10. EncInv'
    BY <1>1, <1>2, <1>6, <2>7, <2>8, <2>9 DEF EncInv, Encrypting
  <2>11. EncReturned' /\ IdleInv'
    BY <1>6 DEF EncReturned, IdleInv
  <2>12. QED
    BY <1>1, <2>10, <2>11 DEF EncAll
<1>7. (pc' = "ret" /\ rc' = "input") \/ (pc' = "enc_open" /\ enc' = EncStarted(c, Len(fs["in"].data)))
  BY DEF EncBegin, EncStarted
<1>8. QED
  BY <1>5, <1>6, <1>7

LEMMA EncStartLoop ==
    ASSUME NEW e \in AnEnc, EncStart(cmd, e)
    PROVE  EncLoop(cmd, e, <<>>)
<1>1. /\ e.ctr = 0 /\ e.left = e.meta.len /\ e.pos = 0 /\ e.done = FALSE /\ e.trailer = NoTrailer
      /\ e.trailer_off = 0 /\ e.pad_left = e.meta.pad /\ e.data = <<>>
  <2> DEFINE h == e.hdr
             m == e.meta
  <2>1. e = [NoEnc EXCEPT !.hdr = h, !.meta = m, !.left = m.len, !.pad_left = m.pad]
    BY DEF EncStart
  <2> HIDE DEF h, m
  <2>2. /\ e.ctr = 0 /\ e.left = m.len /\ e.pos = 0 /\ e.done = FALSE /\ e.trailer = NoTrailer
        /\ e.trailer_off = 0 /\ e.pad_left = m.pad /\ e.data = <<>>
    BY <2>1 DEF NoEnc
  <2>3. QED
    BY <2>2 DEF m
<1>2. EncLayout(cmd, e)
  BY DEF EncStart
<1>3. /\ e.meta.len \in Int /\ e.meta.pad \in Nat /\ Len(<<>>) = 0
      /\ e.meta.len \in Nat \cup {Unknown} /\ Unknown = -1
  BY <1>2, EncFields, EmptyHasNone DEF AMeta, EncLayout, Unknown
<1>4. Len(TrailerPart(NoTrailer)) = 0
  BY Blanks, TrailerPartIs
<1>5. e.meta.len - 0 = e.meta.len
  BY <1>3
<1>6. EncParts(cmd, e)
  <2> DEFINE l == e.meta.len
  <2>1. e.left = IF l = Unknown THEN Unknown ELSE l - Len(e.data)
    BY <1>1, <1>3, <1>5
  <2>2. l # Unknown => l >= 0
    BY <1>3
  <2> HIDE DEF l
  <2>3. e.meta.len # Unknown => e.left >= 0
    BY <1>1, <2>2 DEF l
  <2>4. ~(e.pad_left < e.meta.pad) /\ e.pad_left <= e.meta.pad
    BY <1>1, <1>3
  <2>5. e.pos = Len(e.data)
    BY <1>1, <1>3
  <2>6. e.trailer_off <= Len(TrailerPart(e.trailer))
    BY <1>1, <1>4
  <2>7. QED
    BY <1>1, <1>2, <2>1, <2>3, <2>4, <2>5, <2>6 DEF EncParts, l
<1>7. EncFilled(e)
  BY <1>1 DEF EncFilled
<1>8. QED
  BY <1>1, <1>3, <1>6, <1>7 DEF EncLoop

LEMMA EncAllOpen ==
    ASSUME BaseInv, EncAll, EncOpen
    PROVE  EncAll'
<1>1. /\ pc = "enc_open" /\ cmd.op = "enc" /\ UNCHANGED <<cmd, enc, faults, touched>>
      /\ cmd.to \in {"out", "in", "pipe", "tmp"} /\ cmd.to \in Name
  BY EncTarget DEF EncOpen, Encrypting, Encryption
<1>2. /\ touched = "no" /\ EncStart(cmd, enc)
      /\ fs["in"].kind = "plain" /\ Untouched(fs["out"])
      /\ fs["tmp"] = NoFile /\ fs["pipe"] = NoFile
      /\ faults = 0 /\ enc.meta.len # Unknown => enc.meta.len = Len(fs["in"].data)
      /\ cmd.to = "in" => ~cmd.stdin
  BY <1>1 DEF EncAll, EncInv, Encrypting
<1>3. CASE pc' = "ret" /\ rc' = "skipped" /\ UNCHANGED fs /\ cmd.to # "tmp"
  <2>1. fs["out"].kind \in {"none", "old"}
    BY <1>2, FilesAre DEF Untouched
  <2>2. fs["pipe"].kind = "none" /\ fs["tmp"].kind = "none"
    BY <1>2, FilesAre
  <2>3. EncReturned'
    BY <1>1, <1>2, <1>3, <2>1, <2>2 DEF EncReturned
  <2>4. QED
    BY <1>1, <1>3, <2>3, EncReturns DEF EncAll
<1>4. CASE pc' = "enc_frame" /\ fs' = [fs EXCEPT ![cmd.to] = Cont(enc.hdr, <<>>)]
  <2> DEFINE f == Cont(enc.hdr, <<>>)
  <2>1. /\ f \in AFile /\ f.kind = "cont" /\ f.data = <<>> /\ f.hdr = enc.hdr /\ f.frames = <<>>
    BY BaseFacts, FilesAre, EmptySeq, ZenonT(60)
  <2>2. f = Cont(enc.hdr, f.frames)
    BY <2>1
  <2> HIDE DEF f
  <2>3. fs'[cmd.to] = f /\ \A n \in Name : n # cmd.to => fs'[n] = fs[n]
    BY <1>1, <1>4, BaseFacts DEF FilesOk, f
  <2>4. EncLoop(cmd, enc, <<>>) /\ enc.data = <<>> /\ ~enc.done
    <3>1. EncLoop(cmd, enc, <<>>)
      BY <1>2, BaseFacts, EncStartLoop
    <3>2. EncFilled(enc) /\ Len(<<>>) = enc.ctr /\ Len(<<>>) = 0
      BY <3>1, EmptyHasNone DEF EncLoop
    <3>3. QED
      BY <3>1, <3>2 DEF EncFilled
  <2>5. "in" \in Name /\ "out" \in Name /\ "tmp" \in Name
    BY DEF Name
  <2>6. /\ fs'["in"].kind \in {"plain", "cont"}
        /\ cmd.to # "out" => Untouched(fs'["out"])
        /\ cmd.to # "tmp" => fs'["tmp"] = NoFile
        /\ cmd.to = "in" => fs'["in"].data = <<>>
    BY <1>2, <2>1, <2>3, <2>5
  <2>7. ReadSoFar'
    <3>1. Len(<<>>) = 0 /\ Len(fs'["in"].data) \in Nat
      <4>1. fs'["in"] \in AFile
        BY <2>1, <2>3, <2>5, BaseFacts
      <4>2. QED
        BY <4>1, EmptyHasNone, FileFields
    <3>2. faults = 0 /\ enc.meta.len # Unknown /\ cmd.to # "in" => enc.meta.len = Len(fs'["in"].data)
      BY <1>2, <2>3, <2>5
    <3>3. QED
      BY <1>1, <2>4, <2>6, <3>1, <3>2 DEF ReadSoFar
  <2>8. EncInv'
    BY <1>1, <1>2, <1>4, <2>1, <2>2, <2>3, <2>4, <2>6, <2>7 DEF EncInv, Encrypting
  <2>9. EncReturned' /\ IdleInv'
    BY <1>4 DEF EncReturned, IdleInv
  <2>10. QED
    BY <1>1, <2>8, <2>9 DEF EncAll
<1>5. QED
  BY <1>3, <1>4 DEF EncOpen, Write

(* A failure leaves nothing of the output. *)
LEMMA EncAllFail ==
    ASSUME BaseInv, EncAll, pc \in {"enc_open", "enc_frame"}, faults' \in Nat, rc' = "io",
           pc' = "ret", UNCHANGED <<cmd, enc, truth, touched>>,
           \/ pc = "enc_open" /\ fs' = Removed({"tmp"})
           \/ fs' = Removed({cmd.to, "tmp"} \ {"pipe"})
    PROVE  EncAll'
<1>1. /\ cmd.op = "enc" /\ cmd.to \in {"out", "in", "pipe", "tmp"}
  BY EncTarget DEF Encrypting, Encryption
<1>2. /\ touched = "no"
      /\ cmd.to # "out" => Untouched(fs["out"])
      /\ pc = "enc_open" => Untouched(fs["out"]) /\ fs["in"].kind = "plain"
  BY <1>1 DEF EncAll, EncInv, Encrypting
<1>3. NoFile.kind = "none" /\ \A f : Untouched(f) => f.kind \in {"none", "old"}
  BY FilesAre DEF Untouched
<1>4. fs'["tmp"] = NoFile
  BY DEF Removed, Name
<1> DEFINE n == IF cmd.to = "tmp" THEN "out" ELSE cmd.to
<1>5. cmd.to # "pipe" => fs'[n].kind \notin {"cont", "armor"}
  <2>1. ASSUME cmd.to # "pipe" PROVE fs'[n].kind \notin {"cont", "armor"}
    <3>1. n \in {"out", "in"} /\ n \in Name
      BY <1>1, <2>1 DEF Name
    <3>2. CASE pc = "enc_open" /\ fs' = Removed({"tmp"})
      <4>1. fs'[n] = fs[n]
        BY <3>1, <3>2 DEF Removed
      <4>2. QED
        BY <1>2, <1>3, <3>1, <3>2, <4>1
    <3>3. CASE fs' = Removed({cmd.to, "tmp"} \ {"pipe"})
      <4>1. CASE cmd.to = "tmp"
        <5>1. n = "out" /\ fs'[n] = fs[n]
          BY <3>1, <3>3, <4>1 DEF Removed
        <5>2. QED
          BY <1>2, <1>3, <4>1, <5>1
      <4>2. CASE cmd.to # "tmp"
        <5>1. n = cmd.to /\ fs'[n] = NoFile
          BY <2>1, <3>1, <3>3, <4>2 DEF Removed
        <5>2. QED
          BY <1>3, <5>1
      <4>3. QED
        BY <4>1, <4>2
    <3>4. QED
      BY <3>2, <3>3
  <2>2. QED
    BY <2>1
<1>6. EncReturned'
  BY <1>4, <1>5 DEF EncReturned
<1>7. QED
  BY <1>6, EncReturns DEF EncAll

LEMMA EncAllFault ==
    ASSUME BaseInv, EncAll, EncFault
    PROVE  EncAll'
<1>1. faults' \in Nat
  BY DEF EncFault, EncAll
<1>2. \/ pc = "enc_open" /\ fs' = Removed({"tmp"})
      \/ fs' = Removed({cmd.to, "tmp"} \ {"pipe"})
  BY DEF EncFault, EncFail
<1>3. rc' = "io" /\ pc' = "ret"
  BY DEF EncFault, EncFail
<1>4. pc \in {"enc_open", "enc_frame"} /\ UNCHANGED <<cmd, enc, truth, touched>>
  BY DEF EncFault
<1>5. QED
  BY <1>1, <1>2, <1>3, <1>4, EncAllFail

LEMMA ContWith ==
    ASSUME NEW h, NEW x, NEW y
    PROVE  [Cont(h, x) EXCEPT !.frames = y] = Cont(h, y)
<1> DEFINE k == "cont"
           d == <<>>
           r == FALSE
<1>1. \A z : Cont(h, z) = [kind |-> k, hdr |-> h, frames |-> z, data |-> d, restored |-> r]
  BY DEF Cont, File
<1> HIDE DEF k, d, r
<1>2. QED
  BY <1>1

LEMMA EncAllFrame ==
    ASSUME BaseInv, EncAll, EncFrame
    PROVE  EncAll'
<1>1. /\ pc = "enc_frame" /\ cmd.op = "enc" /\ cmd \in Encryption
      /\ cmd.to \in {"out", "in", "pipe", "tmp"} /\ cmd.to \in Name
  BY EncTarget DEF EncFrame, Encrypting, Encryption
<1>2. enc \in AnEnc /\ fs["in"] \in AFile /\ "in" \in Name /\ "out" \in Name /\ "tmp" \in Name
  BY BaseFacts DEF Name
<1>3. UNCHANGED <<cmd, sink, faults, truth, touched>>
  BY <1>1, <1>2, EncFrameIs
<1>4. CASE EncFail("io") /\ UNCHANGED enc
  BY <1>1, <1>3, <1>4, EncAllFail DEF EncAll, EncFail
<1>5. CASE /\ ~(enc.left # Unknown /\ Len(StGot(enc)) < StWant(enc))
           /\ enc' = Stage(enc).next
           /\ fs' = [fs EXCEPT ![cmd.to] =
                        [fs[cmd.to] EXCEPT !.frames = Append(fs[cmd.to].frames, StFrame(enc))]]
           /\ pc' = IF Len(StBody(enc)) < FrameSize THEN "enc_close" ELSE pc
  <2> DEFINE f == fs[cmd.to]
             h == enc.hdr
             fr == f.frames
             a == Append(fr, StFrame(enc))
             g == [f EXCEPT !.frames = a]
             b == Len(StBody(enc))
  <2>1. /\ f = Cont(h, fr) /\ EncLoop(cmd, enc, fr) /\ ReadSoFar
        /\ touched = "no" /\ fs["in"].kind \in {"plain", "cont"}
        /\ cmd.to # "out" => Untouched(fs["out"])
        /\ cmd.to # "tmp" => fs["tmp"] = NoFile
        /\ cmd.to = "in" => ~cmd.stdin
    BY <1>1 DEF EncAll, EncInv, Encrypting
  <2>2. f \in AFile /\ fr \in Seq(AFrame) /\ h \in AHeader
    BY <1>1, <1>2, BaseFacts, FileFields
  <2>3. a \in Seq(AFrame)
    <3> DEFINE s == StFrame(enc)
    <3>1. s \in AFrame
      BY <1>1, <1>2, StFrameIs
    <3>2. fr \in Seq(AFrame)
      BY <2>2
    <3> HIDE DEF s, fr
    <3>3. Append(fr, s) \in Seq(AFrame)
      BY ONLY <3>1, <3>2, AppendIs
    <3>4. QED
      BY <3>3 DEF s
  <2>4. ~(enc.left # Unknown /\ Len(StGot(enc)) < StWant(enc)) /\ EncParts(cmd, enc)
    BY <1>5, <2>1 DEF EncLoop
  <2>5. b \in Nat /\ b <= FrameSize
    BY <1>1, <1>2, StBodyIs
  <2>6. /\ enc'.hdr = h /\ enc'.meta = enc.meta /\ enc'.done = StDone(enc)
        /\ enc'.trailer = StTr(enc) /\ enc'.data = StData(enc)
    BY <1>1, <1>2, <1>5, StNextIs
  <2>7. b = FrameSize => EncLoop(cmd, enc', a)
    BY <1>1, <1>2, <1>5, <2>1, <2>2, EncLoopKept
  <2>8. b < FrameSize => /\ Layout(h, enc.meta, StData(enc), StTr(enc))
                         /\ h.ver = "v7"
                         /\ Sealed(a, h, Stream(enc.meta, StData(enc), StTr(enc)))
                         /\ StDone(enc)
    BY <1>1, <1>2, <2>1, <2>2, <2>4, EncEnds, EncWhole DEF EncLoop
  <2>9. ASSUME faults = 0
        PROVE  /\ Len(StData(enc)) <= Len(fs["in"].data)
               /\ \A i \in 1 .. Len(StData(enc)) : StData(enc)[i] = fs["in"].data[i]
               /\ StDone(enc) => StData(enc) = fs["in"].data
    BY <1>1, <1>2, <2>1, <2>4, <2>9, ReadKept DEF ReadSoFar
  <2>10. fs' = [fs EXCEPT ![cmd.to] = g]
    BY <1>5
  <2>11. g = Cont(h, a) /\ g.frames = a /\ g.kind = f.kind /\ g.data = f.data /\ f.kind = "cont"
    <3> HIDE DEF a, fr, f
    <3>1. f.kind = "cont" /\ f.data = <<>>
      BY <2>1, <2>2, FilesAre
    <3>2. g = Cont(h, a)
      <4>1. f = Cont(h, fr)
        BY <2>1
      <4> HIDE DEF h
      <4>2. [Cont(h, fr) EXCEPT !.frames = a] = Cont(h, a)
        BY ContWith
      <4>3. QED
        BY <4>1, <4>2
    <3>3. QED
      BY <2>2, <2>3, <3>1, <3>2, FilesAre
  <2> HIDE DEF g, a, fr, b, h
  <2>12. fs'[cmd.to] = g /\ \A n \in Name : n # cmd.to => fs'[n] = fs[n]
    BY <1>1, <2>10, BaseFacts DEF FilesOk
  <2>13. fs'["in"].data = fs["in"].data /\ fs'["in"].kind \in {"plain", "cont"}
    BY <1>2, <2>1, <2>11, <2>12 DEF f
  <2>14. /\ cmd.to # "out" => Untouched(fs'["out"])
         /\ cmd.to # "tmp" => fs'["tmp"] = NoFile
    BY <1>2, <2>1, <2>12
  <2>15. CASE b = FrameSize
    <3>1. pc' = "enc_frame"
      BY <1>1, <1>5, <2>15, FrameSizeIs DEF b
    <3>2. ReadSoFar'
      BY <1>3, <2>1, <2>6, <2>9, <2>13 DEF ReadSoFar
    <3>3. fs'[cmd.to] = Cont(enc'.hdr, fs'[cmd.to].frames) /\ EncLoop(cmd, enc', fs'[cmd.to].frames)
      BY <2>6, <2>7, <2>11, <2>12, <2>15
    <3>4. EncInv'
      BY <1>1, <1>3, <2>1, <2>13, <2>14, <3>1, <3>2, <3>3 DEF EncInv, Encrypting
    <3>5. EncReturned' /\ IdleInv'
      BY <3>1 DEF EncReturned, IdleInv
    <3>6. QED
      BY <1>3, <3>4, <3>5 DEF EncAll
  <2>16. CASE b < FrameSize
    <3>1. pc' = "enc_close"
      BY <1>5, <2>16 DEF b
    <3>2. faults = 0 => enc'.data = fs'["in"].data
      BY <2>6, <2>8, <2>9, <2>13, <2>16
    <3>3. Written(fs[cmd.to])'
      <4>1. cmd' = cmd
        BY <1>3
      <4>2. /\ Layout(enc'.hdr, enc'.meta, enc'.data, enc'.trailer)
            /\ enc'.hdr.ver = "v7"
            /\ Sealed(a, enc'.hdr, Stream(enc'.meta, enc'.data, enc'.trailer))
        BY <2>6, <2>8, <2>16
      <4>3. fs'[cmd'.to] = Cont(enc'.hdr, a) /\ fs'[cmd'.to].frames = a
        BY <2>6, <2>11, <2>12, <4>1
      <4>4. QED
        BY <4>2, <4>3 DEF Written
    <3>4. EncInv'
      BY <1>1, <1>3, <2>1, <2>13, <2>14, <3>1, <3>2, <3>3 DEF EncInv, Encrypting
    <3>5. EncReturned' /\ IdleInv'
      BY <3>1 DEF EncReturned, IdleInv
    <3>6. QED
      BY <1>3, <3>4, <3>5 DEF EncAll
  <2>17. QED
    BY <2>5, <2>15, <2>16, FrameSizeIs
<1>6. QED
  BY <1>1, <1>2, <1>4, <1>5, EncFrameIs

(* The container is finished, or its last part is lost in the flush. *)
LEMMA TornDerived ==
    ASSUME NEW g \in AFile, g.data = <<>>, NEW f \in AFile, f = g \/ f \in Torn(g)
    PROVE  Derived(f, g)
<1>1. /\ f.hdr = g.hdr /\ f = [g EXCEPT !.frames = f.frames]
      /\ Len(f.frames) <= Len(g.frames)
      /\ \A i \in 1 .. Len(f.frames) : f.frames[i] = g.frames[i]
  <2>1. CASE f = g
    <3>1. f = [g EXCEPT !.frames = f.frames]
      BY <2>1 DEF AFile
    <3>2. QED
      BY <2>1, <3>1, FileFields
  <2>2. CASE f \in Torn(g)
    BY <2>2, TornIs
  <2>3. QED
    BY <2>1, <2>2
<1>2. f = [g EXCEPT !.hdr = f.hdr, !.frames = f.frames]
  <2> DEFINE x == f.frames
             y == f.hdr
  <2>1. f = [g EXCEPT !.frames = x] /\ y = g.hdr
    BY <1>1
  <2> HIDE DEF x, y
  <2>2. [g EXCEPT !.frames = x] = [g EXCEPT !.hdr = y, !.frames = x]
    BY <2>1 DEF AFile
  <2>3. f = [g EXCEPT !.hdr = y, !.frames = x]
    BY <2>1, <2>2
  <2>4. QED
    BY <2>3 DEF x, y
<1>3. \A i \in 1 .. Len(f.frames) : \E j \in 1 .. Len(g.frames) : f.frames[i] = g.frames[j]
  <2>1. Len(f.frames) \in Nat /\ Len(g.frames) \in Nat
    BY FileFields
  <2>2. \A i \in 1 .. Len(f.frames) : i \in 1 .. Len(g.frames)
    BY <1>1, <2>1
  <2>3. QED
    BY <1>1, <2>2
<1>4. QED
  BY <1>2, <1>3 DEF Derived

LEMMA WrittenIs ==
    ASSUME BaseInv, NEW f \in AFile, Written(f)
    PROVE  f.kind = "cont" /\ f.data = <<>> /\ f.hdr = enc.hdr /\ Complete(f.frames)
<1> DEFINE fr == f.frames
           h == enc.hdr
           c == Stream(enc.meta, enc.data, enc.trailer)
<1>1. f = Cont(h, fr) /\ h.ver = "v7" /\ Sealed(fr, h, c)
  BY DEF Written
<1>2. fr \in Seq(AFrame) /\ h \in AHeader
  BY BaseFacts, FileFields
<1> HIDE DEF fr, h, c
<1>3. f.kind = "cont" /\ f.data = <<>> /\ f.hdr = h
  BY <1>1, <1>2, FilesAre
<1>4. Complete(fr)
  BY <1>1, <1>2, SealedComplete
<1>5. QED
  BY <1>3, <1>4 DEF fr, h

LEMMA EncAllClose ==
    ASSUME BaseInv, EncAll, EncClose \/ EncFlushLost
    PROVE  EncAll'
<1>1. /\ pc = "enc_close" /\ cmd.op = "enc" /\ UNCHANGED <<cmd, enc>>
      /\ cmd.to \in {"out", "in", "pipe", "tmp"} /\ cmd.to \in Name
      /\ rc' = "ok" /\ truth' = enc.data /\ pc' = IF cmd.to = "tmp" THEN "armor" ELSE "ret"
  BY EncTarget DEF EncClose, EncFlushLost, Encrypting, Encryption
<1>2. /\ Written(fs[cmd.to]) /\ touched = "no"
      /\ faults = 0 => enc.data = fs["in"].data
      /\ cmd.to # "out" => Untouched(fs["out"])
      /\ cmd.to # "tmp" => fs["tmp"] = NoFile
      /\ fs["in"].kind \in {"plain", "cont"}
      /\ cmd.to = "in" => ~cmd.stdin
  BY <1>1 DEF EncAll, EncInv, Encrypting
<1>3. PICK g \in AFile : g = fs[cmd.to]
  BY <1>1, BaseFacts
<1>4. PICK f \in AFile : /\ fs' = [fs EXCEPT ![cmd.to] = f]
                         /\ \/ f = g /\ touched' = touched /\ faults' = faults
                            \/ f \in Torn(g) /\ touched' = "flush" /\ faults' = faults + 1
  <2>1. CASE EncClose
    <3>1. fs' = [fs EXCEPT ![cmd.to] = g] /\ touched' = touched /\ faults' = faults
      BY <2>1, <1>1, <1>3, BaseFacts DEF EncClose, FilesOk
    <3>2. QED
      BY <1>3, <3>1
  <2>2. CASE EncFlushLost
    <3>1. PICK f \in Torn(g) : fs' = [fs EXCEPT ![cmd.to] = f]
      BY <1>3, <2>2 DEF EncFlushLost, Write
    <3>2. f \in AFile
      BY <1>3, TornIs
    <3>3. touched' = "flush" /\ faults' = faults + 1
      BY <2>2 DEF EncFlushLost
    <3>4. QED
      BY <3>1, <3>2, <3>3
  <2>3. QED
    BY <2>1, <2>2
<1>5. Written(g) /\ g.kind = "cont" /\ g.data = <<>> /\ Complete(g.frames)
  BY <1>2, <1>3, WrittenIs
<1>6. Derived(f, g)
  BY <1>4, <1>5, TornDerived
<1>7. (touched' = "no" /\ f = g) \/ touched' = "flush"
  BY <1>2, <1>4
<1>8. Outcome(f, g)'
  BY <1>6, <1>7 DEF Outcome
<1>9. Written(g)'
  BY <1>1, <1>5 DEF Written
<1>10. fs'[cmd.to] = f /\ \A n \in Name : n # cmd.to => fs'[n] = fs[n]
  BY <1>1, <1>4, BaseFacts DEF FilesOk
<1>11. /\ faults \in Nat /\ faults' \in Nat
       /\ faults' = 0 => faults = 0
  BY <1>4 DEF EncAll
<1>12. "in" \in Name /\ "out" \in Name /\ "tmp" \in Name
  BY DEF Name
<1>13. cmd.to # "out" => Untouched(fs'["out"])
  BY <1>2, <1>10, <1>12
<1>14. CASE cmd.to = "tmp"
  <2>1. faults' = 0 => truth' = fs'["in"].data
    BY <1>1, <1>2, <1>10, <1>11, <1>12, <1>14
  <2>2. \E q \in AFile : Written(q)' /\ Outcome(fs["tmp"], q)'
    BY <1>8, <1>9, <1>10, <1>14
  <2>3. pc' = "armor" /\ cmd' = cmd /\ touched' \in {"no", "flush"} /\ truth' = enc'.data
    BY <1>1, <1>7, <1>14
  <2>4. EncInv'
    BY <1>1, <1>13, <1>14, <2>1, <2>2, <2>3 DEF EncInv, Encrypting
  <2>5. EncReturned' /\ IdleInv'
    BY <2>3 DEF EncReturned, IdleInv
  <2>6. QED
    BY <1>11, <2>4, <2>5 DEF EncAll
<1>15. CASE cmd.to # "tmp"
  <2>1. pc' = "ret" /\ cmd' = cmd /\ fs'["tmp"] = NoFile
    BY <1>1, <1>2, <1>10, <1>12, <1>15
  <2>2. faults' = 0 => truth' = fs'["in"].data
    <3>1. ASSUME faults' = 0 PROVE truth' = fs'["in"].data
      <4>1. faults = 0 /\ f = g
        BY <1>4, <1>11, <3>1
      <4>2. fs'["in"] = fs["in"]
        BY <1>3, <1>10, <1>12, <4>1
      <4>3. QED
        BY <1>1, <1>2, <4>1, <4>2
    <3>2. QED
      BY <3>1
  <2>3. touched' = "no" => f.kind = "cont" /\ Complete(f.frames)
    BY <1>5, <1>7
  <2>4. EncReturned'
    BY <1>1, <1>10, <1>13, <1>15, <2>1, <2>2, <2>3 DEF EncReturned
  <2>5. QED
    BY <1>11, <2>1, <2>4, EncReturns DEF EncAll
<1>16. QED
  BY <1>14, <1>15

LEMMA EncAllArmor ==
    ASSUME BaseInv, EncAll, Armor \/ ArmorFails
    PROVE  EncAll'
<1>1. /\ pc = "armor" /\ pc' = "ret" /\ cmd.op = "enc"
      /\ UNCHANGED <<cmd, enc, sink, truth, touched>>
  BY EncTarget DEF Armor, ArmorFails, Encrypting
<1>2. /\ cmd.to = "tmp" /\ rc = "ok" /\ Untouched(fs["out"])
      /\ \E g \in AFile : Written(g) /\ Outcome(fs["tmp"], g)
      /\ faults = 0 => truth = fs["in"].data
  BY <1>1 DEF EncAll, EncInv, Encrypting
<1>3. PICK g \in AFile : Written(g) /\ Outcome(fs["tmp"], g)
  BY <1>2
<1>4. "in" \in Name /\ "out" \in Name /\ "tmp" \in Name /\ fs["tmp"] \in AFile
  BY BaseFacts DEF Name
<1>5. g.kind = "cont" /\ Complete(g.frames)
  BY <1>3, WrittenIs
<1>6. touched = "no" => Complete(fs["tmp"].frames)
  BY <1>3, <1>5 DEF Outcome
<1>7. fs["out"].kind \in {"none", "old"}
  BY <1>2, FilesAre DEF Untouched
<1>8. CASE Armor
  <2>1. rc' = rc /\ faults' = faults /\ faults' \in Nat
    BY <1>8 DEF Armor, EncAll
  <2>2. fs' = [fs EXCEPT !["out"] = Armored(fs["tmp"]), !["tmp"] = NoFile]
    BY <1>8 DEF Armor
  <2>3. fs'["out"] = Armored(fs["tmp"]) /\ fs'["tmp"] = NoFile /\ fs'["in"] = fs["in"]
    BY <1>4, <2>2, BaseFacts DEF FilesOk
  <2>4. fs'["out"].kind = "armor" /\ fs'["out"].frames = fs["tmp"].frames
    BY <1>4, <2>3, ArmoredIs
  <2>5. EncReturned'
    BY <1>1, <1>2, <1>6, <2>1, <2>3, <2>4 DEF EncReturned
  <2>6. QED
    BY <1>1, <2>1, <2>5, EncReturns DEF EncAll
<1>9. CASE ArmorFails
  <2>1. rc' = "io" /\ faults' \in Nat
    BY <1>9 DEF ArmorFails, EncAll
  <2>2. PICK f \in {fs["out"]} \cup {Armored(x) : x \in Torn(fs["tmp"])} :
           fs' = [fs EXCEPT !["out"] = f, !["tmp"] = NoFile]
    BY <1>9 DEF ArmorFails
  <2>3. fs'["out"] = f /\ fs'["tmp"] = NoFile
    BY <1>4, <2>2, BaseFacts DEF FilesOk
  <2>4. f.kind # "cont"
    BY <1>4, <1>7, <2>2, TornIs, ArmoredIs
  <2>5. EncReturned'
    BY <1>1, <1>2, <2>1, <2>3, <2>4 DEF EncReturned
  <2>6. QED
    BY <1>1, <2>1, <2>5, EncReturns DEF EncAll
<1>10. QED
  BY <1>8, <1>9

LEMMA EncAllInput ==
    ASSUME BaseInv, EncAll, InputChanges
    PROVE  EncAll'
<1>1. /\ pc \in {"enc_open", "enc_frame"} /\ cmd.op = "enc" /\ fs["in"].kind = "plain"
      /\ faults' = faults + 1
      /\ UNCHANGED <<pc, cmd, enc, sink, rc, said, truth, touched>>
      /\ cmd.to \in Name
  BY EncTarget DEF InputChanges, Encrypting
<1>2. faults' \in Nat /\ faults' # 0
  BY <1>1 DEF EncAll
<1>3. \E d : fs' = [fs EXCEPT !["in"] = Plain(d)]
  BY DEF InputChanges, Write
<1>4. "in" \in Name /\ "out" \in Name /\ "tmp" \in Name /\ "pipe" \in Name
  BY DEF Name
<1>5. fs'["in"].kind = "plain" /\ \A n \in Name : n # "in" => fs'[n] = fs[n]
  BY <1>3, <1>4, BaseFacts DEF FilesOk, Plain, File
<1>6. pc = "enc_frame" => cmd.to # "in"
  <2>1. ASSUME pc = "enc_frame", cmd.to = "in" PROVE FALSE
    <3>1. fs["in"] = Cont(enc.hdr, fs["in"].frames)
      BY <1>1, <2>1 DEF EncAll, EncInv
    <3>2. Cont(enc.hdr, fs["in"].frames).kind = "cont"
      BY DEF Cont, File
    <3>3. QED
      BY <1>1, <3>1, <3>2
  <2>2. QED
    BY <2>1
<1>7. ReadSoFar'
  BY <1>2 DEF ReadSoFar
<1>8. EncInv'
  <2>1. CASE pc = "enc_open"
    <3>1. /\ EncStart(cmd, enc) /\ Untouched(fs["out"]) /\ fs["tmp"] = NoFile /\ fs["pipe"] = NoFile
          /\ touched = "no" /\ (cmd.to = "in" => ~cmd.stdin)
      BY <1>1, <2>1 DEF EncAll, EncInv, Encrypting
    <3>2. QED
      BY <1>1, <1>2, <1>4, <1>5, <2>1, <3>1 DEF EncInv, Encrypting
  <2>2. CASE pc = "enc_frame"
    <3>1. /\ fs[cmd.to] = Cont(enc.hdr, fs[cmd.to].frames)
          /\ EncLoop(cmd, enc, fs[cmd.to].frames)
          /\ touched = "no" /\ (cmd.to = "in" => ~cmd.stdin)
          /\ cmd.to # "out" => Untouched(fs["out"])
          /\ cmd.to # "tmp" => fs["tmp"] = NoFile
      BY <1>1, <2>2 DEF EncAll, EncInv, Encrypting
    <3>2. fs'[cmd.to] = fs[cmd.to] /\ fs'["out"] = fs["out"] /\ fs'["tmp"] = fs["tmp"]
      BY <1>1, <1>4, <1>5, <1>6, <2>2
    <3>3. QED
      BY <1>1, <1>5, <1>7, <2>2, <3>1, <3>2 DEF EncInv, Encrypting
  <2>3. QED
    BY <1>1, <2>1, <2>2
<1>9. EncReturned' /\ IdleInv'
  BY <1>1 DEF EncReturned, IdleInv
<1>10. QED
  BY <1>2, <1>8, <1>9 DEF EncAll

LEMMA EncAllCrash ==
    ASSUME BaseInv, EncAll, Crash
    PROVE  EncAll'
<1>1. pc' = "crashed" /\ cmd' = cmd /\ faults' \in Nat
  BY DEF Crash, EncAll
<1>2. EncInv'
  BY <1>1 DEF EncAll, EncInv, Encrypting
<1>3. EncReturned' /\ IdleInv'
  BY <1>1 DEF EncReturned, IdleInv
<1>4. QED
  BY <1>1, <1>2, <1>3 DEF EncAll

(* The container may be changed when it is there and nothing runs. *)
LEMMA EncAllTamper ==
    ASSUME BaseInv, EncAll, Tamper
    PROVE  EncAll'
<1>1. /\ pc = "idle" \/ (pc = "ret" /\ cmd.op = "enc" /\ rc = "ok")
      /\ fs["out"].kind = "cont" /\ touched = "no" /\ faults' = faults + 1
      /\ UNCHANGED <<pc, cmd, enc, sink, rc, said, truth>>
  BY DEF Tamper
<1>2. PICK f : /\ fs' = [fs EXCEPT !["out"] = f]
               /\ \/ f \in Relayed(fs["out"]) /\ touched' = "relay"
                  \/ f \in Resealed(fs["out"]) /\ touched' = "insider" /\ enc.trailer.pk = "S"
  BY DEF Tamper, Write
<1>3. faults' \in Nat /\ faults' # 0
  BY <1>1 DEF EncAll
<1>4. "in" \in Name /\ "out" \in Name /\ "tmp" \in Name /\ "pipe" \in Name
  BY DEF Name
<1>5. fs'["out"] = f /\ \A n \in Name : n # "out" => fs'[n] = fs[n]
  BY <1>2, <1>4, BaseFacts DEF FilesOk
<1>6. CASE pc = "idle"
  <2>1. enc = NoEnc /\ rc = "none" /\ fs["in"].kind = "plain" /\ fs["tmp"] = NoFile /\ fs["pipe"] = NoFile
    BY <1>6 DEF EncAll, IdleInv
  <2>2. enc.trailer.pk # "S"
    BY <2>1, NoEncIs, Blanks
  <2>3. f \in Relayed(fs["out"]) /\ touched' = "relay"
    BY <1>2, <2>2
  <2>4. f.kind = "cont"
    <3>1. Remade(f, fs["out"])
      BY <1>4, <2>3, BaseFacts, RelayedIs
    <3>2. Derived(f, fs["out"])
      BY <1>4, <3>1, BaseFacts, RemadeDerived
    <3>3. f = [fs["out"] EXCEPT !.hdr = f.hdr, !.frames = f.frames]
      BY <3>2 DEF Derived
    <3> DEFINE g == fs["out"]
               x == f.hdr
               y == f.frames
    <3>4. g \in AFile /\ f = [g EXCEPT !.hdr = x, !.frames = y]
      BY <1>4, <3>3, BaseFacts
    <3> HIDE DEF x, y, g
    <3>5. f.kind = g.kind
      BY <3>4 DEF AFile
    <3>6. QED
      BY <1>1, <3>5 DEF g
  <2>5. IdleInv'
    BY <1>1, <1>4, <1>5, <2>1, <2>3, <2>4 DEF IdleInv
  <2>6. cmd.op = "none"
    BY <1>6 DEF BaseInv, Phases, NoCmd
  <2>7. EncInv' /\ EncReturned'
    BY <1>1, <1>6, <2>6 DEF EncInv, EncReturned
  <2>8. QED
    BY <1>3, <2>5, <2>7 DEF EncAll
<1>7. CASE pc = "ret" /\ cmd.op = "enc" /\ rc = "ok"
  <2>1. fs["tmp"] = NoFile /\ (cmd.to \notin {"out", "tmp"} => Untouched(fs["out"]))
    BY <1>7 DEF EncAll, EncReturned
  <2>2. cmd.to \in {"out", "tmp"}
    BY <1>1, <2>1, FilesAre DEF Untouched
  <2>3. fs'["tmp"] = NoFile
    BY <1>4, <1>5, <2>1
  <2>4. touched' # "no"
    BY <1>2
  <2>5. EncReturned'
    BY <1>1, <1>3, <1>7, <2>2, <2>3, <2>4 DEF EncReturned
  <2>6. QED
    BY <1>1, <1>3, <1>7, <2>5, EncReturns DEF EncAll
<1>8. QED
  BY <1>1, <1>6, <1>7

(* Decryption says nothing about encryption. *)
LEMMA EncAllDec ==
    ASSUME EncAll, cmd'.op = "dec", pc' # "idle", faults' \in Nat
    PROVE  EncAll'
  BY DEF EncAll, IdleInv, EncInv, EncReturned

LEMMA EncInit ==
    ASSUME Init
    PROVE  EncAll
<1>1. /\ pc = "idle" /\ cmd = NoCmd /\ enc = NoEnc /\ rc = "none" /\ faults = 0 /\ touched = "no"
  BY DEF Init
<1>2. /\ fs["tmp"] = NoFile /\ fs["pipe"] = NoFile
      /\ \E n \in Lengths : fs["in"] = Plain(Numbers(n))
      /\ \/ Untouched(fs["out"])
         \/ fs["out"] \in {LegacyFile("v5"), LegacyFile("v6")}
  BY InitIs
<1>3. fs["in"].kind = "plain"
  BY <1>2 DEF Plain, File
<1>4. Untouched(fs["out"]) \/ fs["out"].kind = "cont"
  BY <1>2, LegacyFileIs
<1>5. IdleInv
  BY <1>1, <1>2, <1>3, <1>4 DEF IdleInv
<1>6. EncInv /\ EncReturned
  BY <1>1 DEF EncInv, EncReturned, NoCmd
<1>7. QED
  BY <1>1, <1>5, <1>6 DEF EncAll

LEMMA EncUnchanged ==
    ASSUME EncAll, UNCHANGED vars
    PROVE  EncAll'
<1>1. /\ UNCHANGED <<fs, pc, cmd, enc, sink, rc, faults, said, truth, touched>>
  BY DEF vars
<1>2. IdleInv'
  BY <1>1 DEF EncAll, IdleInv
<1>3. EncReturned'
  BY <1>1 DEF EncAll, EncReturned
<1>4. EncInv'
  BY <1>1 DEF EncAll, EncInv, Encrypting, ReadSoFar, Written, Outcome
<1>5. QED
  BY <1>1, <1>2, <1>3, <1>4 DEF EncAll

LEMMA EncStep ==
    ASSUME BaseInv, EncAll, [Next]_vars
    PROVE  EncAll'
<1>1. ASSUME NEW c \in Encryption, EncBegin(c) PROVE EncAll'
  BY <1>1, EncAllBegin
<1>2. ASSUME NEW c \in Decryption, DecBegin(c) PROVE EncAll'
  <2>1. c.op = "dec" /\ cmd' = c
    BY <1>2 DEF DecBegin, Decryption
  <2>2. pc' \in {"ret", "dec_frame"} /\ faults' = faults
    BY <1>2 DEF DecBegin, DecFail
  <2>3. QED
    BY <2>1, <2>2, EncAllDec DEF EncAll
<1>3. CASE EncOpen \/ EncFrame \/ EncClose \/ Armor \/ EncFlushLost \/ EncFault \/ ArmorFails
  BY <1>3, EncAllOpen, EncAllFrame, EncAllClose, EncAllArmor, EncAllFault
<1>4. CASE DecFrame \/ DecChunk \/ DecFinish \/ DecClose \/ DecFlushLost \/ DecFault
  <2>1. Decrypting /\ cmd' = cmd
    BY <1>4 DEF DecFrame, DecChunk, DecFinish, DecClose, DecFlushLost, DecFault, Decrypting
  <2>2. cmd'.op = "dec"
    BY <2>1, DecFacts
  <2>3. pc' # "idle"
    BY <1>4 DEF DecFrame, DecChunk, DecFinish, DecClose, DecFlushLost, DecFault, DecFail
  <2>4. faults' = faults \/ faults' = faults + 1
    BY <1>4 DEF DecFrame, DecChunk, DecFinish, DecClose, DecFlushLost, DecFault
  <2>5. faults' \in Nat
    BY <2>4 DEF EncAll
  <2>6. QED
    BY <2>2, <2>3, <2>5, EncAllDec
<1>5. CASE InputChanges \/ Crash \/ Tamper
  BY <1>5, EncAllInput, EncAllCrash, EncAllTamper
<1>6. CASE UNCHANGED vars
  BY <1>6, EncUnchanged
<1>7. QED
  BY <1>1, <1>2, <1>3, <1>4, <1>5, <1>6 DEF Next, Step

(***************************************************************************)
(* The third part, decryption.  The sink that has taken j cells of the     *)
(* stream apart takes the next ones apart.                                 *)
(***************************************************************************)
(* So many cells are n cells of contents, trailer and padding.             *)
Parted(n, a, b, p, L, T, P, x, y, z) ==
    /\ x + y + z = n
    /\ a + x <= L /\ b + y <= T /\ p + z <= P
    /\ x > 0 => b = 0 /\ p = 0
    /\ y > 0 => a + x = L /\ p = 0
    /\ p + z > 0 => b + y = T
    /\ b + y > 0 \/ p + z > 0 => a + x = L

LEMMA KnownNumbers ==
    ASSUME NEW n \in Nat, NEW a \in Nat, NEW b \in Nat, NEW p \in Nat,
           NEW L \in Nat, NEW T \in Nat, NEW P \in Nat,
           NEW x \in Nat, NEW y \in Nat, NEW z \in Nat,
           x = Clamp(L - a, n), y = Clamp(T - b, n - x), z = Clamp(P - p, n - x - y),
           a <= L, b <= T, p <= P,
           p > 0 => b = T, (b > 0 \/ p > 0) => a = L,
           a + b + p + n <= L + T + P
    PROVE  Parted(n, a, b, p, L, T, P, x, y, z)
<1>1. x = IF L - a <= n THEN L - a ELSE n
  BY DEF Clamp
<1>2. y = IF T - b <= n - x THEN T - b ELSE n - x
  BY <1>1 DEF Clamp
<1>3. z = IF P - p <= n - x - y THEN P - p ELSE n - x - y
  BY <1>1, <1>2 DEF Clamp
<1>4. /\ n \in Nat /\ a \in Nat /\ b \in Nat /\ p \in Nat /\ L \in Nat /\ T \in Nat /\ P \in Nat
      /\ x \in Nat /\ y \in Nat /\ z \in Nat
      /\ a <= L /\ b <= T /\ p <= P
      /\ p > 0 => b = T
      /\ b > 0 => a = L
      /\ p > 0 => a = L
      /\ a + b + p + n <= L + T + P
  OBVIOUS
<1>5. CASE n < L - a
  <2>1. x = n /\ a < L
    BY ONLY <1>1, <1>4, <1>5
  <2>2. b = 0 /\ p = 0
    BY ONLY <1>4, <2>1
  <2>3. y = 0
    BY ONLY <1>2, <1>4, <2>1, <2>2
  <2>4. z = 0
    BY ONLY <1>3, <1>4, <2>1, <2>2, <2>3
  <2>5. /\ x + y + z = n
        /\ a + x <= L /\ b + y <= T /\ p + z <= P
        /\ ~(y > 0) /\ ~(p + z > 0) /\ ~(b + y > 0)
    BY ONLY <1>4, <1>5, <2>1, <2>2, <2>3, <2>4
  <2>6. QED
    BY <2>2, <2>5 DEF Parted
<1>6. CASE L - a <= n
  <2>1. x = L - a
    BY ONLY <1>1, <1>4, <1>6
  <2>2. x > 0 => b = 0 /\ p = 0
    BY ONLY <1>4, <2>1
  <2>3. CASE n - x < T - b
    <3>1. y = n - x
      BY ONLY <1>2, <1>4, <2>1, <2>3
    <3>2. b < T
      BY ONLY <1>4, <1>6, <2>1, <2>3
    <3>3. p = 0
      BY ONLY <1>4, <3>2
    <3>4. z = 0
      BY ONLY <1>3, <1>4, <3>1, <3>3
    <3>5. /\ x + y + z = n
          /\ a + x <= L /\ b + y <= T /\ p + z <= P
          /\ a + x = L /\ ~(p + z > 0)
      BY ONLY <1>4, <1>6, <2>1, <2>3, <3>1, <3>3, <3>4
    <3>6. QED
      BY <2>2, <3>3, <3>5 DEF Parted
  <2>4. CASE T - b <= n - x
    <3>1. y = T - b
      BY ONLY <1>2, <1>4, <2>1, <2>4
    <3>2. n - x - y <= P - p
      BY ONLY <1>4, <2>1, <3>1
    <3>3. z = n - x - y
      BY ONLY <1>3, <1>4, <2>1, <3>1, <3>2
    <3>4. /\ x + y + z = n
          /\ a + x <= L /\ b + y <= T /\ p + z <= P
          /\ a + x = L /\ b + y = T
          /\ y > 0 => p = 0
      BY ONLY <1>4, <2>1, <3>1, <3>2, <3>3
    <3>5. QED
      BY <2>2, <3>4 DEF Parted
  <2>5. QED
    BY <2>1, <2>3, <2>4
<1>7. QED
  BY <1>5, <1>6

(* What Layout says of the parts of the stream. *)
LEMMA LayoutIs ==
    ASSUME NEW h, NEW m, NEW d \in Seq(Int), NEW t \in ATrailer, Layout(h, m, d, t)
    PROVE  /\ m \in AMeta /\ m.pad \in Nat /\ m.signed \in BOOLEAN /\ m.len \in Int
           /\ Len(d) \in Nat
           /\ m.len # Unknown => m.len = Len(d)
           /\ m.len = Unknown => m.pad = 0
           /\ Len(TrailerPart(t)) = IF m.signed THEN TrailerSize ELSE 0
           /\ Len(TrailerPart(t)) \in Nat
           /\ Len(Stream(m, d, t)) = 1 + Len(d) + Len(TrailerPart(t)) + m.pad
           /\ \A i \in 1 .. Len(d) : Stream(m, d, t)[1 + i] = DataCell(d[i])
           /\ TrailerSize \in Nat \ {0}
<1>1. m \in AMeta
  BY DEF Layout
<1>2. m.pad \in Nat /\ m.signed \in BOOLEAN /\ m.len \in Int /\ Len(d) \in Nat
  BY <1>1, LenProperties DEF AMeta
<1>3. TrailerSize \in Nat \ {0}
  BY FramesAssumption
<1>4. /\ Len(TrailerPart(t)) = IF t = NoTrailer THEN 0 ELSE TrailerSize
  BY TrailerPartIs
<1>5. m.signed = (t # NoTrailer) /\ m.len \in {Unknown, Len(d)} /\ (m.pad > 0 => m.len # Unknown)
  BY DEF Layout
<1>6. /\ Len(Stream(m, d, t)) = 1 + Len(d) + Len(TrailerPart(t)) + m.pad
      /\ \A i \in 1 .. Len(d) : Stream(m, d, t)[1 + i] = DataCell(d[i])
  BY <1>1, StreamIs
<1>7. Len(TrailerPart(t)) = (IF m.signed THEN TrailerSize ELSE 0) /\ Len(TrailerPart(t)) \in Nat
  <2>1. CASE t = NoTrailer
    <3>1. Len(TrailerPart(t)) = 0 /\ ~m.signed
      BY <1>4, <1>5, <2>1
    <3>2. QED
      BY <3>1
  <2>2. CASE t # NoTrailer
    <3>1. Len(TrailerPart(t)) = TrailerSize /\ m.signed
      BY <1>4, <1>5, <2>2
    <3>2. QED
      BY <1>3, <3>1
  <2>3. QED
    BY <2>1, <2>2
<1>8. m.len = Unknown => m.pad = 0
  BY <1>2, <1>5
<1>9. QED
  BY <1>1, <1>2, <1>3, <1>5, <1>6, <1>7, <1>8

(* What is known of the sink after j cells, at least one. *)
SinkParts(s, m, d, t, j) ==
    /\ s.meta_done /\ s.meta = m /\ s.err = "no"
    /\ 1 + Len(s.data) + Len(s.tbuf) + s.pad_seen = j
    /\ Len(s.data) <= Len(d) /\ Len(s.tbuf) <= Len(TrailerPart(t)) /\ s.pad_seen <= m.pad
    /\ s.pad_seen > 0 => Len(s.tbuf) = Len(TrailerPart(t))
    /\ m.len # Unknown => ((Len(s.tbuf) > 0 \/ s.pad_seen > 0) => Len(s.data) = Len(d))
    /\ m.len = Unknown => (Len(s.data) > 0 => Len(s.tbuf) = Len(TrailerPart(t)))
    /\ \A i \in 1 .. Len(s.data) : s.data[i] = d[i]
    /\ \A i \in 1 .. Len(s.tbuf) : s.tbuf[i] = Stream(m, d, t)[1 + Len(s.data) + i]

LEMMA SinkAtIs ==
    ASSUME NEW s \in ASink, NEW m, NEW d, NEW t, NEW j \in Nat \ {0}, SinkAt(s, m, d, t, j)
    PROVE  SinkParts(s, m, d, t, j)
<1>1. /\ s.data \in Seq(Int) /\ s.tbuf \in Seq(ACell)
      /\ s.data = <<>> <=> Len(s.data) = 0
      /\ s.tbuf = <<>> <=> Len(s.tbuf) = 0
      /\ Len(s.data) \in Nat /\ Len(s.tbuf) \in Nat
  <2>1. s.data \in Seq(Int) /\ s.tbuf \in Seq(ACell) /\ Len(s.data) \in Nat /\ Len(s.tbuf) \in Nat
    BY SinkFields
  <2>2. QED
    BY <2>1, EmptyHasNone
<1>2. j > 0
  OBVIOUS
<1>3. s.tbuf # <<>> <=> Len(s.tbuf) > 0
  BY <1>1
<1>4. s.data # <<>> <=> Len(s.data) > 0
  BY <1>1
<1>5. /\ s.err = "no"
      /\ s.meta_done = (j > 0)
      /\ j > 0 => s.meta = m /\ 1 + Len(s.data) + Len(s.tbuf) + s.pad_seen = j
      /\ Len(s.data) <= Len(d)
      /\ \A i \in 1 .. Len(s.data) : s.data[i] = d[i]
      /\ \A i \in 1 .. Len(s.tbuf) : s.tbuf[i] = Stream(m, d, t)[1 + Len(s.data) + i]
      /\ Len(s.tbuf) <= Len(TrailerPart(t))
      /\ s.pad_seen <= m.pad
      /\ s.pad_seen > 0 => Len(s.tbuf) = Len(TrailerPart(t))
      /\ m.len # Unknown /\ (s.tbuf # <<>> \/ s.pad_seen > 0) => Len(s.data) = Len(d)
      /\ m.len = Unknown /\ s.data # <<>> => Len(s.tbuf) = Len(TrailerPart(t))
  BY DEF SinkAt
<1>6. s.meta_done
  BY <1>2, <1>5
<1>7. QED
  BY <1>2, <1>3, <1>4, <1>5, <1>6 DEF SinkParts

LEMMA IsSinkAt ==
    ASSUME NEW s \in ASink, NEW m, NEW d \in Seq(Int), NEW t \in ATrailer, NEW j \in Nat \ {0},
           SinkParts(s, m, d, t, j)
    PROVE  SinkAt(s, m, d, t, j)
<1>1. /\ s.data \in Seq(Int) /\ s.tbuf \in Seq(ACell) /\ s.meta_done \in BOOLEAN
      /\ Len(s.data) \in Nat /\ Len(s.tbuf) \in Nat
  BY SinkFields
<1>2. (s.data = <<>> <=> Len(s.data) = 0) /\ (s.tbuf = <<>> <=> Len(s.tbuf) = 0)
  BY <1>1, EmptyHasNone
<1>3. j > 0 /\ j # 0
  OBVIOUS
<1>4. s.tbuf # <<>> => Len(s.tbuf) > 0
  BY <1>1, <1>2
<1>5. s.data # <<>> => Len(s.data) > 0
  BY <1>1, <1>2
<1>6. s.meta_done = (j > 0)
  BY <1>1, <1>3 DEF SinkParts
<1>7. j = 0 => s.data = <<>> /\ s.tbuf = <<>> /\ s.pad_seen = 0
  BY <1>3
<1>8. m.len # Unknown /\ (s.tbuf # <<>> \/ s.pad_seen > 0) => Len(s.data) = Len(d)
  BY <1>4 DEF SinkParts
<1>9. m.len = Unknown /\ s.data # <<>> => Len(s.tbuf) = Len(TrailerPart(t))
  BY <1>5 DEF SinkParts
<1>10. QED
  BY <1>6, <1>7, <1>8, <1>9 DEF SinkAt, SinkParts

(* One part of a sequence follows another. *)
LEMMA Follows ==
    ASSUME NEW S, NEW u \in Seq(S), NEW v \in Seq(S), NEW w, NEW o \in Nat,
           \A i \in 1 .. Len(u) : u[i] = w[o + i],
           \A i \in 1 .. Len(v) : v[i] = w[o + Len(u) + i]
    PROVE  /\ u \o v \in Seq(S) /\ Len(u \o v) = Len(u) + Len(v)
           /\ \A i \in 1 .. Len(u \o v) : (u \o v)[i] = w[o + i]
<1>1. /\ u \o v \in Seq(S) /\ Len(u \o v) = Len(u) + Len(v)
      /\ \A i \in 1 .. Len(u) : (u \o v)[i] = u[i]
      /\ \A i \in 1 .. Len(v) : (u \o v)[Len(u) + i] = v[i]
  BY ConcatIs
<1>2. Len(u) \in Nat /\ Len(v) \in Nat
  BY LenProperties
<1>3. ASSUME NEW i \in 1 .. Len(u \o v) PROVE (u \o v)[i] = w[o + i]
  <2>1. CASE i <= Len(u)
    BY <1>1, <1>2, <1>3, <2>1
  <2>2. CASE i > Len(u)
    <3>1. i - Len(u) \in 1 .. Len(v) /\ i = Len(u) + (i - Len(u))
      BY <1>1, <1>2, <1>3, <2>2
    <3>2. (u \o v)[i] = v[i - Len(u)]
      BY <1>1, <3>1
    <3>3. v[i - Len(u)] = w[o + Len(u) + (i - Len(u))]
      BY <3>1
    <3>4. o + Len(u) + (i - Len(u)) = o + i
      BY <1>2, <1>3
    <3>5. QED
      BY <3>2, <3>3, <3>4
  <2>3. QED
    BY <1>2, <1>3, <2>1, <2>2
<1>4. QED
  BY <1>1, <1>3

(* The next cells are the ones the parts are made of. *)
NextCells(m, d, t, j, cells) ==
    /\ j + Len(cells) <= Len(Stream(m, d, t))
    /\ \A i \in 1 .. Len(cells) : cells[i] = Stream(m, d, t)[j + i]

(* The cells c hold the contents d from position a on. *)
DataNext(c, d, a) ==
    /\ Contents(c) \in Seq(Int) /\ Len(Contents(c)) = Len(c)
    /\ \A i \in 1 .. Len(c) : Contents(c)[i] = d[a + i]

LEMMA ContentsNext ==
    ASSUME NEW m \in AMeta, NEW d \in Seq(Int), NEW t \in ATrailer,
           NEW c \in Seq(ACell), NEW a \in Nat, a + Len(c) <= Len(d),
           \A i \in 1 .. Len(c) : c[i] = Stream(m, d, t)[1 + a + i]
    PROVE  DataNext(c, d, a)
<1>1. /\ Contents(c) \in Seq(Int) /\ Len(Contents(c)) = Len(c)
      /\ \A i \in 1 .. Len(c) : \A k \in Int : c[i] = DataCell(k) => Contents(c)[i] = k
  BY ContentsIs
<1>2. Len(c) \in Nat /\ Len(d) \in Nat
  BY LenProperties
<1>3. \A i \in 1 .. Len(d) : Stream(m, d, t)[1 + i] = DataCell(d[i])
  BY StreamIs
<1>4. ASSUME NEW i \in 1 .. Len(c) PROVE Contents(c)[i] = d[a + i]
  <2>1. a + i \in 1 .. Len(d)
    BY <1>2, <1>4
  <2>2. Stream(m, d, t)[1 + (a + i)] = DataCell(d[a + i])
    BY ONLY <1>3, <2>1
  <2>3. 1 + a + i = 1 + (a + i)
    BY <1>4, <1>2
  <2>4. d[a + i] \in Int
    BY <2>1, ElementOfSeq
  <2>5. QED
    BY <1>1, <1>4, <2>2, <2>3, <2>4
<1>5. QED
  BY <1>1, <1>4 DEF DataNext

(* Contents, trailer and padding grow by what was taken for them. *)
LEMMA GrownAt ==
    ASSUME NEW s \in ASink, NEW r, NEW m, NEW d \in Seq(Int), NEW t \in ATrailer,
           NEW j \in Nat \ {0}, SinkAt(s, m, d, t, j),
           NEW D \in Seq(Int), NEW u \in Seq(ACell), NEW z \in Nat,
           RoutedTo(s, r, D, s.tbuf \o u, s.pad_seen + z, "no"),
           NEW n \in Nat, NEW T, T = Len(TrailerPart(t)), T \in Nat, m.pad \in Nat,
           Parted(n, Len(s.data), Len(s.tbuf), s.pad_seen, Len(d), T, m.pad, Len(D), Len(u), z),
           m.len # Unknown,
           \A i \in 1 .. Len(D) : D[i] = d[Len(s.data) + i],
           \A i \in 1 .. Len(u) :
              u[i] = Stream(m, d, t)[1 + (Len(s.data) + Len(D)) + Len(s.tbuf) + i]
    PROVE  SinkAt(r, m, d, t, j + n)
<1> DEFINE S == Stream(m, d, t)
           e == s.data
           f == s.tbuf
           a == Len(e)
           b == Len(f)
           p == s.pad_seen
           L == Len(d)
           P == m.pad
           x == Len(D)
           y == Len(u)
           o == 1 + (a + x)
<1>1. /\ s.meta_done /\ s.meta = m /\ s.err = "no"
      /\ 1 + a + b + p = j
      /\ \A i \in 1 .. a : e[i] = d[i]
      /\ \A i \in 1 .. b : f[i] = S[1 + a + i]
  <2>1. SinkParts(s, m, d, t, j)
    BY SinkAtIs
  <2>2. QED
    BY <2>1 DEF SinkParts
<1>2. /\ e \in Seq(Int) /\ f \in Seq(ACell) /\ a \in Nat /\ b \in Nat /\ p \in Nat
      /\ L \in Nat /\ P \in Nat /\ x \in Nat /\ y \in Nat /\ n \in Nat /\ z \in Nat /\ j \in Nat
      /\ T \in Nat
  BY SinkFields, LenProperties
<1>3. /\ x + y + z = n
      /\ a + x <= L /\ b + y <= T /\ p + z <= P
      /\ x > 0 => b = 0 /\ p = 0
      /\ p + z > 0 => b + y = T
      /\ (b + y > 0 \/ p + z > 0) => a + x = L
  BY DEF Parted
<1>4. /\ \A i \in 1 .. x : D[i] = d[a + i]
      /\ \A i \in 1 .. y : u[i] = S[1 + (a + x) + b + i]
      /\ D \in Seq(Int) /\ u \in Seq(ACell)
  OBVIOUS
<1>5. r \in ASink /\ r.meta_done /\ r.meta = m /\ r.err = "no"
      /\ r.data = e \o D /\ r.tbuf = f \o u /\ r.pad_seen = p + z
  BY <1>1 DEF RoutedTo
<1>6. a = Len(e) /\ b = Len(f) /\ x = Len(D) /\ y = Len(u)
  OBVIOUS
<1> HIDE DEF S, e, f, a, b, p, L, P, x, y
<1>7. o \in Nat /\ (\A i \in 1 .. y : u[i] = S[o + b + i])
  BY ONLY <1>2, <1>4
<1>8. \A i \in 1 .. b : f[i] = S[o + i]
  <2>1. ASSUME NEW i \in 1 .. b PROVE f[i] = S[o + i]
    <3>1. b > 0
      BY ONLY <1>2, i \in 1 .. b
    <3>2. x = 0
      BY ONLY <1>2, <1>3, <3>1
    <3>3. o = 1 + a
      BY ONLY <1>2, <3>2
    <3>4. QED
      BY <1>1, <3>3
  <2>2. QED
    BY <2>1
<1> HIDE DEF o
<1>9. /\ f \o u \in Seq(ACell) /\ Len(f \o u) = b + y
      /\ \A i \in 1 .. b + y : (f \o u)[i] = S[o + i]
  <2>1. /\ \A i \in 1 .. Len(f) : f[i] = S[o + i]
        /\ \A i \in 1 .. Len(u) : u[i] = S[o + Len(f) + i]
    BY ONLY <1>6, <1>7, <1>8
  <2>2. /\ f \o u \in Seq(ACell) /\ Len(f \o u) = Len(f) + Len(u)
        /\ \A i \in 1 .. Len(f \o u) : (f \o u)[i] = S[o + i]
    BY ONLY <1>2, <1>4, <1>7, <2>1, Follows
  <2>3. QED
    BY ONLY <1>6, <2>2
<1>10. /\ e \o D \in Seq(Int) /\ Len(e \o D) = a + x
       /\ \A i \in 1 .. a + x : (e \o D)[i] = d[i]
  <2>1. /\ \A i \in 1 .. Len(e) : e[i] = d[0 + i]
        /\ \A i \in 1 .. Len(D) : D[i] = d[0 + Len(e) + i]
    <3>1. 0 + a = a /\ a \in Nat /\ x \in Nat
      BY ONLY <1>2
    <3>2. \A i \in 1 .. a : 0 + i = i
      BY ONLY <3>1
    <3>3. \A i \in 1 .. a : e[i] = d[0 + i]
      BY ONLY <1>1, <3>2
    <3>4. \A i \in 1 .. x : D[i] = d[0 + a + i]
      BY ONLY <1>4, <3>1
    <3>5. QED
      BY ONLY <1>6, <3>3, <3>4
  <2>2. 0 \in Nat
    OBVIOUS
  <2>3. /\ e \o D \in Seq(Int) /\ Len(e \o D) = Len(e) + Len(D)
        /\ \A i \in 1 .. Len(e \o D) : (e \o D)[i] = d[0 + i]
    BY ONLY <1>2, <1>4, <2>1, <2>2, Follows
  <2>4. Len(e \o D) = a + x
    BY ONLY <1>6, <2>3
  <2>5. ASSUME NEW i \in 1 .. a + x PROVE (e \o D)[i] = d[i]
    <3>1. 0 + i = i
      OBVIOUS
    <3>2. (e \o D)[i] = d[0 + i]
      BY ONLY <2>3, <2>4, i \in 1 .. a + x
    <3>3. QED
      BY ONLY <3>1, <3>2
  <2>6. QED
    BY <2>3, <2>4, <2>5
<1> DEFINE g == r.data
           k == r.tbuf
           q == r.pad_seen
           J == j + n
<1>11. /\ Len(g) = a + x /\ Len(k) = b + y /\ q = p + z
       /\ \A i \in 1 .. Len(g) : g[i] = d[i]
       /\ \A i \in 1 .. Len(k) : k[i] = S[o + i]
  BY <1>5, <1>9, <1>10
<1>12. o = 1 + Len(g)
  BY <1>11 DEF o
<1> HIDE DEF g, k, q
<1>13. /\ 1 + Len(g) + Len(k) + q = J /\ J \in Nat \ {0}
       /\ Len(g) <= L /\ Len(k) <= T /\ q <= P
       /\ q > 0 => Len(k) = T
       /\ (Len(k) > 0 \/ q > 0) => Len(g) = L
  <2>1. 1 + a + b + p = j
    BY <1>1
  <2>2. 1 + (a + x) + (b + y) + (p + z) = j + n
    BY ONLY <1>2, <1>3, <2>1
  <2>3. j + n \in Nat \ {0}
    BY ONLY <1>2, <2>1
  <2>4. Len(g) = a + x /\ Len(k) = b + y /\ q = p + z
    BY <1>11
  <2>5. QED
    BY ONLY <1>3, <2>2, <2>3, <2>4
<1> HIDE DEF J
<1>14. \A i \in 1 .. Len(k) : k[i] = S[1 + Len(g) + i]
  BY ONLY <1>11, <1>12
<1>15. SinkAt(r, m, d, t, J)
  <2>1. /\ 1 + Len(r.data) + Len(r.tbuf) + r.pad_seen = J
        /\ Len(r.data) <= Len(d) /\ Len(r.tbuf) <= Len(TrailerPart(t)) /\ r.pad_seen <= m.pad
        /\ r.pad_seen > 0 => Len(r.tbuf) = Len(TrailerPart(t))
        /\ (Len(r.tbuf) > 0 \/ r.pad_seen > 0) => Len(r.data) = Len(d)
        /\ \A i \in 1 .. Len(r.data) : r.data[i] = d[i]
        /\ \A i \in 1 .. Len(r.tbuf) : r.tbuf[i] = Stream(m, d, t)[1 + Len(r.data) + i]
    BY <1>11, <1>13, <1>14 DEF g, k, q, L, P, S
  <2>2. J \in Nat \ {0}
    BY <1>13
  <2>3. r \in ASink /\ r.meta_done /\ r.meta = m /\ r.err = "no"
    BY <1>5
  <2>4. SinkParts(r, m, d, t, J)
    BY <2>1, <2>3 DEF SinkParts
  <2>5. QED
    BY <2>2, <2>3, <2>4, IsSinkAt
<1>16. QED
  BY <1>15 DEF J

LEMMA ReadsKnown ==
    ASSUME NEW h, NEW s \in ASink, NEW m, NEW d \in Seq(Int), NEW t \in ATrailer, Layout(h, m, d, t),
           NEW j \in Nat \ {0}, SinkAt(s, m, d, t, j), NEW cells \in Seq(ACell),
           NextCells(m, d, t, j, cells), m.len # Unknown
    PROVE  SinkAt(SinkKnown(s, cells), m, d, t, j + Len(cells))
<1> DEFINE S == Stream(m, d, t)
           n == Len(cells)
           a == Len(s.data)
           b == Len(s.tbuf)
           p == s.pad_seen
           L == Len(d)
           T == Len(TrailerPart(t))
           P == m.pad
           g == m.signed
           c == KnC(s, cells)
           u == KnT(s, cells)
           q == KnP(s, cells)
           x == Len(c)
           y == Len(u)
           z == Len(q)
           r == SinkKnown(s, cells)
           D == Contents(c)
           K == KnErr(s, cells)
<1>1. /\ P \in Nat /\ g \in BOOLEAN /\ L \in Nat /\ T \in Nat
      /\ m.len = L /\ T = (IF g THEN TrailerSize ELSE 0)
      /\ Len(S) = 1 + L + T + P
  BY LayoutIs, ZenonT(60)
<1>2. /\ s.meta = m /\ s.err = "no"
      /\ 1 + a + b + p = j
      /\ a <= L /\ b <= T /\ p <= P
      /\ p > 0 => b = T
      /\ (b > 0 \/ p > 0) => a = L
  <2>1. SinkParts(s, m, d, t, j)
    BY SinkAtIs
  <2>2. QED
    BY <2>1 DEF SinkParts
<1>3. /\ a \in Nat /\ b \in Nat /\ p \in Nat /\ n \in Nat /\ j \in Nat
      /\ s.tbuf \in Seq(ACell)
  BY SinkFields, LenProperties
<1>4. /\ c \in Seq(ACell) /\ u \in Seq(ACell) /\ q \in Seq(ACell)
      /\ x \in Nat /\ y \in Nat /\ z \in Nat
      /\ x = Clamp(s.meta.len - a, n)
      /\ y = IF s.meta.signed THEN Clamp(TrailerSize - b, n - x) ELSE 0
      /\ z = Clamp(s.meta.pad - p, n - x - y)
      /\ \A i \in 1 .. x : i \in 1 .. n /\ c[i] = cells[i]
      /\ \A i \in 1 .. y : x + i \in 1 .. n /\ u[i] = cells[x + i]
  BY KnIs
<1>5. x = Clamp(L - a, n) /\ z = Clamp(P - p, n - x - y)
      /\ y = IF g THEN Clamp(TrailerSize - b, n - x) ELSE 0
  BY <1>1, <1>2, <1>4
<1>6. j + n <= Len(S) /\ (\A i \in 1 .. n : cells[i] = S[j + i])
  BY DEF NextCells
<1>7. Routed(s, r, D, s.tbuf \o u, p + z, K)
  BY SinkKnownIs
<1>8. K = IF x + y + z < n THEN "input" ELSE s.err
  BY DEF KnErr
<1>9. x = Len(c) /\ y = Len(u)
  OBVIOUS
<1> HIDE DEF S, n, a, b, p, L, T, P, g, c, u, q, x, y, z, r, D, K
<1>10. y = Clamp(T - b, n - x)
  <2>1. CASE g
    BY <1>1, <1>5, <2>1
  <2>2. CASE ~g
    <3>1. T = 0 /\ y = 0
      BY ONLY <1>1, <1>5, <2>2
    <3>2. b = 0
      BY ONLY <1>2, <1>3, <3>1
    <3>3. QED
      BY ONLY <3>1, <3>2 DEF Clamp
  <2>3. QED
    BY <1>1, <2>1, <2>2
<1>11. Parted(n, a, b, p, L, T, P, x, y, z)
  <2>1. Len(S) = 1 + L + T + P /\ j + n <= Len(S) /\ 1 + a + b + p = j
    BY <1>1, <1>2, <1>6
  <2>2. L \in Nat /\ T \in Nat /\ P \in Nat
    BY <1>1
  <2>3. a + b + p + n <= L + T + P
    BY ONLY <1>3, <2>1, <2>2
  <2>4. /\ n \in Nat /\ a \in Nat /\ b \in Nat /\ p \in Nat /\ x \in Nat /\ y \in Nat /\ z \in Nat
        /\ x = Clamp(L - a, n) /\ z = Clamp(P - p, n - x - y)
        /\ a <= L /\ b <= T /\ p <= P
        /\ p > 0 => b = T
        /\ (b > 0 \/ p > 0) => a = L
    BY <1>2, <1>3, <1>4, <1>5
  <2>5. QED
    BY ONLY <1>10, <2>2, <2>3, <2>4, KnownNumbers
<1>12. /\ x + y + z = n
       /\ a + x <= L
       /\ x > 0 => b = 0 /\ p = 0
       /\ y > 0 => p = 0
  BY <1>11 DEF Parted
<1>13. /\ a \in Nat /\ b \in Nat /\ p \in Nat /\ n \in Nat /\ x \in Nat /\ y \in Nat /\ z \in Nat
       /\ 1 + a + b + p = j
  BY <1>2, <1>3, <1>4
<1>14. K = "no"
  <2>1. ~(x + y + z < n)
    BY ONLY <1>12, <1>13
  <2>2. QED
    BY ONLY <1>2, <1>8, <2>1
<1>15. \A i \in 1 .. x : c[i] = S[1 + a + i]
  <2>1. ASSUME NEW i \in 1 .. x PROVE c[i] = S[1 + a + i]
    <3>1. i \in 1 .. n /\ c[i] = cells[i]
      BY <1>4
    <3>2. cells[i] = S[j + i]
      BY <1>6, <3>1
    <3>3. x > 0
      BY ONLY <1>13, i \in 1 .. x
    <3>4. j = 1 + a
      BY ONLY <1>12, <1>13, <3>3
    <3>5. QED
      BY ONLY <3>1, <3>2, <3>4
  <2>2. QED
    BY <2>1
<1>16. D \in Seq(Int) /\ Len(D) = x /\ (\A i \in 1 .. x : D[i] = d[a + i])
  <2>1. Len(c) = x /\ a + x <= Len(d) /\ c \in Seq(ACell) /\ a \in Nat
    BY <1>4, <1>9, <1>12, <1>13 DEF L
  <2>2. /\ a + Len(c) <= Len(d)
        /\ \A i \in 1 .. Len(c) : c[i] = Stream(m, d, t)[1 + a + i]
    BY <1>15, <2>1 DEF S
  <2>3. m \in AMeta
    BY LayoutIs
  <2>4. DataNext(c, d, a)
    BY <2>1, <2>2, <2>3, ContentsNext
  <2>5. QED
    BY <2>1, <2>4 DEF D, DataNext
<1>17. \A i \in 1 .. y : u[i] = S[1 + (a + x) + b + i]
  <2>1. ASSUME NEW i \in 1 .. y PROVE u[i] = S[1 + (a + x) + b + i]
    <3>1. x + i \in 1 .. n /\ u[i] = cells[x + i]
      BY <1>4
    <3>2. cells[x + i] = S[j + (x + i)]
      BY ONLY <1>6, <3>1
    <3>3. y > 0 /\ i \in Nat
      BY ONLY <1>13, i \in 1 .. y
    <3>4. p = 0
      BY <1>12, <3>3
    <3>5. j + (x + i) = 1 + (a + x) + b + i
      BY ONLY <1>13, <3>3, <3>4
    <3>6. QED
      BY ONLY <3>1, <3>2, <3>5
  <2>2. QED
    BY <2>1
<1>18. p + z \in Nat
  BY ONLY <1>13
<1>19. s.tbuf \o u \in Seq(ACell)
  BY <1>3, <1>4, ConcatIs
<1>20. RoutedTo(s, r, D, s.tbuf \o u, p + z, "no")
  <2>1. Routed(s, r, D, s.tbuf \o u, p + z, "no") /\ "no" \in {"no", "input"}
    BY <1>7, <1>14
  <2>2. QED
    BY <1>16, <1>18, <1>19, <2>1, RoutedIs
<1>21. SinkAt(r, m, d, t, j + n)
  <2>1. /\ RoutedTo(s, r, D, s.tbuf \o u, s.pad_seen + z, "no")
        /\ T = Len(TrailerPart(t)) /\ T \in Nat /\ m.pad \in Nat
        /\ Parted(n, Len(s.data), Len(s.tbuf), s.pad_seen, Len(d), T, m.pad, Len(D), Len(u), z)
        /\ \A i \in 1 .. Len(D) : D[i] = d[Len(s.data) + i]
        /\ \A i \in 1 .. Len(u) :
              u[i] = Stream(m, d, t)[1 + (Len(s.data) + Len(D)) + Len(s.tbuf) + i]
    BY <1>1, <1>9, <1>11, <1>16, <1>17, <1>20 DEF a, b, p, L, T, P, S
  <2>2. D \in Seq(Int) /\ u \in Seq(ACell) /\ z \in Nat /\ n \in Nat
    BY <1>4, <1>13, <1>16
  <2>3. QED
    BY <2>1, <2>2, GrownAt
<1>22. QED
  BY <1>21 DEF r, n

LEMMA DataGrows ==
    ASSUME NEW e \in Seq(Int), NEW D \in Seq(Int), NEW d \in Seq(Int),
           \A i \in 1 .. Len(e) : e[i] = d[i],
           \A i \in 1 .. Len(D) : D[i] = d[Len(e) + i]
    PROVE  /\ e \o D \in Seq(Int) /\ Len(e \o D) = Len(e) + Len(D)
           /\ \A i \in 1 .. Len(e) + Len(D) : (e \o D)[i] = d[i]
<1>1. Len(e) \in Nat /\ Len(D) \in Nat
  BY LenProperties
<1>2. /\ e \o D \in Seq(Int) /\ Len(e \o D) = Len(e) + Len(D)
      /\ \A i \in 1 .. Len(e) : (e \o D)[i] = e[i]
      /\ \A i \in 1 .. Len(D) : (e \o D)[Len(e) + i] = D[i]
  BY ConcatIs
<1>3. ASSUME NEW i \in 1 .. Len(e) + Len(D) PROVE (e \o D)[i] = d[i]
  <2>1. CASE i <= Len(e)
    <3>1. i \in 1 .. Len(e)
      BY <1>1, <2>1
    <3>2. QED
      BY <1>2, <3>1
  <2>2. CASE i > Len(e)
    <3>1. i - Len(e) \in 1 .. Len(D) /\ Len(e) + (i - Len(e)) = i
      BY <1>1, <2>2
    <3>2. (e \o D)[Len(e) + (i - Len(e))] = D[i - Len(e)]
      BY <1>2, <3>1
    <3>3. D[i - Len(e)] = d[Len(e) + (i - Len(e))]
      BY <3>1
    <3>4. QED
      BY <3>1, <3>2, <3>3
  <2>3. QED
    BY <1>1, <2>1, <2>2
<1>4. QED
  BY <1>2, <1>3

(* Without a length, in a signed container: what may be the trailer waits. *)
LEMMA ReadsHeld ==
    ASSUME NEW h, NEW s \in ASink, NEW m, NEW d \in Seq(Int), NEW t \in ATrailer, Layout(h, m, d, t),
           NEW j \in Nat \ {0}, SinkAt(s, m, d, t, j), NEW cells \in Seq(ACell),
           NextCells(m, d, t, j, cells), m.len = Unknown, m.signed
    PROVE  SinkAt(SinkHoldBack(s, cells), m, d, t, j + Len(cells))
<1> DEFINE S == Stream(m, d, t)
           n == Len(cells)
           e == s.data
           f == s.tbuf
           a == Len(e)
           b == Len(f)
           p == s.pad_seen
           L == Len(d)
           T == Len(TrailerPart(t))
           all == HbAll(s, cells)
           k == HbK(s, cells)
           c == Take(all, k)
           u == Drop(all, k)
           r == SinkHoldBack(s, cells)
           D == Contents(c)
           J == j + n
<1>1. /\ L \in Nat /\ T \in Nat /\ T = TrailerSize /\ T > 0
      /\ m.pad = 0 /\ m \in AMeta
      /\ Len(S) = 1 + L + T + m.pad
  <2>1. /\ m \in AMeta /\ m.pad \in Nat /\ L \in Nat /\ T \in Nat /\ m.pad = 0
        /\ T = (IF m.signed THEN TrailerSize ELSE 0)
        /\ Len(S) = 1 + L + T + m.pad /\ TrailerSize \in Nat \ {0}
    BY LayoutIs, ZenonT(60)
  <2>2. T = TrailerSize
    BY <2>1
  <2> HIDE DEF S, L, T
  <2>3. QED
    BY ONLY <2>1, <2>2
<1>2. Len(S) = 1 + L + T
  BY ONLY <1>1
<1>3. /\ s.meta_done /\ s.meta = m /\ s.err = "no"
      /\ 1 + a + b + p = j
      /\ a <= L /\ b <= T /\ p <= m.pad
      /\ a > 0 => b = T
      /\ \A i \in 1 .. a : e[i] = d[i]
      /\ \A i \in 1 .. b : f[i] = S[1 + a + i]
  <2>1. SinkParts(s, m, d, t, j)
    BY SinkAtIs
  <2>2. QED
    BY <2>1 DEF SinkParts
<1>4. /\ a \in Nat /\ b \in Nat /\ p \in Nat /\ n \in Nat /\ j \in Nat \ {0}
      /\ e \in Seq(Int) /\ f \in Seq(ACell)
  BY SinkFields, LenProperties
<1>5. /\ all \in Seq(ACell) /\ c \in Seq(ACell) /\ u \in Seq(ACell)
      /\ Len(all) = b + n
      /\ \A i \in 1 .. b : all[i] = f[i]
      /\ \A i \in 1 .. n : all[b + i] = cells[i]
      /\ k \in Nat /\ k <= Len(all)
      /\ k = IF Len(all) <= TrailerSize THEN 0 ELSE Len(all) - TrailerSize
      /\ Len(c) = k /\ Len(u) = Len(all) - k
      /\ \A i \in 1 .. k : i \in 1 .. Len(all) /\ c[i] = all[i]
      /\ \A i \in 1 .. Len(u) : k + i \in 1 .. Len(all) /\ u[i] = all[k + i]
  BY HbIs
<1>6. J <= Len(S) /\ (\A i \in 1 .. n : cells[i] = S[j + i])
  BY DEF NextCells
<1>7. Routed(s, r, D, u, p, s.err)
  BY SinkHoldBackIs
<1>8. J = j + n /\ a = Len(e)
  OBVIOUS
<1> HIDE DEF S, n, e, f, a, b, p, L, T, all, k, c, u, r, D, J
<1>9. p = 0 /\ j = 1 + a + b
  BY ONLY <1>1, <1>3, <1>4
<1>10. \A i \in 1 .. b + n : all[i] = S[1 + a + i]
  <2>1. ASSUME NEW i \in 1 .. b + n PROVE all[i] = S[1 + a + i]
    <3>1. CASE i <= b
      <4>1. i \in 1 .. b
        BY ONLY <1>4, <3>1, i \in 1 .. b + n
      <4>2. QED
        BY ONLY <1>3, <1>5, <4>1
    <3>2. CASE i > b
      <4>1. i - b \in 1 .. n /\ b + (i - b) = i /\ j + (i - b) = 1 + a + i
        BY ONLY <1>4, <1>9, <3>2, i \in 1 .. b + n
      <4>2. all[b + (i - b)] = cells[i - b] /\ cells[i - b] = S[j + (i - b)]
        BY ONLY <1>5, <1>6, <4>1
      <4>3. QED
        BY ONLY <4>1, <4>2
    <3>3. QED
      BY ONLY <1>4, <3>1, <3>2, i \in 1 .. b + n
  <2>2. QED
    BY <2>1
<1>11. /\ a + k <= L /\ Len(u) = b + n - k /\ Len(u) <= T
       /\ 1 + (a + k) + Len(u) + p = J
       /\ a + k > 0 => Len(u) = T
       /\ Len(u) \in Nat
  <2>1. J \in Nat /\ 1 + a + b + n <= 1 + L + T
    BY ONLY <1>2, <1>4, <1>6, <1>8, <1>9
  <2>2. k = IF b + n <= T THEN 0 ELSE b + n - T
    <3>1. Len(all) = b + n /\ T = TrailerSize
          /\ k = IF Len(all) <= TrailerSize THEN 0 ELSE Len(all) - TrailerSize
      BY <1>1, <1>5
    <3>2. b \in Nat /\ n \in Nat /\ T \in Nat
      BY <1>1, <1>4
    <3>3. QED
      BY ONLY <3>1, <3>2
  <2>3. Len(u) = b + n - k
    <3>1. Len(all) = b + n /\ Len(u) = Len(all) - k
      BY <1>5
    <3>2. b \in Nat /\ n \in Nat /\ k \in Nat
      BY <1>4, <1>5
    <3>3. QED
      BY ONLY <3>1, <3>2
  <2>4. CASE b + n <= T
    <3>1. k = 0
      BY ONLY <2>2, <2>4
    <3>2. a > 0 => n = 0 /\ b = T
      BY ONLY <1>1, <1>3, <1>4, <2>4
    <3>3. QED
      BY ONLY <1>1, <1>3, <1>4, <1>8, <1>9, <2>3, <2>4, <3>1, <3>2
  <2>5. CASE b + n > T
    <3>1. k = b + n - T
      BY ONLY <1>1, <1>4, <2>2, <2>5
    <3>2. QED
      BY ONLY <1>1, <1>4, <1>8, <1>9, <2>1, <2>3, <2>5, <3>1
  <2>6. QED
    BY ONLY <1>1, <1>4, <2>4, <2>5
<1>12. D \in Seq(Int) /\ Len(D) = k /\ (\A i \in 1 .. k : D[i] = d[a + i])
  <2>1. Len(c) = k /\ a + Len(c) <= Len(d) /\ c \in Seq(ACell) /\ a \in Nat
    BY <1>4, <1>5, <1>11 DEF L
  <2>2. \A i \in 1 .. Len(c) : c[i] = S[1 + a + i]
    BY ONLY <1>5, <1>10
  <2>3. DataNext(c, d, a)
    BY <1>1, <2>1, <2>2, ContentsNext DEF S
  <2>4. QED
    BY <2>1, <2>3 DEF D, DataNext
<1>13. /\ e \o D \in Seq(Int) /\ Len(e \o D) = a + k
       /\ \A i \in 1 .. a + k : (e \o D)[i] = d[i]
  <2>1. /\ \A i \in 1 .. Len(e) : e[i] = d[i]
        /\ \A i \in 1 .. Len(D) : D[i] = d[Len(e) + i]
    BY ONLY <1>3, <1>8, <1>12
  <2>2. /\ e \o D \in Seq(Int) /\ Len(e \o D) = Len(e) + Len(D)
        /\ \A i \in 1 .. Len(e) + Len(D) : (e \o D)[i] = d[i]
    BY <1>4, <1>12, <2>1, DataGrows
  <2>3. QED
    BY ONLY <1>8, <1>12, <2>2
<1>14. \A i \in 1 .. Len(u) : u[i] = S[1 + (a + k) + i]
  <2>1. ASSUME NEW i \in 1 .. Len(u) PROVE u[i] = S[1 + (a + k) + i]
    <3>1. k + i \in 1 .. b + n /\ u[i] = all[k + i]
      BY ONLY <1>5, i \in 1 .. Len(u)
    <3>2. all[k + i] = S[1 + a + (k + i)]
      BY ONLY <1>10, <3>1
    <3>3. k \in Nat /\ i \in Int /\ a \in Nat
      BY <1>4, <1>5
    <3>5. 1 + a + (k + i) = 1 + (a + k) + i
      BY ONLY <3>3
    <3>4. QED
      BY ONLY <3>1, <3>2, <3>5
  <2>2. QED
    BY <2>1
<1>15. RoutedTo(s, r, D, u, p, "no")
  BY <1>3, <1>4, <1>5, <1>7, <1>12, RoutedIs
<1>16. /\ r \in ASink /\ r.meta_done /\ r.meta = m /\ r.err = "no"
       /\ r.data = e \o D /\ r.tbuf = u /\ r.pad_seen = p
  BY <1>3, <1>15 DEF RoutedTo, e
<1>17. /\ Len(r.data) = a + k /\ Len(r.tbuf) = Len(u) /\ r.pad_seen = 0
       /\ \A i \in 1 .. Len(r.data) : r.data[i] = d[i]
       /\ \A i \in 1 .. Len(r.tbuf) : r.tbuf[i] = S[1 + Len(r.data) + i]
  BY <1>9, <1>13, <1>14, <1>16
<1>18. J \in Nat \ {0}
  BY ONLY <1>4, <1>8
<1>19. SinkParts(r, m, d, t, J)
  <2>1. /\ 1 + Len(r.data) + Len(r.tbuf) + r.pad_seen = J
        /\ Len(r.data) <= L /\ Len(r.tbuf) <= T /\ r.pad_seen <= m.pad
        /\ ~(r.pad_seen > 0)
        /\ Len(r.data) > 0 => Len(r.tbuf) = T
    BY ONLY <1>1, <1>9, <1>11, <1>17
  <2>2. QED
    BY <1>16, <1>17, <2>1 DEF SinkParts, L, T, S
<1>20. SinkAt(r, m, d, t, J)
  BY <1>16, <1>18, <1>19, IsSinkAt
<1>21. QED
  BY <1>20 DEF r, J, n

(* Without a length and a signature everything is contents. *)
LEMMA ReadsPlain ==
    ASSUME NEW h, NEW s \in ASink, NEW m, NEW d \in Seq(Int), NEW t \in ATrailer, Layout(h, m, d, t),
           NEW j \in Nat \ {0}, SinkAt(s, m, d, t, j), NEW cells \in Seq(ACell),
           NextCells(m, d, t, j, cells), m.len = Unknown, ~m.signed
    PROVE  SinkAt(SinkContent(s, cells), m, d, t, j + Len(cells))
<1> DEFINE S == Stream(m, d, t)
           n == Len(cells)
           e == s.data
           f == s.tbuf
           a == Len(e)
           b == Len(f)
           p == s.pad_seen
           L == Len(d)
           T == Len(TrailerPart(t))
           r == SinkContent(s, cells)
           D == Contents(cells)
           J == j + n
<1>1. /\ L \in Nat /\ T = 0 /\ m.pad = 0 /\ m \in AMeta
      /\ Len(S) = 1 + L + T + m.pad
  BY LayoutIs
<1>2. /\ s.meta_done /\ s.meta = m /\ s.err = "no"
      /\ 1 + a + b + p = j
      /\ b <= T /\ p <= m.pad
      /\ \A i \in 1 .. a : e[i] = d[i]
  <2>1. SinkParts(s, m, d, t, j)
    BY SinkAtIs
  <2>2. QED
    BY <2>1 DEF SinkParts
<1>3. /\ a \in Nat /\ b \in Nat /\ p \in Nat /\ n \in Nat /\ j \in Nat \ {0}
      /\ e \in Seq(Int) /\ f \in Seq(ACell)
  BY SinkFields, LenProperties
<1>4. J <= Len(S) /\ (\A i \in 1 .. n : cells[i] = S[j + i])
  BY DEF NextCells
<1>5. Routed(s, r, D, s.tbuf, s.pad_seen, s.err)
  BY SinkContentIs
<1>6. J = j + n /\ a = Len(e) /\ n = Len(cells) /\ cells \in Seq(ACell) /\ b = Len(f)
  OBVIOUS
<1> HIDE DEF S, n, e, f, a, b, p, L, T, r, D, J
<1>7. b = 0 /\ p = 0 /\ j = 1 + a /\ a + n <= L /\ J \in Nat \ {0} /\ 1 + (a + n) = J
  <2>1. b = 0 /\ p = 0
    <3>1. b <= 0 /\ p <= 0
      BY ONLY <1>1, <1>2
    <3>2. QED
      BY ONLY <1>3, <3>1
  <2>2. j = 1 + a
    BY ONLY <1>2, <1>3, <2>1
  <2>3. Len(S) = 1 + L /\ J <= Len(S) /\ J = j + n
    BY ONLY <1>1, <1>4, <1>6
  <2>4. QED
    BY ONLY <1>1, <1>3, <2>1, <2>2, <2>3
<1>8. D \in Seq(Int) /\ Len(D) = n /\ (\A i \in 1 .. n : D[i] = d[a + i])
  <2>1. \A i \in 1 .. n : cells[i] = S[1 + a + i]
    BY ONLY <1>4, <1>7
  <2>2. a + Len(cells) <= Len(d) /\ (\A i \in 1 .. Len(cells) : cells[i] = Stream(m, d, t)[1 + a + i])
    BY <1>6, <1>7, <2>1 DEF L, S
  <2>2a. m \in AMeta /\ d \in Seq(Int) /\ t \in ATrailer /\ cells \in Seq(ACell) /\ a \in Nat
    BY <1>1, <1>3, <1>6
  <2>3. DataNext(cells, d, a)
    BY ONLY <2>2, <2>2a, ContentsNext
  <2>4. QED
    BY <1>6, <2>3 DEF D, DataNext
<1>9. /\ e \o D \in Seq(Int) /\ Len(e \o D) = a + n
      /\ \A i \in 1 .. a + n : (e \o D)[i] = d[i]
  <2>1. /\ \A i \in 1 .. Len(e) : e[i] = d[i]
        /\ \A i \in 1 .. Len(D) : D[i] = d[Len(e) + i]
    BY ONLY <1>2, <1>6, <1>8
  <2>2. /\ e \o D \in Seq(Int) /\ Len(e \o D) = Len(e) + Len(D)
        /\ \A i \in 1 .. Len(e) + Len(D) : (e \o D)[i] = d[i]
    BY <1>3, <1>8, <2>1, DataGrows
  <2>3. QED
    BY ONLY <1>6, <1>8, <2>2
<1>10. RoutedTo(s, r, D, f, p, "no")
  <2>1. Routed(s, r, D, f, p, "no")
    BY <1>2, <1>5 DEF f, p
  <2>2. QED
    BY <1>3, <1>8, <2>1, RoutedIs
<1>11. /\ r \in ASink /\ r.meta_done /\ r.meta = m /\ r.err = "no"
       /\ r.data = e \o D /\ r.tbuf = f /\ r.pad_seen = p
  BY <1>2, <1>10 DEF RoutedTo, e
<1>12. /\ Len(r.data) = a + n /\ Len(r.tbuf) = 0 /\ r.pad_seen = 0
       /\ \A i \in 1 .. Len(r.data) : r.data[i] = d[i]
  BY <1>6, <1>7, <1>9, <1>11
<1>13. SinkParts(r, m, d, t, J)
  <2>1. /\ 1 + Len(r.data) + Len(r.tbuf) + r.pad_seen = J
        /\ Len(r.data) <= L /\ Len(r.tbuf) <= T /\ r.pad_seen <= m.pad
        /\ ~(r.pad_seen > 0) /\ Len(r.tbuf) = T
        /\ \A i \in 1 .. Len(r.tbuf) : r.tbuf[i] = S[1 + Len(r.data) + i]
    BY ONLY <1>1, <1>3, <1>7, <1>12
  <2>2. QED
    BY <1>1, <1>11, <1>12, <2>1 DEF SinkParts, L, T, S
<1>14. SinkAt(r, m, d, t, J)
  BY <1>7, <1>11, <1>13, IsSinkAt
<1>15. QED
  BY <1>14 DEF r, J, n

LEMMA ReadsRoute ==
    ASSUME NEW h, NEW s \in ASink, NEW m, NEW d \in Seq(Int), NEW t \in ATrailer, Layout(h, m, d, t),
           NEW j \in Nat \ {0}, SinkAt(s, m, d, t, j), NEW cells \in Seq(ACell),
           NextCells(m, d, t, j, cells)
    PROVE  SinkAt(SinkRoute(s, cells), m, d, t, j + Len(cells))
<1>1. s.meta_done /\ s.meta = m /\ s.err = "no"
  <2>1. SinkParts(s, m, d, t, j)
    BY SinkAtIs
  <2>2. QED
    BY <2>1 DEF SinkParts
<1>2. m.signed \in BOOLEAN
  BY LayoutIs
<1>3. CASE cells = <<>>
  <2>1. Len(cells) = 0
    BY <1>3, EmptyHasNone
  <2>2. j + Len(cells) = j
    BY <2>1
  <2>3. SinkRoute(s, cells) = s
    BY <1>3 DEF SinkRoute
  <2>4. QED
    BY <2>2, <2>3
<1>4. CASE cells # <<>> /\ m.len # Unknown
  <2>1. SinkRoute(s, cells) = SinkKnown(s, cells)
    BY <1>1, <1>4 DEF SinkRoute
  <2>2. QED
    BY <1>4, <2>1, ReadsKnown
<1>5. CASE cells # <<>> /\ m.len = Unknown /\ m.signed
  <2>1. SinkRoute(s, cells) = SinkHoldBack(s, cells)
    BY <1>1, <1>5 DEF SinkRoute
  <2>2. QED
    BY <1>5, <2>1, ReadsHeld
<1>6. CASE cells # <<>> /\ m.len = Unknown /\ ~m.signed
  <2>1. SinkRoute(s, cells) = SinkContent(s, cells)
    BY <1>1, <1>6 DEF SinkRoute
  <2>2. QED
    BY <1>6, <2>1, ReadsPlain
<1>7. QED
  BY <1>2, <1>3, <1>4, <1>5, <1>6

(* Only these fields count. *)
LEMMA SinkAtSame ==
    ASSUME NEW s, NEW r, NEW m, NEW d, NEW t, NEW j, SinkAt(s, m, d, t, j),
           r.err = s.err, r.meta_done = s.meta_done, r.meta = s.meta, r.data = s.data,
           r.tbuf = s.tbuf, r.pad_seen = s.pad_seen
    PROVE  SinkAt(r, m, d, t, j)
  BY DEF SinkAt

LEMMA AllGenuine ==
    ASSUME NEW c \in Seq(ACell)
    PROVE  GenuineCells(ATrailer, c)
<1>1. \A k \in 1 .. Len(c) : c[k] \in ACell
  BY EmptyHasNone
<1>2. QED
  BY <1>1 DEF GenuineCells, Genuine, ACell

(* The first cell is read as the META it is. *)
LEMMA MetaRead ==
    ASSUME NEW h, NEW s, NEW m, NEW d \in Seq(Int), NEW t \in ATrailer, Layout(h, m, d, t),
           s.hdr = h, NEW cells \in Seq(ACell), cells # <<>>, NextCells(m, d, t, 0, cells)
    PROVE  ParsedMeta(s, cells) = m /\ PaddingOk(m) /\ Len(cells) \in Nat \ {0}
<1>1. m \in AMeta
  BY LayoutIs
<1>2. /\ m.padded = (m.pad > 0)
      /\ m.pad > 0 => m.len # Unknown
      /\ h.ver # "v7" => ~m.signed /\ m.pad = 0 /\ m.len = Unknown
  BY DEF Layout
<1>3. Len(cells) \in Nat \ {0}
  BY EmptyHasNone
<1>4. cells[1] = Stream(m, d, t)[0 + 1]
  <2>1. 1 \in 1 .. Len(cells)
    BY <1>3
  <2>2. QED
    BY <2>1 DEF NextCells
<1>5. Stream(m, d, t)[1] = MetaCell(m)
  BY <1>1, StreamIs
<1>6. 0 + 1 = 1
  OBVIOUS
<1>7. cells[1] = MetaCell(m)
  BY ONLY <1>4, <1>5, <1>6
<1>8. cells[1].meta = m
  BY <1>1, <1>7, CellsIs
<1>9. m.pad \in Nat /\ m.padded \in BOOLEAN /\ m.signed \in BOOLEAN /\ m.present \in BOOLEAN
  BY <1>1 DEF AMeta
<1>10. PaddingOk(m)
  <2> DEFINE P == m.pad
             B == m.padded
             N == m.len
  <2>1. P \in Nat /\ B \in BOOLEAN /\ (B = (P > 0)) /\ (P > 0 => N # Unknown)
    BY <1>2, <1>9
  <2> HIDE DEF P, B, N
  <2>2. B => N # Unknown /\ P # 0
    <3>1. B => P > 0
      BY <2>1
    <3>2. QED
      BY <2>1, <3>1
  <2>3. ~B => P = 0
    <3>1. ~B => ~(P > 0)
      BY <2>1
    <3>2. QED
      BY <2>1, <3>1
  <2>4. QED
    BY <2>2, <2>3 DEF PaddingOk, P, B, N
<1>11. CASE h.ver = "v7"
  BY <1>3, <1>8, <1>10, <1>11 DEF ParsedMeta, IsV7
<1>12. CASE h.ver # "v7"
  <2>1. m.signed = FALSE /\ m.pad = 0 /\ m.len = Unknown
    BY <1>2, <1>9, <1>12
  <2>2. m.padded = FALSE
    <3>1. ~(m.pad > 0)
      BY <2>1
    <3>2. ~m.padded
      BY <1>2, <3>1
    <3>3. QED
      BY <1>9, <3>2
  <2>3. m = [present |-> m.present, signed |-> FALSE, padded |-> FALSE, len |-> Unknown, pad |-> 0]
    BY <1>1, <2>1, <2>2 DEF AMeta
  <2>4. (0 > 0) = FALSE
    OBVIOUS
  <2>5. Meta(m.present, FALSE, 0, Unknown) = m
    BY <2>3, <2>4 DEF Meta
  <2>6. ParsedMeta(s, cells) = Meta(m.present, FALSE, 0, Unknown)
    BY <1>8, <1>12 DEF ParsedMeta, IsV7
  <2>7. QED
    BY <1>3, <1>10, <2>5, <2>6
<1>13. QED
  BY <1>11, <1>12

(* Handed the next cells, the sink stands behind them, or has refused a    *)
(* container without META where a directory is wanted.                     *)
Reads(c, r, m, d, t, j) ==
    \/ SinkAt(r, m, d, t, j)
    \/ r.err = "input" /\ c.to = "dir" /\ ~m.present /\ r.meta = m

LEMMA SinkReads ==
    ASSUME NEW h, NEW s \in ASink, NEW m, NEW d \in Seq(Int), NEW t \in ATrailer, Layout(h, m, d, t),
           NEW j \in Nat, SinkAt(s, m, d, t, j), s.hdr = h, NEW cells \in Seq(ACell),
           NextCells(m, d, t, j, cells), cmd \in Decryption
    PROVE  Reads(cmd, SinkWrite(s, cells), m, d, t, j + Len(cells))
<1> DEFINE z == Cleared(s)
           r == SinkWrite(s, cells)
           n == Len(cells)
<1>1. /\ z \in ASink /\ z.hdr = s.hdr /\ z.data = s.data /\ z.tbuf = s.tbuf
      /\ z.pad_seen = s.pad_seen /\ z.meta = s.meta /\ z.err = s.err /\ z.meta_done = s.meta_done
  BY ClearedIs
<1>2. SinkAt(z, m, d, t, j)
  <2> HIDE DEF z
  <2>1. QED
    BY <1>1, SinkAtSame
<1>3. s.tbuf \in Seq(ACell) /\ s.meta_done \in BOOLEAN
  BY SinkFields
<1>4. GenuineCells(ATrailer, s.tbuf) /\ GenuineCells(ATrailer, cells)
  BY <1>3, AllGenuine
<1>5. \/ s.meta_done /\ r = SinkRoute(z, cells)
      \/ ~s.meta_done /\ cells = <<>> /\ r = z
      \/ /\ ~s.meta_done /\ cells # <<>>
         /\ \E s1 : /\ SinkOpened(cmd, z, s1, ParsedMeta(z, cells))
                    /\ r = SinkRoute(s1, Drop(cells, 1))
                    /\ s1.err # "no" => r = s1
  BY <1>4, SinkWriteIs
<1>6. s.err = "no" /\ (s.meta_done = (j > 0)) /\ n \in Nat
  BY LenProperties DEF SinkAt
<1> HIDE DEF z, r
<1>7. CASE s.meta_done /\ r = SinkRoute(z, cells)
  <2>1. j > 0
    BY <1>6, <1>7
  <2>2. j \in Nat \ {0}
    BY <2>1
  <2>3. SinkAt(r, m, d, t, j + Len(cells))
    BY <1>1, <1>2, <1>7, <2>2, ReadsRoute
  <2>4. QED
    BY <2>3 DEF Reads, r
<1>8. CASE ~s.meta_done /\ cells = <<>> /\ r = z
  <2>1. Len(cells) = 0
    BY <1>8, EmptyHasNone
  <2>2. j + Len(cells) = j
    BY <2>1
  <2>3. QED
    BY <1>2, <1>8, <2>2 DEF Reads, r
<1>9. CASE /\ ~s.meta_done /\ cells # <<>>
           /\ \E s1 : /\ SinkOpened(cmd, z, s1, ParsedMeta(z, cells))
                      /\ r = SinkRoute(s1, Drop(cells, 1))
                      /\ s1.err # "no" => r = s1
  <2>1. j = 0
    <3>1. ~(j > 0)
      BY <1>6, <1>9
    <3>2. QED
      BY <3>1
  <2>2. NextCells(m, d, t, 0, cells) /\ z.hdr = h
    BY <1>1, <2>1
  <2>3. ParsedMeta(z, cells) = m /\ PaddingOk(m) /\ n \in Nat \ {0}
    BY <1>9, <2>2, MetaRead
  <2>4. PICK s1 : /\ SinkOpened(cmd, z, s1, m)
                  /\ r = SinkRoute(s1, Drop(cells, 1))
                  /\ s1.err # "no" => r = s1
    BY <1>9, <2>3
  <2>5. /\ s1 \in ASink /\ s1.data = s.data /\ s1.tbuf = s.tbuf /\ s1.pad_seen = s.pad_seen
        /\ s1.meta = m
    BY <1>1, <2>4 DEF SinkOpened
  <2>6. /\ s1.meta_done
        /\ \/ s1.err = "no"
           \/ cmd.to = "dir" /\ ~m.present /\ s1.err = "input"
    BY <1>1, <1>6, <2>3, <2>4 DEF SinkOpened
  <2>7. CASE cmd.to = "dir" /\ ~m.present /\ s1.err = "input"
    <3>1. r = s1
      BY <2>4, <2>7
    <3>2. QED
      BY <2>5, <2>7, <3>1 DEF Reads, r
  <2>8. CASE s1.err = "no"
    <3>1. s.data = <<>> /\ s.tbuf = <<>> /\ s.pad_seen = 0
      BY <2>1 DEF SinkAt
    <3>2. Len(s1.data) = 0 /\ Len(s1.tbuf) = 0 /\ s1.pad_seen = 0
      <4>1. s1.data \in Seq(Int) /\ s1.tbuf \in Seq(ACell)
        BY <2>5, SinkFields
      <4>2. s1.data = <<>> /\ s1.tbuf = <<>> /\ s1.pad_seen = 0
        BY <2>5, <3>1
      <4>3. QED
        BY <4>1, <4>2, EmptyHasNone
    <3>3. Len(d) \in Nat /\ Len(TrailerPart(t)) \in Nat /\ m.pad \in Nat
      BY LayoutIs
    <3>4. SinkParts(s1, m, d, t, 1)
      <4>1. /\ 1 + Len(s1.data) + Len(s1.tbuf) + s1.pad_seen = 1
            /\ Len(s1.data) <= Len(d) /\ Len(s1.tbuf) <= Len(TrailerPart(t))
            /\ s1.pad_seen <= m.pad
            /\ ~(s1.pad_seen > 0) /\ ~(Len(s1.tbuf) > 0) /\ ~(Len(s1.data) > 0)
        BY ONLY <3>2, <3>3
      <4>2. /\ \A i \in 1 .. Len(s1.data) : s1.data[i] = d[i]
            /\ \A i \in 1 .. Len(s1.tbuf) : s1.tbuf[i] = Stream(m, d, t)[1 + Len(s1.data) + i]
        BY ONLY <3>2
      <4>3. QED
        BY <2>5, <2>6, <2>8, <4>1, <4>2 DEF SinkParts
    <3>5. SinkAt(s1, m, d, t, 1)
      BY <2>5, <3>4, IsSinkAt
    <3>6. /\ Drop(cells, 1) \in Seq(ACell)
          /\ Len(Drop(cells, 1)) = IF 1 <= n THEN n - 1 ELSE 0
          /\ \A i \in 1 .. Len(Drop(cells, 1)) : Drop(cells, 1)[i] = cells[1 + i]
      BY DropIs
    <3>7. Len(Drop(cells, 1)) = n - 1
      <4> HIDE DEF n
      <4>1. QED
        BY <2>3, <3>6
    <3>8. NextCells(m, d, t, 1, Drop(cells, 1))
      <4> DEFINE v == Drop(cells, 1)
                 k == Len(v)
                 N == Len(Stream(m, d, t))
      <4>1. 0 + n <= N /\ \A i \in 1 .. n : cells[i] = Stream(m, d, t)[0 + i]
        BY <2>2 DEF NextCells
      <4>2. k = n - 1 /\ \A i \in 1 .. k : v[i] = cells[1 + i]
        BY <3>6, <3>7
      <4>3. N \in Nat
        BY <3>3, LayoutIs
      <4> HIDE DEF v, k, N, n
      <4>4. 1 + k <= N
        BY ONLY <2>3, <4>1, <4>2, <4>3
      <4>5. ASSUME NEW i \in 1 .. k PROVE v[i] = Stream(m, d, t)[1 + i]
        <5>1. 1 + i \in 1 .. n /\ 0 + (1 + i) = 1 + i
          BY <2>3, <4>2
        <5>2. cells[1 + i] = Stream(m, d, t)[0 + (1 + i)]
          BY <4>1, <5>1
        <5>3. QED
          BY <4>2, <5>1, <5>2
      <4>6. QED
        BY <4>4, <4>5 DEF NextCells, v, k, N
    <3>9. SinkAt(SinkRoute(s1, Drop(cells, 1)), m, d, t, 1 + Len(Drop(cells, 1)))
      <4>1. 1 \in Nat \ {0}
        OBVIOUS
      <4>2. QED
        BY <2>5, <3>5, <3>6, <3>8, <4>1, ReadsRoute
    <3>10. 1 + Len(Drop(cells, 1)) = j + Len(cells)
      <4>1. 1 + (n - 1) = 0 + n
        <5> HIDE DEF n
        <5>1. QED
          BY <2>3
      <4>2. QED
        BY <2>1, <3>7, <4>1
    <3>11. SinkAt(r, m, d, t, j + Len(cells))
      BY <2>4, <3>9, <3>10
    <3>12. QED
      BY <3>11 DEF Reads, r
  <2>9. QED
    BY <2>6, <2>7, <2>8
<1>10. QED
  BY <1>5, <1>7, <1>8, <1>9

LEMMA SameSequence ==
    ASSUME NEW S, NEW u \in Seq(S), NEW v \in Seq(S), Len(u) = Len(v),
           \A i \in 1 .. Len(u) : u[i] = v[i]
    PROVE  u = v
  BY SeqEqual

LEMMA SumsMeet ==
    ASSUME NEW a \in Nat, NEW b \in Nat, NEW p \in Nat, NEW L \in Nat, NEW T \in Nat, NEW P \in Nat,
           a <= L, b <= T, p <= P, 1 + a + b + p = 1 + L + T + P
    PROVE  a = L /\ b = T /\ p = P
  OBVIOUS

(* After the last cell: contents, padding and trailer are what they were.  *)
SinkWhole(s, m, d, t) ==
    /\ s.meta_done /\ s.meta = m /\ s.data = d
    /\ LayoutOk(s)
    /\ m.signed => TrailerOf(s) = t

LEMMA SinkEnds ==
    ASSUME NEW h, NEW s \in ASink, NEW m, NEW d \in Seq(Int), NEW t \in ATrailer, Layout(h, m, d, t),
           SinkAt(s, m, d, t, Len(Stream(m, d, t)))
    PROVE  SinkWhole(s, m, d, t)
<1> DEFINE S == Stream(m, d, t)
           e == s.data
           f == s.tbuf
           a == Len(e)
           b == Len(f)
           p == s.pad_seen
           L == Len(d)
           T == Len(TrailerPart(t))
           P == m.pad
           J == Len(S)
<1>1. /\ L \in Nat /\ T \in Nat /\ P \in Nat /\ m \in AMeta /\ m.signed \in BOOLEAN
      /\ m.len # Unknown => m.len = L
      /\ T = (IF m.signed THEN TrailerSize ELSE 0)
      /\ J = 1 + L + T + P
      /\ TrailerSize \in Nat \ {0}
  BY LayoutIs
<1>2. J \in Nat \ {0}
  <2> HIDE DEF J, L, T, P
  <2>1. QED
    BY <1>1
<1>3. /\ s.meta_done /\ s.meta = m
      /\ 1 + a + b + p = J
      /\ a <= L /\ b <= T /\ p <= P
      /\ \A i \in 1 .. a : e[i] = d[i]
      /\ \A i \in 1 .. b : f[i] = S[1 + a + i]
  <2>1. SinkParts(s, m, d, t, J)
    BY <1>2, SinkAtIs
  <2>2. QED
    BY <2>1 DEF SinkParts
<1>4. /\ e \in Seq(Int) /\ f \in Seq(ACell) /\ a \in Nat /\ b \in Nat /\ p \in Nat
  BY SinkFields, LenProperties
<1>5. a = L /\ b = T /\ p = P
  <2>1. 1 + a + b + p = 1 + L + T + P
    BY <1>1, <1>3
  <2> HIDE DEF a, b, p, L, T, P
  <2>2. QED
    BY <1>1, <1>3, <1>4, <2>1, SumsMeet
<1>6. e = d
  <2>1. Len(e) = Len(d) /\ \A i \in 1 .. Len(e) : e[i] = d[i]
    BY <1>3, <1>5
  <2>2. QED
    BY <1>4, <2>1, SameSequence
<1>7. m.signed => f = TrailerCells(t) /\ Len(f) = TrailerSize
  <2>1. SUFFICES ASSUME m.signed PROVE f = TrailerCells(t) /\ Len(f) = TrailerSize
    OBVIOUS
  <2>2. t # NoTrailer
    BY <2>1 DEF Layout
  <2>3. T = TrailerSize /\ TrailerPart(t) = TrailerCells(t)
    BY <1>1, <2>1, <2>2 DEF TrailerPart
  <2>4. \A i \in 1 .. T : S[1 + L + i] = TrailerPart(t)[i]
    BY <1>1, StreamIs
  <2>5. Len(f) = TrailerSize /\ \A i \in 1 .. Len(f) : f[i] = TrailerCells(t)[i]
    BY <1>3, <1>5, <2>3, <2>4
  <2>6. TrailerCells(t) \in Seq(ACell) /\ Len(TrailerCells(t)) = TrailerSize
    BY TrailerCellsIs
  <2>7. QED
    BY <1>4, <2>5, <2>6, SameSequence
<1>8. m.signed => TrailerOf(s) = t
  <2>1. SUFFICES ASSUME m.signed PROVE TrailerOf(s) = t
    OBVIOUS
  <2>2. f = TrailerCells(t)
    BY <1>7, <2>1
  <2>3. 1 \in 1 .. TrailerSize
    BY <1>1
  <2>4. f[1].trailer = t
    BY <2>2, <2>3, TrailerCellsIs
  <2>5. QED
    BY <2>2, <2>4 DEF TrailerOf
<1>9. LayoutOk(s)
  <2>1. m.len # Unknown => Len(s.data) = m.len /\ s.pad_seen = m.pad
    BY <1>1, <1>5
  <2>2. m.signed => Len(s.tbuf) = TrailerSize
    BY <1>7
  <2>3. QED
    BY <1>3, <2>1, <2>2 DEF LayoutOk
<1>10. QED
  BY <1>3, <1>6, <1>8, <1>9 DEF SinkWhole

(***************************************************************************)
(* The container that is read, against the one that was written.           *)
(***************************************************************************)
LEMMA AsCont ==
    ASSUME NEW f \in AFile
    PROVE  LET c == [f EXCEPT !.kind = "cont"]
           IN  /\ c \in AFile /\ c.frames = f.frames /\ c.hdr = f.hdr /\ c.data = f.data
               /\ c.restored = f.restored
               /\ f.kind = "cont" => c = f
<1>1. f \in AFile
  OBVIOUS
<1>2. QED
  BY <1>1 DEF AFile

LEMMA OriginIs ==
    ASSUME NEW g, NEW h, NEW m, Origin(g, h, m)
    PROVE  /\ g \in AFile /\ g.kind = "cont" /\ g.hdr = h /\ g.data = <<>> /\ ~g.restored
           /\ g.frames \in Seq(AFrame) /\ Len(g.frames) \in Nat \ {0}
           /\ Layout(h, m, truth, enc.trailer)
           /\ Sealed(g.frames, h, Stream(m, truth, enc.trailer))
           /\ h \in AHeader /\ h.recs # <<>> /\ h.recs[1].to = "A"
<1>1. /\ g \in AFile /\ g = Cont(h, g.frames)
      /\ Layout(h, m, truth, enc.trailer)
      /\ Sealed(g.frames, h, Stream(m, truth, enc.trailer))
  BY DEF Origin
<1>2. g.frames \in Seq(AFrame) /\ Len(g.frames) \in Nat
  BY <1>1, FileFields
<1>3. g.kind = "cont" /\ g.hdr = h /\ g.data = <<>> /\ ~g.restored
  <2> DEFINE x == g.frames
  <2>1. g = Cont(h, x)
    BY <1>1
  <2> HIDE DEF x
  <2>2. QED
    BY <2>1 DEF Cont, File
<1>4. Len(g.frames) # 0
  <2>1. CASE h.ver = "v5"
    <3>1. g.frames = <<Frame(Cek, 0, TRUE, h, Stream(m, truth, enc.trailer))>>
      BY <1>1, <2>1 DEF Sealed
    <3>2. QED
      BY <3>1
  <2>2. CASE h.ver # "v5"
    <3>1. Len(g.frames) > 0
      BY <1>1, <2>2 DEF Sealed
    <3>2. QED
      BY <3>1
  <2>3. QED
    BY <2>1, <2>2
<1>5. h \in AHeader /\ h.recs # <<>> /\ h.recs[1].to = "A"
  BY <1>1 DEF Layout
<1>6. QED
  BY <1>1, <1>2, <1>3, <1>4, <1>5

LEMMA DerivedSame ==
    ASSUME NEW f \in AFile, NEW g \in AFile, Derived(f, g), f.hdr = g.hdr, f.frames = g.frames
    PROVE  f = g
<1> DEFINE x == f.hdr
           y == f.frames
<1>1. f = [g EXCEPT !.hdr = x, !.frames = y]
  BY DEF Derived
<1>2. g.hdr = x /\ g.frames = y
  OBVIOUS
<1> HIDE DEF x, y
<1>3. QED
  BY <1>1, <1>2 DEF AFile

(* A frame of the container in place i. *)
FrameOf(g, h, cells, i) ==
    LET fr == g.frames[i]
        n  == Len(g.frames)
    IN  /\ fr.ok /\ fr.cek = Cek /\ fr.ctr = i - 1 /\ fr.last = (i = n)
        /\ fr.aad = AadAt(h, i - 1)
        /\ Len(fr.body) <= FrameSize
        /\ i # n => Len(fr.body) = FrameSize
        /\ i = n => Len(fr.body) < FrameSize /\ (i - 1) * FrameSize + Len(fr.body) = Len(cells)
        /\ (i - 1) * FrameSize + Len(fr.body) <= Len(cells)
        /\ \A k \in 1 .. Len(fr.body) : fr.body[k] = cells[(i - 1) * FrameSize + k]

LEMMA FrameOfIs ==
    ASSUME NEW g \in AFile, NEW h, NEW cells \in Seq(ACell), Sealed(g.frames, h, cells),
           h.ver # "v5", NEW i \in 1 .. Len(g.frames)
    PROVE  FrameOf(g, h, cells, i)
<1> DEFINE fr == g.frames[i]
           n == Len(g.frames)
           N == Len(cells)
           rest == N - (n - 1) * FrameSize
           l == Len(fr.body)
           a == (i - 1) * FrameSize
           z == (n - 1) * FrameSize
<1>1. /\ n > 0 /\ rest >= 0 /\ rest < FrameSize
      /\ FrameAt(h, cells, i, i = n, IF i = n THEN rest ELSE FrameSize, fr)
  BY DEF Sealed
<1>2. /\ fr = Frame(Cek, i - 1, i = n, AadAt(h, i - 1), fr.body)
      /\ l = IF i = n THEN rest ELSE FrameSize
      /\ \A k \in 1 .. l : fr.body[k] = cells[a + k]
  BY <1>1 DEF FrameAt
<1>3. fr.ok /\ fr.cek = Cek /\ fr.ctr = i - 1 /\ fr.last = (i = n) /\ fr.aad = AadAt(h, i - 1)
  <2> DEFINE b == fr.body
             F == fr
             A == AadAt(h, i - 1)
             L == i = n
             C == i - 1
  <2>1. F = Frame(Cek, C, L, A, b)
    BY <1>2
  <2> HIDE DEF F, b, A, L, C
  <2>2. F.ok /\ F.cek = Cek /\ F.ctr = C /\ F.last = L /\ F.aad = A
    BY <2>1 DEF Frame
  <2>3. QED
    BY <2>2 DEF F, A, L, C
<1>4. /\ n \in Nat /\ N \in Nat /\ FrameSize \in Nat /\ i \in Nat /\ i >= 1 /\ i <= n
      /\ FrameSize >= 2
  BY FileFields, LenProperties, FrameSizeIs
<1>5. a \in Nat /\ z \in Int /\ (i # n => a + FrameSize <= z) /\ (i = n => a = z)
  <2>1. i \in Nat \ {0}
    BY <1>4
  <2>2. a \in Nat /\ i * FrameSize = a + FrameSize
    BY <2>1, FrameStarts
  <2>3. i # n => i <= n - 1
    <3> HIDE DEF n
    <3>1. QED
      BY <1>4
  <2>4. i - 1 \in Int /\ n - 1 \in Int /\ i \in Int
    BY <1>4
  <2>5. i <= n - 1 => i * FrameSize <= (n - 1) * FrameSize
    BY <1>4, <2>4, TimesMonotone
  <2>6. z \in Int
    BY <1>4, <2>4, TimesMonotone
  <2>7. QED
    BY <2>2, <2>3, <2>5, <2>6
<1> HIDE DEF n, N, l, a, z, fr
<1>6. rest = N - z
  BY DEF z
<1> HIDE DEF rest
<1>7. rest \in Nat /\ z + rest = N
  BY <1>1, <1>4, <1>5, <1>6
<1>8. /\ l <= FrameSize
      /\ i # n => l = FrameSize
      /\ i = n => l < FrameSize /\ a + l = N
      /\ a + l <= N
  <2>1. CASE i = n
    <3>1. l = rest /\ a = z
      BY <1>2, <1>5, <2>1
    <3>2. QED
      BY <1>1, <1>4, <1>5, <1>7, <2>1, <3>1
  <2>2. CASE i # n
    <3>1. l = FrameSize /\ a + FrameSize <= z
      BY <1>2, <1>5, <2>2
    <3>2. QED
      BY <1>4, <1>5, <1>7, <2>2, <3>1
  <2>3. QED
    BY <2>1, <2>2
<1>9. QED
  BY <1>2, <1>3, <1>8 DEF FrameOf, n, N, l, a, fr

(* The next frame is the one of the original in its place. *)
FrameIn(g, h, m) ==
    /\ sink.next <= Len(g.frames) /\ Stored[sink.next] = g.frames[sink.next]
    /\ sink.hdr = h /\ h.ver # "v5"
    /\ FrameOf(g, h, Stream(m, truth, enc.trailer), sink.next)

StreamOf(m) == Stream(m, truth, enc.trailer)

LEMMA StreamTyped ==
    ASSUME NEW g, NEW h, NEW m, Origin(g, h, m), BaseInv
    PROVE  /\ StreamOf(m) \in Seq(ACell) /\ Len(StreamOf(m)) \in Nat \ {0}
           /\ m \in AMeta /\ truth \in Seq(Int) /\ enc.trailer \in ATrailer
<1>1. m \in AMeta
  BY OriginIs DEF Layout
<1>2. truth \in Seq(Int) /\ enc.trailer \in ATrailer
  BY BaseFacts
<1>3. StreamOf(m) \in Seq(ACell)
  BY <1>1, <1>2, StreamIs DEF StreamOf
<1>4. /\ Len(truth) \in Nat /\ Len(TrailerPart(enc.trailer)) \in Nat /\ m.pad \in Nat
      /\ Len(StreamOf(m)) = 1 + Len(truth) + Len(TrailerPart(enc.trailer)) + m.pad
  <2>1. Layout(h, m, truth, enc.trailer)
    BY OriginIs
  <2>2. QED
    BY <1>2, <2>1, LayoutIs DEF StreamOf
<1>5. Len(StreamOf(m)) \in Nat \ {0}
  BY <1>4
<1>6. QED
  BY <1>1, <1>2, <1>3, <1>5

LEMMA FrameRead ==
    ASSUME BaseInv, pc = "dec_frame", Framed(sink), NEW g, NEW h, NEW m, Origin(g, h, m),
           Derived([fs["out"] EXCEPT !.kind = "cont"], g),
           sink.next > 1 => sink.hdr = h, sink.next <= Len(Stored), Authentic(sink.next)
    PROVE  FrameIn(g, h, m)
<1> DEFINE i == sink.next
           fr == Stored[i]
           c == [fs["out"] EXCEPT !.kind = "cont"]
           cells == Stream(m, truth, enc.trailer)
<1>1. Decrypting /\ sink \in ASink /\ fs["out"] \in AFile /\ Stored = fs["out"].frames
  <2>1. Decrypting
    BY DEF Decrypting
  <2>2. fs["out"] \in AFile
    BY BaseFacts DEF Name
  <2>3. QED
    BY <2>1, <2>2, DecFacts
<1>2. /\ c.frames = Stored /\ Len(Stored) \in Nat /\ i \in Nat \ {0} /\ i \in 1 .. Len(Stored)
  <2>1. c.frames = Stored
    BY <1>1, AsCont
  <2>2. Len(Stored) \in Nat /\ i \in Nat \ {0}
    BY <1>1, FileFields, SinkFields
  <2>3. QED
    BY <2>1, <2>2
<1>3. fr.ok /\ fr.ctr = i - 1 /\ fr.aad = AadAt(sink.hdr, i - 1)
  BY DEF Authentic, OpensFrame
<1>4. \E j \in 1 .. Len(g.frames) : fr = g.frames[j]
  <2>1. ~c.frames[i].ok \/ \E j \in 1 .. Len(g.frames) : c.frames[i] = g.frames[j]
    BY <1>2 DEF Derived
  <2>2. QED
    BY <1>2, <1>3, <2>1
<1>5. PICK j \in 1 .. Len(g.frames) : fr = g.frames[j]
  BY <1>4
<1>6. /\ g \in AFile /\ Sealed(g.frames, h, cells) /\ Len(g.frames) \in Nat /\ h \in AHeader
      /\ cells \in Seq(ACell)
  BY OriginIs, StreamTyped DEF StreamOf
<1>7. h.ver # "v5"
  <2>1. SUFFICES ASSUME h.ver = "v5" PROVE FALSE
    OBVIOUS
  <2>2. g.frames = <<Frame(Cek, 0, TRUE, h, cells)>>
    BY <1>6, <2>1 DEF Sealed
  <2> DEFINE F == Frame(Cek, 0, TRUE, h, cells)
             G == g.frames
  <2>3. fr = F
    <3>1. G = <<F>> /\ j \in 1 .. Len(G)
      BY <2>2
    <3>2. fr = G[j]
      BY <1>5
    <3> HIDE DEF F, G, fr
    <3>3. j = 1 /\ G[1] = F
      BY <3>1
    <3>4. QED
      BY <3>2, <3>3
  <2>4. fr.ctr = 0 /\ fr.aad = h
    BY <2>3 DEF Frame
  <2>5. sink.hdr = h
    BY <1>2, <1>3, <2>4 DEF AadAt
  <2>6. QED
    BY <2>1, <2>5 DEF Framed
<1>8. FrameOf(g, h, cells, j)
  BY <1>6, <1>7, FrameOfIs
<1>9. j = i
  <2>1. fr.ctr = j - 1
    BY <1>5, <1>8 DEF FrameOf
  <2>2. j \in Nat
    BY <1>6
  <2>3. j - 1 = i - 1
    BY <1>3, <2>1
  <2> HIDE DEF i
  <2>4. QED
    BY <1>2, <2>2, <2>3
<1>10. sink.hdr = h
  <2>1. CASE i > 1
    BY <2>1
  <2>2. CASE i = 1
    <3>1. fr.aad = AadAt(h, i - 1)
      BY <1>5, <1>8, <1>9 DEF FrameOf
    <3>2. i - 1 = 0
      BY <2>2
    <3>3. QED
      BY <1>3, <3>1, <3>2 DEF AadAt
  <2>3. i = 1 \/ i > 1
    BY <1>2
  <2>4. QED
    BY <2>1, <2>2, <2>3
<1>11. i <= Len(g.frames)
  BY <1>5, <1>9
<1>12. QED
  BY <1>5, <1>7, <1>8, <1>9, <1>10, <1>11 DEF FrameIn

(* What a frame that was read has brought. *)
FrameBrings(s, g, h, m) ==
    LET n == Len(Stored[sink.next].body)
    IN  /\ n \in Nat /\ n <= FrameSize
        /\ Reads(cmd, s, m, truth, enc.trailer, (sink.next - 1) * FrameSize + n)
        /\ n = FrameSize => sink.next + 1 <= Len(g.frames)
        /\ n < FrameSize => /\ sink.next = Len(g.frames)
                            /\ (sink.next - 1) * FrameSize + n = Len(StreamOf(m))

LEMMA FrameBringsIs ==
    ASSUME BaseInv, Decrypting, NEW g, NEW h, NEW m, Origin(g, h, m), FrameIn(g, h, m),
           SinkAt(sink, m, truth, enc.trailer, (sink.next - 1) * FrameSize)
    PROVE  FrameBrings(SinkWrite(sink, Stored[sink.next].body), g, h, m)
<1> DEFINE i == sink.next
           body == Stored[i].body
           n == Len(body)
           a == (i - 1) * FrameSize
           cells == StreamOf(m)
           N == Len(g.frames)
           C == Len(cells)
<1>1. sink \in ASink /\ cmd \in Decryption /\ i \in Nat \ {0}
  BY DecFacts, SinkFields
<1>2. /\ i <= N /\ Stored[i] = g.frames[i] /\ sink.hdr = h
      /\ FrameOf(g, h, cells, i)
  BY DEF FrameIn, StreamOf
<1>3. g \in AFile /\ Layout(h, m, truth, enc.trailer) /\ N \in Nat
  BY OriginIs
<1>4. m \in AMeta /\ truth \in Seq(Int) /\ enc.trailer \in ATrailer /\ C \in Nat
  BY StreamTyped
<1>5. body \in Seq(ACell) /\ n \in Nat
  <2>1. i \in 1 .. N
    BY <1>1, <1>2, <1>3
  <2>2. g.frames[i] \in AFrame
    BY <1>3, <2>1, FileFields
  <2>3. QED
    BY <1>2, <2>2, FrameFields
<1>6. /\ n <= FrameSize /\ a + n <= C
      /\ i # N => n = FrameSize
      /\ i = N => n < FrameSize /\ a + n = C
      /\ \A k \in 1 .. n : body[k] = cells[a + k]
  BY <1>2 DEF FrameOf
<1>7. NextCells(m, truth, enc.trailer, a, body)
  BY <1>6 DEF NextCells, StreamOf
<1>8. a \in Nat
  BY <1>1, FrameStarts
<1>9. SinkAt(sink, m, truth, enc.trailer, a)
  OBVIOUS
<1>10. Reads(cmd, SinkWrite(sink, body), m, truth, enc.trailer, a + n)
  <2> HIDE DEF a, body
  <2>1. QED
    BY <1>1, <1>2, <1>3, <1>4, <1>5, <1>7, <1>8, <1>9, SinkReads
<1>11. FrameSize \in Nat
  BY FrameSizeIs
<1>12. (n = FrameSize => i + 1 <= N) /\ (n < FrameSize => i = N)
  <2>1. n = FrameSize => i # N
    <3> HIDE DEF n, N, a, C
    <3>1. QED
      BY <1>5, <1>6, <1>11
  <2>2. n < FrameSize => i = N
    <3> HIDE DEF n, N, a, C
    <3>1. QED
      BY <1>5, <1>6, <1>11
  <2>3. i # N => i + 1 <= N
    <3> HIDE DEF i, N
    <3>1. QED
      BY <1>1, <1>2, <1>3
  <2>4. QED
    BY <2>1, <2>2, <2>3
<1>13. QED
  BY <1>5, <1>6, <1>10, <1>12 DEF FrameBrings

(* The whole of it, read frame by frame. *)
LEMMA FramesWhole ==
    ASSUME BaseInv, Decrypting, NEW g, NEW h, NEW m, Origin(g, h, m),
           Outcome([fs["out"] EXCEPT !.kind = "cont"], g), FrameIn(g, h, m),
           sink.next = Len(g.frames), sink.next = Len(Stored),
           \A i \in 1 .. sink.next - 1 : fs["out"].frames[i] = g.frames[i]
    PROVE  touched # "relay"
<1> DEFINE c == [fs["out"] EXCEPT !.kind = "cont"]
           i == sink.next
<1>1. fs["out"] \in AFile /\ sink.hdr = fs["out"].hdr /\ Stored = fs["out"].frames
      /\ i \in Nat \ {0}
  <2>1. fs["out"] \in AFile /\ sink \in ASink
    BY BaseFacts DEF Name
  <2>2. QED
    BY <2>1, DecFacts, SinkFields
<1>2. c \in AFile /\ c.frames = Stored /\ c.hdr = sink.hdr
  BY <1>1, AsCont
<1>3. g \in AFile /\ g.hdr = h /\ g.frames \in Seq(AFrame)
  BY OriginIs
<1>4. sink.hdr = h /\ Stored[i] = g.frames[i]
  BY DEF FrameIn
<1>5. Stored = g.frames
  <2>1. Stored \in Seq(AFrame)
    BY <1>1, FileFields
  <2>2. \A k \in 1 .. Len(Stored) : Stored[k] = g.frames[k]
    <3>1. TAKE k \in 1 .. Len(Stored)
    <3>2. k \in 1 .. i - 1 \/ k = i
      BY <1>1
    <3>3. QED
      BY <1>1, <1>4, <3>2
  <2>3. Len(Stored) = Len(g.frames)
    OBVIOUS
  <2>4. QED
    BY <1>3, <2>1, <2>2, <2>3, SameSequence
<1>6. c = g
  BY <1>2, <1>3, <1>4, <1>5, DerivedSame DEF Outcome
<1>7. QED
  BY <1>6 DEF Outcome

(* Version 5: one frame, and its tag covers the whole of the stream. *)
PayloadIn(g, h, m) ==
    /\ sink.hdr = h /\ h.ver = "v5" /\ Stored = g.frames
    /\ Payload = StreamOf(m)
    /\ touched # "relay"

LEMMA PayloadRead ==
    ASSUME BaseInv, Decrypting, ~Framed(sink), NEW g, NEW h, NEW m, Origin(g, h, m),
           Outcome([fs["out"] EXCEPT !.kind = "cont"], g), PayloadAuthentic
    PROVE  PayloadIn(g, h, m)
<1> DEFINE c == [fs["out"] EXCEPT !.kind = "cont"]
           cells == Stream(m, truth, enc.trailer)
           F == Frame(Cek, 0, TRUE, h, cells)
           fr == Stored[1]
<1>1. fs["out"] \in AFile /\ sink.hdr = fs["out"].hdr /\ Stored = fs["out"].frames
  <2>1. fs["out"] \in AFile
    BY BaseFacts DEF Name
  <2>2. QED
    BY <2>1, DecFacts
<1>2. c \in AFile /\ c.frames = Stored /\ c.hdr = sink.hdr
  BY <1>1, AsCont
<1>3. /\ g \in AFile /\ g.hdr = h /\ g.frames \in Seq(AFrame) /\ Len(g.frames) \in Nat
      /\ Sealed(g.frames, h, cells) /\ h \in AHeader
  BY OriginIs
<1>4. cells \in Seq(ACell)
  BY StreamTyped DEF StreamOf
<1>5. Len(Stored) = 1 /\ fr.ok /\ fr.ctr = 0 /\ fr.aad = sink.hdr
  BY DEF PayloadAuthentic, OpensFrame
<1>6. \E j \in 1 .. Len(g.frames) : fr = g.frames[j]
  <2>1. ~c.frames[1].ok \/ \E j \in 1 .. Len(g.frames) : c.frames[1] = g.frames[j]
    BY <1>2, <1>5 DEF Derived, Outcome
  <2>2. QED
    BY <1>2, <1>5, <2>1
<1>7. PICK j \in 1 .. Len(g.frames) : fr = g.frames[j]
  BY <1>6
<1>8. h.ver = "v5"
  <2>1. SUFFICES ASSUME h.ver # "v5" PROVE FALSE
    OBVIOUS
  <2>2. FrameOf(g, h, cells, j)
    BY <1>3, <1>4, <2>1, FrameOfIs
  <2>3. fr.ctr = j - 1 /\ fr.aad = AadAt(h, j - 1)
    BY <1>7, <2>2 DEF FrameOf
  <2>4. j \in Nat
    BY <1>3
  <2>5. j - 1 = 0
    BY <1>5, <2>3
  <2>6. sink.hdr = h
    BY <1>5, <2>3, <2>5 DEF AadAt
  <2>7. QED
    BY <2>1, <2>6 DEF Framed
<1>9. fr = F /\ g.frames = <<F>>
  <2> DEFINE G == g.frames
  <2>1. G = <<F>>
    BY <1>3, <1>8 DEF Sealed
  <2>2. fr = G[j] /\ j \in 1 .. Len(G)
    BY <1>7
  <2> HIDE DEF F, G, fr
  <2>3. j = 1 /\ G[1] = F
    BY <2>1, <2>2
  <2>4. QED
    BY <2>1, <2>2, <2>3 DEF G
<1>10. F.aad = h /\ F.body = cells
  BY DEF Frame
<1>11. sink.hdr = h
  BY <1>5, <1>9, <1>10
<1>12. Stored = g.frames
  <2>1. Stored \in Seq(AFrame)
    BY <1>1, FileFields
  <2> HIDE DEF F
  <2>2. Len(g.frames) = 1 /\ g.frames[1] = F
    BY <1>9
  <2>3. Len(Stored) = Len(g.frames) /\ \A k \in 1 .. Len(Stored) : Stored[k] = g.frames[k]
    BY <1>5, <1>9, <2>2
  <2>4. QED
    BY <1>3, <2>1, <2>3, SameSequence
<1>13. Payload = cells
  <2> DEFINE seqs == [i \in DOMAIN Stored |-> Stored[i].body]
  <2>1. Stored \in Seq(AFrame) /\ Len(Stored) = 1
    BY <1>1, <1>5, FileFields
  <2>2. DOMAIN Stored = 1 .. 1
    BY <2>1
  <2>3. seqs \in [1 .. 1 -> Seq(ACell)]
    <3>1. \A i \in 1 .. 1 : Stored[i].body \in Seq(ACell)
      BY <2>1, FrameFields
    <3>2. QED
      BY <2>2, <3>1
  <2>4. seqs[1] = cells
    <3>1. seqs[1] = fr.body
      BY <2>2
    <3>2. QED
      BY <1>9, <1>10, <3>1
  <2>5. FlattenSeq(seqs) = seqs[1]
    <3> HIDE DEF seqs
    <3>1. QED
      BY <2>3, FlattenIs
  <2>6. QED
    BY <2>4, <2>5 DEF Payload
<1>14. c = g
  BY <1>2, <1>3, <1>11, <1>12, DerivedSame DEF Outcome
<1>15. touched # "relay"
  BY <1>14 DEF Outcome
<1>16. QED
  BY <1>8, <1>11, <1>12, <1>13, <1>15 DEF PayloadIn, StreamOf

(***************************************************************************)
(* The third part is kept: the steps that are not about a container.       *)
(***************************************************************************)
LEMMA ContVacuous ==
    ASSUME pc' \in {"enc_open", "enc_frame", "enc_close", "armor", "ret", "crashed"},
           ~(cmd'.op = "enc" /\ pc' = "ret" /\ rc' = "ok")
    PROVE  ContInv'
  BY DEF ContInv, Decrypting

LEMMA NotDecrypting ==
    ASSUME cmd'.op # "dec", ContInv'
    PROVE  ContAll'
  BY DEF ContAll, InputInv, DecWhole, PipeInv, TamperDetected, RoundTrip, Decrypted

LEMMA ContEncSteps ==
    ASSUME BaseInv, (\E c \in Encryption : EncBegin(c)) \/ EncOpen \/ EncFault
                    \/ ArmorFails \/ InputChanges
    PROVE  ContAll'
<1>1. cmd'.op = "enc"
  <2>1. ASSUME NEW c \in Encryption, EncBegin(c) PROVE cmd'.op = "enc"
    BY <2>1 DEF EncBegin, Encryption
  <2>2. ASSUME EncOpen \/ EncFault \/ ArmorFails \/ InputChanges PROVE cmd'.op = "enc"
    <3>1. Encrypting /\ cmd' = cmd
      BY <2>2 DEF EncOpen, EncFault, ArmorFails, InputChanges, Encrypting
    <3>2. QED
      BY <3>1, EncTarget
  <2>3. QED
    BY <2>1, <2>2
<1>2. /\ pc' \in {"enc_open", "enc_frame", "enc_close", "armor", "ret", "crashed"}
      /\ pc' = "ret" => rc' # "ok"
  BY DEF EncBegin, EncOpen, EncFault, ArmorFails, InputChanges, EncFail
<1>3. ContInv'
  BY <1>2, ContVacuous
<1>4. QED
  BY <1>1, <1>3, NotDecrypting

LEMMA ContEncFrame ==
    ASSUME BaseInv, EncFrame
    PROVE  ContAll'
<1>1. Encrypting /\ cmd' = cmd
  BY DEF EncFrame, Encrypting
<1>2. cmd.op = "enc" /\ cmd \in Encryption /\ enc \in AnEnc /\ fs["in"] \in AFile
  BY <1>1, EncTarget, BaseFacts DEF Name
<1>3. /\ pc' \in {"enc_frame", "enc_close", "ret"}
      /\ pc' = "ret" => rc' # "ok"
  BY <1>2, EncFrameIs DEF EncFail
<1>4. ContInv'
  BY <1>3, ContVacuous
<1>5. QED
  BY <1>1, <1>2, <1>4, NotDecrypting

LEMMA ContUnchanged ==
    ASSUME ContAll, UNCHANGED vars
    PROVE  ContAll'
<1> USE DEF vars
<1>1. ContInv'
  <2>1. ASSUME NEW g, NEW h, NEW m, ContOf(g, h, m) PROVE ContOf(g, h, m)'
    BY <2>1 DEF ContOf, Origin, Outcome, SinkInv, Decrypting, PayloadAuthentic, Stored, Source,
                Dearmor
  <2>2. QED
    BY <2>1 DEF ContAll, ContInv, Decrypting
<1>2. InputInv' /\ DecWhole' /\ PipeInv' /\ TamperDetected' /\ RoundTrip'
  BY DEF ContAll, InputInv, DecWhole, PipeInv, TamperDetected, RoundTrip, Decrypted, InOrder
<1>3. QED
  BY <1>1, <1>2 DEF ContAll

(* What crypto_encrypt_file has written is a container of what it has read. *)
LEMMA WrittenOrigin ==
    ASSUME NEW g \in AFile, NEW h, NEW m, h = enc.hdr, m = enc.meta, Written(g),
           truth' = enc.data, enc' = enc
    PROVE  Origin(g, h, m)'
  BY DEF Written, Origin

LEMMA DerivedKind ==
    ASSUME NEW f, NEW g \in AFile, Derived(f, g)
    PROVE  f.kind = g.kind
<1> DEFINE x == f.hdr
           y == f.frames
<1>1. f = [g EXCEPT !.hdr = x, !.frames = y]
  BY DEF Derived
<1> HIDE DEF x, y
<1>2. QED
  BY <1>1 DEF AFile

LEMMA ContEncClose ==
    ASSUME BaseInv, BaseInv', EncAll, EncClose \/ EncFlushLost
    PROVE  ContAll'
<1>1. /\ pc = "enc_close" /\ cmd' = cmd /\ enc' = enc /\ truth' = enc.data
      /\ pc' = IF cmd.to = "tmp" THEN "armor" ELSE "ret"
  BY DEF EncClose, EncFlushLost
<1>2. Encrypting
  BY <1>1 DEF Encrypting
<1>3. cmd.op = "enc" /\ cmd \in Encryption /\ cmd.to \in Name
  BY <1>2, EncTarget
<1>4. /\ touched = "no" /\ Written(fs[cmd.to])
      /\ cmd.to # "out" => Untouched(fs["out"])
  BY <1>1, <1>2, <1>3 DEF EncAll, EncInv
<1>5. /\ touched' \in {"no", "flush"}
      /\ touched' = "no" => fs' = fs
      /\ fs' = fs \/ \E f \in Torn(fs[cmd.to]) : fs' = [fs EXCEPT ![cmd.to] = f]
  BY <1>4 DEF EncClose, EncFlushLost, Write
<1>6. \A n \in Name : fs[n] \in AFile /\ fs'[n] \in AFile
  <2>1. fs \in [Name -> AFile] /\ fs' \in [Name -> AFile]
    BY DEF BaseInv, Types
  <2>2. QED
    BY <2>1
<1>7. ContInv'
  <2>1. CASE cmd.to = "tmp"
    BY <1>1, <2>1, ContVacuous
  <2>2. CASE cmd.to \notin {"tmp", "out"}
    <3>1. fs'["out"] = fs["out"]
      <4>1. fs \in [Name -> AFile]
        BY DEF BaseInv, Types
      <4>2. ASSUME NEW f, fs' = [fs EXCEPT ![cmd.to] = f] PROVE fs'["out"] = fs["out"]
        BY <1>3, <2>2, <4>1, <4>2 DEF Name
      <4>3. QED
        BY <1>5, <4>2
    <3>2. fs'["out"].kind \notin {"cont", "armor"}
      BY <1>4, <2>2, <3>1, FilesAre DEF Untouched
    <3>3. QED
      BY <3>2 DEF ContInv
  <2>3. CASE cmd.to = "out"
    <3>1. PICK g : g = fs["out"]
      OBVIOUS
    <3>2. PICK h, m : h = enc.hdr /\ m = enc.meta
      OBVIOUS
    <3>3. PICK f : f = fs'["out"]
      OBVIOUS
    <3>4. g \in AFile /\ f \in AFile /\ Written(g)
      BY <1>4, <1>6, <2>3, <3>1, <3>3 DEF Name
    <3>5. g.kind = "cont" /\ g.data = <<>>
      BY <3>4, WrittenIs
    <3>6. (f = g \/ f \in Torn(g)) /\ (touched' = "no" => f = g)
      <4>1. fs \in [Name -> AFile] /\ "out" \in Name
        BY DEF BaseInv, Types, Name
      <4>2. ASSUME NEW x \in Torn(fs[cmd.to]), fs' = [fs EXCEPT ![cmd.to] = x]
            PROVE  f \in Torn(g)
        BY <2>3, <3>1, <3>3, <4>1, <4>2
      <4>3. QED
        BY <1>5, <3>1, <3>3, <4>2
    <3>7. Derived(f, g)
      BY <3>4, <3>5, <3>6, TornDerived
    <3>8. f.kind = "cont"
      BY <3>4, <3>5, <3>7, DerivedKind
    <3>9. [f EXCEPT !.kind = "cont"] = f
      BY <3>4, <3>8, AsCont
    <3>10. Outcome([fs["out"] EXCEPT !.kind = "cont"], g)'
      BY <1>5, <3>3, <3>6, <3>7, <3>9 DEF Outcome
    <3>11. Origin(g, h, m)'
      BY <1>1, <3>2, <3>4, WrittenOrigin
    <3>12. ~Decrypting'
      BY <1>1, <2>3 DEF Decrypting
    <3>13. ContOf(g, h, m)'
      BY <3>10, <3>11, <3>12 DEF ContOf
    <3>14. QED
      BY <3>13 DEF ContInv
  <2>4. QED
    BY <2>1, <2>2, <2>3
<1>8. QED
  BY <1>1, <1>3, <1>7, NotDecrypting

LEMMA ContArmor ==
    ASSUME BaseInv, EncAll, Armor
    PROVE  ContAll'
<1>1. /\ pc = "armor" /\ pc' = "ret" /\ UNCHANGED <<cmd, enc, truth, touched>>
      /\ fs' = [fs EXCEPT !["out"] = Armored(fs["tmp"]), !["tmp"] = NoFile]
  BY DEF Armor
<1>2. Encrypting
  BY <1>1 DEF Encrypting
<1>3. cmd.op = "enc"
  BY <1>2, EncTarget
<1>4. truth = enc.data /\ \E g \in AFile : Written(g) /\ Outcome(fs["tmp"], g)
  BY <1>1, <1>3 DEF EncAll, EncInv
<1>5. PICK g \in AFile : Written(g) /\ Outcome(fs["tmp"], g)
  BY <1>4
<1>6. PICK h, m : h = enc.hdr /\ m = enc.meta
  OBVIOUS
<1>7. PICK f : f = fs["tmp"]
  OBVIOUS
<1>8. f \in AFile
  BY <1>7, BaseFacts DEF Name
<1>9. f.kind = "cont"
  <2>1. g.kind = "cont"
    BY <1>5, WrittenIs
  <2>2. Derived(f, g)
    BY <1>5, <1>7 DEF Outcome
  <2>3. QED
    BY <2>1, <2>2, DerivedKind
<1>10. fs'["out"] = Armored(f)
  <2>1. fs \in [Name -> AFile] /\ "out" \in Name /\ "out" # "tmp"
    BY DEF BaseInv, Types, Name
  <2>2. QED
    BY <1>1, <1>7, <2>1
<1>11. [Armored(f) EXCEPT !.kind = "cont"] = f
  <2>1. [f EXCEPT !.kind = "cont"] = f
    BY <1>8, <1>9, AsCont
  <2>2. [Armored(f) EXCEPT !.kind = "cont"] = [f EXCEPT !.kind = "cont"]
    BY <1>8 DEF Armored, AFile
  <2>3. QED
    BY <2>1, <2>2
<1>12. Outcome([fs["out"] EXCEPT !.kind = "cont"], g)'
  <2>1. [fs'["out"] EXCEPT !.kind = "cont"] = f
    BY <1>10, <1>11
  <2>2. QED
    BY <1>1, <1>5, <1>7, <2>1 DEF Outcome
<1>13. Origin(g, h, m)'
  BY <1>1, <1>4, <1>5, <1>6, WrittenOrigin
<1>14. ~Decrypting'
  BY <1>1 DEF Decrypting
<1>15. ContOf(g, h, m)'
  BY <1>12, <1>13, <1>14 DEF ContOf
<1>16. ContInv'
  BY <1>15 DEF ContInv
<1>17. QED
  BY <1>1, <1>3, <1>16, NotDecrypting

LEMMA ContTamper ==
    ASSUME BaseInv, BaseInv', ContAll, Tamper
    PROVE  ContAll'
<1>1. /\ pc = "idle" \/ (pc = "ret" /\ cmd.op = "enc" /\ rc = "ok")
      /\ fs["out"].kind = "cont" /\ touched = "no"
      /\ UNCHANGED <<pc, cmd, enc, sink, rc, said, truth>>
  BY DEF Tamper
<1>2. cmd'.op # "dec"
  BY <1>1 DEF BaseInv, Phases, NoCmd
<1>3. CASE touched' = "insider"
  <2>1. ContInv'
    BY <1>3 DEF ContInv
  <2>2. QED
    BY <1>2, <2>1, NotDecrypting
<1>4. ASSUME NEW f \in Relayed(fs["out"]) \ {fs["out"]}, fs' = Write("out", f), touched' = "relay"
      PROVE  ContAll'
  <2>1. \E g, h, m : ContOf(g, h, m)
    BY <1>1 DEF ContAll, ContInv
  <2>2. PICK g, h, m : ContOf(g, h, m)
    BY <2>1
  <2>3. g \in AFile /\ Origin(g, h, m)
    BY <2>2, OriginIs DEF ContOf
  <2>4. PICK o : o = fs["out"]
    OBVIOUS
  <2>5. o \in AFile /\ o.kind = "cont"
    BY <1>1, <2>4, BaseFacts DEF Name
  <2>6. o = g
    <3>1. [o EXCEPT !.kind = "cont"] = o
      BY <2>5, AsCont
    <3>2. [o EXCEPT !.kind = "cont"] = g
      BY <1>1, <2>2, <2>4 DEF ContOf, Outcome
    <3>3. QED
      BY <3>1, <3>2
  <2>7. PICK x : x = f
    OBVIOUS
  <2>8. x \in Relayed(g) /\ x # g
    BY <1>4, <2>4, <2>6, <2>7
  <2>9. Derived(x, g) /\ x \in AFile
    <3>1. Remade(x, g)
      BY <2>3, <2>8, RelayedIs
    <3>2. QED
      BY <2>3, <3>1, RemadeDerived DEF Remade
  <2>10. x.kind = "cont"
    BY <2>3, <2>5, <2>6, <2>9, DerivedKind
  <2>11. fs'["out"] = x
    <3>1. fs \in [Name -> AFile] /\ "out" \in Name
      BY DEF BaseInv, Types, Name
    <3>2. QED
      BY <1>4, <2>7, <3>1 DEF Write
  <2>12. [fs'["out"] EXCEPT !.kind = "cont"] = x
    BY <2>9, <2>10, <2>11, AsCont
  <2>13. Outcome([fs["out"] EXCEPT !.kind = "cont"], g)'
    BY <1>4, <2>8, <2>9, <2>12 DEF Outcome
  <2>14. Origin(g, h, m)'
    BY <1>1, <2>3 DEF Origin
  <2>15. ~Decrypting'
    BY <1>1 DEF Decrypting
  <2>16. ContOf(g, h, m)'
    BY <2>13, <2>14, <2>15 DEF ContOf
  <2>17. ContInv'
    BY <2>16 DEF ContInv
  <2>18. QED
    BY <1>2, <2>17, NotDecrypting
<1>5. QED
  BY <1>3, <1>4 DEF Tamper

LEMMA ContCrash ==
    ASSUME BaseInv, EncAll, ContAll, Crash
    PROVE  ContAll'
<1>1. /\ pc' = "crashed" /\ UNCHANGED <<cmd, enc, sink, rc, said, truth, touched>>
      /\ faults' = faults + 1
  BY DEF Crash
<1>2. ContInv'
  BY <1>1, ContVacuous
<1>3. CASE cmd.op # "dec"
  BY <1>1, <1>2, <1>3, NotDecrypting
<1>4. CASE cmd.op = "dec"
  <2>1. faults' # 0
    BY <1>1 DEF EncAll
  <2>2. InputInv'
    BY <2>1 DEF InputInv
  <2>3. DecWhole' /\ TamperDetected' /\ RoundTrip'
    BY <1>1 DEF DecWhole, TamperDetected, RoundTrip, Decrypted
  <2>4. fs'["pipe"] = fs["pipe"]
    <3>1. \E g : fs' = [fs EXCEPT !["res"] = g]
      BY <1>4 DEF Crash, Write
    <3>2. fs \in [Name -> AFile] /\ "pipe" \in Name /\ "pipe" # "res"
      BY DEF BaseInv, Types, Name
    <3>3. QED
      BY <3>1, <3>2
  <2>5. PipeInv'
    BY <1>1, <2>4 DEF PipeInv, ContAll
  <2>6. QED
    BY <1>2, <2>2, <2>3, <2>5 DEF ContAll
<1>5. QED
  BY <1>3, <1>4

(***************************************************************************)
(* The third part is kept: decryption begins.                              *)
(***************************************************************************)
(* The container nobody has touched is the one that was written. *)
LEMMA UntouchedIs ==
    ASSUME BaseInv, NEW g, NEW h, NEW m, ContOf(g, h, m), touched = "no"
    PROVE  /\ [fs["out"] EXCEPT !.kind = "cont"] = g
           /\ fs["out"].hdr = h /\ fs["out"].frames = g.frames
           /\ h.recs # <<>> /\ Unwraps(h, "A")
<1>1. fs["out"] \in AFile
  BY BaseFacts DEF Name
<1>2. [fs["out"] EXCEPT !.kind = "cont"] = g /\ Origin(g, h, m)
  BY DEF ContOf, Outcome
<1>3. g.hdr = h /\ h \in AHeader /\ h.recs # <<>> /\ h.recs[1].to = "A"
  BY <1>2, OriginIs
<1>4. fs["out"].hdr = h /\ fs["out"].frames = g.frames
  BY <1>1, <1>2, <1>3, AsCont
<1>5. 1 \in DOMAIN h.recs
  <2> DEFINE r == h.recs
  <2>1. \E T : r \in Seq(T)
    BY <1>3 DEF AHeader
  <2>2. r # <<>>
    BY <1>3
  <2> HIDE DEF r
  <2>3. 1 \in DOMAIN r
    BY <2>1, <2>2
  <2>4. QED
    BY <2>3 DEF r
<1>6. Unwraps(h, "A")
  BY <1>3, <1>5 DEF Unwraps
<1>7. QED
  BY <1>2, <1>3, <1>4, <1>6

LEMMA ContFails ==
    ASSUME BaseInv', cmd'.op = "dec", pc' = "ret", rc' \in {"input", "integrity", "io"},
           InputInv', PipeInv', ~InOrder'
    PROVE  ContAll'
<1>1. ContInv'
  BY ContVacuous
<1>2. fs'["res"].kind # "plain"
  BY DEF BaseInv, DecInv
<1>3. DecWhole' /\ TamperDetected' /\ RoundTrip'
  BY <1>2 DEF DecWhole, TamperDetected, RoundTrip
<1>4. QED
  BY <1>1, <1>3 DEF ContAll

LEMMA SinkStarts ==
    ASSUME NEW s, NEW m \in AMeta, NEW d \in Seq(Int), NEW t \in ATrailer,
           s.err = "no", ~s.meta_done, s.meta_done \in BOOLEAN,
           s.data = <<>>, s.tbuf = <<>>, s.pad_seen = 0
    PROVE  SinkAt(s, m, d, t, 0)
<1>1. Len(d) \in Nat /\ Len(TrailerPart(t)) \in Nat /\ m.pad \in Nat
  BY TrailerPartIs, LenProperties DEF AMeta
<1>2. Len(s.data) = 0 /\ Len(s.tbuf) = 0
  OBVIOUS
<1>3. s.meta_done = (0 > 0)
  OBVIOUS
<1>4. /\ Len(s.data) <= Len(d) /\ Len(s.tbuf) <= Len(TrailerPart(t)) /\ s.pad_seen <= m.pad
      /\ \A i \in 1 .. Len(s.data) : s.data[i] = d[i]
      /\ \A i \in 1 .. Len(s.tbuf) : s.tbuf[i] = Stream(m, d, t)[1 + Len(s.data) + i]
      /\ ~(s.pad_seen > 0)
  BY <1>1, <1>2
<1>5. QED
  BY <1>3, <1>4 DEF SinkAt

PayloadSure ==
    \A g, h, m :
        /\ BaseInv /\ Decrypting /\ ~Framed(sink) /\ PayloadAuthentic
        /\ Origin(g, h, m) /\ Outcome([fs["out"] EXCEPT !.kind = "cont"], g)
        => PayloadIn(g, h, m)

LEMMA PayloadAll == PayloadSure
  BY PayloadRead DEF PayloadSure

LEMMA PayloadNext ==
    ASSUME NEW g, NEW h, NEW m,
           BaseInv', Decrypting', ~Framed(sink'), PayloadAuthentic', Origin(g, h, m)',
           Outcome([fs["out"] EXCEPT !.kind = "cont"], g)'
    PROVE  PayloadIn(g, h, m)'
<1>1. PayloadSure'
  BY PayloadAll, PTL
<1>2. QED
  BY <1>1 DEF PayloadSure

LEMMA ContDecBegin ==
    ASSUME BaseInv, BaseInv', EncAll, ContAll, NEW c \in Decryption, DecBegin(c)
    PROVE  ContAll'
<1> DEFINE f == Source(c)
           s == [NoSink EXCEPT !.hdr = f.hdr]
           files == [fs EXCEPT !["tmp"] = Dearmor(c), !["pipe"] = NoFile]
<1>1. /\ fs["out"].kind \in {"cont", "armor"} /\ cmd' = c
      /\ UNCHANGED <<enc, faults, said, truth, touched>>
      /\ pc = "idle" \/ (pc = "ret" /\ cmd.op = "enc" /\ rc = "ok")
      /\ cmd'.op = "dec"
  BY DEF DecBegin, Decryption
<1>2. \/ (f.kind # "cont" \/ f.hdr.recs = <<>>) /\ DecFail("input", files, s)
      \/ ~Unwraps(f.hdr, c.who) /\ DecFail("integrity", files, s)
      \/ /\ pc' = "dec_frame" /\ sink' = [s EXCEPT !.cek = UnwrapCek(f.hdr, c.who)]
         /\ fs' = files
  BY DEF DecBegin
<1>3. /\ fs \in [Name -> AFile] /\ fs["out"] \in AFile
      /\ {"out", "tmp", "res", "pipe", "in"} \subseteq Name
  BY DEF BaseInv, Types, Name
<1>4. /\ f \in AFile
      /\ f.kind = "cont" => f.hdr = fs["out"].hdr /\ f.frames = fs["out"].frames
  BY BaseFacts, SourceIs
<1>5. files["out"] = fs["out"] /\ files["in"] = fs["in"] /\ files["pipe"] = NoFile
  BY <1>3
<1>6. fs'["out"] = fs["out"] /\ fs'["in"] = fs["in"] /\ fs'["pipe"] = NoFile
  <2> HIDE DEF files
  <2>1. CASE \E code : DecFail(code, files, s)
    BY <1>3, <1>5, <2>1 DEF DecFail
  <2>2. CASE fs' = files
    BY <1>5, <2>2
  <2>3. QED
    BY <1>2, <2>1, <2>2
<1>7. InputInv'
  <2>1. enc.hdr # NoHdr /\ faults = 0 => truth = fs["in"].data
    <3>1. CASE pc = "idle"
      <4>1. enc = NoEnc
        BY <3>1 DEF EncAll, IdleInv
      <4>2. QED
        BY <4>1, NoEncIs
    <3>2. CASE pc = "ret" /\ cmd.op = "enc" /\ rc = "ok"
      BY <3>2 DEF EncAll, EncReturned
    <3>3. QED
      BY <1>1, <3>1, <3>2
  <2>2. QED
    BY <1>1, <1>6, <2>1 DEF InputInv
<1>8. PipeInv'
  <2>1. fs'["pipe"].data = <<>>
    BY <1>6, FilesAre
  <2>2. truth' \in Seq(Int)
    BY DEF BaseInv, Types
  <2>3. Len(truth') \in Nat /\ Len(<<>>) = 0
    BY <2>2
  <2>4. QED
    BY <2>1, <2>3 DEF PipeInv
<1>9. touched # "insider" => \E g, h, m : ContOf(g, h, m)
  BY <1>1 DEF ContAll, ContInv
<1>10. CASE pc' = "ret"
  <2>1. rc' \in {"input", "integrity", "io"} /\ (f.kind # "cont" \/ f.hdr.recs = <<>> \/ ~Unwraps(f.hdr, c.who))
    BY <1>2, <1>10 DEF DecFail
  <2>2. ~InOrder'
    <3>1. SUFFICES ASSUME InOrder' PROVE FALSE
      OBVIOUS
    <3>2. touched = "no" /\ c.who = "A" /\ c.armor = (fs["out"].kind = "armor")
      BY <1>1, <1>6, <3>1 DEF InOrder
    <3>3. \E g, h, m : ContOf(g, h, m)
      BY <1>9, <3>2
    <3>4. PICK g, h, m : ContOf(g, h, m)
      BY <3>3
    <3>5. fs["out"].hdr = h /\ h.recs # <<>> /\ Unwraps(h, "A")
      BY <3>2, <3>4, UntouchedIs
    <3>6. f.kind = "cont"
      <4>1. CASE fs["out"].kind = "armor"
        <5>1. f = [fs["out"] EXCEPT !.kind = "cont"]
          BY <3>2, <4>1 DEF Source, Dearmor
        <5>2. QED
          BY <1>3, <5>1 DEF AFile
      <4>2. CASE fs["out"].kind # "armor"
        <5>1. f = fs["out"]
          BY <3>2, <4>2 DEF Source
        <5>2. QED
          BY <1>1, <4>2, <5>1
      <4>3. QED
        BY <4>1, <4>2
    <3>7. f.hdr = h
      BY <1>4, <3>5, <3>6
    <3>8. QED
      BY <2>1, <3>2, <3>5, <3>6, <3>7
  <2>3. QED
    BY <1>1, <1>7, <1>8, <1>10, <2>1, <2>2, ContFails
<1>11. CASE pc' = "dec_frame" /\ sink' = [s EXCEPT !.cek = UnwrapCek(f.hdr, c.who)]
  <2>1. Decrypting' /\ pc' # "ret"
    BY <1>11 DEF Decrypting
  <2>2. DecWhole' /\ TamperDetected' /\ RoundTrip'
    BY <2>1 DEF DecWhole, TamperDetected, RoundTrip, Decrypted
  <2>3. ASSUME touched # "insider" PROVE \E g, h, m : ContOf(g, h, m)'
    <3>1. \E g, h, m : ContOf(g, h, m)
      BY <1>9, <2>3
    <3>2. PICK g, h, m : ContOf(g, h, m)
      BY <3>1
    <3>3. Origin(g, h, m)'
      BY <1>1, <3>2 DEF ContOf, Origin
    <3>4. Outcome([fs["out"] EXCEPT !.kind = "cont"], g)'
      BY <1>1, <1>6, <3>2 DEF ContOf, Outcome
    <3>5. Len(g.frames) \in Nat \ {0} /\ Layout(h, m, truth, enc.trailer)
      BY <3>2, OriginIs DEF ContOf
    <3>6. /\ sink'.err = "no" /\ ~sink'.meta_done /\ sink'.meta_done \in BOOLEAN
          /\ sink'.data = <<>> /\ sink'.tbuf = <<>> /\ sink'.pad_seen = 0 /\ sink'.next = 1
      <4> DEFINE k == UnwrapCek(f.hdr, c.who)
                 o == f.hdr
      <4>1. sink' = [[NoSink EXCEPT !.hdr = o] EXCEPT !.cek = k]
        BY <1>11
      <4> HIDE DEF k, o
      <4>2. QED
        BY <4>1 DEF NoSink
    <3>7. m \in AMeta /\ truth \in Seq(Int) /\ enc.trailer \in ATrailer
      BY <3>5, BaseFacts DEF Layout
    <3>8. SinkAt(sink', m, truth, enc.trailer, 0)
      BY <3>6, <3>7, SinkStarts
    <3>9. (sink'.next - 1) * FrameSize = 0
      BY <3>6, FrameSizeIs
    <3>10. Min({(sink'.next - 1) * BufSize, Len(Stream(m, truth, enc.trailer))}) = 0
      <4>1. (sink'.next - 1) * BufSize = 0
        BY <3>6, ContainerAssumption
      <4>2. StreamOf(m) \in Seq(ACell) /\ Len(StreamOf(m)) \in Nat
        BY <3>2, StreamTyped DEF ContOf
      <4>3. QED
        BY <4>1, <4>2, MinOfTwo DEF StreamOf
    <3>11. ~Framed(sink') /\ PayloadAuthentic' =>
              fs'["out"].frames = g.frames /\ sink'.hdr = h
      <4>1. SUFFICES ASSUME ~Framed(sink'), PayloadAuthentic'
                     PROVE  fs'["out"].frames = g.frames /\ sink'.hdr = h
        OBVIOUS
      <4>2. PayloadIn(g, h, m)'
        BY <2>1, <3>3, <3>4, <4>1, PayloadNext
      <4>3. Stored' = fs'["out"].frames
        BY <1>1, <2>1 DEF BaseInv, DecInv
      <4>4. QED
        BY <4>2, <4>3 DEF PayloadIn
    <3>12. SinkInv(g, h, m)'
      <4>1. pc' \notin {"dec_finish", "dec_close"}
        BY <1>11
      <4>2. 1 <= Len(g.frames) /\ \A i \in 1 .. sink'.next - 1 : FALSE
        BY <3>5, <3>6
      <4>3. SinkAt(sink', m, truth', enc'.trailer, (sink'.next - 1) * FrameSize)
        BY <1>1, <3>8, <3>9
      <4>4. SinkAt(sink', m, truth', enc'.trailer,
                   Min({(sink'.next - 1) * BufSize, Len(Stream(m, truth', enc'.trailer))}))
        BY <1>1, <3>8, <3>10
      <4>5. QED
        BY <3>6, <3>11, <4>1, <4>2, <4>3, <4>4 DEF SinkInv
    <3>13. ContOf(g, h, m)'
      BY <3>3, <3>4, <3>12 DEF ContOf
    <3>14. QED
      BY <3>13
  <2>4. ContInv'
    BY <1>1, <2>3 DEF ContInv
  <2>5. QED
    BY <1>7, <1>8, <2>2, <2>4 DEF ContAll
<1>12. QED
  BY <1>2, <1>10, <1>11 DEF DecFail

(***************************************************************************)
(* The third part is kept: a step of crypto_decrypt_file fails.            *)
(***************************************************************************)
(* The conditions of InOrder, looked at before the command returns. *)
Orderly(s, code) ==
    /\ touched = "no" /\ code # "io"
    /\ cmd.who = "A" /\ cmd.armor = (fs["out"].kind = "armor")
    /\ enc.trailer.pk \in {"none", "S"}
    /\ enc.trailer.pk = "none" \/ cmd.pin \in {"none", "S"}
    /\ cmd.to = "dir" => s.meta.present

LEMMA InputKept ==
    ASSUME EncAll, ContAll, cmd.op = "dec", UNCHANGED <<enc, truth>>,
           faults' \in {faults, faults + 1}, fs'["in"] = fs["in"]
    PROVE  InputInv'
<1>1. faults \in Nat
  BY DEF EncAll
<1>2. faults' = 0 => faults = 0
  BY <1>1
<1>3. QED
  BY <1>2 DEF ContAll, InputInv

LEMMA ContDecFails ==
    ASSUME BaseInv, BaseInv', EncAll, ContAll, Decrypting, NEW code \in {"input", "integrity", "io"},
           NEW F, NEW s, DecFail(code, F, s), F["in"] = fs["in"], F["out"] = fs["out"],
           F["pipe"] = fs["pipe"] \/ cmd.to # "pipe" \/ touched = "insider",
           UNCHANGED <<cmd, enc, truth, touched>>, faults' \in {faults, faults + 1},
           ~Orderly(s, code)
    PROVE  ContAll'
<1>1. cmd.op = "dec" /\ cmd'.op = "dec"
  BY DecFacts
<1>2. pc' = "ret" /\ rc' = code /\ sink' = s
  BY DEF DecFail
<1>3. fs'["in"] = fs["in"] /\ fs'["out"] = fs["out"] /\ fs'["pipe"] = F["pipe"]
  <2>1. {"in", "out", "pipe"} \subseteq Name
    BY DEF Name
  <2>2. QED
    BY <2>1 DEF DecFail
<1>4. InputInv'
  BY <1>1, <1>3, InputKept
<1>5. PipeInv'
  <2>1. CASE F["pipe"] = fs["pipe"]
    BY <1>1, <1>3, <2>1 DEF ContAll, PipeInv
  <2>2. CASE cmd.to # "pipe"
    <3>1. fs'["pipe"].data = <<>>
      BY <1>1, <2>2 DEF BaseInv, DecInv
    <3>2. truth' \in Seq(Int)
      BY DEF BaseInv, Types
    <3>3. Len(truth') \in Nat /\ Len(<<>>) = 0
      BY <3>2
    <3>4. QED
      BY <3>1, <3>3 DEF PipeInv
  <2>3. CASE touched = "insider"
    BY <2>3 DEF PipeInv
  <2>4. QED
    BY <2>1, <2>2, <2>3
<1>6. ~InOrder'
  BY <1>2, <1>3 DEF InOrder, Orderly
<1>7. QED
  BY <1>1, <1>2, <1>4, <1>5, <1>6, ContFails

LEMMA ContDecFault ==
    ASSUME BaseInv, BaseInv', EncAll, ContAll, DecFault
    PROVE  ContAll'
<1>1. /\ Decrypting /\ DecFail("io", fs, sink) /\ UNCHANGED <<cmd, enc, truth, touched>>
      /\ faults' \in {faults, faults + 1}
  BY DEF DecFault, Decrypting
<1>2. ~Orderly(sink, "io")
  BY DEF Orderly
<1>3. QED
  BY <1>1, <1>2, ContDecFails

(* The container that decryption is reading. *)
LEMMA ContRead ==
    ASSUME BaseInv, ContAll, Decrypting, touched # "insider"
    PROVE  \E g, h, m : ContOf(g, h, m) /\ SinkInv(g, h, m)
<1>1. fs["out"].kind \in {"cont", "armor"}
  BY DecFacts
<1>2. \E g, h, m : ContOf(g, h, m)
  BY <1>1 DEF ContAll, ContInv
<1>3. QED
  BY <1>2 DEF ContOf

LEMMA GenuineOpens ==
    ASSUME BaseInv, pc = "dec_frame", Framed(sink), NEW g, NEW h, NEW m, ContOf(g, h, m),
           touched = "no"
    PROVE  sink.next <= Len(Stored) /\ Authentic(sink.next)
<1> DEFINE i == sink.next
           fr == Stored[i]
           n == Len(fr.body)
           cells == StreamOf(m)
<1>1. Decrypting /\ Origin(g, h, m) /\ SinkInv(g, h, m)
  BY DEF Decrypting, ContOf
<1>2. sink.hdr = h /\ Stored = g.frames /\ sink.cek = UnwrapCek(sink.hdr, cmd.who)
      /\ Unwraps(sink.hdr, cmd.who) /\ sink \in ASink
  BY <1>1, UntouchedIs, DecFacts
<1>3. /\ g \in AFile /\ h \in AHeader /\ Sealed(g.frames, h, cells)
      /\ Len(g.frames) \in Nat /\ cells \in Seq(ACell)
  BY <1>1, OriginIs, StreamTyped DEF StreamOf
<1>4. i \in Nat \ {0} /\ i <= Len(g.frames)
  BY <1>1, <1>2, SinkFields DEF SinkInv
<1>5. i \in 1 .. Len(g.frames)
  BY <1>3, <1>4
<1>6. FrameOf(g, h, cells, i)
  BY <1>2, <1>3, <1>5, FrameOfIs DEF Framed
<1>7. /\ fr.ok /\ fr.cek = Cek /\ fr.ctr = i - 1 /\ fr.last = (i = Len(g.frames))
      /\ fr.aad = AadAt(h, i - 1)
      /\ i # Len(g.frames) => n = FrameSize
      /\ i = Len(g.frames) => n < FrameSize
  BY <1>2, <1>6 DEF FrameOf
<1>8. sink.cek = Cek
  BY <1>2, <1>3, UnwrapIs
<1>9. (n < FrameSize) = (i = Len(g.frames))
  <2>1. FrameSize \in Nat
    BY FrameSizeIs
  <2> HIDE DEF n, i
  <2>2. ~(FrameSize < FrameSize)
    BY <2>1
  <2>3. QED
    BY <1>7, <2>2
<1>10. Aligned(i)
  BY <1>2, <1>7 DEF Aligned
<1>11. OpensFrame(sink.cek, i - 1, n < FrameSize, AadAt(sink.hdr, i - 1), fr)
  BY <1>2, <1>7, <1>8, <1>9 DEF OpensFrame
<1>12. QED
  BY <1>2, <1>4, <1>10, <1>11 DEF Authentic

LEMMA GenuineV5 ==
    ASSUME BaseInv, Decrypting, ~Framed(sink), NEW g, NEW h, NEW m, ContOf(g, h, m),
           touched = "no"
    PROVE  Stored # <<>> /\ PayloadAuthentic
<1> DEFINE cells == Stream(m, truth, enc.trailer)
           F == Frame(Cek, 0, TRUE, h, cells)
           G == g.frames
<1>1. Origin(g, h, m)
  BY DEF ContOf
<1>2. sink.hdr = h /\ Stored = G /\ sink.cek = UnwrapCek(sink.hdr, cmd.who)
      /\ Unwraps(sink.hdr, cmd.who)
  BY UntouchedIs, DecFacts
<1>3. h \in AHeader /\ Sealed(g.frames, h, cells)
  BY <1>1, OriginIs
<1>4. G = <<F>>
  BY <1>2, <1>3 DEF Sealed, Framed
<1>5. F.ok /\ F.cek = Cek /\ F.ctr = 0 /\ F.last = TRUE /\ F.aad = h
  BY DEF Frame
<1>6. sink.cek = Cek
  BY <1>2, <1>3, UnwrapIs
<1> HIDE DEF F
<1>7. Len(G) = 1 /\ G[1] = F /\ G # <<>>
  BY <1>4
<1> HIDE DEF G
<1>8. QED
  BY <1>2, <1>5, <1>6, <1>7 DEF PayloadAuthentic, OpensFrame

(***************************************************************************)
(* The third part is kept: the steps of crypto_decrypt_file.               *)
(***************************************************************************)
SinkNext(g, h, m) == SinkInv(g, h, m)' /\ PipeInv'

LEMMA ContDecOn ==
    ASSUME BaseInv, BaseInv', EncAll, ContAll, Decrypting, Decrypting',
           UNCHANGED <<cmd, enc, truth, touched, faults>>,
           fs'["in"] = fs["in"], fs'["out"] = fs["out"],
           touched # "insider" =>
               \A g, h, m : ContOf(g, h, m) /\ SinkInv(g, h, m) => SinkNext(g, h, m)
    PROVE  ContAll'
<1>1. cmd.op = "dec" /\ pc' # "ret"
  BY DecFacts DEF Decrypting
<1>2. InputInv'
  BY <1>1, InputKept
<1>3. DecWhole' /\ TamperDetected' /\ RoundTrip'
  BY <1>1 DEF DecWhole, TamperDetected, RoundTrip, Decrypted
<1>4. CASE touched = "insider"
  BY <1>2, <1>3, <1>4 DEF ContAll, ContInv, PipeInv
<1>5. CASE touched # "insider"
  <2>1. \E g, h, m : ContOf(g, h, m) /\ SinkInv(g, h, m)
    BY <1>5, ContRead
  <2>2. PICK g, h, m : ContOf(g, h, m) /\ SinkInv(g, h, m)
    BY <2>1
  <2>3. SinkInv(g, h, m)' /\ PipeInv'
    BY <1>5, <2>2 DEF SinkNext
  <2>4. Origin(g, h, m)'
    BY <2>2 DEF ContOf, Origin
  <2>5. Outcome([fs["out"] EXCEPT !.kind = "cont"], g)'
    BY <2>2 DEF ContOf, Outcome
  <2>6. ContOf(g, h, m)'
    BY <2>3, <2>4, <2>5 DEF ContOf
  <2>7. ContInv'
    BY <2>6 DEF ContInv
  <2>8. QED
    BY <1>2, <1>3, <2>3, <2>7 DEF ContAll
<1>6. QED
  BY <1>4, <1>5

(* What was handed to the pipe so far is a beginning of the contents. *)
LEMMA PipeBegins ==
    ASSUME BaseInv', Decrypting', truth' = truth, NEW m, NEW t, NEW j,
           SinkAt(sink', m, truth, t, j), Framed(sink') \/ pc' = "dec_close"
    PROVE  PipeInv'
<1>1. Len(sink'.data) <= Len(truth) /\ \A i \in 1 .. Len(sink'.data) : sink'.data[i] = truth[i]
  BY DEF SinkAt
<1>2. ASSUME cmd'.op = "dec" PROVE fs'["pipe"].data \in {<<>>, sink'.data}
  <2>1. /\ cmd'.to # "pipe" => fs'["pipe"].data = <<>>
        /\ PipeOut(cmd, sink, fs, pc = "dec_close")'
    BY <1>2 DEF BaseInv, DecInv
  <2>2. PipeOut(cmd', sink', fs', pc' = "dec_close")
    BY <2>1
  <2>3. QED
    BY <2>1, <2>2 DEF PipeOut
<1>3. Len(truth) \in Nat /\ Len(<<>>) = 0
  <2>1. truth' \in Seq(Int)
    BY DEF BaseInv, Types
  <2>2. QED
    BY <2>1
<1>4. CASE cmd'.op = "dec" /\ fs'["pipe"].data = <<>>
  BY <1>3, <1>4 DEF PipeInv
<1>5. CASE cmd'.op = "dec" /\ fs'["pipe"].data = sink'.data
  BY <1>1, <1>5 DEF PipeInv
<1>6. QED
  BY <1>2, <1>4, <1>5 DEF PipeInv

(* Nothing goes into a pipe while the contents are held in buf. *)
LEMMA PipeHeld ==
    ASSUME BaseInv', Decrypting', truth' = truth, ~Framed(sink'), pc' # "dec_close"
    PROVE  PipeInv'
<1>1. ASSUME cmd'.op = "dec" PROVE fs'["pipe"].data = <<>>
  <2>1. /\ cmd'.to # "pipe" => fs'["pipe"].data = <<>>
        /\ PipeOut(cmd, sink, fs, pc = "dec_close")'
    BY <1>1 DEF BaseInv, DecInv
  <2>2. PipeOut(cmd', sink', fs', pc' = "dec_close")
    BY <2>1
  <2>3. QED
    BY <2>1, <2>2 DEF PipeOut
<1>2. truth' \in Seq(Int)
  BY DEF BaseInv, Types
<1>3. Len(truth') \in Nat /\ Len(<<>>) = 0
  BY <1>2
<1>4. QED
  BY <1>1, <1>3 DEF PipeInv

LEMMA ContDecFrame ==
    ASSUME BaseInv, BaseInv', EncAll, ContAll, DecFrame
    PROVE  ContAll'
<1> DEFINE i == sink.next
           body == Stored[i].body
           n == Len(body)
           s == SinkWrite(sink, body)
<1>1. /\ pc = "dec_frame" /\ Framed(sink) /\ UNCHANGED <<cmd, enc, faults, said, truth, touched>>
      /\ faults' \in {faults, faults + 1}
  BY DEF DecFrame
<1>2. Decrypting
  BY <1>1 DEF Decrypting
<1>3. /\ cmd.op = "dec" /\ cmd \in Decryption /\ sink \in ASink /\ sink.err = "no"
      /\ SinkOut(cmd, sink, fs) /\ FilesOk(fs, said) /\ Stored = fs["out"].frames
      /\ GenuineCells(said, sink.tbuf)
  BY <1>2, DecFacts
<1>4. \/ i > Len(Stored) /\ DecFail("input", fs, sink)
      \/ i <= Len(Stored) /\ ~Authentic(i) /\ DecFail("integrity", fs, sink)
      \/ i <= Len(Stored) /\ Authentic(i) /\ s.err # "no" /\ DecFail(s.err, Emitted(s), s)
      \/ /\ i <= Len(Stored) /\ Authentic(i) /\ s.err = "no"
         /\ fs' = Emitted(s) /\ sink' = [s EXCEPT !.next = @ + 1]
         /\ pc' = IF n < FrameSize THEN "dec_finish" ELSE pc
  <2>1. i \in Nat /\ Len(Stored) \in Nat
    BY <1>3, SinkFields, BaseFacts, FileFields DEF Name
  <2>2. ~(i > Len(Stored)) => i <= Len(Stored)
    <3> HIDE DEF i
    <3>1. QED
      BY <2>1
  <2> HIDE DEF s
  <2>3. QED
    BY <2>2 DEF DecFrame, s
<1>5. CASE i > Len(Stored) /\ DecFail("input", fs, sink)
  <2>1. ~Orderly(sink, "input")
    <3>1. SUFFICES ASSUME touched = "no" PROVE FALSE
      BY DEF Orderly
    <3>2. \E g, h, m : ContOf(g, h, m) /\ SinkInv(g, h, m)
      BY <1>2, <3>1, ContRead DEF ContAll
    <3>3. i <= Len(Stored)
      BY <1>1, <3>1, <3>2, GenuineOpens
    <3>4. i \in Nat /\ Len(Stored) \in Nat
      BY <1>3, SinkFields, BaseFacts, FileFields DEF Name
    <3> HIDE DEF i
    <3>5. QED
      BY <1>5, <3>3, <3>4
  <2>2. QED
    BY <1>1, <1>2, <1>5, <2>1, ContDecFails
<1>6. CASE ~Authentic(i) /\ DecFail("integrity", fs, sink)
  <2>1. ~Orderly(sink, "integrity")
    <3>1. SUFFICES ASSUME touched = "no" PROVE FALSE
      BY DEF Orderly
    <3>2. \E g, h, m : ContOf(g, h, m) /\ SinkInv(g, h, m)
      BY <1>2, <3>1, ContRead DEF ContAll
    <3>3. QED
      BY <1>1, <1>6, <3>1, <3>2, GenuineOpens
  <2>2. QED
    BY <1>1, <1>2, <1>6, <2>1, ContDecFails
<1>7. ASSUME i <= Len(Stored), Authentic(i)
      PROVE  /\ s \in ASink /\ OutStep(cmd, sink, s)
             /\ Emitted(s)["out"] = fs["out"] /\ Emitted(s)["in"] = fs["in"]
  <2>1. body \in Seq(ACell) /\ GenuineCells(said, body)
    <3>1. i \in Nat \ {0} /\ Len(Stored) \in Nat /\ fs["out"] \in AFile /\ GenuineFile(said, fs["out"])
      BY <1>3, SinkFields, BaseFacts, FileFields DEF Name
    <3>2. i \in 1 .. Len(Stored)
      BY <1>7, <3>1
    <3>3. Stored[i] \in AFrame
      BY <1>3, <3>1, <3>2, FileFields
    <3>4. QED
      BY <1>3, <3>1, <3>2, <3>3, FrameFields DEF GenuineFile
  <2>2. s \in ASink
    BY <1>3, <2>1, SinkWriteIs
  <2>3. OutStep(cmd, sink, s)
    BY <1>3, <2>1, OutStepIs
  <2> HIDE DEF s
  <2>4. QED
    BY <1>3, <2>2, <2>3, EmittedIs
<1>8. ASSUME i <= Len(Stored), Authentic(i), NEW g, NEW h, NEW m,
             ContOf(g, h, m), SinkInv(g, h, m)
      PROVE  FrameIn(g, h, m) /\ FrameBrings(s, g, h, m)
  <2>1. Origin(g, h, m) /\ Derived([fs["out"] EXCEPT !.kind = "cont"], g)
    BY <1>8 DEF ContOf, Outcome
  <2>2. (i > 1 => sink.hdr = h) /\ SinkAt(sink, m, truth, enc.trailer, (i - 1) * FrameSize)
    BY <1>1, <1>8 DEF SinkInv
  <2>3. FrameIn(g, h, m)
    BY <1>1, <1>8, <2>1, <2>2, FrameRead
  <2>4. QED
    BY <1>2, <2>1, <2>2, <2>3, FrameBringsIs
<1>9. CASE i <= Len(Stored) /\ Authentic(i) /\ s.err # "no" /\ DecFail(s.err, Emitted(s), s)
  <2>1. touched # "insider" => cmd.to = "dir" /\ ~s.meta.present
    <3>1. SUFFICES ASSUME touched # "insider" PROVE cmd.to = "dir" /\ ~s.meta.present
      OBVIOUS
    <3>2. \E g, h, m : ContOf(g, h, m) /\ SinkInv(g, h, m)
      BY <1>2, <3>1, ContRead DEF ContAll
    <3>3. PICK g, h, m : ContOf(g, h, m) /\ SinkInv(g, h, m)
      BY <3>2
    <3>4. Reads(cmd, s, m, truth, enc.trailer, (i - 1) * FrameSize + n)
      BY <1>8, <1>9, <3>3 DEF FrameBrings
    <3> HIDE DEF s
    <3>5. QED
      BY <1>9, <3>4 DEF Reads, SinkAt
  <2>2. ~Orderly(s, s.err)
    BY <2>1 DEF Orderly
  <2>3. s.err \in {"input", "integrity", "io"}
    <3>1. s \in ASink
      BY <1>7, <1>9
    <3> HIDE DEF s
    <3>2. QED
      BY <1>9, <3>1, SinkFields
  <2>4. Emitted(s)["in"] = fs["in"] /\ Emitted(s)["out"] = fs["out"]
    BY <1>7, <1>9
  <2>5. cmd.to # "pipe" \/ touched = "insider"
    BY <2>1
  <2> DEFINE F == Emitted(s)
  <2>6. DecFail(s.err, F, s) /\ F["in"] = fs["in"] /\ F["out"] = fs["out"]
    BY <1>9, <2>4
  <2> HIDE DEF F, s
  <2>7. QED
    BY <1>1, <1>2, <2>2, <2>3, <2>5, <2>6, ContDecFails
<1>10. CASE /\ i <= Len(Stored) /\ Authentic(i) /\ s.err = "no"
            /\ fs' = Emitted(s) /\ sink' = [s EXCEPT !.next = @ + 1]
            /\ pc' = IF n < FrameSize THEN "dec_finish" ELSE pc
  <2>1. Decrypting' /\ pc' \in {"dec_frame", "dec_finish"}
    BY <1>1, <1>10 DEF Decrypting
  <2>2. fs'["out"] = fs["out"] /\ fs'["in"] = fs["in"]
    BY <1>7, <1>10
  <2>3. /\ sink'.hdr = sink.hdr /\ sink'.next = i + 1
        /\ sink'.err = s.err /\ sink'.meta_done = s.meta_done /\ sink'.meta = s.meta
        /\ sink'.data = s.data /\ sink'.tbuf = s.tbuf /\ sink'.pad_seen = s.pad_seen
    <3>1. s \in ASink /\ OutStep(cmd, sink, s)
      BY <1>7, <1>10
    <3>2. sink' = [s EXCEPT !.next = s.next + 1] /\ s.next = i /\ s.hdr = sink.hdr
      BY <1>10, <3>1 DEF OutStep
    <3> HIDE DEF s, i
    <3>3. QED
      BY <3>1, <3>2 DEF ASink
  <2>4. Framed(sink')
    BY <1>1, <2>3 DEF Framed
  <2>5. ASSUME touched # "insider", NEW g, NEW h, NEW m, ContOf(g, h, m), SinkInv(g, h, m)
        PROVE  SinkNext(g, h, m)
    <3> DEFINE j == (i - 1) * FrameSize + n
    <3>1. FrameIn(g, h, m) /\ FrameBrings(s, g, h, m)
      BY <1>8, <1>10, <2>5
    <3>2. /\ n \in Nat /\ n <= FrameSize
          /\ Reads(cmd, s, m, truth, enc.trailer, j)
          /\ n = FrameSize => i + 1 <= Len(g.frames)
          /\ n < FrameSize => i = Len(g.frames) /\ j = Len(StreamOf(m))
      BY <3>1 DEF FrameBrings
    <3>3. SinkAt(s, m, truth, enc.trailer, j)
      <4> HIDE DEF s, j
      <4>1. QED
        BY <1>10, <3>2 DEF Reads
    <3>4. SinkAt(sink', m, truth, enc.trailer, j)
      <4> HIDE DEF s, j
      <4>1. QED
        BY <2>3, <3>3, SinkAtSame
    <3>5. sink'.hdr = h /\ Stored[i] = g.frames[i]
      BY <2>3, <3>1 DEF FrameIn
    <3>6. /\ Origin(g, h, m) /\ Outcome([fs["out"] EXCEPT !.kind = "cont"], g)
          /\ \A k \in 1 .. i - 1 : k <= Len(fs["out"].frames) /\ fs["out"].frames[k] = g.frames[k]
      BY <1>1, <2>5 DEF ContOf, SinkInv
    <3>7. i \in Nat \ {0} /\ Len(Stored) \in Nat
      BY <1>3, SinkFields, BaseFacts, FileFields DEF Name
    <3>8. PipeInv'
      BY <1>1, <2>1, <2>4, <3>4, PipeBegins
    <3>9. CASE n < FrameSize
      <4>1. pc' = "dec_finish"
        BY <1>10, <3>9
      <4>2. i = Len(Stored)
        <5>1. Aligned(i)
          BY <1>10 DEF Authentic
        <5>2. n # FrameSize
          BY <3>9, FrameSizeIs
        <5>3. QED
          BY <5>1, <5>2 DEF Aligned
      <4>3. touched # "relay"
        <5>1. i = Len(g.frames)
          BY <3>2, <3>9
        <5>2. QED
          BY <1>2, <3>1, <3>6, <4>2, <5>1, FramesWhole
      <4>4. SinkAt(sink', m, truth', enc'.trailer, Len(Stream(m, truth', enc'.trailer)))
        BY <1>1, <3>2, <3>4, <3>9 DEF StreamOf
      <4>5. SinkInv(g, h, m)'
        BY <1>1, <3>5, <4>1, <4>3, <4>4 DEF SinkInv
      <4>6. QED
        BY <3>8, <4>5 DEF SinkNext
    <3>10. CASE n = FrameSize
      <4>1. pc' = "dec_frame"
        BY <1>1, <1>10, <3>10, FrameSizeIs
      <4>2. i + 1 <= Len(g.frames)
        BY <3>2, <3>10
      <4>3. j = ((i + 1) - 1) * FrameSize
        <5>1. i * FrameSize = (i - 1) * FrameSize + FrameSize
          BY <3>7, FrameStarts
        <5>2. (i + 1) - 1 = i
          BY <3>7
        <5>3. QED
          BY <3>10, <5>1, <5>2
      <4>4. SinkAt(sink', m, truth', enc'.trailer, (sink'.next - 1) * FrameSize)
        BY <1>1, <2>3, <3>4, <4>3
      <4>5. \A k \in 1 .. (i + 1) - 1 : k <= Len(fs["out"].frames) /\ fs["out"].frames[k] = g.frames[k]
        <5>1. TAKE k \in 1 .. (i + 1) - 1
        <5>2. k \in 1 .. i - 1 \/ k = i
          BY <3>7
        <5>3. QED
          BY <1>3, <1>10, <3>5, <3>6, <5>2
      <4>6. \A k \in 1 .. sink'.next - 1 :
               k <= Len(fs'["out"].frames) /\ fs'["out"].frames[k] = g.frames[k]
        BY <2>2, <2>3, <4>5
      <4>7. SinkInv(g, h, m)'
        BY <2>3, <2>4, <3>5, <4>1, <4>2, <4>4, <4>6 DEF SinkInv
      <4>8. QED
        BY <3>8, <4>7 DEF SinkNext
    <3>11. n < FrameSize \/ n = FrameSize
      <4> HIDE DEF n
      <4>1. QED
        BY <3>2, FrameSizeIs
    <3>12. QED
      BY <3>9, <3>10, <3>11
  <2>6. QED
    BY <1>1, <1>2, <2>1, <2>2, <2>5, ContDecOn
<1>11. QED
  BY <1>4, <1>5, <1>6, <1>9, <1>10

(* A buffer of the payload, from position p on. *)
ChunkIn(chunk, P, p, B) ==
    /\ chunk \in Seq(ACell) /\ Len(chunk) \in Nat
    /\ chunk = <<>> => Min({p, Len(P)}) = Len(P)
    /\ chunk # <<>> => /\ Min({p, Len(P)}) = p
                       /\ p + Len(chunk) = Min({p + B, Len(P)})
                       /\ p + Len(chunk) <= Len(P)
    /\ \A k \in 1 .. Len(chunk) : chunk[k] = P[p + k]

LEMMA ChunkIs ==
    ASSUME NEW P \in Seq(ACell), NEW p \in Nat, NEW B \in Nat \ {0}
    PROVE  ChunkIn(Take(Drop(P, p), B), P, p, B)
<1> DEFINE r == Drop(P, p)
           chunk == Take(r, B)
           L == Len(P)
           l == Len(chunk)
           k == Len(r)
<1>1. r \in Seq(ACell) /\ k = (IF p <= L THEN L - p ELSE 0)
      /\ \A i \in 1 .. k : r[i] = P[p + i]
  BY DropIs
<1> HIDE DEF r
<1>2. /\ chunk \in Seq(ACell)
      /\ l = (IF B <= 0 THEN 0 ELSE IF B <= k THEN B ELSE k)
      /\ \A i \in 1 .. l : chunk[i] = r[i]
  BY <1>1, TakeIs
<1> HIDE DEF chunk
<1>3. L \in Nat /\ k \in Nat /\ l \in Nat /\ (l = 0 <=> chunk = <<>>)
  BY <1>1, <1>2, LenProperties, EmptySeq
<1>4. \A i \in 1 .. l : chunk[i] = P[p + i]
  <2>1. TAKE i \in 1 .. l
  <2>2. i \in 1 .. k
    BY <1>2, <1>3
  <2>3. QED
    BY <1>1, <1>2, <2>2
<1>5. /\ Min({p, L}) = (IF p <= L THEN p ELSE L)
      /\ Min({p + B, L}) = (IF p + B <= L THEN p + B ELSE L)
  BY <1>3, MinOfTwo
<1> HIDE DEF L, l, k
<1>6. l = 0 => Min({p, L}) = L
  BY <1>1, <1>2, <1>3, <1>5
<1>7. l # 0 => Min({p, L}) = p /\ p + l = Min({p + B, L}) /\ p + l <= L
  BY <1>1, <1>2, <1>3, <1>5
<1>8. QED
  BY <1>2, <1>3, <1>4, <1>6, <1>7 DEF ChunkIn, chunk, L, l, r

LEMMA ContDecChunk ==
    ASSUME BaseInv, BaseInv', EncAll, ContAll, DecChunk
    PROVE  ContAll'
<1> DEFINE i == sink.next
           p == (i - 1) * BufSize
           chunk == Take(Drop(Payload, p), BufSize)
           n == Len(chunk)
           s == SinkWrite(sink, chunk)
<1>1. /\ pc = "dec_frame" /\ ~Framed(sink) /\ UNCHANGED <<cmd, enc, faults, said, truth, touched>>
      /\ faults' \in {faults, faults + 1}
  BY DEF DecChunk
<1>2. Decrypting
  BY <1>1 DEF Decrypting
<1>3. /\ cmd.op = "dec" /\ cmd \in Decryption /\ sink \in ASink /\ sink.err = "no"
      /\ SinkOut(cmd, sink, fs) /\ FilesOk(fs, said) /\ Stored = fs["out"].frames
      /\ GenuineCells(said, sink.tbuf)
  BY <1>2, DecFacts
<1>4. \/ Stored = <<>> /\ DecFail("input", fs, sink)
      \/ /\ chunk = <<>> /\ PayloadAuthentic
         /\ pc' = "dec_finish" /\ UNCHANGED <<fs, sink>>
      \/ ~PayloadAuthentic /\ DecFail("integrity", fs, sink)
      \/ chunk # <<>> /\ s.err # "no" /\ DecFail(s.err, Emitted(s), s)
      \/ /\ chunk # <<>> /\ s.err = "no"
         /\ fs' = Emitted(s) /\ sink' = [Buffered(s) EXCEPT !.next = @ + 1] /\ pc' = pc
  <2> HIDE DEF s, chunk
  <2>1. QED
    BY DEF DecChunk, s, chunk, p, i
<1>5. i \in Nat \ {0} /\ BufSize \in Nat \ {0} /\ p \in Nat
  <2>1. i \in Nat \ {0} /\ BufSize \in Nat \ {0}
    BY <1>3, SinkFields, ContainerAssumption
  <2>2. i - 1 \in Nat
    BY <2>1
  <2>3. QED
    BY <2>1, <2>2
<1>6. Payload \in Seq(ACell) /\ GenuineCells(said, Payload)
  BY <1>2, PayloadIs
<1>7. ChunkIn(chunk, Payload, p, BufSize)
  <2> HIDE DEF p
  <2>1. QED
    BY <1>5, <1>6, ChunkIs
<1>8. chunk \in Seq(ACell) /\ GenuineCells(said, chunk)
  <2> HIDE DEF chunk
  <2>1. /\ chunk \in Seq(ACell) /\ n \in Nat
        /\ \A k \in 1 .. n : chunk[k] = Payload[p + k]
        /\ chunk # <<>> => p + n <= Len(Payload)
    BY <1>7 DEF ChunkIn
  <2>2. Len(Payload) \in Nat
    BY <1>6, LenProperties
  <2>3. ASSUME NEW k \in 1 .. n PROVE p + k \in 1 .. Len(Payload)
    <3>1. chunk # <<>>
      BY <2>1, <2>3
    <3>2. p + n <= Len(Payload)
      BY <2>1, <3>1
    <3> HIDE DEF n, p
    <3>3. QED
      BY <1>5, <2>1, <2>2, <2>3, <3>2
  <2>4. QED
    BY <1>6, <2>1, <2>3 DEF GenuineCells
<1>9. s \in ASink /\ OutStep(cmd, sink, s)
  <2> HIDE DEF chunk
  <2>1. QED
    BY <1>3, <1>8, SinkWriteIs, OutStepIs
<1>10. s.hdr = sink.hdr /\ s.next = i /\ s.cek = sink.cek /\ ~Framed(s)
  <2> HIDE DEF s
  <2>1. QED
    BY <1>1, <1>9 DEF OutStep, Framed
<1>11. /\ Emitted(s)["out"] = fs["out"] /\ Emitted(s)["in"] = fs["in"]
       /\ Emitted(s)["pipe"] = fs["pipe"]
  <2> HIDE DEF s
  <2>1. QED
    BY <1>3, <1>9, <1>10, EmittedIs
<1>12. ASSUME touched = "no" PROVE Stored # <<>> /\ PayloadAuthentic
  <2>1. \E g, h, m : ContOf(g, h, m) /\ SinkInv(g, h, m)
    BY <1>2, <1>12, ContRead DEF ContAll
  <2>2. QED
    BY <1>1, <1>2, <1>12, <2>1, GenuineV5
<1>13. ASSUME PayloadAuthentic, NEW g, NEW h, NEW m, ContOf(g, h, m), SinkInv(g, h, m)
       PROVE  /\ PayloadIn(g, h, m)
              /\ SinkAt(sink, m, truth, enc.trailer, Min({p, Len(Payload)}))
              /\ chunk # <<>> => Reads(cmd, s, m, truth, enc.trailer, p + n)
  <2>1. Origin(g, h, m) /\ Outcome([fs["out"] EXCEPT !.kind = "cont"], g)
    BY <1>13 DEF ContOf
  <2>2. PayloadIn(g, h, m)
    BY <1>1, <1>2, <1>13, <2>1, PayloadRead
  <2>3. Payload = Stream(m, truth, enc.trailer) /\ sink.hdr = h
    BY <2>2 DEF PayloadIn, StreamOf
  <2>4. SinkAt(sink, m, truth, enc.trailer, Min({p, Len(Payload)}))
    BY <1>1, <1>13, <2>3 DEF SinkInv
  <2>5. ASSUME chunk # <<>> PROVE Reads(cmd, s, m, truth, enc.trailer, p + n)
    <3> HIDE DEF chunk, p
    <3>1. SinkAt(sink, m, truth, enc.trailer, p)
      BY <1>7, <2>4, <2>5 DEF ChunkIn
    <3>2. NextCells(m, truth, enc.trailer, p, chunk)
      BY <1>7, <2>3, <2>5 DEF ChunkIn, NextCells
    <3>3. Layout(h, m, truth, enc.trailer) /\ truth \in Seq(Int) /\ enc.trailer \in ATrailer
      BY <2>1, OriginIs, BaseFacts
    <3>4. QED
      BY <1>3, <1>5, <1>8, <2>3, <3>1, <3>2, <3>3, SinkReads
  <2>6. QED
    BY <2>2, <2>4, <2>5
<1> HIDE DEF p, chunk, s
<1>14. CASE Stored = <<>> /\ DecFail("input", fs, sink)
  <2>1. ~Orderly(sink, "input")
    BY <1>12, <1>14 DEF Orderly
  <2>2. QED
    BY <1>1, <1>2, <1>14, <2>1, ContDecFails
<1>15. CASE ~PayloadAuthentic /\ DecFail("integrity", fs, sink)
  <2>1. ~Orderly(sink, "integrity")
    BY <1>12, <1>15 DEF Orderly
  <2>2. QED
    BY <1>1, <1>2, <1>15, <2>1, ContDecFails
<1>16. CASE chunk # <<>> /\ s.err # "no" /\ DecFail(s.err, Emitted(s), s)
  <2>1. touched = "no" => cmd.to = "dir" /\ ~s.meta.present
    <3>1. SUFFICES ASSUME touched = "no" PROVE cmd.to = "dir" /\ ~s.meta.present
      OBVIOUS
    <3>2. PayloadAuthentic
      BY <1>12, <3>1
    <3>3. \E g, h, m : ContOf(g, h, m) /\ SinkInv(g, h, m)
      BY <1>2, <3>1, ContRead DEF ContAll
    <3>4. PICK g, h, m : ContOf(g, h, m) /\ SinkInv(g, h, m)
      BY <3>3
    <3>5. Reads(cmd, s, m, truth, enc.trailer, p + n)
      BY <1>13, <1>16, <3>2, <3>4
    <3>6. QED
      BY <1>16, <3>5 DEF Reads, SinkAt
  <2>2. ~Orderly(s, s.err)
    BY <2>1 DEF Orderly
  <2>3. s.err \in {"input", "integrity", "io"}
    BY <1>9, <1>16, SinkFields
  <2> DEFINE F == Emitted(s)
  <2>4. DecFail(s.err, F, s) /\ F["in"] = fs["in"] /\ F["out"] = fs["out"] /\ F["pipe"] = fs["pipe"]
    BY <1>11, <1>16
  <2> HIDE DEF F
  <2>5. QED
    BY <1>1, <1>2, <2>2, <2>3, <2>4, ContDecFails
<1>17. CASE chunk = <<>> /\ PayloadAuthentic /\ pc' = "dec_finish" /\ UNCHANGED <<fs, sink>>
  <2>1. Decrypting' /\ pc' # "dec_close" /\ ~Framed(sink')
    BY <1>1, <1>17 DEF Decrypting
  <2>2. PipeInv'
    BY <1>1, <2>1, PipeHeld
  <2>3. ASSUME NEW g, NEW h, NEW m, ContOf(g, h, m), SinkInv(g, h, m)
        PROVE  SinkNext(g, h, m)
    <3>1. /\ PayloadIn(g, h, m)
          /\ SinkAt(sink, m, truth, enc.trailer, Min({p, Len(Payload)}))
      BY <1>13, <1>17, <2>3
    <3>2. Min({p, Len(Payload)}) = Len(Payload)
      BY <1>7, <1>17 DEF ChunkIn
    <3>3. sink.hdr = h /\ touched # "relay" /\ Payload = Stream(m, truth, enc.trailer)
      BY <3>1 DEF PayloadIn, StreamOf
    <3>4. SinkAt(sink', m, truth', enc'.trailer, Len(Stream(m, truth', enc'.trailer)))
      BY <1>1, <1>17, <3>1, <3>2, <3>3
    <3>5. SinkInv(g, h, m)'
      BY <1>1, <1>17, <3>3, <3>4 DEF SinkInv
    <3>6. QED
      BY <2>2, <3>5 DEF SinkNext
  <2>4. QED
    BY <1>1, <1>2, <1>17, <2>1, <2>3, ContDecOn
<1>18. CASE /\ chunk # <<>> /\ s.err = "no"
            /\ fs' = Emitted(s) /\ sink' = [Buffered(s) EXCEPT !.next = @ + 1] /\ pc' = pc
  <2> DEFINE b == Buffered(s)
  <2>1. /\ b \in ASink /\ b.hdr = s.hdr /\ b.cek = s.cek /\ b.next = s.next /\ b.err = s.err
        /\ b.data = s.data /\ b.meta = s.meta /\ b.tbuf = s.tbuf
        /\ b.pad_seen = s.pad_seen /\ b.meta_done = s.meta_done
    BY <1>9, BufferedIs
  <2>2. /\ sink'.hdr = sink.hdr /\ sink'.cek = sink.cek /\ sink'.next = i + 1
        /\ sink'.err = s.err /\ sink'.meta_done = s.meta_done /\ sink'.meta = s.meta
        /\ sink'.data = s.data /\ sink'.tbuf = s.tbuf /\ sink'.pad_seen = s.pad_seen
    <3>1. sink' = [b EXCEPT !.next = b.next + 1]
      BY <1>18
    <3> HIDE DEF b
    <3>2. QED
      BY <1>10, <2>1, <3>1 DEF ASink
  <2>3. Decrypting' /\ pc' = "dec_frame" /\ ~Framed(sink')
    BY <1>1, <1>18, <2>2 DEF Decrypting, Framed
  <2>4. fs'["out"] = fs["out"] /\ fs'["in"] = fs["in"]
    BY <1>11, <1>18
  <2>5. PipeInv'
    BY <1>1, <2>3, PipeHeld
  <2>6. Stored' = Stored
    <3>1. Stored' = fs'["out"].frames
      BY <1>1, <1>3, <2>3 DEF BaseInv, DecInv
    <3>2. QED
      BY <1>3, <2>4, <3>1
  <2>7. PayloadAuthentic' = PayloadAuthentic
    BY <2>2, <2>6 DEF PayloadAuthentic
  <2>8. ASSUME NEW g, NEW h, NEW m, ContOf(g, h, m), SinkInv(g, h, m)
        PROVE  SinkNext(g, h, m)
    <3>1. ASSUME PayloadAuthentic
          PROVE  /\ fs'["out"].frames = g.frames /\ sink'.hdr = h
                 /\ SinkAt(sink', m, truth', enc'.trailer,
                        Min({(sink'.next - 1) * BufSize, Len(Stream(m, truth', enc'.trailer))}))
      <4>1. PayloadIn(g, h, m) /\ Reads(cmd, s, m, truth, enc.trailer, p + n)
        BY <1>13, <1>18, <2>8, <3>1
      <4>2. SinkAt(s, m, truth, enc.trailer, p + n)
        BY <1>18, <4>1 DEF Reads
      <4>3. SinkAt(sink', m, truth, enc.trailer, p + n)
        BY <2>2, <4>2, SinkAtSame
      <4>4. p + n = Min({p + BufSize, Len(Payload)})
        BY <1>7, <1>18 DEF ChunkIn
      <4>5. (sink'.next - 1) * BufSize = p + BufSize
        <5>1. sink'.next - 1 = i
          BY <1>5, <2>2
        <5>2. i * BufSize = (i - 1) * BufSize + BufSize
          <6> DEFINE I == i
          <6>1. I \in Int
            BY <1>5
          <6> HIDE DEF I
          <6>2. I * BufSize = (I - 1) * BufSize + BufSize
            BY <1>5, <6>1
          <6>3. QED
            BY <6>2 DEF I
        <5>3. QED
          BY <5>1, <5>2 DEF p
      <4>6. Payload = Stream(m, truth, enc.trailer) /\ Stored = g.frames /\ sink.hdr = h
        BY <4>1 DEF PayloadIn, StreamOf
      <4>7. QED
        BY <1>1, <1>3, <2>2, <2>4, <4>3, <4>4, <4>5, <4>6
    <3>2. SinkInv(g, h, m)'
      BY <2>3, <2>7, <3>1 DEF SinkInv
    <3>3. QED
      BY <2>5, <3>2 DEF SinkNext
  <2>9. QED
    BY <1>1, <1>2, <2>3, <2>4, <2>8, ContDecOn
<1>19. QED
  BY <1>4, <1>14, <1>15, <1>16, <1>17, <1>18

(* A container that was read to its end under the conditions of InOrder    *)
(* passes the checks of dec_sink_finish. *)
LEMMA FinishPasses ==
    ASSUME NEW h, NEW m, NEW d, NEW t, Layout(h, m, d, t), sink.hdr = h,
           SinkWhole(sink, m, d, t), t.pk \in {"none", "S"},
           t.pk = "none" \/ cmd.pin \in {"none", "S"}
    PROVE  FinishRc(sink) = "ok"
<1>1. /\ sink.meta = m /\ sink.data = d /\ LayoutOk(sink)
      /\ m.signed => TrailerOf(sink) = t
  BY DEF SinkWhole
<1>2. CASE ~IsV7(sink) \/ ~m.signed
  BY <1>1, <1>2 DEF FinishRc
<1>3. CASE IsV7(sink) /\ m.signed
  <2>1. t # NoTrailer /\ TrailerOf(sink) = t
    BY <1>1, <1>3 DEF Layout
  <2>2. \E pk \in {"S", "T"} : t = Trailer(pk, "S", h, m, d)
    BY <2>1 DEF Layout
  <2>3. PICK pk \in {"S", "T"} : t = Trailer(pk, "S", h, m, d)
    BY <2>2
  <2>4. t.pk = pk /\ t.by = "S" /\ t.hdr = h /\ t.meta = m /\ t.data = d
    BY <2>3 DEF Trailer
  <2>5. t.pk = "S" /\ cmd.pin \in {"none", "S"}
    BY <2>3, <2>4
  <2>6. SignatureOk(t, sink.hdr, sink.meta, sink.data)
    BY <1>1, <2>4, <2>5 DEF SignatureOk
  <2>7. QED
    BY <1>1, <1>3, <2>1, <2>5, <2>6 DEF FinishRc
<1>4. QED
  BY <1>2, <1>3

LEMMA ReadToEnd ==
    ASSUME BaseInv, pc \in {"dec_finish", "dec_close"}, NEW g, NEW h, NEW m,
           ContOf(g, h, m), SinkInv(g, h, m)
    PROVE  /\ touched # "relay" /\ sink.hdr = h /\ Layout(h, m, truth, enc.trailer)
           /\ SinkWhole(sink, m, truth, enc.trailer)
<1>1. Layout(h, m, truth, enc.trailer)
  BY OriginIs DEF ContOf
<1>2. /\ touched # "relay" /\ sink.hdr = h
      /\ SinkAt(sink, m, truth, enc.trailer, Len(Stream(m, truth, enc.trailer)))
  BY DEF SinkInv
<1>3. sink \in ASink /\ truth \in Seq(Int) /\ enc.trailer \in ATrailer
  BY BaseFacts
<1>4. QED
  BY <1>1, <1>2, <1>3, SinkEnds

LEMMA ContDecFinish ==
    ASSUME BaseInv, BaseInv', EncAll, ContAll, DecFinish
    PROVE  ContAll'
<1>1. /\ pc = "dec_finish" /\ UNCHANGED <<cmd, enc, faults, said, truth, touched>>
      /\ faults' \in {faults, faults + 1}
  BY DEF DecFinish
<1>2. Decrypting
  BY <1>1 DEF Decrypting
<1>3. FinishRc(sink) \in {"ok", "input", "integrity"}
  BY DEF FinishRc
<1>4. ASSUME Orderly(sink, "input") \/ Orderly(sink, "integrity")
      PROVE  sink.meta_done /\ FinishRc(sink) = "ok"
  <2>1. touched = "no" /\ enc.trailer.pk \in {"none", "S"}
        /\ (enc.trailer.pk = "none" \/ cmd.pin \in {"none", "S"})
    BY <1>4 DEF Orderly
  <2>2. \E g, h, m : ContOf(g, h, m) /\ SinkInv(g, h, m)
    BY <1>2, <2>1, ContRead DEF ContAll
  <2>3. PICK g, h, m : ContOf(g, h, m) /\ SinkInv(g, h, m)
    BY <2>2
  <2>4. /\ sink.hdr = h /\ Layout(h, m, truth, enc.trailer)
        /\ SinkWhole(sink, m, truth, enc.trailer)
    BY <1>1, <2>3, ReadToEnd
  <2>5. QED
    BY <2>1, <2>4, FinishPasses DEF SinkWhole
<1>5. CASE ~sink.meta_done
  <2>1. DecFail("input", fs, sink) /\ ~Orderly(sink, "input")
    BY <1>4, <1>5 DEF DecFinish
  <2>2. QED
    BY <1>1, <1>2, <2>1, ContDecFails
<1>6. CASE sink.meta_done /\ FinishRc(sink) # "ok"
  <2>1. PICK code \in {"input", "integrity"} : code = FinishRc(sink)
    BY <1>3, <1>6
  <2>2. DecFail(code, fs, sink) /\ ~Orderly(sink, code)
    BY <1>4, <1>6, <2>1 DEF DecFinish
  <2>3. QED
    BY <1>1, <1>2, <2>1, <2>2, ContDecFails
<1>7. CASE sink.meta_done /\ FinishRc(sink) = "ok"
  <2>1. /\ pc' = "dec_close" /\ UNCHANGED <<sink, rc>>
        /\ fs' = IF Deferred(sink) THEN [fs EXCEPT !["pipe"] = Plain(sink.buf)] ELSE fs
    BY <1>7 DEF DecFinish
  <2>2. Decrypting'
    BY <2>1 DEF Decrypting
  <2>3. fs'["out"] = fs["out"] /\ fs'["in"] = fs["in"]
    <3>1. fs \in [Name -> AFile] /\ {"out", "in", "pipe"} \subseteq Name
      BY DEF BaseInv, Types, Name
    <3>2. QED
      BY <2>1, <3>1
  <2>4. ASSUME NEW g, NEW h, NEW m, ContOf(g, h, m), SinkInv(g, h, m)
        PROVE  SinkNext(g, h, m)
    <3>1. /\ touched # "relay" /\ sink.hdr = h
          /\ SinkAt(sink, m, truth, enc.trailer, Len(Stream(m, truth, enc.trailer)))
      BY <1>1, <2>4 DEF SinkInv
    <3>2. SinkAt(sink', m, truth', enc'.trailer, Len(Stream(m, truth', enc'.trailer)))
      BY <1>1, <2>1, <3>1
    <3>3. SinkInv(g, h, m)'
      BY <1>1, <2>1, <3>1, <3>2 DEF SinkInv
    <3>4. SinkAt(sink', m, truth, enc.trailer, Len(Stream(m, truth, enc.trailer)))
      BY <2>1, <3>1
    <3>5. PipeInv'
      BY <1>1, <2>1, <2>2, <3>4, PipeBegins
    <3>6. QED
      BY <3>3, <3>5 DEF SinkNext
  <2>5. QED
    BY <1>1, <1>2, <2>2, <2>3, <2>4, ContDecOn
<1>8. QED
  BY <1>5, <1>6, <1>7

LEMMA ContDecClose ==
    ASSUME BaseInv, BaseInv', EncAll, ContAll, DecClose
    PROVE  ContAll'
<1>1. /\ pc = "dec_close" /\ pc' = "ret" /\ UNCHANGED <<cmd, enc, sink, faults, truth, touched>>
      /\ rc' = (IF sink.skipped THEN "skipped" ELSE "ok")
      /\ fs' = [fs EXCEPT !["tmp"] = NoFile,
                          !["res"] = IF sink.created THEN Restored(fs["res"]) ELSE fs["res"]]
  BY DEF DecClose
<1>2. Decrypting
  BY <1>1 DEF Decrypting
<1>3. /\ cmd.op = "dec" /\ cmd \in Decryption /\ SinkOut(cmd, sink, fs)
      /\ PipeOut(cmd, sink, fs, TRUE) /\ sink \in ASink /\ fs["res"] \in AFile
  <2>1. PipeOut(cmd, sink, fs, pc = "dec_close")
    BY <1>2, DecFacts
  <2>2. PipeOut(cmd, sink, fs, TRUE)
    BY <1>1, <2>1 DEF PipeOut
  <2>3. QED
    BY <1>2, <2>2, DecFacts, BaseFacts DEF Name
<1>4. /\ fs'["in"] = fs["in"] /\ fs'["out"] = fs["out"] /\ fs'["pipe"] = fs["pipe"]
      /\ fs'["res"] = IF sink.created THEN Restored(fs["res"]) ELSE fs["res"]
  <2>1. fs \in [Name -> AFile] /\ {"out", "in", "pipe", "tmp", "res"} \subseteq Name
    BY DEF BaseInv, Types, Name
  <2>2. QED
    BY <1>1, <2>1
<1>5. InputInv'
  BY <1>1, <1>3, <1>4, InputKept
<1>6. ContInv'
  BY <1>1, <1>3, ContVacuous
<1>7. PipeInv'
  BY <1>1, <1>4 DEF ContAll, PipeInv
<1>8. touched # "insider" => touched # "relay" /\ sink.meta_done /\ sink.data = truth
  <2>1. SUFFICES ASSUME touched # "insider"
                 PROVE  touched # "relay" /\ sink.meta_done /\ sink.data = truth
    OBVIOUS
  <2>2. \E g, h, m : ContOf(g, h, m) /\ SinkInv(g, h, m)
    BY <1>2, <2>1, ContRead DEF ContAll
  <2>3. QED
    BY <1>1, <2>2, ReadToEnd DEF SinkWhole
<1>9. touched # "insider" /\ sink.created => fs'["res"].data = truth
  <2>1. sink.created => fs["res"].data = sink.data
    BY <1>3 DEF SinkOut, Decryption
  <2>2. Restored(fs["res"]).data = fs["res"].data
    BY <1>3, RestoredIs
  <2>3. QED
    BY <1>4, <1>8, <2>1, <2>2
<1>10. ~sink.created => fs'["res"].kind # "plain"
  BY <1>3, <1>4, FilesAre DEF SinkOut, Untouched
<1>11. DecWhole'
  <2>1. fs'["res"].kind = "plain" => rc' = "ok"
    BY <1>1, <1>3 DEF BaseInv, DecInv
  <2>2. QED
    BY <1>1, <1>9, <1>10, <2>1 DEF DecWhole
<1>12. TamperDetected'
  BY <1>1, <1>8 DEF TamperDetected
<1>13. RoundTrip'
  <2>1. SUFFICES ASSUME touched = "no"
                 PROVE  /\ rc' = "ok" /\ cmd.to \in {"res", "dir"} => fs'["res"].data = truth
                        /\ cmd.to = "pipe" => fs'["pipe"].data = truth
                        /\ enc.hdr # NoHdr /\ faults = 0 => truth = fs'["in"].data
    BY <1>1 DEF RoundTrip, InOrder
  <2>2. ASSUME rc' = "ok", cmd.to \in {"res", "dir"}
        PROVE  sink.created
    <3>1. ~sink.skipped
      BY <1>1, <2>2
    <3>2. sink.created # sink.skipped
      BY <1>3, <1>8, <2>1, <2>2 DEF SinkOut
    <3>3. sink.created \in BOOLEAN /\ sink.skipped \in BOOLEAN
      BY <1>3, SinkFields
    <3>4. QED
      BY <3>1, <3>2, <3>3
  <2>3. cmd.to = "pipe" => fs["pipe"].data = sink.data
    BY <1>3 DEF PipeOut
  <2>4. enc.hdr # NoHdr /\ faults = 0 => truth = fs["in"].data
    BY <1>3 DEF ContAll, InputInv
  <2>5. QED
    BY <1>4, <1>8, <1>9, <2>1, <2>2, <2>3, <2>4
<1>14. QED
  BY <1>5, <1>6, <1>7, <1>11, <1>12, <1>13 DEF ContAll

LEMMA ContDecFlushLost ==
    ASSUME BaseInv, BaseInv', EncAll, ContAll, DecFlushLost
    PROVE  ContAll'
<1>1. /\ pc = "dec_close" /\ pc' = "ret" /\ UNCHANGED <<cmd, enc, sink, truth>>
      /\ faults' = faults + 1 /\ touched' = "flush" /\ sink.created
  BY DEF DecFlushLost
<1>2. Decrypting
  BY <1>1 DEF Decrypting
<1>3. cmd.op = "dec" /\ SinkOut(cmd, sink, fs)
  BY <1>2, DecFacts
<1>4. ContInv'
  BY <1>1, <1>3, ContVacuous
<1>5. faults' # 0
  BY <1>1 DEF EncAll
<1>6. PipeInv'
  <2>1. cmd.to # "pipe"
    BY <1>1, <1>3 DEF SinkOut
  <2>2. fs'["pipe"].data = <<>>
    BY <1>1, <1>3, <2>1 DEF BaseInv, DecInv
  <2>3. truth' \in Seq(Int)
    BY DEF BaseInv, Types
  <2>4. Len(truth') \in Nat /\ Len(<<>>) = 0
    BY <2>3
  <2>5. QED
    BY <2>2, <2>4 DEF PipeInv
<1>7. InputInv' /\ DecWhole' /\ TamperDetected' /\ RoundTrip'
  BY <1>1, <1>5 DEF InputInv, DecWhole, TamperDetected, RoundTrip, InOrder
<1>8. QED
  BY <1>4, <1>6, <1>7 DEF ContAll

(* At the start the only container is one an earlier release has written.  *)
LEMMA ContInit ==
    ASSUME Init
    PROVE  ContAll
<1>1. /\ pc = "idle" /\ cmd = NoCmd /\ enc = NoEnc /\ touched = "no"
  BY DEF Init
<1>2. cmd.op = "none" /\ ~Decrypting
  BY <1>1 DEF NoCmd, Decrypting
<1>3. InputInv /\ DecWhole /\ PipeInv /\ TamperDetected /\ RoundTrip
  BY <1>1, <1>2 DEF InputInv, DecWhole, PipeInv, TamperDetected, RoundTrip, Decrypted
<1>4. CASE Untouched(fs["out"])
  <2>1. fs["out"].kind \notin {"cont", "armor"}
    BY <1>4, FilesAre DEF Untouched
  <2>2. ContInv
    BY <2>1 DEF ContInv
  <2>3. QED
    BY <1>3, <2>2 DEF ContAll
<1>5. CASE fs["out"] \in {LegacyFile("v5"), LegacyFile("v6")} /\ truth = Numbers(Legacy)
  <2>1. PICK ver \in {"v5", "v6"} : fs["out"] = LegacyFile(ver)
    BY <1>5
  <2> DEFINE g == LegacyFile(ver)
             h == LegacyHdr(ver)
  <2>2. /\ g \in AFile /\ g.kind = "cont" /\ g = Cont(h, g.frames)
        /\ Sealed(g.frames, h, LegacyCells)
        /\ h \in AHeader /\ h.ver = ver /\ h.recs # <<>> /\ h.recs[1].to = "A"
    BY LegacyFileIs
  <2> HIDE DEF g, h
  <2>3. enc.trailer = NoTrailer
    BY <1>1, NoEncIs
  <2>4. Layout(h, LegacyMeta, truth, NoTrailer)
    <3>1. /\ LegacyMeta \in AMeta /\ LegacyMeta.len = Unknown /\ LegacyMeta.pad = 0
          /\ LegacyMeta.signed = FALSE /\ LegacyMeta.padded = (0 > 0)
      BY LegacyCellsAre DEF LegacyMeta, Meta
    <3>2. h.ver # "none"
      BY <2>2
    <3>3. LegacyMeta.padded = (LegacyMeta.pad > 0)
      BY <3>1
    <3>4. ~(LegacyMeta.pad > 0)
      BY <3>1
    <3>5. LegacyMeta.signed = (NoTrailer # NoTrailer)
      BY <3>1
    <3>6. QED
      BY <2>2, <3>1, <3>2, <3>3, <3>4, <3>5 DEF Layout
  <2>5. Origin(g, h, LegacyMeta)
    BY <1>5, <2>2, <2>3, <2>4, LegacyCellsAre DEF Origin
  <2>6. [fs["out"] EXCEPT !.kind = "cont"] = g
    BY <2>1, <2>2 DEF g, AFile
  <2>7. Outcome(g, g)
    <3>1. g = [g EXCEPT !.hdr = g.hdr, !.frames = g.frames]
      BY <2>2 DEF AFile
    <3>2. Derived(g, g)
      BY <3>1 DEF Derived
    <3>3. QED
      BY <1>1, <3>2 DEF Outcome
  <2>8. ContOf(g, h, LegacyMeta)
    BY <1>2, <2>5, <2>6, <2>7 DEF ContOf
  <2>9. ContInv
    BY <2>8 DEF ContInv
  <2>10. QED
    BY <1>3, <2>9 DEF ContAll
<1>6. QED
  BY <1>4, <1>5, InitIs

LEMMA ContStep ==
    ASSUME BaseInv, BaseInv', EncAll, ContAll, [Next]_vars
    PROVE  ContAll'
<1>1. CASE (\E c \in Encryption : EncBegin(c)) \/ EncOpen \/ EncFault \/ ArmorFails
           \/ InputChanges
  BY <1>1, ContEncSteps
<1>2. CASE EncFrame
  BY <1>2, ContEncFrame
<1>3. CASE EncClose \/ EncFlushLost
  BY <1>3, ContEncClose
<1>4. CASE Armor
  BY <1>4, ContArmor
<1>5. CASE \E c \in Decryption : DecBegin(c)
  BY <1>5, ContDecBegin
<1>6. CASE DecFrame \/ DecChunk \/ DecFinish
  BY <1>6, ContDecFrame, ContDecChunk, ContDecFinish
<1>7. CASE DecClose \/ DecFlushLost \/ DecFault
  BY <1>7, ContDecClose, ContDecFlushLost, ContDecFault
<1>8. CASE Crash \/ Tamper
  BY <1>8, ContCrash, ContTamper
<1>9. CASE UNCHANGED vars
  BY <1>9, ContUnchanged
<1>10. QED
  BY <1>1, <1>2, <1>3, <1>4, <1>5, <1>6, <1>7, <1>8, <1>9 DEF Next, Step

(* What the commands keep true of the files, their locals and each other:  *)
(* crypto_encrypt_file writes one header, META, contents, trailer and      *)
(* padding; what lies under the name of the container is that, whole,      *)
(* torn or changed; crypto_decrypt_file has read a beginning of it.        *)
THEOREM AllAlways == Spec => []IndInv
<1>1. Init => IndInv
  BY BaseInit, EncInit, ContInit DEF IndInv
<1>2. IndInv /\ [Next]_vars => IndInv'
  <2>1. SUFFICES ASSUME IndInv, [Next]_vars
                 PROVE  IndInv'
    OBVIOUS
  <2>2. BaseInv /\ EncAll /\ ContAll
    BY <2>1 DEF IndInv
  <2>3. BaseInv'
    BY <2>1, <2>2, BaseStep
  <2>4. EncAll'
    BY <2>1, <2>2, EncStep
  <2>5. ContAll'
    BY <2>1, <2>2, <2>3, ContStep
  <2>6. QED
    BY <2>3, <2>4, <2>5 DEF IndInv
<1>3. QED
  BY <1>1, <1>2, PTL DEF Spec

(* Whatever the length of the input, the size of a frame and of the reader *)
(* buffer, and however META, contents, trailer and padding fall on frames: *)
(* what crypto_encrypt_file wrote and nobody touched, crypto_decrypt_file  *)
(* accepts, and releases exactly the bytes that were read.                 *)
THEOREM ContainersRoundTrip == Spec => []RoundTrip
<1>1. IndInv => RoundTrip
  BY DEF IndInv, ContAll
<1>2. QED
  BY <1>1, AllAlways, PTL

(* Frames lost, repeated, exchanged, damaged or cut off, a recipient taken *)
(* away or another version: crypto_decrypt_file returns an error, for      *)
(* frames of any size and containers of any number of frames.              *)
THEOREM RelayIsNoticed == Spec => []TamperDetected
<1>1. IndInv => TamperDetected
  BY DEF IndInv, ContAll
<1>2. QED
  BY <1>1, AllAlways, PTL

(* At no moment has dec_sink_emit put anything but a beginning of the true *)
(* contents into a pipe, whoever without the key has changed the container.*)
THEOREM PipeIsAuthentic == Spec => []PipeAuthentic
<1>1. ASSUME IndInv
      PROVE  PipeAuthentic
  <2>1. SUFFICES ASSUME cmd.op = "dec", touched # "insider"
                 PROVE  IsPrefix(fs["pipe"].data, truth)
    BY DEF PipeAuthentic
  <2> DEFINE u == fs["pipe"].data
  <2>2. /\ Len(u) <= Len(truth)
        /\ \A i \in 1 .. Len(u) : u[i] = truth[i]
    BY <1>1, <2>1 DEF IndInv, ContAll, PipeInv
  <2>3. u \in Seq(Int) /\ truth \in Seq(Int) /\ Len(u) \in Nat /\ Len(truth) \in Nat
    <3>1. BaseInv
      BY <1>1 DEF IndInv
    <3>2. fs["pipe"] \in AFile /\ truth \in Seq(Int)
      BY <3>1 DEF BaseInv, Types, Name
    <3>3. QED
      BY <3>2, FileFields
  <2> HIDE DEF u
  <2>4. SubSeq(u, 1, Len(u)) = SubSeq(truth, 1, Len(u))
    BY <2>2, <2>3
  <2>5. QED
    BY <2>2, <2>4 DEF IsPrefix, u
<1>2. QED
  BY <1>1, AllAlways, PTL

(* A command that has returned leaves a whole output or none, unless the   *)
(* last flush failed: crypto_encrypt_file and crypto_decrypt_file remove   *)
(* what they created when they fail, main.c removes its temporary file,    *)
(* and what a decryption leaves behind is all of the contents.             *)
THEOREM OutputsAreWhole == Spec => []ReturnedMeansWhole
<1>1. ASSUME IndInv
      PROVE  ReturnedMeansWhole
  <2>1. BaseInv /\ EncReturned /\ DecWhole
    BY <1>1 DEF IndInv, EncAll, ContAll
  <2>2. ASSUME pc = "ret", touched # "flush"
        PROVE  fs["tmp"] = NoFile
    BY <2>1, <2>2 DEF BaseInv, Phases, DecInv, EncReturned
  <2>3. ASSUME pc = "ret", cmd.op = "enc", touched = "no"
        PROVE  LET f == fs[IF cmd.to = "tmp" THEN "out" ELSE cmd.to]
               IN  /\ f.kind = "cont" /\ cmd.to # "pipe" => Complete(f.frames)
                   /\ f.kind = "armor" => Complete(f.frames) \/ rc = "io"
                   /\ rc = "ok" => f.kind \in {"cont", "armor"} /\ Complete(f.frames)
    BY <2>1, <2>3 DEF EncReturned
  <2>4. ASSUME pc = "ret", touched \notin {"flush", "insider"}, cmd.op = "dec",
               fs["res"].kind = "plain"
        PROVE  rc = "ok" /\ fs["res"].data = truth
    BY <2>1, <2>4 DEF DecWhole
  <2>5. QED
    BY <2>2, <2>3, <2>4 DEF ReturnedMeansWhole
<1>2. QED
  BY <1>1, AllAlways, PTL
==============================================================================
