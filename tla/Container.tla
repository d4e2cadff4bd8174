------------------------------ MODULE Container ------------------------------
(***************************************************************************)
(* File encryption: crypto_encrypt_file, crypto_decrypt_file with its      *)
(* dec_sink, and the armor pass around them, of src/src/crypto_utils.c and *)
(* src/src/main.c.  One user runs one command at a time; each command is a *)
(* process of several steps on files that somebody else may change, in     *)
(* which writes fail, the last flush fails, and the machine stops.         *)
(***************************************************************************)
EXTENDS Frames, FiniteSets

CONSTANTS
    Lengths,        \* the sizes an input file may have at first
    BufSize,        \* BUFFER_SIZE, the step of the version 5 reader, in cells
    MaxFaults,      \* bound: failures, crashes, changes of input and container
    Legacy          \* bound: contents of the version 5 and 6 containers at hand

ASSUME ContainerAssumption ==
    /\ Lengths \subseteq Nat
    /\ BufSize \in Nat \ {0}
    /\ MaxFaults \in Nat
    /\ Legacy \in Nat

VARIABLES
    fs,         \* fs[name]: the files, and what was written to the pipe
    pc,         \* where the running command is
    cmd,        \* its arguments
    enc,        \* the locals of crypto_encrypt_file
    sink,       \* the locals of crypto_decrypt_file and its dec_sink_t
    rc,         \* what it returned
    faults,     \* how many faults there have been
    said,       \* history: what the owner of S has signed
    truth,      \* history: the contents of the container under fs.out
    touched     \* history: who has changed that container, or lost part of it

vars == <<fs, pc, cmd, enc, sink, rc, faults, said, truth, touched>>

(***************************************************************************)
(* Files.                                                                  *)
(***************************************************************************)
Name == {"in", "out", "tmp", "res", "pipe"}

File(kind, hdr, frames, data) ==
    [kind |-> kind, hdr |-> hdr, frames |-> frames, data |-> data, restored |-> FALSE]
NoFile == File("none", NoHdr, <<>>, <<>>)
OldFile == File("old", NoHdr, <<>>, <<>>)
Plain(data) == File("plain", NoHdr, <<>>, data)
Cont(hdr, frames) == File("cont", hdr, frames, <<>>)
Armored(f) == [f EXCEPT !.kind = "armor"]

(* What a crash or a failed flush can leave of a file being written.       *)
Torn(f) ==
    {[f EXCEPT !.frames = SubSeq(@, 1, k)] : k \in 0 .. (Len(f.frames) - 1)}
    \cup {[f EXCEPT !.data = SubSeq(@, 1, k)] : k \in 0 .. (Len(f.data) - 1)}

Write(f, g) == [fs EXCEPT ![f] = g]
Removed(S) == [n \in Name |-> IF n \in S THEN NoFile ELSE fs[n]]

(* crypto_should_write: an existing file is replaced only if the user      *)
(* agrees or has passed --force.                                           *)
ShouldWrite(name, agrees) == name = "pipe" \/ fs[name].kind = "none" \/ agrees

(* The user has an answer only to a question that is asked.                *)
Asked(name) == name # "pipe" /\ fs[name].kind # "none"

(***************************************************************************)
(* crypto_encrypt_file.                                                    *)
(***************************************************************************)
Recipients == <<"A", "B">>
Cek == "cek"
Encryption ==
    [op : {"enc"}, stdin : BOOLEAN, pad : BOOLEAN, sign : {"none", "S", "T"},
     to : {"out", "in", "pipe", "tmp"}, agrees : BOOLEAN]
NoEnc == [hdr |-> NoHdr, meta |-> NoMeta, ctr |-> 0, left |-> 0, pos |-> 0, done |-> FALSE,
          trailer |-> NoTrailer, trailer_off |-> 0, pad_left |-> 0, data |-> <<>>]

EncHeader == Header("v7", [i \in DOMAIN Recipients |-> Record(Recipients[i], Cek)])

EncMeta(c, size) ==
    Meta(~c.stdin, c.sign # "none", IF c.pad THEN PadmeSize(size) - size ELSE 0,
         IF c.stdin THEN Unknown ELSE size)

(* The lengths, keys and recipients are looked at before anything is       *)
(* written; --pad needs a length.                                          *)
EncRefused(c) == c.pad /\ c.stdin

EncBegin(c) ==
    /\ pc = "idle" /\ fs["out"].kind # "cont"
    /\ c.to = "in" => ~c.stdin
    /\ Asked(c.to) \/ c.agrees
    /\ cmd' = c
    /\ IF EncRefused(c)
       THEN pc' = "ret" /\ rc' = "input" /\ UNCHANGED enc
       ELSE LET m == EncMeta(c, Len(fs["in"].data))
            IN  /\ pc' = "enc_open"
                /\ enc' = [NoEnc EXCEPT !.hdr = EncHeader, !.meta = m, !.left = m.len,
                                        !.pad_left = m.pad]
                /\ UNCHANGED rc
    /\ UNCHANGED <<fs, sink, faults, said, truth, touched>>

(* Opening the output truncates it, the input too when it is the same.     *)
(* The temporary file of --armor is ours to overwrite.                     *)
EncOpen ==
    /\ pc = "enc_open"
    /\ IF cmd.to = "tmp" \/ ShouldWrite(cmd.to, cmd.agrees)
       THEN fs' = Write(cmd.to, Cont(enc.hdr, <<>>)) /\ pc' = "enc_frame" /\ UNCHANGED rc
       ELSE pc' = "ret" /\ rc' = "skipped" /\ UNCHANGED fs
    /\ UNCHANGED <<cmd, enc, sink, faults, said, truth, touched>>

(* One frame of META, contents, trailer and padding, as far as they go.    *)
Stage(e) ==
    LET meta == IF e.ctr = 0 THEN <<MetaCell(e.meta)>> ELSE <<>>
        room == FrameSize - Len(meta)
        want == IF e.done THEN 0
                ELSE IF e.left = Unknown THEN room ELSE Min({room, e.left})
        got  == Take(Drop(fs["in"].data, e.pos), want)
        done == e.done \/ IF e.left = Unknown THEN Len(got) < want ELSE e.left = Len(got)
        data == e.data \o got
        tr   == IF ~done \/ ~e.meta.signed THEN NoTrailer
                ELSE IF e.trailer # NoTrailer THEN e.trailer
                ELSE Trailer(cmd.sign, "S", e.hdr, e.meta, data)
        sig  == IF tr = NoTrailer THEN <<>>
                ELSE Take(Drop(TrailerCells(tr), e.trailer_off), room - Len(got))
        full == e.meta.signed => e.trailer_off + Len(sig) = TrailerSize
        pad  == IF done /\ full THEN Take(PadCells(e.pad_left), room - Len(got) - Len(sig))
                ELSE <<>>
    IN  [shrank |-> e.left # Unknown /\ Len(got) < want,
         body |-> meta \o DataCells(got) \o sig \o pad,
         next |-> [e EXCEPT !.ctr = @ + 1, !.left = IF @ = Unknown THEN @ ELSE @ - Len(got),
                            !.pos = @ + Len(got), !.done = done, !.trailer = tr,
                            !.trailer_off = @ + Len(sig), !.pad_left = @ - Len(pad),
                            !.data = data]]

(* A failure removes the output, if it is a file; main.c removes its       *)
(* temporary file in any case.                                             *)
EncFail(code) ==
    /\ pc' = "ret"
    /\ rc' = code
    /\ fs' = Removed({cmd.to, "tmp"} \ {"pipe"})

(* Mutant: an input that ends early is waited for.                         *)
EncFrameWaits ==
    /\ pc = "enc_frame"
    /\ \E s \in {Stage(enc)} :
       LET last == Len(s.body) < FrameSize
           fr == Frame(Cek, enc.ctr, last, AadAt(enc.hdr, enc.ctr), s.body)
       IN  IF s.shrank
           THEN UNCHANGED <<enc, fs, pc, rc, said>>
           ELSE /\ enc' = s.next
                /\ fs' = Write(cmd.to, [fs[cmd.to] EXCEPT !.frames = Append(@, fr)])
                /\ pc' = IF last THEN "enc_close" ELSE pc
                /\ said' = IF s.next.trailer = NoTrailer THEN said ELSE said \cup {s.next.trailer}
                /\ UNCHANGED rc
    /\ UNCHANGED <<cmd, sink, faults, truth, touched>>

EncFrame ==
    /\ pc = "enc_frame"
    /\ \E s \in {Stage(enc)} :
       LET last == Len(s.body) < FrameSize
           fr == Frame(Cek, enc.ctr, last, AadAt(enc.hdr, enc.ctr), s.body)
       IN  IF s.shrank
           THEN EncFail("io") /\ UNCHANGED <<enc, said>>
           ELSE /\ enc' = s.next
                /\ fs' = Write(cmd.to, [fs[cmd.to] EXCEPT !.frames = Append(@, fr)])
                /\ pc' = IF last THEN "enc_close" ELSE pc
                /\ said' = IF s.next.trailer = NoTrailer THEN said ELSE said \cup {s.next.trailer}
                /\ UNCHANGED rc
    /\ UNCHANGED <<cmd, sink, faults, truth, touched>>

(* fclose: its result is not looked at, so a flush that fails is not seen. *)
EncClose ==
    /\ pc = "enc_close"
    /\ pc' = IF cmd.to = "tmp" THEN "armor" ELSE "ret"
    /\ rc' = "ok"
    /\ truth' = enc.data
    /\ UNCHANGED <<fs, cmd, enc, sink, faults, said, touched>>

EncFlushLost ==
    /\ pc = "enc_close"
    /\ faults < MaxFaults
    /\ cmd.to # "pipe"
    /\ \E f \in Torn(fs[cmd.to]) : fs' = Write(cmd.to, f)
    /\ faults' = faults + 1
    /\ touched' = "flush"
    /\ pc' = IF cmd.to = "tmp" THEN "armor" ELSE "ret"
    /\ rc' = "ok"
    /\ truth' = enc.data
    /\ UNCHANGED <<cmd, enc, sink, said>>

EncFault ==
    /\ pc \in {"enc_open", "enc_frame"}
    /\ faults < MaxFaults
    /\ faults' = faults + 1
    /\ IF pc = "enc_open"      \* fopen fails: output_created is not set
       THEN pc' = "ret" /\ rc' = "io" /\ fs' = Removed({"tmp"})
       ELSE EncFail("io")
    /\ UNCHANGED <<cmd, enc, sink, said, truth, touched>>

(* crypto_armor: the output is opened without asking, and what was written *)
(* stays when a write fails; if it does not open the old file stays.       *)
Armor ==
    /\ pc = "armor"
    /\ fs' = [fs EXCEPT !["out"] = Armored(fs["tmp"]), !["tmp"] = NoFile]
    /\ pc' = "ret"
    /\ UNCHANGED <<cmd, enc, sink, rc, faults, said, truth, touched>>

ArmorFails ==
    /\ pc = "armor"
    /\ faults < MaxFaults
    /\ \E f \in {fs["out"]} \cup {Armored(g) : g \in Torn(fs["tmp"])} :
          fs' = [fs EXCEPT !["out"] = f, !["tmp"] = NoFile]
    /\ faults' = faults + 1
    /\ pc' = "ret"
    /\ rc' = "io"
    /\ UNCHANGED <<cmd, enc, sink, said, truth, touched>>

(***************************************************************************)
(* crypto_decrypt_file: the sink.                                          *)
(***************************************************************************)
Decryption ==
    [op : {"dec"}, who : {"A", "X"}, pin : {"none", "S"},
     to : {"res", "dir", "pipe", "check"}, agrees : BOOLEAN, armor : BOOLEAN]
NoSink == [hdr |-> NoHdr, cek |-> "none", next |-> 1, meta_done |-> FALSE, meta |-> NoMeta,
           data |-> <<>>, tbuf |-> <<>>, pad_seen |-> 0, buf |-> <<>>, emit |-> <<>>,
           out |-> "none", created |-> FALSE, skipped |-> FALSE, err |-> "no"]

IsV7(s) == s.hdr.ver = "v7"
Framed(s) == s.hdr.ver # "v5"

(* dec_sink_open.                                                          *)
SinkOpen(s) ==
    CASE cmd.to = "check" -> s
      [] cmd.to = "pipe" -> [s EXCEPT !.out = "pipe"]
      [] cmd.to = "dir" /\ ~s.meta.present -> [s EXCEPT !.err = "input"]
      [] cmd.to \in {"res", "dir"} /\ (cmd.to = "dir" => s.meta.present) ->
            IF ShouldWrite("res", cmd.agrees)
            THEN [s EXCEPT !.out = "res", !.created = TRUE]
            ELSE [s EXCEPT !.skipped = TRUE]

(* The metadata block is the first cell; a lengths part exists in v7 only. *)
ParsedMeta(s, cells) ==
    IF IsV7(s) THEN cells[1].meta ELSE Meta(cells[1].meta.present, FALSE, 0, Unknown)

PaddingOk(m) == IF m.padded THEN m.len # Unknown /\ m.pad # 0 ELSE m.pad = 0

SinkMeta(s, cells) ==
    IF s.meta_done \/ cells = <<>> THEN s
    ELSE LET m == ParsedMeta(s, cells)
         IN  IF PaddingOk(m) THEN SinkOpen([s EXCEPT !.meta_done = TRUE, !.meta = m])
             ELSE [s EXCEPT !.meta = m, !.err = "input"]

(* dec_sink_content and dec_sink_emit.                                     *)
SinkContent(s, cells) ==
    [s EXCEPT !.data = @ \o Contents(cells), !.emit = Contents(cells)]

(* Contents, trailer and padding are told apart by their declared lengths. *)
SinkKnown(s, cells) ==
    LET c == Take(cells, s.meta.len - Len(s.data))
        r == Drop(cells, Len(c))
        t == IF s.meta.signed THEN Take(r, TrailerSize - Len(s.tbuf)) ELSE <<>>
        p == Take(Drop(r, Len(t)), s.meta.pad - s.pad_seen)
        s1 == SinkContent(s, c)
    IN  [s1 EXCEPT !.tbuf = @ \o t, !.pad_seen = @ + Len(p),
                   !.err = IF Len(c) + Len(t) + Len(p) < Len(cells) THEN "input" ELSE @]

(* Mutant: a cell too few is held back.                                    *)
SinkHoldBackShort(s, cells) ==
    LET all == s.tbuf \o cells
        k   == Max({0, Len(all) - TrailerSize + 1})
    IN  [SinkContent(s, Take(all, k)) EXCEPT !.tbuf = Drop(all, k)]

(* Without a length the last TrailerSize cells are held back.              *)
SinkHoldBack(s, cells) ==
    LET all == s.tbuf \o cells
        k   == Max({0, Len(all) - TrailerSize})
    IN  [SinkContent(s, Take(all, k)) EXCEPT !.tbuf = Drop(all, k)]

SinkRoute(s, cells) ==
    IF s.err # "no" \/ ~s.meta_done \/ cells = <<>> THEN s
    ELSE IF s.meta.len # Unknown THEN SinkKnown(s, cells)
    ELSE IF s.meta.signed THEN SinkHoldBack(s, cells)
    ELSE SinkContent(s, cells)

SinkWrite(s, cells) ==
    SinkRoute(SinkMeta([s EXCEPT !.emit = <<>>], cells),
              IF s.meta_done THEN cells ELSE Drop(cells, 1))

(* dec_sink_finish: the declared layout, then the signature, then the pin. *)
LayoutOk(s) ==
    /\ s.meta.len # Unknown => Len(s.data) = s.meta.len /\ s.pad_seen = s.meta.pad
    /\ s.meta.signed => Len(s.tbuf) = TrailerSize

TrailerOf(s) ==
    IF s.tbuf = TrailerCells(s.tbuf[1].trailer) THEN s.tbuf[1].trailer ELSE NoTrailer

(* Mutant: the signature is checked against the trailer's own header.      *)
FinishRcOwnHeader(s) ==
    IF ~IsV7(s) THEN "ok"
    ELSE IF ~LayoutOk(s) THEN "input"
    ELSE IF ~s.meta.signed THEN "ok"
    ELSE LET t == TrailerOf(s)
         IN  IF ~SignatureOk(t, t.hdr, s.meta, s.data) THEN "integrity"
             ELSE IF cmd.pin \notin {"none", t.pk} THEN "integrity"
             ELSE "ok"

FinishRc(s) ==
    IF ~IsV7(s) THEN "ok"
    ELSE IF ~LayoutOk(s) THEN "input"
    ELSE IF ~s.meta.signed THEN "ok"
    ELSE LET t == TrailerOf(s)
         IN  IF ~SignatureOk(t, s.hdr, s.meta, s.data) THEN "integrity"
             ELSE IF cmd.pin \notin {"none", t.pk} THEN "integrity"
             ELSE "ok"

(***************************************************************************)
(* crypto_decrypt_file: its steps.                                         *)
(***************************************************************************)
Deferred(s) == s.out = "pipe" /\ ~Framed(s)

Opened(s) ==
    IF s.created /\ ~sink.created THEN [fs EXCEPT !["res"] = Plain(<<>>)] ELSE fs

(* Mutant: nothing is held.                                                *)
EmittedAtOnce(s) ==
    IF s.out = "none" THEN fs
    ELSE [Opened(s) EXCEPT ![s.out] = Plain(@.data \o s.emit)]

(* What the sink hands on reaches the output, unless it is held in buf.    *)
Emitted(s) ==
    IF s.out = "none" \/ Deferred(s) THEN fs
    ELSE [Opened(s) EXCEPT ![s.out] = Plain(@.data \o s.emit)]

Buffered(s) == IF Deferred(s) THEN [s EXCEPT !.buf = @ \o s.emit] ELSE s

(* Mutant: only an output that was there before is removed.                *)
DecFailLeaves(code, files, s) ==
    /\ pc' = "ret"
    /\ rc' = code
    /\ fs' = [files EXCEPT !["tmp"] = NoFile]
    /\ sink' = s

(* A failure removes the output if this command has created it.            *)
DecFail(code, files, s) ==
    /\ pc' = "ret"
    /\ rc' = code
    /\ fs' = [n \in Name |-> IF n = "tmp" \/ (n = "res" /\ s.created) THEN NoFile ELSE files[n]]
    /\ sink' = s

(* main.c: with --armor the input is first decoded into a temporary file.  *)
Dearmor(c) ==
    IF ~c.armor THEN NoFile
    ELSE IF fs["out"].kind = "armor" THEN [fs["out"] EXCEPT !.kind = "cont"] ELSE OldFile

Source(c) == IF c.armor THEN Dearmor(c) ELSE fs["out"]

DecTarget(c) == IF c.to \in {"res", "dir"} THEN "res" ELSE "pipe"

(* Magic, count and records, then the record that opens.  A wrong key and  *)
(* a wrong --armor fail before the output matters: tried with check only.  *)
DecBegin(c) ==
    /\ \/ pc = "idle"
       \/ pc = "ret" /\ cmd.op = "enc" /\ rc = "ok"
    /\ fs["out"].kind \in {"cont", "armor"}
    /\ Asked(DecTarget(c)) \/ c.agrees
    /\ c.armor = (fs["out"].kind = "armor") \/ c.to = "check"
    /\ c.who = "X" => c.to = "check" /\ c.pin = "none"
    /\ cmd' = c
    /\ LET f == Source(c)
           s == [NoSink EXCEPT !.hdr = f.hdr]
           files == [fs EXCEPT !["tmp"] = Dearmor(c), !["pipe"] = NoFile]
       IN  IF f.kind # "cont" \/ f.hdr.recs = <<>>
           THEN DecFail("input", files, s)
           ELSE IF ~Unwraps(f.hdr, c.who)
           THEN DecFail("integrity", files, s)
           ELSE /\ pc' = "dec_frame"
                /\ sink' = [s EXCEPT !.cek = UnwrapCek(f.hdr, c.who)]
                /\ fs' = files
                /\ UNCHANGED rc
    /\ UNCHANGED <<enc, faults, said, truth, touched>>

Stored == Source(cmd).frames

(* A read is a whole frame only if it is full or at the end of the file.   *)
Aligned(i) == Len(Stored[i].body) = FrameSize \/ i = Len(Stored)

(* Mutant: the counter is not part of the nonce.                           *)
AuthenticNoCounter(i) ==
    /\ Aligned(i)
    /\ OpensFrame(sink.cek, Stored[i].ctr, Len(Stored[i].body) < FrameSize, Stored[i].aad,
                  Stored[i])

Authentic(i) ==
    /\ Aligned(i)
    /\ OpensFrame(sink.cek, i - 1, Len(Stored[i].body) < FrameSize, AadAt(sink.hdr, i - 1),
                  Stored[i])

DecFrame ==
    /\ pc = "dec_frame" /\ Framed(sink)
    /\ IF sink.next > Len(Stored) THEN DecFail("input", fs, sink)
       ELSE IF ~Authentic(sink.next) THEN DecFail("integrity", fs, sink)
       ELSE \E s \in {SinkWrite(sink, Stored[sink.next].body)} :
                IF s.err # "no" THEN DecFail(s.err, Emitted(s), s)
                ELSE /\ fs' = Emitted(s)
                     /\ sink' = [s EXCEPT !.next = @ + 1]
                     /\ pc' = IF Len(Stored[sink.next].body) < FrameSize THEN "dec_finish" ELSE pc
                     /\ UNCHANGED rc
    /\ UNCHANGED <<cmd, enc, faults, said, truth, touched>>

(* Version 5: one AEAD over all that follows the header.  Its plaintext    *)
(* goes to the sink buffer by buffer, the tag is compared at the end.      *)
Payload == FlattenSeq([i \in DOMAIN Stored |-> Stored[i].body])

PayloadAuthentic == Len(Stored) = 1 /\ OpensFrame(sink.cek, 0, TRUE, sink.hdr, Stored[1])

DecChunk ==
    /\ pc = "dec_frame" /\ ~Framed(sink)
    /\ \E chunk \in {Take(Drop(Payload, (sink.next - 1) * BufSize), BufSize)} :
       \E s \in {SinkWrite(sink, chunk)} :
           IF Stored = <<>> THEN DecFail("input", fs, sink)
           ELSE IF chunk = <<>> /\ PayloadAuthentic
           THEN pc' = "dec_finish" /\ UNCHANGED <<fs, sink, rc>>
           ELSE IF chunk = <<>> THEN DecFail("integrity", fs, sink)
           ELSE IF s.err # "no" THEN DecFail(s.err, Emitted(s), s)
           ELSE /\ fs' = Emitted(s)
                /\ sink' = [Buffered(s) EXCEPT !.next = @ + 1]
                /\ UNCHANGED <<pc, rc>>
    /\ UNCHANGED <<cmd, enc, faults, said, truth, touched>>

DecFinish ==
    /\ pc = "dec_finish"
    /\ IF ~sink.meta_done THEN DecFail("input", fs, sink)
       ELSE IF FinishRc(sink) # "ok" THEN DecFail(FinishRc(sink), fs, sink)
       ELSE /\ pc' = "dec_close"
            /\ fs' = IF Deferred(sink) THEN [fs EXCEPT !["pipe"] = Plain(sink.buf)] ELSE fs
            /\ UNCHANGED <<sink, rc>>
    /\ UNCHANGED <<cmd, enc, faults, said, truth, touched>>

(* fclose, then the stored mode and time are restored.                     *)
Restored(f) == IF sink.meta.present THEN [f EXCEPT !.restored = TRUE] ELSE f

DecClose ==
    /\ pc = "dec_close"
    /\ pc' = "ret"
    /\ rc' = IF sink.skipped THEN "skipped" ELSE "ok"
    /\ fs' = [fs EXCEPT !["tmp"] = NoFile,
                        !["res"] = IF sink.created THEN Restored(@) ELSE @]
    /\ UNCHANGED <<cmd, enc, sink, faults, said, truth, touched>>

DecFlushLost ==
    /\ pc = "dec_close"
    /\ faults < MaxFaults
    /\ sink.created
    /\ \E f \in Torn(fs["res"]) : fs' = [fs EXCEPT !["tmp"] = NoFile, !["res"] = Restored(f)]
    /\ faults' = faults + 1
    /\ pc' = "ret"
    /\ rc' = "ok"
    /\ touched' = "flush"
    /\ UNCHANGED <<cmd, enc, sink, said, truth>>

(* A read or a write fails.                                                *)
DecFault ==
    /\ pc = "dec_frame"
    /\ faults < MaxFaults
    /\ faults' = faults + 1
    /\ DecFail("io", fs, sink)
    /\ UNCHANGED <<cmd, enc, said, truth, touched>>

(***************************************************************************)
(* The environment.                                                        *)
(***************************************************************************)
Running == pc \notin {"idle", "ret", "crashed"}

(* Another program appends to the input or truncates it.                   *)
InputChanges ==
    /\ pc \in {"enc_open", "enc_frame"} /\ ~cmd.stdin /\ fs["in"].kind = "plain"
    /\ faults < MaxFaults
    /\ faults' = faults + 1
    /\ LET d == fs["in"].data
       IN  \/ fs' = Write("in", Plain(Append(d, Len(d) + 1)))
           \/ d # <<>> /\ fs' = Write("in", Plain(Front(d)))
    /\ UNCHANGED <<pc, cmd, enc, sink, rc, said, truth, touched>>

(* The machine stops; of the file being written any beginning may be left. *)
Crash ==
    /\ Running
    /\ faults < MaxFaults
    /\ faults' = faults + 1
    /\ LET f == IF cmd.op = "enc" THEN IF pc = "armor" THEN "tmp" ELSE cmd.to ELSE "res"
       IN  \E g \in Torn(fs[f]) \cup {fs[f]} : fs' = Write(f, g)
    /\ pc' = "crashed"
    /\ UNCHANGED <<cmd, enc, sink, rc, said, truth, touched>>

Garbled(body) == IF body = <<>> THEN body ELSE <<JunkCell>> \o Tail(body)

(* Whoever stores the container, without a key: frames lost, repeated,     *)
(* exchanged or damaged, another version, fewer recipients.                *)
Relayed(f) ==
    LET fr == f.frames
        n  == Len(fr)
    IN  {[f EXCEPT !.frames = SubSeq(fr, 1, k)] : k \in 0 .. (n - 1)}
        \cup {[f EXCEPT !.frames = RemoveAt(fr, k)] : k \in 1 .. n}
        \cup {[f EXCEPT !.frames = SubSeq(fr, 1, k) \o SubSeq(fr, k, n)] : k \in 1 .. n}
        \cup {[f EXCEPT !.frames[k] = fr[k + 1], !.frames[k + 1] = fr[k]] : k \in 1 .. (n - 1)}
        \cup {[f EXCEPT !.frames[k].ok = FALSE, !.frames[k].body = Garbled(@)] : k \in 1 .. n}
        \cup {[f EXCEPT !.hdr.ver = IF @ = "v6" THEN "v7" ELSE "v6"]}
        \cup {[f EXCEPT !.hdr.recs = Take(@, 1)]}

(* A recipient, who has the CEK, makes another container of one that S has *)
(* signed: other contents, another META, another recipient list, with no   *)
(* trailer, the one that was there, or one of its own.                     *)
Resealed(f) ==
    LET m == enc.meta
    IN  {Cont(h, SealStream(Cek, h, <<MetaCell(m2)>> \o DataCells(d) \o tr \o PadCells(m2.pad))) :
            h \in {f.hdr, Header("v7", <<Record("A", Cek)>>)},
            m2 \in {m, [m EXCEPT !.len = Unknown, !.pad = 0, !.padded = FALSE],
                    [m EXCEPT !.signed = FALSE]},
            d \in {truth, Append(truth, 0)},
            tr \in {<<>>, TrailerCells(enc.trailer)}
                   \cup {TrailerCells(Trailer(pk, "T", f.hdr, m, truth)) : pk \in {"S", "T"}}}

Tamper ==
    /\ pc = "idle" \/ (pc = "ret" /\ cmd.op = "enc" /\ rc = "ok")
    /\ fs["out"].kind = "cont"
    /\ touched = "no"
    /\ faults < MaxFaults
    /\ faults' = faults + 1
    /\ \/ \E f \in Relayed(fs["out"]) \ {fs["out"]} : fs' = Write("out", f) /\ touched' = "relay"
       \/ /\ enc.trailer.pk = "S"
          /\ \E f \in Resealed(fs["out"]) : fs' = Write("out", f) /\ touched' = "insider"
    /\ UNCHANGED <<pc, cmd, enc, sink, rc, said, truth>>

(***************************************************************************)
(* The specification.                                                      *)
(***************************************************************************)
NoCmd == [op |-> "none"]
Numbers(n) == [i \in 1 .. n |-> i]

(* A container an earlier release wrote.                                   *)
LegacyCells == <<MetaCell(Meta(TRUE, FALSE, 0, Unknown))>> \o DataCells(Numbers(Legacy))
LegacyFile(ver) ==
    LET h == Header(ver, <<Record("A", Cek)>>)
    IN  Cont(h, IF ver = "v6" THEN SealStream(Cek, h, LegacyCells)
                ELSE <<Frame(Cek, 0, TRUE, h, LegacyCells)>>)

Init ==
    /\ \E n \in Lengths, old \in {NoFile, OldFile} :
       \E out \in {old, LegacyFile("v5"), LegacyFile("v6")} :
          /\ fs = [name \in Name |-> CASE name = "in" -> Plain(Numbers(n))
                                       [] name = "out" -> out
                                       [] name = "res" -> old
                                       [] OTHER -> NoFile]
          /\ truth = IF out.kind = "cont" THEN Numbers(Legacy) ELSE <<>>
    /\ pc = "idle"
    /\ cmd = NoCmd
    /\ enc = NoEnc
    /\ sink = NoSink
    /\ rc = "none"
    /\ faults = 0
    /\ said = {}
    /\ touched = "no"

(* The steps a running command takes by itself.                            *)
Step ==
    \/ EncOpen \/ EncFrame \/ EncClose \/ Armor
    \/ DecFrame \/ DecChunk \/ DecFinish \/ DecClose

Next ==
    \/ \E c \in Encryption : EncBegin(c)
    \/ \E c \in Decryption : DecBegin(c)
    \/ Step
    \/ EncFlushLost \/ EncFault \/ ArmorFails \/ DecFlushLost \/ DecFault
    \/ InputChanges \/ Crash \/ Tamper

Spec == Init /\ [][Next]_vars /\ WF_vars(Step)

(***************************************************************************)
(* Properties.                                                             *)
(***************************************************************************)
Decrypted == pc = "ret" /\ cmd.op = "dec"
Accepted == Decrypted /\ rc \in {"ok", "skipped"}

(* The conditions under which decryption promises to succeed.              *)
InOrder ==
    /\ touched = "no" /\ rc # "io"
    /\ cmd.who = "A" /\ cmd.armor = (fs["out"].kind = "armor")
    /\ enc.trailer.pk \in {"none", "S"}
    /\ enc.trailer.pk = "none" \/ cmd.pin \in {"none", "S"}
    /\ cmd.to = "dir" => sink.meta.present

(* Round trip at every boundary: whatever the length of the input and how  *)
(* META, contents, trailer and padding fall on frames, a container that    *)
(* was written whole decrypts, and to exactly the bytes crypto_encrypt_file*)
(* has read; they are all of the input, unless it changed meanwhile.       *)
RoundTrip ==
    Decrypted /\ InOrder =>
        /\ rc \in {"ok", "skipped"}
        /\ rc = "ok" /\ cmd.to \in {"res", "dir"} => fs["res"].data = truth
        /\ cmd.to = "pipe" => fs["pipe"].data = truth
        /\ enc.hdr # NoHdr /\ faults = 0 => truth = fs["in"].data

(* "no unverified bytes ever reach the output": at no moment has anything  *)
(* but a beginning of the true contents gone into a pipe, in any version   *)
(* of the format, however the container was damaged.                       *)
PipeAuthentic ==
    cmd.op = "dec" /\ touched # "insider" => IsPrefix(fs["pipe"].data, truth)

(* A change made without a recipient's key is always noticed: lost,        *)
(* repeated, exchanged and damaged frames, a cut at a frame boundary, a    *)
(* removed recipient, another version.                                     *)
TamperDetected == Decrypted /\ touched = "relay" => rc \in {"integrity", "input", "io"}

(* A command that has returned leaves a whole output or none: an encrypted *)
(* file that is there is complete, a decrypted one has all the contents,   *)
(* and success means it is there; the temporary file of --armor is gone.   *)
(* The two ways a torn file is left behind are a flush that fails in       *)
(* fclose, and a write that fails in crypto_armor, which does not remove   *)
(* its output.                                                             *)
ReturnedMeansWhole ==
    pc = "ret" /\ touched # "flush" =>
        /\ fs["tmp"] = NoFile
        /\ cmd.op = "enc" /\ touched = "no" =>
              LET f == fs[IF cmd.to = "tmp" THEN "out" ELSE cmd.to]
              IN  /\ f.kind = "cont" /\ cmd.to # "pipe" => Complete(f.frames)
                  /\ f.kind = "armor" => Complete(f.frames) \/ rc = "io"
                  /\ rc = "ok" => f.kind \in {"cont", "armor"} /\ Complete(f.frames)
        /\ cmd.op = "dec" /\ touched # "insider" /\ fs["res"].kind = "plain" =>
              rc = "ok" /\ fs["res"].data = truth

(* A signature by S that decryption accepts is S's statement about this    *)
(* very header, metadata and contents: "binding the signature to the exact *)
(* recipient set"; a recipient cannot forge it "over new contents or a new *)
(* recipient set" (FORMAT.md), and what was released is what was signed.   *)
SignatureBinds ==
    Accepted /\ IsV7(sink) /\ sink.meta.signed /\ TrailerOf(sink).pk = "S" =>
        /\ Trailer("S", "S", sink.hdr, sink.meta, sink.data) \in said
        /\ cmd.to = "pipe" => fs["pipe"].data = sink.data

(* Every command returns, whatever it reads and whatever fails.            *)
Returns == Running ~> ~Running

(* "decrypt/verify: require the embedded signer to be this key": success   *)
(* under --signer means the file carries a signature of that key.          *)
PinHonoured ==
    Accepted /\ cmd.pin # "none" =>
        IsV7(sink) /\ sink.meta.signed /\ TrailerOf(sink).pk = cmd.pin
==============================================================================
