------------------------------- MODULE Vault -------------------------------
(***************************************************************************)
(* Hidden volumes, version 2 (vault.c): a container is a file of bytes     *)
(* that all look random.  Sealed slots lie in it: a directory block at the *)
(* place the passphrase hashes to (the anchor), overflow blocks it chains  *)
(* to, and data slots.  Every command builds a new image from the volumes  *)
(* it can open and replaces the file.                                      *)
(*                                                                         *)
(* An image is its size and the slots sealed into it; the bytes outside    *)
(* them are filler.  A slot opens under the passphrase, offset and         *)
(* capacity it was sealed with (scrypt costs and key files are part of the *)
(* passphrase).  A command reads the container in one step and then takes  *)
(* the steps of vault_atomic_write one by one; fwrite and fclose are one   *)
(* step, after which a file of one chunk is there as a whole.              *)
(***************************************************************************)
EXTENDS Integers, Sequences, FiniteSets, SequencesExt

CONSTANTS
    Pass, Name, Content,
    Writer,          \* processes that run commands on the container
    Anchor,          \* Anchor[p][size]: what vault_anchor_offset derives
    ContentLen,      \* ContentLen[c]: length of a content
    Sizes,           \* container sizes a user asks for
    Placements,      \* [off, cap] a user asks for; -1 where the option is absent
    MaxKeep,         \* --keep options given at once
    MaxEntries,      \* VAULT_MAX_ENTRIES: entries of a directory block
    MaxBlocks,       \* VAULT_MAX_BLOCKS
    AnchorCap,       \* VAULT_ANCHOR_CAPACITY
    MinCap,          \* VAULT_MIN_CAPACITY
    SaltLen, TagLen, FrameLen, LenField,
    MaxOps,          \* bound on commands started
    MaxFaults,       \* bound on failing system calls and crashes
    NoVolume, NoOp, NoName, NoContent

(* What a command does, and to which of the volumes.                       *)
Commands ==
    [kind : {"create", "add", "put", "rm", "passwd"}, pass : Pass, to : Pass,
     keep : SUBSET Pass, name : Name \cup {NoName}, content : Content \cup {NoContent}]

ASSUME VaultAssumption ==
    /\ MaxEntries \in Nat \ {0, 1}
    /\ MaxBlocks \in Nat \ {0}
    /\ AnchorCap \in Nat \ {0} /\ MinCap \in Nat
    /\ SaltLen \in Nat /\ TagLen \in Nat /\ FrameLen \in Nat \ {0} /\ LenField \in Nat
    /\ LenField < MinCap
    /\ Sizes \subseteq Nat
    /\ MaxKeep \in Nat /\ MaxOps \in Nat /\ MaxFaults \in Nat
    /\ \A p \in Pass, size \in Sizes : Anchor[p][size] \in Nat
    /\ \A c \in Content : ContentLen[c] \in Nat
    /\ \A place \in Placements : place.off \in Int /\ place.cap \in Int

(* The values that stand for "none" are none of the others.                *)
ASSUME NothingAssumption ==
    /\ NoContent \notin Content
    /\ NoOp \notin Commands
    /\ \A S \in SUBSET Name : NoVolume \notin [S -> Content \cup {NoContent}]

VARIABLES
    path,      \* the file the container's path names, 0 if none
    tmp,       \* the file <path>.qsftmp names, 0 if none
    file,      \* file[i]: the contents of file i
    proc,      \* proc[w]: where process w is in its command
    rc,        \* rc[w]: how its last command ended
    faulty,    \* a rename was refused by the file system
    vols,      \* history: what each passphrase opens in the container
    ops, faults

vars == <<path, tmp, file, proc, rc, faulty, vols, ops, faults>>

----------------------------------------------------------------------------
(* Slots.                                                                  *)

vault_slot_len(cap) == SaltLen + cap + TagLen * (cap \div FrameLen + 1)

BlockLen == vault_slot_len(AnchorCap)

vault_anchor_offset(p, size) == Anchor[p][size]

range(off, len) == [start |-> off, end |-> off + len]

Span(slot) == range(slot.off, vault_slot_len(slot.cap))

Meet(r, s) == r.start < s.end /\ s.start < r.end

Truncated == [size |-> 0, slots |-> {}]

(* A slot that another one was sealed over does not open.                  *)
Sealed(img, p, off, cap) ==
    {s \in img.slots :
        /\ s.pass = p /\ s.off = off /\ s.cap = cap
        /\ \A t \in img.slots \ {s} : ~ Meet(Span(s), Span(t))}

vault_v2_open(img, p, off, cap) == (CHOOSE s \in Sealed(img, p, off, cap) : TRUE).data

----------------------------------------------------------------------------
(* Directories.                                                            *)

InnerData == MaxEntries - 1
MaxVolEntries == InnerData * (MaxBlocks - 1) + MaxEntries

Entry(n, off, cap) == [name |-> n, off |-> off, cap |-> cap]

(* A directory block: its data entries and the offsets of its overflow     *)
(* entries.                                                                *)
Block(entries, over) == [entries |-> entries, over |-> over]

vault_dir_find(dir, n) == SelectInSeq(dir.entries, LAMBDA e : e.name = n)

vault_dir_remove(dir, n) == [dir EXCEPT !.entries = RemoveAt(@, vault_dir_find(dir, n))]

vault_required_blocks(count) ==
    IF count <= MaxEntries THEN 1
    ELSE 1 + (count - MaxEntries + InnerData - 1) \div InnerData

(* vault_open_volume: from the anchor along the overflow pointers.         *)
Step(img, p, s) ==
    LET found  == Sealed(img, p, s.at, AnchorCap)
        block  == vault_v2_open(img, p, s.at, AnchorCap)
        data   == block.entries
        over   == block.over
        bad    == [s EXCEPT !.state = "bad"]
    IN  IF s.state # "open" THEN s
        ELSE IF s.at + BlockLen > img.size \/ found = {} THEN bad
        ELSE IF Len(over) > 1 \/ Len(s.entries) + Len(data) > MaxVolEntries THEN bad
        ELSE IF over = <<>>
             THEN [s EXCEPT !.state = "done", !.entries = @ \o data]
        ELSE IF Len(s.overflow) >= MaxBlocks - 1 THEN bad
        ELSE [s EXCEPT !.entries = @ \o data,
                       !.overflow = Append(@, over[1]),
                       !.at = over[1]]

NoDir == [state |-> "bad", at |-> 0, entries |-> <<>>, overflow |-> <<>>]

vault_open_volume(img, p) ==
    LET walk[b \in 0 .. MaxBlocks] ==
            IF b = 0 THEN [NoDir EXCEPT !.state = "open", !.at = vault_anchor_offset(p, img.size)]
            ELSE Step(img, p, walk[b - 1])
    IN  IF img.size < BlockLen THEN NoDir ELSE walk[MaxBlocks]

Opened(dir) == dir.state = "done"

(* vault_volume_extract.                                                   *)
Extract(img, p, e) ==
    IF Sealed(img, p, e.off, e.cap) = {} THEN NoContent
    ELSE vault_v2_open(img, p, e.off, e.cap)

Names(dir) == {dir.entries[i].name : i \in 1 .. Len(dir.entries)}

(* What each passphrase gives access to.                                   *)
Volumes(img) ==
    [p \in Pass |->
        LET dir == vault_open_volume(img, p)
        IN  IF ~ Opened(dir) THEN NoVolume
            ELSE [n \in Names(dir) |-> Extract(img, p, dir.entries[vault_dir_find(dir, n)])]]

----------------------------------------------------------------------------
(* Placement.  Ranges that the code keeps in an array and sorts are a set  *)
(* here, taken in the order of their starts.                               *)

vault_ranges_overlap(r) ==
    \E i, j \in DOMAIN r : i # j /\ Meet(r[i], r[j])

vault_collect_ranges(a_off, dir) ==
    {range(a_off, BlockLen)}
      \cup {range(dir.overflow[i], BlockLen) : i \in 1 .. Len(dir.overflow)}
      \cup {Span(dir.entries[i]) : i \in 1 .. Len(dir.entries)}

First(ranges) == CHOOSE x \in ranges : \A y \in ranges : x.start <= y.start

(* Mutant: a gap one byte too small is taken.                              *)
FindFreeTight(r, size, need) ==
    LET scan[i \in 0 .. Cardinality(r)] ==
            IF i = 0 THEN [left |-> r, found |-> FALSE, cursor |-> 0]
            ELSE LET s == scan[i - 1]
                     x == First(s.left)
                 IN  IF s.found \/ (x.start > s.cursor /\ x.start - s.cursor >= need - 1)
                     THEN [s EXCEPT !.found = TRUE]
                     ELSE [s EXCEPT !.left = @ \ {x},
                                    !.cursor = IF x.end > @ THEN x.end ELSE @]
        s == scan[Cardinality(r)]
    IN  IF s.found \/ size - s.cursor >= need THEN s.cursor ELSE -1

(* The lowest offset at which need bytes fit between the ranges, or -1.    *)
vault_find_free(r, size, need) ==
    LET scan[i \in 0 .. Cardinality(r)] ==
            IF i = 0 THEN [left |-> r, found |-> FALSE, cursor |-> 0]
            ELSE LET s == scan[i - 1]
                     x == First(s.left)
                 IN  IF s.found \/ (x.start > s.cursor /\ x.start - s.cursor >= need)
                     THEN [s EXCEPT !.found = TRUE]
                     ELSE [s EXCEPT !.left = @ \ {x},
                                    !.cursor = IF x.end > @ THEN x.end ELSE @]
        s == scan[Cardinality(r)]
    IN  IF s.found \/ (size > s.cursor /\ size - s.cursor >= need) THEN s.cursor ELSE -1

----------------------------------------------------------------------------
(* vault_rewrite.  A plan is the passphrase to seal under, the one to read *)
(* under, the directory, and the content of an entry that is new.          *)

Plan(p, dir) == [pass |-> p, read |-> p, dir |-> dir, new |-> NoContent]

IsNew(plan, i) == plan.new # NoContent /\ i = Len(plan.dir.entries)

Readable(img, plan, i) ==
    LET e == plan.dir.entries[i]
    IN  IsNew(plan, i) \/ Sealed(img, plan.read, e.off, e.cap) # {}

DataSlot(img, plan, i) ==
    LET e == plan.dir.entries[i]
    IN  [pass |-> plan.pass, off |-> e.off, cap |-> e.cap,
         data |-> IF IsNew(plan, i) THEN plan.new
                  ELSE vault_v2_open(img, plan.read, e.off, e.cap)]

(* Block b of n: a share of the entries, and a pointer unless it is last.  *)
BlockSlot(size, plan, b, n) ==
    LET first == InnerData * b + 1
        entries == plan.dir.entries
    IN  [pass |-> plan.pass, cap |-> AnchorCap,
         off  |-> IF b = 0 THEN vault_anchor_offset(plan.pass, size) ELSE plan.dir.overflow[b],
         data |-> IF b = n - 1 THEN Block(SubSeq(entries, first, Len(entries)), <<>>)
                  ELSE Block(SubSeq(entries, first, first + InnerData - 1),
                             <<plan.dir.overflow[b + 1]>>)]

(* The slots of all plans, by plan and place in it: place i > 0 is the     *)
(* slot of entry i, place -b that of directory block b.                    *)
Places(plans) ==
    UNION {{v} \X (1 - vault_required_blocks(Len(plans[v].dir.entries))
                     .. Len(plans[v].dir.entries)) : v \in 1 .. Len(plans)}

Slots(img, size, plans) ==
    [x \in Places(plans) |->
        LET plan == plans[x[1]]
        IN  IF x[2] > 0 THEN DataSlot(img, plan, x[2])
            ELSE BlockSlot(size, plan, - x[2], vault_required_blocks(Len(plan.dir.entries)))]

PlanRefused(img, size, plan) ==
    LET n == vault_required_blocks(Len(plan.dir.entries))
    IN  \/ size < BlockLen
        \/ \E i \in 1 .. Len(plan.dir.entries) : ~ Readable(img, plan, i)
        \/ n - 1 > Len(plan.dir.overflow)
        \/ Len(plan.dir.entries) - InnerData * (n - 1) > MaxEntries

(* Mutant: collisions go unnoticed.                                        *)
CollidesNever(size, slots) ==
    \E x \in DOMAIN slots : Span(slots[x]).end > size

Collides(size, slots) ==
    \/ \E x \in DOMAIN slots : Span(slots[x]).end > size
    \/ vault_ranges_overlap([x \in DOMAIN slots |-> Span(slots[x])])

(* The new image, or Truncated if the rewrite is refused.                  *)
vault_rewrite(img, size, plans) ==
    LET slots == Slots(img, size, plans)
    IN  IF \E v \in 1 .. Len(plans) : PlanRefused(img, size, plans[v]) THEN Truncated
        ELSE IF Collides(size, slots) THEN Truncated
        ELSE [size |-> size, slots |-> {slots[x] : x \in DOMAIN slots}]

----------------------------------------------------------------------------
(* The image each command would put in the place of the container, or      *)
(* Truncated where the command is refused.                                 *)

Current == IF path = 0 THEN Truncated ELSE file[path]

EmptyDir == [NoDir EXCEPT !.state = "done"]

KeepPlans(img, keep) ==
    [k \in 1 .. Len(keep) |-> Plan(keep[k], vault_open_volume(img, keep[k]))]

KeepsOpen(img, keep) == \A k \in 1 .. Len(keep) : Opened(vault_open_volume(img, keep[k]))

CreateImage(p, size, force, keep) ==
    IF size > 0
    THEN IF size < BlockLen \/ (path # 0 /\ ~ force) \/ keep # <<>> THEN Truncated
         ELSE vault_rewrite(Truncated, size, <<Plan(p, EmptyDir)>>)
    ELSE IF path = 0 \/ ~ KeepsOpen(Current, keep) THEN Truncated
         ELSE vault_rewrite(Current, Current.size,
                            <<Plan(p, EmptyDir)>> \o KeepPlans(Current, keep))

vault_mutate(plan, keep) ==
    IF ~ KeepsOpen(Current, keep) THEN Truncated
    ELSE vault_rewrite(Current, Current.size, <<plan>> \o KeepPlans(Current, keep))

SlotCap(c, place) ==
    IF place.cap >= 0 THEN place.cap
    ELSE IF ContentLen[c] + LenField < MinCap THEN MinCap ELSE ContentLen[c] + LenField

Occupied(p, dir, keep) ==
    vault_collect_ranges(vault_anchor_offset(p, Current.size), dir)
      \cup UNION {vault_collect_ranges(vault_anchor_offset(keep[k], Current.size),
                                       vault_open_volume(Current, keep[k]))
                   : k \in 1 .. Len(keep)}

(* The overflow blocks of a directory, as many as need - 1 if there is     *)
(* room for them.                                                          *)
Overflow(have, ranges, size, need) ==
    LET grow[k \in 0 .. MaxBlocks] ==
            IF k <= Len(have) THEN [blocks |-> have, ranges |-> ranges]
            ELSE LET g == grow[k - 1]
                     off == vault_find_free(g.ranges, size, BlockLen)
                 IN  IF off = -1 THEN g
                     ELSE [blocks |-> Append(g.blocks, off),
                           ranges |-> g.ranges \cup {range(off, BlockLen)}]
    IN  grow[need - 1].blocks

(* The volume's directory with the entry added, for a slot at off.         *)
AddEntry(dir, n, off, cap, ranges) ==
    LET entries == Append(dir.entries, Entry(n, off, cap))
    IN  [dir EXCEPT !.entries = entries,
                    !.overflow = Overflow(@, ranges \cup {range(off, vault_slot_len(cap))},
                                          Current.size, vault_required_blocks(Len(entries)))]

AddImage(p, n, c, place, replace, keep) ==
    LET found == vault_open_volume(Current, p)
        there == vault_dir_find(found, n) # 0
        dir   == IF there THEN vault_dir_remove(found, n) ELSE found
        cap   == SlotCap(c, place)
        occ   == Occupied(p, dir, keep)
        off   == IF place.off >= 0 THEN place.off
                 ELSE vault_find_free(occ, Current.size, vault_slot_len(cap))
        added == AddEntry(dir, n, off, cap, occ)
    IN  IF \/ cap < MinCap
           \/ path = 0
           \/ ~ Opened(found)
           \/ there /\ ~ replace
           \/ ContentLen[c] > cap - LenField
           \/ ~ KeepsOpen(Current, keep)
           \/ off = -1
           \/ Len(dir.entries) >= MaxVolEntries
        THEN Truncated
        ELSE vault_mutate([Plan(p, added) EXCEPT !.new = c], keep)

RmImage(p, n, keep) ==
    LET dir == vault_open_volume(Current, p)
    IN  IF path = 0 \/ ~ Opened(dir) THEN Truncated
        ELSE IF vault_dir_find(dir, n) = 0 THEN Truncated
        ELSE vault_mutate(Plan(p, vault_dir_remove(dir, n)), keep)

PasswdImage(p, to, keep) ==
    LET dir == vault_open_volume(Current, p)
    IN  IF path = 0 \/ ~ Opened(dir) THEN Truncated
        ELSE vault_mutate([Plan(p, dir) EXCEPT !.pass = to], keep)

----------------------------------------------------------------------------
Idle == [pc |-> "idle", op |-> NoOp, img |-> Truncated, fd |-> 0, then |-> NoOp]

Op(kind, p, to, keep, n, c) ==
    [kind |-> kind, pass |-> p, to |-> to, keep |-> {keep[k] : k \in DOMAIN keep},
     name |-> n, content |-> c]

KeepLists == UNION {[1 .. k -> Pass] : k \in 0 .. MaxKeep}

Inode == 1 .. 2 + Cardinality(Writer)

Init ==
    /\ path = 0
    /\ tmp = 0
    /\ file = [i \in Inode |-> Truncated]
    /\ proc = [w \in Writer |-> Idle]
    /\ rc = [w \in Writer |-> "none"]
    /\ faulty = FALSE
    /\ vols = Volumes(Truncated)
    /\ ops = 0
    /\ faults = 0

Command(w) ==
    /\ proc[w].pc = "idle"
    /\ ops < MaxOps
    /\ ops' = ops + 1

(* Process w has decided to replace the container by img.                  *)
Launch(w, op, img, then) ==
    /\ img # Truncated
    /\ proc' = [proc EXCEPT ![w] = [Idle EXCEPT !.pc = "planned", !.op = op,
                   !.img = img, !.then = then]]
    /\ UNCHANGED <<path, tmp, file, rc, faulty, vols, faults>>

(* A refused command returns before anything is written.                   *)
Refuse(w) ==
    /\ proc' = [proc EXCEPT ![w] = Idle]
    /\ rc' = [rc EXCEPT ![w] = "error"]
    /\ UNCHANGED <<path, tmp, file, faulty, vols, faults>>

Create(w) ==
    /\ Command(w)
    /\ \E p \in Pass, size \in Sizes \cup {0}, force \in BOOLEAN, keep \in KeepLists :
          Launch(w, Op("create", p, p, keep, NoName, NoContent),
                 CreateImage(p, size, force, keep), NoOp)

Add(w) ==
    /\ Command(w)
    /\ \E p \in Pass, n \in Name, c \in Content, place \in Placements, keep \in KeepLists :
          Launch(w, Op("add", p, p, keep, n, c), AddImage(p, n, c, place, FALSE, keep), NoOp)

NoPlacement == [off |-> -1, cap |-> -1]

(* vault_secret_put: a missing container is created first.                 *)
SecretPut(w) ==
    /\ Command(w)
    /\ \E p \in Pass, n \in Name, c \in Content :
          LET put == Op("put", p, p, <<>>, n, c)
          IN  IF path = 0
              THEN \E size \in Sizes :
                     Launch(w, Op("create", p, p, <<>>, NoName, NoContent),
                            CreateImage(p, size, FALSE, <<>>), put)
              ELSE Launch(w, put, AddImage(p, n, c, NoPlacement, TRUE, <<>>), NoOp)

PutAfterCreate(w) ==
    /\ proc[w].pc = "created"
    /\ LET put == proc[w].then
           img == AddImage(put.pass, put.name, put.content, NoPlacement, TRUE, <<>>)
       IN  Launch(w, put, img, NoOp) \/ (img = Truncated /\ Refuse(w))
    /\ UNCHANGED ops

Rm(w) ==
    /\ Command(w)
    /\ \E p \in Pass, n \in Name, keep \in KeepLists :
          Launch(w, Op("rm", p, p, keep, n, NoContent), RmImage(p, n, keep), NoOp)

Passwd(w) ==
    /\ Command(w)
    /\ \E p, to \in Pass, keep \in KeepLists :
          Launch(w, Op("passwd", p, to, keep, NoName, NoContent), PasswdImage(p, to, keep), NoOp)

(* Any of these commands, refused.                                         *)
Refused(w) ==
    /\ Command(w)
    /\ ~ \A p, to \in Pass, n \in Name, c \in Content, place \in Placements,
            size \in Sizes \cup {0}, force \in BOOLEAN, replace \in BOOLEAN, keep \in KeepLists :
            /\ CreateImage(p, size, force, keep) # Truncated
            /\ AddImage(p, n, c, place, replace, keep) # Truncated
            /\ RmImage(p, n, keep) # Truncated
            /\ PasswdImage(p, to, keep) # Truncated
    /\ Refuse(w)

----------------------------------------------------------------------------
(* vault_atomic_write.                                                     *)

At(w, pc) == proc[w].pc = pc

Return(w, r) ==
    /\ proc' = [proc EXCEPT ![w] =
                   IF r = "ok" /\ @.then # NoOp
                   THEN [Idle EXCEPT !.pc = "created", !.then = proc[w].then] ELSE Idle]
    /\ rc' = [rc EXCEPT ![w] = r]

Fault == faults < MaxFaults /\ faults' = faults + 1

(* A file without a name is never read again.                              *)
Unlink(i) == IF i = 0 THEN file ELSE [file EXCEPT ![i] = Truncated]

Unused == Inode \ ({path, tmp} \cup {proc[w].fd : w \in Writer})

OpenTmp(w) ==
    LET i == IF tmp # 0 THEN tmp ELSE CHOOSE i \in Unused : \A j \in Unused : i <= j
    IN  /\ At(w, "planned")
        /\ tmp' = i
        /\ file' = [file EXCEPT ![i] = Truncated]
        /\ proc' = [proc EXCEPT ![w].pc = "opened", ![w].fd = i]
        /\ UNCHANGED <<path, rc, faulty, vols, ops, faults>>

OpenFails(w) ==
    /\ At(w, "planned")
    /\ Fault
    /\ Return(w, "error")
    /\ UNCHANGED <<path, tmp, file, faulty, vols, ops>>

WriteTmp(w) ==
    /\ At(w, "opened")
    /\ file' = [file EXCEPT ![proc[w].fd] = proc[w].img]
    /\ proc' = [proc EXCEPT ![w].pc = "written", ![w].fd = 0]
    /\ UNCHANGED <<path, tmp, rc, faulty, vols, ops, faults>>

RemoveTmp == tmp' = 0 /\ file' = Unlink(tmp)

(* Mutant: the result of fwrite and fclose is not looked at.               *)
WriteFailsUnnoticed(w) ==
    /\ At(w, "opened")
    /\ Fault
    /\ proc' = [proc EXCEPT ![w].pc = "written", ![w].fd = 0]
    /\ UNCHANGED <<path, tmp, file, rc, faulty, vols, ops>>

WriteFails(w) ==
    /\ At(w, "opened")
    /\ Fault
    /\ RemoveTmp
    /\ Return(w, "error")
    /\ UNCHANGED <<path, faulty, vols, ops>>

Replace(w) ==
    /\ tmp # 0
    /\ path' = tmp
    /\ tmp' = 0
    /\ file' = Unlink(path)
    /\ vols' = Volumes(file[tmp])
    /\ Return(w, "ok")
    /\ UNCHANGED <<faulty, ops, faults>>

Rename(w) == At(w, "written") /\ Replace(w)

RenameFails(w) ==
    /\ At(w, "written")
    /\ IF tmp = 0 THEN UNCHANGED <<faulty, faults>> ELSE Fault /\ faulty' = TRUE
    /\ proc' = [proc EXCEPT ![w].pc = "refused"]
    /\ UNCHANGED <<path, tmp, file, rc, vols, ops>>

RemoveOld(w) ==
    /\ At(w, "refused")
    /\ path # 0
    /\ path' = 0
    /\ file' = Unlink(path)
    /\ proc' = [proc EXCEPT ![w].pc = "unlinked"]
    /\ UNCHANGED <<tmp, rc, faulty, vols, ops, faults>>

RemoveOldFails(w) ==
    /\ At(w, "refused")
    /\ IF path = 0 THEN UNCHANGED faults ELSE Fault
    /\ RemoveTmp
    /\ Return(w, "error")
    /\ UNCHANGED <<path, faulty, vols, ops>>

RenameAgain(w) == At(w, "unlinked") /\ Replace(w)

RenameAgainFails(w) ==
    /\ At(w, "unlinked")
    /\ IF tmp = 0 THEN UNCHANGED faults ELSE Fault
    /\ RemoveTmp
    /\ vols' = Volumes(Truncated)
    /\ Return(w, "error")
    /\ UNCHANGED <<path, faulty, ops>>

Crash(w) ==
    /\ ~ At(w, "idle")
    /\ Fault
    /\ proc' = [proc EXCEPT ![w] = Idle]
    /\ rc' = [rc EXCEPT ![w] = "crashed"]
    /\ vols' = Volumes(Current)
    /\ UNCHANGED <<path, tmp, file, faulty, ops>>

Next ==
    \E w \in Writer :
        \/ Create(w) \/ Add(w) \/ SecretPut(w) \/ PutAfterCreate(w) \/ Rm(w) \/ Passwd(w)
        \/ Refused(w)
        \/ OpenTmp(w) \/ OpenFails(w) \/ WriteTmp(w) \/ WriteFails(w)
        \/ Rename(w) \/ RenameFails(w) \/ RemoveOld(w) \/ RemoveOldFails(w)
        \/ RenameAgain(w) \/ RenameAgainFails(w) \/ Crash(w)

Spec == Init /\ [][Next]_vars

----------------------------------------------------------------------------
(* Each variable has the shape of the code's files and calls; the          *)
(* container's path never names a half-written file when one process at a  *)
(* time works on it; between the two steps of the fallback the history     *)
(* keeps the container that was removed.                                   *)
TypeOK ==
    /\ path \in Inode \cup {0}
    /\ tmp \in Inode \cup {0}
    /\ path # 0 => path # tmp /\ file[path].size \in Sizes
    /\ \A i \in Inode : file[i].size \in Sizes \cup {0}
    /\ rc \in [Writer -> {"none", "ok", "error", "crashed"}]
    /\ (\A w \in Writer : ~ At(w, "unlinked")) => vols = Volumes(Current)
    /\ ops \in 0 .. MaxOps
    /\ faults \in 0 .. MaxFaults

(* len bytes at off lie in the image, and neither a slot of the volumes of *)
(* passes nor the range taken is there.                                    *)
Free(img, passes, off, len, taken) ==
    /\ off + len <= img.size
    /\ \A s \in img.slots : s.pass \in passes => ~ Meet(range(off, len), Span(s))
    /\ ~ Meet(range(off, len), taken)

(* The lowest such place, or the image's size.                             *)
Lowest(img, passes, len, taken) ==
    CHOOSE x \in 0 .. img.size :
        /\ x = img.size \/ Free(img, passes, x, len, taken)
        /\ \A y \in 0 .. x - 1 : ~ Free(img, passes, y, len, taken)

(* First-fit does its work: when the volumes a command can open leave room *)
(* for the slot of a new entry, and for an overflow block if one is        *)
(* needed, vault_volume_add places the slot at the lowest offset that is   *)
(* free and the rewrite is not refused.                                    *)
RoomIsFound ==
    \A keep \in KeepLists, p \in Pass :
        LET dir == vault_open_volume(Current, p)
            known == {p} \cup Range(keep)
        IN  (/\ path # 0
             /\ \A w \in Writer : proc[w].pc = "idle"
             /\ IsInjective(keep) /\ p \notin Range(keep)
             /\ Opened(dir) /\ KeepsOpen(Current, keep)
             /\ Len(dir.entries) < MaxVolEntries)
            => \A c \in Content, n \in Name \ Names(dir) :
                  LET need  == vault_slot_len(SlotCap(c, NoPlacement))
                      off   == Lowest(Current, known, need, range(0, 0))
                      block == Lowest(Current, known, BlockLen, range(off, need))
                  IN  off < Current.size /\ block < Current.size
                      => \E s \in AddImage(p, n, c, NoPlacement, FALSE, keep).slots :
                            s.off = off /\ s.pass = p /\ s.data = c

(* One process at a time: the vault implements VolumeStore, whatever       *)
(* system call fails and wherever the process dies.                        *)
Store == INSTANCE VolumeStore WITH
    store <- vols, running <- [w \in Writer |-> proc[w].op]

AllOrNothing == Store!Spec

(* vault.c:775 "Atomically replaces `path`": when every command has         *)
(* returned and one of them has reported success, there is a container.    *)
ReplacedNotLost ==
    (\A w \in Writer : At(w, "idle")) /\ (\E w \in Writer : rc[w] = "ok") => path # 0
============================================================================
