------------------------------- MODULE KeyStore -------------------------------
(***************************************************************************)
(* The files an identity lives in and the commands that write them:        *)
(* keygen, rekey, split-key and join-key of src/src/main.c, with the key   *)
(* files of src/src/crypto_utils.c, the key chain of src/src/keychain.c    *)
(* and the shares of src/src/sss.c.  Every command writes in place, file   *)
(* by file; writes fail, flushes are lost and the machine stops.           *)
(***************************************************************************)
EXTENDS Shamir

CONSTANTS
    Secrets,        \* the secret keys that are generated, one byte each
    Polys,          \* the coefficient sequences RAND_bytes may choose
    Words,          \* passphrases the user types and remembers
    Threshold,      \* --threshold
    NShares,        \* --shares
    MaxCommands,    \* bound: commands
    MaxFaults       \* bound: failures, crashes, losses

ASSUME KeyStoreAssumption ==
    /\ Secrets \subseteq 0 .. 255 /\ Polys \subseteq [1 .. (Threshold - 1) -> 0 .. 255]
    /\ Threshold \in 2 .. 16 /\ NShares \in Threshold .. 255
    /\ Words \subseteq Nat /\ Words # {}
    /\ MaxCommands \in Nat /\ MaxFaults \in Nat

VARIABLES
    key,        \* the file of secret_key_file
    pub,        \* the file of public_key_file
    chain,      \* the key chain's entry for the path of key
    shares,     \* shares[i]: the file <prefix>.share<i>
    pc,         \* where the running command is
    cmd,        \* its arguments
    secret,     \* its secret_blob
    pass,       \* its config.passphrase
    split,      \* the share set split-key made, and the next share
    rc,         \* what the last command returned
    count,      \* commands, faults, share sets and random passphrases so far
    made,       \* history: secrets generated
    saved,      \* history: secrets whose key file was once whole
    origin,     \* history: origin[s], secret and values of share set s
    unflushed   \* history: some flush was lost unseen

files == <<key, pub, chain, shares>>
locals == <<cmd, secret, pass, split>>
history == <<made, saved, origin, unflushed>>
vars == <<files, pc, locals, rc, count, history>>

NoPass == [from |-> "none", n |-> 0]
Type(w) == [from |-> "user", n |-> w]
Random(n) == [from |-> "random", n |-> n]
Typed == {Type(w) : w \in Words}

NoKey == [st |-> "none", secret |-> 0, pass |-> NoPass]
TornKey == [NoKey EXCEPT !.st = "torn"]
Wrapped(s, p) == [st |-> "whole", secret |-> s, pass |-> p]

NoPub == [st |-> "none", secret |-> 0]
TornPub == [NoPub EXCEPT !.st = "torn"]
PubOf(s) == [st |-> "whole", secret |-> s]

NoShare == [st |-> "none", set |-> 0, idx |-> 0, t |-> 0, y |-> 0, digest |-> 0]
TornShare == [NoShare EXCEPT !.st = "torn"]
Share(set, i, s, ys) ==
    [st |-> "whole", set |-> set, idx |-> i, t |-> Threshold, y |-> ys[i], digest |-> s]

Index == 1 .. NShares
NoSplit == [set |-> 0, ys |-> <<>>, next |-> 1]

(* crypto_load_secret_key gives the secret back under the right passphrase.*)
Loads(p) == key.st = "whole" /\ key.pass = p

(* resolve_passphrase when no key is created: retrieved or typed.          *)
OldPass(c) == IF c.keychain THEN chain ELSE c.typed

(***************************************************************************)
(* sss_join_files, on the share files named in paths.                      *)
(***************************************************************************)
ReadShares(paths) == [k \in DOMAIN paths |-> shares[paths[k]]]

Belong(ss) ==
    /\ \A k \in DOMAIN ss : ss[k].st = "whole"
    /\ \A k \in DOMAIN ss : ss[k].set = ss[1].set /\ ss[k].t = ss[1].t
                            /\ ss[k].digest = ss[1].digest
    /\ \A k, l \in DOMAIN ss : k # l => ss[k].idx # ss[l].idx
    /\ Len(ss) >= ss[1].t

(* The basis depends only on the indices, so it is computed once.          *)
Bases == [xs \in {x \in [1 .. Threshold -> Index] : IsInjective(x)} |->
            [k \in 1 .. Threshold |-> Basis(xs, k)]]

Joined(ss) ==
    Interpolate([k \in 1 .. Threshold |-> ss[k].y], Bases[[k \in 1 .. Threshold |-> ss[k].idx]])

(* Mutant: the digest recorded at split time is not compared.              *)
JoinOkNoDigest(ss) == Belong(ss)

JoinOk(ss) == Belong(ss) /\ Joined(ss) = ss[1].digest

(***************************************************************************)
(* The commands.                                                           *)
(***************************************************************************)
Paths == {p \in UNION {[1 .. n -> Index] : n \in 2 .. Threshold} :
             \A k \in 1 .. (Len(p) - 1) : p[k] <= p[k + 1]}

Command ==
    [op : {"keygen"}, keychain : BOOLEAN, typed : Typed, yes : BOOLEAN, yesPub : BOOLEAN]
    \cup [op : {"join"}, keychain : BOOLEAN, typed : Typed, yes : BOOLEAN, paths : Paths]
    \cup [op : {"rekey"}, keychain : BOOLEAN, typed : Typed, new : Typed, yes : {TRUE}]
    \cup [op : {"split"}, keychain : BOOLEAN, typed : Typed]

Return(code) == pc' = "ret" /\ rc' = code

(* A command that creates a key file has its passphrase first: typed, or   *)
(* with --keychain drawn and stored.                                       *)
Create(c, s) ==
    /\ secret' = s
    /\ IF c.keychain THEN pc' = "kc_delete" /\ UNCHANGED pass
                     ELSE pc' = "save_open" /\ pass' = c.typed
    /\ UNCHANGED <<split, rc>>

Keygen(c) ==
    /\ c.op = "keygen"
    /\ Secrets # made
    /\ LET s == Min(Secrets \ made) IN Create(c, s) /\ made' = made \cup {s}
    /\ UNCHANGED <<files, saved, origin, unflushed>>
    /\ count' = [count EXCEPT !.commands = @ + 1]

JoinKey(c) ==
    /\ c.op = "join"
    /\ LET ss == ReadShares(c.paths)
       IN  IF JoinOk(ss) THEN Create(c, Joined(ss))
           ELSE /\ c.yes /\ ~c.keychain
                /\ Return("refused")
                /\ UNCHANGED <<secret, pass, split>>
    /\ UNCHANGED <<files, history>>
    /\ count' = [count EXCEPT !.commands = @ + 1]

(* The old passphrase opens the key file, the new one is always typed.     *)
Rekey(c) ==
    /\ c.op = "rekey"
    /\ IF Loads(OldPass(c))
       THEN secret' = key.secret /\ pass' = c.new /\ pc' = "save_open" /\ UNCHANGED <<split, rc>>
       ELSE Return("refused") /\ UNCHANGED <<secret, pass, split>>
    /\ UNCHANGED <<files, history>>
    /\ count' = [count EXCEPT !.commands = @ + 1]

SplitKey(c) ==
    /\ c.op = "split"
    /\ IF Loads(OldPass(c))
       THEN \E ys \in {[i \in Index |-> ShareAt(i, key.secret, co)] : co \in Polys} :
               /\ secret' = key.secret
               /\ split' = [set |-> count.sets + 1, ys |-> ys, next |-> 1]
               /\ origin' = Append(origin, [secret |-> key.secret, ys |-> ys])
               /\ count' = [count EXCEPT !.commands = @ + 1, !.sets = @ + 1]
               /\ pc' = "split"
               /\ UNCHANGED <<pass, rc>>
       ELSE /\ Return("refused")
            /\ count' = [count EXCEPT !.commands = @ + 1]
            /\ UNCHANGED <<secret, pass, split, origin>>
    /\ UNCHANGED <<files, made, saved, unflushed>>

(* An argument or an answer that the command will not look at has one      *)
(* value, and a share file that is not there is not named.                 *)
Begin ==
    /\ pc \in {"idle", "ret"}
    /\ count.commands < MaxCommands
    /\ \E c \in Command :
          /\ c.keychain => c.typed = Type(Min(Words))
          /\ key.st = "none" /\ c.op \in {"keygen", "join"} => c.yes
          /\ pub.st = "none" /\ c.op = "keygen" => c.yesPub
          /\ c.op = "join" => \A k \in DOMAIN c.paths : shares[c.paths[k]].st # "none"
          /\ cmd' = c
          /\ Keygen(c) \/ JoinKey(c) \/ Rekey(c) \/ SplitKey(c)

(***************************************************************************)
(* keychain_store: the entry is deleted, then added.                       *)
(***************************************************************************)
KcDelete ==
    /\ pc = "kc_delete"
    /\ chain' = NoPass
    /\ pc' = "kc_add"
    /\ UNCHANGED <<key, pub, shares, locals, rc, count, history>>

(* Mutant: the new passphrase is used but not stored.                      *)
KcAddForgets ==
    /\ pc = "kc_add"
    /\ count' = [count EXCEPT !.random = @ + 1]
    /\ pass' = Random(count'.random)
    /\ pc' = "save_open"
    /\ UNCHANGED <<files, cmd, secret, split, rc, history>>

KcAdd ==
    /\ pc = "kc_add"
    /\ count' = [count EXCEPT !.random = @ + 1]
    /\ pass' = Random(count'.random)
    /\ chain' = pass'
    /\ pc' = "save_open"
    /\ UNCHANGED <<key, pub, shares, cmd, secret, split, rc, history>>

(***************************************************************************)
(* crypto_save_secret_key and crypto_save_public_key.                      *)
(***************************************************************************)
(* Mutant: nobody is asked.                                                *)
ShouldWriteAlways(f, yes) == TRUE

(* crypto_should_write: rekey sets force_overwrite.                        *)
ShouldWrite(f, yes) == f.st = "none" \/ yes

SaveOpen ==
    /\ pc = "save_open"
    /\ IF ShouldWrite(key, cmd.yes)
       THEN key' = TornKey /\ pc' = "save_write" /\ UNCHANGED rc
       ELSE Return("declined") /\ UNCHANGED key
    /\ UNCHANGED <<pub, chain, shares, locals, count, history>>

AfterSave ==
    IF cmd.op = "keygen" THEN pc' = "pub_open" /\ UNCHANGED rc ELSE Return("ok")

SaveWrite ==
    /\ pc = "save_write"
    /\ key' = Wrapped(secret, pass)
    /\ saved' = saved \cup {secret}
    /\ AfterSave
    /\ UNCHANGED <<pub, chain, shares, locals, count, made, origin, unflushed>>

PubOpen ==
    /\ pc = "pub_open"
    /\ IF ShouldWrite(pub, cmd.yesPub)
       THEN pub' = TornPub /\ pc' = "pub_write" /\ UNCHANGED rc
       ELSE Return("declined") /\ UNCHANGED pub
    /\ UNCHANGED <<key, chain, shares, locals, count, history>>

PubWrite ==
    /\ pc = "pub_write"
    /\ pub' = PubOf(secret)
    /\ Return("ok")
    /\ UNCHANGED <<key, chain, shares, locals, count, history>>

(* sss_split_to_files: share by share, over what is there.                 *)
NextShare ==
    /\ split' = [split EXCEPT !.next = @ + 1]
    /\ IF split.next = NShares THEN Return("ok") ELSE UNCHANGED <<pc, rc>>

ShareWrite ==
    /\ pc = "split"
    /\ shares' = [shares EXCEPT ![split.next] = Share(split.set, split.next, secret, split.ys)]
    /\ NextShare
    /\ UNCHANGED <<key, pub, chain, cmd, secret, pass, count, history>>

(***************************************************************************)
(* Faults.                                                                 *)
(***************************************************************************)
Fault == count.faults < MaxFaults /\ count' = [count EXCEPT !.faults = @ + 1]

(* The share files when the share being written does not get out whole.    *)
ShareTorn == [shares EXCEPT ![split.next] = TornShare]

(* Mutant: keygen does not look at the result of crypto_save_secret_key.   *)
StepFailsUnseen ==
    /\ pc = "save_write"
    /\ Fault
    /\ AfterSave
    /\ UNCHANGED <<files, locals, history>>

(* Opening, writing or adding fails; nothing is taken back.                *)
StepFails ==
    /\ pc \in {"kc_add", "save_open", "save_write", "pub_open", "pub_write", "split"}
    /\ Fault
    /\ shares' \in {shares} \cup (IF pc = "split" THEN {ShareTorn} ELSE {})
    /\ Return("io")
    /\ UNCHANGED <<key, pub, chain, locals, history>>

(* fflush and fclose fail; their results are not looked at.                *)
FlushLost ==
    /\ Fault
    /\ \/ pc = "save_write" /\ AfterSave /\ UNCHANGED <<shares, split>>
       \/ pc = "pub_write" /\ Return("ok") /\ UNCHANGED <<shares, split>>
       \/ pc = "split" /\ shares' = ShareTorn /\ NextShare
    /\ unflushed' = TRUE
    /\ UNCHANGED <<key, pub, chain, cmd, secret, pass, made, saved, origin>>

Crash ==
    /\ pc \notin {"idle", "ret"}
    /\ Fault
    /\ pc' = "idle"
    /\ rc' = "crash"
    /\ shares' \in {shares} \cup (IF pc = "split" THEN {ShareTorn} ELSE {})
    /\ UNCHANGED <<key, pub, chain, locals, history>>

(* A byte of a share goes bad; the key file is lost, what shares are for.  *)
Rot ==
    /\ pc \in {"idle", "ret"}
    /\ Fault
    /\ \/ \E i \in Index : shares[i].st = "whole" /\ shares' = [shares EXCEPT ![i].y = xor(@, 1)]
          /\ UNCHANGED key
       \/ key.st # "none" /\ key' = NoKey /\ UNCHANGED shares
    /\ pc' = "idle"
    /\ UNCHANGED <<pub, chain, locals, rc, history>>

(***************************************************************************)
(* The specification.                                                      *)
(***************************************************************************)
Init ==
    /\ key = NoKey /\ pub = NoPub /\ chain = NoPass
    /\ shares = [i \in Index |-> NoShare]
    /\ pc = "idle" /\ cmd = [op |-> "none"] /\ secret = 0 /\ pass = NoPass
    /\ split = NoSplit
    /\ rc = "none"
    /\ count = [commands |-> 0, faults |-> 0, sets |-> 0, random |-> 0]
    /\ made = {} /\ saved = {} /\ origin = <<>> /\ unflushed = FALSE

Next ==
    \/ Begin
    \/ KcDelete \/ KcAdd \/ SaveOpen \/ SaveWrite \/ PubOpen \/ PubWrite \/ ShareWrite
    \/ StepFails \/ FlushLost \/ Crash \/ Rot

Spec == Init /\ [][Next]_vars

(***************************************************************************)
(* Properties.                                                             *)
(***************************************************************************)
(* The files are whole, torn or absent, a torn key file only while it is   *)
(* written or after a fault, and share i carries index i.  keygen saves    *)
(* the secret before the public key, so whatever fails no public key is on *)
(* disk to encrypt to whose secret never was.                              *)
TypeOK ==
    /\ key.st \in {"none", "torn", "whole"} /\ pub.st \in {"none", "torn", "whole"}
    /\ key.st = "torn" => pc = "save_write" \/ count.faults > 0
    /\ key.st = "whole" => key.secret \in made /\ key.pass \in Typed \cup {Random(n) : n \in 1 .. count.random}
    /\ \A i \in Index : shares[i].st = "whole" => shares[i].idx = i /\ shares[i].set \in DOMAIN origin
    /\ pub.st = "whole" /\ ~unflushed => pub.secret \in saved
    /\ pc \in {"idle", "kc_delete", "kc_add", "save_open", "save_write", "pub_open", "pub_write",
               "split", "ret"}
    /\ rc \in {"none", "ok", "refused", "declined", "io", "crash"}

(* The sets of share files that are enough, and share i as it was written. *)
Quorums == {q \in Paths : Len(q) = Threshold /\ IsInjective(q)}

Sound(i) ==
    shares[i].st = "whole" /\ shares[i].y = origin[shares[i].set].ys[i]

Together(q) == \A k \in DOMAIN q : Sound(q[k]) /\ shares[q[k]].set = shares[q[1]].set

(* "any t of which recover it" (README-qsafe.md): whatever was split, by   *)
(* whatever polynomial, and however often a split was interrupted and      *)
(* repeated over the same files, any Threshold shares of one set that are  *)
(* as sss_split_to_files wrote them join to the secret of that set.        *)
AnyThresholdJoins ==
    pc \in {"idle", "ret"} => \A q \in Quorums :
        Together(q) =>
            /\ JoinOk(ReadShares(q))
            /\ shares[q[1]].digest = origin[shares[q[1]].set].secret

(* sss_join_files fails closed: a secret it hands to the rest of join-key  *)
(* is the one that the set was split from, and comes from shares of that   *)
(* one set; leftovers of another split, a share given twice, too few, torn *)
(* and damaged shares never yield a key.                                   *)
JoinExact ==
    cmd.op = "join" /\ (pc \in {"kc_delete", "kc_add", "save_open", "save_write"}
                         \/ (pc = "ret" /\ rc \in {"ok", "declined", "io"})) =>
        LET set == shares[cmd.paths[1]].set
        IN  /\ secret = origin[set].secret
            /\ \A k \in DOMAIN cmd.paths : shares[cmd.paths[k]].set = set

SharesGive(s) == \E q \in Quorums : Together(q) /\ origin[shares[q[1]].set].secret = s

(* Somebody who remembers what was typed, and has this key chain and these *)
(* files, can get at s.                                                    *)
Recoverable(s) ==
    \/ key.st = "whole" /\ key.secret = s /\ key.pass \in Typed \cup {chain}
    \/ SharesGive(s)

(* Success can be relied on: after keygen, join-key or rekey the key file  *)
(* opens under the passphrase the user was told of, or the key chain has   *)
(* it; keygen leaves a matching pair; split-key leaves NShares shares of   *)
(* which any Threshold will do.  Only a flush that failed unseen breaks it.*)
SuccessUsable ==
    pc = "ret" /\ rc = "ok" /\ ~unflushed =>
        /\ cmd.op \in {"keygen", "join"} => Loads(OldPass(cmd)) /\ key.secret = secret
        /\ cmd.op = "rekey" => Loads(cmd.new) /\ key.secret = secret
        /\ cmd.op = "keygen" => pub = PubOf(secret)
        /\ cmd.op = "split" => \A q \in Quorums : shares[q[1]].digest = secret /\ JoinOk(ReadShares(q))

(* Where a key may be lost: the three kinds of step named below.           *)
Explained ==
    \/ pc = "save_open" /\ cmd.yes
    \/ pc = "kc_delete"
    \/ pc \in {"idle", "ret"}

(* A secret becomes unrecoverable only where the user let a key file be    *)
(* replaced (rekey always does, in place), where a key chain entry is      *)
(* replaced before anybody was asked about the key file under it, where    *)
(* split-key writes over the shares of another secret, or by rot and loss. *)
(* No failed write, crash or refused command adds to that.                 *)
LossExplained ==
    [][\/ Explained
       \/ \A s \in Secrets :
             Recoverable(s) => Recoverable(s)' \/ (pc = "split" /\ s # secret)]_vars
===============================================================================
