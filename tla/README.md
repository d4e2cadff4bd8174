# Verification of Qsafe in TLA+

Qsafe is a post-quantum file-encryption tool and messaging library in C. This
directory holds TLA+ models of its stateful cores, the TLC configurations that
check them on small instances, and TLAPS proofs about the messaging core (the double
ratchet, its header-encrypted form, the sender-key group, the handshake and TreeKEM),
about file encryption, hidden volumes, and key files and their shares, for every value
of the parameters.
Paths below are relative to the repository root as `src/...` (the C files are
`src/src/*.c`, the headers `src/include/*.h`).

## 1. Inventory

| component | state | operations | interaction | what makes it correct |
|---|---|---|---|---|
| double ratchet, `ratchet.c` | `struct ratchet_session` at each end: root key, ratchet key pairs, two chain keys, counters, skipped-key store, KEM fields | init, `ratchet_encrypt`, `ratchet_decrypt`, serialize/deserialize | headers and ciphertexts over an untrusted relay | at-most-once authentic delivery, forward secrecy, key uniqueness, no desynchronisation, bounded store, PQ healing |
| header-encrypted ratchet, `ratchet.c:491-718` | as above and four header keys | `*_he` | as above | it is the ratchet with its headers hidden, and a header opens under at most one key |
| sender-key group, `group.c` | a chain and signature key per sender, a receiving chain per member and sender | sender/receiver init, distribution, encrypt, decrypt, state at rest | SKDM over the pairwise ratchet, frames by broadcast | as the ratchet, and no member can speak for another |
| PQXDH handshake, `pqxdh.c` | identity with prekeys and a pool of one-time prekeys | publish, initiator, responder | bundle by the relay; gives `sk` to the ratchet | agreement, authentication, one-time prekeys used once |
| TreeKEM, `treekem.c` | a binary tree of public (and some private) node keys and an epoch per member | commit, process, blank/add leaf, export/import | commits by broadcast | members in one epoch agree on the secret, removed members do not know it |
| Merkle tree, `merkle.c` | none | root, inclusion and consistency proofs and their verifiers | called by the log | proofs verify exactly what is true |
| transparency log, `translog.c` | array of leaf hashes | append, head, sign, serve proofs; client checks and gossip | heads and proofs through an untrusted relay | append-only, split views are detected, no false alarm |
| vault, `vault.c` | container file with hidden volumes: directory blocks and slots | create, add, extract, remove, passwd, secret put | file system, rename | nothing that must be kept is lost, slots never overlap |
| container format and file encryption, `crypto_utils.c` | the file being read and the file being written; the sink (`dec_sink_t`) | `crypto_encrypt_file`, `crypto_decrypt_file`, `crypto_armor`, `crypto_dearmor` | files, pipes, whoever stores the container | round trip at every boundary, nothing unauthenticated is released, failures leave no partial output, a signature covers what is released |
| key files, `crypto_utils.c`; key chain, `keychain.c` | a key file pair, one key chain entry | save, load; store (delete then add), retrieve, delete | called by keygen, rekey, join-key, split-key | success can be relied on; a key is lost only where the user gives it up |
| secret sharing, `sss.c` | share files | `sss_split_to_files`, `sss_join_files` | files | any t shares of a set give the secret, nothing else gives one |
| command line, `main.c` | none of its own | dispatch, passphrases, temporary files of `--armor` | all of the above | order of its steps |
| sealed state at rest, `crypto_utils.c` | none | seal, open | used by ratchet, group, PQXDH | what is opened is what was sealed |
| directory mode, detached signatures, age, age plugin, libqsafe, platform layer, Python binding | little | parsing, dispatch, wrappers | files, stdin/stdout | not modelled (section 6) |

Nothing in the library is threaded. What is hard is the network (loss,
duplication, reordering, reflection, tampering), failures half way through an
operation, sessions reloaded from disk between any two messages, counters and
stores at their limits, insiders who hold shared keys, and files that somebody
else changes, a disk fills, a last flush loses or a crash cuts short. PROJECT.json lists
the hazards with the line at which each one bites and the properties aimed at it.

## 2. Plan

1. `SecureChannel`: what a messaging component promises. *Done.*
2. `Ratchet`, classical and PQ; `RatchetProofs`. *Done, every property proved.*
3. `Group`, refining the same abstract channel; `GroupProofs`. *Done, every property
   proved.*
4. `Merkle` and `Translog`. *Done (model checking only: recursion over data).*
5. `TreeKEM`: per-member trees, lost commits, removal and addition; agreement,
   exclusion of outsiders, healing; `TreeKEMProofs`. *Done, every property proved.*
6. `Pqxdh`: handshake, bundles, one-time prekeys, an active relay; `PqxdhProofs`.
   *Done, every property proved.*
7. `Vault`, refining `VolumeStore`: placement, directory blocks, rewrite, atomic
   replacement, crashes, two writers; `VaultProofs`. *Done for version 2, every
   property proved for one writer; the version 1 slot commands (`vault_write`
   overwriting in place) are left out.*
8. `Frames` and `Container`: versions 5, 6 and 7, the sink, when plaintext is
   released, what is left on disk after an error; `ContainerProofs`. *Done, every
   safety property proved.*
9. `Shamir` and `KeyStore`: shares, key files and the key chain; `KeyStoreProofs`.
   *Done, every property proved.*
10. `RatchetHE` over the operators of `Ratchet`, refining it; `RatchetHEProofs`.
    *Done, every property proved.*

What is left: the properties of `Translog` are model-checked only (section 5 says why),
and the version 1 vault has no model.

## 3. Modules

### SecureChannel
The abstract specification: each sender's set of sent plaintexts, each receiver's
set of opened ones and how often it was handed one. A delivery takes a plaintext
from the source's set that the receiver does not have yet. `Ratchet` and `Group`
are shown to implement it (`AtMostOnceAuthentic`).

### Ratchet
`sess[p]` is the `struct ratchet_session` of party p, field by field; a
`have_x = 0` flag is the value `NoKey`, `NoChain`, `NoCt` or `NoSS`. Keys are
symbolic: a root key is the sequence of secrets `kdf_rk` mixed into it, a chain
key a root and a position, a message key the chain key it is derived from. ML-KEM's
implicit rejection is kept: decapsulating under the wrong key gives another
secret, not an error. The shared secret of PQXDH is the empty root.

| action | code |
|---|---|
| `Encrypt` | `ratchet_encrypt` |
| `EncryptFails` | `ratchet_encrypt` when the seal fails: `kdf_ck` has already advanced `cks`, `ns` has not moved |
| `Decrypt` = `Commit` or `Reject` | `ratchet_decrypt`: stored key, skip, `dh_ratchet`, skip, open; the working copy is committed only on success |
| `Reload` | `ratchet_session_serialize` then `_deserialize` (`Pack`, `Unpack`) |

`Network` gives either party every packet ever sent, as often as it likes, and
each such packet with its ratchet key, counters or KEM fields changed. Loss is a
packet never delivered. A blob that is tampered with is refused by
`crypto_open_at_rest`, so reloading is only from the genuine blob.

### Group
`send[s]` and `recv[c]` are `group_sender_t` and `group_receiver_t`; a chain c is
a member and the sender it listens to. `skdm[c]` holds the distribution messages
on the pairwise channel, which delivers each at most once (that is what
`Ratchet` shows), in any order; the header's "sent once to each other member" is
the guard of `Distribute`. `joined` is a history variable. The index is kept
modulo `IndexMod` (2^32 in the code). Insiders seal frames under any key they
hold and sign with their own key. `group_encrypt` commits last, so its failures
are stuttering steps.

### Merkle, Translog
`Merkle` has one operator per function of `merkle.c` over symbolic, injective
hashes; the iterative consistency verifier is a recursion over the proof with the
same two positions. `Translog` keeps one log per view (an equivocating operator
has two under one key) and the heads it has signed. What clients compute is
stated as operators over a head and a proof, and the invariants quantify over
every proof an untrusted relay could present: any inclusion or consistency proof
of any prefix of any view, shortened or extended.

### TreeKEM
`tree[p]` is the node array of p's `struct treekem`, `leaf[p]` its `my_leaf`,
`root[p]` its `root_secret`. A path secret is a draw of randomness and the number
of times it was hashed; a node's key pair is named by the path secret it comes
from. The library has no epoch and no order of commits ("separate layers",
`treekem.h:7`), so the layer above is external and assumed to do the least that
makes the protocol meaningful: commits are in one order (`log`), only a member
that has processed all of them commits, and every member applies the change of
membership a commit carries before processing it. `epoch`, `diverged`, `forked`,
`mishaps` and `leak` are history variables.

| action | code |
|---|---|
| `Commit` | `treekem_blank_leaf` or `treekem_add_leaf` and `treekem_commit`, accepted into the order |
| `CommitLost` | `treekem_commit` failing after any number of nodes, or completed and refused |
| `Join` | `treekem_import` of the Welcome |
| `Process`, `ProcessGarbled`, `Redeliver` | `treekem_process` of the next commit, of the next commit damaged, of the last commit again |
| `Compromise` | somebody reads all of a member's keys |

`treekem_process` writes the committer's public keys before it opens anything, and
a refusal leaves them there; the model keeps that. Not modelled: a member that is
removed before it joined, and the replay of commits older than the last (nothing
in the library can refuse one).

### Pqxdh
A key is its owner, kind and number; SK is the record of the legs `derive_sk`
hashes; the MAC is the SK and the bytes it covers. `Initiate` is
`pqxdh_initiator` on any bundle the relay answers with, `Respond` is
`pqxdh_responder` on any opening the relay delivers: sent, altered in one field, or
written by the relay with a MAC it can compute. The layer above compares the signing
key with the pinned one. One-time-prekey ids are chosen freely, so they collide in
small instances. Peers are honest: one that certifies a key it does not own is out
of scope.

### VolumeStore, Vault
`VolumeStore` is what a user of the volume layer is promised: a map from
passphrases to volumes and from names to contents, on which each command takes
effect once and as a whole or not at all, keeping what it is told to keep and
destroying the rest. `Vault` implements it. An image is a size and the set of slots
sealed into it; a slot opens under the passphrase, offset and capacity it was
sealed with, unless another was sealed over it. A file is a numbered object that
the container's path or the temporary path names, so that two processes can hold
one file open. A command reads the container and computes its image in one step
(`CreateImage`, `AddImage`, `RmImage`, `PasswdImage` over `vault_rewrite`) and then
takes the steps of `vault_atomic_write` one at a time.

| action | code |
|---|---|
| `Create`, `Add`, `Rm`, `Passwd`, `Refused` | `vault_volume_create`, `_add`, `_rm`, `_passwd`, and their error returns |
| `SecretPut`, `PutAfterCreate` | `vault_secret_put`: two rewrites when the container is missing |
| `OpenTmp`, `WriteTmp`, `Rename` and `...Fails` | `vault_atomic_write` |
| `RemoveOld`, `RenameAgain` and `...Fails` | its fallback when rename fails |
| `Crash` | the process dies at any of these points |

`vols` is a history variable, what the container's passphrases open; `TypeOK`
checks it against the file in every state. Where an anchor lies is a constant
function, since it is a hash; the instance makes two anchors collide. A file that
was truncated or half written opens no volume. Key files and scrypt costs are part
of the passphrase. The ranges that `vault_find_free` sorts are a set taken in the
order of their starts (`First`), and its loop is a recursive function over how many it
has passed. `vault_rewrite` seals one slot per place of a plan, the directory's blocks
and then its entries (`Places`).

### RatchetHE
Extends `Ratchet`: a session is its record with four header keys more, and
`dh_ratchet` and `skip_message_keys` are the operators of `Ratchet` with the header
keys updated beside them. A header key is one of the two taken from the shared
secret, or the third output of `kdf_rk` at a root. `ratchet_decrypt_he` knows the
chain of a packet only from the key that opens its header; the trials (stored keys,
receiving key, next receiving key) are in the order of the code.

| action | code |
|---|---|
| `EncryptHE`, `EncryptHEFails` | `ratchet_encrypt_he` and its failing header or body seal |
| `DecryptHE` = `CommitHE` or `RejectHE` | `ratchet_decrypt_he` |

The relay damages headers and puts the header of one packet before the body of
another. `ratchet_session_serialize` refuses a session with header keys, so there is
no reload. `VeilsRatchet` is the refinement: with the headers open (`Unveiled`,
`UnveiledPacket`) every behaviour is one of `Ratchet!Spec`, so what is proved of the
classical ratchet holds here too; section 5 proves the refinement itself.

### Frames, Container
`Frames` is the format: a header with its recipient records, META, the signature
trailer, and frames that open exactly under the key, counter, final flag and
additional data they were sealed with. Bytes are cells; `FrameSize`, `TrailerSize`
and `BufSize` stand for the sizes in the code, and META is one cell that leaves room
in the first frame. `PadmeSize` is the arithmetic of `crypto_padme_size`.

`Container` is one user, one command at a time, and five names: the input, the
container, the temporary file of `--armor`, the decrypted file, and a pipe.

| action | code |
|---|---|
| `EncBegin`, `EncOpen`, `EncFrame`, `EncClose` | `crypto_encrypt_file`: checks, output (truncated, the input too if it is the same), frame loop (`Stage` is one frame of META, contents, trailer and padding), close |
| `EncFault`, `EncFlushLost` | a failing call; `fclose` failing unseen |
| `Armor`, `ArmorFails` | `crypto_armor` and the removal of the temporary file by `main.c` |
| `DecBegin` | `crypto_decrypt_file` up to the content key, after `crypto_dearmor` |
| `DecFrame` | one frame of version 6 or 7 through `dec_sink_write` (`SinkMeta`, `SinkOpen`, `SinkKnown`, `SinkHoldBack`) |
| `DecChunk` | one buffer of a version 5 payload; to a pipe it is held (`Deferred`) |
| `DecFinish`, `DecClose` | `dec_sink_finish` and `dec_sink_commit`; close, mode and time |
| `DecFault`, `DecFlushLost` | as for encryption |
| `InputChanges` | another program appends to the input or cuts it |
| `Tamper` | whoever stores the container, without a key (`Relayed`); a recipient, who has the content key (`Resealed`) |
| `Crash` | any beginning of the file being written is left |

`said`, `truth` and `touched` are history: what the signer has signed, the contents
the container was made of, and who changed it.

### Shamir, KeyStore
`Shamir` is the arithmetic of `sss.c` over the real field: the tables of `gf_init`,
`gf_mul`, `gf_div`, Horner evaluation and Lagrange interpolation at zero, for one byte
of the secret (bytes are split independently). Exclusive or is written out by digits,
`xor`. `TablesAssumption` says what `gf_init` leaves in its tables; it has no parameters,
TLC computes the tables and evaluates it, and the proofs start from it. `KeyStore` is the
key files, one key chain entry and the share files under one prefix, and the four
commands over them.

| action | code |
|---|---|
| `Keygen`, `Rekey`, `JoinKey`, `SplitKey` (in `Begin`) | the branches of `main.c` up to their first write; `JoinKey` has `sss_join_files`, `SplitKey` the polynomials of `sss_split_to_files` |
| `KcDelete`, `KcAdd` | `keychain_store` |
| `SaveOpen`, `SaveWrite` | `crypto_save_secret_key`: ask, truncate, write |
| `PubOpen`, `PubWrite` | `crypto_save_public_key` |
| `ShareWrite` | one turn of the loop of `sss_split_to_files` |
| `StepFails`, `FlushLost`, `Crash`, `Rot` | a failing call, a lost flush, the machine stopping, a share going bad or the key file being lost |

A command that fails leaves what it has done: the code takes nothing back here. A
passphrase is a typed word or a random one that only the key chain knows.
`AnyThresholdJoins` and `JoinExact` are about the shares, `SuccessUsable` and
`LossExplained` about the key.

### Proof modules
`RatchetProofs`, `RatchetHEProofs`, `GroupProofs`, `PqxdhProofs`, `TreeKEMProofs`,
`ContainerProofs`, `VaultProofs`, `KeyStoreProofs`: the theorems of section 5, each
module over the model of its name; the last also has the field and interpolation lemmas
of `Shamir`.

## 4. Runs

| run | constants | checks |
|---|---|---|
| `ratchet_classical` | MaxSkip 2, 4 messages and 1 failed seal per party, 2 ratchet steps | `TypeOK`, `Decryptable`, `ForwardSecrecy`, `NoKeyReuse`, `AtMostOnceAuthentic` |
| `ratchet_pq` | MaxSkip 1, KemEvery 2, 5 messages per party, 4 ratchet steps | `Decryptable`, `HealsWithinK`, `SkippedBounded` |
| `ratchet_he` | MaxSkip 1, 3 messages and 1 failed seal per party, 2 ratchet steps | `DecryptableHE`, `OneHeaderKeyOpens`, `VeilsRatchet` |
| `group` | one sender and two receivers, MaxSkip 1, 5 messages, 2 sender keys, IndexMod 4 | `TypeOK`, `Decryptable`, `ForwardSecrecy`, `NoKeyReuse`, `AtMostOnceAuthentic` |
| `translog` | two views, 7 leaves over both | `ExtensionsAccepted`, `InclusionExact`, `SplitViewDetected` |
| `treekem` | 4 leaves, 5 people, 3 commits, 1 mishap | `InOrderAccepted`, `RootsAgree`, `OutsidersExcluded`, `Heals` |
| `pqxdh` | 3 parties, pool of 2, 2 ids, 2 openings, 1 acceptance | `Agreement`, `RelayExcluded`, `OpeningsAccepted` |
| `vault` | 3 passphrases, 3 names, blocks of 2 entries, 2 blocks, one `--keep`, 4 commands, 2 faults | `TypeOK`, `RoomIsFound`, `AllOrNothing` |
| `container` | frames of 3 cells, trailer of 2, buffers of 2, inputs of 0, 1 and 11 cells, older containers of 3, 1 fault | `RoundTrip`, `PipeAuthentic`, `TamperDetected`, `ReturnedMeansWhole`, `SignatureBinds`, `Returns` |
| `keystore` | 2 secrets, 2 polynomials, 2 words, threshold 3 of 4 shares, 4 commands, 1 fault | `TypeOK`, `AnyThresholdJoins`, `JoinExact`, `SuccessUsable`, `LossExplained` |
| `vault_race` | as `vault`, 2 processes, 3 commands, no faults | `ReplacedNotLost` (violated) |
| `container_signer` | as `container` | `PinHonoured` (violated) |

Why the bounds are enough. In `ratchet_classical`, two ratchet steps per party
give messages of three chains in flight at once and gaps before and after a step;
four messages exceed MaxSkip, so the limit is met. In `ratchet_pq`, four steps
with KemEvery 2 give two rotations per party, ciphertexts for retired keys, and
lite messages between them. `ratchet_he` adds only header keys: two steps promote
each of the four once, and one stored key opens a header of a chain that was left.

In `group` each receiver is also the insider who forges against the other, five
messages take the index past IndexMod with a key of the earlier lap still stored,
and a second sender adds nothing: chains of two senders share no state. Seven
leaves give a single log every shape of unbalanced tree up to depth three, and two
views heads of three and four leaves that differ anywhere, the least that shows why
the old root must be compared as well. Four leaves and three commits are the least
in which a leaf is removed, filled again and both sides of the root have committed;
the tree is symmetric, so one of the four founders never commits (`Active`), one
member with mishaps stands for all, and one mishap per behaviour is every kind of
mishap at every point. Three parties let a relay mix the parts of two bundles in a
handshake with a third, and two prekeys over two ids collide. In `vault`, four
commands fill a directory past its first block and then remove, re-key, keep or
destroy it; two faults are what the fallback needs to lose the container.

In `container`, META is followed by 0, 1 or 11 cells of contents and, as the command
says, 2 of trailer and up to 1 of padding (11 pads to 12): contents, trailer and
padding each end on a frame boundary in one case and off it in another, a trailer
straddles two frames, and a stream that ends on a boundary is closed by an empty
frame. A changing input adds the sizes next to these. One fault is every kind of fault
at every step; two rarely meet, since most end the command. In `keystore`, four
commands make, share and replace a key and join the old one back, or split a key twice
over the same files, the second time interrupted, and join what is there. A threshold
of three of four makes every mixture of two sets occur, and the two polynomials have
coefficients on both sides of the reduction. The files given to join-key are in order
(a file may be given twice): the interpolation is a sum, so their order is immaterial.

`MCTranslog`, `MCPqxdh` and `MCVault` declare symmetries: views, bindings, parties and
entry names are model values that no definition tells apart, and what is checked
is safety. The `container` run, which checks liveness, declares none.

`Decryptable` is the property against wedging: as long as no more than MaxSkip
other messages are outstanding, *any* outstanding message opens next. It is a
state predicate about what `ratchet_decrypt` would return, so it needs no
fairness. Messages sealed after a failed seal are excluded (`InStep`): the
code's counter no longer names their position. `ForwardSecrecy` looks at
everything the session could derive, not only at what it stores: stored keys,
later positions of its chains, and roots.

Fairness. The library runs nothing by itself: a message is sent or a command given
when the user does so, and nothing is assumed about that. The one assumption is
`WF_vars(Step)` in `Container`: a command that has begun keeps being scheduled until
it returns. `Step` holds only its own steps, neither faults nor the environment, so
`Returns` says that the frame loops end whatever is read. Reads and writes of a pipe
are assumed to return.

Type invariants are checked where a type says something of the code: array bounds in
`Group`, the file against the history in `Vault`, torn files and key pairs in
`KeyStore`, and in `Ratchet`, where it is also the first theorem. The array bound of
`Ratchet` itself is `SkippedBounded`.

The translog, TreeKEM, PQXDH, vault, container and keystore runs switch deadlock
checking off: a log nobody appends to, a group nobody changes, a pair that has shaken
hands, a container nobody writes to, and files on which all commands are done are at
rest.

The two violations are disagreements between a document and the code:

* `vault_race`: `vault.c:775` says that `vault_atomic_write` "Atomically replaces"
  the container. All processes use one temporary name, and the fallback runs
  whenever rename fails: of two concurrent writers the first moves the shared file
  into place, the second's rename fails because it is gone, and its fallback
  removes the container that was just written.
* `container_signer`: `README-qsafe.md:336` and `main.c:92` say of `--signer`
  "require the embedded signer to be this key". `dec_sink_finish` returns success
  for a payload without a signature before it looks at the pinned key
  (`crypto_utils.c:1644`), and for versions 5 and 6, which cannot be signed. With a
  signature by another key it refuses, as `SignatureBinds` relies on.

Further differences found while modelling, which no run is spent on:

* `group.h:64-65` and `ratchet.h:160` give a gap above the limit as the reason for
  CRYPTO_ERR_INVALID_INPUT; the code also counts the keys already stored
  (`group.c:153`, `ratchet.c:260`), and keys of lost messages are never dropped.
* `translog.h:32` calls TRANSLOG_FORK "proof of equivocation";
  `translog_gossip_check` returns it for any proof that does not verify, among them
  the proof an honest operator serves after its log has grown.
* `README.md:27` promises "a one-time-prekey pool with durable replay rejection" and
  `pqxdh.h:34-36` "Each is used at most once"; `pqxdh_responder` takes the identity
  `const` and spends nothing. `pqxdh.h` adds "the receiver tracks consumption": no
  code in the repository does.
* `crypto_utils.c:1229-1231` says that an input that "shrinks or grows mid-encrypt is
  an error"; only shrinking is (1244). A file that grows is cut at its old length.
* A declined overwrite is CRYPTO_SUCCESS for encrypt and decrypt and
  CRYPTO_ERR_FILE_IO for key files.
* `keygen --keychain` replaces the key chain entry before it asks whether to replace
  the key file: who answers no has a key file that nothing opens. `rekey` of such a
  key leaves the old entry. `LossExplained` names both, with rekey's write in place,
  as the only steps at which a key is lost.

## 5. Proofs

Each theorem holds for every value of the constants that satisfies the assumption its
model declares: `RatchetAssumption` (bounds are naturals, `KemEvery` is positive, `PQ`
a Boolean) with `ClassicalAssumption` for `RatchetHE` (only the classical ratchet has
header keys), `GroupAssumption` (any members, senders among them, any `MaxSkip`, any
positive `IndexMod`), `PqxdhAssumption` (the relay is no party), `TreeKEMAssumption`
(at least one level, people enough for the leaves), `FramesAssumption` (a frame has room
for META and something more, a trailer is not empty), `ContainerAssumption` (any
input lengths, any positive reader buffer, any number of faults), and
`VaultAssumption` with `NothingAssumption` (any lengths, anchors, sizes and placements, a
block of at least two entries, a slot longer than its length field; the values that
stand for "none" are none of the others), and `KeyStoreAssumption` (a threshold from 2 to
16, at most 255 shares, secrets and coefficients that are bytes) with the closed
`TablesAssumption`. The theorems about `Vault` have the
hypothesis `OneWriter`, that one process at a time uses a container: `vault_race` shows
that they need it.

| theorem | module | statement |
|---|---|---|
| `TypeCorrect` | `RatchetProofs` | `Spec => []TypeOK` |
| `MessageKeysForgotten` | | `Spec => []ForwardSecrecy` |
| `KeysUsedOnce` | | `Spec => []NoKeyReuse` |
| `StoreBounded` | | `Spec => []SkippedBounded` |
| `RatchetImplementsChannel` | | `Spec => AtMostOnceAuthentic`, the refinement of SecureChannel |
| `NeverWedged` | | `Spec => []Decryptable` |
| `HealsOnCadence` | | `PQ => (Spec => []HealsWithinK)` |
| `NeverWedgedHE` | `RatchetHEProofs` | `SpecHE => []DecryptableHE` |
| `HeaderKeysSeparate` | | `SpecHE => []OneHeaderKeyOpens` |
| `HeadersVeiled` | | `SpecHE => VeilsRatchet`, the refinement of Ratchet |
| `GroupTypeCorrect` | `GroupProofs` | `Spec => []TypeOK` |
| `GroupKeysForgotten` | | `Spec => []ForwardSecrecy` |
| `GroupKeysUsedOnce` | | `Spec => []NoKeyReuse` |
| `GroupNeverWedged` | | `Spec => []Decryptable` |
| `GroupImplementsChannel` | | `Spec => AtMostOnceAuthentic` |
| `HandshakesAgree` | `PqxdhProofs` | `Spec => []Agreement` |
| `RelayNeverKnows` | | `Spec => []RelayExcluded` |
| `OpeningsWork` | | `Spec => []OpeningsAccepted` |
| `ProcessedRootsAgree` | `TreeKEMProofs` | `Spec => []RootsAgree` |
| `CommitsAreAccepted` | | `Spec => []InOrderAccepted` |
| `OutsidersStayOut` | | `Spec => []OutsidersExcluded` |
| `CompromiseHeals` | | `Spec => []Heals` |
| `VaultTypeCorrect` | `VaultProofs` | `OneWriter => (Spec => []TypeOK)` |
| `VaultImplementsStore` | | `OneWriter => (Spec => AllOrNothing)`, the refinement of VolumeStore |
| `VaultFindsRoom` | | `OneWriter => (Spec => []RoomIsFound)` |
| `ContainersRoundTrip` | `ContainerProofs` | `Spec => []RoundTrip` |
| `PipeIsAuthentic` | | `Spec => []PipeAuthentic` |
| `RelayIsNoticed` | | `Spec => []TamperDetected` |
| `SignatureIsBinding` | | `Spec => []SignatureBinds` |
| `OutputsAreWhole` | | `Spec => []ReturnedMeansWhole` |
| `KeyStoreTypeCorrect` | `KeyStoreProofs` | `Spec => []TypeOK` |
| `ThresholdRecovers` | | `Spec => []AnyThresholdJoins` |
| `JoinIsExact` | | `Spec => []JoinExact` |
| `SuccessIsUsable` | | `Spec => []SuccessUsable` |
| `LossIsExplained` | | `Spec => LossExplained`, an action property |

None of these properties is inductive. The strengthenings, and why each is needed:

**Ratchet, `IndInv`.** It orders keys by the length of the root they hang from
(`Behind`): each ratchet step makes the root two mixes longer, the initiator's sending
roots have odd length and the responder's even length, so a key tells its direction.
`SessionInv` says a session's sending chain hangs from its root, the receiving chain
from the root one mix shorter, and every stored key lies behind the receiving chain,
once, in the peer's direction, within the limit. `SentInv` says everything a party
sent lies behind its sending chain and no two packets share a key or a plaintext.
`OpenedInv` says everything opened was sent by the peer, lies behind the receiving
chain, and has no stored key. A successful `ratchet_decrypt` uses a key that was
stored or still ahead (`Consumes`), so what it opens was never opened before, and
parity says it was sealed by the peer and not reflected. `Later` says that a session
only moves forward: no key behind it comes back.

**Ratchet, `SyncInv` = `IndInv` and `Synced`.** That a message *can* be opened needs
both sessions at once. `SendSync`: the headers on a chain count without a gap, to `ns`
on the present chain and `pn` on the one before. `RecvSync`: whatever of the peer's is
seen and not opened has its key in the store, and the store holds nothing else, so
the store is never larger than the messages outstanding. `Leads`: one party has taken
the last step and is one mix ahead; the other will derive that mix, in the PQ case
through the KEM fields (`KemSync`), from any header the leader sends now.

**Ratchet, `MixedInv`.** The root is a history: its position 2k + `Side`(o) was mixed
at o's k-th step, and holds a fresh encapsulation when k is on the cadence. With it
`HealsWithinK` is about which positions of a root can be old.

**RatchetHE, `VeilInv`.** In the classical ratchet the root of length n is always the
same (`RootAt`), so a header key has a place (`HkAt`), and no two places share a key.
The invariant says every header key that a session, its store or a packet holds is
the one of its place. Hence the chain that `ratchet_decrypt_he` finds by trial is the
one the hidden ratchet key names, and its step is the classical step. `Open` is the
theory of `RatchetProofs` instantiated with the unveiled sessions, so that the
classical proof is used and not repeated.

**Group, `IndInv`.** It follows a sender key from the distribution message to the
chains. A sender has been at every position it handed out, so that all it sends later
is sealed there or further on (`ReachedBy`); a chain never runs ahead of its sender; every
key in its store lies behind it and belongs to a frame that was sent; a generation is
handed to a chain once, so what was opened cannot be derived again (`OpenedInv`). Frames
carry their position modulo `IndexMod`. `Decryptable` is stated below the wrap, and
the proof shows where it is needed: the room the store must have is counted in positions.

**Pqxdh, `IndInv`.** The legs of every opening made are those of its initiator and of
the peer it asked for (`OpeningInv`): the labels and signers `pqxdh_initiator` checks
leave the relay no other bundle. An accepted opening carries a MAC under one of these,
since the relay knows neither half of the first leg (`AcceptedInv`).

**TreeKEM, `AgreeInv`.** The path secrets a commit seals at its steps are one draw,
hashed as often as the step is high (`EntryOk`); so whichever of them a member opens,
it hashes up to the root secret the committer has.

**TreeKEM, `ViewInv` = `AgreeInv`, `ChainOk`, `SeatsOk`, `JoinedOk`, `ViewsOk`.** What a
member needs to follow is a tree that matches the committer's. `ChainOk` describes
every commit of the order by the one before: which leaf changed, which key each node of
the path gets, and one box per node of the copath's resolution. `SeatsOk` and `JoinedOk`
tie people to leaves and to the commit they joined with. `ViewOk` says that the tree of
a member in step holds, for the commits it has processed, the public keys of the nodes off
its path and the private ones of those on it (`ViewAt`), but for the nodes that the next
commit replaces, where a damaged delivery may have left anything (`Upset`). The
resolution is a recursive function over the nodes, and covers every populated leaf
below a node (`Resolved`), so the committer seals to a key the member holds.

**TreeKEM, `KeysInv` = `ViewInv`, `HoldingsOk`, `LeakOk`.** Every private key that a member
holds is its own: of its leaf, or of a node above it, from a commit that was sent
(`OwnKey`); `LeakOk` says that a thief's copy is the same, of commits up to the theft. The
proof follows what such keys can open among all commits, one reading at a time
(`Known`). A set of commits that is closed under what somebody with a given leaf can read
(`Readable`) bounds all it ever learns (`Within`), and a commit closes the set before it:
it replaces every key above the leaf that is removed, filled or its own, and seals the
new ones only to leaves that are there. Removal, a later joiner and a thief locked out by
the victim's next commit are three cases of one statement.

**Vault, `VaultInv`.** For each process counter it says what lies in the two files and in
the image a process carries, and that this image is a good outcome of its command
(`Good`). The work is in what `vault_rewrite` makes:

* The slots of a rewrite are exactly those of its plans, apart from each other and inside
  the image (`Written`). Hence the walk of `vault_open_volume` along the overflow pointers
  follows the blocks of one plan to its end (`WalkAt`, `OpensAt`), and the volumes that
  open are those of the plans, with their contents (`KeptVolumes`), and no others.
* `ImageOk` is that argument turned round. Each volume that opens would be sealed again to
  exactly the slots lying under its passphrase, apart and inside (`Placed`, `Sealable`).
  This is what makes the next rewrite succeed on a volume it keeps, and makes the ranges
  `vault_volume_add` collects the true ones. TLC checked it on the run first.
* `vault_find_free` returns the lowest offset at which the slot meets none of the ranges
  (`FirstFree`, by the invariant `ScanAt` of its loop). With `Placed` the ranges are the
  occupied slots, so `VaultFindsRoom` follows.

The refinement maps each step of `vault_atomic_write` to a step of `VolumeStore` or to
none: the volumes change at the rename, and everything is lost only after the file
system has refused one.

**Container, `IndInv` = `BaseInv`, `EncAll` and `ContAll`.** It describes a container by
its stream, META, contents, trailer and padding (`Stream`), cut into frames (`Sealed`).
Neither loop is compared with the other: the invariant of each is stated against
positions of the stream, so that no induction over the contents is needed.

* `BaseInv`: types; every trailer that claims to be by S, in any file and in the sink,
  is one S has signed (`SaidInv`); what the sink has handed on is what lies in its output
  (`SinkOut`, `PipeOut`). It is inductive alone, and gives `SignatureIsBinding`.
* `EncAll`: after n frames the writer has written the first n times `FrameSize` cells of
  the stream and its locals say which (`EncLoop`, `EncUsed`); a frame that is not full
  is the end of the stream, so a stream that ends on a boundary needs an empty frame.
* `ContAll`: what lies under the container's name is the file as written, torn, or with
  a changed header and frames of the original or that do not open (`Outcome`); the sink
  has taken apart a beginning of the stream (`SinkAt`), whichever of its three ways the
  lengths in META make it go. A frame opens in one place only, by its counter and final
  flag, and the first one under one header (`FrameRead`); so a reader that gets to the
  end has read the original (`FramesWhole`). Version 5 authenticates at the end; until
  then its sink is tied to the stream only if the tag will match (`PayloadAuthentic`).

**Shamir.** That any threshold of shares gives the secret back is Lagrange's theorem in
the field the code computes in, proved from what its tables hold.

* The field. `xor` is addition modulo 2 digit by digit (`XorBits`), hence a group.
  Multiplying by three distributes over it (`TimesThreeXor`), every other unit is a power
  of three by the tables, so multiplication distributes (`Distributive`, by induction on
  the power); the rest of the field laws is arithmetic of logarithms modulo 255.
* Interpolation. `Coef` is the basis of the first n nodes at any point, and the `Basis`
  of the code is that of all of them at zero (`BasisIs`). The coefficients add up to one
  (`CoefSum`). What Horner's rule builds (`Poly`) divides: f(x) - f(z) is (x - z) times a
  polynomial of one degree less (`Divides`). With the two, `Lagrange` follows by
  induction on the number of nodes; a share is the value of such a polynomial, and the
  secret its value at zero (`ShareCurve`).

**KeyStore, `StoreInv`.** `Origins` and `Labelled` say that every share set has the values of
one polynomial, and that a whole share file names a set that was made and its secret;
with `Lagrange` this is `ThresholdRecovers`. `Chaining`, `Saving` and `Splitting` say of
each place in a command what it holds and what is on disk by then: the passphrase a key
file is written under is the one the command answers for (`NewPass`), the key chain
entry is gone only between deletion and addition, the shares before the next one are
those of the present set, and the key that is split stays in its file. `Done` is what
they amount to when a command returns. TLC checked `StoreInv` on the `keystore` run first.

Where a definition recurses over numbers (a height, a count of blocks, ranges, nodes or
coefficients), the induction is over the set of numbers for which the claim holds
(`AllNumbers`), from the well-foundedness of the naturals.

Only model-checked, and why:

* `Container`: `Returns` is liveness, out of the prover's reach.
* `Merkle` and `Translog` recurse over the tree of hashes with RECURSIVE operators, and
  no module that reaches them can hold theorems.

## 6. Not modelled

Cryptographic primitives (OpenSSL, liboqs) are ideal: hashes and KDFs are
injective, AEAD opens exactly what was sealed under the same key, nonce and AAD,
signatures verify exactly what was signed. Zeroisation appears as keys leaving the
state; copies in freed memory are out of scope. Allocation failures return before
any change of state in `ratchet_decrypt` and `group_*` and are refusals there. A
caller that restores an old blob after sending reuses keys; the code cannot
prevent it and no property claims otherwise. Message counters of the ratchet
(`uint32_t`) are not wrapped: the group's index is, and shows what a wrap does.

Of the vault, the version 1 commands (`vault_init`, `vault_write`, `vault_read`): they
rewrite a slot in place, and no document promises anything of a write that stops half
way. Of the command line, option parsing, sign-keygen, inspect and the listing
commands, which keep no state. The directory mode of encryption calls the modelled
commands file by file; what it adds is the listing of a directory. A detached
signature is one signature over one file. The age format and the age plugin are
parsers and writers of another format; the library interface, the platform layer and
the Python binding are wrappers. Sealed state at rest appears as an envelope that
returns what was sealed; its inside is key derivation and one AEAD call.

In `Container`: scrypt and KDF parameters, the directory a decrypted file is named in,
modes and times beyond the fact that they are restored, and a second program that
creates the output between the question and the opening (`crypto_utils.c:258`).
Records are symbolic, so a damaged recipient record is one that opens for nobody; a
removed one is modelled. In `KeyStore`: sizes of keys and the rest of the secret's
bytes, permissions, and that a `--keychain` command on a platform without a key chain
is refused at once.
