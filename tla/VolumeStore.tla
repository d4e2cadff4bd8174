---------------------------- MODULE VolumeStore ----------------------------
(***************************************************************************)
(* What the volume layer of vault.c promises a user: a container is a map  *)
(* from passphrases to volumes, a volume a map from names to contents.     *)
(* Each command takes effect once and as a whole, or not at all; it keeps  *)
(* the volumes it is told to keep and destroys the others                  *)
(* (docs/HIDDEN_VOLUMES_V2.md, section 4).                                 *)
(***************************************************************************)
EXTENDS Functions, Sequences

CONSTANTS
    Pass,       \* passphrases
    Name,       \* names of entries
    Content,    \* contents of entries
    Writer,     \* processes that run commands
    NoVolume, NoOp, NoName, NoContent

VARIABLES
    store,     \* store[p]: the volume p opens, or NoVolume
    running,   \* running[w]: the command w is in the middle of, or NoOp
    rc,        \* rc[w]: how w's last command ended
    faulty     \* the file system has refused to rename

svars == <<store, running, rc, faulty>>

Op == [kind : {"create", "add", "put", "rm", "passwd"}, pass : Pass, to : Pass,
       keep : SUBSET Pass, name : Name \cup {NoName}, content : Content \cup {NoContent}]

EmptyVolume == [n \in {} |-> NoContent]

(* The volumes op keeps, with vol in the place of passphrase p.            *)
Kept(op, p, vol) ==
    [x \in Pass |-> IF x = p THEN vol
                    ELSE IF x \in op.keep THEN store[x] ELSE NoVolume]

Without(vol, n) == Restrict(vol, DOMAIN vol \ {n})

With(vol, n, c) == [m \in DOMAIN vol \cup {n} |-> IF m = n THEN c ELSE vol[m]]

Allowed(op) ==
    /\ \A x \in op.keep : store[x] # NoVolume
    /\ op.kind # "create" => store[op.pass] # NoVolume
    /\ op.kind = "add" => op.name \notin DOMAIN store[op.pass]
    /\ op.kind = "rm" => op.name \in DOMAIN store[op.pass]
    /\ op.kind # "passwd" => op.pass \notin op.keep

Effect(op) ==
    CASE op.kind = "create" -> Kept(op, op.pass, EmptyVolume)
      [] op.kind \in {"add", "put"} ->
             Kept(op, op.pass, With(store[op.pass], op.name, op.content))
      [] op.kind = "rm"     -> Kept(op, op.pass, Without(store[op.pass], op.name))
      [] op.kind = "passwd" -> Kept(op, op.to, store[op.pass])

Init ==
    /\ store = [p \in Pass |-> NoVolume]
    /\ running = [w \in Writer |-> NoOp]
    /\ rc = [w \in Writer |-> "none"]
    /\ faulty = FALSE

Begin(w) ==
    /\ running[w] = NoOp
    /\ running'[w] \in Op
    /\ running' = [running EXCEPT ![w] = running'[w]]
    /\ UNCHANGED <<store, rc, faulty>>

(* The command takes effect and reports success.                           *)
Complete(w) ==
    /\ running[w] # NoOp
    /\ Allowed(running[w])
    /\ store' = Effect(running[w])
    /\ running' = [running EXCEPT ![w] = NoOp]
    /\ rc' = [rc EXCEPT ![w] = "ok"]
    /\ UNCHANGED faulty

(* The command is refused, fails or dies: nothing has changed.             *)
Fail(w) ==
    /\ running' = [running EXCEPT ![w] = NoOp]
    /\ rc' \in {[rc EXCEPT ![w] = r] : r \in {"error", "crashed"}}
    /\ UNCHANGED <<store, faulty>>

RenameRefused ==
    /\ faulty' = TRUE
    /\ UNCHANGED <<store, running, rc>>

(* After a refused rename, and only then, all may be lost; nobody is told  *)
(* that a command succeeded.                                               *)
Lose(w) ==
    /\ faulty
    /\ store' = [p \in Pass |-> NoVolume]
    /\ running' = [running EXCEPT ![w] = NoOp]
    /\ rc' \in {[rc EXCEPT ![w] = r] : r \in {"error", "crashed"}}
    /\ UNCHANGED faulty

Next ==
    \/ RenameRefused
    \/ \E w \in Writer : Begin(w) \/ Complete(w) \/ Fail(w) \/ Lose(w)

Spec == Init /\ [][Next]_svars
============================================================================
