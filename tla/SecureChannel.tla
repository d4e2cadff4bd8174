---------------------------- MODULE SecureChannel ----------------------------
(***************************************************************************)
(* What a messaging component of the library promises its caller: an       *)
(* authenticated channel that delivers at most once.  Every plaintext a    *)
(* receiver obtains was sent by the source it listens to, and no plaintext *)
(* is handed over twice.  The channel may lose messages and deliver them   *)
(* in any order.  The double ratchet (Ratchet) and the sender-key group    *)
(* (Group) implement this specification.                                   *)
(***************************************************************************)
EXTENDS Naturals

CONSTANTS
    Sender,     \* the parties that send
    Receiver,   \* the parties that receive
    Source,     \* Source[r] is the sender that receiver r listens to
    Msg         \* the plaintexts; each one is sent at most once

VARIABLES
    sent,       \* sent[s]: the plaintexts s has sent
    opened,     \* opened[r]: the plaintexts r has obtained
    nopened     \* nopened[r]: how many times r has obtained a plaintext

vars == <<sent, opened, nopened>>

Init ==
    /\ sent = [s \in Sender |-> {}]
    /\ opened = [r \in Receiver |-> {}]
    /\ nopened = [r \in Receiver |-> 0]

Send(s) ==
    /\ \E m \in Msg :
          /\ \A t \in Sender : m \notin sent[t]
          /\ sent' = [sent EXCEPT ![s] = @ \cup {m}]
    /\ UNCHANGED <<opened, nopened>>

Deliver(r) ==
    /\ \E m \in sent[Source[r]] \ opened[r] :
          opened' = [opened EXCEPT ![r] = @ \cup {m}]
    /\ nopened' = [nopened EXCEPT ![r] = @ + 1]
    /\ UNCHANGED sent

Next ==
    \/ \E s \in Sender : Send(s)
    \/ \E r \in Receiver : Deliver(r)

Spec == Init /\ [][Next]_vars
==============================================================================
