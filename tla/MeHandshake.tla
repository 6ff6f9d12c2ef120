------------------------------ MODULE MeHandshake ------------------------------
(* The handshake of a writer with a Middle-End proxy (transport/middle_proxy/ *)
(* handshake.rs): the address that enters the key derivation, the secret that *)
(* a configuration update may replace meanwhile, the nonce exchange, the      *)
(* fingerprint table shared by all handshakes, and the encrypted reply, which *)
(* arrives in pieces of any size.                                             *)
(*                                                                            *)
(* Lengths are in words of four bytes.  A key stands for the secret and the   *)
(* address it was derived from; the proxy has the same key only if it used    *)
(* the same two.                                                              *)
EXTENDS Integers, FiniteSets, Sequences, SequencesExt

CONSTANTS
    Tasks,      \* writers that connect
    Atomic,     \* secret_atomic_snapshot
    Strict,     \* socks_kdf_policy is Strict
    Routes,     \* egress: subset of {"direct", "none", "zero", "bogon", "bound"}
    Reflected,  \* what the NAT probe can return: subset of {"none", "public"}
    Locals,     \* kinds of local address
    Block,      \* words of a cipher block
    Replies,    \* plaintext of the reply: sequences of frame lengths
    MaxSecrets  \* bound: secrets published

VARIABLES
    secret,  \* version of the secret in force
    print,   \* kdf_material_fingerprint of the endpoint
    hs,      \* [Tasks -> the writer side]
    srv      \* [Tasks -> the proxy side]

vars == <<secret, print, hs, srv>>
Idle == [pc |-> "idle", route |-> "direct", addr |-> "none", sel |-> 0, key |-> 0,
         prev |-> "none", enc |-> 0, dec |-> 0, crc |-> "crc32"]
Silent == [sel |-> 0, reply |-> <<>>, net |-> 0, sent |-> 0, flags |-> "none"]
Goes(k, pc) == hs' = [hs EXCEPT ![k].pc = pc]
Sum(q) == FoldSeq(LAMBDA a, b : a + b, 0, q)
Padded(n) == ((n + Block - 1) \div Block) * Block
------------------------------------------------------------------------------
Init ==
    /\ secret = 1
    /\ print = "none"
    /\ hs = [k \in Tasks |-> Idle]
    /\ srv = [k \in Tasks |-> Silent]

\* connect_tcp succeeds or the writer gives up.
connect_tcp(k) ==
    /\ hs[k].pc = "idle"
    /\ \/ \E r \in Routes : hs' = [hs EXCEPT ![k].pc = "addr", ![k].route = r]
       \/ Goes(k, "fail")
    /\ UNCHANGED <<secret, print, srv>>

\* select_socks_bound_addr: a SOCKS bind address counts unless it is bogon,
\* and its port enters the derivation, so it must not be zero.
SocksBound(r) == r = "bound"

\* A SOCKS route without such an address is refused by the strict policy, and
\* otherwise derives from the local or the reflected address.
Address(k) ==
    LET r == hs[k].route
    IN  /\ hs[k].pc = "addr"
        /\ IF SocksBound(r) THEN hs' = [hs EXCEPT ![k].pc = "selector", ![k].addr = "bound"]
           ELSE IF r # "direct" /\ Strict THEN Goes(k, "fail")
           ELSE \E a \in Reflected, l \in Locals :
                  hs' = [hs EXCEPT ![k].pc = "selector",
                                   ![k].addr = IF l = "bogon" /\ a # "none" THEN a ELSE l]
        /\ UNCHANGED <<secret, print, srv>>

\* One snapshot of selector and secret, or the two read one after the other.
secret_snapshot(k) ==
    /\ \/ /\ hs[k].pc = "selector"
          /\ hs' = [hs EXCEPT ![k].pc = IF Atomic THEN "nonce" ELSE "secret",
                              ![k].sel = secret, ![k].key = IF Atomic THEN secret ELSE 0]
       \/ /\ hs[k].pc = "secret"
          /\ hs' = [hs EXCEPT ![k].pc = "nonce", ![k].key = secret]
    /\ UNCHANGED <<secret, print, srv>>

\* The proxy answers the nonce in time, with sequence number, schema, key
\* selector and clock as expected, or the writer gives up.
Nonce(k) ==
    /\ hs[k].pc = "nonce"
    /\ \/ /\ srv' = [srv EXCEPT ![k].sel = hs[k].sel]
          /\ Goes(k, "read_print")
       \/ Goes(k, "fail") /\ UNCHANGED srv
    /\ UNCHANGED <<secret, print>>

\* The last fingerprint of the endpoint is read, compared for a warning, and
\* replaced in a second critical section.
Fingerprint(k) ==
    /\ \/ /\ hs[k].pc = "read_print"
          /\ hs' = [hs EXCEPT ![k].pc = "write_print", ![k].prev = print]
          /\ UNCHANGED print
       \/ /\ hs[k].pc = "write_print"
          /\ print' = hs[k].addr
          /\ Goes(k, "derived")
    /\ UNCHANGED <<secret, srv>>

\* The proxy sees the public, or the bound, address.  It can read the request
\* only with the same key, and then replies with a handshake frame behind any
\* no-op frames, padded with no-op frames to whole blocks; it sends nothing
\* more until it is asked.
ServerReplies(k) ==
    /\ hs[k].pc = "derived"
    /\ IF hs[k].key = srv[k].sel /\ hs[k].addr \in {"public", "bound"}
       THEN \E q \in Replies, flags \in {"none", "crc32c", "error", "unknown"} :
              /\ srv' = [srv EXCEPT ![k].reply = q, ![k].flags = flags,
                                    ![k].net = Padded(Sum(q)), ![k].sent = Padded(Sum(q))]
              /\ Goes(k, "reply")
       ELSE Goes(k, "fail") /\ UNCHANGED srv
    /\ UNCHANGED <<secret, print>>
------------------------------------------------------------------------------
(* Reading the reply.                                                        *)

\* A frame of one word is a no-op, and the first other one is the answer; it
\* is handled once all its words are decrypted.
AnsweredByHeader(q, words) ==
    \E i \in DOMAIN q : q[i] > 1 /\ Sum(SubSeq(q, 1, i - 1)) < words
Answered(q, words) ==
    \E i \in DOMAIN q : q[i] > 1 /\ Sum(SubSeq(q, 1, i)) <= words

\* Whole blocks are decrypted, the rest of a block waits for the next read.
Decrypt(k, n) ==
    LET all == hs[k].enc + n
    IN  [hs[k] EXCEPT !.enc = all % Block, !.dec = @ + (all \div Block) * Block]

Concludes(k, h) ==
    CASE srv[k].flags = "none"   -> [h EXCEPT !.pc = "ok"]
      [] srv[k].flags = "crc32c" -> [h EXCEPT !.pc = "ok", !.crc = "crc32c"]
      [] OTHER                   -> [h EXCEPT !.pc = "fail"]

Read(k) ==
    /\ hs[k].pc = "reply"
    /\ \E n \in 1..srv[k].net :
         /\ srv' = [srv EXCEPT ![k].net = @ - n]
         /\ LET h == Decrypt(k, n)
            IN  hs' = [hs EXCEPT ![k] = IF Answered(srv[k].reply, h.dec)
                                        THEN Concludes(k, h) ELSE h]
    /\ UNCHANGED <<secret, print>>

\* The peer closes, or the deadline passes.
GivesUp(k) ==
    /\ hs[k].pc = "reply"
    /\ Goes(k, "fail")
    /\ UNCHANGED <<secret, print, srv>>

\* A configuration update publishes a new secret.
SecretChanges ==
    /\ secret < MaxSecrets
    /\ secret' = secret + 1
    /\ UNCHANGED <<print, hs, srv>>

Next ==
    \/ \E k \in Tasks :
         \/ connect_tcp(k) \/ Address(k) \/ secret_snapshot(k) \/ Nonce(k)
         \/ Fingerprint(k) \/ ServerReplies(k) \/ Read(k) \/ GivesUp(k)
    \/ SecretChanges

Spec == Init /\ [][Next]_vars
------------------------------------------------------------------------------
(* The property.                                                             *)

\* A finished handshake leaves both ends of the cipher at the same block,
\* however the reply was cut: everything the proxy sent has been decrypted in
\* order, with no part of a block left behind, so the reader can go on from
\* the chaining value it is given.
CipherInStep ==
    \A k \in Tasks : hs[k].pc = "ok" => hs[k].dec = srv[k].sent /\ hs[k].enc = 0
==============================================================================
