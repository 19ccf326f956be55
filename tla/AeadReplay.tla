----------------------------- MODULE AeadReplay -----------------------------
(***************************************************************************)
(* Replay protection of one ss-server process (aead.c over ppbloom.c).     *)
(* Every TCP session and every UDP packet begins with a salt.  A TCP       *)
(* session checks its salt when the salt has arrived and, because other    *)
(* sessions run in between, again when its first chunk has been            *)
(* authenticated; only then is the salt added to the filter.  A UDP packet *)
(* is checked, decrypted and added in one call.  The salts the server      *)
(* draws for what it sends go to the same filter.                          *)
(*                                                                         *)
(* Decryption is abstracted to whether the data was made with the key of   *)
(* the port: data under a salt of Genuine authenticates (the first time    *)
(* and when it is sent again), data under any other salt does not.         *)
(***************************************************************************)
EXTENDS PpBloom

CONSTANTS
    Session,   \* decryption contexts of TCP connections
    Genuine,   \* salts chosen by clients that have the key
    Own,       \* salts drawn by this server
    NoSalt     \* the zeroed salt of a context that has not read one

ASSUME SaltAssumption ==
    /\ Genuine \subseteq Salt /\ Own \subseteq Salt /\ Genuine \cap Own = {}
    /\ NoSalt \notin Salt

VARIABLES
    init,      \* cipher_ctx->init: 0 no salt, 1 salt checked, 2 salt added
    salt       \* cipher_ctx->salt

vars == <<bloomVars, init, salt>>

Init ==
    /\ BloomInit
    /\ init = [x \in Session |-> 0]
    /\ salt = [x \in Session |-> NoSalt]

Authentic(s) == s \in Genuine \cup Own

\* aead_decrypt while init = 0, with more than the salt but less than a chunk:
\* the salt is checked and the context waits for more.
SaltArrives(x, s) ==
    /\ init[x] = 0
    /\ FALSE \in CheckAnswers(s)
    /\ init' = [init EXCEPT ![x] = 1]
    /\ salt' = [salt EXCEPT ![x] = s]
    /\ UNCHANGED bloomVars

\* Mutants of FirstChunk: the salt is not checked again; the salt is added
\* although the chunk did not authenticate.
FirstChunkUnchecked(x) ==
    /\ init[x] = 1
    /\ Authentic(salt[x])
    /\ Add(salt[x])
    /\ init' = [init EXCEPT ![x] = 2]
    /\ UNCHANGED salt

FirstChunkUnauthentic(x) ==
    /\ init[x] = 1
    /\ FALSE \in CheckAnswers(salt[x])
    /\ Add(salt[x])
    /\ init' = [init EXCEPT ![x] = 2]
    /\ UNCHANGED salt

\* aead_decrypt with init = 1 and a whole chunk that authenticates.
FirstChunk(x) ==
    /\ init[x] = 1
    /\ Authentic(salt[x])
    /\ FALSE \in CheckAnswers(salt[x])
    /\ Add(salt[x])
    /\ init' = [init EXCEPT ![x] = 2]
    /\ UNCHANGED salt

\* CRYPTO_ERROR in either call (a salt reported as repeated, a chunk that does
\* not authenticate), or the end of the connection: the context is released.
Release(x) ==
    /\ init[x] # 0
    /\ init' = [init EXCEPT ![x] = 0]
    /\ salt' = [salt EXCEPT ![x] = NoSalt]
    /\ UNCHANGED bloomVars

\* aead_decrypt_all
Packet(s) ==
    /\ FALSE \in CheckAnswers(s)
    /\ Authentic(s)
    /\ Add(s)
    /\ UNCHANGED <<init, salt>>

\* aead_encrypt_all, and aead_encrypt on its first call: a fresh random salt.
Send(s) ==
    /\ s \in Own
    /\ Add(s)
    /\ UNCHANGED <<init, salt>>

\* A new process: ppbloom_init, and no session.
Restart ==
    /\ bloom' = [k \in Slot |-> {}]
    /\ count' = [k \in Slot |-> 0]
    /\ current' = PING
    /\ age' = [s \in Salt |-> Forever]
    /\ init' = [x \in Session |-> 0]
    /\ salt' = [x \in Session |-> NoSalt]

Next ==
    \/ \E x \in Session : (\E s \in Salt : SaltArrives(x, s)) \/ FirstChunk(x) \/ Release(x)
    \/ \E s \in Salt : Packet(s) \/ Send(s)
    \/ Restart

Spec == Init /\ [][Next]_vars

-----------------------------------------------------------------------------
(* Properties *)

TypeOK ==
    /\ BloomType
    /\ init \in [Session -> 0..2]
    /\ salt \in [Session -> Salt \cup {NoSalt}]
    /\ \A x \in Session : init[x] # 0 => salt[x] \in Salt

\* The two places where data under salt s is let through.
LetThrough(s) == Packet(s) \/ \E x \in Session : salt[x] = s /\ FirstChunk(x)

\* Data under a salt that was let through, or that the server used itself, is
\* not let through again within the next `entries' additions, however the
\* sessions that present it interleave.
NoReplay == [][\A s \in Salt : LetThrough(s) => age[s] >= Entries]_vars

\* Only salts whose data authenticated, or the server's own, take room in the
\* filter: somebody without the key cannot push genuine salts out of it.
OnlyAuthentic == bloom[PING] \cup bloom[PONG] \subseteq Genuine \cup Own

\* The filter keeps its promise through every switch of its two halves: neither
\* is overfilled, and a salt that was added is found as long as fewer than
\* `entries' others came after it.
FilterSound == TypeOK /\ WithinCapacity /\ WindowInv /\ Remembers
=============================================================================
