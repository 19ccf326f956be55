---------------------------- MODULE CipherStream ----------------------------
(***************************************************************************)
(* What the ciphers of aead.c and stream.c put on the wire and take from   *)
(* it.  Ciphertext is made of cells, one per byte.  A cell of a box        *)
(* (authenticated data) names the nonce, the contents and its place; a     *)
(* cell of a key stream names its position.  So reading with another       *)
(* nonce, at another place or at another position is not reading.          *)
(***************************************************************************)
EXTENDS Integers, Sequences, FiniteSetsExt

CONSTANTS
    LenLen,     \* CHUNK_SIZE_LEN
    BlockSize,  \* SODIUM_BLOCK_SIZE
    Capacity    \* SOCKET_BUF_SIZE, which is also CHUNK_SIZE_MASK

ASSUME StreamAssumption == LenLen \in Nat \ {0} /\ BlockSize \in Nat \ {0} /\ Capacity \in Nat \ {0}

OK == "OK"
NEED_MORE == "NEED_MORE"
ERROR == "ERROR"

SaltCells(c) == [i \in 1..c.salt |-> [kind |-> "salt", nonce |-> 0, body |-> << >>, at |-> i]]
Junk == [kind |-> "junk", nonce |-> 0, body |-> << >>, at |-> 0]

\* aead_cipher_encrypt and aead_cipher_decrypt
Box(c, nonce, body) ==
    [i \in 1..(Len(body) + c.tag) |-> [kind |-> "box", nonce |-> nonce, body |-> body, at |-> i]]
Opens(c, nonce, cells) == cells = Box(c, nonce, cells[1].body)

\* The place of byte n in the key stream.  The libsodium ciphers count blocks in
\* so many bits: after c.blocks of them the key stream begins again.
Period(c) == c.blocks * BlockSize
Place(c, n) == IF c.kind = "salsa" THEN ((n - 1) % Period(c)) + 1 ELSE n

\* cipher_ctx_update after pos bytes, and crypto_stream_xor_ic from block ic,
\* which is cut to the width of the counter (32 bits for chacha20-ietf).
KeyStream(c, pos, bytes) ==
    [i \in 1..Len(bytes) |-> [kind |-> "stream", nonce |-> 0, body |-> <<bytes[i]>>, at |-> Place(c, pos + i)]]
XorIc(c, bytes, ic) == KeyStream(c, (ic % c.blocks) * BlockSize, bytes)

\* Deciphering: 0 for a byte that was not enciphered at this position.
Plain(c, pos, cells) ==
    [i \in 1..Len(cells) |->
        IF cells[i].kind = "stream" /\ cells[i].at = Place(c, pos + i) THEN cells[i].body[1] ELSE 0]
PlainIc(c, cells, ic) == Plain(c, (ic % c.blocks) * BlockSize, cells)

Zeros(n) == [i \in 1..n |-> 0]
Drop(s, n) == SubSeq(s, n + 1, Len(s))

-----------------------------------------------------------------------------
(* Buffers (crypto.c): a block of bytes, of which len are in use from idx *)

\* balloc and brealloc
Alloc(capacity) == [data |-> << >>, idx |-> 0, len |-> 0, cap |-> capacity]
Realloc(b, len) == [b EXCEPT !.cap = Max({@, len, Capacity})]

\* memcpy and memmove to an offset; what is behind stays.
Write(b, at, cells) ==
    [b EXCEPT !.data = [i \in 1..Max({Len(@), at + Len(cells)}) |->
                            IF i \in (at + 1)..(at + Len(cells)) THEN cells[i - at] ELSE @[i]]]

InUse(b) == SubSeq(b.data, b.idx + 1, b.idx + b.len)

-----------------------------------------------------------------------------
(* Encryption: a context, the buffer to encrypt and the static buffer *)

\* aead_ctx_init, stream_ctx_init: everything is zero.
NewContext == [init |-> 0, nonce |-> 0, chunk |-> Alloc(0)]

\* Mutant of ChunkEncrypt: one nonce for both boxes.
ChunkEncryptOnce(c, nonce, p) ==
    Box(c, nonce, [i \in 1..LenLen |-> Len(p) % (Capacity + 1)]) \o Box(c, nonce, p)

\* aead_chunk_encrypt increments the nonce after each of its two boxes.
ChunkEncrypt(c, nonce, p) ==
    Box(c, nonce, [i \in 1..LenLen |-> Len(p) % (Capacity + 1)]) \o Box(c, nonce + 1, p)

\* aead_encrypt: the salt goes before the first chunk.
AeadEncrypt(c, ctx, p) ==
    IF p = << >> THEN [ctx |-> ctx, out |-> << >>]
    ELSE LET start == IF ctx.init = 0 THEN [ctx EXCEPT !.init = 1, !.nonce = 0] ELSE ctx
         IN  [ctx |-> [start EXCEPT !.nonce = @ + 2],
              out |-> (IF ctx.init = 0 THEN SaltCells(c) ELSE << >>) \o ChunkEncrypt(c, start.nonce, p)]

\* stream_encrypt: libsodium begins at a block, so what was used of the block
\* is put in front of the text as zeros and cut off again.
StreamEncrypt(c, ctx, p) ==
    LET pos     == IF ctx.init = 0 THEN 0 ELSE ctx.nonce
        padding == pos % BlockSize
    IN  [ctx |-> [ctx EXCEPT !.init = 1, !.nonce = pos + Len(p)],
         out |-> (IF ctx.init = 0 THEN SaltCells(c) ELSE << >>)
                   \o IF c.kind = "salsa" THEN Drop(XorIc(c, Zeros(padding) \o p, pos \div BlockSize), padding)
                                          ELSE KeyStream(c, pos, p)]

Encrypt(c, ctx, p) == IF c.kind = "aead" THEN AeadEncrypt(c, ctx, p) ELSE StreamEncrypt(c, ctx, p)
=============================================================================
