------------------------------ MODULE Framing ------------------------------
(***************************************************************************)
(* A TCP connection between two contexts of crypto.c: one side encrypts    *)
(* what it is given, TCP hands the ciphertext over in any pieces, the      *)
(* other side decrypts what has arrived (aead_decrypt, stream_decrypt).    *)
(* Or packets between two such programs (…_encrypt_all, …_decrypt_all).    *)
(***************************************************************************)
EXTENDS CipherStream, KeyDerivation

CONSTANTS
    Method,     \* names of ciphers, which may be wrong
    MaxBytes,   \* how many bytes are sent, at most
    MaxPacket   \* the size of a packet, at most

ASSUME FramingAssumption == MaxBytes \in Nat /\ MaxPacket \in Nat

VARIABLES
    carrier,    \* a TCP connection, or UDP packets
    cipher,     \* the cipher
    enc, dec,   \* the two contexts
    sent,       \* how many bytes were sent: byte i is the number i
    wire,       \* the ciphertext
    arrived,    \* how much of it was read
    buf,        \* the buffer that the receiver reads into
    got,        \* what the receiver was given
    known,      \* the salt or IV is in the receiver's filter
    failed,     \* CRYPTO_ERROR: the connection is closed
    filter,     \* the nonces of packets that are in the receiver's filter
    given,      \* packets of which the receiver was given something (ghost)
    packet      \* the last packet: its text, how much of it arrived, what came of it

framingVars == <<carrier, cipher, enc, dec, sent, wire, arrived, buf, got, known, failed, filter, given, packet>>
streamVars == <<enc, dec, sent, wire, arrived, buf, got, known, failed>>
packetVars == <<filter, given, packet>>

Text(from, n) == [i \in 1..n |-> from + i]

FramingInit ==
    /\ carrier \in {"tcp", "udp"}
    /\ cipher \in UNION {CryptoInit(m) : m \in Method}
    /\ enc = NewContext /\ dec = NewContext
    /\ sent = 0 /\ wire = << >> /\ arrived = 0 /\ got = << >>
    /\ buf = Alloc(Capacity)
    /\ known = FALSE /\ failed = FALSE
    /\ filter = {} /\ given = {}
    /\ packet = [text |-> << >>, whole |-> TRUE, again |-> FALSE, result |-> [err |-> OK, plain |-> << >>]]

-----------------------------------------------------------------------------
(* aead_decrypt *)

\* Mutant of ChunkDecrypt: the nonce moves although the payload is not there yet.
ChunkDecryptEager(c, nonce, cells) ==
    LET head == SubSeq(cells, 1, LenLen + c.tag)
        mlen == head[1].body[1]
        size == 2 * c.tag + LenLen + mlen
        text == SubSeq(cells, LenLen + c.tag + 1, size)
    IN  IF Len(cells) <= 2 * c.tag + LenLen THEN [err |-> NEED_MORE, nonce |-> nonce]
        ELSE IF ~Opens(c, nonce, head) \/ mlen = 0 THEN [err |-> ERROR, nonce |-> nonce]
        ELSE IF Len(cells) < size THEN [err |-> NEED_MORE, nonce |-> nonce + 1]
        ELSE IF ~Opens(c, nonce + 1, text) THEN [err |-> ERROR, nonce |-> nonce + 1]
        ELSE [err |-> OK, nonce |-> nonce + 2, plain |-> text[1].body, size |-> size]

\* aead_chunk_decrypt, on the cells that are left.
ChunkDecrypt(c, nonce, cells) ==
    LET head == SubSeq(cells, 1, LenLen + c.tag)
        mlen == head[1].body[1]
        size == 2 * c.tag + LenLen + mlen
        text == SubSeq(cells, LenLen + c.tag + 1, size)
    IN  IF Len(cells) <= 2 * c.tag + LenLen THEN [err |-> NEED_MORE, nonce |-> nonce]
        ELSE IF ~Opens(c, nonce, head) \/ mlen = 0 THEN [err |-> ERROR, nonce |-> nonce]
        ELSE IF Len(cells) < size THEN [err |-> NEED_MORE, nonce |-> nonce]
        ELSE IF ~Opens(c, nonce + 1, text) THEN [err |-> ERROR, nonce |-> nonce + 1]
        ELSE [err |-> OK, nonce |-> nonce + 2, plain |-> text[1].body, size |-> size]

\* One round of the loop over the chunks; it is over after an error, or when the
\* rest is not a whole chunk.
ChunkRound(c, s) ==
    LET chunk == s.ctx.chunk
        r     == ChunkDecrypt(c, s.ctx.nonce, SubSeq(chunk.data, chunk.idx + s.cidx + 1, chunk.idx + s.cidx + chunk.len))
        next  == [s.ctx EXCEPT !.nonce = r.nonce]
    IN  IF s.over \/ chunk.len = 0 THEN s
        ELSE IF r.err = OK
        THEN [err |-> OK, over |-> FALSE, ctx |-> [next EXCEPT !.chunk.len = @ - r.size],
              cidx |-> s.cidx + r.size, plain |-> s.plain \o r.plain]
        ELSE IF r.err = NEED_MORE /\ s.plain # << >>
        THEN [s EXCEPT !.over = TRUE, !.ctx = [next EXCEPT !.chunk.idx = @ + s.cidx]]
        ELSE [s EXCEPT !.over = TRUE, !.err = r.err, !.ctx = next]

\* The loop takes no more rounds than there are bytes.
Chunks(c, ctx) ==
    LET loop[k \in 0..ctx.chunk.len] ==
            IF k = 0 THEN [err |-> OK, over |-> FALSE, ctx |-> ctx, cidx |-> 0, plain |-> << >>]
            ELSE ChunkRound(c, loop[k - 1])
        last == loop[ctx.chunk.len]
    IN  IF last.ctx.chunk.len = 0 THEN [last EXCEPT !.ctx.chunk.idx = 0] ELSE last

\* What arrived goes behind what is left of a chunk; if nothing is left the two
\* buffers are swapped.
Gathered(ctx, b, cells) ==
    LET chunk == IF ctx.chunk.cap = 0 THEN Alloc(Capacity) ELSE ctx.chunk
        front == [Write(chunk, 0, InUse(chunk)) EXCEPT !.idx = 0]
    IN  IF chunk.len = 0
        THEN [chunk |-> [data |-> cells, idx |-> 0, len |-> Len(cells), cap |-> b.cap], buf |-> [b EXCEPT !.cap = chunk.cap]]
        ELSE [chunk |-> [Write(Realloc(front, front.len + Len(cells)), front.len, cells) EXCEPT !.len = @ + Len(cells)], buf |-> b]

\* The result: an error code, the context, the buffer, the text and the filter.
AeadDecrypt(c, ctx, b, cells) ==
    LET g     == Gathered(ctx, b, cells)
        room  == Realloc(g.buf, g.chunk.len)
        have  == [ctx EXCEPT !.chunk = g.chunk]
        keyed == IF ctx.init # 0 THEN have
                 ELSE [have EXCEPT !.init = 1, !.nonce = 0, !.chunk.idx = @ + c.salt, !.chunk.len = @ - c.salt]
        r     == Chunks(c, keyed)
        Result(err, x, plain, k) == [err |-> err, ctx |-> x, buf |-> room, plain |-> plain, known |-> k]
    IN  IF ctx.init = 0 /\ have.chunk.len <= c.salt THEN Result(NEED_MORE, have, << >>, known)
        ELSE IF ctx.init = 0 /\ known THEN Result(ERROR, have, << >>, known)
        ELSE IF r.err # OK THEN Result(r.err, r.ctx, << >>, known)
        ELSE IF r.ctx.init = 1 /\ known THEN Result(ERROR, r.ctx, << >>, known)
        ELSE Result(OK, [r.ctx EXCEPT !.init = 2], r.plain, TRUE)

-----------------------------------------------------------------------------
(* stream_decrypt: the chunk buffer gathers the IV *)

StreamDecrypt(c, ctx, b, cells) ==
    LET chunk == ctx.chunk
        left  == IF ctx.init = 0 THEN Min({c.salt - chunk.len, Len(cells)}) ELSE 0
        have  == IF ctx.init = 0 THEN [ctx EXCEPT !.chunk = [Write(chunk, chunk.len, SubSeq(cells, 1, left)) EXCEPT !.len = @ + left]]
                 ELSE ctx
        rest  == Drop(cells, left)
        ready == IF ctx.init = 0 THEN [have EXCEPT !.init = 1, !.nonce = 0] ELSE ctx
        pos   == ready.nonce
        pad   == pos % BlockSize
        plain == IF c.kind = "salsa" THEN Drop(PlainIc(c, [i \in 1..pad |-> Junk] \o rest, pos \div BlockSize), pad)
                 ELSE Plain(c, pos, rest)
        moved == [ready EXCEPT !.nonce = pos + Len(rest)]
        Result(err, x, p, k) == [err |-> err, ctx |-> x, buf |-> b, plain |-> p, known |-> k]
    IN  IF ctx.init = 0 /\ have.chunk.len < c.salt THEN Result(NEED_MORE, have, << >>, known)
        ELSE IF ctx.init = 0 /\ c.filtered /\ known THEN Result(ERROR, ready, << >>, known)
        ELSE IF rest = << >> THEN Result(NEED_MORE, ready, << >>, known)
        ELSE IF ready.init = 1 /\ c.filtered
        THEN IF known THEN Result(ERROR, moved, << >>, known) ELSE Result(OK, [moved EXCEPT !.init = 2], plain, TRUE)
        ELSE Result(OK, moved, plain, known)

-----------------------------------------------------------------------------
(* The connection *)

SendBytes(n) ==
    /\ carrier = "tcp"
    /\ sent + n <= MaxBytes
    /\ LET e == Encrypt(cipher, enc, Text(sent, n))
       IN  enc' = e.ctx /\ wire' = wire \o e.out
    /\ sent' = sent + n
    /\ UNCHANGED <<carrier, cipher, dec, arrived, buf, got, known, failed, packetVars>>

\* recv of n bytes and crypto->decrypt; CRYPTO_ERROR closes the connection.
Receive(n) ==
    /\ ~failed
    /\ arrived + n <= Len(wire)
    /\ LET cells == SubSeq(wire, arrived + 1, arrived + n)
           r == IF cipher.kind = "aead" THEN AeadDecrypt(cipher, dec, buf, cells) ELSE StreamDecrypt(cipher, dec, buf, cells)
       IN  /\ dec' = r.ctx /\ buf' = r.buf /\ known' = r.known
           /\ failed' = (r.err = ERROR)
           /\ got' = got \o r.plain
    /\ arrived' = arrived + n
    /\ UNCHANGED <<carrier, cipher, enc, sent, wire, packetVars>>

\* A byte is not what was sent.  (Under another salt nothing can be read at
\* all, see AeadReplay.)
Corrupt ==
    /\ arrived \in cipher.salt..(Len(wire) - 1) /\ wire[arrived + 1] # Junk
    /\ wire' = [wire EXCEPT ![arrived + 1] = Junk]
    /\ UNCHANGED <<carrier, cipher, enc, dec, sent, arrived, buf, got, known, failed, packetVars>>

\* Another connection that began with the same salt gets ahead.
Overtaken ==
    /\ carrier = "tcp"
    /\ cipher.filtered /\ ~known /\ dec.init < 2
    /\ known' = TRUE
    /\ UNCHANGED <<carrier, cipher, enc, dec, sent, wire, arrived, buf, got, failed, packetVars>>

-----------------------------------------------------------------------------
(* Packets: number n is n bytes long and has a nonce of its own, n, which is   *)
(* the same for all if the method has none.                                    *)

NonceOf(c, n) == IF c.salt = 0 THEN 0 ELSE n

\* aead_encrypt_all, stream_encrypt_all: a context of its own.
EncryptAll(c, p) == SaltCells(c) \o IF c.kind = "aead" THEN Box(c, 0, p) ELSE KeyStream(c, 0, p)

Refused == [err |-> ERROR, plain |-> << >>]
Taken(plain) == [err |-> OK, plain |-> plain]

\* Mutant of DecryptAll: the tag is cut off unseen.
DecryptAllUnseen(c, cells, nonce) ==
    IF Len(cells) <= c.salt + c.tag \/ nonce \in filter THEN Refused
    ELSE IF c.kind # "aead" THEN Taken(Plain(c, 0, Drop(cells, c.salt)))
    ELSE Taken(SubSeq(cells[Len(cells)].body, 1, Len(cells) - c.salt - c.tag))

\* aead_decrypt_all, stream_decrypt_all: the filter is asked for every method,
\* also for one without a nonce.
DecryptAll(c, cells, nonce) ==
    IF Len(cells) <= c.salt + c.tag \/ nonce \in filter THEN Refused
    ELSE IF c.kind # "aead" THEN Taken(Plain(c, 0, Drop(cells, c.salt)))
    ELSE IF Opens(c, 0, Drop(cells, c.salt)) THEN Taken(cells[Len(cells)].body)
    ELSE Refused

\* Packet n, of which the end may be cut off, and which may come again.  What was
\* decrypted is added to the filter.
Datagram(n, cut) ==
    LET cells == EncryptAll(cipher, Text(0, n))
        nonce == NonceOf(cipher, n)
        r     == DecryptAll(cipher, SubSeq(cells, 1, Len(cells) - cut), nonce)
    IN  /\ carrier = "udp"
        /\ packet' = [text |-> Text(0, n), whole |-> cut = 0, again |-> n \in given, result |-> r]
        /\ filter' = IF r.err = OK THEN filter \cup {nonce} ELSE filter
        /\ given' = IF r.err = OK THEN given \cup {n} ELSE given
        /\ UNCHANGED <<carrier, cipher, streamVars>>

\* The receiver encrypts something of its own, as ss-server does: the nonce goes
\* into the same filter (MODULE_REMOTE).
Answers ==
    /\ carrier = "udp"
    /\ filter' = filter \cup {NonceOf(cipher, MaxPacket + 1)}
    /\ UNCHANGED <<carrier, cipher, streamVars, given, packet>>

FramingNext ==
    \/ \E n \in 1..Capacity : SendBytes(n) \/ Receive(n)
    \/ Corrupt
    \/ Overtaken
    \/ \E n \in 1..MaxPacket : \E cut \in 0..n : Datagram(n, cut)
    \/ Answers

FramingSpec == FramingInit /\ [][FramingNext]_framingVars

-----------------------------------------------------------------------------
(* Properties *)

Corrupted == \E i \in DOMAIN wire : wire[i] = Junk
IsPrefixOf(s, t) == Len(s) <= Len(t) /\ s = SubSeq(t, 1, Len(s))

\* Types; a context has no chunk bytes outside of its buffer.
FramingTypeOK ==
    /\ cipher \in {StreamTable[i] : i \in DOMAIN StreamTable} \cup {AeadTable[i] : i \in DOMAIN AeadTable}
    /\ enc.init \in 0..1 /\ dec.init \in 0..2
    /\ sent \in 0..MaxBytes /\ arrived \in 0..Len(wire)
    /\ failed \in BOOLEAN /\ known \in BOOLEAN
    /\ dec.chunk.idx + dec.chunk.len <= Len(dec.chunk.data)

\* The receiver is given what was sent, in order and without loss or repetition,
\* however TCP cuts the ciphertext; with an AEAD cipher also if somebody else
\* wrote to the connection.
InOrder == cipher.kind = "aead" \/ ~Corrupted => IsPrefixOf(got, Text(0, sent))

\* Nothing is held back: when all that was sent has arrived, the receiver has it
\* all, and the connection fails only for a byte or a salt that is not genuine.
AllGiven ==
    /\ failed => Corrupted \/ known
    /\ arrived = Len(wire) /\ ~failed /\ ~Corrupted => Len(got) = sent

\* A nonce, and a position of the key stream, is used once per salt, by the
\* sender and over all its sends, as long as these are not longer than the key
\* stream: the counter of blocks of a libsodium cipher is then back at zero.
NonceOnce ==
    (cipher.kind = "salsa" => sent <= Period(cipher)) =>
    \A i, j \in DOMAIN wire :
        i # j /\ wire[i] # Junk /\ wire[i].kind # "salt" =>
            <<wire[i].kind, wire[i].nonce, wire[i].at>> # <<wire[j].kind, wire[j].nonce, wire[j].at>>

\* The buffers are swapped and grown but the one that recv writes to always has
\* room for a full read, and a chunk buffer holds what is in use.
BuffersFit ==
    /\ buf.cap >= Capacity
    /\ cipher.kind = "aead" => dec.chunk.idx + dec.chunk.len <= dec.chunk.cap

\* A whole packet gives its text, unless something of it was given before, with
\* every method that has a nonce; what was given before is refused with every
\* method.  A packet whose end is missing is refused by an AEAD cipher, and gives
\* no more than a part of its text otherwise.
PacketsWhole ==
    /\ packet.whole /\ ~packet.again /\ cipher.salt # 0 => packet.result = Taken(packet.text)
    /\ packet.again => packet.result.err = ERROR
    /\ ~packet.whole /\ cipher.kind = "aead" => packet.result.err = ERROR
    /\ IsPrefixOf(packet.result.plain, packet.text)

\* The keys have the length of the cipher and are made of the digests in order,
\* also when that length is no multiple of a digest; a length beyond the last
\* digest is refused.
KeysExact ==
    \A size \in 1..(cipher.key + 1) :
        /\ DeriveKey(cipher.key, size) = FirstBytes(cipher.key, size)
        /\ HkdfExpand(cipher.key, size) = IF cipher.key <= MaxBlocks * size THEN FirstBytes(cipher.key, size) ELSE << >>

\* The stream as a whole: in order, complete, and within its buffers.
StreamExact == FramingTypeOK /\ InOrder /\ AllGiven /\ BuffersFit
=============================================================================
