--------------------------- MODULE KeyDerivation ---------------------------
(***************************************************************************)
(* The choice of a cipher by its name and the derivation of keys           *)
(* (crypto.c).  Byte i of the n-th digest is <<n, i>>.                     *)
(***************************************************************************)
EXTENDS Integers, Sequences, FiniteSetsExt

CONSTANTS
    StreamTable,   \* supported_stream_ciphers, with their sizes; the first is "table"
    AeadTable,     \* supported_aead_ciphers
    MaxBlocks      \* how many digests HKDF may use: 255

\* A stream cipher has no tag; a libsodium one has a counter of blocks: 2^32 of them
\* for chacha20-ietf, and as many as 2^64 bytes make for the others.
ASSUME TablesAssumption ==
    /\ \A i \in DOMAIN StreamTable :
            /\ StreamTable[i].kind \in {"evp", "salsa"} /\ StreamTable[i].tag = 0
            /\ StreamTable[i].salt \in Nat /\ StreamTable[i].key \in Nat /\ StreamTable[i].filtered \in BOOLEAN
            /\ StreamTable[i].blocks \in Nat \ {0}
    /\ \A i \in DOMAIN AeadTable :
            /\ AeadTable[i].kind = "aead" /\ AeadTable[i].tag \in Nat \ {0}
            /\ AeadTable[i].salt \in Nat /\ AeadTable[i].key \in Nat /\ AeadTable[i].filtered \in BOOLEAN
    /\ MaxBlocks \in Nat

Find(table, method) == {i \in DOMAIN table : table[i].name = method}

\* crypto_init, stream_init and aead_init: what no table has, and "table" itself,
\* is refused.
CryptoInit(method) ==
    IF Find(StreamTable, method) # {}
    THEN {StreamTable[i] : i \in Find(StreamTable, method) \ {1}}
    ELSE {AeadTable[i] : i \in Find(AeadTable, method)}

\* crypto_derive_key: digests, each of the one before and the password, until
\* the key is full (from then on nothing more is copied).
DeriveKey(keyLen, mds) ==
    LET key[addmd \in 0..keyLen] ==
            IF addmd = 0 THEN << >>
            ELSE LET j == Len(key[addmd - 1])
                 IN  key[addmd - 1] \o [i \in 1..Min({mds, keyLen - j}) |-> <<addmd, i>>]
    IN  key[keyLen]

Blocks(okmLen, hashLen) == okmLen \div hashLen + IF okmLen % hashLen # 0 THEN 1 ELSE 0

\* Mutant of HkdfExpand: the last digest is copied in full.
HkdfExpandFull(okmLen, hashLen) ==
    LET N == Blocks(okmLen, hashLen)
    IN  IF N > MaxBlocks THEN << >> ELSE [j \in 1..(N * hashLen) |-> <<(j - 1) \div hashLen + 1, ((j - 1) % hashLen) + 1>>]

\* crypto_hkdf_expand: copying the N digests one after the other to okm.
HkdfExpand(okmLen, hashLen) ==
    LET N == Blocks(okmLen, hashLen)
        okm[i \in 0..N] ==
            IF i = 0 THEN << >>
            ELSE okm[i - 1] \o [k \in 1..(IF i # N THEN hashLen ELSE okmLen - (i - 1) * hashLen) |-> <<i, k>>]
    IN  IF N > MaxBlocks THEN << >> ELSE okm[N]

\* What RFC 5869 and EVP_BytesToKey ask for: the first bytes of the digests put
\* one after the other.
FirstBytes(n, size) == [j \in 1..n |-> <<(j - 1) \div size + 1, ((j - 1) % size) + 1>>]
=============================================================================
