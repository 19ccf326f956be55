----------------------------- MODULE MCFraming -----------------------------
(* Framing with a cipher of each family: short salts, tags, keys and blocks, and *)
(* a counter of blocks that comes to its end (chacha20-ietf).                    *)
EXTENDS Framing

Entry(name, kind, salt, tag, filtered, key, blocks) ==
    [name |-> name, kind |-> kind, salt |-> salt, tag |-> tag, filtered |-> filtered, key |-> key, blocks |-> blocks]

MCStreamTable ==
    <<Entry("table", "evp", 0, 0, FALSE, 0, 1), Entry("rc4", "evp", 0, 0, FALSE, 2, 1),
      Entry("aes-ctr", "evp", 2, 0, TRUE, 3, 1), Entry("chacha20", "salsa", 1, 0, TRUE, 4, 8),
      Entry("chacha20-ietf", "salsa", 1, 0, TRUE, 4, 2)>>
MCAeadTable == <<Entry("aes-gcm", "aead", 2, 1, TRUE, 5, 1)>>
MCMethod == {"table", "rc4", "aes-ctr", "chacha20", "chacha20-ietf", "aes-gcm", "none"}
=============================================================================
