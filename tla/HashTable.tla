------------------------------ MODULE HashTable ------------------------------
(***************************************************************************)
(* cork_hash_table with strings as keys (libcork, ds/hash-table.c), as     *)
(* ss-manager uses it.  An entry is [text, key, value]: key and value are  *)
(* the memory the caller passed, text is the string at key.  An entry is   *)
(* in a bin and in the list of insertions.                                 *)
(***************************************************************************)
EXTENDS Integers, Sequences, FiniteSets, SequencesExt

CONSTANTS
    Hash(_),        \* the hash of a string
    DefaultSize,    \* CORK_HASH_TABLE_DEFAULT_INITIAL_SIZE
    MaxDensity      \* CORK_HASH_TABLE_MAX_DENSITY

ASSUME HashTableAssumption == DefaultSize \in Nat \ {0} /\ MaxDensity \in Nat

\* A power of two that is large enough.
NewSize(desired) == CHOOSE r \in {2^i : i \in 0..desired} : r >= desired /\ r < 2 * desired
BinCount(t) == Cardinality(DOMAIN t.bins)
BinIndex(t, text) == Hash(text) % BinCount(t)

AllocateBins(t, desired) == [t EXCEPT !.bins = [i \in 0..NewSize(desired) - 1 |-> << >>]]
NewTable(size) ==
    AllocateBins([bins |-> << >>, order |-> << >>, count |-> 0], IF size < DefaultSize THEN DefaultSize ELSE size)

AddTo(t, e) == [t EXCEPT !.bins[BinIndex(t, e.text)] = Append(@, e)]

\* Mutant of EnsureSize: the entries stay in the bins they are in.
EnsureSizeInPlace(t, desired) ==
    IF desired <= BinCount(t) THEN t
    ELSE [AllocateBins(t, desired) EXCEPT !.bins = [i \in DOMAIN @ |-> IF i \in DOMAIN t.bins THEN t.bins[i] ELSE << >>]]

\* The bins are emptied from the first to the last into the new ones.
EnsureSize(t, desired) ==
    IF desired <= BinCount(t) THEN t
    ELSE FoldLeft(AddTo, AllocateBins(t, desired), FlattenSeq([i \in 1..BinCount(t) |-> t.bins[i - 1]]))

Rehash(t) == EnsureSize(t, BinCount(t) + 1)

Found(t, text) == SelectSeq(t.bins[BinIndex(t, text)], LAMBDA e : e.text = text)
Has(t, text) == Found(t, text) # << >>
Get(t, text) == Head(Found(t, text))

Overwrite(seq, old, new) == [i \in DOMAIN seq |-> IF seq[i] = old THEN new ELSE seq[i]]

\* An entry that is there keeps its place, with the new key and value.
Put(t, text, key, value) ==
    LET new == [text |-> text, key |-> key, value |-> value]
        old == Get(t, text)
        room == IF t.count \div BinCount(t) > MaxDensity THEN Rehash(t) ELSE t
    IN  IF Has(t, text)
        THEN [t EXCEPT !.bins[BinIndex(t, text)] = Overwrite(@, old, new), !.order = Overwrite(@, old, new)]
        ELSE [AddTo(room, new) EXCEPT !.order = Append(@, new), !.count = @ + 1]

Delete(t, text) ==
    LET others(e) == e # Get(t, text)
    IN  IF ~Has(t, text) THEN t
        ELSE [t EXCEPT !.bins[BinIndex(t, text)] = SelectSeq(@, others),
                       !.order = SelectSeq(@, others),
                       !.count = @ - 1]

\* An iterator goes through the insertions.
Iterate(t) == t.order

-----------------------------------------------------------------------------
\* Every entry is in the list of insertions and in the bin of its text, once,
\* and can be looked up; there are as many as are counted.
Exact(t) ==
    /\ t.count = Len(t.order)
    /\ \A i, j \in 1..Len(t.order) : t.order[i].text = t.order[j].text => i = j
    /\ \A i \in DOMAIN t.bins :
          t.bins[i] = SelectSeq(t.bins[i], LAMBDA e : BinIndex(t, e.text) = i /\ e \in Range(t.order))
    /\ \A e \in Range(t.order) : Found(t, e.text) = <<e>>
=============================================================================
