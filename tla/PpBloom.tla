------------------------------- MODULE PpBloom -------------------------------
(***************************************************************************)
(* The "ping-pong" Bloom filter of ppbloom.c: two filters of `entries'     *)
(* slots each.  Salts go to the current one; when it has taken `entries'   *)
(* additions the other is emptied and becomes current.  The bits of a      *)
(* filter are abstracted to the set of salts added to it, and its false    *)
(* positives to a free choice: a check may report any salt as present.     *)
(***************************************************************************)
EXTENDS Integers, FiniteSets

CONSTANTS
    Salt,      \* salts and nonces handed to the filter
    Entries    \* entries: half of the n that ppbloom_init is given

ASSUME EntriesAssumption == Entries \in Nat \ {0}

PING == 0
PONG == 1
Slot == {PING, PONG}

Other(k) == IF k = PING THEN PONG ELSE PING

VARIABLES
    bloom,     \* ppbloom: the salts each filter has taken since its reset
    count,     \* bloom_count
    current,   \* current
    age        \* ghost: additions since a salt was last added, or Forever

bloomVars == <<bloom, count, current, age>>

Forever == 2 * Entries

BloomInit ==
    /\ bloom = [k \in Slot |-> {}]
    /\ count = [k \in Slot |-> 0]
    /\ current = PING
    /\ age = [s \in Salt |-> Forever]

\* What ppbloom_check may answer: never "absent" for a salt that is there.
CheckAnswers(s) ==
    IF \E k \in Slot : s \in bloom[k] THEN {TRUE} ELSE BOOLEAN

\* Mutant of Add: the filter that becomes current is not emptied but the one
\* that just filled up is.
AddResetsFull(s) ==
    LET full == count[current] + 1 >= Entries
    IN  /\ current' = IF full THEN Other(current) ELSE current
        /\ count' = [count EXCEPT ![current] = IF full THEN 0 ELSE @ + 1]
        /\ bloom' = IF full THEN [bloom EXCEPT ![current] = {}]
                    ELSE [bloom EXCEPT ![current] = @ \cup {s}]
        /\ age' = [t \in Salt |-> IF t = s THEN 0
                                  ELSE IF age[t] < Forever THEN age[t] + 1 ELSE Forever]

\* ppbloom_add: the addition counts even if the salt was there already.
Add(s) ==
    LET full == count[current] + 1 >= Entries
    IN  /\ current' = IF full THEN Other(current) ELSE current
        /\ count' = [count EXCEPT ![current] = IF full THEN 0 ELSE @ + 1]
        /\ bloom' = [[bloom EXCEPT ![current] = @ \cup {s}]
                        EXCEPT ![Other(current)] = IF full THEN {} ELSE @]
        /\ age' = [t \in Salt |-> IF t = s THEN 0
                                  ELSE IF age[t] < Forever THEN age[t] + 1 ELSE Forever]

-----------------------------------------------------------------------------
(* Properties *)

BloomType ==
    /\ bloom \in [Slot -> SUBSET Salt]
    /\ count \in [Slot -> 0..(Entries - 1)]
    /\ current \in Slot
    /\ age \in [Salt -> 0..Forever]

\* No filter ever takes more salts than the `entries' it was sized for, which
\* is what its error rate is computed from.
WithinCapacity == \A k \in Slot : Cardinality(bloom[k]) <= Entries

\* A salt is remembered for at least the last `entries' additions: whatever
\* the filters switched in between, ppbloom_check still reports it.
Remembers == \A s \in Salt : age[s] < Entries => CheckAnswers(s) = {TRUE}

\* Why: a salt added since the last switch is in the current filter, and one
\* added up to `entries' additions before that is in one of the two.
WindowInv ==
    \A s \in Salt :
        /\ age[s] < count[current] => s \in bloom[current]
        /\ age[s] < count[current] + Entries => s \in bloom[PING] \cup bloom[PONG]
=============================================================================
