------------------------------ MODULE AppendMap ------------------------------
(***************************************************************************)
(* ordered-segment-map's OrderedAppendMap (sparse keys in insertion order:  *)
(* a hash table of ordinals over a DenseOrderedMap of entries), and the     *)
(* readers of the dense map that walk several segments: iter, iter_from     *)
(* and binary_search_by.                                                    *)
(***************************************************************************)
EXTENDS SegmentMap, SequencesExt

CONSTANTS
    SparseKeys, SparseValues,
    HashOf      \* [SparseKeys -> Nat]; keys may share a hash

ASSUME AppendMapAssumption == HashOf \in [SparseKeys -> Nat]

VARIABLE slots  \* the hash table: set of [hash, ordinal]

appendMapVars == <<segmentVars, slots>>

Entry(k, v) == [key |-> k, value |-> v]
Entries == {Entry(k, v) : k \in SparseKeys, v \in SparseValues}

(* lookup.find: the slots of the hash whose entry has the very key. *)
SlotsOf(k) ==
    {s \in slots : s.hash = HashOf[k] /\ Found(s.ordinal) /\ Get(s.ordinal).key = k}

AppendMapInit == SegmentInit /\ firstKey = 0 /\ slots = {}

(* Mutant: a replaced key is moved to the end of the order. *)
InsertAnew(k, v) ==
    /\ Push(nextKey, Entry(k, v))
    /\ slots' = slots \union {[hash |-> HashOf[k], ordinal |-> nextKey]}

(* insert_prehashed; an ordinal that cannot be pushed is unreachable in the *)
(* code, and the model's bound.                                             *)
Insert(k, v) ==
    IF SlotsOf(k) # {}
    THEN SetValue((CHOOSE s \in SlotsOf(k) : TRUE).ordinal, Entry(k, v)) /\ UNCHANGED slots
    ELSE /\ Push(nextKey, Entry(k, v))
         /\ slots' = slots \union {[hash |-> HashOf[k], ordinal |-> nextKey]}

(* pop_front; truncate_front repeats it. *)
PopOldest ==
    /\ PopFront
    /\ slots' = slots \ {[hash |-> HashOf[Get(firstKey).key], ordinal |-> firstKey]}

AppendMapNext ==
    \/ \E k \in SparseKeys, v \in SparseValues : Insert(k, v)
    \/ PopOldest

AppendMapSpec == AppendMapInit /\ [][AppendMapNext]_appendMapVars

-----------------------------------------------------------------------------
(* iter and iter_from: key and value pairs segment by segment. *)
Pairs(segment) ==
    [i \in 1..Len(segment.values) |-> <<segment.first + i - 1, segment.values[i]>>]

IterFrom(key) ==
    LET start == Clamp(key)
        rest  == IF start = nextKey THEN <<>>
                 ELSE SubSeq(segments, SegmentIndex(start), Len(segments))
    IN  IF rest = <<>> THEN <<>>
        ELSE SubSeq(Pairs(rest[1]), 1 + start - rest[1].first, Len(rest[1].values))
                \o FlattenSeq([i \in 1..(Len(rest) - 1) |-> Pairs(rest[i + 1])])

(* binary_search_by with a comparison that finds the least key not below k. *)
BinarySearch(key) ==
    LET search[left \in 0..len, right \in 0..len] ==
            IF left >= right THEN firstKey + left
            ELSE LET middle == left + (right - left) \div 2
                 IN  IF firstKey + middle < key THEN search[middle + 1, right]
                     ELSE search[left, middle]
    IN  search[0, len]

(* Every walk over the dense map agrees with its lookups: iter_from starts  *)
(* at the clamped key, misses no entry and crosses segments in key order,   *)
(* and the binary search lands on the clamped key.                          *)
WalksAgree ==
    \A key \in 0..MaxKey :
        /\ IterFrom(key) = [i \in 1..(nextKey - Clamp(key)) |->
                               <<Clamp(key) + i - 1, Get(Clamp(key) + i - 1)>>]
        /\ BinarySearch(key) = Clamp(key)

(* The sparse map's table and order agree: every retained entry is found    *)
(* under its key and no other is, whatever keys share a hash and whatever   *)
(* was popped, and a key appears once in the order of insertion.            *)
SparseExact ==
    /\ Cardinality(slots) = len
    /\ \A k \in SparseKeys :
          LET held == {o \in firstKey..(nextKey - 1) : Get(o).key = k}
          IN  /\ Cardinality(held) <= 1
              /\ {s.ordinal : s \in SlotsOf(k)} = held

=============================================================================
