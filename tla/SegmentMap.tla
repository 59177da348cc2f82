----------------------------- MODULE SegmentMap -----------------------------
(***************************************************************************)
(* ordered-segment-map's DenseOrderedMap, the index under every partition   *)
(* of the coordinator: dense u128 keys in segments cut at multiples of the  *)
(* segment capacity, looked up by arithmetic on the key alone.              *)
(*                                                                          *)
(* truncate_before is a loop over segments; its iterations are steps here,  *)
(* and no other operation runs between them.                                *)
(***************************************************************************)
EXTENDS Naturals, Sequences

CONSTANTS
    Values,     \* what is stored
    Capacity,   \* SEGMENT_CAPACITY
    MaxKey,     \* u128::MAX
    MaxLen,     \* usize::MAX
    NoValue     \* None

ASSUME SegmentAssumption ==
    /\ Capacity \in Nat \ {0} /\ MaxKey \in Nat /\ MaxLen \in Nat
    /\ NoValue \notin Values

VARIABLES
    firstKey, nextKey, len,
    segments,   \* sequence of [first, values]
    target      \* of the truncation under way, or NoValue

segmentVars == <<firstKey, nextKey, len, segments, target>>

Block(key) == key \div Capacity
EndKey(segment) == segment.first + Len(segment.values)
SegmentIndex(key) == 1 + Block(key) - Block(segments[1].first)

(* position: the segment and the place in it of a retained key. *)
Found(key) ==
    /\ key >= firstKey /\ key < nextKey
    /\ segments # <<>>
    /\ SegmentIndex(key) \in 1..Len(segments)
    /\ key >= segments[SegmentIndex(key)].first
    /\ key < EndKey(segments[SegmentIndex(key)])

Lookup(key) ==
    LET segment == segments[SegmentIndex(key)]
    IN  segment.values[1 + key - segment.first]

Get(key) == IF Found(key) THEN Lookup(key) ELSE NoValue

SegmentInit ==
    /\ firstKey \in 0..MaxKey /\ nextKey = firstKey
    /\ len = 0 /\ segments = <<>> /\ target = NoValue

-----------------------------------------------------------------------------
(* push *)
PushRefused(key) == key # nextKey \/ key + 1 > MaxKey \/ len + 1 > MaxLen

(* Mutant: a segment is opened when the last one is full. *)
SameSegmentByLength(segment, key) == Len(segment.values) < Capacity

SameSegment(segment, key) == Block(segment.first) = Block(key)

Push(key, v) ==
    /\ target = NoValue /\ ~PushRefused(key)
    /\ segments' = IF segments # <<>> /\ SameSegment(segments[Len(segments)], key)
                   THEN [segments EXCEPT ![Len(segments)] =
                            [first |-> segments[Len(segments)].first,
                             values |-> Append(segments[Len(segments)].values, v)]]
                   ELSE Append(segments, [first |-> key, values |-> <<v>>])
    /\ nextKey' = key + 1
    /\ len' = len + 1
    /\ UNCHANGED <<firstKey, target>>

(* get_mut, and the assignment through it *)
SetValue(key, v) ==
    /\ target = NoValue /\ Found(key)
    /\ segments' = [segments EXCEPT ![SegmentIndex(key)] =
                       [first |-> segments[SegmentIndex(key)].first,
                        values |-> [segments[SegmentIndex(key)].values EXCEPT
                                       ![1 + key - segments[SegmentIndex(key)].first] = v]]]
    /\ UNCHANGED <<firstKey, nextKey, len, target>>

(* The front segment without its first n values. *)
Drained(n) ==
    [first |-> segments[1].first + n,
     values |-> SubSeq(segments[1].values, n + 1, Len(segments[1].values))]

(* Mutant: the front segment keeps its first key. *)
PopFrontUnmoved ==
    /\ target = NoValue /\ segments # <<>>
    /\ segments' = IF Len(segments[1].values) = 1 THEN Tail(segments)
                   ELSE [segments EXCEPT ![1] = [first |-> segments[1].first,
                                                 values |-> Tail(segments[1].values)]]
    /\ len' = len - 1
    /\ firstKey' = IF len - 1 = 0 THEN nextKey ELSE firstKey + 1
    /\ UNCHANGED <<nextKey, target>>

(* pop_front *)
PopFront ==
    /\ target = NoValue /\ segments # <<>>
    /\ segments' = IF Len(segments[1].values) = 1 THEN Tail(segments)
                   ELSE [segments EXCEPT ![1] = Drained(1)]
    /\ len' = len - 1
    /\ firstKey' = IF len - 1 = 0 THEN nextKey ELSE firstKey + 1
    /\ UNCHANGED <<nextKey, target>>

-----------------------------------------------------------------------------
(* truncate_before *)
Clamp(key) == IF key < firstKey THEN firstKey ELSE IF key > nextKey THEN nextKey ELSE key

TruncateBegin(key) ==
    /\ target = NoValue
    /\ target' = Clamp(key)
    /\ UNCHANGED <<firstKey, nextKey, len, segments>>

WholeSegmentBelow == segments # <<>> /\ EndKey(segments[1]) <= target

TruncateSegment ==
    /\ target # NoValue /\ WholeSegmentBelow
    /\ segments' = Tail(segments)
    /\ len' = len - Len(segments[1].values)
    /\ firstKey' = EndKey(segments[1])
    /\ UNCHANGED <<nextKey, target>>

TruncatePartial ==
    /\ target # NoValue /\ ~WholeSegmentBelow
    /\ IF segments # <<>> /\ segments[1].first < target
       THEN /\ segments' = [segments EXCEPT ![1] = Drained(target - segments[1].first)]
            /\ len' = len - (target - segments[1].first)
            /\ firstKey' = target
       ELSE /\ firstKey' = IF len = 0 THEN nextKey ELSE firstKey
            /\ UNCHANGED <<segments, len>>
    /\ target' = NoValue
    /\ UNCHANGED nextKey

SegmentNext ==
    \/ \E v \in Values : Push(nextKey, v)
    \/ \E key \in 0..MaxKey, v \in Values : SetValue(key, v)
    \/ PopFront
    \/ \E key \in 0..MaxKey : TruncateBegin(key)
    \/ TruncateSegment \/ TruncatePartial

SegmentSpec == SegmentInit /\ [][SegmentNext]_segmentVars

-----------------------------------------------------------------------------
Contents == [k \in firstKey..(nextKey - 1) |-> Get(k)]

Promise == INSTANCE OrderedMap WITH contents <- Contents, end <- nextKey

(* The segmented map is an ordered map: what a lookup by arithmetic on the  *)
(* key answers is what was last stored under it, for every retained key,    *)
(* however entries were pushed, replaced, popped and truncated.             *)
MapImplemented == Promise!OMSpec

(* The segments of the map hold exactly the keys from firstKey up to        *)
(* nextKey, without a gap, each segment within one block of Capacity keys   *)
(* and no block skipped: what makes the arithmetic of position right.       *)
SegmentsDense ==
    /\ firstKey \in Nat /\ nextKey \in Nat /\ firstKey <= nextKey /\ nextKey <= MaxKey
    /\ len = nextKey - firstKey
    /\ segments = <<>> <=> firstKey = nextKey
    /\ segments # <<>> =>
          /\ segments[1].first = firstKey
          /\ EndKey(segments[Len(segments)]) = nextKey
    /\ \A i \in 1..Len(segments) :
          /\ segments[i].values # <<>>
          /\ Block(segments[i].first) = Block(segments[1].first) + i - 1
          /\ Block(EndKey(segments[i]) - 1) = Block(segments[i].first)
    /\ \A i \in 1..(Len(segments) - 1) : EndKey(segments[i]) = segments[i + 1].first

=============================================================================
