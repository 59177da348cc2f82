-------------------------- MODULE SegmentMapProofs --------------------------
(***************************************************************************)
(* SegmentMap implements OrderedMap, for every capacity, key space and set *)
(* of values.  The inductive invariant is MapInv: types and SegmentsDense. *)
(* Its use is Position: in a dense sequence of segments the arithmetic on  *)
(* a retained key lands in the one segment that holds it.                  *)
(***************************************************************************)
EXTENDS SegmentMap, TLAPS

Segment == [first : Nat, values : Seq(Values)]

MapTypes ==
    /\ firstKey \in Nat /\ nextKey \in Nat /\ len \in Nat
    /\ segments \in Seq(Segment)
    /\ target \in Nat \union {NoValue}

(* A truncation under way aims at or above the first key, within the map. *)
TargetInv == target # NoValue => (firstKey <= target /\ target <= nextKey)

MapInv == MapTypes /\ SegmentsDense /\ TargetInv

-----------------------------------------------------------------------------
(* Blocks of keys: they grow with the key, one at a time. *)
LEMMA BlockNat == ASSUME NEW k \in Nat PROVE Block(k) \in Nat
  BY SegmentAssumption DEF Block

LEMMA BlockMonotone ==
    ASSUME NEW j \in Nat, NEW k \in Nat, j <= k PROVE Block(j) <= Block(k)
  BY SegmentAssumption DEF Block

LEMMA BlockStep ==
    ASSUME NEW k \in Nat PROVE Block(k + 1) = Block(k) \/ Block(k + 1) = Block(k) + 1
  BY SegmentAssumption DEF Block

(* position: a retained key is found where the arithmetic looks for it. *)
LEMMA Position ==
    ASSUME MapInv, NEW key \in firstKey..(nextKey - 1)
    PROVE  Found(key)
<1> DEFINE i == SegmentIndex(key)
<1>1. key \in Nat /\ firstKey \in Nat /\ nextKey \in Nat
      /\ firstKey <= key /\ key < nextKey /\ segments # <<>>
      /\ segments \in Seq(Segment)
  BY DEF MapInv, MapTypes, SegmentsDense
<1>2. Len(segments) \in Nat \ {0} /\ segments[1] \in Segment /\ segments[Len(segments)] \in Segment
  BY <1>1
<1>3. segments[1].first = firstKey /\ EndKey(segments[Len(segments)]) = nextKey
  BY <1>1 DEF MapInv, SegmentsDense
<1>4. Block(segments[Len(segments)].first) = Block(firstKey) + Len(segments) - 1
      /\ Block(nextKey - 1) = Block(segments[Len(segments)].first)
  BY <1>1, <1>2, <1>3 DEF MapInv, SegmentsDense
<1>5. Block(firstKey) <= Block(key) /\ Block(key) <= Block(nextKey - 1)
      /\ Block(firstKey) \in Nat /\ Block(key) \in Nat /\ Block(nextKey - 1) \in Nat
  <2>1. nextKey - 1 \in Nat /\ key <= nextKey - 1
    BY <1>1
  <2> QED BY <1>1, <2>1, BlockMonotone, BlockNat
<1>6. i \in 1..Len(segments) /\ i = 1 + Block(key) - Block(firstKey)
  BY SMTT(100), <1>2, <1>3, <1>4, <1>5 DEF SegmentIndex
<1> HIDE DEF i
<1>7. segments[i] \in Segment /\ EndKey(segments[i]) \in Nat \ {0} /\ segments[i].first \in Nat
      /\ segments[i].first < EndKey(segments[i])
  <2>1. segments[i] \in Segment /\ segments[i].values # <<>>
    BY <1>1, <1>6 DEF MapInv, SegmentsDense
  <2> QED BY <2>1 DEF Segment, EndKey
<1>8. Block(segments[i].first) = Block(key)
  <2>1. Block(segments[i].first) = Block(firstKey) + i - 1
    BY <1>6 DEF MapInv, SegmentsDense
  <2> QED BY SMTT(100), <2>1, <1>5, <1>6
<1>9. key >= segments[i].first
  <2> SUFFICES ASSUME key < segments[i].first PROVE FALSE
    BY <1>1, <1>7
  <2>1. i \in 2..Len(segments)
    BY <1>1, <1>3, <1>6, <1>2
  <2>2. i - 1 \in 1..(Len(segments) - 1) /\ i - 1 \in 1..Len(segments) /\ i - 1 + 1 = i
    BY <2>1, <1>2
  <2>3. EndKey(segments[i - 1]) = segments[i].first
    BY <2>2 DEF MapInv, SegmentsDense
  <2>4. Block(segments[i].first - 1) = Block(firstKey) + (i - 1) - 1
    BY <2>2, <2>3, <1>3 DEF MapInv, SegmentsDense
  <2>5. Block(key) <= Block(segments[i].first - 1)
    <3>1. segments[i].first - 1 \in Nat /\ key <= segments[i].first - 1
      BY <1>1, <1>7
    <3> QED BY <1>1, <3>1, BlockMonotone
  <2> QED BY SMTT(100), <2>4, <2>5, <1>5, <1>6
<1>10. key < EndKey(segments[i])
  <2> SUFFICES ASSUME key >= EndKey(segments[i]) PROVE FALSE
    BY <1>1, <1>7
  <2>1. i # Len(segments)
    BY <1>1, <1>3
  <2>2. i \in 1..(Len(segments) - 1) /\ i + 1 \in 1..Len(segments)
    BY <2>1, <1>6, <1>2
  <2>3. EndKey(segments[i]) = segments[i + 1].first
    BY <2>2 DEF MapInv, SegmentsDense
  <2>4. Block(segments[i + 1].first) = Block(firstKey) + (i + 1) - 1
    BY <2>2, <1>3 DEF MapInv, SegmentsDense
  <2>5. Block(EndKey(segments[i])) <= Block(key)
    BY <1>1, <1>7, BlockMonotone
  <2> QED BY SMTT(100), <2>3, <2>4, <2>5, <1>5, <1>6
<1> QED BY <1>1, <1>6, <1>9, <1>10 DEF Found, i

-----------------------------------------------------------------------------
(* What MapInv says of one segment, in the form the steps below use. *)
LEMMA SegmentFacts ==
    ASSUME MapInv, NEW i \in 1..Len(segments)
    PROVE  /\ segments[i] \in Segment /\ segments[i].first \in Nat
           /\ segments[i].values \in Seq(Values) /\ Len(segments[i].values) \in Nat \ {0}
           /\ EndKey(segments[i]) = segments[i].first + Len(segments[i].values)
           /\ EndKey(segments[i]) - 1 \in Nat
           /\ Block(segments[i].first) = Block(segments[1].first) + i - 1
           /\ Block(EndKey(segments[i]) - 1) = Block(segments[i].first)
<1>1. segments[i] \in Segment /\ segments[i].values # <<>>
  BY DEF MapInv, MapTypes, SegmentsDense
<1>2. segments[i].first \in Nat /\ segments[i].values \in Seq(Values)
  BY <1>1 DEF Segment
<1>3. Len(segments[i].values) \in Nat \ {0}
  BY <1>1, <1>2
<1>4. Block(segments[i].first) = Block(segments[1].first) + i - 1
      /\ Block(EndKey(segments[i]) - 1) = Block(segments[i].first)
  BY DEF MapInv, SegmentsDense
<1> QED BY <1>1, <1>2, <1>3, <1>4 DEF EndKey

(* No segment reaches past the next key. *)
LEMMA EndsWithin ==
    ASSUME MapInv, NEW i \in 1..Len(segments)
    PROVE  EndKey(segments[i]) <= nextKey
<1> DEFINE n == Len(segments)
<1>1. n \in Nat \ {0} /\ n \in 1..n /\ segments # <<>> /\ nextKey \in Nat
  BY DEF MapInv, MapTypes
<1>2. EndKey(segments[n]) = nextKey
  BY <1>1 DEF MapInv, SegmentsDense
<1>3. CASE i = n
  BY <1>1, <1>2, <1>3
<1>4. CASE i < n
  <2>1. Block(EndKey(segments[i]) - 1) < Block(segments[n].first)
    <3>1. Block(segments[1].first) \in Nat
      BY <1>1, SegmentFacts, BlockNat
    <3>2. Block(EndKey(segments[i]) - 1) = Block(segments[1].first) + i - 1
      BY SegmentFacts
    <3>3. Block(segments[n].first) = Block(segments[1].first) + n - 1
      BY <1>1, SegmentFacts
    <3> QED BY <3>1, <3>2, <3>3, <1>1, <1>4
  <2>2. EndKey(segments[i]) - 1 \in Nat /\ segments[n].first \in Nat
        /\ segments[n].first < EndKey(segments[n])
    BY SMTT(100), <1>1, SegmentFacts
  <2>3. EndKey(segments[i]) - 1 < segments[n].first
    <3> SUFFICES ASSUME segments[n].first <= EndKey(segments[i]) - 1 PROVE FALSE
      BY <2>2
    <3>1. Block(segments[n].first) <= Block(EndKey(segments[i]) - 1)
      BY <2>2, BlockMonotone
    <3>2. Block(segments[n].first) \in Nat /\ Block(EndKey(segments[i]) - 1) \in Nat
      BY <2>2, BlockNat
    <3> QED BY <3>1, <3>2, <2>1
  <2>4. EndKey(segments[i]) \in Nat
    <3>1. /\ segments[i].first \in Nat /\ Len(segments[i].values) \in Nat
          /\ EndKey(segments[i]) = segments[i].first + Len(segments[i].values)
      BY SegmentFacts
    <3> QED BY <3>1
  <2> QED BY <2>2, <2>3, <2>4, <1>1, <1>2
<1> QED BY <1>1, <1>3, <1>4

LEMMA PushInv ==
    ASSUME MapInv, NEW v \in Values, Push(nextKey, v) PROVE MapInv'
<1> DEFINE n == Len(segments)
<1>1. /\ n \in Nat /\ segments \in Seq(Segment) /\ firstKey \in Nat /\ nextKey \in Nat /\ len \in Nat
      /\ firstKey <= nextKey /\ nextKey + 1 <= MaxKey /\ MaxKey \in Nat
      /\ len = nextKey - firstKey /\ target = NoValue
  BY SMTT(100), SegmentAssumption DEF MapInv, MapTypes, SegmentsDense, Push, PushRefused
<1>2. firstKey' = firstKey /\ nextKey' = nextKey + 1 /\ len' = len + 1 /\ target' = NoValue
  BY <1>1 DEF Push
<1>3. CASE segments # <<>> /\ SameSegment(segments[n], nextKey)
  <2> DEFINE last == segments[n]
             grown == [first |-> last.first, values |-> Append(last.values, v)]
  <2>1. n \in 1..n /\ 1 \in 1..n
    BY <1>1, <1>3
  <2>2. segments' = [segments EXCEPT ![n] = grown]
    BY <1>3 DEF Push
  <2>3. /\ last.first \in Nat /\ last.values \in Seq(Values) /\ EndKey(last) = nextKey
        /\ Len(last.values) \in Nat \ {0} /\ EndKey(last) = last.first + Len(last.values)
    BY <2>1, <1>3, SegmentFacts DEF MapInv, SegmentsDense
  <2>4. /\ grown \in Segment /\ grown.first = last.first /\ grown.values # <<>>
        /\ EndKey(grown) = nextKey + 1
    <3>1. /\ grown.first = last.first /\ grown.values = Append(last.values, v)
          /\ grown = [first |-> last.first, values |-> grown.values]
      BY ZenonT(100)
    <3>2. /\ Append(last.values, v) \in Seq(Values)
          /\ Len(Append(last.values, v)) = Len(last.values) + 1
      BY SMTT(100), <2>3
    <3> HIDE DEF grown, last
    <3>3. grown \in Segment
      BY ZenonT(100), <2>3, <3>1, <3>2 DEF Segment
    <3>4. EndKey(grown) = last.first + (Len(last.values) + 1)
      BY ZenonT(100), <3>1, <3>2 DEF EndKey
    <3>5. Len(grown.values) = Len(last.values) + 1
      BY ZenonT(100), <3>1, <3>2
    <3>6. EndKey(grown) = nextKey + 1 /\ Len(grown.values) # 0
      BY SMTT(100), <2>3, <3>4, <3>5
    <3>7. grown.values # <<>>
      BY SMTT(100), <3>6
    <3> QED BY ZenonT(100), <3>1, <3>3, <3>6, <3>7
  <2> HIDE DEF grown
  <2>5. /\ segments' \in Seq(Segment) /\ Len(segments') = n /\ segments' # <<>>
        /\ segments'[n] = grown /\ \A i \in 1..n : i # n => segments'[i] = segments[i]
    BY <1>1, <2>1, <2>2, <2>4
  <2>6. segments'[1].first = segments[1].first /\ segments[1].first = firstKey
    BY ZenonT(100), <2>1, <2>4, <2>5, <1>3 DEF MapInv, SegmentsDense
  <2>7. Block(EndKey(grown) - 1) = Block(grown.first)
    <3>1. EndKey(grown) - 1 = nextKey
      BY <1>1, <2>4
    <3> QED BY <3>1, <2>4, <1>3 DEF SameSegment
  <2>8. \A i \in 1..n : /\ segments'[i].values # <<>>
                        /\ segments'[i].first = segments[i].first
                        /\ Block(EndKey(segments'[i]) - 1) = Block(segments'[i].first)
    BY <2>4, <2>5, <2>7 DEF MapInv, SegmentsDense
  <2>9. \A i \in 1..n : Block(segments'[i].first) = Block(segments'[1].first) + i - 1
    BY <2>6, <2>8 DEF MapInv, SegmentsDense
  <2>10. \A i \in 1..(n - 1) : EndKey(segments'[i]) = segments'[i + 1].first
    <3> TAKE i \in 1..(n - 1)
    <3>1. i \in 1..n /\ i + 1 \in 1..n /\ i # n
      BY <1>1
    <3>2. EndKey(segments[i]) = segments[i + 1].first
      BY DEF MapInv, SegmentsDense
    <3> QED BY <3>1, <3>2, <2>5, <2>8
  <2>11. MapTypes' /\ TargetInv'
    BY <1>1, <1>2, <2>5 DEF MapTypes, TargetInv
  <2>12. /\ firstKey' \in Nat /\ nextKey' \in Nat /\ firstKey' < nextKey' /\ nextKey' <= MaxKey
         /\ len' = nextKey' - firstKey'
         /\ segments'[1].first = firstKey' /\ EndKey(segments'[Len(segments')]) = nextKey'
    <3>1. EndKey(segments'[Len(segments')]) = nextKey'
      BY <1>2, <2>4, <2>5
    <3>2. segments'[1].first = firstKey'
      BY <1>2, <2>6
    <3> QED BY <1>1, <1>2, <3>1, <3>2
  <2>13. /\ \A i \in 1..Len(segments') :
              /\ segments'[i].values # <<>>
              /\ Block(segments'[i].first) = Block(segments'[1].first) + i - 1
              /\ Block(EndKey(segments'[i]) - 1) = Block(segments'[i].first)
         /\ \A i \in 1..(Len(segments') - 1) : EndKey(segments'[i]) = segments'[i + 1].first
    BY <2>5, <2>8, <2>9, <2>10
  <2>14. SegmentsDense'
    BY <1>1, <2>5, <2>12, <2>13 DEF SegmentsDense
  <2> QED BY <2>11, <2>14 DEF MapInv
<1>4. CASE ~(segments # <<>> /\ SameSegment(segments[n], nextKey))
  <2> DEFINE fresh == [first |-> nextKey, values |-> <<v>>]
  <2>1. segments' = Append(segments, fresh)
    BY <1>4 DEF Push
  <2>2. /\ fresh \in Segment /\ fresh.first = nextKey /\ fresh.values # <<>>
        /\ EndKey(fresh) = nextKey + 1
    BY <1>1 DEF Segment, EndKey
  <2> HIDE DEF fresh
  <2>3. /\ segments' \in Seq(Segment) /\ Len(segments') = n + 1 /\ segments' # <<>>
        /\ segments'[n + 1] = fresh /\ \A i \in 1..n : segments'[i] = segments[i]
    BY <1>1, <2>1, <2>2
  <2>4. EndKey(fresh) - 1 = nextKey
    BY <1>1, <2>2
  <2>5. segments'[1].first = firstKey /\ Block(fresh.first) = Block(segments'[1].first) + (n + 1) - 1
    <3>1. CASE segments = <<>>
      <4>1. n = 0 /\ firstKey = nextKey
        BY <3>1 DEF MapInv, SegmentsDense
      <4>2. segments'[1] = fresh
        BY <4>1, <2>3
      <4>3. Block(fresh.first) \in Nat
        BY <1>1, <2>2, BlockNat
      <4> QED BY <4>1, <4>2, <4>3, <2>2
    <3>2. CASE segments # <<>>
      <4>1. n \in 1..n /\ 1 \in 1..n
        BY <1>1, <3>2
      <4>2. segments[1].first = firstKey /\ EndKey(segments[n]) = nextKey
        BY <3>2 DEF MapInv, SegmentsDense
      <4>3. Block(nextKey) # Block(segments[n].first)
        BY <1>4, <3>2 DEF SameSegment
      <4>4. nextKey - 1 \in Nat /\ Block(nextKey - 1) = Block(segments[n].first)
            /\ Block(segments[n].first) = Block(firstKey) + n - 1
        BY <4>1, <4>2, SegmentFacts
      <4>5. Block(nextKey) = Block(nextKey - 1) + 1
        <5>1. nextKey = (nextKey - 1) + 1
          BY <1>1
        <5>2. Block((nextKey - 1) + 1) = Block(nextKey - 1)
              \/ Block((nextKey - 1) + 1) = Block(nextKey - 1) + 1
          BY <4>4, BlockStep
        <5> QED BY <5>1, <5>2, <4>3, <4>4
      <4>6. segments'[1].first = firstKey /\ Block(firstKey) \in Nat
        BY <4>1, <4>2, <2>3, <1>1, BlockNat
      <4>7. Block(nextKey) = Block(firstKey) + (n + 1) - 1
        BY <4>4, <4>5, <4>6, <1>1
      <4> QED BY <4>6, <4>7, <2>2
    <3> QED BY <3>1, <3>2
  <2>6. \A i \in 1..(n + 1) : /\ segments'[i].values # <<>>
                              /\ Block(segments'[i].first) = Block(segments'[1].first) + i - 1
                              /\ Block(EndKey(segments'[i]) - 1) = Block(segments'[i].first)
    <3> TAKE i \in 1..(n + 1)
    <3>1. CASE i = n + 1
      BY <3>1, <2>2, <2>3, <2>4, <2>5
    <3>2. CASE i # n + 1
      <4>1. i \in 1..n /\ 1 \in 1..n
        BY <1>1, <3>2
      <4> QED BY <4>1, <2>3 DEF MapInv, SegmentsDense
    <3> QED BY <3>1, <3>2
  <2>7. \A i \in 1..n : EndKey(segments'[i]) = segments'[i + 1].first
    <3> TAKE i \in 1..n
    <3>1. CASE i = n
      <4>1. segments # <<>>
        BY <1>1
      <4>2. EndKey(segments[n]) = nextKey
        BY <4>1 DEF MapInv, SegmentsDense
      <4> QED BY <3>1, <4>2, <2>2, <2>3
    <3>2. CASE i # n
      <4>1. i \in 1..(n - 1) /\ i + 1 \in 1..n
        BY <1>1, <3>2
      <4>2. EndKey(segments[i]) = segments[i + 1].first
        BY <4>1 DEF MapInv, SegmentsDense
      <4> QED BY <4>1, <4>2, <2>3
    <3> QED BY <3>1, <3>2
  <2>8. MapTypes' /\ TargetInv'
    BY <1>1, <1>2, <2>3 DEF MapTypes, TargetInv
  <2>9. Len(segments') - 1 = n
    BY <1>1, <2>3
  <2>10. /\ firstKey' \in Nat /\ nextKey' \in Nat /\ firstKey' < nextKey' /\ nextKey' <= MaxKey
         /\ len' = nextKey' - firstKey'
         /\ segments'[1].first = firstKey' /\ EndKey(segments'[Len(segments')]) = nextKey'
    BY <1>1, <1>2, <2>2, <2>3, <2>5
  <2>11. SegmentsDense'
    BY <1>1, <2>3, <2>6, <2>7, <2>9, <2>10 DEF SegmentsDense
  <2> QED BY <2>8, <2>11 DEF MapInv
<1> QED BY <1>3, <1>4

-----------------------------------------------------------------------------
LEMMA SetValueInv ==
    ASSUME MapInv, NEW key \in Nat, NEW v \in Values, SetValue(key, v) PROVE MapInv'
<1> DEFINE i == SegmentIndex(key)
           old == segments[i]
           new == [first |-> old.first, values |-> [old.values EXCEPT ![1 + key - old.first] = v]]
<1>1. /\ i \in 1..Len(segments) /\ key >= old.first /\ key < EndKey(old)
      /\ segments' = [segments EXCEPT ![i] = new]
      /\ UNCHANGED <<firstKey, nextKey, len, target>>
  BY DEF SetValue, Found
<1> HIDE DEF i
<1>2. /\ old \in Segment /\ old.first \in Nat /\ old.values \in Seq(Values)
      /\ Len(old.values) \in Nat \ {0} /\ EndKey(old) = old.first + Len(old.values)
  BY <1>1, SegmentFacts
<1>3. 1 + key - old.first \in 1..Len(old.values)
  BY SMTT(100), <1>1, <1>2
<1>4. /\ [old.values EXCEPT ![1 + key - old.first] = v] \in Seq(Values)
      /\ Len([old.values EXCEPT ![1 + key - old.first] = v]) = Len(old.values)
  BY <1>2, <1>3
<1>5. /\ new \in Segment /\ new.first = old.first /\ new.values # <<>>
      /\ EndKey(new) = EndKey(old)
  BY <1>2, <1>4 DEF Segment, EndKey
<1> HIDE DEF new
<1>6. segments \in Seq(Segment) /\ Len(segments) \in Nat
  BY DEF MapInv, MapTypes
<1>7. /\ segments' \in Seq(Segment) /\ Len(segments') = Len(segments)
      /\ segments'[i] = new /\ \A j \in 1..Len(segments) : j # i => segments'[j] = segments[j]
  BY <1>1, <1>5, <1>6
<1>8. \A j \in 1..Len(segments) : /\ segments'[j].first = segments[j].first
                                  /\ EndKey(segments'[j]) = EndKey(segments[j])
                                  /\ segments'[j].values # <<>>
  BY <1>5, <1>7 DEF MapInv, SegmentsDense
<1>9. segments # <<>> /\ segments' # <<>> /\ 1 \in 1..Len(segments) /\ Len(segments) \in 1..Len(segments)
  BY <1>1, <1>6, <1>7
<1>10. \A j \in 1..(Len(segments) - 1) : EndKey(segments'[j]) = segments'[j + 1].first
  <2> TAKE j \in 1..(Len(segments) - 1)
  <2>1. j \in 1..Len(segments) /\ j + 1 \in 1..Len(segments)
    BY <1>6
  <2>2. EndKey(segments[j]) = segments[j + 1].first
    BY DEF MapInv, SegmentsDense
  <2> QED BY <2>1, <2>2, <1>8
<1>11. MapTypes' /\ TargetInv'
  BY <1>1, <1>7 DEF MapInv, MapTypes, TargetInv
<1>12. SegmentsDense'
  BY ZenonT(60), <1>1, <1>7, <1>8, <1>9, <1>10 DEF MapInv, SegmentsDense
<1> QED BY <1>11, <1>12 DEF MapInv

LEMMA EmptyLen ==
    ASSUME NEW S, NEW s \in Seq(S) PROVE s = <<>> <=> Len(s) = 0
  OBVIOUS

LEMMA TailFacts ==
    ASSUME NEW S, NEW s \in Seq(S), s # <<>>
    PROVE  /\ Tail(s) \in Seq(S) /\ Len(Tail(s)) = Len(s) - 1
           /\ \A i \in 1..(Len(s) - 1) : Tail(s)[i] = s[i + 1]
  OBVIOUS

(* The front segment goes: pop_front of its last value, or truncation. *)
LEMMA TailDense ==
    ASSUME MapInv, segments # <<>>, nextKey' = nextKey,
           segments' \in Seq(Segment), Len(segments') = Len(segments) - 1,
           \A i \in 1..(Len(segments) - 1) : segments'[i] = segments[i + 1],
           len' = len - Len(segments[1].values), firstKey' = EndKey(segments[1])
    PROVE  /\ SegmentsDense'
           /\ firstKey' \in Nat /\ len' \in Nat /\ firstKey < firstKey'
<1> DEFINE n == Len(segments)
<1>1. /\ segments \in Seq(Segment) /\ n \in Nat \ {0} /\ 1 \in 1..n /\ n \in 1..n
      /\ firstKey \in Nat /\ nextKey \in Nat /\ len = nextKey - firstKey /\ nextKey <= MaxKey
      /\ segments[1].first = firstKey /\ EndKey(segments[n]) = nextKey
  BY DEF MapInv, MapTypes, SegmentsDense
<1>2. /\ segments' \in Seq(Segment) /\ Len(segments') = n - 1
      /\ \A i \in 1..(n - 1) : segments'[i] = segments[i + 1]
  OBVIOUS
<1>3. /\ Len(segments[1].values) \in Nat \ {0}
      /\ EndKey(segments[1]) = firstKey + Len(segments[1].values)
      /\ EndKey(segments[1]) <= nextKey
  BY <1>1, SegmentFacts, EndsWithin
<1>4. firstKey' \in Nat /\ firstKey < firstKey' /\ firstKey' <= nextKey /\ len' = nextKey' - firstKey'
      /\ len' \in Nat
  BY <1>1, <1>3
<1>5. CASE n = 1
  <2>1. segments' = <<>> /\ firstKey' = nextKey' /\ Len(segments') = 0
    BY <1>1, <1>2, <1>5, EmptyLen
  <2>2. \A i \in 1..Len(segments') : FALSE
    BY SMTT(100), <2>1
  <2>3. \A i \in 1..(Len(segments') - 1) : FALSE
    BY SMTT(100), <2>1
  <2> QED BY <2>1, <2>2, <2>3, <1>1, <1>2, <1>4 DEF SegmentsDense
<1>6. CASE n # 1
  <2>1. /\ 1 \in 1..(n - 1) /\ n - 1 \in 1..(n - 1) /\ 2 \in 1..n /\ segments' # <<>>
        /\ segments'[1] = segments[2] /\ segments'[n - 1] = segments[n]
    <3>1. 1 \in 1..(n - 1) /\ n - 1 \in 1..(n - 1) /\ 2 \in 1..n /\ (n - 1) + 1 = n /\ 1 + 1 = 2
      BY <1>1, <1>6
    <3>2. segments'[1] = segments[1 + 1] /\ segments'[n - 1] = segments[(n - 1) + 1]
      BY <3>1, <1>2
    <3>3. segments' # <<>>
      BY <3>1, <1>2, EmptyLen
    <3> QED BY <3>1, <3>2, <3>3
  <2>2. EndKey(segments[1]) = segments[2].first
    <3>1. 1 \in 1..(Len(segments) - 1)
      BY <2>1
    <3>2. EndKey(segments[1]) = segments[1 + 1].first
      BY <3>1 DEF MapInv, SegmentsDense
    <3> QED BY <3>2
  <2>3. firstKey' # nextKey'
    <3>1. EndKey(segments[2]) <= nextKey /\ segments[2].first < EndKey(segments[2])
          /\ segments[2].first \in Nat /\ EndKey(segments[2]) \in Nat
      <4>1. /\ segments[2].first \in Nat /\ Len(segments[2].values) \in Nat \ {0}
            /\ EndKey(segments[2]) = segments[2].first + Len(segments[2].values)
        BY <2>1, SegmentFacts
      <4> QED BY <4>1, <2>1, EndsWithin
    <3> QED BY <3>1, <2>2, <1>1
  <2>4. \A i \in 1..(n - 1) :
            /\ segments'[i].values # <<>>
            /\ Block(segments'[i].first) = Block(segments'[1].first) + i - 1
            /\ Block(EndKey(segments'[i]) - 1) = Block(segments'[i].first)
    <3> TAKE i \in 1..(n - 1)
    <3>1. i + 1 \in 1..n /\ segments'[i] = segments[i + 1]
      BY <1>1, <1>2
    <3>2. Block(segments[i + 1].first) = Block(segments[1].first) + (i + 1) - 1
      BY <3>1, SegmentFacts
    <3>3. Block(segments[2].first) = Block(segments[1].first) + 2 - 1
      BY <2>1, SegmentFacts
    <3>4. Block(segments[1].first) \in Nat
      BY <1>1, BlockNat
    <3>5. segments[i + 1].values # <<>>
          /\ Block(EndKey(segments[i + 1]) - 1) = Block(segments[i + 1].first)
      BY <3>1 DEF MapInv, SegmentsDense
    <3>6. Block(segments[i + 1].first) = Block(segments[2].first) + i - 1
      BY <3>2, <3>3, <3>4
    <3> QED BY <3>1, <3>5, <3>6, <2>1
  <2>5. \A i \in 1..((n - 1) - 1) : EndKey(segments'[i]) = segments'[i + 1].first
    <3> TAKE i \in 1..((n - 1) - 1)
    <3>1. i \in 1..(n - 1) /\ i + 1 \in 1..(n - 1)
      BY <1>1
    <3>2. EndKey(segments[i + 1]) = segments[(i + 1) + 1].first
      BY <3>1 DEF MapInv, SegmentsDense
    <3> QED BY <3>1, <3>2, <1>2
  <2> QED BY <2>1, <2>2, <2>3, <2>4, <2>5, <1>1, <1>2, <1>4 DEF SegmentsDense
<1> QED BY <1>2, <1>4, <1>5, <1>6

(* What is left of the front segment after its first c values. *)
LEMMA DrainedFacts ==
    ASSUME MapInv, segments # <<>>, NEW c \in Nat, c < Len(segments[1].values)
    PROVE  /\ Drained(c) \in Segment /\ Drained(c).first = segments[1].first + c
           /\ Drained(c).values # <<>> /\ EndKey(Drained(c)) = EndKey(segments[1])
           /\ Len(Drained(c).values) = Len(segments[1].values) - c
           /\ \A j \in 1..(Len(segments[1].values) - c) :
                 Drained(c).values[j] = segments[1].values[c + j]
<1> DEFINE first == segments[1].first
           values == segments[1].values
           rest == SubSeq(values, c + 1, Len(values))
<1>1. 1 \in 1..Len(segments)
  BY EmptyLen DEF MapInv, MapTypes
<1>2. /\ values \in Seq(Values) /\ first \in Nat /\ Len(values) \in Nat \ {0}
      /\ EndKey(segments[1]) = first + Len(values)
  BY <1>1, SegmentFacts
<1>3. Drained(c) = [first |-> first + c, values |-> rest]
  BY DEF Drained
<1>4. /\ rest \in Seq(Values) /\ Len(rest) = Len(values) - c
      /\ \A j \in 1..(Len(values) - c) : rest[j] = values[c + j]
  BY <1>2
<1>5. rest # <<>>
  <2>1. Len(rest) # 0
    BY <1>2, <1>4
  <2> QED BY <2>1, <1>4, EmptyLen
<1> HIDE DEF first, values, rest
<1>6. Drained(c).first = first + c /\ Drained(c).values = rest /\ first + c \in Nat
  BY <1>2, <1>3
<1>7. Drained(c) \in Segment
  BY <1>3, <1>4, <1>6 DEF Segment
<1>8. EndKey(Drained(c)) = EndKey(segments[1])
  <2>1. EndKey(Drained(c)) = (first + c) + Len(rest)
    BY <1>6 DEF EndKey
  <2> QED BY <2>1, <1>2, <1>4
<1> QED BY <1>4, <1>5, <1>6, <1>7, <1>8 DEF first, values

(* The front segment loses some of its values: pop_front, or truncation. *)
LEMMA DrainDense ==
    ASSUME MapInv, segments # <<>>, NEW c \in Nat \ {0}, c < Len(segments[1].values),
           segments' \in Seq(Segment), Len(segments') = Len(segments), segments'[1] = Drained(c),
           \A i \in 1..Len(segments) : i # 1 => segments'[i] = segments[i], nextKey' = nextKey,
           len' = len - c, firstKey' = firstKey + c
    PROVE  SegmentsDense' /\ firstKey' \in Nat /\ len' \in Nat \ {0}
<1> DEFINE n == Len(segments)
           old == segments[1]
           new == Drained(c)
<1>1. /\ segments \in Seq(Segment) /\ n \in Nat \ {0} /\ 1 \in 1..n /\ n \in 1..n
      /\ firstKey \in Nat /\ nextKey \in Nat /\ len = nextKey - firstKey /\ nextKey <= MaxKey
      /\ old.first = firstKey /\ EndKey(segments[n]) = nextKey
  BY DEF MapInv, MapTypes, SegmentsDense
<1>2. /\ old.values \in Seq(Values) /\ Len(old.values) \in Nat \ {0}
      /\ EndKey(old) = firstKey + Len(old.values) /\ EndKey(old) <= nextKey
      /\ Block(EndKey(old) - 1) = Block(old.first)
  BY <1>1, SegmentFacts, EndsWithin
<1>4. /\ new \in Segment /\ new.first = firstKey + c /\ new.values # <<>>
      /\ EndKey(new) = EndKey(old)
  BY <1>1, DrainedFacts
<1>5. Block(new.first) = Block(old.first)
  <2>1. /\ firstKey + c \in Nat /\ EndKey(old) - 1 \in Nat
        /\ firstKey <= firstKey + c /\ firstKey + c <= EndKey(old) - 1
    BY <1>1, <1>2
  <2>2. Block(firstKey) <= Block(firstKey + c) /\ Block(firstKey + c) <= Block(EndKey(old) - 1)
    BY <1>1, <2>1, BlockMonotone
  <2>3. Block(firstKey) \in Nat /\ Block(firstKey + c) \in Nat /\ Block(EndKey(old) - 1) \in Nat
    BY <1>1, <2>1, BlockNat
  <2> QED BY <1>1, <1>2, <1>4, <2>2, <2>3
<1> HIDE DEF new
<1>6. /\ segments' \in Seq(Segment) /\ Len(segments') = n /\ segments' # <<>>
      /\ segments'[1] = new /\ \A i \in 1..n : i # 1 => segments'[i] = segments[i]
  BY <1>1, EmptyLen DEF new
<1>7. /\ firstKey' \in Nat /\ len' \in Nat \ {0} /\ len' = nextKey' - firstKey'
      /\ firstKey' < nextKey'
  BY <1>1, <1>2
<1>8. \A i \in 1..n : /\ segments'[i].values # <<>>
                      /\ Block(segments'[i].first) = Block(segments[i].first)
                      /\ EndKey(segments'[i]) = EndKey(segments[i])
                      /\ Block(EndKey(segments[i]) - 1) = Block(segments[i].first)
                      /\ Block(segments[i].first) = Block(old.first) + i - 1
  <2> TAKE i \in 1..n
  <2>1. /\ segments[i].values # <<>>
        /\ Block(EndKey(segments[i]) - 1) = Block(segments[i].first)
        /\ Block(segments[i].first) = Block(old.first) + i - 1
    BY DEF MapInv, SegmentsDense
  <2> QED BY <2>1, <1>4, <1>5, <1>6
<1>9. \A i \in 1..(n - 1) : EndKey(segments'[i]) = segments'[i + 1].first
  <2> TAKE i \in 1..(n - 1)
  <2>1. i \in 1..n /\ i + 1 \in 1..n /\ i + 1 # 1
    BY <1>1
  <2>2. EndKey(segments[i]) = segments[i + 1].first
    BY DEF MapInv, SegmentsDense
  <2> QED BY <2>1, <2>2, <1>6, <1>8
<1>10. \A i \in 1..n : /\ segments'[i].values # <<>>
                       /\ Block(segments'[i].first) = Block(segments'[1].first) + i - 1
                       /\ Block(EndKey(segments'[i]) - 1) = Block(segments'[i].first)
  BY <1>5, <1>6, <1>8
<1>11. segments'[1].first = firstKey' /\ EndKey(segments'[Len(segments')]) = nextKey'
  BY <1>1, <1>4, <1>6, <1>8
<1> QED BY <1>1, <1>6, <1>7, <1>9, <1>10, <1>11 DEF SegmentsDense

LEMMA PopFrontInv == ASSUME MapInv, PopFront PROVE MapInv'
<1>1. /\ segments # <<>> /\ segments \in Seq(Segment) /\ firstKey \in Nat /\ nextKey \in Nat
      /\ len \in Nat /\ len = nextKey - firstKey /\ 1 \in 1..Len(segments)
      /\ target = NoValue /\ target' = NoValue /\ nextKey' = nextKey /\ len' = len - 1
      /\ firstKey' = IF len - 1 = 0 THEN nextKey ELSE firstKey + 1
      /\ segments[1].first = firstKey
  BY DEF MapInv, MapTypes, SegmentsDense, PopFront
<1>2. /\ Len(segments[1].values) \in Nat \ {0} /\ EndKey(segments[1]) <= nextKey
      /\ EndKey(segments[1]) = firstKey + Len(segments[1].values)
  BY <1>1, SegmentFacts, EndsWithin
<1>3. firstKey' = firstKey + 1
  BY <1>1, <1>2
<1>4. SegmentsDense' /\ segments' \in Seq(Segment) /\ firstKey' \in Nat /\ len' \in Nat
  <2>1. CASE Len(segments[1].values) = 1
    <3>1. /\ len' = len - Len(segments[1].values) /\ firstKey' = EndKey(segments[1])
      BY <2>1, <1>1, <1>2, <1>3
    <3>2. segments' = Tail(segments)
      BY <2>1 DEF PopFront
    <3>3. /\ segments' \in Seq(Segment) /\ Len(segments') = Len(segments) - 1
          /\ \A i \in 1..(Len(segments) - 1) : segments'[i] = segments[i + 1]
      BY <3>2, <1>1, TailFacts
    <3> QED BY <3>1, <3>3, <1>1, TailDense
  <2>2. CASE Len(segments[1].values) # 1
    <3>1. segments' = [segments EXCEPT ![1] = Drained(1)]
      BY <2>2 DEF PopFront
    <3>2. 1 < Len(segments[1].values) /\ 1 \in Nat \ {0} /\ 1 \in Nat
      <4> DEFINE m == Len(segments[1].values)
      <4>1. m \in Nat \ {0} /\ m # 1
        BY <2>2, <1>2
      <4> HIDE DEF m
      <4>2. 1 < m
        BY <4>1
      <4> QED BY <4>2 DEF m
    <3>3. Drained(1) \in Segment
      BY <3>2, <1>1, DrainedFacts
    <3>4. /\ segments' \in Seq(Segment) /\ Len(segments') = Len(segments)
          /\ segments'[1] = Drained(1)
          /\ \A i \in 1..Len(segments) : i # 1 => segments'[i] = segments[i]
      BY <3>1, <3>3, <1>1
    <3> QED BY <3>2, <3>4, <1>1, <1>3, DrainDense
  <2> QED BY <2>1, <2>2
<1> QED BY <1>1, <1>4 DEF MapInv, MapTypes, TargetInv

LEMMA TruncateBeginInv == ASSUME MapInv, NEW key \in Nat, TruncateBegin(key) PROVE MapInv'
<1>1. /\ firstKey \in Nat /\ nextKey \in Nat /\ firstKey <= nextKey
      /\ UNCHANGED <<firstKey, nextKey, len, segments>>
      /\ target' = IF key < firstKey THEN firstKey ELSE IF key > nextKey THEN nextKey ELSE key
  BY DEF MapInv, MapTypes, SegmentsDense, TruncateBegin, Clamp
<1>2. target' \in Nat /\ firstKey <= target' /\ target' <= nextKey
  BY <1>1
<1>3. SegmentsDense'
  BY <1>1 DEF MapInv, SegmentsDense
<1> QED BY <1>1, <1>2, <1>3 DEF MapInv, MapTypes, TargetInv

LEMMA TruncateSegmentInv == ASSUME MapInv, TruncateSegment PROVE MapInv'
<1>1. /\ segments # <<>> /\ EndKey(segments[1]) <= target /\ target # NoValue /\ target \in Nat
      /\ segments \in Seq(Segment) /\ nextKey \in Nat /\ target <= nextKey
      /\ nextKey' = nextKey /\ target' = target
      /\ len' = len - Len(segments[1].values) /\ firstKey' = EndKey(segments[1])
  BY DEF MapInv, MapTypes, TargetInv, TruncateSegment, WholeSegmentBelow
<1>2. segments' = Tail(segments)
  BY DEF TruncateSegment
<1>3. /\ segments' \in Seq(Segment) /\ Len(segments') = Len(segments) - 1
      /\ \A i \in 1..(Len(segments) - 1) : segments'[i] = segments[i + 1]
  BY <1>1, <1>2, TailFacts
<1>4. SegmentsDense' /\ firstKey' \in Nat /\ len' \in Nat
  BY <1>1, <1>3, TailDense
<1> QED BY <1>1, <1>3, <1>4 DEF MapInv, MapTypes, TargetInv

(* A partial truncation drains fewer values than the front segment holds. *)
LEMMA PartialFacts ==
    ASSUME MapInv, TruncatePartial, segments # <<>>, segments[1].first < target
    PROVE  /\ target - segments[1].first \in Nat \ {0}
           /\ target - segments[1].first < Len(segments[1].values)
           /\ segments' = [segments EXCEPT ![1] = Drained(target - segments[1].first)]
           /\ len' = len - (target - segments[1].first)
           /\ firstKey' = firstKey + (target - segments[1].first)
           /\ firstKey' = target
<1>1. 1 \in 1..Len(segments)
  BY EmptyLen DEF MapInv, MapTypes
<1>2. /\ segments[1].first \in Nat /\ Len(segments[1].values) \in Nat
      /\ EndKey(segments[1]) = segments[1].first + Len(segments[1].values)
      /\ segments[1].first = firstKey
  BY <1>1, SegmentFacts DEF MapInv, SegmentsDense
<1>3. target \in Nat /\ ~(EndKey(segments[1]) <= target)
  BY DEF MapInv, MapTypes, TruncatePartial, WholeSegmentBelow
<1>4. /\ segments' = [segments EXCEPT ![1] = Drained(target - segments[1].first)]
      /\ len' = len - (target - segments[1].first) /\ firstKey' = target
  BY DEF TruncatePartial
<1>5. /\ target - segments[1].first \in Nat \ {0}
      /\ target - segments[1].first < Len(segments[1].values)
      /\ target = firstKey + (target - segments[1].first)
  BY <1>2, <1>3
<1> QED BY <1>4, <1>5

LEMMA TruncatePartialInv == ASSUME MapInv, TruncatePartial PROVE MapInv'
<1>1. /\ segments \in Seq(Segment) /\ firstKey \in Nat /\ nextKey \in Nat /\ len \in Nat
      /\ len = nextKey - firstKey /\ nextKey' = nextKey /\ target' = NoValue
  BY DEF MapInv, MapTypes, SegmentsDense, TruncatePartial
<1>2. CASE segments # <<>> /\ segments[1].first < target
  <2> DEFINE c == target - segments[1].first
  <2>1. /\ c \in Nat \ {0} /\ c \in Nat /\ c < Len(segments[1].values)
        /\ segments' = [segments EXCEPT ![1] = Drained(c)]
        /\ len' = len - c /\ firstKey' = firstKey + c
    BY <1>2, PartialFacts
  <2> HIDE DEF c
  <2>2. Drained(c) \in Segment /\ 1 \in 1..Len(segments)
    BY <2>1, <1>1, <1>2, DrainedFacts, EmptyLen
  <2>3. /\ segments' \in Seq(Segment) /\ Len(segments') = Len(segments)
        /\ segments'[1] = Drained(c)
        /\ \A i \in 1..Len(segments) : i # 1 => segments'[i] = segments[i]
    BY <2>1, <2>2, <1>1
  <2>4. SegmentsDense' /\ firstKey' \in Nat /\ len' \in Nat \ {0}
    BY <2>1, <2>3, <1>1, <1>2, DrainDense
  <2> QED BY <1>1, <2>3, <2>4 DEF MapInv, MapTypes, TargetInv
<1>3. CASE ~(segments # <<>> /\ segments[1].first < target)
  <2>1. segments' = segments /\ len' = len /\ firstKey' = IF len = 0 THEN nextKey ELSE firstKey
    BY <1>3 DEF TruncatePartial
  <2>2. firstKey' = firstKey
    BY <2>1, <1>1
  <2>3. SegmentsDense'
    BY <2>1, <2>2, <1>1 DEF MapInv, SegmentsDense
  <2> QED BY <1>1, <2>1, <2>2, <2>3 DEF MapInv, MapTypes, TargetInv
<1> QED BY <1>2, <1>3

LEMMA NextInv == MapInv /\ [SegmentNext]_segmentVars => MapInv'
<1> SUFFICES ASSUME MapInv, [SegmentNext]_segmentVars PROVE MapInv'
  OBVIOUS
<1>1. 0..MaxKey \subseteq Nat /\ nextKey \in Nat
  BY DEF MapInv, MapTypes
<1>2. ASSUME NEW v \in Values, Push(nextKey, v) PROVE MapInv'
  BY <1>2, PushInv
<1>3. ASSUME NEW key \in 0..MaxKey, NEW v \in Values, SetValue(key, v) PROVE MapInv'
  BY <1>1, <1>3, SetValueInv
<1>4. CASE PopFront
  BY <1>4, PopFrontInv
<1>5. ASSUME NEW key \in 0..MaxKey, TruncateBegin(key) PROVE MapInv'
  BY <1>1, <1>5, TruncateBeginInv
<1>6. CASE TruncateSegment
  BY <1>6, TruncateSegmentInv
<1>7. CASE TruncatePartial
  BY <1>7, TruncatePartialInv
<1>8. CASE UNCHANGED segmentVars
  BY <1>8 DEF MapInv, MapTypes, SegmentsDense, TargetInv, segmentVars
<1> QED BY <1>2, <1>3, <1>4, <1>5, <1>6, <1>7, <1>8 DEF SegmentNext

LEMMA InitInv == SegmentInit => MapInv
<1> SUFFICES ASSUME SegmentInit PROVE MapInv
  OBVIOUS
<1>1. firstKey \in Nat /\ firstKey <= MaxKey /\ nextKey = firstKey /\ len = 0 /\ target = NoValue
  BY SegmentAssumption DEF SegmentInit
<1>2. segments = <<>> /\ segments \in Seq(Segment) /\ Len(segments) = 0
  BY DEF SegmentInit
<1>3. (\A i \in 1..Len(segments) : FALSE) /\ (\A i \in 1..(Len(segments) - 1) : FALSE)
  BY <1>2
<1> QED BY <1>1, <1>2, <1>3 DEF MapInv, MapTypes, SegmentsDense, TargetInv

(* The segments of the map stay dense and cut at block boundaries, and the  *)
(* length and the first key agree with them, through every push, pop and    *)
(* truncation: for every capacity and key space.                            *)
THEOREM SegmentsStayDense == SegmentSpec => []SegmentsDense
<1>1. SegmentInit => MapInv
  BY InitInv
<1>2. MapInv /\ [SegmentNext]_segmentVars => MapInv'
  BY NextInv
<1>3. MapInv => SegmentsDense
  BY DEF MapInv
<1> QED BY <1>1, <1>2, <1>3, PTL DEF SegmentSpec

-----------------------------------------------------------------------------
(* The refinement.  A key is read where it lies, now and after a step. *)
LEMMA Located ==
    MapInv => \A i \in 1..Len(segments), key \in Nat :
                  (segments[i].first <= key /\ key < EndKey(segments[i]))
                  => Get(key) = segments[i].values[1 + key - segments[i].first]
<1> SUFFICES ASSUME MapInv, NEW i \in 1..Len(segments), NEW key \in Nat,
                    segments[i].first <= key, key < EndKey(segments[i])
             PROVE  Get(key) = segments[i].values[1 + key - segments[i].first]
  OBVIOUS
<1>1. /\ segments # <<>> /\ 1 \in 1..Len(segments) /\ Len(segments) \in Nat
      /\ firstKey \in Nat /\ nextKey \in Nat /\ segments[1].first = firstKey
  BY EmptyLen DEF MapInv, MapTypes, SegmentsDense
<1>2. /\ segments[i].first \in Nat /\ EndKey(segments[i]) - 1 \in Nat
      /\ Block(segments[i].first) = Block(firstKey) + i - 1
      /\ Block(EndKey(segments[i]) - 1) = Block(segments[i].first)
  BY <1>1, SegmentFacts
<1>3. EndKey(segments[i]) \in Nat /\ EndKey(segments[i]) <= nextKey
  <2>1. /\ segments[i].first \in Nat /\ Len(segments[i].values) \in Nat
        /\ EndKey(segments[i]) = segments[i].first + Len(segments[i].values)
    BY SegmentFacts
  <2> QED BY <2>1, EndsWithin
<1>4. Block(key) = Block(segments[i].first)
  <2>1. key <= EndKey(segments[i]) - 1
    BY <1>3
  <2>2. Block(segments[i].first) <= Block(key) /\ Block(key) <= Block(EndKey(segments[i]) - 1)
    BY <1>2, <2>1, BlockMonotone
  <2>3. Block(segments[i].first) \in Nat /\ Block(key) \in Nat
    BY <1>2, BlockNat
  <2> QED BY <1>2, <2>2, <2>3
<1>5. Block(firstKey) \in Nat /\ Block(key) \in Nat
  BY <1>1, BlockNat
<1>6. SegmentIndex(key) = i
  BY <1>1, <1>2, <1>4, <1>5 DEF SegmentIndex
<1>7. firstKey <= key
  <2>1. CASE i = 1
    BY <1>1, <2>1
  <2>2. CASE i # 1
    <3> SUFFICES ASSUME key <= firstKey PROVE FALSE
      BY <1>1
    <3>1. Block(key) <= Block(firstKey)
      BY <1>1, BlockMonotone
    <3> QED BY <3>1, <2>2, <1>1, <1>2, <1>4, <1>5
  <2> QED BY <2>1, <2>2
<1>8. key < nextKey
  BY <1>1, <1>3
<1> QED BY <1>1, <1>6, <1>7, <1>8 DEF Get, Found, Lookup

LEMMA LocatedNext ==
    (MapInv => \A i \in 1..Len(segments), key \in Nat :
                  (segments[i].first <= key /\ key < EndKey(segments[i]))
                  => Get(key) = segments[i].values[1 + key - segments[i].first])'
  BY Located, PTL

(* A retained key lies in some segment. *)
LEMMA Lies ==
    ASSUME MapInv, NEW key \in firstKey..(nextKey - 1)
    PROVE  \E i \in 1..Len(segments) :
               /\ segments[i].first <= key /\ key < EndKey(segments[i])
               /\ Get(key) = segments[i].values[1 + key - segments[i].first]
<1>1. Found(key) /\ key \in Nat
  BY Position DEF MapInv, MapTypes
<1>2. /\ SegmentIndex(key) \in 1..Len(segments)
      /\ segments[SegmentIndex(key)].first <= key /\ key < EndKey(segments[SegmentIndex(key)])
  <2>1. /\ SegmentIndex(key) \in 1..Len(segments)
        /\ key >= segments[SegmentIndex(key)].first /\ key < EndKey(segments[SegmentIndex(key)])
    BY <1>1 DEF Found
  <2> QED BY <2>1
<1>3. Get(key) = segments[SegmentIndex(key)].values[1 + key - segments[SegmentIndex(key)].first]
  BY <1>1 DEF Get, Lookup
<1> QED BY <1>2, <1>3

(* Keys stay where they were, or move with their segment by d places. *)
LEMMA Kept ==
    ASSUME MapInv, MapInv', NEW i \in 1..Len(segments), NEW j \in 1..Len(segments'),
           NEW key \in Nat, segments[i].first <= key, key < EndKey(segments[i]),
           segments'[j] = segments[i]
    PROVE  Get(key)' = Get(key)
<1>1. Get(key) = segments[i].values[1 + key - segments[i].first]
  BY Located
<1>2. segments'[j].first <= key /\ key < EndKey(segments'[j])
  OBVIOUS
<1>3. Get(key)' = segments'[j].values[1 + key - segments'[j].first]
  BY <1>2, LocatedNext
<1> QED BY <1>1, <1>3

LEMMA PushAdds ==
    ASSUME MapInv, MapInv', NEW v \in Values, Push(nextKey, v) PROVE Promise!Add(v)
<1> DEFINE n == Len(segments)
<1>1. /\ n \in Nat /\ segments \in Seq(Segment) /\ firstKey \in Nat /\ nextKey \in Nat
      /\ firstKey <= nextKey /\ nextKey + 1 <= MaxKey /\ MaxKey \in Nat
      /\ firstKey' = firstKey /\ nextKey' = nextKey + 1
  <2>1. /\ segments \in Seq(Segment) /\ firstKey \in Nat /\ nextKey \in Nat /\ firstKey <= nextKey
        /\ firstKey' = firstKey /\ nextKey' = nextKey + 1
    BY ZenonT(100) DEF MapInv, MapTypes, SegmentsDense, Push
  <2>2. nextKey + 1 <= MaxKey /\ MaxKey \in Nat
    BY SMTT(100), <2>1, SegmentAssumption DEF Push, PushRefused
  <2>3. n \in Nat
    BY SMTT(100), <2>1
  <2> QED BY ZenonT(100), <2>1, <2>2, <2>3
<1>2. /\ \A key \in firstKey..(nextKey - 1) : Get(key)' = Get(key)
      /\ \A key \in Nat : key = nextKey => Get(key)' = v
  <2>1. CASE segments # <<>> /\ SameSegment(segments[n], nextKey)
    <3> DEFINE last == segments[n]
               grown == [first |-> last.first, values |-> Append(last.values, v)]
    <3>1. n \in 1..n
      BY <1>1, <2>1, EmptyLen
    <3>2. /\ last.first \in Nat /\ last.values \in Seq(Values) /\ EndKey(last) = nextKey
          /\ EndKey(last) = last.first + Len(last.values) /\ Len(last.values) \in Nat
      BY <3>1, <2>1, SegmentFacts DEF MapInv, SegmentsDense
    <3>3. segments' = [segments EXCEPT ![n] = grown]
      BY <2>1 DEF Push
    <3>4. /\ grown.first = last.first /\ EndKey(grown) = nextKey + 1
          /\ grown.values[1 + nextKey - last.first] = v
          /\ \A p \in 1..Len(last.values) : grown.values[p] = last.values[p]
      <4>1. /\ Len(Append(last.values, v)) = Len(last.values) + 1
            /\ Append(last.values, v)[Len(last.values) + 1] = v
            /\ \A p \in 1..Len(last.values) : Append(last.values, v)[p] = last.values[p]
        BY <3>2
      <4>2. grown.first = last.first /\ grown.values = Append(last.values, v)
        OBVIOUS
      <4>3. 1 + nextKey - last.first = Len(last.values) + 1
        BY <3>2
      <4>4. EndKey(grown) = last.first + (Len(last.values) + 1)
        BY <4>1, <4>2 DEF EndKey
      <4> HIDE DEF grown
      <4>5. EndKey(grown) = nextKey + 1
        <5> DEFINE f == last.first
                   m == Len(last.values)
        <5>1. f \in Nat /\ m \in Nat /\ EndKey(grown) = f + (m + 1) /\ nextKey = f + m
          BY <4>4, <3>2
        <5> HIDE DEF f, m
        <5> QED BY <5>1
      <4> QED BY ZenonT(100), <4>1, <4>2, <4>3, <4>5
    <3> HIDE DEF grown
    <3>5. /\ n \in 1..Len(segments') /\ Len(segments') = n
          /\ segments'[n] = grown /\ \A i \in 1..n : i # n => segments'[i] = segments[i]
      BY <1>1, <3>1, <3>3
    <3>6. ASSUME NEW key \in Nat, key = nextKey PROVE Get(key)' = v
      <4>1. segments'[n].first <= key /\ key < EndKey(segments'[n])
        <5>1. last.first <= key /\ key < nextKey + 1
          <6> DEFINE f == last.first
                     m == Len(last.values)
          <6>1. f \in Nat /\ m \in Nat /\ key = f + m /\ key = nextKey
            BY <3>2, <3>6
          <6> HIDE DEF f, m
          <6>2. f <= key /\ key < nextKey + 1
            BY <6>1
          <6> QED BY <6>2 DEF f
        <5> QED BY <5>1, <3>4, <3>5
      <4>2. Get(key)' = segments'[n].values[1 + key - segments'[n].first]
        BY <3>5, <4>1, LocatedNext
      <4> QED BY <4>2, <3>4, <3>5, <3>6
    <3>7. ASSUME NEW key \in firstKey..(nextKey - 1) PROVE Get(key)' = Get(key)
      <4>1. PICK i \in 1..n : /\ segments[i].first <= key /\ key < EndKey(segments[i])
                              /\ Get(key) = segments[i].values[1 + key - segments[i].first]
        BY Lies
      <4>2. key \in Nat
        BY <1>1
      <4>3. CASE i # n
        BY <4>1, <4>2, <4>3, <3>5, Kept
      <4>4. CASE i = n
        <5> DEFINE f == last.first
                   m == Len(last.values)
        <5>a. f \in Nat /\ m \in Nat /\ nextKey = f + m /\ f <= key /\ key < nextKey /\ key \in Nat
          BY ZenonT(100), <4>1, <4>2, <4>4, <3>2
        <5>b. segments'[n].first = f /\ EndKey(segments'[n]) = nextKey + 1
          BY ZenonT(100), <3>4, <3>5
        <5> HIDE DEF f, m
        <5>c. 1 + key - f \in 1..m /\ key < nextKey + 1
          BY SMTT(100), <5>a
        <5>1. 1 + key - last.first \in 1..Len(last.values)
          BY ZenonT(100), <5>c DEF f, m
        <5>2. segments'[n].first <= key /\ key < EndKey(segments'[n])
          BY ZenonT(100), <5>a, <5>b, <5>c
        <5>3. Get(key)' = segments'[n].values[1 + key - segments'[n].first]
          BY <4>2, <5>2, <3>5, LocatedNext
        <5> QED BY <5>1, <5>3, <4>1, <4>4, <3>4, <3>5
      <4> QED BY <4>3, <4>4
    <3> QED BY <3>6, <3>7
  <2>2. CASE ~(segments # <<>> /\ SameSegment(segments[n], nextKey))
    <3> DEFINE fresh == [first |-> nextKey, values |-> <<v>>]
    <3>1. segments' = Append(segments, fresh)
      BY <2>2 DEF Push
    <3>2. fresh.first = nextKey /\ EndKey(fresh) = nextKey + 1 /\ fresh.values[1] = v
      BY <1>1 DEF EndKey
    <3> HIDE DEF fresh
    <3>3. /\ Len(segments') = n + 1 /\ n + 1 \in 1..(n + 1) /\ segments'[n + 1] = fresh
          /\ \A i \in 1..n : segments'[i] = segments[i] /\ i \in 1..(n + 1)
      BY <1>1, <3>1
    <3>4. ASSUME NEW key \in Nat, key = nextKey PROVE Get(key)' = v
      <4>1. segments'[n + 1].first <= key /\ key < EndKey(segments'[n + 1])
            /\ 1 + key - key = 1
        BY <1>1, <3>2, <3>3, <3>4
      <4>2. Get(key)' = segments'[n + 1].values[1 + key - segments'[n + 1].first]
        BY <3>3, <4>1, LocatedNext
      <4> QED BY <4>1, <4>2, <3>2, <3>3, <3>4
    <3>5. ASSUME NEW key \in firstKey..(nextKey - 1) PROVE Get(key)' = Get(key)
      <4>1. PICK i \in 1..n : /\ segments[i].first <= key /\ key < EndKey(segments[i])
                              /\ Get(key) = segments[i].values[1 + key - segments[i].first]
        BY Lies
      <4>2. key \in Nat
        BY <1>1
      <4> QED BY <4>1, <4>2, <3>3, Kept
    <3> QED BY <3>4, <3>5
  <2> QED BY <2>1, <2>2
<1>3. firstKey'..(nextKey' - 1) = (firstKey..(nextKey - 1)) \union {nextKey}
      /\ nextKey \notin firstKey..(nextKey - 1)
  BY <1>1
<1>4. DOMAIN Contents = firstKey..(nextKey - 1)
      /\ \A k \in firstKey..(nextKey - 1) : Contents[k] = Get(k)
  BY DEF Contents
<1>5. Contents' = [k \in firstKey'..(nextKey' - 1) |-> Get(k)']
  BY DEF Contents
<1>6. ASSUME NEW k \in (firstKey..(nextKey - 1)) \union {nextKey}
      PROVE  Get(k)' = IF k = nextKey THEN v ELSE Contents[k]
  BY <1>1, <1>2, <1>3, <1>4
<1>7. Contents' = [k \in DOMAIN Contents \union {nextKey} |->
                       IF k = nextKey THEN v ELSE Contents[k]]
  BY <1>3, <1>4, <1>5, <1>6
<1> QED BY <1>1, <1>7 DEF Promise!Add

LEMMA SetValueReplaces ==
    ASSUME MapInv, MapInv', NEW key \in Nat, NEW v \in Values, SetValue(key, v)
    PROVE  Promise!Replace(key, v)
<1> DEFINE i == SegmentIndex(key)
           old == segments[i]
           p == 1 + key - old.first
           new == [first |-> old.first, values |-> [old.values EXCEPT ![p] = v]]
<1>1. /\ i \in 1..Len(segments) /\ key >= old.first /\ key < EndKey(old)
      /\ key >= firstKey /\ key < nextKey
      /\ segments' = [segments EXCEPT ![i] = new] /\ firstKey' = firstKey /\ nextKey' = nextKey
  BY DEF SetValue, Found
<1>2. /\ segments \in Seq(Segment) /\ firstKey \in Nat /\ nextKey \in Nat
  BY DEF MapInv, MapTypes
<1> HIDE DEF i
<1>3. /\ old.first \in Nat /\ old.values \in Seq(Values)
      /\ Len(old.values) \in Nat /\ EndKey(old) = old.first + Len(old.values)
  BY <1>1, SegmentFacts
<1>4. p \in 1..Len(old.values)
  BY SMTT(100), <1>1, <1>3
<1>5. /\ new.first = old.first /\ new.values[p] = v /\ Len(new.values) = Len(old.values)
      /\ \A q \in 1..Len(old.values) : q # p => new.values[q] = old.values[q]
  BY SMTT(100), <1>3, <1>4
<1>6. EndKey(new) = EndKey(old)
  BY <1>5 DEF EndKey
<1> HIDE DEF new, p
<1>7. /\ Len(segments') = Len(segments) /\ i \in 1..Len(segments')
      /\ segments'[i] = new /\ \A j \in 1..Len(segments) : j # i => segments'[j] = segments[j]
  BY <1>1, <1>2
<1>8. ASSUME NEW k \in firstKey..(nextKey - 1)
      PROVE  Get(k)' = IF k = key THEN v ELSE Get(k)
  <2>1. PICK j \in 1..Len(segments) :
            /\ segments[j].first <= k /\ k < EndKey(segments[j])
            /\ Get(k) = segments[j].values[1 + k - segments[j].first]
    BY Lies
  <2>2. k \in Nat
    BY <1>2
  <2>3. CASE k = key
    <3>1. Get(k)' = segments'[i].values[1 + k - segments'[i].first]
      <4>1. segments'[i].first <= k /\ k < EndKey(segments'[i])
        BY <2>2, <2>3, <1>1, <1>3, <1>5, <1>6, <1>7
      <4> QED BY <4>1, <2>2, <1>7, LocatedNext
    <3> QED BY <3>1, <2>3, <1>5, <1>7 DEF p
  <2>4. CASE k # key /\ j = i
    <3>1. /\ 1 + k - old.first \in 1..Len(old.values) /\ 1 + k - old.first # p
          /\ segments'[i].first <= k /\ k < EndKey(segments'[i])
      <4>1. old.first <= k /\ k < old.first + Len(old.values)
        BY <2>1, <2>4, <1>3
      <4>2. 1 + k - old.first \in 1..Len(old.values) /\ 1 + k - old.first # p
        <5> DEFINE f == old.first
                   m == Len(old.values)
        <5>1. f \in Nat /\ m \in Nat /\ f <= k /\ k < f + m /\ k # key /\ p = 1 + key - f
          BY <4>1, <2>4, <1>3 DEF p
        <5> HIDE DEF f, m
        <5>2. 1 + k - f \in 1..m /\ 1 + k - f # p
          BY <5>1, <2>2
        <5> QED BY <5>2 DEF f, m
      <4> QED BY <4>1, <4>2, <1>3, <1>5, <1>6, <1>7
    <3>2. Get(k)' = segments'[i].values[1 + k - segments'[i].first]
      BY <3>1, <2>2, <1>7, LocatedNext
    <3> QED BY ZenonT(100), <3>1, <3>2, <2>1, <2>4, <1>5, <1>7
  <2>5. CASE k # key /\ j # i
    BY <2>1, <2>2, <2>5, <1>7, Kept
  <2> QED BY <2>3, <2>4, <2>5
<1>9. key \in DOMAIN Contents /\ DOMAIN Contents = firstKey..(nextKey - 1)
      /\ \A k \in firstKey..(nextKey - 1) : Contents[k] = Get(k)
  BY <1>1, <1>2 DEF Contents
<1>10. Contents' = [k \in firstKey..(nextKey - 1) |-> Get(k)']
  BY <1>1 DEF Contents
<1>11. Contents' = [k \in DOMAIN Contents |-> IF k = key THEN v ELSE Contents[k]]
  BY <1>8, <1>9, <1>10
<1>12. Contents' = [Contents EXCEPT ![key] = v]
  BY <1>9, <1>11 DEF Contents
<1> QED BY <1>1, <1>9, <1>12 DEF Promise!Replace

(* A step that keeps the entries from the new first key on, and drops the   *)
(* rest, is a DropBelow.                                                    *)
LEMMA Drops ==
    ASSUME MapInv, MapInv', firstKey <= firstKey', nextKey' = nextKey,
           \A key \in firstKey'..(nextKey - 1) : Get(key)' = Get(key)
    PROVE  \E f \in 0..MaxKey : Promise!DropBelow(f)
<1>1. /\ firstKey \in Nat /\ nextKey \in Nat /\ firstKey' \in Nat /\ firstKey' <= nextKey
      /\ nextKey <= MaxKey /\ MaxKey \in Nat
  BY SegmentAssumption DEF MapInv, MapTypes, SegmentsDense
<1> DEFINE f == firstKey'
<1>2. DOMAIN Contents = firstKey..(nextKey - 1)
      /\ \A k \in firstKey..(nextKey - 1) : Contents[k] = Get(k)
  BY DEF Contents
<1>3. {j \in firstKey..(nextKey - 1) : j >= f} = f..(nextKey - 1)
  BY <1>1
<1>4. Contents' = [k \in f..(nextKey - 1) |-> Get(k)']
  BY DEF Contents
<1>5. f..(nextKey - 1) \subseteq firstKey..(nextKey - 1)
  BY <1>1
<1>6. Contents' = [k \in {j \in DOMAIN Contents : j >= f} |-> Contents[k]]
  BY <1>2, <1>3, <1>4, <1>5
<1>7. f \in 0..MaxKey
  BY <1>1
<1>8. \E g \in 0..MaxKey : Contents' = [k \in {j \in DOMAIN Contents : j >= g} |-> Contents[k]]
  BY <1>6, <1>7
<1> QED BY <1>8 DEF Promise!DropBelow

(* Dropping the front segment, and draining it. *)
LEMMA TailKeeps ==
    ASSUME MapInv, MapInv', segments # <<>>, Len(segments') = Len(segments) - 1,
           \A i \in 1..(Len(segments) - 1) : segments'[i] = segments[i + 1],
           firstKey' = EndKey(segments[1]),
           NEW key \in firstKey'..(nextKey - 1)
    PROVE  Get(key)' = Get(key)
<1>1. /\ 1 \in 1..Len(segments) /\ Len(segments) \in Nat /\ firstKey \in Nat /\ nextKey \in Nat
      /\ segments[1].first = firstKey /\ firstKey' \in Nat
  <2>1. /\ segments \in Seq(Segment) /\ firstKey \in Nat /\ nextKey \in Nat /\ firstKey' \in Nat
        /\ segments[1].first = firstKey
    BY ZenonT(100) DEF MapInv, MapTypes, SegmentsDense
  <2>2. Len(segments) # 0
    BY ZenonT(100), <2>1, EmptyLen
  <2>3. Len(segments) \in Nat
    BY SMTT(100), <2>1
  <2>4. 1 \in 1..Len(segments)
    BY SMTT(100), <2>2, <2>3
  <2> QED BY ZenonT(100), <2>1, <2>3, <2>4
<1>2. Len(segments[1].values) \in Nat /\ firstKey' = firstKey + Len(segments[1].values)
  BY <1>1, SegmentFacts
<1>3. key \in Nat /\ key \in firstKey..(nextKey - 1)
  BY <1>1, <1>2
<1>4. PICK i \in 1..Len(segments) :
          /\ segments[i].first <= key /\ key < EndKey(segments[i])
          /\ Get(key) = segments[i].values[1 + key - segments[i].first]
  BY <1>3, Lies
<1>5. i # 1
  BY <1>1, <1>3, <1>4
<1>6. i - 1 \in 1..(Len(segments) - 1) /\ i - 1 \in 1..Len(segments') /\ (i - 1) + 1 = i
  BY <1>1, <1>5
<1>7. segments'[i - 1] = segments[i]
  BY <1>6
<1> QED BY <1>3, <1>4, <1>6, <1>7, Kept

LEMMA DrainKeeps ==
    ASSUME MapInv, MapInv', segments # <<>>, NEW c \in Nat, c < Len(segments[1].values),
           segments' = [segments EXCEPT ![1] = Drained(c)], firstKey' = firstKey + c,
           NEW key \in firstKey'..(nextKey - 1)
    PROVE  Get(key)' = Get(key)
<1>1. /\ 1 \in 1..Len(segments) /\ firstKey \in Nat /\ nextKey \in Nat
      /\ segments[1].first = firstKey /\ segments \in Seq(Segment)
  BY EmptyLen DEF MapInv, MapTypes, SegmentsDense
<1>2. /\ Drained(c).first = firstKey + c /\ EndKey(Drained(c)) = EndKey(segments[1])
      /\ \A j \in 1..(Len(segments[1].values) - c) :
            Drained(c).values[j] = segments[1].values[c + j]
  BY <1>1, DrainedFacts
<1>3. /\ Len(segments') = Len(segments) /\ segments'[1] = Drained(c)
      /\ \A i \in 1..Len(segments) : i # 1 => segments'[i] = segments[i]
  BY <1>1
<1>4. key \in Nat /\ firstKey + c <= key /\ key \in firstKey..(nextKey - 1)
  BY <1>1
<1>5. PICK i \in 1..Len(segments) :
          /\ segments[i].first <= key /\ key < EndKey(segments[i])
          /\ Get(key) = segments[i].values[1 + key - segments[i].first]
  BY <1>4, Lies
<1>6. CASE i # 1
  BY <1>3, <1>4, <1>5, <1>6, Kept
<1>7. CASE i = 1
  <2>1. segments'[1].first <= key /\ key < EndKey(segments'[1])
    BY <1>2, <1>3, <1>4, <1>5, <1>7
  <2>2. Get(key)' = Drained(c).values[1 + key - (firstKey + c)]
    BY SMTT(100), <2>1, <1>1, <1>2, <1>3, <1>4, LocatedNext
  <2>3. /\ Len(segments[1].values) \in Nat
        /\ EndKey(segments[1]) = firstKey + Len(segments[1].values)
    BY <1>1, SegmentFacts
  <2>4. /\ 1 + key - (firstKey + c) \in 1..(Len(segments[1].values) - c)
        /\ c + (1 + key - (firstKey + c)) = 1 + key - firstKey
    <3> DEFINE m == Len(segments[1].values)
    <3>1. m \in Nat /\ key < firstKey + m
      BY <2>3, <1>5, <1>7
    <3> HIDE DEF m
    <3>2. /\ 1 + key - (firstKey + c) \in 1..(m - c)
          /\ c + (1 + key - (firstKey + c)) = 1 + key - firstKey
      BY <3>1, <1>1, <1>4
    <3> QED BY <3>2 DEF m
  <2>5. Get(key) = segments[1].values[1 + key - firstKey]
    BY <1>1, <1>5, <1>7
  <2> QED BY <2>2, <2>4, <2>5, <1>2
<1> QED BY <1>6, <1>7

LEMMA PopFrontDrops ==
    ASSUME MapInv, MapInv', PopFront PROVE \E f \in 0..MaxKey : Promise!DropBelow(f)
<1>1. /\ segments # <<>> /\ segments \in Seq(Segment) /\ firstKey \in Nat /\ nextKey \in Nat
      /\ nextKey' = nextKey /\ len = nextKey - firstKey /\ 1 \in 1..Len(segments)
      /\ firstKey' = IF len - 1 = 0 THEN nextKey ELSE firstKey + 1
      /\ segments[1].first = firstKey
  BY SMTT(100), EmptyLen DEF MapInv, MapTypes, SegmentsDense, PopFront
<1>2. /\ Len(segments[1].values) \in Nat \ {0}
      /\ EndKey(segments[1]) = firstKey + Len(segments[1].values)
  BY <1>1, SegmentFacts
<1>3. firstKey' = firstKey + 1 /\ firstKey <= firstKey'
  BY <1>1
<1>4. ASSUME NEW key \in firstKey'..(nextKey - 1) PROVE Get(key)' = Get(key)
  <2>1. CASE Len(segments[1].values) = 1
    <3>1. segments' = Tail(segments)
      BY <2>1 DEF PopFront
    <3>2. /\ Len(segments') = Len(segments) - 1
          /\ \A i \in 1..(Len(segments) - 1) : segments'[i] = segments[i + 1]
      BY <3>1, <1>1, TailFacts
    <3>3. firstKey' = EndKey(segments[1])
      BY <2>1, <1>2, <1>3
    <3> QED BY <3>2, <3>3, <1>1, TailKeeps
  <2>2. CASE Len(segments[1].values) # 1
    <3>1. segments' = [segments EXCEPT ![1] = Drained(1)]
      BY <2>2 DEF PopFront
    <3>2. 1 < Len(segments[1].values) /\ 1 \in Nat
      <4> DEFINE m == Len(segments[1].values)
      <4>1. m \in Nat \ {0} /\ m # 1
        BY <2>2, <1>2
      <4> HIDE DEF m
      <4>2. 1 < m
        BY <4>1
      <4> QED BY <4>2 DEF m
    <3> QED BY <3>1, <3>2, <1>1, <1>3, DrainKeeps
  <2> QED BY <2>1, <2>2
<1> QED BY <1>1, <1>3, <1>4, Drops

LEMMA TruncateSegmentDrops ==
    ASSUME MapInv, MapInv', TruncateSegment PROVE \E f \in 0..MaxKey : Promise!DropBelow(f)
<1>1. /\ segments # <<>> /\ segments \in Seq(Segment) /\ firstKey \in Nat /\ 1 \in 1..Len(segments)
      /\ nextKey' = nextKey /\ firstKey' = EndKey(segments[1]) /\ segments[1].first = firstKey
      /\ segments' = Tail(segments)
  BY SMTT(100), EmptyLen DEF MapInv, MapTypes, SegmentsDense, TruncateSegment, WholeSegmentBelow
<1>2. /\ Len(segments') = Len(segments) - 1
      /\ \A i \in 1..(Len(segments) - 1) : segments'[i] = segments[i + 1]
  BY <1>1, TailFacts
<1>3. firstKey <= firstKey'
  <2>1. Len(segments[1].values) \in Nat /\ firstKey' = firstKey + Len(segments[1].values)
    BY <1>1, SegmentFacts
  <2> QED BY <2>1, <1>1
<1>4. \A key \in firstKey'..(nextKey - 1) : Get(key)' = Get(key)
  BY <1>1, <1>2, TailKeeps
<1> QED BY <1>1, <1>3, <1>4, Drops

LEMMA TruncatePartialDrops ==
    ASSUME MapInv, MapInv', TruncatePartial
    PROVE  (\E f \in 0..MaxKey : Promise!DropBelow(f)) \/ UNCHANGED <<Contents, nextKey>>
<1>1. /\ firstKey \in Nat /\ nextKey \in Nat /\ len = nextKey - firstKey /\ nextKey' = nextKey
  BY DEF MapInv, MapTypes, SegmentsDense, TruncatePartial
<1>2. CASE segments # <<>> /\ segments[1].first < target
  <2> DEFINE c == target - segments[1].first
  <2>1. /\ c \in Nat /\ c < Len(segments[1].values)
        /\ segments' = [segments EXCEPT ![1] = Drained(c)] /\ firstKey' = firstKey + c
    BY <1>2, PartialFacts
  <2> HIDE DEF c
  <2>2. firstKey <= firstKey'
    BY <2>1, <1>1
  <2>3. \A key \in firstKey'..(nextKey - 1) : Get(key)' = Get(key)
    BY <2>1, <1>2, DrainKeeps
  <2> QED BY <2>2, <2>3, <1>1, Drops
<1>3. CASE ~(segments # <<>> /\ segments[1].first < target)
  <2>1. segments' = segments /\ firstKey' = IF len = 0 THEN nextKey ELSE firstKey
    BY <1>3 DEF TruncatePartial
  <2>2. firstKey' = firstKey
    BY <2>1, <1>1
  <2> QED BY <2>1, <2>2, <1>1
          DEF Contents, Get, Found, Lookup, SegmentIndex, EndKey, Block
<1> QED BY <1>2, <1>3

LEMMA StepMaps ==
    MapInv /\ MapInv' /\ [SegmentNext]_segmentVars => [Promise!OMNext]_<<Contents, nextKey>>
<1> SUFFICES ASSUME MapInv, MapInv', [SegmentNext]_segmentVars
             PROVE  Promise!OMNext \/ UNCHANGED <<Contents, nextKey>>
  OBVIOUS
<1>1. 0..MaxKey \subseteq Nat /\ nextKey \in Nat
  BY DEF MapInv, MapTypes
<1>2. ASSUME NEW v \in Values, Push(nextKey, v) PROVE Promise!OMNext
  BY <1>2, PushAdds DEF Promise!OMNext
<1>3. ASSUME NEW key \in 0..MaxKey, NEW v \in Values, SetValue(key, v) PROVE Promise!OMNext
  <2>1. Promise!Replace(key, v)
    BY <1>1, <1>3, SetValueReplaces
  <2> QED BY <2>1 DEF Promise!OMNext
<1>4. CASE PopFront
  BY <1>4, PopFrontDrops DEF Promise!OMNext
<1>5. ASSUME NEW key \in 0..MaxKey, TruncateBegin(key) PROVE UNCHANGED <<Contents, nextKey>>
  BY <1>5 DEF TruncateBegin, Contents, Get, Found, Lookup, SegmentIndex, EndKey, Block
<1>6. CASE TruncateSegment
  BY <1>6, TruncateSegmentDrops DEF Promise!OMNext
<1>7. CASE TruncatePartial
  BY <1>7, TruncatePartialDrops DEF Promise!OMNext
<1>8. CASE UNCHANGED segmentVars
  BY <1>8 DEF segmentVars, Contents, Get, Found, Lookup, SegmentIndex, EndKey, Block
<1> QED BY <1>2, <1>3, <1>4, <1>5, <1>6, <1>7, <1>8 DEF SegmentNext

LEMMA InitMaps == SegmentInit => Promise!OMInit
<1> SUFFICES ASSUME SegmentInit PROVE Promise!OMInit
  OBVIOUS
<1>1. firstKey \in 0..MaxKey /\ nextKey = firstKey /\ firstKey \in Nat
  BY SegmentAssumption DEF SegmentInit
<1>2. firstKey..(nextKey - 1) = {}
  BY <1>1
<1>3. Contents = [k \in {} |-> 0]
  BY <1>2 DEF Contents
<1> QED BY <1>1, <1>3 DEF Promise!OMInit

(* The dense map implements the ordered map: for every capacity, key space  *)
(* and set of values, what get answers for the retained keys changes only   *)
(* as a plain map's would, by adding the next key, replacing a retained one *)
(* and dropping a prefix.                                                   *)
THEOREM ImplementsOrderedMap == SegmentSpec => MapImplemented
<1>1. SegmentInit => MapInv /\ Promise!OMInit
  BY InitInv, InitMaps
<1>2. MapInv /\ [SegmentNext]_segmentVars => MapInv'
  BY NextInv
<1>3. MapInv /\ MapInv' /\ [SegmentNext]_segmentVars => [Promise!OMNext]_<<Contents, nextKey>>
  BY StepMaps
<1> QED BY <1>1, <1>2, <1>3, PTL DEF SegmentSpec, MapImplemented, Promise!OMSpec

=============================================================================
