----------------------------- MODULE OrderedMap -----------------------------
(***************************************************************************)
(* What ordered-segment-map promises its users: the retained entries of a  *)
(* dense, append-only key space.  Entries are added at the end, replaced   *)
(* in place and dropped from the front; segments do not appear.            *)
(***************************************************************************)
EXTENDS Naturals

CONSTANTS Values, MaxKey

VARIABLES contents, end     \* the retained entries, a function on keys; the next key

OMInit == \E first \in 0..MaxKey : end = first /\ contents = [k \in {} |-> 0]

(* The next key is given a value; the last key of the key space never is. *)
Add(v) ==
    /\ end < MaxKey
    /\ contents' = [k \in DOMAIN contents \union {end} |-> IF k = end THEN v ELSE contents[k]]
    /\ end' = end + 1

(* A retained key is given another value. *)
Replace(key, v) ==
    /\ key \in DOMAIN contents
    /\ contents' = [contents EXCEPT ![key] = v]
    /\ UNCHANGED end

(* Every key below first is dropped. *)
DropBelow(first) ==
    /\ contents' = [k \in {j \in DOMAIN contents : j >= first} |-> contents[k]]
    /\ UNCHANGED end

OMNext ==
    \/ \E v \in Values : Add(v)
    \/ \E k \in 0..MaxKey, v \in Values : Replace(k, v)
    \/ \E k \in 0..MaxKey : DropBelow(k)

OMSpec == OMInit /\ [][OMNext]_<<contents, end>>

=============================================================================
