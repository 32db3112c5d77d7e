---------------------------- MODULE Certificate ----------------------------
(***************************************************************************)
(* Quorum certificates of the DAG crate (dag/src/cert.rs) with the signer  *)
(* bitmaps and BLS aggregates of the crypto crate that they are made of.   *)
(*                                                                         *)
(* Validators are positions 0 .. N-1 of the validator set.  The content    *)
(* hash is injective, so the hash of a vertex is its content.  A bitmap is *)
(* its length in bytes and the set of its one bits, padding bits included. *)
(* An aggregate signature is the bag of the signatures in it, a signature  *)
(* being its signer and the message signed: it verifies for a list of keys *)
(* and a message iff it holds exactly one signature of each key over that  *)
(* message, which is what the BLS pairing equation checks.                 *)
(***************************************************************************)
EXTENDS Integers, FiniteSets, FiniteSetsExt

CONSTANT N              \* validators in the set

ASSUME SetAssumption == N \in Nat \ {0}

Index == 0 .. N - 1

quorum_threshold(n) == 2 * ((n - 1) \div 3) + 1

(********************************* Bitmaps *********************************)
Bytes(bits) == (bits + 7) \div 8
NewBitmap == [bytes |-> Bytes(N), ones |-> {}]
from_bytes(bm) == bm.bytes = Bytes(N)
set(i, bm) == [bm EXCEPT !.ones = @ \cup {i}]
get(bm, i) == i \in bm.ones

(******************************** Aggregates *******************************)
aggregate_sigs(contributors) ==
    [p \in {<<i, contributors[i]>> : i \in DOMAIN contributors} |-> 1]

verify_aggregate(indices, msg, sig) ==
    indices # {} /\ sig = [p \in indices \X {msg} |-> 1]

(******************************* Certificates ******************************)
can_assemble(contributors) ==
    /\ Cardinality(DOMAIN contributors) >= quorum_threshold(N)
    /\ DOMAIN contributors \subseteq Index

(* `contributors` maps positions to the message each has signed: the books *)
(* it comes from are keyed by voter.  The certificate, if there is one.    *)
assemble_cert(vertex, contributors) ==
    IF can_assemble(contributors)
    THEN {[vertex |-> vertex, hash |-> vertex,
           bitmap |-> FoldSet(set, NewBitmap, DOMAIN contributors),
           sig |-> aggregate_sigs(contributors)]}
    ELSE {}

bitmap_indices(bm) == {i \in Index : get(bm, i)}

\* Mutant: counts the one bits of the bitmap, padding included, and not
\* the validators they stand for.
CountsPadding(cv) ==
    /\ cv.hash = cv.vertex
    /\ from_bytes(cv.bitmap)
    /\ Cardinality(cv.bitmap.ones) >= quorum_threshold(N)
    /\ verify_aggregate(bitmap_indices(cv.bitmap), cv.vertex, cv.sig)

verify_certified_vertex(cv) ==
    /\ cv.hash = cv.vertex
    /\ from_bytes(cv.bitmap)
    /\ Cardinality(bitmap_indices(cv.bitmap)) >= quorum_threshold(N)
    /\ verify_aggregate(bitmap_indices(cv.bitmap), cv.vertex, cv.sig)
=============================================================================
