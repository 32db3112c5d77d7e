------------------------------ MODULE Storage ------------------------------
(***************************************************************************)
(* The RocksDB stores behind the node (crates/storage) and the read-only   *)
(* queries over them (apps/node/src/query.rs), as operators on a database: *)
(* one function per column family, from the keys present to their values.  *)
(* A put is atomic and durable, which is RocksDB's contract; it may fail,  *)
(* which leaves the database as it was.  A checkpoint is its height and    *)
(* its content.  The column of checkpoints is keyed by height and the one  *)
(* of certificates by the hash of the checkpoint: a checkpoint replaces    *)
(* another one of its height, and a certificate does not.                  *)
(***************************************************************************)
EXTENDS Integers, FiniteSets, FiniteSetsExt, TLC

CONSTANT ScanLimit      \* heights a query looks at: 128 in the code

ASSUME ScanAssumption == ScanLimit \in Nat

Accepted == 0
SoftConfirmed == 1
Justified == 2
Finalized == 3

(* The column families the host writes.  Keys are injective encodings of   *)
(* what they are made of.                                                  *)
Columns == {"vertex", "macro_cp", "macro_qc", "slash", "blob_status"}
EmptyDb == [c \in Columns |-> <<>>]

(* The map f with the value v at key k.                                    *)
Put(f, k, v) == [x \in DOMAIN f \cup {k} |-> IF x = k THEN v ELSE f[x]]

put_raw(db, cf, key, value) == [db EXCEPT ![cf] = Put(@, key, value)]
has_raw(db, cf, key) == key \in DOMAIN db[cf]

vertex_key(v) == <<v.round, v.author>>
put_vertex(db, cv) == put_raw(db, "vertex", vertex_key(cv.vertex), cv)
get_vertex(db, v) ==
    IF has_raw(db, "vertex", vertex_key(v)) THEN {db["vertex"][vertex_key(v)]} ELSE {}

(* The hash that checkpoint::build computes binds what it is made of.      *)
hash(cp) == <<cp.height, cp.root>>

store_macro_checkpoint(db, cp) == put_raw(db, "macro_cp", cp.height, cp)
store_macro_qc(db, checkpoint_hash) ==
    put_raw(db, "macro_qc", checkpoint_hash, checkpoint_hash)
macro_checkpoint_at(db, h) ==
    IF has_raw(db, "macro_cp", h) THEN {db["macro_cp"][h]} ELSE {}
macro_qc_for(db, checkpoint_hash) == has_raw(db, "macro_qc", checkpoint_hash)

append_slash_evidence(db, seq, ev) == put_raw(db, "slash", seq, ev)

blob_status(db, b) ==
    IF has_raw(db, "blob_status", b) THEN db["blob_status"][b] ELSE Accepted

\* Mutant: a plain put.
put_latest(db, b, s) == put_raw(db, "blob_status", b, s)

put_monotonic(db, b, s) ==
    IF has_raw(db, "blob_status", b) /\ s <= db["blob_status"][b]
    THEN db
    ELSE put_raw(db, "blob_status", b, s)

(* -1 for the absence of an answer.                                        *)
latest_finalized(db) ==
    LET found == {h \in 0 .. ScanLimit - 1 :
                    \E cp \in macro_checkpoint_at(db, h) : macro_qc_for(db, hash(cp))}
    IN  IF found = {} THEN -1 ELSE Max(found)
=============================================================================
