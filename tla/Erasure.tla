------------------------------ MODULE Erasure ------------------------------
(***************************************************************************)
(* The blob erasure code of the dag crate: arithmetic in GF(2^8)           *)
(* (erasure/gf256.rs), the systematic Reed-Solomon code over it            *)
(* (erasure/rs.rs), the commitment carried in a BlobRef                    *)
(* (erasure/commit.rs) and the check of an availability response           *)
(* (da/challenge.rs).  Bytes are 0 .. 255, a matrix is a sequence of rows, *)
(* rows and columns counted from 1; a shard is a sequence of bytes.  A     *)
(* hash is injective: the hash of a sequence is the sequence itself.       *)
(***************************************************************************)
EXTENDS Integers, Sequences, FiniteSets, SequencesExt

CONSTANTS
    K,          \* cfg.k, data shards
    N,          \* cfg.n, data and parity shards
    ShardSize   \* cfg.data_shard_size

\* What validate_cfg accepts (k = 0, n <= k, an empty shard or more rows than
\* GF(256) has elements make every encode and decode fail).
ASSUME CfgValid ==
    /\ K \in Nat \ {0} /\ N \in Nat /\ N > K /\ N <= 256
    /\ ShardSize \in Nat \ {0}

Byte == 0 .. 255
Indices == 0 .. N - 1
Failed == <<-1>>       \* an Err of decode_shards
Singular == <<>>        \* an Err of invert_matrix

-----------------------------------------------------------------------------
(* GF(256), primitive polynomial 0x11D. *)

Bit(a, i) == (a \div 2^i) % 2

\* gf256::add: exclusive or of two bytes.
add(a, b) ==
    LET x[i \in 0 .. 8] == IF i = 0 THEN 0
                           ELSE 2 * x[i - 1] + ((Bit(a, 8 - i) + Bit(b, 8 - i)) % 2)
    IN x[8]

\* f itself, written so that TLC tabulates it once.
Table(f) == CHOOSE t \in {f} : t = f

mul_by_generator == Table([x \in Byte |->
    IF x >= 128 THEN add((2 * x) % 256, 29) ELSE 2 * x])

power[i \in 0 .. 254] == IF i = 0 THEN 1 ELSE mul_by_generator[power[i - 1]]

\* The powers of the generator and their inverse, built once (tables()).
exp == Table(power)
log == Table([x \in 1 .. 255 |-> CHOOSE i \in 0 .. 254 : exp[i] = x])

mul(a, b) ==
    IF a = 0 \/ b = 0 THEN 0 ELSE exp[(log[a] + log[b]) % 255]

inv(a) == IF a = 0 THEN 0 ELSE exp[(255 - log[a]) % 255]

\* gf256::pow: square the base for every bit of n, multiply where it is set.
pow(a, n) ==
    LET square[i \in 0 .. 8] == IF i = 0 THEN a ELSE mul(square[i - 1], square[i - 1])
        acc[i \in 0 .. 8] == IF i = 0 THEN 1
                             ELSE IF Bit(n, i - 1) = 1 THEN mul(acc[i - 1], square[i - 1])
                             ELSE acc[i - 1]
    IN acc[8]

Sum(bytes) ==
    LET sum[i \in 0 .. Len(bytes)] == IF i = 0 THEN 0 ELSE add(sum[i - 1], bytes[i])
    IN sum[Len(bytes)]

-----------------------------------------------------------------------------
(* Matrices. *)

mat_mul(A, B) ==
    Table([i \in 1 .. Len(A) |-> Table([j \in 1 .. Len(B[1]) |->
        Sum([t \in 1 .. Len(B) |-> mul(A[i][t], B[t][j])])])])

\* One column of the Gauss-Jordan elimination of the augmented matrix: the first
\* row at or below col with a nonzero entry is swapped up, normalised, and
\* subtracted from all the others.
Eliminate(aug, col) ==
    LET pivots == {r \in col .. Len(aug) : aug[r][col] # 0}
        pivot == CHOOSE r \in pivots : \A q \in pivots : r <= q
        swapped == [aug EXCEPT ![col] = aug[pivot], ![pivot] = aug[col]]
        top == Table([j \in 1 .. Len(aug[1]) |->
                         mul(swapped[col][j], inv(swapped[col][col]))])
    IN IF aug = Singular \/ pivots = {} THEN Singular
       ELSE Table([i \in 1 .. Len(aug) |->
               IF i = col THEN top
               ELSE Table([j \in 1 .. Len(top) |->
                       add(swapped[i][j], mul(swapped[i][col], top[j]))])])

invert_matrix(mat) ==
    LET n == Len(mat)
        aug == [i \in 1 .. n |->
                   mat[i] \o [j \in 1 .. n |-> IF i = j THEN 1 ELSE 0]]
        done == FoldLeft(Eliminate, aug, [c \in 1 .. n |-> c])
    IN IF done = Singular THEN Singular
       ELSE [i \in 1 .. n |-> SubSeq(done[i], n + 1, 2 * n)]

vandermonde == Table([r \in 1 .. N |-> Table([c \in 1 .. K |-> pow(r - 1, c - 1)])])

\* E = V . inv(V_top): the top K rows are the identity, so the first K shards are
\* the payload itself.  Built once (the code caches it per (n, k)).
encoding_matrix == mat_mul(vandermonde, invert_matrix(SubSeq(vandermonde, 1, K)))

-----------------------------------------------------------------------------
(* Encoding and decoding. *)

padded_len == K * ShardSize

pad_to_k_shards(payload) ==
    [i \in 1 .. padded_len |-> IF i <= Len(payload) THEN payload[i] ELSE 0]

\* Shard row of the code whose data shards are given: sum of row entries times
\* data shards, byte by byte (mul_slice_add).
Combine(row, shards) ==
    Table([b \in 1 .. ShardSize |->
               Sum([j \in 1 .. Len(row) |-> mul(row[j], shards[j][b])])])

\* encode_shards of a payload no longer than padded_len; shard i is at i + 1.
encode_shards(payload) ==
    LET padded == pad_to_k_shards(payload)
        data == [i \in 1 .. K |->
                    SubSeq(padded, (i - 1) * ShardSize + 1, i * ShardSize)]
    IN [i \in 1 .. N |-> IF i <= K THEN data[i] ELSE Combine(encoding_matrix[i], data)]

\* What decode_shards refuses: an index beyond the code, a shard of another length.
Fits(i, shard) == i \in Indices /\ Len(shard) = ShardSize

\* decode_shards of the shards present, a function from indices to shards: the
\* K rows of lowest index give the data shards, which overwrite the ones
\* present; the result is cut to orig_len.
decode_shards(present, orig_len) ==
    LET rows == SetToSortSeq(DOMAIN present, <)
        use_rows == SubSeq(rows, 1, K)
        inverse == invert_matrix([t \in 1 .. K |-> encoding_matrix[use_rows[t] + 1]])
        data == [j \in 1 .. K |->
                    Combine(inverse[j], [t \in 1 .. K |-> present[use_rows[t]]])]
    IN IF \E i \in DOMAIN present : ~Fits(i, present[i]) THEN Failed
       ELSE IF Len(rows) < K \/ inverse = Singular THEN Failed
       ELSE SubSeq(FlattenSeq(data), 1, orig_len)

\* The root over all shards, in order.
rs_merkle_commitment(shards) == shards

-----------------------------------------------------------------------------
(* Availability challenges. *)

\* Mutant: a response that decodes is accepted as it is.
DecodesOnly(indices, response, commitment, size_bytes) ==
    /\ DOMAIN response = indices
    /\ Cardinality(indices) >= K =>
         LET decoded == decode_shards(response, size_bytes)
         IN decoded # Failed /\ rs_merkle_commitment(encode_shards(decoded)) = commitment

\* verify_availability_response: the response answers the indices asked for; with
\* K shards or more it must decode to a payload whose commitment is the expected
\* one, and every shard of it must be a shard of that payload.
verify_availability_response(indices, response, commitment, size_bytes) ==
    /\ DOMAIN response = indices
    /\ Cardinality(indices) >= K =>
         LET decoded == decode_shards(response, size_bytes)
             full_shards == encode_shards(decoded)
         IN /\ decoded # Failed
            /\ rs_merkle_commitment(full_shards) = commitment
            /\ \A i \in indices : full_shards[i + 1] = response[i]
=============================================================================
