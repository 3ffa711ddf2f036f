------------------------------ MODULE Poseidon2 -----------------------------
(***************************************************************************)
(* The Poseidon2 permutation in its three forms: the library the clients   *)
(* hash with, the circuit's template, and the host function the contracts  *)
(* call with parameters of their own.  They must agree, round by round, or *)
(* no proof verifies and no path leads to a root.  The rounds, the layers  *)
(* and the constants are the code's; the field is the integers modulo Q.   *)
(*                                                                         *)
(* The reference is the definition by matrices, which is what the host     *)
(* computes: with the contracts' table for the widths they use, and with   *)
(* the library's for its other instances.                                  *)
(***************************************************************************)
EXTENDS Poseidon2Tables, FiniteSets, SequencesExt

VARIABLE perm    \* one permutation: instance, input, round, a state for each form

-----------------------------------------------------------------------------
(* The instances of the library, and what Poseidon2Params::new demands.    *)

\* Poseidon2Params::new.
Params(t, d, rounds_f, rounds_p, mat_internal_diag_m_1, mat_internal, round_constants) ==
  [t |-> t, d |-> d, rounds_f_div_2 |-> rounds_f \div 2, even |-> rounds_f % 2 = 0,
   rounds_p |-> rounds_p, rounds |-> rounds_f + rounds_p, diag |-> mat_internal_diag_m_1,
   internal |-> mat_internal, rc |-> round_constants]

POSEIDON2_BN256_PARAMS_2 ==
  Params(2, 5, 8, 56, BN256_MAT_DIAG2_M_1, BN256_MAT_INTERNAL2, BN256_RC2)
POSEIDON2_BN256_PARAMS_3 ==
  Params(3, 5, 8, 56, BN256_MAT_DIAG3_M_1, BN256_MAT_INTERNAL3, BN256_RC3)
POSEIDON2_BN256_PARAMS_4 ==
  Params(4, 5, 8, 56, BN256_MAT_DIAG4_M_1, BN256_MAT_INTERNAL4, BN256_RC4)
POSEIDON2_BLS_2_PARAMS ==
  Params(2, 5, 8, 56, BLS_MAT_DIAG2_M_1, BLS_MAT_INTERNAL2, BLS_RC2)
POSEIDON2_BLS_3_PARAMS ==
  Params(3, 5, 8, 56, BLS_MAT_DIAG3_M_1, BLS_MAT_INTERNAL3, BLS_RC3)
POSEIDON2_BLS_4_PARAMS ==
  Params(4, 5, 8, 56, BLS_MAT_DIAG4_M_1, BLS_MAT_INTERNAL4, BLS_RC4)
POSEIDON2_BLS_8_PARAMS ==
  Params(8, 5, 8, 57, BLS_MAT_DIAG8_M_1, BLS_MAT_INTERNAL8, BLS_RC8)
POSEIDON2_PALLAS_3_PARAMS ==
  Params(3, 5, 8, 56, PALLAS_MAT_DIAG3_M_1, PALLAS_MAT_INTERNAL3, PALLAS_RC3)
POSEIDON2_PALLAS_4_PARAMS ==
  Params(4, 5, 8, 56, PALLAS_MAT_DIAG4_M_1, PALLAS_MAT_INTERNAL4, PALLAS_RC4)
POSEIDON2_PALLAS_8_PARAMS ==
  Params(8, 5, 8, 57, PALLAS_MAT_DIAG8_M_1, PALLAS_MAT_INTERNAL8, PALLAS_RC8)
POSEIDON2_VESTA_PARAMS ==
  Params(3, 5, 8, 56, VESTA_MAT_DIAG3_M_1, VESTA_MAT_INTERNAL3, VESTA_RC3)
POSEIDON2_GOLDILOCKS_8_PARAMS ==
  Params(8, 7, 8, 22, GOLDILOCKS_MAT_DIAG8_M_1, GOLDILOCKS_MAT_INTERNAL8, GOLDILOCKS_RC8)
POSEIDON2_GOLDILOCKS_12_PARAMS ==
  Params(12, 7, 8, 22, GOLDILOCKS_MAT_DIAG12_M_1, GOLDILOCKS_MAT_INTERNAL12, GOLDILOCKS_RC12)
POSEIDON2_GOLDILOCKS_16_PARAMS ==
  Params(16, 7, 8, 22, GOLDILOCKS_MAT_DIAG16_M_1, GOLDILOCKS_MAT_INTERNAL16, GOLDILOCKS_RC16)
POSEIDON2_GOLDILOCKS_20_PARAMS ==
  Params(20, 7, 8, 22, GOLDILOCKS_MAT_DIAG20_M_1, GOLDILOCKS_MAT_INTERNAL20, GOLDILOCKS_RC20)
POSEIDON2_BABYBEAR_16_PARAMS ==
  Params(16, 7, 8, 13, BABYBEAR_MAT_DIAG16_M_1, BABYBEAR_MAT_INTERNAL16, BABYBEAR_RC16)
POSEIDON2_BABYBEAR_24_PARAMS ==
  Params(24, 7, 8, 21, BABYBEAR_MAT_DIAG24_M_1, BABYBEAR_MAT_INTERNAL24, BABYBEAR_RC24)

Instances ==
  << POSEIDON2_BN256_PARAMS_2, POSEIDON2_BN256_PARAMS_3, POSEIDON2_BN256_PARAMS_4,
     POSEIDON2_BLS_2_PARAMS, POSEIDON2_BLS_3_PARAMS, POSEIDON2_BLS_4_PARAMS,
     POSEIDON2_BLS_8_PARAMS, POSEIDON2_PALLAS_3_PARAMS, POSEIDON2_PALLAS_4_PARAMS,
     POSEIDON2_PALLAS_8_PARAMS, POSEIDON2_VESTA_PARAMS, POSEIDON2_GOLDILOCKS_8_PARAMS,
     POSEIDON2_GOLDILOCKS_12_PARAMS, POSEIDON2_GOLDILOCKS_16_PARAMS,
     POSEIDON2_GOLDILOCKS_20_PARAMS, POSEIDON2_BABYBEAR_16_PARAMS,
     POSEIDON2_BABYBEAR_24_PARAMS >>

\* The asserts of Poseidon2Params::new.
new_accepts(p) == p.d \in {3, 5, 7, 11} /\ p.even

\* The widths and degrees for which permutation has a branch; others panic.
\* It reads a row of constants for each round and a diagonal of the width.
permutation_runs(p) ==
  /\ p.t \in {2, 3} \union {4, 8, 12, 16, 20, 24}
  /\ p.d \in {3, 5, 7}
  /\ Len(p.rc) >= p.rounds /\ \A r \in DOMAIN p.rc : Len(p.rc[r]) = p.t
  /\ Len(p.diag) = p.t

\* The round constants of round r, counted from 0.
round_constants(p, r) == p.rc[r + 1]

IsPartial(p, r) == r \in p.rounds_f_div_2..(p.rounds_f_div_2 + p.rounds_p - 1)

-----------------------------------------------------------------------------
(* The library.                                                            *)

FieldSum(s) == FoldLeft(LAMBDA a, b : (a + b) % Q, 0, s)

Times(a, b) == (a * b) % Q

\* Squarings and products, by degree.
sbox_p(d, x) ==
  LET x2 == Times(x, x)
      x4 == Times(x2, x2)
  IN  CASE d = 3 -> Times(x2, x)
        [] d = 5 -> Times(x4, x)
        [] d = 7 -> Times(Times(x4, x2), x)

add_rc(s, rc) == [j \in DOMAIN s |-> (s[j] + rc[j]) % Q]

\* The 4x4 matrix with few additions.
m4(a, b, c, d) ==
  LET t0 == a + b   t1 == c + d   t2 == 2 * b + t1   t3 == 2 * d + t0
      t4 == 4 * t1 + t3   t5 == 4 * t0 + t2
  IN  <<(t3 + t5) % Q, t5 % Q, (t2 + t4) % Q, t4 % Q>>

\* The place of the j-th element in its group of four.
Lane(j) == ((j - 1) % 4) + 1

\* m4 on each group of four.
matmul_m4(s) ==
  [j \in DOMAIN s |-> LET g == j - Lane(j)
                          v == m4(s[g + 1], s[g + 2], s[g + 3], s[g + 4])
                      IN  v[Lane(j)]]

matmul_external(s) ==
  LET t == Len(s)
      groups == matmul_m4(s)
      stored(l) == FieldSum([i \in 1..(t \div 4) |-> groups[4 * (i - 1) + l]])
  IN  CASE t \in {2, 3} -> [j \in 1..t |-> (s[j] + FieldSum(s)) % Q]
        [] t = 4        -> matmul_m4(s)
        [] OTHER        -> [j \in 1..t |-> (groups[j] + stored(Lane(j))) % Q]

\* Widths two and three have their diagonals built in.
matmul_internal(p, s) ==
  LET sum == FieldSum(s)
  IN  [j \in 1..p.t |-> IF p.t \in {2, 3}
                        THEN (sum + (IF j = p.t THEN 2 * s[j] ELSE s[j])) % Q
                        ELSE (sum + Times(s[j], p.diag[j])) % Q]

\* Round r of permutation.
permutation_round(p, s, r) ==
  IF IsPartial(p, r)
  THEN matmul_internal(p, [s EXCEPT ![1] = sbox_p(p.d, (@ + round_constants(p, r)[1]) % Q)])
  ELSE LET added == add_rc(s, round_constants(p, r))
       IN  matmul_external([j \in DOMAIN s |-> sbox_p(p.d, added[j])])

-----------------------------------------------------------------------------
(* The circuit, for widths two to four.                                    *)

SBox(x) == Times(x, Times(Times(x, x), Times(x, x)))

MatMul_M4(s) ==
  LET t0 == s[1] + s[2]        t1 == s[3] + s[4]
      t2 == 2 * s[2] + t1      t3 == 2 * s[4] + t0
      t4 == 4 * t1 + t3        t5 == 4 * t0 + t2
  IN  <<(t3 + t5) % Q, t5 % Q, (t2 + t4) % Q, t4 % Q>>

LinearLayer(s) == IF Len(s) = 4 THEN MatMul_M4(s) ELSE [j \in DOMAIN s |-> (FieldSum(s) + s[j]) % Q]

ExternalRound(i, s) ==
  LinearLayer([j \in DOMAIN s |-> SBox((s[j] + POSEIDON_FULL_ROUNDS(Len(s))[i + 1][j]) % Q)])

InternalRound(i, s) ==
  LET sb    == SBox((s[1] + POSEIDON_PARTIAL_ROUNDS(Len(s))[i + 1]) % Q)
      total == FieldSum([s EXCEPT ![1] = sb])
      diag  == POSEIDON_INTERNAL_MAT_DIAG(Len(s))
  IN  [j \in DOMAIN s |-> (total + Times(diag[j], IF j = 1 THEN sb ELSE s[j])) % Q]

\* Step k of Permutation: which template the k-th state goes through.
circuit_round(s, k) ==
  CASE k < 4        -> ExternalRound(k, s)
    [] k \in 4..59  -> InternalRound(k - 4, s)
    [] k >= 60      -> ExternalRound(k - 56, s)

-----------------------------------------------------------------------------
(* The reference: matrices, powers, and the arguments of the contracts.    *)

M4 == << <<5, 7, 1, 3>>, <<4, 6, 1, 1>>, <<1, 3, 5, 7>>, <<1, 1, 4, 6>> >>

ExternalMatrix(t) ==
  [i \in 1..t |-> [j \in 1..t |->
     CASE t \in {2, 3} -> IF i = j THEN 2 ELSE 1
       [] t = 4        -> M4[i][j]
       [] OTHER        -> (IF i - Lane(i) = j - Lane(j) THEN 2 ELSE 1) * M4[Lane(i)][Lane(j)]]]

mat_vec_mul(mat, s) ==
  [i \in DOMAIN s |-> FieldSum([j \in DOMAIN s |-> Times(mat[i][j], s[j])])]

Power(x, d) == FoldLeft(LAMBDA a, b : Times(a, x), 1, [k \in 1..d |-> k])

\* What the host is given: the contracts' arguments, or an instance's.
host_constants(p, r) ==
  CASE p = POSEIDON2_BN256_PARAMS_2 -> get_round_constants_t2[r + 1]
    [] p = POSEIDON2_BN256_PARAMS_3 -> get_round_constants_t3[r + 1]
    [] OTHER                        -> round_constants(p, r)

host_round(p, s, r) ==
  LET added == add_rc(s, host_constants(p, r))
  IN  IF IsPartial(p, r) THEN mat_vec_mul(p.internal, [added EXCEPT ![1] = Power(@, p.d)])
      ELSE mat_vec_mul(ExternalMatrix(p.t), [j \in DOMAIN s |-> Power(added[j], p.d)])

-----------------------------------------------------------------------------
(* Runs of the permutation.                                                *)

\* The instances whose permutation the circuits have a template for.
InCircuit(i) == Instances[i] \in {POSEIDON2_BN256_PARAMS_2, POSEIDON2_BN256_PARAMS_3,
                                  POSEIDON2_BN256_PARAMS_4}

\* Inputs: for the widths the pool hashes with, every state made of 0, 1 and Q - 1;
\* for the others the states that count up, as the crate's known answers do.
Inputs(i) ==
  LET t == Instances[i].t
  IN  IF InCircuit(i) THEN [1..t -> {0, 1, Q - 1}] ELSE {[j \in 1..t |-> j - 1]}

Poseidon2Init ==
  \E i \in DOMAIN Instances : \E input \in Inputs(i) :
    perm = [inst |-> i, input |-> input, round |-> -1,
            lib |-> input, circ |-> input, host |-> input]

\* The linear layer at the beginning.
initial_layer ==
  /\ perm.round = -1
  /\ perm' = [perm EXCEPT !.round = 0,
                          !.lib   = matmul_external(@),
                          !.circ  = IF InCircuit(perm.inst) THEN LinearLayer(@) ELSE @,
                          !.host  = mat_vec_mul(ExternalMatrix(Len(@)), @)]

next_round ==
  LET p == Instances[perm.inst]
  IN  /\ perm.round \in 0..(p.rounds - 1)
      /\ perm' = [perm EXCEPT !.round = @ + 1,
                              !.lib   = permutation_round(p, @, perm.round),
                              !.circ  = IF InCircuit(perm.inst) THEN circuit_round(@, perm.round) ELSE @,
                              !.host  = host_round(p, @, perm.round)]

Poseidon2Next == initial_layer \/ next_round

Poseidon2Spec == Poseidon2Init /\ [][Poseidon2Next]_perm

-----------------------------------------------------------------------------
(* Hashes.  Each form takes the first element, or feeds its input forward. *)

Done == perm.round = Instances[perm.inst].rounds

\* The library's compression of two nodes.
poseidon2_compression(out, input) == (out[1] + input[1]) % Q

\* The contract adds after the call and reduces when it must.
poseidon2_compress(out, left) ==
  LET sum == out[1] + left IN IF sum >= Q THEN sum % Q ELSE sum

\* The circuit adds both inputs and keeps the first.
PoseidonCompress(out, input) ==
  LET perm_out == [i \in 1..2 |-> (out[i] + input[i]) % Q] IN perm_out[1]

\* The last element of the input separates domains: 0 when none is given.
poseidon2_hash_internal(out) == out[1]

\* Client, circuit and contract compute one permutation: after every round the
\* states agree, with the library's cheap layers, its built-in diagonals, the
\* circuit's split tables and the copy of the constants each of them has; the
\* compressions made from them agree as well, and every instance the library
\* ships passes its own checks, has a branch in every layer and computes what its
\* matrices say.
PermutationsAgree ==
  /\ perm.lib = perm.host
  /\ InCircuit(perm.inst) => perm.circ = perm.host
  /\ Done /\ InCircuit(perm.inst) /\ Len(perm.input) = 2 =>
       /\ poseidon2_compression(perm.lib, perm.input) = poseidon2_compress(perm.host, perm.input[1])
       /\ PoseidonCompress(perm.circ, perm.input) = poseidon2_compress(perm.host, perm.input[1])
  /\ Done => poseidon2_hash_internal(perm.lib) \in 0..(Q - 1)
  /\ new_accepts(Instances[perm.inst]) /\ permutation_runs(Instances[perm.inst])
=============================================================================
