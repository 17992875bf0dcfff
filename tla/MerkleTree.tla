------------------------------ MODULE MerkleTree ------------------------------
(***************************************************************************)
(* core/merkle.py.  A hash is a tuple: a leaf's has one element, an inner  *)
(* node's is the pair of the hashes below it, and that of nothing is <<>>. *)
(* So two hashes are equal exactly if SHA-256 without collisions says so.  *)
(*                                                                         *)
(* A definition introduced by "Mutation" is a plausible mistake in the     *)
(* definition that follows it; no specification uses it.                   *)
(***************************************************************************)
EXTENDS Integers, Sequences

(* A level of odd length repeats its last hash.                             *)
Even(level) == IF Len(level) % 2 = 1 THEN Append(level, level[Len(level)]) ELSE level

Parents(level) ==
    LET even == Even(level)
    IN  [i \in 1 .. (Len(even) \div 2) |-> <<even[2 * i - 1], even[2 * i]>>]

(* The levels of the tree over these leaves, from level 0 upwards.          *)
Levels(leaves) ==
    LET up[n \in 0 .. Len(leaves)] ==
            IF n = 0 THEN leaves
            ELSE LET below == up[n - 1]
                 IN  IF Len(below) <= 1 THEN below ELSE Parents(below)
    IN  up

(* compute_merkle_root.                                                     *)
Root(leaves) ==
    LET top == Levels(leaves)[Len(leaves)]
    IN  IF leaves = <<>> THEN <<>> ELSE top[1]

(* Where the path from leaf i passes each level, counted from 1.            *)
Path(i, top) ==
    LET place[n \in 0 .. top] == IF n = 0 THEN i ELSE (place[n - 1] + 1) \div 2
    IN  place

(* How many levels are below the root.                                      *)
Height(leaves) ==
    CHOOSE n \in 0 .. Len(leaves) :
        /\ Len(Levels(leaves)[n]) = 1
        /\ \A m \in 0 .. n - 1 : Len(Levels(leaves)[m]) > 1

(* generate_merkle_proof: the sibling on every level below the root.        *)
MerkleProof(leaves, i) ==
    LET levels == Levels(leaves)
        place == Path(i, Len(leaves))
        Sibling(n) ==
            IF place[n] % 2 = 1
            THEN [hash |-> Even(levels[n])[place[n] + 1], position |-> "right"]
            ELSE [hash |-> levels[n][place[n] - 1], position |-> "left"]
    IN  [k \in 1 .. Height(leaves) |-> Sibling(k - 1)]

(* Mutation: the siblings' positions are not looked at.                     *)
VerifiesUnplaced(leaf, proof, root) ==
    LET climb[k \in 0 .. Len(proof)] ==
            IF k = 0 THEN leaf ELSE <<climb[k - 1], proof[k].hash>>
    IN  climb[Len(proof)] = root

(* verify_merkle_proof.                                                     *)
Verifies(leaf, proof, root) ==
    LET climb[k \in 0 .. Len(proof)] ==
            IF k = 0 THEN leaf
            ELSE IF proof[k].position = "left"
                 THEN <<proof[k].hash, climb[k - 1]>>
                 ELSE <<climb[k - 1], proof[k].hash>>
    IN  climb[Len(proof)] = root
===============================================================================
