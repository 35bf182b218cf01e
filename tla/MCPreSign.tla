------------------------------ MODULE MCPreSign ------------------------------
(* Two buffers, two keys, two messages and two commitments: a buffer reused, *)
(* copied over another, finalised with the wrong key or left over from a     *)
(* failed call all occur.                                                     *)
EXTENDS PreSign, TLC

CONSTANTS b1, b2, m1, m2, k1, k2

const_Buf == {b1, b2}
const_Msg == {m1, m2}
const_Key == {k1, k2}

Symmetric == Permutations(const_Buf) \cup Permutations(const_Msg) \cup Permutations(const_Key)
==============================================================================
