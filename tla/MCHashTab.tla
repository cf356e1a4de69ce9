------------------------------ MODULE MCHashTab ------------------------------
(***************************************************************************)
(* Instances of HashTab for TLC.                                           *)
(***************************************************************************)
EXTENDS HashTab

CONSTANTS s1, s2, s3, s4

\* Numbers and strings that share chains, without recycled strings: small
\* numbers move between the two parts, and an array part gets holes.
Mixed(asize, hsize) ==
  [keys |-> {1, 2, 3, s1, s2}, asize |-> asize, hsize |-> hsize, recycled |-> 0,
   hash |-> [k \in Key |-> IF k \in IntKey THEN 5 * k ELSE 1]]

\* Strings alone, one of which is recycled: s4 can find the node of its main
\* position on the chain of the others.
Strings ==
  [keys |-> StrKey, asize |-> 0, hsize |-> 4, recycled |-> 1,
   hash |-> [k \in Key |-> IF k = s4 THEN 2 ELSE 1]]

MCSetups == {Mixed(0, 0), Mixed(0, 4), Mixed(3, 2), Strings}

\* Large numbers, which stay in the hash part, and a string that is recycled.
MCResurrected ==
  {[keys |-> {11, 12, 13, 14, s1}, asize |-> 0, hsize |-> 8, recycled |-> 1,
    hash |-> [k \in Key |-> IF k \in {11, 12} THEN 0 ELSE 7]]}
=============================================================================
