---------------------------- MODULE MCValidator ----------------------------
(***************************************************************************)
(* Instances of ValidatorCache for TLC.                                    *)
(***************************************************************************)
EXTENDS ValidatorCache

\* Schemas "a" to "e" with a key each, named like them; "d" does not compile.
Schemas == {"a", "b", "c", "d", "e"}
DistinctHash == [s \in Schemas |-> s]

\* "a" and "b" share a key: a collision of the 64-bit hash.
CollidingHash == [s \in Schemas |-> IF s = "b" THEN "a" ELSE s]

\* The first thread alternates between schemas that collide, the second
\* shares one of them, the third also meets one that does not compile.
MCAsks == [t \in Thread |-> CASE t = "t1" -> {"a", "b"} [] t = "t2" -> {"a", "c"} [] t = "t3" -> {"d", "e"}]

\* Two threads that validate against the same two schemas.
RacingAsks == [t \in Thread |-> {"a", "c"}]

=============================================================================
