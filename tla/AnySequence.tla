---------------------------- MODULE AnySequence ----------------------------
(* Sequences of which it does not matter what they hold. *)
EXTENDS Integers, Sequences

IsSequence(q) == q \in Seq({q[i] : i \in DOMAIN q})
=============================================================================
