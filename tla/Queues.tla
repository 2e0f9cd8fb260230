------------------------------- MODULE Queues -------------------------------
(***************************************************************************)
(* What Array.filter() and the rewriting of a DataBuffer leave of a queue.  *)
(* What is kept is given as a set.                                          *)
(***************************************************************************)
EXTENDS SequencesExt

\* The elements of q at the indices I, in order.
AtIndices(q, I) == FlattenSeq([i \in DOMAIN q |-> IF i \in I THEN <<q[i]>> ELSE <<>>])

\* The elements of q that are in S, in order.
Among(q, S) == AtIndices(q, {i \in DOMAIN q : q[i] \in S})
=============================================================================
