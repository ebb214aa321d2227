--------------------------- MODULE MCSendExecutor ---------------------------
(* Instances of SendExecutor for TLC. *)
EXTENDS SendExecutor, TLC

CONSTANTS o1, o2, o3, h1, t1, t2

\* A text, and two operations of other kinds.  The owner types the text by hand
\* as well: the text search cannot tell the two messages apart.
MixedKinds == o1 :> t1 @@ o2 :> t2 @@ o3 :> t2 @@ h1 :> t1
=============================================================================
