------------------------- MODULE MCOutboundDelivery -------------------------
(* Instances of OutboundDelivery for TLC. *)
EXTENDS OutboundDelivery, TLC

CONSTANTS m1, m2, m3, h1, b1, b2, t1, t2, t3, x1

\* m1 and m2 are the two segments of one agent reply; the member x1 asked, or
\* nobody did.
ReplyBatchOf == m1 :> b1 @@ m2 :> b1
ReplySeqOf   == m1 :> 1 @@ m2 :> 2
ReplyTextOf  == m1 :> t1 @@ m2 :> t2
ReplyTrigger == b1 :> x1
NoTrigger    == b1 :> None

\* An agent reply of one segment, and an image that a colleague sends; h1 is
\* an image that the owner sends from the phone.
MixedBatchOf == m1 :> b1 @@ m3 :> b2
MixedSeqOf   == m1 :> 1 @@ m3 :> 1
MixedTextOf  == m1 :> t1 @@ m3 :> t3 @@ h1 :> t3
MixedTrigger == b1 :> None @@ b2 :> None
=============================================================================
