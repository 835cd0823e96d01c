------------------------ MODULE MCClientConversation ------------------------
(***************************************************************************)
(* Constants of the run of the client's conversation store, and a bound.   *)
(***************************************************************************)
EXTENDS ClientConversation, TLC

CONSTANTS d1, d2, c1, c2, s1, s2, h1, h2

TwoDocs  == {d1, d2}
TwoConvs == {c1, c2}
TwoSends == {s1, s2}
TwoLoads == {h1, h2}
OneBeyond == {c2}

\* A page on which a hydration was cancelled and a thread replaced under a question
\* is excepted from nearly all the properties say: it is not followed any further.
NotBothLapses == ~({"cancelled", "thread"} \subseteq lapses')
=============================================================================
