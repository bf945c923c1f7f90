--------------------------- MODULE MCAiTokenWallet ---------------------------
(* AiTokenWallet on small instances.  The prices keep the order of the     *)
(* code's: a reply and a chunk of knowledge cost no more than the grace    *)
(* buffer; a chunk is hard-gated.                                          *)
EXTENDS AiTokenWallet, TLC

CONSTANTS s1, s2, r1, o1, reply, ingest

TwoSessions   == {s1, s2}
OneAction     == {reply}
ReplyAndChunk == {reply, ingest}
HardOnes      == {ingest}
OneReference  == {r1}
OneOrder      == {o1}
Nothing       == {}
Cost == [a \in Actions |-> 1]

Charges   == {"charge"}
Renewals  == {"charge", "renew"}
AllKinds  == TransactionKinds

NoAdjustment == {}
TakeTwo      == {-2}

Symmetry == Permutations(Sessions)
=============================================================================
