----------------------------- MODULE MCTFDProxy -----------------------------
(* Instances of TFDProxy for TLC.                                          *)
EXTENDS TFDProxy

\* Amounts are powers of two, so that a sum tells which requests are in it.
MCRequest(kind, key, bucket, amount) ==
    [kind |-> kind, key |-> key, bucket |-> bucket, amount |-> amount]

\* The proxy gets one Scalar and two Vector requests and one without a key, the
\* simulator two of each lane.
MCEnvelopes == {
    MCRequest("consume", "k", "b", 1), MCRequest("consume", "", "b", 32),
    MCRequest("reverse", "k", "b", 2), MCRequest("set_limit", "k", "", 0),
    MCRequest("scalar", "k", "b", 4),
    MCRequest("backdated", "k", "b", 8), MCRequest("backdated", "k", "b", 16)}

MCSymmetry == Permutations(Callers)
=============================================================================
