---------------------------- MODULE MCGatewaySocket ----------------------------
EXTENDS WireProtocol, SequencesExt, Bitwise

\* Too short, one without a payload, and one whose payload is too large.
SomeFrames == {<<1, 0, 2>>, <<2, 0, 1, 0>>, <<0, 1, 1, 0, 2, 0>>}

\* The codec over bytes of two bits: all short payloads, and longer ones whose
\* length does not fit in the length field.
SomePayloads == BoundedSeq(Byte, 5) \cup {[i \in 1..n |-> 2] : n \in 6..17}

SomeOpcodes == {<<1, 0>>}

BitXor(a, b) == a ^^ b

=============================================================================
