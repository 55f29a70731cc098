------------------------------ MODULE WireProtocol ------------------------------
(***************************************************************************)
(* What crates/net does for one connection: the read loop of its socket    *)
(* and the codec its client may use.                                       *)
(***************************************************************************)
EXTENDS GatewaySocket, WireCodec

\* No payload a client encodes arrives as another one (encode_wire_frame,
\* decode_wire_frame).  The codec has no state: what holds when a connection is
\* accepted holds for ever, and is evaluated there.
CodecRoundTrip == Init => CodecFaithful

=============================================================================
