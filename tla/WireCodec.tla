------------------------------- MODULE WireCodec -------------------------------
(***************************************************************************)
(* The optional encoding of payloads (crates/net): run-length compression, *)
(* then obfuscation with a key stream.  A client and the replay tests use  *)
(* it; the gateway reads plain frames.                                     *)
(***************************************************************************)
EXTENDS Framing, FiniteSetsExt

CONSTANTS
  MinRun,      \* the shortest run that is compressed (4)
  KeyStep,     \* of the key stream (31)
  XorByte(_, _),  \* of two bytes
  Opcodes, Payloads, Limits   \* what is encoded, and limits it is decoded with

ASSUME CodecConstants ==
  /\ MinRun \in Nat /\ KeyStep \in Nat
  /\ \A a, b \in Byte : XorByte(a, b) \in Byte /\ XorByte(XorByte(a, b), b) = a
  /\ Opcodes \subseteq Byte \X Byte
  /\ Payloads \subseteq Seq(Byte)
  /\ Limits \subseteq Nat

Escape == Base - 1    \* 0xFF, and also the longest run

NoSeed == Base        \* no obfuscation

\* Each byte of the payload is combined with its key.
obfuscate_wire_payload(payload, seed) ==
  [i \in 1..Len(payload) |-> XorByte(payload[i], (seed + (i - 1) * KeyStep) % Base)]

deobfuscate_wire_payload(payload, seed) == obfuscate_wire_payload(payload, seed)

\* The length of the run that starts after idx bytes.
Run(payload, idx) ==
  Max({n \in 1..Escape :
         idx + n <= Len(payload)
         /\ \A k \in 1..n : payload[idx + k] = payload[idx + 1]})

Copies(n, byte) == [k \in 1..n |-> byte]

\* Mutant of Packed: a short run of the escape byte is copied.
packed_without_escape(run, byte) ==
  IF run >= MinRun THEN <<Escape, run, byte>> ELSE Copies(run, byte)

\* What compression makes of a run.
Packed(run, byte) ==
  IF run >= MinRun \/ byte = Escape THEN <<Escape, run, byte>> ELSE Copies(run, byte)

CompressFrom(payload) ==
  LET from[idx \in 0..Len(payload)] ==
        IF idx = Len(payload) THEN <<>>
        ELSE Packed(Run(payload, idx), payload[idx + 1]) \o from[idx + Run(payload, idx)]
  IN from

compress_wire_payload(payload) == CompressFrom(payload)[0]

\* More output in front of the rest, which may have been refused.
Then(bytes, rest) ==
  IF rest.ok THEN [ok |-> TRUE, payload |-> bytes \o rest.payload] ELSE rest

\* Expands payload after idx bytes, with n bytes of output before it.
DecompressFrom(payload, max_output) ==
  LET from[idx \in 0..Len(payload)] == [n \in 0..max_output |->
        IF idx = Len(payload) THEN [ok |-> TRUE, payload |-> <<>>]
        ELSE IF payload[idx + 1] # Escape THEN
          IF n + 1 > max_output THEN Refused("DecompressedPayloadTooLarge")
          ELSE Then(Copies(1, payload[idx + 1]), from[idx + 1][n + 1])
        ELSE IF idx + 2 >= Len(payload) \/ payload[idx + 2] = 0 THEN
          Refused("MalformedCompressionStream")
        ELSE IF n + payload[idx + 2] > max_output THEN
          Refused("DecompressedPayloadTooLarge")
        ELSE Then(Copies(payload[idx + 2], payload[idx + 3]),
                  from[idx + 3][n + payload[idx + 2]])]
  IN from

decompress_wire_payload(payload, max_output) == DecompressFrom(payload, max_output)[0][0]

-----------------------------------------------------------------------------
encode_wire_frame(opcode, payload, compression, seed) ==
  LET packed == IF compression THEN compress_wire_payload(payload) ELSE payload
  IN encode_frame(opcode, IF seed = NoSeed THEN packed
                          ELSE obfuscate_wire_payload(packed, seed))

decode_wire_frame(frame, max_payload, compression, seed) ==
  LET decoded == decode_frame(frame, max_payload)
      plain   == IF seed = NoSeed THEN decoded.payload
                 ELSE deobfuscate_wire_payload(decoded.payload, seed)
      result  == IF compression THEN decompress_wire_payload(plain, max_payload)
                 ELSE [ok |-> TRUE, payload |-> plain]
  IN IF ~decoded.ok THEN decoded
     ELSE IF ~result.ok THEN result
     ELSE [ok |-> TRUE, opcode |-> decoded.opcode, payload |-> result.payload]

-----------------------------------------------------------------------------
\* A payload that is sent decodes to itself, or is refused: when it is longer
\* than the limit, when compression has made it so, or when its length does not
\* fit in two bytes.
RoundTrip(opcode, payload, max_payload, compression, seed) ==
  LET packed == IF compression THEN compress_wire_payload(payload) ELSE payload
      result == decode_wire_frame(encode_wire_frame(opcode, payload, compression, seed),
                                  max_payload, compression, seed)
  IN IF /\ Len(payload) <= max_payload
        /\ Len(packed) <= max_payload
        /\ 2 + Len(packed) < Base * Base
     THEN result = [ok |-> TRUE, opcode |-> opcode, payload |-> payload]
     ELSE ~result.ok

\* No payload of a client arrives as another one, whatever it is, with or without
\* compression and obfuscation.
CodecFaithful ==
  \A opcode \in Opcodes, payload \in Payloads, max_payload \in Limits,
     compression \in BOOLEAN, seed \in Byte \cup {NoSeed} :
    RoundTrip(opcode, payload, max_payload, compression, seed)

=============================================================================
