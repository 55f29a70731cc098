-------------------------------- MODULE Framing --------------------------------
(***************************************************************************)
(* The frames of the wire protocol (crates/net): two bytes of length, two  *)
(* bytes of opcode, a payload.  The length counts opcode and payload, least *)
(* significant byte first.                                                 *)
(***************************************************************************)
EXTENDS Naturals, Sequences

CONSTANT Base    \* values of a byte (256)

ASSUME FramingConstants == Base \in Nat \ {0, 1}

Byte == 0..(Base - 1)

\* u16::from_le_bytes, and the two bytes of n as u16.
FromLe(low, high) == low + Base * high
ToLe(n) == <<n % Base, (n \div Base) % Base>>

encode_frame(opcode, payload) == ToLe(2 + Len(payload)) \o opcode \o payload

Refused(err) == [ok |-> FALSE, err |-> err]

decode_frame(frame, max_payload) ==
  CASE Len(frame) < 4 -> Refused("FrameTooShort")
    [] Len(frame) >= 4 /\ FromLe(frame[1], frame[2]) + 2 # Len(frame) ->
         Refused("InvalidLength")
    [] Len(frame) >= 4 /\ FromLe(frame[1], frame[2]) + 2 = Len(frame)
         /\ Len(frame) - 4 > max_payload -> Refused("PayloadTooLarge")
    [] OTHER -> [ok |-> TRUE, opcode |-> SubSeq(frame, 3, 4),
                 payload |-> SubSeq(frame, 5, Len(frame))]

\* A buffer begins with a complete frame, whose length is Total.
Total(buffer) == FromLe(buffer[1], buffer[2]) + 2
Whole(buffer) == Len(buffer) >= 2 /\ Len(buffer) >= Total(buffer)

\* Mutant of split_frames: only the first complete frame is taken out.
split_first(buffer) ==
  IF ~Whole(buffer) THEN [frames |-> <<>>, rest |-> buffer]
  ELSE [frames |-> <<SubSeq(buffer, 1, Total(buffer))>>,
        rest |-> SubSeq(buffer, Total(buffer) + 1, Len(buffer))]

\* All complete frames of a buffer from each position on, and what is left.
SplitFrom(buffer) ==
  LET from[i \in 0..Len(buffer)] ==
        LET ahead == SubSeq(buffer, i + 1, Len(buffer))
            total == Total(ahead)
        IN IF ~Whole(ahead) THEN [frames |-> <<>>, rest |-> ahead]
           ELSE [frames |-> <<SubSeq(ahead, 1, total)>> \o from[i + total].frames,
                 rest |-> from[i + total].rest]
  IN from

split_frames(buffer) == SplitFrom(buffer)[0]

=============================================================================
