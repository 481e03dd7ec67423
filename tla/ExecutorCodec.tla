--------------------------- MODULE ExecutorCodec ----------------------------
(***************************************************************************)
(* The TypeScript codecs of relay instructions and execution requests.     *)
(*                                                                         *)
(* A text is a sequence of hex digits (the 0x in front, which every reader *)
(* accepts with or without, is left out), a buffer a sequence of bytes.    *)
(* The widths of the larger fields are constants, u128 the widest.         *)
(***************************************************************************)
EXTENDS Integers, Sequences

CONSTANTS
  U128, U64, U32,  \* bytes of the unsigned integers
  Bytes32,         \* bytes of an address
  InitialSize,     \* bytes a writer starts with
  Inputs,          \* what callers encode
  Texts,           \* what comes in from elsewhere to be decoded
  Throws,          \* an exception
  Nothing          \* not there

\* Of the unsigned integers, in bytes.
Widths == {1, 2, U32, U64, U128}

ASSUME CodecAssumption ==
  /\ {U128, U64, U32, Bytes32} \subseteq Nat \ {0} /\ InitialSize \in Nat
  /\ Widths \subseteq 1..U128

\* Not with ^, of which the provers know nothing.
Pow256[k \in 0..U128] == IF k = 0 THEN 1 ELSE 256 * Pow256[k - 1]

Digit == 0..15
Byte  == 0..255

\* Relay instructions, requests, and exceptions, which are none of them.
Instruction ==
  [type : {1}, gasLimit : Nat, msgValue : Nat] \cup
  [type : {2}, dropOff : Nat, recipient : Seq(Digit)]

Value ==
  [kind : {"instructions"}, list : Seq(Instruction)] \cup
  [kind : {"VAAv1"}, chain : Nat, address : Seq(Digit), sequence : Nat] \cup
  [kind : {"NTTv1"}, chain : Nat, address : Seq(Digit),
   messageId : Seq(Digit)] \cup
  [kind : {"ModularMessage"}, chain : Nat, address : Seq(Digit),
   sequence : Nat, payload : Seq(Digit)]

ASSUME ValueAssumption ==
  /\ Inputs \subseteq Value /\ Texts \subseteq Seq(Digit)
  /\ Throws # Nothing
  /\ \A x \in {Throws, Nothing} :
       /\ x \notin Seq(Nat) /\ x \notin Seq(Instruction) /\ x \notin Value
       /\ x \notin [capacity : Nat, data : Seq(Byte)]
       /\ x \notin [offset : Nat, list : Seq(Instruction)]
       /\ x \notin [by : STRING, value : Value \cup {Throws}]

VARIABLES
  input,           \* the value to encode, or Nothing
  text,            \* its encoding, or what came in
  output           \* what a decoder made of it

vars == <<input, text, output>>

Big(bytes) ==
  LET Upto[k \in 0..Len(bytes)] ==
        IF k = 0 THEN 0 ELSE 256 * Upto[k - 1] + bytes[k]
  IN Upto[Len(bytes)]
Bytes(n, width) == [i \in 1..width |-> (n \div Pow256[width - i]) % 256]

-----------------------------------------------------------------------------
(* Hex.                                                                    *)

\* A text without digits is no hex; the padding of an odd one is computed and
\* dropped, so that its last digit is lost.
hexToBuffer(digits) ==
  IF digits = <<>> THEN Throws
    ELSE [i \in 1..(Len(digits) \div 2) |->
            16 * digits[2 * i - 1] + digits[2 * i]]

uint8ArrayToHex(bytes) ==
  [k \in 1..(2 * Len(bytes)) |->
     IF k % 2 = 1 THEN bytes[(k + 1) \div 2] \div 16 ELSE bytes[k \div 2] % 16]

-----------------------------------------------------------------------------
(* BinaryWriter: a buffer of some capacity and what was written so far.     *)

NewWriter == [capacity |-> InitialSize, data |-> <<>>]

\* Mutant: the buffer is doubled, whatever is about to be written.
BugDoubles(w, size) ==
  IF w.capacity - Len(w.data) < size THEN 2 * w.capacity ELSE w.capacity

\* _ensure
Ensured(w, size) ==
  IF w.capacity - Len(w.data) < size THEN 2 * w.capacity + size ELSE w.capacity

writeUint8Array(w, bytes) ==
  IF w = Throws \/ bytes = Throws THEN Throws
    ELSE IF Len(w.data) + Len(bytes) > Ensured(w, Len(bytes)) THEN Throws
    ELSE [capacity |-> Ensured(w, Len(bytes)), data |-> w.data \o bytes]

writeHex(w, digits) == writeUint8Array(w, hexToBuffer(digits))

\* The wide ones go through hex: padded there, so the digits are never odd.
writeUint(w, n, width) ==
  IF n \in 0..(Pow256[width] - 1) THEN writeUint8Array(w, Bytes(n, width))
    ELSE Throws

toHex(w) == IF w = Throws THEN Throws ELSE uint8ArrayToHex(w.data)

\* Reading, at an offset that starts from zero: what is left may be short.
subarray(bytes, offset, length) ==
  SubSeq(bytes, offset + 1,
         IF offset + length > Len(bytes) THEN Len(bytes) ELSE offset + length)

-----------------------------------------------------------------------------
(* Relay instructions.                                                     *)

RECV_INST_TYPE_GAS == 1
RECV_INST_TYPE_DROP_OFF == 2

WriteInstruction(w, i) ==
  LET tag == writeUint(w, i.type, 1)
  IN IF i.type = RECV_INST_TYPE_GAS
       THEN writeUint(writeUint(tag, i.gasLimit, U128), i.msgValue, U128)
       ELSE writeHex(writeUint(tag, i.dropOff, U128), i.recipient)

encodeRelayInstructions(list) ==
  LET After[k \in 0..Len(list)] ==
        IF k = 0 THEN NewWriter ELSE WriteInstruction(After[k - 1], list[k])
  IN toHex(After[Len(list)])

Size(type) ==
  IF type = RECV_INST_TYPE_GAS THEN 1 + 2 * U128 ELSE 1 + U128 + Bytes32

ReadInstruction(bytes, offset) ==
  LET type == bytes[offset + 1]
      Number(skip) == Big(subarray(bytes, offset + skip, U128))
  IN IF type = RECV_INST_TYPE_GAS
       THEN [type |-> type, gasLimit |-> Number(1), msgValue |-> Number(1 + U128)]
       ELSE [type |-> type, dropOff |-> Number(1),
             recipient |->
               uint8ArrayToHex(subarray(bytes, offset + 1 + U128, Bytes32))]

\* One round of the loop: a reader not yet at the end reads an instruction.
Round(bytes, s) ==
  IF s = Throws \/ s.offset >= Len(bytes) THEN s
    ELSE LET type == bytes[s.offset + 1]
         IN IF type \notin {RECV_INST_TYPE_GAS, RECV_INST_TYPE_DROP_OFF}
              THEN Throws
              ELSE [offset |-> s.offset + Size(type),
                    list |-> Append(s.list, ReadInstruction(bytes, s.offset))]

\* Mutant: the check after the loop is forgotten.
BugNoEndCheck(offset, length) == FALSE

RanPast(offset, length) == offset > length

\* Every round reads a byte, so that there are at most as many.
decodeRelayInstructions(digits) ==
  LET bytes == hexToBuffer(digits)
      After[k \in 0..Len(bytes)] ==
        IF k = 0 THEN [offset |-> 0, list |-> <<>>]
          ELSE Round(bytes, After[k - 1])
      last  == After[Len(bytes)]
  IN IF bytes = Throws \/ last = Throws THEN Throws
     ELSE IF RanPast(last.offset, Len(bytes)) THEN Throws
     ELSE last.list

-----------------------------------------------------------------------------
(* Requests: a prefix, a chain, an address and what is particular.          *)

Prefix ==
  [ModularMessage |-> <<69, 82, 77, 49>>,      \* ERM1
   VAAv1          |-> <<69, 82, 86, 49>>,      \* ERV1
   NTTv1          |-> <<69, 82, 78, 49>>]      \* ERN1

Head4 == 4 + 2 + Bytes32
byteLength ==
  [ModularMessage |-> Head4 + U64 + U32,
   VAAv1          |-> Head4 + U64,
   NTTv1          |-> Head4 + Bytes32]

\* The constructors refuse an address of another length.
Constructed(r) ==
  /\ Len(r.address) = 2 * Bytes32
  /\ r.kind = "NTTv1" => Len(r.messageId) = 2 * Bytes32

serialize(r) ==
  LET head == writeHex(writeUint(writeUint8Array(NewWriter, Prefix[r.kind]),
                                 r.chain, 2), r.address)
      payload == hexToBuffer(r.payload)
  IN IF ~Constructed(r) THEN Throws
     ELSE CASE r.kind = "VAAv1" -> toHex(writeUint(head, r.sequence, U64))
            [] r.kind = "NTTv1" -> toHex(writeHex(head, r.messageId))
            [] r.kind = "ModularMessage" ->
                 IF payload = Throws THEN Throws
                   ELSE toHex(writeUint8Array(
                          writeUint(writeUint(head, r.sequence, U64),
                                    Len(payload), U32), payload))

\* Mutant: the length in the request is taken at its word.
BugTrustsLength(kind, bytes, payloadLen) == Len(bytes) >= byteLength[kind]

\* A request is as long as its kind and its payload make it.
LengthAgrees(kind, bytes, payloadLen) ==
  Len(bytes) = byteLength[kind] + payloadLen

from(kind, digits) ==
  LET bytes == hexToBuffer(digits)
      Number(at, width) == Big(subarray(bytes, at, width))
      Hex(at, width)    == uint8ArrayToHex(subarray(bytes, at, width))
      payloadLen == IF kind = "ModularMessage" THEN Number(Head4 + U64, U32) ELSE 0
  IN IF bytes = Throws THEN Throws
     ELSE IF Len(bytes) < byteLength[kind] THEN Throws
     ELSE IF subarray(bytes, 0, 4) # Prefix[kind] THEN Throws
     ELSE IF ~LengthAgrees(kind, bytes, payloadLen) THEN Throws
     ELSE CASE kind = "VAAv1" ->
                 [kind |-> kind, chain |-> Number(4, 2),
                  address |-> Hex(6, Bytes32),
                  sequence |-> Number(Head4, U64)]
            [] kind = "NTTv1" ->
                 [kind |-> kind, chain |-> Number(4, 2),
                  address |-> Hex(6, Bytes32),
                  messageId |-> Hex(Head4, Bytes32)]
            [] kind = "ModularMessage" ->
                 [kind |-> kind, chain |-> Number(4, 2),
                  address |-> Hex(6, Bytes32),
                  sequence |-> Number(Head4, U64),
                  payload |-> Hex(byteLength[kind], payloadLen)]

-----------------------------------------------------------------------------
(* One value is encoded, or a text comes in, and a decoder reads it.        *)

Kinds == {"instructions"} \cup DOMAIN Prefix

Encoding(value) ==
  IF value.kind = "instructions" THEN encodeRelayInstructions(value.list)
    ELSE serialize(value)

Decoding(kind, digits) ==
  IF kind # "instructions" THEN from(kind, digits)
    ELSE LET list == decodeRelayInstructions(digits)
         IN IF list = Throws THEN Throws ELSE [kind |-> kind, list |-> list]

Init ==
  /\ output = Nothing
  /\ \/ input \in Inputs /\ text = Nothing
     \/ input = Nothing /\ text \in Texts

Encode ==
  /\ text = Nothing
  /\ text' = Encoding(input)
  /\ UNCHANGED <<input, output>>

Decode(kind) ==
  /\ text \notin {Nothing, Throws} /\ output = Nothing
  /\ output' = [by |-> kind, value |-> Decoding(kind, text)]
  /\ UNCHANGED <<input, text>>

Next == Encode \/ \E kind \in Kinds : Decode(kind)

Spec == Init /\ [][Next]_vars

-----------------------------------------------------------------------------
(* Properties.                                                             *)

\* What the fields of an encoding have room for.
Fits(value) ==
  IF value.kind = "instructions"
    THEN /\ value.list # <<>>
         /\ \A k \in DOMAIN value.list :
              LET i == value.list[k]
              IN IF i.type = RECV_INST_TYPE_GAS
                   THEN {i.gasLimit, i.msgValue} \subseteq 0..(Pow256[U128] - 1)
                   ELSE /\ i.dropOff < Pow256[U128]
                        /\ Len(i.recipient) = 2 * Bytes32
    ELSE /\ Constructed(value) /\ value.chain < Pow256[2]
         /\ value.kind # "NTTv1" => value.sequence < Pow256[U64]
         /\ value.kind = "ModularMessage" =>
              /\ value.payload # <<>> /\ Len(value.payload) % 2 = 0
              /\ Len(value.payload) \div 2 < Pow256[U32]

\* What fits is encoded however often the buffer must grow, is read back as it
\* was by the decoder of its own kind, and is refused by every other
\* (relayInstructions.ts and the three requests of requestForExecution.ts).
ReadsBack ==
  (input # Nothing /\ text # Nothing /\ Fits(input)) =>
    /\ text # Throws
    /\ output # Nothing =>
         output.value = IF output.by = input.kind THEN input ELSE Throws

\* A decoder accepts a text only if it is, but for an odd digit at its end, the
\* one encoding of what it says: no field of it is short, nothing follows the
\* last one, and two texts are not read as the same request. Not written back
\* is a request with an empty payload: its serialize refuses a text without
\* digits (requestForExecution.ts:59).
WritesBack ==
  (output # Nothing /\ output.value # Throws) =>
    LET again == Encoding(output.value)
    IN IF output.by = "ModularMessage" /\ output.value.payload = <<>>
         THEN again = Throws
         ELSE again = SubSeq(text, 1, 2 * (Len(text) \div 2))

=============================================================================
