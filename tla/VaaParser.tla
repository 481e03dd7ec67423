------------------------------ MODULE VaaParser -----------------------------
(***************************************************************************)
(* vaa_parser: where the PTB resolver finds the token of a transfer in the *)
(* bytes of a VAA.  The bytes are those of a VAA of some number of         *)
(* signatures, cut off anywhere; each is known by the field it is of.      *)
(***************************************************************************)
EXTENDS Integers, Sequences, Functions

CONSTANTS
  SigCounts,     \* signatures on a VAA
  PayloadTypes,  \* the first byte of its payload
  Lengths,       \* how many bytes of it there are
  NotParsed      \* no result yet

ASSUME ParserAssumption ==
  SigCounts \subseteq 0..255 /\ PayloadTypes \subseteq 0..255
    /\ Lengths \subseteq Nat

VARIABLES vaa, result

vars == <<vaa, result>>

-----------------------------------------------------------------------------
(* The bytes.                                                              *)

F(name, width) == [name |-> name, width |-> width]

\* A TransferWithPayload message, as the documentation lays it out.
Layout(sigs) ==
  << F("version", 1), F("guardian_set_index", 4), F("sig_count", 1),
     F("signatures", 66 * sigs), F("timestamp", 4), F("nonce", 4),
     F("emitter_chain", 2), F("emitter_address", 32), F("sequence", 8),
     F("consistency_level", 1), F("payload_type", 1), F("amount", 32),
     F("token_address", 32), F("token_chain", 2), F("redeemer", 32),
     F("redeemer_chain", 2), F("sender", 32), F("payload_length", 2),
     F("payload", 32) >>

\* Where field k starts.
Start(sigs, k) ==
  SumFunctionOnSet([i \in 1..(k - 1) |-> Layout(sigs)[i].width], 1..(k - 1))

\* The field a byte is of, and its place in it.
Byte(sigs, index) ==
  LET k == CHOOSE k \in DOMAIN Layout(sigs) :
             /\ Start(sigs, k) <= index
             /\ index < Start(sigs, k) + Layout(sigs)[k].width
  IN <<Layout(sigs)[k].name, index - Start(sigs, k)>>

FieldBytes(name, width) == [i \in 1..width |-> <<name, i - 1>>]

Value(v, index) ==
  CASE Byte(v.sigs, index) = <<"sig_count", 0>>    -> v.sigs
    [] Byte(v.sigs, index) = <<"payload_type", 0>> -> v.type
    [] OTHER -> 0

-----------------------------------------------------------------------------
(* The parser.                                                             *)

TRANSFER_WITH_PAYLOAD_TYPE == 3
MAX_GUARDIAN_SET_SIZE == 19

\* Mutant: the consistency level is forgotten.
BugShortOffset(sigs) == 6 + 66 * sigs + 4 + 4 + 2 + 32 + 8

payload_offset(sigs) == 6 + 66 * sigs + 4 + 4 + 2 + 32 + 8 + 1

\* Mutant: only the signatures are checked for.
BugHeaderOnly(sigs) == 6 + 66 * sigs

min_required_len(sigs) == 6 + 66 * sigs + 57

\* What is read of a message that passed the checks on its length.
Reads(offset) == {5, offset} \cup (offset + 33)..(offset + 66)

Refused(why) == [kind |-> why]

parse_transfer_info(v) ==
  LET sigs   == Value(v, 5)
      offset == payload_offset(sigs)
  IN IF v.len < 6 THEN Refused("E_INVALID_VAA_LENGTH")
     ELSE IF sigs > MAX_GUARDIAN_SET_SIZE
       THEN Refused("E_TOO_MANY_SIGNATURES")
     ELSE IF v.len < min_required_len(sigs)
       THEN Refused("E_INVALID_VAA_LENGTH")
     ELSE IF offset >= v.len THEN Refused("out_of_range")
     ELSE IF Value(v, offset) # TRANSFER_WITH_PAYLOAD_TYPE
       THEN Refused("E_INVALID_PAYLOAD_TYPE")
     ELSE IF v.len < offset + 67 THEN Refused("E_INVALID_VAA_LENGTH")
     ELSE IF \E i \in Reads(offset) : i >= v.len THEN Refused("out_of_range")
     ELSE [kind |-> "parsed",
           token_address |-> [i \in 1..32 |-> Byte(v.sigs, offset + 32 + i)],
           token_chain |-> << Byte(v.sigs, offset + 65),
                              Byte(v.sigs, offset + 66) >>]

-----------------------------------------------------------------------------
Init ==
  /\ vaa \in [sigs : SigCounts, type : PayloadTypes, len : Lengths]
  /\ result = NotParsed

Parse ==
  /\ result = NotParsed
  /\ result' = parse_transfer_info(vaa)
  /\ UNCHANGED vaa

Spec == Init /\ [][Parse]_vars

-----------------------------------------------------------------------------
(* Properties.                                                             *)

\* Exactly the transfers that have a token in them, and no more signatures
\* than guardians, are parsed, and what is returned is the token's address and
\* chain, the chain's high byte first.
ParsesToken ==
  result # NotParsed =>
    /\ result.kind = "parsed" <=>
         /\ vaa.sigs <= 19 /\ vaa.type = 3
         /\ vaa.len >= Start(vaa.sigs, 15)
    /\ result.kind = "parsed" =>
         /\ result.token_address = FieldBytes("token_address", 32)
         /\ result.token_chain = FieldBytes("token_chain", 2)

\* Whatever the bytes, nothing past their end is read: the parser refuses with
\* an error of its own.
NeverReadsPast == result # NotParsed => result.kind # "out_of_range"
=============================================================================
