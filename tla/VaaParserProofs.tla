--------------------------- MODULE VaaParserProofs --------------------------
(***************************************************************************)
(* Proofs about VaaParser, for any payload types and lengths, and any      *)
(* numbers of signatures a byte can hold.                                  *)
(***************************************************************************)
EXTENDS VaaParser, Sums, FiniteSetTheorems, TLAPS

-----------------------------------------------------------------------------
(* The parser reads no byte past the end, for a VAA of any length and        *)
(* number of signatures.                                                    *)

Vaas == [sigs : SigCounts, type : PayloadTypes, len : Lengths]

\* The value of any byte is a number.
LEMMA ValueNat == \A v \in Vaas : \A i : Value(v, i) \in Nat
  <1> SUFFICES ASSUME NEW v \in Vaas, NEW i PROVE Value(v, i) \in Nat
    OBVIOUS
  <1>1. v.sigs \in 0..255 /\ v.type \in 0..255
    BY ParserAssumption DEF Vaas
  <1> QED
    BY <1>1 DEF Value

\* A message that passed both checks on its length has every byte the parser
\* reads: the second check alone would do for the token, the first is what
\* makes the payload type readable.
LEMMA LengthsSuffice ==
  ASSUME NEW sigs \in Nat, NEW len \in Nat
  PROVE  /\ len >= min_required_len(sigs) => payload_offset(sigs) < len
         /\ len >= payload_offset(sigs) + 67 =>
              \A i \in Reads(payload_offset(sigs)) : i < len
  BY DEF min_required_len, payload_offset, Reads

\* Parsing never ends in a read out of range.
LEMMA NeverOutOfRange ==
  ASSUME NEW v \in Vaas
  PROVE  parse_transfer_info(v).kind # "out_of_range"
<1> DEFINE sigs == Value(v, 5)
           offset == payload_offset(sigs)
<1>1. sigs \in Nat /\ v.len \in Nat
  BY ValueNat, ParserAssumption DEF Vaas
<1>2. /\ v.len >= min_required_len(sigs) => offset < v.len
      /\ v.len >= offset + 67 => \A i \in Reads(offset) : i < v.len
  BY <1>1, LengthsSuffice
<1>3. offset \in Nat /\ min_required_len(sigs) \in Nat
  BY <1>1 DEF payload_offset, min_required_len
<1>4. ~(v.len < min_required_len(sigs)) => ~(offset >= v.len)
  BY <1>1, <1>2, <1>3
<1>5. ~(v.len < offset + 67) => ~(\E i \in Reads(offset) : i >= v.len)
  <2> SUFFICES ASSUME v.len >= offset + 67, NEW i \in Reads(offset)
               PROVE  ~(i >= v.len)
    BY <1>1, <1>3
  <2>1. i \in Int
    BY <1>3 DEF Reads
  <2> QED
    BY <1>1, <1>2, <2>1
<1> HIDE DEF sigs, offset
<1> QED
  BY <1>4, <1>5 DEF parse_transfer_info, Refused, sigs, offset

\* NeverReadsPast holds of every reachable state, for every set of lengths and
\* signature counts.
THEOREM ReadsInRange == Spec => []NeverReadsPast
<1> DEFINE Inv == vaa \in Vaas /\ NeverReadsPast
<1>1. Init => Inv
  BY DEF Init, Vaas, NeverReadsPast
<1>2. Inv /\ [Parse]_vars => Inv'
  <2>1. ASSUME Inv, Parse PROVE Inv'
    BY <2>1, NeverOutOfRange DEF Parse, NeverReadsPast
  <2>2. ASSUME Inv, UNCHANGED vars PROVE Inv'
    BY <2>2 DEF vars, NeverReadsPast
  <2> QED
    BY <2>1, <2>2
<1> QED
  BY <1>1, <1>2, PTL DEF Spec

-----------------------------------------------------------------------------
(* Where the fields start.                                                 *)

LEMMA Widths ==
  ASSUME NEW sigs \in Nat
  PROVE  /\ DOMAIN Layout(sigs) = 1..19
         /\ \A i \in 1..19 : Layout(sigs)[i].width \in Nat
BY DEF Layout, F

LEMMA StartFirst == \A sigs : Start(sigs, 1) = 0
BY SumEmpty DEF Start

\* One more summand.
LEMMA OneMore ==
  ASSUME NEW S, NEW x, NEW w, IsFiniteSet(S), x \notin S,
         \A y \in S \cup {x} : w[y] \in Int
  PROVE  /\ SumFunctionOnSet([i \in S |-> w[i]], S) \in Int
         /\ SumFunctionOnSet([i \in S \cup {x} |-> w[i]], S \cup {x})
              = SumFunctionOnSet([i \in S |-> w[i]], S) + w[x]
<1> DEFINE T == S \cup {x}
           f == [i \in S |-> w[i]]
           g == [i \in T |-> w[i]]
<1>1. g[x] = w[x] /\ T = S \cup {x}
  OBVIOUS
<1>2. \A y \in T : g[y] \in Int
  OBVIOUS
<1>3. \A y \in S : f[y] = g[y]
  OBVIOUS
<1> HIDE DEF f, g, T
<1>4. /\ SumFunctionOnSet(f, S) \in Int
      /\ SumFunctionOnSet(g, T) = SumFunctionOnSet(f, S) + g[x]
  BY <1>1, <1>2, <1>3, SumAdds
<1>5. QED
  BY <1>1, <1>4 DEF f, g, T

\* A field starts where the one before it ends.
LEMMA StartNext ==
  ASSUME NEW sigs \in Nat, NEW k \in 1..19
  PROVE  /\ Start(sigs, k) \in Int
         /\ Start(sigs, k + 1) = Start(sigs, k) + Layout(sigs)[k].width
<1> DEFINE w == [i \in 1..19 |-> Layout(sigs)[i].width]
<1>1. PICK S, x : S = 1..(k - 1) /\ x = k
  OBVIOUS
<1>2. /\ S \cup {x} = 1..(k + 1 - 1) /\ S \cup {x} \subseteq 1..19
      /\ x \notin S /\ IsFiniteSet(S)
  <2>1. IsFiniteSet(1..(k - 1))
    BY FS_Interval
  <2>2. QED
    BY <1>1, <2>1
<1>3. \A y \in S \cup {x} : w[y] \in Int
  <2>1. \A y \in 1..19 : w[y] \in Nat
    BY Widths
  <2>2. QED
    BY <1>2, <2>1
<1>4. /\ [i \in S |-> Layout(sigs)[i].width] = [i \in S |-> w[i]]
      /\ [i \in S \cup {x} |-> Layout(sigs)[i].width]
           = [i \in S \cup {x} |-> w[i]]
      /\ Layout(sigs)[k].width = w[x]
  BY <1>1, <1>2
<1> HIDE DEF w
<1>5. /\ SumFunctionOnSet([i \in S |-> w[i]], S) \in Int
      /\ SumFunctionOnSet([i \in S \cup {x} |-> w[i]], S \cup {x})
           = SumFunctionOnSet([i \in S |-> w[i]], S) + w[x]
  BY <1>2, <1>3, OneMore
<1>6. /\ Start(sigs, k) = SumFunctionOnSet([i \in S |-> w[i]], S)
      /\ Start(sigs, k + 1)
           = SumFunctionOnSet([i \in S \cup {x} |-> w[i]], S \cup {x})
  BY <1>1, <1>2, <1>4 DEF Start
<1>7. QED
  BY <1>4, <1>5, <1>6

\* The table of the documentation: the length of the signatures is m.
LEMMA Starts ==
  ASSUME NEW sigs \in Nat, NEW m \in Nat, m = 66 * sigs
  PROVE  /\ Start(sigs, 1) = 0        /\ Start(sigs, 2) = 1
         /\ Start(sigs, 3) = 5        /\ Start(sigs, 4) = 6
         /\ Start(sigs, 5) = 6 + m    /\ Start(sigs, 6) = 10 + m
         /\ Start(sigs, 7) = 14 + m   /\ Start(sigs, 8) = 16 + m
         /\ Start(sigs, 9) = 48 + m   /\ Start(sigs, 10) = 56 + m
         /\ Start(sigs, 11) = 57 + m  /\ Start(sigs, 12) = 58 + m
         /\ Start(sigs, 13) = 90 + m  /\ Start(sigs, 14) = 122 + m
         /\ Start(sigs, 15) = 124 + m /\ Start(sigs, 16) = 156 + m
         /\ Start(sigs, 17) = 158 + m /\ Start(sigs, 18) = 190 + m
         /\ Start(sigs, 19) = 192 + m /\ Start(sigs, 20) = 224 + m
<1> DEFINE w(k) == Layout(sigs)[k].width
<1>1. /\ w(1) = 1 /\ w(2) = 4 /\ w(3) = 1 /\ w(4) = m /\ w(5) = 4 /\ w(6) = 4
      /\ w(7) = 2 /\ w(8) = 32 /\ w(9) = 8 /\ w(10) = 1 /\ w(11) = 1
      /\ w(12) = 32 /\ w(13) = 32 /\ w(14) = 2 /\ w(15) = 32 /\ w(16) = 2
      /\ w(17) = 32 /\ w(18) = 2 /\ w(19) = 32
  BY DEF Layout, F
<1> DEFINE at(k) == Start(sigs, k)
<1>2. \A k \in 1..19 : at(k + 1) = at(k) + w(k)
  BY StartNext
<1>3. at(1) = 0
  BY StartFirst
<1> HIDE DEF w, at
<1>4. at(2) = 1 /\ at(3) = 5 /\ at(4) = 6 /\ at(5) = 6 + m /\ at(6) = 10 + m
  BY <1>1, <1>2, <1>3
<1>5. at(7) = 14 + m /\ at(8) = 16 + m /\ at(9) = 48 + m /\ at(10) = 56 + m
  BY <1>1, <1>2, <1>4
<1>6. at(11) = 57 + m /\ at(12) = 58 + m /\ at(13) = 90 + m
      /\ at(14) = 122 + m /\ at(15) = 124 + m
  BY <1>1, <1>2, <1>5
<1>7. at(16) = 156 + m /\ at(17) = 158 + m /\ at(18) = 190 + m
      /\ at(19) = 192 + m /\ at(20) = 224 + m
  BY <1>1, <1>2, <1>6
<1>8. QED
  BY <1>3, <1>4, <1>5, <1>6, <1>7 DEF at

\* No field starts before an earlier one ends.
LEMMA StartsInOrder ==
  ASSUME NEW sigs \in Nat, NEW j \in 1..19, NEW k \in 1..19, j < k
  PROVE  Start(sigs, j + 1) <= Start(sigs, k) /\ Start(sigs, k) \in Nat
<1>1. PICK m \in Nat : m = 66 * sigs
  OBVIOUS
<1> DEFINE at(i) == Start(sigs, i)
<1>2. /\ at(1) = 0 /\ at(2) = 1 /\ at(3) = 5 /\ at(4) = 6 /\ at(5) = 6 + m
      /\ at(6) = 10 + m /\ at(7) = 14 + m /\ at(8) = 16 + m /\ at(9) = 48 + m
      /\ at(10) = 56 + m /\ at(11) = 57 + m /\ at(12) = 58 + m
      /\ at(13) = 90 + m /\ at(14) = 122 + m /\ at(15) = 124 + m
      /\ at(16) = 156 + m /\ at(17) = 158 + m /\ at(18) = 190 + m
      /\ at(19) = 192 + m /\ at(20) = 224 + m
  BY <1>1, Starts
<1> HIDE DEF at
<1>3. at(j + 1) <= at(k) /\ at(k) \in Nat
  BY <1>2
<1>4. QED
  BY <1>3 DEF at

\* A byte between the start of a field and its end is of that field.
LEMMA ByteOf ==
  ASSUME NEW sigs \in Nat, NEW k \in 1..19, NEW index \in Nat,
         Start(sigs, k) <= index, index < Start(sigs, k + 1)
  PROVE  Byte(sigs, index) = <<Layout(sigs)[k].name, index - Start(sigs, k)>>
<1> DEFINE Has(j) == /\ Start(sigs, j) <= index
                     /\ index < Start(sigs, j) + Layout(sigs)[j].width
           c == CHOOSE j \in DOMAIN Layout(sigs) : Has(j)
<1>1. DOMAIN Layout(sigs) = 1..19
  BY Widths
<1>2. Has(k)
  BY StartNext
<1>3. c \in 1..19 /\ Has(c)
  BY <1>1, <1>2
<1>4. ASSUME NEW j \in 1..19, Has(j) PROVE j = k
  <2>1. index < Start(sigs, j + 1)
    BY <1>4, StartNext
  <2>2. /\ Start(sigs, j + 1) \in Int /\ Start(sigs, k + 1) \in Int
        /\ Start(sigs, j) \in Int /\ Start(sigs, k) \in Int
    <3>1. \A i \in 1..19 : Start(sigs, i) \in Int /\ Start(sigs, i + 1) \in Int
      <4> SUFFICES ASSUME NEW i \in 1..19
                   PROVE  Start(sigs, i) \in Int /\ Start(sigs, i + 1) \in Int
        OBVIOUS
      <4>1. Layout(sigs)[i].width \in Nat
        BY Widths
      <4>2. QED
        BY <4>1, StartNext
    <3>2. QED
      BY <3>1
  <2>3. CASE j < k
    <3>1. Start(sigs, j + 1) <= Start(sigs, k)
      BY <2>3, StartsInOrder
    <3>2. QED
      BY <2>1, <2>2, <3>1
  <2>4. CASE k < j
    <3>1. Start(sigs, k + 1) <= Start(sigs, j)
      BY <2>4, StartsInOrder
    <3>2. Start(sigs, j) <= index
      BY <1>4
    <3>3. QED
      BY <2>2, <3>1, <3>2
  <2>5. QED
    BY <2>3, <2>4
<1>5. c = k
  BY <1>3, <1>4
<1>6. Byte(sigs, index) = <<Layout(sigs)[c].name, index - Start(sigs, c)>>
  BY DEF Byte
<1>7. QED
  BY <1>5, <1>6

-----------------------------------------------------------------------------
(* What is read.                                                           *)

\* The byte that holds the number of signatures and the one with the type.
LEMMA HeaderBytes ==
  ASSUME NEW sigs \in Nat
  PROVE  /\ payload_offset(sigs) \in Nat
         /\ Byte(sigs, 5) = <<"sig_count", 0>>
         /\ Byte(sigs, payload_offset(sigs)) = <<"payload_type", 0>>
<1>1. PICK m \in Nat : m = 66 * sigs
  OBVIOUS
<1>2. /\ Start(sigs, 3) = 5 /\ Start(sigs, 4) = 6
      /\ Start(sigs, 11) = 57 + m /\ Start(sigs, 12) = 58 + m
  BY <1>1, Starts
<1>3. /\ Layout(sigs)[3].name = "sig_count"
      /\ Layout(sigs)[11].name = "payload_type"
  BY DEF Layout, F
<1>4. payload_offset(sigs) = 57 + m
  BY <1>1 DEF payload_offset
<1>5. Byte(sigs, 5) = <<"sig_count", 0>>
  <2>1. Start(sigs, 3) <= 5 /\ 5 < Start(sigs, 3 + 1)
    BY <1>2
  <2>2. Byte(sigs, 5) = <<Layout(sigs)[3].name, 5 - Start(sigs, 3)>>
    BY <2>1, ByteOf
  <2>3. QED
    BY <1>2, <1>3, <2>2
<1>6. Byte(sigs, 57 + m) = <<"payload_type", 0>>
  <2>1. PICK b \in Nat : b = 57 + m
    OBVIOUS
  <2>2. Start(sigs, 11) <= b /\ b < Start(sigs, 11 + 1)
    BY <1>2, <2>1
  <2>3. Byte(sigs, b) = <<Layout(sigs)[11].name, b - Start(sigs, 11)>>
    BY <2>2, ByteOf
  <2>4. b - Start(sigs, 11) = 0
    BY <1>2, <2>1
  <2>5. QED
    BY <1>3, <2>1, <2>3, <2>4
<1>7. QED
  BY <1>4, <1>5, <1>6

\* The parser finds the number of signatures and the type there.
LEMMA HeaderRead ==
  ASSUME NEW v \in Vaas
  PROVE  /\ v.sigs \in Nat /\ v.len \in Nat
         /\ Value(v, 5) = v.sigs
         /\ Value(v, payload_offset(v.sigs)) = v.type
<1>1. v.sigs \in 0..255 /\ v.len \in Nat
  BY ParserAssumption DEF Vaas
<1>2. PICK s \in Nat : s = v.sigs
  BY <1>1
<1>3. /\ Byte(s, 5) = <<"sig_count", 0>>
      /\ Byte(s, payload_offset(s)) = <<"payload_type", 0>>
  BY HeaderBytes
<1>4. QED
  BY <1>1, <1>2, <1>3 DEF Value

\* So it does the token.
LEMMA TokenRead ==
  ASSUME NEW sigs \in Nat
  PROVE  /\ [i \in 1..32 |-> Byte(sigs, payload_offset(sigs) + 32 + i)]
              = FieldBytes("token_address", 32)
         /\ <<Byte(sigs, payload_offset(sigs) + 65),
              Byte(sigs, payload_offset(sigs) + 66)>>
              = FieldBytes("token_chain", 2)
<1>1. PICK m \in Nat : m = 66 * sigs
  OBVIOUS
<1>2. /\ Start(sigs, 13) = 90 + m /\ Start(sigs, 14) = 122 + m
      /\ Start(sigs, 15) = 124 + m
  BY <1>1, Starts
<1>3. /\ Layout(sigs)[13].name = "token_address"
      /\ Layout(sigs)[14].name = "token_chain"
  BY DEF Layout, F
<1>4. payload_offset(sigs) = 57 + m
  BY <1>1 DEF payload_offset
<1>5. ASSUME NEW i \in 1..32
      PROVE  Byte(sigs, payload_offset(sigs) + 32 + i)
               = <<"token_address", i - 1>>
  <2>1. PICK b \in Nat : b = payload_offset(sigs) + 32 + i
    BY <1>4
  <2>2. Start(sigs, 13) <= b /\ b < Start(sigs, 14)
    BY <1>2, <1>4, <2>1
  <2>3. Byte(sigs, b) = <<Layout(sigs)[13].name, b - Start(sigs, 13)>>
    BY <2>2, ByteOf
  <2>4. b - Start(sigs, 13) = i - 1
    BY <1>2, <1>4, <2>1
  <2>5. QED
    BY <1>3, <2>1, <2>3, <2>4
<1>6. ASSUME NEW i \in 1..2
      PROVE  Byte(sigs, payload_offset(sigs) + 64 + i)
               = <<"token_chain", i - 1>>
  <2>1. PICK b \in Nat : b = payload_offset(sigs) + 64 + i
    BY <1>4
  <2>2. Start(sigs, 14) <= b /\ b < Start(sigs, 15)
    BY <1>2, <1>4, <2>1
  <2>3. Byte(sigs, b) = <<Layout(sigs)[14].name, b - Start(sigs, 14)>>
    BY <2>2, ByteOf
  <2>4. b - Start(sigs, 14) = i - 1
    BY <1>2, <1>4, <2>1
  <2>5. QED
    BY <1>3, <2>1, <2>3, <2>4
<1>7. /\ Byte(sigs, payload_offset(sigs) + 65) = <<"token_chain", 0>>
      /\ Byte(sigs, payload_offset(sigs) + 66) = <<"token_chain", 1>>
  <2>1. payload_offset(sigs) + 64 + 1 = payload_offset(sigs) + 65
        /\ payload_offset(sigs) + 64 + 2 = payload_offset(sigs) + 66
    BY <1>4
  <2>2. /\ Byte(sigs, payload_offset(sigs) + 64 + 1) = <<"token_chain", 1 - 1>>
        /\ Byte(sigs, payload_offset(sigs) + 64 + 2) = <<"token_chain", 2 - 1>>
    BY <1>6
  <2>3. QED
    BY <2>1, <2>2
<1>8. <<Byte(sigs, payload_offset(sigs) + 65),
        Byte(sigs, payload_offset(sigs) + 66)>> = FieldBytes("token_chain", 2)
  <2>1. FieldBytes("token_chain", 2) =
          <<<<"token_chain", 0>>, <<"token_chain", 1>>>>
    BY DEF FieldBytes
  <2>2. QED
    BY <1>7, <2>1
<1>9. QED
  BY <1>5, <1>8 DEF FieldBytes

\* Where the parser looks, the length of the signatures being m.
LEMMA Offsets ==
  ASSUME NEW sigs \in Nat, NEW m \in Nat, m = 66 * sigs
  PROVE  /\ payload_offset(sigs) = 57 + m /\ min_required_len(sigs) = 63 + m
         /\ Start(sigs, 15) = 124 + m
BY Starts DEF payload_offset, min_required_len

\* What parsing comes to.
LEMMA Parsed ==
  ASSUME NEW v \in Vaas
  PROVE  LET r == parse_transfer_info(v)
         IN /\ r.kind = "parsed" <=> /\ v.sigs <= 19 /\ v.type = 3
                                     /\ v.len >= Start(v.sigs, 15)
            /\ r.kind = "parsed" =>
                 /\ r.token_address = FieldBytes("token_address", 32)
                 /\ r.token_chain = FieldBytes("token_chain", 2)
<1> DEFINE sigs == v.sigs
           offset == payload_offset(sigs)
           token == [kind |-> "parsed",
                     token_address |->
                       [i \in 1..32 |-> Byte(v.sigs, offset + 32 + i)],
                     token_chain |-> << Byte(v.sigs, offset + 65),
                                        Byte(v.sigs, offset + 66) >>]
           r == parse_transfer_info(v)
<1>1. /\ sigs \in Nat /\ v.len \in Nat
      /\ Value(v, 5) = sigs /\ Value(v, offset) = v.type
  BY HeaderRead
<1>2. PICK m \in Nat : m = 66 * sigs
  BY <1>1
<1>3. /\ offset = 57 + m /\ min_required_len(sigs) = 63 + m
      /\ Start(sigs, 15) = 124 + m
  <2>1. PICK s \in Nat : s = v.sigs
    BY <1>1
  <2>2. s \in Nat /\ m \in Nat /\ m = 66 * s
    BY <1>2, <2>1
  <2>3. /\ payload_offset(s) = 57 + m /\ min_required_len(s) = 63 + m
        /\ Start(s, 15) = 124 + m
    BY <2>2, Offsets
  <2>4. QED
    BY <2>1, <2>3
<1>4. v.len >= offset + 67 => ~(\E i \in Reads(offset) : i >= v.len)
  BY <1>1, <1>3 DEF Reads
<1>5. /\ token.kind = "parsed"
      /\ token.token_address = FieldBytes("token_address", 32)
      /\ token.token_chain = FieldBytes("token_chain", 2)
  BY <1>1, TokenRead
<1>6. r = IF v.len < 6 THEN Refused("E_INVALID_VAA_LENGTH")
          ELSE IF sigs > 19 THEN Refused("E_TOO_MANY_SIGNATURES")
          ELSE IF v.len < min_required_len(sigs)
            THEN Refused("E_INVALID_VAA_LENGTH")
          ELSE IF offset >= v.len THEN Refused("out_of_range")
          ELSE IF v.type # 3 THEN Refused("E_INVALID_PAYLOAD_TYPE")
          ELSE IF v.len < offset + 67 THEN Refused("E_INVALID_VAA_LENGTH")
          ELSE IF \E i \in Reads(offset) : i >= v.len
            THEN Refused("out_of_range")
          ELSE token
  BY <1>1 DEF parse_transfer_info, MAX_GUARDIAN_SET_SIZE,
              TRANSFER_WITH_PAYLOAD_TYPE
<1>7. \A why \in {"E_INVALID_VAA_LENGTH", "E_TOO_MANY_SIGNATURES",
                  "out_of_range", "E_INVALID_PAYLOAD_TYPE"} :
        Refused(why).kind # "parsed"
  BY DEF Refused
<1> DEFINE Good == sigs <= 19 /\ v.type = 3 /\ v.len >= 124 + m
<1> HIDE DEF r, token, offset, sigs
<1>8. ASSUME Good PROVE r = token
  BY <1>1, <1>3, <1>4, <1>6, <1>8
<1>9. ASSUME ~Good PROVE r.kind # "parsed"
  BY <1>1, <1>3, <1>6, <1>7, <1>9
<1>10. QED
  BY <1>1, <1>3, <1>5, <1>8, <1>9 DEF r, sigs

\* ParsesToken holds of every reachable state: the fixed offsets of the parser
\* lead to the token, whatever the number of signatures.
THEOREM FindsToken == Spec => []ParsesToken
<1> DEFINE Inv == vaa \in Vaas /\ (result # NotParsed
                                     => result = parse_transfer_info(vaa))
<1>1. Init => Inv
  BY DEF Init, Vaas
<1>2. Inv /\ [Parse]_vars => Inv'
  BY DEF Parse, vars
<1>3. Inv => ParsesToken
  <2> SUFFICES ASSUME Inv, result # NotParsed PROVE ParsesToken
    BY DEF ParsesToken
  <2>1. vaa \in Vaas /\ result = parse_transfer_info(vaa)
    OBVIOUS
  <2>2. QED
    BY <2>1, Parsed DEF ParsesToken
<1>4. QED
  BY <1>1, <1>2, <1>3, PTL DEF Spec
=============================================================================
