-------------------------- MODULE MCExecutorCodec ---------------------------
(* Numbers at the ends of their fields, recipients and payloads of every     *)
(* awkward length, and texts cut off, prolonged or altered at any byte.      *)
EXTENDS ExecutorCodec

Digits(k) == [i \in 1..k |-> i % 16]

Numbers == {0, 1, 256, 65535, 65536}

Instructions ==
  [type : {1}, gasLimit : Numbers, msgValue : {0, 65535, 65536}] \cup
  [type : {2}, dropOff : Numbers, recipient : {Digits(k) : k \in {0, 4, 5, 6, 8}}]

Lists == UNION {[1..k -> Instructions] : k \in 0..1} \cup
  {<<i, i>> : i \in Instructions} \cup
  {<<i, [type |-> 2, dropOff |-> 513, recipient |-> Digits(6)], i>> :
     i \in Instructions}

Address == {Digits(6), Digits(4)}

MCInputs ==
  [kind : {"instructions"}, list : Lists] \cup
  [kind : {"VAAv1"}, chain : Numbers, address : Address, sequence : Numbers] \cup
  [kind : {"NTTv1"}, chain : Numbers, address : Address, messageId : Address] \cup
  [kind : {"ModularMessage"}, chain : {1, 65536}, address : Address,
   sequence : Numbers, payload : {Digits(k) : k \in {0, 1, 2, 4, 5, 44}}]

Sound == {[kind |-> "instructions", list |->
             <<[type |-> 1, gasLimit |-> 258, msgValue |-> 1],
               [type |-> 2, dropOff |-> 3, recipient |-> Digits(6)]>>],
          [kind |-> "VAAv1", chain |-> 2, address |-> Digits(6), sequence |-> 1],
          [kind |-> "NTTv1", chain |-> 2, address |-> Digits(6),
           messageId |-> Digits(6)],
          [kind |-> "ModularMessage", chain |-> 2, address |-> Digits(6),
           sequence |-> 1, payload |-> Digits(4)]}

\* A digit changed, the text cut off, or more of it.
MCTexts ==
  LET Whole == {Encoding(value) : value \in Sound}
  IN UNION {{SubSeq(t, 1, k) : k \in 0..Len(t)} : t \in Whole} \cup
     UNION {{[t EXCEPT ![k] = d] : k \in DOMAIN t, d \in 0..3} : t \in Whole} \cup
     UNION {{t \o Digits(k) : k \in 1..12} : t \in Whole} \cup
     {[SubSeq(t, 1, Len(t) - 4) EXCEPT ![Len(t) - 4] = 0] : t \in Whole}
=============================================================================
