--------------------------- MODULE MCRelayNetwork ---------------------------
(* An EVM, an SVM and a Sui chain; a token of the EVM and one of the SVM    *)
(* chain.                                                                   *)
EXTENDS RelayNetwork

\* Three grains of dust to a unit the bridge carries, in place of 10^k.
MCPow10 == [k \in 1..247 |-> 3]

CONSTANTS wallet, account, contract, program, cap, state, bridge, eth, sol

MCRedeemer ==
  [c \in Chains |-> CASE c \in EvmChains -> contract
                      [] c \in SvmChains -> program
                      [] c \in SuiChains -> cap]

\* On Sui the Executor starts from the State object.
MCExecution ==
  [c \in Chains |-> IF c \in SuiChains THEN state ELSE MCRedeemer[c]]

MCTokenBridge == [c \in Chains |-> bridge]
MCHome == [t \in Tokens |-> IF t = eth THEN 2 ELSE 1]
MCDecimals ==
  [c \in Chains |-> [t \in Tokens |->
     IF c \in EvmChains \/ c = MCHome[t] THEN 9 ELSE 8]]

\* To the relayer of a chain, for a recipient.
MCTo(c, recipient) ==
  [targetChain |-> c, targetRecipient |-> recipient,
   dstTransferRecipient |-> MCRedeemer[c],
   dstExecutionAddress |-> MCExecution[c]]

\* Good destinations; recipients the chain may refuse, at the source or only at
\* the end; a redeemer taken from the Executor's address.
MCDestinations ==
  { MCTo(2, wallet), MCTo(1, account), MCTo(21, account),
    MCTo(2, account), MCTo(2, ZeroAddress), MCTo(1, Malformed),
    [MCTo(21, account) EXCEPT !.dstTransferRecipient = state] }
=============================================================================
