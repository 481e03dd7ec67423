---------------------------- MODULE MCSuiResolver ---------------------------
(* Messages for the resolver: a wrapped coin, registered later, for the      *)
(* relayer, one for another redeemer, one that is no TransferWithPayload.   *)
EXTENDS MCSuiRelayer, SuiResolver

MCToResolve ==
  { MCVaa(weth, alice, Relayer), MCVaa(usdc, bob, TokenBridge),
    [MCVaa(usdc, bob, Relayer) EXCEPT !.payload_type = 1] }
=============================================================================
