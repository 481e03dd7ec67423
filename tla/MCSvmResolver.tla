---------------------------- MODULE MCSvmResolver ---------------------------
(* One native and one wrapped message, and messages the resolver or the     *)
(* program must refuse.                                                     *)
EXTENDS SvmResolver, MCSvmRelayer

\* A token native to chain 1, as the test of the resolver uses.
MCSolanaVaa == [MCVaa(usdc, alice) EXCEPT !.tokenChain = 1]

MCToResolve ==
  { MCVaa(sol, alice), MCVaa(usdc, alice), MCVaa(spl, Malformed),
    [MCVaa(spl, alice) EXCEPT !.to = "redeemer"] }
MCFromSolana == {MCVaa(sol, alice), MCSolanaVaa}
MCNothing == [t \in Mints |-> NoAccount]
=============================================================================
