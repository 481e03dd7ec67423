---------------------------- MODULE TokenAmounts ----------------------------
(***************************************************************************)
(* The amount arithmetic every chain of the relayer shares: Token Bridge   *)
(* messages carry at most eight decimals, so an amount of a token with     *)
(* more decimals is divided on the way in and multiplied on the way out.   *)
(***************************************************************************)
EXTENDS Integers

CONSTANT
  Pow10     \* the powers of ten, 10^k for k in 1..247 (decimals is a uint8)

\* Only positivity matters to what is stated here, so the powers stay opaque:
\* the model checker is given a small radix, its integers have 32 bits.
ASSUME Pow10Assumption == Pow10 \in [1..247 -> Nat \ {0}]

Uint8 == 0..255

\* Division truncates: what it drops is the dust.
normalizeAmount(amount, decimals) ==
  IF decimals > 8 THEN amount \div Pow10[decimals - 8] ELSE amount

denormalizeAmount(amount, decimals) ==
  IF decimals > 8 THEN amount * Pow10[decimals - 8] ELSE amount

\* Mutant: the dust is not cut off.
BugKeepsDust(amount, decimals) == amount

\* The amount a Token Bridge can carry out of the amount asked for.
truncateAmount(amount, decimals) ==
  denormalizeAmount(normalizeAmount(amount, decimals), decimals)

=============================================================================
