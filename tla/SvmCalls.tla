------------------------------ MODULE SvmCalls ------------------------------
(***************************************************************************)
(* What an instruction of the SVM program may do with the accounts it was  *)
(* passed.  A program calls another one with accounts of its own           *)
(* instruction, and only with the rights it has on them: it may write what *)
(* its Accounts struct declares mutable, and sign for those who signed for *)
(* it and for addresses derived from its own seeds.  A call that asks for  *)
(* more fails, and with it the whole instruction, for everybody.           *)
(*                                                                         *)
(* Accounts are named by their part in the instruction.                    *)
(***************************************************************************)

\* Who declares what: the Accounts structs.
BothTransfers ==
  { "config", "token_bridge_config", "authority_signer", "emitter", "System",
    "Token", "Wormhole", "TokenBridge", "Executor", "clock", "rent" }

TransferNativeWithRelay ==
  [signers  |-> {"payer", "message"},
   writable |-> {"payer", "mint", "from", "tmp", "custody", "bridge",
                 "message", "sequence", "fee_collector", "payee"},
   readonly |-> BothTransfers \cup {"custody_signer", "AssociatedToken"}]

TransferWrappedWithRelay ==
  [signers  |-> {"payer", "message"},
   writable |-> {"payer", "mint", "from", "tmp", "bridge", "message",
                 "sequence", "fee_collector", "payee"},
   readonly |-> BothTransfers \cup {"meta"}]

BothCompletions ==
  { "config", "token_bridge_config", "vaa", "endpoint", "System", "Token",
    "Wormhole", "TokenBridge", "AssociatedToken", "rent" }

\* Mutant: the custody account is not declared mutable.
BugCustodyReadonly ==
  [signers  |-> {"payer"},
   writable |-> {"payer", "recipient", "ata", "tmp", "claim"},
   readonly |-> BothCompletions \cup {"mint", "custody", "custody_signer"}]

CompleteNativeWithRelay ==
  [signers  |-> {"payer"},
   writable |-> {"payer", "recipient", "ata", "tmp", "claim", "custody"},
   readonly |-> BothCompletions \cup {"mint", "custody_signer"}]

CompleteWrappedWithRelay ==
  [signers  |-> {"payer"},
   writable |-> {"payer", "recipient", "ata", "tmp", "claim", "mint"},
   readonly |-> BothCompletions \cup {"meta", "mint_signer"}]

-----------------------------------------------------------------------------
(* The calls of the instructions.  seeds are the addresses signed for.     *)

Call(program, signers, seeds, writable, readonly) ==
  [program |-> program, signers |-> signers, seeds |-> seeds,
   writable |-> writable, readonly |-> readonly]

InitTmp ==
  { Call("System", {"payer", "tmp"}, {"tmp"}, {"payer", "tmp"}, {}),
    Call("Token", {}, {}, {"tmp"}, {"mint", "config"}) }

InitAta(owner, ata) ==
  { Call("AssociatedToken", {"payer"}, {}, {"payer", ata},
         {owner, "mint", "System", "Token"}) }

Approve ==
  { Call("Token", {"config"}, {"config"}, {"tmp"}, {"authority_signer"}) }

TransferChecked(from, to, authority, seeds) ==
  { Call("Token", {authority}, seeds, {from, to}, {"mint"}) }

CloseAccount(destination) ==
  { Call("Token", {"config"}, {"config"}, {"tmp", destination}, {}) }

request_for_execution ==
  { Call("Executor", {"payer"}, {}, {"payer", "payee"}, {"System"}) }

transfer_native_with_payload ==
  { Call("TokenBridge", {"payer", "message", "config"}, {"config"},
         {"payer", "tmp", "mint", "custody", "bridge", "message", "sequence",
          "fee_collector"},
         {"token_bridge_config", "authority_signer", "custody_signer",
          "emitter", "clock", "rent", "System", "Wormhole", "Token"}) }

\* from_owner and sender are both the config account.
transfer_wrapped_with_payload ==
  { Call("TokenBridge", {"payer", "message", "config"}, {"config"},
         {"payer", "tmp", "mint", "bridge", "message", "sequence",
          "fee_collector"},
         {"meta", "token_bridge_config", "authority_signer", "emitter",
          "clock", "rent", "System", "Wormhole", "Token"}) }

complete_transfer_native_with_payload ==
  { Call("TokenBridge", {"payer", "config"}, {"config"},
         {"payer", "claim", "tmp", "custody"},
         {"token_bridge_config", "vaa", "endpoint", "mint", "custody_signer",
          "rent", "System", "Wormhole", "Token"}) }

complete_transfer_wrapped_with_payload ==
  { Call("TokenBridge", {"payer", "config"}, {"config"},
         {"payer", "claim", "tmp", "mint"},
         {"token_bridge_config", "vaa", "endpoint", "meta", "mint_signer",
          "rent", "System", "Wormhole", "Token"}) }

\* What the temporary account is filled from.
Fill(wrap) ==
  IF wrap
    THEN { Call("System", {"payer"}, {}, {"payer", "tmp"}, {}),
           Call("Token", {}, {}, {"tmp"}, {}) }          \* sync_native
    ELSE TransferChecked("from", "tmp", "payer", {})

transfer_native_tokens_with_relay(wrap) ==
  InitAta("payer", "from") \cup InitTmp \cup Fill(wrap) \cup Approve
    \cup transfer_native_with_payload \cup CloseAccount("payer")
    \cup request_for_execution

transfer_wrapped_tokens_with_relay ==
  InitTmp \cup Fill(FALSE) \cup Approve \cup transfer_wrapped_with_payload
    \cup CloseAccount("payer") \cup request_for_execution

redeem_token ==
  TransferChecked("tmp", "ata", "config", {"config"}) \cup CloseAccount("payer")

complete_native_transfer_with_relay(unwrap) ==
  InitAta("recipient", "ata") \cup InitTmp
    \cup complete_transfer_native_with_payload
    \cup (IF unwrap THEN CloseAccount("recipient") ELSE redeem_token)

complete_wrapped_transfer_with_relay ==
  InitAta("recipient", "ata") \cup InitTmp
    \cup complete_transfer_wrapped_with_payload \cup redeem_token

-----------------------------------------------------------------------------
\* An instruction with these accounts may make these calls.
Permitted(accounts, calls) ==
  \A c \in calls :
    /\ c.program \in accounts.readonly
    /\ c.writable \subseteq accounts.writable
    /\ c.readonly \subseteq accounts.readonly \cup accounts.writable
    /\ c.signers \subseteq accounts.signers \cup c.seeds

MayTransferNative ==
  [wrap \in BOOLEAN |->
     Permitted(TransferNativeWithRelay, transfer_native_tokens_with_relay(wrap))]

MayTransferWrapped ==
  Permitted(TransferWrappedWithRelay, transfer_wrapped_tokens_with_relay)

MayCompleteNative ==
  [unwrap \in BOOLEAN |->
     Permitted(CompleteNativeWithRelay,
               complete_native_transfer_with_relay(unwrap))]

MayCompleteWrapped ==
  Permitted(CompleteWrappedWithRelay, complete_wrapped_transfer_with_relay)
=============================================================================
