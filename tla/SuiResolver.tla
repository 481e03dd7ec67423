----------------------------- MODULE SuiResolver ----------------------------
(***************************************************************************)
(* The PTB resolver on Sui and the off-chain executor that calls it.       *)
(*                                                                         *)
(* For a signed message the executor runs resolve_vaa with what it has     *)
(* discovered so far; the resolver asks for the look-ups that are missing, *)
(* or returns the transaction that redeems the message.  The look-ups are  *)
(* made one by one, and the transaction is submitted later, while packages *)
(* are upgraded, coin types registered and messages redeemed by others.    *)
(*                                                                         *)
(* The executor and the upgrades of Wormhole and the Token Bridge are      *)
(* external; a package that was upgraded refuses to be called.             *)
(***************************************************************************)
EXTENDS SuiRelayer, Sequences, SequencesExt

CONSTANTS
  executor,      \* the user that submits what was resolved
  NoPlan,        \* no transaction resolved
  Unknown,       \* not discovered
  MaxUpgrades    \* upgrades of each package

ASSUME ResolverAssumption == executor \in Users

VARIABLES
  version,       \* the current version of each upgradable package
  asked,         \* the look-ups the resolver asked for, not made yet
  discovered,    \* what the executor passes for each message
  plan           \* the transaction resolved for each message, if any

resolverVars == <<version, asked, discovered, plan>>
allVars == <<vars, resolverVars>>

Upgradable == {"wormhole_package", "token_bridge_package"}
Lookups == Upgradable \cup {"relayer_package", "coin_type"}
Nothing == [key \in Lookups |-> Unknown]

-----------------------------------------------------------------------------
(* The resolver.                                                           *)

\* Mutant: the coin type is taken for known once the packages are.
BugSkipsCoinType(found) ==
  {key \in Lookups \ {"coin_type"} : found[key] = Unknown}

\* The look-ups that are missing; the coin type is looked up in a table whose
\* key type is named after the Token Bridge's package, so that comes first.
PendingLookups(found) ==
  {key \in Lookups : /\ found[key] = Unknown
                     /\ key = "coin_type" =>
                          found["token_bridge_package"] # Unknown}

Input(name) == [input |-> name, result |-> 0]
Result(i) == [input |-> "", result |-> i]

Call(package, function, type, args) ==
  [package |-> package, function |-> function, type |-> type, args |-> args]

\* Mutant: the message is authorized without being marked as consumed.
BugSkipsReplayProtection(found) ==
  << Call(found["wormhole_package"], "parse_and_verify", Unknown,
          <<Input("wormhole_state"), Input("vaa_bytes"), Input("clock")>>),
     Call(found["token_bridge_package"], "authorize_transfer",
          found["coin_type"], <<Input("token_bridge_state"), Result(1)>>),
     Call(found["relayer_package"], "execute_vaa_v1", found["coin_type"],
          <<Input("relayer_state"), Result(2)>>) >>

\* build_redemption_ptb
RedemptionPtb(found) ==
  << Call(found["wormhole_package"], "parse_and_verify", Unknown,
          <<Input("wormhole_state"), Input("vaa_bytes"), Input("clock")>>),
     Call(found["token_bridge_package"], "verify_only_once", Unknown,
          <<Input("token_bridge_state"), Result(1)>>),
     Call(found["token_bridge_package"], "authorize_transfer",
          found["coin_type"], <<Input("token_bridge_state"), Result(2)>>),
     Call(found["relayer_package"], "execute_vaa_v1", found["coin_type"],
          <<Input("relayer_state"), Result(3)>>) >>

\* resolve_vaa: a message that is not a TransferWithPayload aborts.
Resolution(vaa, found) ==
  CASE vaa.payload_type # 3 -> [kind |-> "error"]
    [] vaa.payload_type = 3 /\ PendingLookups(found) # {} ->
         [kind |-> "needs_offchain", lookups |-> PendingLookups(found)]
    [] OTHER -> [kind |-> "resolved", ptb |-> RedemptionPtb(found)]

\* The executor asks when it has made every look-up it was asked for.
Ask(vaa) ==
  /\ plan[vaa] = NoPlan /\ asked[vaa] = {}
  /\ LET answer == Resolution(vaa, discovered[vaa])
     IN CASE answer.kind = "needs_offchain" ->
               /\ asked' = [asked EXCEPT ![vaa] = answer.lookups]
               /\ UNCHANGED plan
          [] answer.kind = "resolved" ->
               /\ plan' = [plan EXCEPT ![vaa] = answer.ptb]
               /\ UNCHANGED asked
          [] OTHER -> UNCHANGED <<asked, plan>>
  /\ UNCHANGED <<vars, version, discovered>>

-----------------------------------------------------------------------------
(* What the executor finds on chain.                                       *)

\* A package look-up reads the CurrentPackage of the state object, the relayer
\* package is a field of its State, the coin type an entry of the registry.
OnChain(vaa, key) ==
  CASE key \in Upgradable -> <<key, version[key]>>
    [] key = "relayer_package" ->
         IF Published THEN <<key, 0>> ELSE Unknown
    [] key = "coin_type" ->
         IF vaa.coin \in registry THEN vaa.coin ELSE Unknown

Discover(vaa, key) ==
  /\ key \in asked[vaa]
  /\ asked' = [asked EXCEPT ![vaa] = @ \ {key}]
  /\ discovered' = [discovered EXCEPT ![vaa][key] = OnChain(vaa, key)]
  /\ UNCHANGED <<vars, version, plan>>

-----------------------------------------------------------------------------
(* The transaction that was resolved.                                      *)

\* What each function takes and what it returns.
Parameters ==
  [parse_and_verify   |-> <<"wormhole_state", "vaa_bytes", "clock">>,
   verify_only_once   |-> <<"token_bridge_state", "VAA">>,
   authorize_transfer |-> <<"token_bridge_state", "TokenBridgeMessage">>,
   execute_vaa_v1     |-> <<"relayer_state", "RedeemerReceipt">>]

Returns ==
  [parse_and_verify   |-> "VAA",
   verify_only_once   |-> "TokenBridgeMessage",
   authorize_transfer |-> "RedeemerReceipt",
   execute_vaa_v1     |-> "nothing"]

Package ==
  [parse_and_verify   |-> "wormhole_package",
   verify_only_once   |-> "token_bridge_package",
   authorize_transfer |-> "token_bridge_package",
   execute_vaa_v1     |-> "relayer_package"]

\* Command i is given what it takes: inputs, and results of earlier commands.
WellTyped(ptb, i) ==
  LET call == ptb[i]
      Kind(arg) == IF arg.result = 0 THEN arg.input
                     ELSE Returns[ptb[arg.result].function]
  IN /\ call.package # Unknown /\ call.package[1] = Package[call.function]
     /\ \A k \in DOMAIN call.args : call.args[k].result < i
     /\ [k \in DOMAIN call.args |-> Kind(call.args[k])]
          = Parameters[call.function]

\* What a command returns cannot be dropped or copied: it is used once.
UsedOnce(ptb, i) ==
  Returns[ptb[i].function] # "nothing" =>
    Cardinality({place \in (DOMAIN ptb) \X (1..3) :
                   LET args == ptb[place[1]].args
                   IN place[2] \in DOMAIN args /\ args[place[2]].result = i})
      = 1

Runs(ptb) == \A i \in DOMAIN ptb : WellTyped(ptb, i) /\ UsedOnce(ptb, i)

\* The coin type the last command, the relayer's, is called with.
PaidIn(ptb) == Last(ptb).type

\* Every package called is the current one.
Current(ptb) ==
  \A i \in DOMAIN ptb : \A key \in Upgradable :
    ptb[i].package[1] = key => ptb[i].package[2] = version[key]

\* The transaction succeeds, and redeems the message.
Submit(vaa) ==
  /\ plan[vaa] # NoPlan
  /\ Runs(plan[vaa]) /\ Current(plan[vaa])
  /\ Redeem(executor, vaa, PaidIn(plan[vaa]))
  /\ UNCHANGED resolverVars

\* The transaction aborts; the executor starts over, unless the message has
\* been redeemed.
SubmitFails(vaa) ==
  /\ plan[vaa] # NoPlan /\ vaa \notin consumed
  /\ ~Runs(plan[vaa]) \/ ~Current(plan[vaa]) \/ ~CanRedeem(vaa)
  /\ plan' = [plan EXCEPT ![vaa] = NoPlan]
  /\ discovered' = [discovered EXCEPT ![vaa] = Nothing]
  /\ UNCHANGED <<vars, version, asked>>

\* Governance upgrades Wormhole or the Token Bridge.
Upgrade(key) ==
  /\ version[key] < MaxUpgrades
  /\ version' = [version EXCEPT ![key] = @ + 1]
  /\ UNCHANGED <<vars, asked, discovered, plan>>

-----------------------------------------------------------------------------
ResolverInit ==
  /\ Init
  /\ version = [key \in Upgradable |-> 0]
  /\ asked = [v \in Inbound |-> {}]
  /\ discovered = [v \in Inbound |-> Nothing]
  /\ plan = [v \in Inbound |-> NoPlan]

ResolverNext ==
  \/ \E vaa \in Inbound :
       Ask(vaa) \/ Submit(vaa) \/ SubmitFails(vaa)
         \/ \E key \in Lookups : Discover(vaa, key)
  \/ \E key \in Upgradable : Upgrade(key)
  \/ Next /\ UNCHANGED resolverVars

ResolverSpec ==
  /\ ResolverInit
  /\ [][ResolverNext]_allVars
  /\ \A vaa \in Inbound :
       /\ WF_allVars(Ask(vaa))
       /\ WF_allVars(\E key \in Lookups : Discover(vaa, key))
       /\ WF_allVars(Submit(vaa))
       /\ WF_allVars(SubmitFails(vaa))

-----------------------------------------------------------------------------
(* Properties.                                                             *)

\* A transaction the resolver returns can run: every function gets what it
\* takes, what cannot be dropped is passed on once, no package is left
\* undiscovered, and it pays in the coin type of the message.
PlansRun ==
  \A v \in Inbound :
    plan[v] # NoPlan => Runs(plan[v]) /\ PaidIn(plan[v]) = v.coin

\* A message the relayer can redeem is paid to its recipient, unless another
\* package redeems it first: asking, looking up and asking again come to an end,
\* and a transaction made stale by an upgrade between two look-ups, or after the
\* last one, is replaced.
EventuallyRedeemed ==
  \A v \in Inbound :
    CanRedeem(v) ~>
      \/ \E p \in payouts : p.vaa = v /\ p.to = v.recipient
      \/ v \in Elsewhere
=============================================================================
