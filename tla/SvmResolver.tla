----------------------------- MODULE SvmResolver ----------------------------
(***************************************************************************)
(* resolve_execute_vaa_v1 and the off-chain executor that calls it.        *)
(*                                                                         *)
(* For a signed message the executor asks the program which instruction    *)
(* redeems it.  The program answers with the accounts it has to see first, *)
(* with the instruction, or with an error; it sees the accounts as they    *)
(* are at that moment, and the instruction runs later, against a chain     *)
(* that others have changed meanwhile.                                     *)
(*                                                                         *)
(* The executor is external: it passes the accounts it was asked for,      *)
(* submits what it was told, and asks again when that fails.               *)
(***************************************************************************)
EXTENDS SvmRelayer, Sequences

CONSTANTS
  executor,      \* the user that pays for the executor's instructions
  NoPlan         \* no instruction resolved

ASSUME ResolverAssumption == executor \in Users

VARIABLES
  known,         \* the accounts the executor passes for each message
  plan           \* the instruction resolved for each message, if any

resolverVars == <<known, plan>>

-----------------------------------------------------------------------------
(* Accounts, by what they are derived from: a static one is named, one of a *)
(* transfer carries the mint, recipient or message it belongs to.           *)

Static(name) == <<name>>
IsStatic(key) == Len(key) = 1
Of(name, what) == <<name, what>>
Ata(user, mint, program) == <<"ata", user, mint, program>>

R(key) == [key |-> key, writable |-> FALSE]
W(key) == [key |-> key, writable |-> TRUE]

Native(vaa) == vaa.tokenChain = OUR_CHAIN

\* The owner of a mint account: what is not there belongs to System.
Owner(mint) == IF Exists(mint) THEN Static("Token") ELSE Static("System")

Programs(program) ==
  << R(Static("Wormhole")), R(Static("TokenBridge")), R(program),
     R(Static("AssociatedToken")), R(Static("System")), R(Static("rent")) >>

\* Mutant: the claim account is listed after the endpoint.
BugNativeOrder(vaa, mint, program) ==
  << W(Of("payer", vaa)), R(Static("redeemer")), R(Of("mint", mint)),
     W(Ata(vaa.recipient, mint, program)), W(Of("user", vaa.recipient)),
     W(Of("tmp", mint)), R(Static("config")), R(Of("posted", vaa)),
     R(Of("endpoint", vaa)), W(Of("claim", vaa)), W(Of("custody", mint)),
     R(Static("custody_signer")) >> \o Programs(program)

\* The accounts of the complete_native instruction the resolver returns.
NativeAccounts(vaa, mint, program) ==
  << W(Of("payer", vaa)), R(Static("redeemer")), R(Of("mint", mint)),
     W(Ata(vaa.recipient, mint, program)), W(Of("user", vaa.recipient)),
     W(Of("tmp", mint)), R(Static("config")), R(Of("posted", vaa)),
     W(Of("claim", vaa)), R(Of("endpoint", vaa)), W(Of("custody", mint)),
     R(Static("custody_signer")) >> \o Programs(program)

\* The accounts of the complete_wrapped instruction.
WrappedAccounts(vaa, mint, program) ==
  << W(Of("payer", vaa)), R(Static("redeemer")), W(Of("mint", mint)),
     W(Ata(vaa.recipient, mint, program)), W(Of("user", vaa.recipient)),
     W(Of("tmp", mint)), R(Of("meta", mint)), R(Static("config")),
     R(Of("posted", vaa)), W(Of("claim", vaa)), R(Of("endpoint", vaa)),
     W(Static("mint_signer")) >> \o Programs(program)

-----------------------------------------------------------------------------
(* The resolver.                                                           *)

LutPointer == Static("lut")

\* Mutant: it is always the mint that is missing.
BugMissingMint(vaa, given) ==
  IF {Of("mint", vaa.token), LutPointer} \subseteq given
    THEN {} ELSE {Of("mint", vaa.token)}

\* The accounts the resolver has to see and was not passed; it looks for the
\* mint first, and then asks for both.
MissingAccounts(vaa, given) ==
  IF Of("mint", vaa.token) \notin given THEN {Of("mint", vaa.token), LutPointer}
    ELSE {LutPointer} \ given

\* The answer for a message when the accounts in given are passed: the missing
\* ones are asked for before the payload is looked at.  A pointer account that is
\* not initialized does not deserialize, and taking the recipient from a payload
\* shorter than an address panics, which is the payload Malformed stands for here.
Resolution(vaa, given) ==
  LET missing  == MissingAccounts(vaa, given)
      program  == Owner(vaa.token)
  IN CASE missing # {} -> [kind |-> "missing", accounts |-> missing]
       [] missing = {} /\ (~Initialized \/ vaa.recipient = Malformed) ->
            [kind |-> "error"]
       [] OTHER ->
            [kind |-> "resolved", native |-> Native(vaa), table |-> lut,
             program |-> program,
             accounts |->
               IF Native(vaa) THEN NativeAccounts(vaa, vaa.token, program)
                              ELSE WrappedAccounts(vaa, vaa.token, program)]

\* The executor asks, and keeps what it is told.
Resolve(vaa) ==
  /\ plan[vaa] = NoPlan
  /\ LET answer == Resolution(vaa, known[vaa])
     IN CASE answer.kind = "missing" ->
               /\ known' = [known EXCEPT ![vaa] = @ \cup answer.accounts]
               /\ UNCHANGED plan
          [] answer.kind = "resolved" ->
               /\ plan' = [plan EXCEPT ![vaa] = answer]
               /\ UNCHANGED known
          [] OTHER -> UNCHANGED resolverVars
  /\ UNCHANGED vars

-----------------------------------------------------------------------------
(* The instruction that was resolved.                                      *)

\* What CompleteNativeWithRelay and the bridge behind it want in each place.
NativeLayout(vaa) ==
  LET mint == vaa.token
  IN << W(Of("payer", vaa)), R(Static("redeemer")), R(Of("mint", mint)),
        W(Ata(vaa.recipient, mint, Static("Token"))),
        W(Of("user", vaa.recipient)), W(Of("tmp", mint)), R(Static("config")),
        R(Of("posted", vaa)), W(Of("claim", vaa)), R(Of("endpoint", vaa)),
        W(Of("custody", mint)), R(Static("custody_signer")) >>
     \o Programs(Static("Token"))

\* What CompleteWrappedWithRelay and the bridge behind it want.
WrappedLayout(vaa) ==
  LET mint == vaa.token
  IN << W(Of("payer", vaa)), R(Static("redeemer")), W(Of("mint", mint)),
        W(Ata(vaa.recipient, mint, Static("Token"))),
        W(Of("user", vaa.recipient)), W(Of("tmp", mint)), R(Of("meta", mint)),
        R(Static("config")), R(Of("posted", vaa)), W(Of("claim", vaa)),
        R(Of("endpoint", vaa)), R(Static("mint_signer")) >>
     \o Programs(Static("Token"))

\* The accounts are the declared ones, in their places, writable where that is
\* asked.
Fits(accounts, declared) ==
  /\ Len(accounts) = Len(declared)
  /\ \A i \in 1..Len(declared) :
       /\ accounts[i].key = declared[i].key
       /\ declared[i].writable => accounts[i].writable

PlanFits(vaa) ==
  Fits(plan[vaa].accounts,
       IF plan[vaa].native THEN NativeLayout(vaa)
                           ELSE WrappedLayout(vaa))

\* The executor has the lamports the instruction takes.
Affordable(vaa) ==
  lamports[executor] >=
    RentDue(vaa.token) + AtaRent(vaa.recipient, vaa.token)

\* The executor submits the instruction.
Submit(vaa) ==
  /\ plan[vaa] # NoPlan
  /\ PlanFits(vaa)
  /\ \/ /\ plan[vaa].native
        /\ CompleteNative(executor, vaa, vaa.token, vaa.recipient)
     \/ /\ ~plan[vaa].native
        /\ CompleteWrapped(executor, vaa, vaa.token, vaa.recipient)
  /\ UNCHANGED resolverVars

\* The instruction fails; the executor forgets it and will ask again, unless
\* the message has been redeemed.
SubmitFails(vaa) ==
  /\ plan[vaa] # NoPlan
  /\ vaa \notin claims
  /\ ~PlanFits(vaa) \/ ~CanRedeem(vaa) \/ ~Affordable(vaa)
  /\ plan' = [plan EXCEPT ![vaa] = NoPlan]
  /\ UNCHANGED <<vars, known>>

-----------------------------------------------------------------------------
ResolverInit ==
  /\ Init
  /\ known = [v \in Inbound |-> {}]
  /\ plan = [v \in Inbound |-> NoPlan]

ResolverNext ==
  \/ \E vaa \in Inbound : Resolve(vaa) \/ Submit(vaa) \/ SubmitFails(vaa)
  \/ Next /\ UNCHANGED resolverVars

ResolverSpec ==
  /\ ResolverInit
  /\ [][ResolverNext]_<<vars, resolverVars>>
  /\ \A vaa \in Inbound :
       /\ WF_<<vars, resolverVars>>(Resolve(vaa))
       /\ WF_<<vars, resolverVars>>(Submit(vaa))
       /\ WF_<<vars, resolverVars>>(SubmitFails(vaa))

-----------------------------------------------------------------------------
(* Properties.                                                             *)

\* An instruction resolved while its mint existed has every account in the
\* place, and with the write access, that the instruction declares.
PlansFit ==
  \A v \in Inbound :
    plan[v] # NoPlan => PlanFits(v) \/ plan[v].program = Static("System")

\* The lookup table a plan names holds every account of the instruction that
\* is not particular to the transfer.
PlansUseTable ==
  \A v \in Inbound :
    plan[v] # NoPlan =>
      \A i \in DOMAIN plan[v].accounts :
        LET key == plan[v].accounts[i].key
        IN IsStatic(key) => Head(key) \in tables[plan[v].table]

\* A message for this program is redeemed once the program is initialized and
\* the mint exists: asking, being told what is missing, submitting and asking
\* again come to an end, though mints appear, lookup tables are set up and
\* others redeem messages in between.
EventuallyRedeemed ==
  \A v \in Inbound :
    Addressed(v) /\ Initialized /\ Exists(v.token) ~> v \in claims

\* The test "Returns execute instruction!": a message whose token is native to
\* chain 1 resolves to the native instruction.
SolanaTokensAreNative ==
  \A v \in Inbound :
    plan[v] # NoPlan /\ v.tokenChain = 1 => plan[v].native
=============================================================================
