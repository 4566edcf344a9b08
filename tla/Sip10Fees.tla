------------------------------ MODULE Sip10Fees ------------------------------
(***************************************************************************)
(* contracts/sip10-protocol-fees.clar: fees taken and kept in an asset's   *)
(* own token.  Holds too the token balances of the chain.  A token may     *)
(* misbehave the way contracts/mock-sbtc.clar can be told to: what it      *)
(* skims off a transfer is burned, so less arrives than leaves.            *)
(***************************************************************************)
EXTENDS AssetRegistry, ProtocolFees

CONSTANTS
  Sip10FeesContract,   \* the principal that holds the token treasuries
  Faulty,              \* the tokens that can start and stop skimming
  SkimBps,             \* what they skim
  InitialTokens        \* token |-> balances when the contracts are deployed

ASSUME Sip10FeesAssumption ==
  /\ Sip10FeesContract \in Principals \ (Users \cup {FeesContract})
  /\ Faulty \subseteq Tokens
  /\ SkimBps \in Nat /\ SkimBps < BpsDenominator
  /\ InitialTokens \in [Tokens -> [Principals -> Nat]]
  /\ \A t \in Tokens : InitialTokens[t][Sip10FeesContract] = 0

VARIABLES
  assetTreasury, assetFeeStats, assetFeesFrozen, assetTreasuryFrozen,
  tokens,              \* token |-> [principal -> balance]
  skimming             \* the tokens that skim at the moment

assetTreasuryVars == <<assetTreasury, assetFeeStats>>
assetFreezeVars == <<assetFeesFrozen, assetTreasuryFrozen>>
tokenVars == <<tokens, skimming>>
assetFeeVars == <<assetTreasuryVars, assetFreezeVars, tokenVars>>

\* An asset without an entry has the zero treasury and zero statistics.
AssetFeesInit ==
  /\ assetTreasury = [id \in AssetIds |-> [collected |-> 0, withdrawn |-> 0, balance |-> 0]]
  /\ assetFeeStats = [id \in AssetIds |-> [t \in AssetFeeTypes |-> 0]]
  /\ assetFeesFrozen = FALSE /\ assetTreasuryFrozen = FALSE
  /\ tokens = InitialTokens /\ skimming = {}

-----------------------------------------------------------------------------
(* Tokens: transfer fails on nothing to move, on a transfer to oneself and *)
(* on a short balance.                                                     *)

SkimOf(token, amount) ==
  IF token \in skimming THEN (amount * SkimBps) \div BpsDenominator ELSE 0

CanMove(balances, token, from, to, amount) ==
  /\ amount - SkimOf(token, amount) > 0
  /\ from # to
  /\ balances[token][from] >= amount

Moved(balances, token, from, to, amount) ==
  [balances EXCEPT ![token][from] = @ - amount,
                   ![token][to] = @ + (amount - SkimOf(token, amount))]

\* Any account may send tokens to any principal, the contracts included.
TokenTransfer(caller) ==
  /\ \E token \in Tokens, to \in RecipientInputs, amount \in AmountInputs :
       /\ CanMove(tokens, token, caller, to, amount)
       /\ tokens' = Moved(tokens, token, caller, to, amount)
  /\ UNCHANGED <<skimming, assetTreasuryVars, assetFreezeVars>>

SetSkimBps ==
  /\ \E token \in Faulty :
       skimming' = IF token \in skimming THEN skimming \ {token} ELSE skimming \cup {token}
  /\ UNCHANGED <<tokens, assetTreasuryVars, assetFreezeVars>>

-----------------------------------------------------------------------------
(* What an operation costs, and collecting it.                             *)

AssetFee(id, type, amount) ==
  LET config == assetFees[id][type]
  IN  IF config.enabled
      THEN config.flat + (amount * EffectiveBps(config.bps)) \div BpsDenominator
      ELSE 0

\* collect-fee: the contract pays itself out of the payer's balance, and books
\* the amount it asked for.
CollectAssetFee(caller, id, type, payer, amount, balances) ==
  /\ CheckActive
  /\ ~assetFeesFrozen
  /\ IsProtocolCaller(caller)
  /\ amount > 0
  /\ CanMove(balances, assets[id].token, payer, Sip10FeesContract, amount)
  /\ assetTreasury' = [assetTreasury EXCEPT ![id].collected = @ + amount,
                                            ![id].balance = @ + amount]
  /\ assetFeeStats' = [assetFeeStats EXCEPT ![id][type] = @ + amount]

CollectAssetFeeIfAny(caller, id, type, payer, fee, balances) ==
  \/ fee = 0 /\ UNCHANGED assetTreasuryVars
  \/ CollectAssetFee(caller, id, type, payer, fee, balances)

AfterAssetFee(balances, id, payer, fee) ==
  IF fee = 0 THEN balances
  ELSE Moved(balances, assets[id].token, payer, Sip10FeesContract, fee)

-----------------------------------------------------------------------------
(* The owner's payouts, and the emergency team's freezes.                  *)

WithdrawAssetFees(caller) ==
  /\ IsOwner(caller)
  /\ ~assetTreasuryFrozen
  /\ \E id \in DOMAIN assets, amount \in AmountInputs :
       LET asset == assets[id]
       IN  /\ amount > 0
           /\ amount <= assetTreasury[id].balance
           /\ CanMove(tokens, asset.token, Sip10FeesContract, asset.feeRecipient, amount)
           /\ tokens' = Moved(tokens, asset.token, Sip10FeesContract, asset.feeRecipient, amount)
           /\ assetTreasury' = [assetTreasury EXCEPT ![id].withdrawn = @ + amount,
                                                     ![id].balance = @ - amount]
  /\ UNCHANGED <<assetFeeStats, assetFreezeVars, skimming>>

\* freeze-fees and unfreeze-fees refuse to repeat the value in force.
FlipFeesFreeze(caller) ==
  /\ IsAdmin(caller, ROLE_EMERGENCY_ADMIN)
  /\ assetFeesFrozen' = ~assetFeesFrozen
  /\ UNCHANGED <<assetTreasuryFrozen, assetTreasuryVars, tokenVars>>

FlipTreasuryFreeze(caller) ==
  /\ IsAdmin(caller, ROLE_EMERGENCY_ADMIN)
  /\ assetTreasuryFrozen' = ~assetTreasuryFrozen
  /\ UNCHANGED <<assetFeesFrozen, assetTreasuryVars, tokenVars>>

AssetFeesStep(caller) ==
  \/ WithdrawAssetFees(caller)
  \/ FlipFeesFreeze(caller)
  \/ FlipTreasuryFreeze(caller)

-----------------------------------------------------------------------------
(* Properties.                                                             *)

\* Every asset's books balance, whatever its settings, statuses and recipients
\* went through, and for a token that moves what it is asked to, the fees
\* contract holds at least what the books say: a payout the books allow never
\* fails for want of tokens.
TokenTreasuriesBacked ==
  \A id \in AssetIds :
    LET t == assetTreasury[id]
    IN  /\ t.balance >= 0 /\ t.balance + t.withdrawn = t.collected
        /\ assetFeeStats[id][1] + assetFeeStats[id][2] + assetFeeStats[id][3]
             + assetFeeStats[id][4] + assetFeeStats[id][5] = t.collected
        /\ KnownAsset(id) /\ assets[id].token \notin Faulty =>
             tokens[assets[id].token][Sip10FeesContract] >= t.balance
=============================================================================
