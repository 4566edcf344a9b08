---------------------------- MODULE ProtocolFees ----------------------------
(***************************************************************************)
(* contracts/protocol-fees.clar: fee configuration, fee collection and the *)
(* treasury.  Holds too the STX balances of the chain, which the contracts *)
(* move with stx-transfer?.                                                *)
(***************************************************************************)
EXTENDS PrivacyRegistry

CONSTANTS
  FeesContract,      \* the principal that holds the treasury
  BpsDenominator,    \* BPS-DENOMINATOR
  FlatFeeCeiling,    \* FLAT-FEE-CEILING
  FeeInputs,         \* the [bps, flat, enabled] settings callers present
  Users,             \* the accounts that sign transactions
  RecipientInputs,   \* the recipients offered to transfers of STX
  InitialStx         \* balances when the protocol is deployed

FEE_TYPE_SHIELD     == 1
FEE_TYPE_TRANSFER   == 2
FEE_TYPE_WITHDRAWAL == 3
FEE_TYPE_RELAYER    == 4
FeeTypes == 1..4

FeeConfig == [bps : Nat, flat : Nat, enabled : BOOLEAN]

ASSUME FeesAssumption ==
  /\ FeesContract \in Principals
  /\ Users \subseteq Principals \ {FeesContract}
  /\ RecipientInputs \subseteq Principals
  /\ BpsDenominator \in Nat \ {0}
  /\ FlatFeeCeiling \in Nat
  /\ FeeInputs \subseteq FeeConfig
  /\ InitialStx \in [Principals -> Nat]
  /\ InitialStx[FeesContract] = 0

VARIABLES
  feeConfigs, treasury, feeTypeStats, feesFrozen, treasuryFrozen,
  stx                \* principal |-> its STX balance

feeConfigVars == <<feeConfigs, feesFrozen, treasuryFrozen>>
treasuryVars == <<treasury, feeTypeStats>>
feeVars == <<feeConfigVars, treasuryVars>>

FeesInit ==
  /\ feeConfigs = [t \in FeeTypes |-> [bps |-> 0, flat |-> 0, enabled |-> TRUE]]
  /\ treasury = [collected |-> 0, withdrawn |-> 0, balance |-> 0]
  /\ feeTypeStats = [t \in FeeTypes |-> 0]
  /\ feesFrozen = FALSE /\ treasuryFrozen = FALSE
  /\ stx = InitialStx

\* stx-transfer?: fails on a zero amount, a transfer to oneself and a short
\* balance.
CanPay(balances, from, to, amount) ==
  amount > 0 /\ from # to /\ balances[from] >= amount
Pay(balances, from, to, amount) ==
  [balances EXCEPT ![from] = @ - amount, ![to] = @ + amount]

-----------------------------------------------------------------------------
(* What an operation costs, and collecting it.                             *)

\* Mutant of EffectiveBps: the stored setting wins over a lowered ceiling.
EffectiveBps_Unclamped(configured) ==
  configured

EffectiveBps(configured) ==
  IF configured > protocolLimits.maxFeeBps THEN protocolLimits.maxFeeBps
                                           ELSE configured

CalculateFee(type, amount) ==
  IF feeConfigs[type].enabled
  THEN feeConfigs[type].flat
         + (amount * EffectiveBps(feeConfigs[type].bps)) \div BpsDenominator
  ELSE 0

\* Mutant of CollectFeeCall: the type total is overwritten.
CollectFeeCall_Overwrites(caller, type, amount) ==
  /\ CheckActive
  /\ ~feesFrozen
  /\ IsProtocolCaller(caller)
  /\ amount > 0
  /\ treasury' = [treasury EXCEPT !.collected = @ + amount, !.balance = @ + amount]
  /\ feeTypeStats' = [feeTypeStats EXCEPT ![type] = amount]

\* collect-fee's gates and accounting, without its STX movement.
CollectFeeCall(caller, type, amount) ==
  /\ CheckActive
  /\ ~feesFrozen
  /\ IsProtocolCaller(caller)
  /\ amount > 0
  /\ treasury' = [treasury EXCEPT !.collected = @ + amount, !.balance = @ + amount]
  /\ feeTypeStats' = [feeTypeStats EXCEPT ![type] = @ + amount]

\* The pools' (if (> fee u0) (try! (collect-fee ...)) u0), paid by payer out of
\* the balances the transaction has reached; AfterFee are the balances after it.
CollectFeeIfAny(caller, type, payer, fee, balances) ==
  \/ fee = 0 /\ UNCHANGED treasuryVars
  \/ CollectFeeCall(caller, type, fee) /\ CanPay(balances, payer, FeesContract, fee)

AfterFee(balances, payer, fee) ==
  IF fee = 0 THEN balances ELSE Pay(balances, payer, FeesContract, fee)

-----------------------------------------------------------------------------
(* Administration of fees and treasury.                                    *)

IsFeeAdmin(who) == IsAdmin(who, ROLE_FEE_ADMIN)
IsFeeEmergencyAdmin(who) == IsAdmin(who, ROLE_EMERGENCY_ADMIN)

SetFee(caller) ==
  /\ IsFeeAdmin(caller)
  /\ \E type \in FeeTypes, new \in FeeInputs :
       /\ new.bps <= protocolLimits.maxFeeBps
       /\ new.flat <= FlatFeeCeiling
       /\ feeConfigs' = [feeConfigs EXCEPT ![type] = new]
  /\ UNCHANGED <<feesFrozen, treasuryFrozen, treasuryVars, stx, registryVars>>

WithdrawFees(caller) ==
  /\ IsOwner(caller)
  /\ ~treasuryFrozen
  /\ \E amount \in AmountInputs, recipient \in RecipientInputs :
       /\ amount > 0
       /\ recipient # BurnAddress
       /\ amount <= treasury.balance
       /\ CanPay(stx, FeesContract, recipient, amount)
       /\ stx' = Pay(stx, FeesContract, recipient, amount)
       /\ treasury' = [treasury EXCEPT !.withdrawn = @ + amount,
                                       !.balance = @ - amount]
  /\ UNCHANGED <<feeConfigVars, feeTypeStats, registryVars>>

FreezeFees(caller) ==
  /\ IsFeeEmergencyAdmin(caller)
  /\ ~feesFrozen /\ feesFrozen' = TRUE
  /\ UNCHANGED <<feeConfigs, treasuryFrozen, treasuryVars, stx, registryVars>>

UnfreezeFees(caller) ==
  /\ IsFeeEmergencyAdmin(caller)
  /\ feesFrozen /\ feesFrozen' = FALSE
  /\ UNCHANGED <<feeConfigs, treasuryFrozen, treasuryVars, stx, registryVars>>

FreezeTreasury(caller) ==
  /\ IsFeeEmergencyAdmin(caller)
  /\ ~treasuryFrozen /\ treasuryFrozen' = TRUE
  /\ UNCHANGED <<feeConfigs, feesFrozen, treasuryVars, stx, registryVars>>

UnfreezeTreasury(caller) ==
  /\ IsFeeEmergencyAdmin(caller)
  /\ treasuryFrozen /\ treasuryFrozen' = FALSE
  /\ UNCHANGED <<feeConfigs, feesFrozen, treasuryVars, stx, registryVars>>

\* Any account may send STX to any principal, the contracts included.
StxTransfer(caller) ==
  /\ \E to \in RecipientInputs, amount \in AmountInputs :
       /\ CanPay(stx, caller, to, amount)
       /\ stx' = Pay(stx, caller, to, amount)
  /\ UNCHANGED <<feeVars, registryVars>>

FeesAdminStep(caller) ==
  \/ SetFee(caller)
  \/ WithdrawFees(caller)
  \/ FreezeFees(caller)
  \/ UnfreezeFees(caller)
  \/ FreezeTreasury(caller)
  \/ UnfreezeTreasury(caller)

-----------------------------------------------------------------------------
(* Properties.                                                             *)

\* Fee settings, treasury record and balances hold values of their types.
FeesTypeOK ==
  /\ feeConfigs \in [FeeTypes -> FeeConfig]
  /\ treasury \in [collected : Nat, withdrawn : Nat, balance : Nat]
  /\ feeTypeStats \in [FeeTypes -> Nat]
  /\ feesFrozen \in BOOLEAN /\ treasuryFrozen \in BOOLEAN
  /\ stx \in [Principals -> Nat]

\* The treasury's books balance: what it says it holds is collected minus
\* withdrawn, the per-type totals add up to what was collected, and the fees
\* contract really holds at least that much STX.
TreasuryBacked ==
  /\ treasury.balance + treasury.withdrawn = treasury.collected
  /\ feeTypeStats[1] + feeTypeStats[2] + feeTypeStats[3] + feeTypeStats[4]
       = treasury.collected
  /\ stx[FeesContract] >= treasury.balance
=============================================================================
