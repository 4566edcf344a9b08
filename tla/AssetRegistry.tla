---------------------------- MODULE AssetRegistry ----------------------------
(***************************************************************************)
(* contracts/asset-registry.clar: the SIP-10 assets the protocol accepts,  *)
(* their status, limits, fee settings and fee recipients.  Names, decimals *)
(* and the schema version of a registration decide only whether it is      *)
(* refused, and are left out.                                              *)
(***************************************************************************)
EXTENDS PrivacyRegistry

CONSTANTS
  Tokens,              \* the SIP-10 token contracts
  AssetLimitInputs,    \* the limits callers present
  AssetFeeInputs,      \* the <<fee type, setting>> pairs callers present
  FeeRecipientInputs   \* the fee recipients callers present

ASSET_ACTIVE     == 1   \* shieldable and spendable
ASSET_DISABLED   == 2   \* spendable
ASSET_DEPRECATED == 3   \* spendable, and never anything else again
AssetFeeTypes == 1..5   \* shield, transfer, withdrawal, split, merge

AssetFeeConfig == [bps : Nat, flat : Nat, enabled : BOOLEAN]

AssetIds == 1..Cardinality(Tokens)

ASSUME AssetsAssumption ==
  /\ IsFiniteSet(Tokens) /\ None \notin Tokens
  /\ FeeRecipientInputs \subseteq Principals
  /\ \A input \in AssetFeeInputs :
       input[1] \in AssetFeeTypes /\ input[2] \in AssetFeeConfig

VARIABLES
  assets,              \* asset id |-> [token, status, limits, feeRecipient]
  assetIds,            \* token |-> its asset id (principal-to-id)
  assetFees,           \* asset id |-> [fee type -> setting]
  nextAssetId

assetVars == <<assets, assetIds, assetFees, nextAssetId>>

\* valid-limits; a note cap of zero means no cap.
ValidLimits(l) ==
  /\ l.minShield > 0 /\ l.maxShield >= l.minShield
  /\ l.minNote > 0 /\ l.minNote <= l.maxShield
  /\ l.maxNote = 0 \/ l.maxNote >= l.minNote

ZeroFee == [bps |-> 0, flat |-> 0, enabled |-> TRUE]

KnownAsset(id) == id \in DOMAIN assets
CanShield(id) == KnownAsset(id) /\ assets[id].status = ASSET_ACTIVE

\* Mutant of CanSpend: only an active asset's notes can be spent.
CanSpend_ActiveOnly(id) == KnownAsset(id) /\ assets[id].status = ASSET_ACTIVE

CanSpend(id) == KnownAsset(id)

-----------------------------------------------------------------------------
(* Registration, status and limits, by the protocol administrator.         *)

IsAssetAdmin(who) == IsAdmin(who, ROLE_PROTOCOL_ADMIN)
IsAssetFeeAdmin(who) == IsAdmin(who, ROLE_FEE_ADMIN)

RegisterAsset(caller) ==
  /\ IsAssetAdmin(caller)
  /\ \E token \in Tokens \ DOMAIN assetIds, limits \in AssetLimitInputs,
        recipient \in FeeRecipientInputs :
       /\ ValidLimits(limits)
       /\ recipient # BurnAddress
       /\ assets' = MapSet(assets, nextAssetId,
                           [token |-> token, status |-> ASSET_ACTIVE,
                            limits |-> limits, feeRecipient |-> recipient])
       /\ assetIds' = MapSet(assetIds, token, nextAssetId)
       /\ assetFees' = MapSet(assetFees, nextAssetId, [t \in AssetFeeTypes |-> ZeroFee])
       /\ nextAssetId' = nextAssetId + 1
  /\ UNCHANGED registryVars

\* Every later change is refused for an asset that is deprecated.
Changeable(id) == assets[id].status # ASSET_DEPRECATED

SetAssetEnabled(caller) ==
  /\ IsAssetAdmin(caller)
  /\ \E id \in DOMAIN assets, status \in {ASSET_ACTIVE, ASSET_DISABLED} :
       /\ Changeable(id)
       /\ status # assets[id].status
       /\ assets' = [assets EXCEPT ![id].status = status]
  /\ UNCHANGED <<assetIds, assetFees, nextAssetId, registryVars>>

DeprecateAsset(caller) ==
  /\ IsAssetAdmin(caller)
  /\ \E id \in DOMAIN assets :
       /\ Changeable(id)
       /\ assets' = [assets EXCEPT ![id].status = ASSET_DEPRECATED]
  /\ UNCHANGED <<assetIds, assetFees, nextAssetId, registryVars>>

SetAssetLimits(caller) ==
  /\ IsAssetAdmin(caller)
  /\ \E id \in DOMAIN assets, limits \in AssetLimitInputs :
       /\ Changeable(id)
       /\ ValidLimits(limits)
       /\ assets' = [assets EXCEPT ![id].limits = limits]
  /\ UNCHANGED <<assetIds, assetFees, nextAssetId, registryVars>>

-----------------------------------------------------------------------------
(* Fees, by the fee administrator.                                         *)

SetAssetFeeConfig(caller) ==
  /\ IsAssetFeeAdmin(caller)
  /\ \E id \in DOMAIN assets, input \in AssetFeeInputs :
       /\ Changeable(id)
       /\ input[2].bps <= protocolLimits.maxFeeBps
       /\ input[2].flat <= assets[id].limits.maxShield
       /\ assetFees' = [assetFees EXCEPT ![id][input[1]] = input[2]]
  /\ UNCHANGED <<assets, assetIds, nextAssetId, registryVars>>

SetAssetFeeRecipient(caller) ==
  /\ IsAssetFeeAdmin(caller)
  /\ \E id \in DOMAIN assets, recipient \in FeeRecipientInputs :
       /\ Changeable(id)
       /\ recipient # BurnAddress
       /\ assets' = [assets EXCEPT ![id].feeRecipient = recipient]
  /\ UNCHANGED <<assetIds, assetFees, nextAssetId, registryVars>>

AssetStep(caller) ==
  \/ RegisterAsset(caller)
  \/ SetAssetEnabled(caller)
  \/ DeprecateAsset(caller)
  \/ SetAssetLimits(caller)
  \/ SetAssetFeeConfig(caller)
  \/ SetAssetFeeRecipient(caller)
=============================================================================
