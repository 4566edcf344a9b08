----------------------------- MODULE TokenProofs -----------------------------
(***************************************************************************)
(* Both pools on the shared tree, for every set of tokens, notes, users,   *)
(* limits, fees and skims: value is conserved asset by asset, every fund   *)
(* is backed in its own token, and the halts of the SIP-10 pool stop it.   *)
(***************************************************************************)
EXTENDS Sip10Pool, PoolProofs

-----------------------------------------------------------------------------
(* The asset table.                                                         *)

AssetRecord == [token : Tokens, status : 1..3, limits : AssetLimitInputs,
                feeRecipient : Principals]

\* Ids are handed out without gaps, and assets and assetIds are inverse to each
\* other: no token is ever listed twice.
AssetTable ==
  /\ nextAssetId \in Nat \ {0} /\ nextAssetId - 1 = Cardinality(DOMAIN assetIds)
  /\ DOMAIN assetIds \subseteq Tokens
  /\ assets \in [1..(nextAssetId - 1) -> AssetRecord]
  /\ \A t \in DOMAIN assetIds : assetIds[t] \in DOMAIN assets /\ assets[assetIds[t]].token = t
  /\ \A id \in DOMAIN assets :
       assets[id].token \in DOMAIN assetIds /\ assetIds[assets[id].token] = id

\* There are never more ids than tokens.
LEMMA ListedIds ==
  ASSUME AssetTable
  PROVE  /\ DOMAIN assets = 1..(nextAssetId - 1) /\ DOMAIN assets \subseteq AssetIds
         /\ \A id \in DOMAIN assets : TokenOf(id) \in Tokens
         /\ \A i, j \in DOMAIN assets : TokenOf(i) = TokenOf(j) => i = j
<1>1. IsFiniteSet(Tokens) /\ DOMAIN assetIds \subseteq Tokens
  BY AssetsAssumption DEF AssetTable
<1>2. Cardinality(DOMAIN assetIds) <= Cardinality(Tokens) /\ Cardinality(Tokens) \in Nat
  BY <1>1, FS_Subset, FS_CardinalityType
<1>3. DOMAIN assets = 1..(nextAssetId - 1)
  BY DEF AssetTable
<1>4. DOMAIN assets \subseteq AssetIds
  BY <1>2, <1>3 DEF AssetTable, AssetIds
<1>5. \A id \in DOMAIN assets : TokenOf(id) \in Tokens
  BY <1>1 DEF AssetTable, TokenOf
<1>6. \A i, j \in DOMAIN assets : TokenOf(i) = TokenOf(j) => i = j
  BY DEF AssetTable, TokenOf
<1> QED
  BY <1>3, <1>4, <1>5, <1>6

\* A token that is not listed yet gets the next id, which is one of AssetIds.
LEMMA RoomForToken ==
  ASSUME AssetTable, NEW token \in Tokens \ DOMAIN assetIds
  PROVE  /\ nextAssetId \in AssetIds /\ nextAssetId \notin DOMAIN assets
         /\ Cardinality(DOMAIN assetIds \cup {token}) = nextAssetId
<1>1. IsFiniteSet(Tokens) /\ DOMAIN assetIds \subseteq Tokens
  BY AssetsAssumption DEF AssetTable
<1>2. IsFiniteSet(DOMAIN assetIds)
  BY <1>1, FS_Subset
<1>3. Cardinality(DOMAIN assetIds \cup {token}) = Cardinality(DOMAIN assetIds) + 1
  BY <1>2, FS_AddElement
<1>4. DOMAIN assetIds \cup {token} \subseteq Tokens
  BY <1>1
<1>5. Cardinality(DOMAIN assetIds \cup {token}) <= Cardinality(Tokens)
  BY <1>1, <1>4, FS_Subset
<1>6. Cardinality(Tokens) \in Nat
  BY <1>1, FS_CardinalityType
<1> QED
  BY <1>3, <1>5, <1>6 DEF AssetTable, AssetIds

\* Listed assets keep their tokens.
TableGrows ==
  /\ DOMAIN assets \subseteq DOMAIN assets' /\ DOMAIN assetIds \subseteq DOMAIN assetIds'
  /\ \A id \in DOMAIN assets : TokenOf(id)' = TokenOf(id)

\* What a listing adds: one asset whose token no listed asset has.
Lists(token) ==
  /\ token \in Tokens \ DOMAIN assetIds
  /\ DOMAIN assets' = DOMAIN assets \cup {nextAssetId} /\ assets'[nextAssetId].token = token
  /\ nextAssetId \in AssetIds \ DOMAIN assets
  /\ DOMAIN assetIds' = DOMAIN assetIds \cup {token}

LEMMA RegisterTable ==
  ASSUME AssetTable, NEW p, RegisterAsset(p)
  PROVE  /\ AssetTable' /\ TableGrows /\ \E token \in Tokens : Lists(token)
         /\ assetFees' = MapSet(assetFees, nextAssetId, [t \in AssetFeeTypes |-> ZeroFee])
<1>1. PICK token \in Tokens \ DOMAIN assetIds, limits \in AssetLimitInputs,
           recipient \in FeeRecipientInputs :
        /\ assets' = MapSet(assets, nextAssetId,
                            [token |-> token, status |-> ASSET_ACTIVE,
                             limits |-> limits, feeRecipient |-> recipient])
        /\ assetIds' = MapSet(assetIds, token, nextAssetId)
        /\ assetFees' = MapSet(assetFees, nextAssetId, [t \in AssetFeeTypes |-> ZeroFee])
        /\ nextAssetId' = nextAssetId + 1
  BY DEF RegisterAsset
<1> DEFINE new == [token |-> token, status |-> ASSET_ACTIVE, limits |-> limits,
                   feeRecipient |-> recipient]
<1>2. new \in AssetRecord /\ new.token = token
  BY AssetsAssumption DEF AssetRecord, ASSET_ACTIVE
<1>3. /\ nextAssetId \in AssetIds /\ nextAssetId \notin DOMAIN assets
      /\ Cardinality(DOMAIN assetIds \cup {token}) = nextAssetId
  BY RoomForToken
<1>4. assets' = MapSet(assets, nextAssetId, new)
  BY <1>1
<1> HIDE DEF new
<1>5. /\ DOMAIN assets' = DOMAIN assets \cup {nextAssetId} /\ assets'[nextAssetId] = new
      /\ \A id \in DOMAIN assets : assets'[id] = assets[id]
  BY <1>3, <1>4 DEF MapSet
<1>6. /\ DOMAIN assetIds' = DOMAIN assetIds \cup {token} /\ assetIds'[token] = nextAssetId
      /\ \A t \in DOMAIN assetIds : assetIds'[t] = assetIds[t]
  BY <1>1 DEF MapSet
<1>7. DOMAIN assets = 1..(nextAssetId - 1) /\ nextAssetId \in Nat \ {0}
  BY DEF AssetTable
<1>8. DOMAIN assets' = 1..(nextAssetId' - 1) /\ nextAssetId' \in Nat \ {0}
      /\ nextAssetId' - 1 = nextAssetId
  <2>1. nextAssetId' \in Nat \ {0} /\ nextAssetId' - 1 = nextAssetId
    BY <1>1, <1>7
  <2>2. 1..nextAssetId = (1..(nextAssetId - 1)) \cup {nextAssetId}
    BY <1>7
  <2> QED
    BY <1>5, <1>7, <2>1, <2>2
<1>9. /\ \A id \in DOMAIN assets' : assets'[id] \in AssetRecord
      /\ assets' = [id \in DOMAIN assets' |-> assets'[id]]
  <2>1. assets' = [id \in DOMAIN assets' |-> assets'[id]]
    BY <1>4 DEF MapSet
  <2>2. \A id \in DOMAIN assets : assets[id] \in AssetRecord
    BY DEF AssetTable
  <2> QED
    BY <1>2, <1>5, <2>1, <2>2
<1>10. assets' \in [1..(nextAssetId' - 1) -> AssetRecord]
  BY <1>8, <1>9
<1>11. /\ \A t \in DOMAIN assetIds : assetIds[t] \in DOMAIN assets /\ assets[assetIds[t]].token = t
       /\ \A id \in DOMAIN assets :
            assets[id].token \in DOMAIN assetIds /\ assetIds[assets[id].token] = id
       /\ DOMAIN assetIds \subseteq Tokens
  BY DEF AssetTable
<1>12. \A t \in DOMAIN assetIds' : assetIds'[t] \in DOMAIN assets' /\ assets'[assetIds'[t]].token = t
  BY <1>2, <1>5, <1>6, <1>11
<1>13. \A id \in DOMAIN assets' :
         assets'[id].token \in DOMAIN assetIds' /\ assetIds'[assets'[id].token] = id
  BY <1>2, <1>5, <1>6, <1>11
<1>14. AssetTable'
  BY <1>3, <1>6, <1>8, <1>10, <1>11, <1>12, <1>13 DEF AssetTable
<1>15. TableGrows
  BY <1>5, <1>6 DEF TableGrows, TokenOf
<1>16. Lists(token)
  BY <1>2, <1>3, <1>5, <1>6 DEF Lists, TokenOf
<1> QED
  BY <1>1, <1>14, <1>15, <1>16

\* A change to one listed asset's record that leaves its token alone.
LEMMA ChangeTable ==
  ASSUME AssetTable, NEW id \in DOMAIN assets, NEW record \in AssetRecord,
         record.token = assets[id].token, assets' = [assets EXCEPT ![id] = record],
         UNCHANGED <<assetIds, nextAssetId>>
  PROVE  AssetTable' /\ TableGrows /\ DOMAIN assets' = DOMAIN assets
<1>1. DOMAIN assets' = DOMAIN assets /\ assets' \in [1..(nextAssetId - 1) -> AssetRecord]
  BY DEF AssetTable
<1>2. \A i \in DOMAIN assets : assets'[i].token = assets[i].token
  BY DEF AssetTable
<1> QED
  BY <1>1, <1>2 DEF AssetTable, TableGrows, TokenOf

LEMMA AssetStepTable ==
  ASSUME AssetTable, NEW p, AssetStep(p), ~RegisterAsset(p)
  PROVE  AssetTable' /\ TableGrows /\ DOMAIN assets' = DOMAIN assets
<1>1. \A i \in DOMAIN assets : assets[i] \in AssetRecord
  BY DEF AssetTable
<1>2. CASE SetAssetEnabled(p)
  <2>1. PICK id \in DOMAIN assets, status \in {ASSET_ACTIVE, ASSET_DISABLED} :
          assets' = [assets EXCEPT ![id].status = status]
    BY <1>2 DEF SetAssetEnabled
  <2> DEFINE record == [assets[id] EXCEPT !.status = status]
  <2>2. record \in AssetRecord /\ record.token = assets[id].token
    BY <1>1 DEF AssetRecord, ASSET_ACTIVE, ASSET_DISABLED
  <2>3. assets' = [assets EXCEPT ![id] = record]
    BY <2>1
  <2> HIDE DEF record
  <2> QED
    BY <1>2, <2>2, <2>3, ChangeTable DEF SetAssetEnabled
<1>3. CASE DeprecateAsset(p)
  <2>1. PICK id \in DOMAIN assets : assets' = [assets EXCEPT ![id].status = ASSET_DEPRECATED]
    BY <1>3 DEF DeprecateAsset
  <2> DEFINE record == [assets[id] EXCEPT !.status = ASSET_DEPRECATED]
  <2>2. record \in AssetRecord /\ record.token = assets[id].token
    BY <1>1 DEF AssetRecord, ASSET_DEPRECATED
  <2>3. assets' = [assets EXCEPT ![id] = record]
    BY <2>1
  <2> HIDE DEF record
  <2> QED
    BY <1>3, <2>2, <2>3, ChangeTable DEF DeprecateAsset
<1>4. CASE SetAssetLimits(p)
  <2>1. PICK id \in DOMAIN assets, limits \in AssetLimitInputs :
          assets' = [assets EXCEPT ![id].limits = limits]
    BY <1>4 DEF SetAssetLimits
  <2> DEFINE record == [assets[id] EXCEPT !.limits = limits]
  <2>2. record \in AssetRecord /\ record.token = assets[id].token
    BY <1>1 DEF AssetRecord
  <2>3. assets' = [assets EXCEPT ![id] = record]
    BY <2>1
  <2> HIDE DEF record
  <2> QED
    BY <1>4, <2>2, <2>3, ChangeTable DEF SetAssetLimits
<1>5. CASE SetAssetFeeConfig(p)
  BY <1>5 DEF SetAssetFeeConfig, AssetTable, TableGrows, TokenOf
<1>6. CASE SetAssetFeeRecipient(p)
  <2>1. PICK id \in DOMAIN assets, recipient \in FeeRecipientInputs :
          assets' = [assets EXCEPT ![id].feeRecipient = recipient]
    BY <1>6 DEF SetAssetFeeRecipient
  <2> DEFINE record == [assets[id] EXCEPT !.feeRecipient = recipient]
  <2>2. record \in AssetRecord /\ record.token = assets[id].token
    BY <1>1, AssetsAssumption DEF AssetRecord
  <2>3. assets' = [assets EXCEPT ![id] = record]
    BY <2>1
  <2> HIDE DEF record
  <2> QED
    BY <1>6, <2>2, <2>3, ChangeTable DEF SetAssetFeeRecipient
<1> QED
  BY <1>2, <1>3, <1>4, <1>5, <1>6 DEF AssetStep

LEMMA SameTable ==
  ASSUME AssetTable, UNCHANGED <<assets, assetIds, nextAssetId>>
  PROVE  AssetTable' /\ TableGrows /\ DOMAIN assets' = DOMAIN assets
BY DEF AssetTable, TableGrows, TokenOf

-----------------------------------------------------------------------------
(* Notes and their value, asset by asset.                                   *)

\* What each asset's total says, and that only listed tokens have notes.
TokenTotals ==
  /\ shieldedTotal \in [AssetIds -> Nat]
  /\ \A c \in DOMAIN commitments : AssetOf[c] = Stx \/ AssetOf[c] \in DOMAIN assetIds
  /\ \A id \in DOMAIN assets : shieldedTotal[id] = AmountOf(UnspentOf(TokenOf(id)))
  /\ \A id \in AssetIds \ DOMAIN assets : shieldedTotal[id] = 0

TokenLedgerInv == LedgerInv /\ AssetTable /\ TokenTotals

\* An operation consumes ins and creates outs, notes of one asset.
AssetMoves(asset, ins, outs) ==
  /\ ins \subseteq UnspentOf(asset) /\ IsFiniteSet(ins)
  /\ outs \subseteq Commitment \ {ZeroHash} /\ IsFiniteSet(outs)
  /\ outs \cap DOMAIN commitments = {}
  /\ \A c \in outs : AssetOf[c] = asset
  /\ DOMAIN commitments' = DOMAIN commitments \cup outs
  /\ totalCommitments' = totalCommitments + Cardinality(outs)
  /\ nullifiers' = nullifiers \cup {NullifierOf[c] : c \in ins}
  /\ totalNullifiers' = totalNullifiers + Cardinality(ins)

LEMMA NativeMoves ==
  ASSUME NEW ins, NEW outs, Moves(ins, outs)
  PROVE  AssetMoves(Stx, ins, outs)
BY DEF Moves, AssetMoves

\* A move leaves the notes of every other asset as they were.
LEMMA MovedAssets ==
  ASSUME LedgerInv, NEW asset, NEW ins, NEW outs, AssetMoves(asset, ins, outs)
  PROVE  /\ SpentNotes' = SpentNotes \cup ins
         /\ UnspentNotes' = (UnspentNotes \ ins) \cup outs
         /\ UnspentOf(asset)' = (UnspentOf(asset) \ ins) \cup outs
         /\ \A other : other # asset => UnspentOf(other)' = UnspentOf(other)
         /\ ins \subseteq UnspentNotes /\ outs \cap (UnspentNotes \cup SpentNotes) = {}
<1>1. /\ DOMAIN commitments \subseteq Commitment \ {ZeroHash}
      /\ nullifiers = {NullifierOf[c] : c \in SpentNotes}
  BY DEF LedgerInv, Books, TreeTyped, TotalsFollowNotes, SpendsAreOfRealNotes
<1>2. /\ ins \subseteq DOMAIN commitments /\ ins \subseteq UnspentNotes
      /\ SpentNotes \subseteq DOMAIN commitments
      /\ \A c \in ins : AssetOf[c] = asset
  BY DEF AssetMoves, UnspentOf, UnspentNotes, SpentNotes
<1>3. \A c, d \in Commitment \ {ZeroHash} : NullifierOf[c] = NullifierOf[d] => c = d
  BY NotesAssumption
<1>4. \A c \in DOMAIN commitments' : NullifierOf[c] \in nullifiers' <=> c \in SpentNotes \cup ins
  <2> SUFFICES ASSUME NEW c \in DOMAIN commitments'
               PROVE  NullifierOf[c] \in nullifiers' <=> c \in SpentNotes \cup ins
    OBVIOUS
  <2>1. nullifiers' = {NullifierOf[d] : d \in SpentNotes \cup ins}
    BY <1>1 DEF AssetMoves
  <2>2. c \in Commitment \ {ZeroHash}
    BY <1>1 DEF AssetMoves
  <2> QED
    BY <1>1, <1>2, <1>3, <2>1, <2>2
<1>5. /\ DOMAIN commitments' = DOMAIN commitments \cup outs
      /\ outs \cap DOMAIN commitments = {}
      /\ \A c \in outs : AssetOf[c] = asset
  BY DEF AssetMoves
<1>6. SpentNotes' = SpentNotes \cup ins
  BY <1>2, <1>4, <1>5 DEF SpentNotes
<1>7. UnspentNotes' = (UnspentNotes \ ins) \cup outs
  BY <1>2, <1>5, <1>6 DEF UnspentNotes
<1>8. UnspentOf(asset)' = (UnspentOf(asset) \ ins) \cup outs
  BY <1>5, <1>7 DEF UnspentOf
<1>9. \A other : other # asset => UnspentOf(other)' = UnspentOf(other)
  BY <1>2, <1>5, <1>7 DEF UnspentOf
<1> QED
  BY <1>2, <1>5, <1>6, <1>7, <1>8, <1>9 DEF UnspentNotes

\* The unspent notes of an asset are finitely many naturals.
LEMMA UnspentSummable ==
  ASSUME LedgerInv, NEW asset
  PROVE  /\ IsFiniteSet(UnspentNotes) /\ IsFiniteSet(UnspentOf(asset))
         /\ UnspentOf(asset) \subseteq UnspentNotes
         /\ UnspentNotes \subseteq DOMAIN commitments
         /\ DOMAIN commitments \subseteq Commitment \ {ZeroHash}
         /\ \A c \in UnspentOf(asset) : NoteAmount[c] \in Nat
         /\ AmountOf(UnspentOf(asset)) \in Nat
<1>1. IsFiniteSet(DOMAIN commitments) /\ DOMAIN commitments \subseteq Commitment \ {ZeroHash}
  BY DEF LedgerInv, Books, TreeTyped
<1>2. UnspentOf(asset) \subseteq UnspentNotes /\ UnspentNotes \subseteq DOMAIN commitments
  BY DEF UnspentOf, UnspentNotes
<1>3. IsFiniteSet(UnspentNotes) /\ IsFiniteSet(UnspentOf(asset))
  BY <1>1, <1>2, FS_Subset
<1>4. \A c \in UnspentOf(asset) : NoteAmount[c] \in Nat
  BY <1>1, <1>2, NotesAssumption
<1>5. SumOf(NoteAmount, UnspentOf(asset)) \in Nat
  BY <1>3, <1>4, SumType
<1> QED
  BY <1>1, <1>2, <1>3, <1>4, <1>5, AmountIsSum

\* The registry's counts follow a move of any asset, and so does the value of
\* the asset's unspent notes.
LEMMA MovesKeepCounts ==
  ASSUME LedgerInv, NEW asset, NEW ins, NEW outs, AssetMoves(asset, ins, outs)
  PROVE  /\ SpendsAreOfRealNotes' /\ totalNullifiers' \in Nat
         /\ AmountOf(UnspentOf(asset)') = AmountOf(UnspentOf(asset))
              + SumOf(NoteAmount, outs) - SumOf(NoteAmount, ins)
         /\ AmountOf(UnspentOf(asset)') \in Nat
<1>1. /\ SpentNotes' = SpentNotes \cup ins
      /\ UnspentNotes' = (UnspentNotes \ ins) \cup outs
      /\ UnspentOf(asset)' = (UnspentOf(asset) \ ins) \cup outs
      /\ ins \subseteq UnspentNotes /\ outs \cap (UnspentNotes \cup SpentNotes) = {}
  BY MovedAssets
<1>2. /\ IsFiniteSet(UnspentNotes) /\ IsFiniteSet(UnspentOf(asset))
      /\ UnspentOf(asset) \subseteq UnspentNotes
      /\ \A c \in UnspentOf(asset) : NoteAmount[c] \in Nat
      /\ AmountOf(UnspentOf(asset)) \in Nat
  BY UnspentSummable
<1>3. /\ ins \subseteq UnspentOf(asset) /\ IsFiniteSet(outs) /\ outs \cap UnspentOf(asset) = {}
      /\ outs \cap UnspentNotes = {}
      /\ \A c \in UnspentOf(asset) \cup outs : NoteAmount[c] \in Nat
  BY <1>1, <1>2, NotesAssumption DEF AssetMoves
<1>4. /\ Cardinality(UnspentNotes')
           = Cardinality(UnspentNotes) - Cardinality(ins) + Cardinality(outs)
      /\ Cardinality(UnspentNotes) \in Nat
      /\ Cardinality(ins) \in Nat /\ Cardinality(outs) \in Nat
  <2>1. IsFiniteSet(UnspentNotes)
    BY <1>2
  <2>3. ins \subseteq UnspentNotes
    BY <1>1
  <2>4. IsFiniteSet(outs)
    BY <1>3
  <2>5. outs \cap UnspentNotes = {}
    BY <1>3
  <2>2. Cardinality((UnspentNotes \ ins) \cup outs)
          = Cardinality(UnspentNotes) - Cardinality(ins) + Cardinality(outs)
    BY <2>1, <2>3, <2>4, <2>5, Exchanged
  <2>6. Cardinality(UnspentNotes) \in Nat /\ Cardinality(outs) \in Nat /\ Cardinality(ins) \in Nat
    BY <2>1, <2>3, <2>4, FS_Subset, FS_CardinalityType
  <2> QED
    BY <1>1, <2>2, <2>6
<1>5. /\ totalNullifiers \in Nat /\ totalCommitments \in Nat
      /\ totalNullifiers + Cardinality(UnspentNotes) = totalCommitments
      /\ nullifiers = {NullifierOf[c] : c \in SpentNotes}
  BY DEF LedgerInv, Books, TreeTyped, TotalsFollowNotes, SpendsAreOfRealNotes
<1>6. totalNullifiers' + Cardinality(UnspentNotes') = totalCommitments' /\ totalNullifiers' \in Nat
  BY <1>4, <1>5 DEF AssetMoves
<1>7. nullifiers' = {NullifierOf[c] : c \in SpentNotes'}
  BY <1>1, <1>5 DEF AssetMoves
<1>8. SpendsAreOfRealNotes'
  BY <1>6, <1>7 DEF SpendsAreOfRealNotes
<1>9. SumOf(NoteAmount, ins) \in Nat /\ SumOf(NoteAmount, outs) \in Nat
  <2>1. IsFiniteSet(ins) /\ IsFiniteSet(outs)
    BY DEF AssetMoves
  <2>2. \A c \in ins : NoteAmount[c] \in Nat
    BY <1>3
  <2>3. \A c \in outs : NoteAmount[c] \in Nat
    BY <1>3
  <2> QED
    BY <2>1, <2>2, <2>3, SumType
<1>10. /\ SumOf(NoteAmount, (UnspentOf(asset) \ ins) \cup outs)
            = SumOf(NoteAmount, UnspentOf(asset)) - SumOf(NoteAmount, ins) + SumOf(NoteAmount, outs)
       /\ SumOf(NoteAmount, ins) <= SumOf(NoteAmount, UnspentOf(asset))
  <2>1. IsFiniteSet(UnspentOf(asset)) /\ ins \subseteq UnspentOf(asset)
    BY <1>2, <1>3
  <2>2. IsFiniteSet(outs) /\ outs \cap UnspentOf(asset) = {}
    BY <1>3
  <2>3. \A c \in UnspentOf(asset) \cup outs : NoteAmount[c] \in Nat
    BY <1>3
  <2>4. SumOf(NoteAmount, (UnspentOf(asset) \ ins) \cup outs)
          = SumOf(NoteAmount, UnspentOf(asset)) - SumOf(NoteAmount, ins) + SumOf(NoteAmount, outs)
    BY <2>1, <2>2, <2>3, SumExchanged
  <2>5. SumOf(NoteAmount, ins) <= SumOf(NoteAmount, UnspentOf(asset))
    BY <2>1, <2>2, <2>3, SumExchanged
  <2> QED
    BY <2>4, <2>5
<1>11. SumOf(NoteAmount, UnspentOf(asset)') = SumOf(NoteAmount, (UnspentOf(asset) \ ins) \cup outs)
  BY <1>1
<1>12. /\ AmountOf(UnspentOf(asset)') = SumOf(NoteAmount, UnspentOf(asset)')
       /\ AmountOf(UnspentOf(asset)) = SumOf(NoteAmount, UnspentOf(asset))
  BY AmountIsSum
<1>13. /\ AmountOf(UnspentOf(asset)') = AmountOf(UnspentOf(asset))
            + SumOf(NoteAmount, outs) - SumOf(NoteAmount, ins)
       /\ AmountOf(UnspentOf(asset)') \in Nat
  BY <1>2, <1>9, <1>10, <1>11, <1>12
<1> QED
  BY <1>6, <1>8, <1>13

-----------------------------------------------------------------------------
(* The SIP-10 operations on notes.                                          *)

\* A leaf of a registered root whose nullifier is not consumed is an unspent
\* note of the asset the statement names.
LEMMA AssetLeafUnspent ==
  ASSUME Books, NEW s, s.root \in DOMAIN merkleRoots,
         NEW c \in LeavesOf(s.root), NEW n, n \notin nullifiers, Spends(s, n, c)
  PROVE  c \in UnspentOf(s.asset) /\ n = NullifierOf[c] /\ c \in Commitment \ {ZeroHash}
<1>1. c \in DOMAIN commitments
  BY DEF Books, LedgersMatch, TreeMatchesLedger
<1> QED
  BY <1>1 DEF Books, TreeTyped, Spends, Opens, UnspentOf, UnspentNotes, SpentNotes

\* What the SIP-10 verifier accepts is proved.
LEMMA Sip10Relation ==
  ASSUME NEW s, VerifySip10(s)
  PROVE  /\ s.op = 1 => ShieldCircuit(s)
         /\ s.op = 2 => TransferCircuit(s)
         /\ s.op = 3 => WithdrawCircuit(s)
         /\ s.op = 4 => SplitCircuit(s)
         /\ s.op = 5 => MergeCircuit(s)
<1>1. Provable(s)
  BY DEF VerifySip10, V!VerifyProofCall
<1> QED
  BY <1>1 DEF Provable, PROOF_TYPE_SHIELD, PROOF_TYPE_TRANSFER, PROOF_TYPE_WITHDRAWAL,
              PROOF_TYPE_SPLIT, PROOF_TYPE_MERGE

\* An operation on asset id, and what it does to the asset's total.
SipMoves(id, ins, outs) ==
  /\ AssetMoves(TokenOf(id), ins, outs)
  /\ shieldedTotal' = [i \in AssetIds |-> shieldedTotal'[i]]
  /\ shieldedTotal'[id] = shieldedTotal[id] + SumOf(NoteAmount, outs) - SumOf(NoteAmount, ins)
  /\ \A i \in AssetIds \ {id} : shieldedTotal'[i] = shieldedTotal[i]

SomeSipMove == \E id \in DOMAIN assets : \E ins, outs : SipMoves(id, ins, outs)

\* An operation that turns notes into as much of the same asset.
LEMMA SameTotals ==
  ASSUME TokenLedgerInv, UNCHANGED shieldedTotal, NEW id \in DOMAIN assets,
         NEW ins, NEW outs, AssetMoves(TokenOf(id), ins, outs),
         SumOf(NoteAmount, ins) = SumOf(NoteAmount, outs), SumOf(NoteAmount, outs) \in Nat
  PROVE  SipMoves(id, ins, outs)
<1>1. shieldedTotal \in [AssetIds -> Nat] /\ id \in AssetIds
  BY ListedIds DEF TokenLedgerInv, TokenTotals
<1>2. shieldedTotal'[id] = shieldedTotal[id] + SumOf(NoteAmount, outs) - SumOf(NoteAmount, ins)
  BY <1>1
<1>3. shieldedTotal' = [i \in AssetIds |-> shieldedTotal'[i]]
  BY <1>1
<1> QED
  BY <1>2, <1>3 DEF SipMoves

LEMMA Sip10ShieldMoves ==
  ASSUME TokenLedgerInv, NEW user, Sip10Shield(user)
  PROVE  Books' /\ SomeSipMove
<1>1. PICK id \in DOMAIN assets, root \in DOMAIN merkleRoots, c \in Commitment :
        /\ CheckCurrentRoot(root)
        /\ RegisterOutput(Sip10Contract, c)
        /\ \E amount \in AmountInputs, slot \in Slots :
             LET s == Sip10TreeStatement(id, PROOF_TYPE_SHIELD, <<>>, <<c>>, amount, root, slot)
             IN  /\ PublishTree(Sip10Contract, s)
                 /\ VerifySip10(s)
                 /\ shieldedTotal' = [shieldedTotal EXCEPT ![id] = @ + amount]
  BY ZenonT(150) DEF Sip10Shield
<1>2. PICK amount \in AmountInputs, slot \in Slots :
        LET s == Sip10TreeStatement(id, PROOF_TYPE_SHIELD, <<>>, <<c>>, amount, root, slot)
        IN  /\ PublishTree(Sip10Contract, s)
            /\ VerifySip10(s)
            /\ shieldedTotal' = [shieldedTotal EXCEPT ![id] = @ + amount]
  BY <1>1
<1> DEFINE s == Sip10TreeStatement(id, PROOF_TYPE_SHIELD, <<>>, <<c>>, amount, root, slot)
<1>3. /\ s.op = 1 /\ s.outs = <<c>> /\ s.amount = amount /\ s.root = root
      /\ s.asset = TokenOf(id)
  BY DEF Sip10TreeStatement, TreeInputs, PROOF_TYPE_SHIELD
<1>4. /\ PublishTree(Sip10Contract, s) /\ VerifySip10(s)
      /\ shieldedTotal' = [shieldedTotal EXCEPT ![id] = @ + amount]
  BY <1>2
<1>5. nullifiers' = nullifiers /\ totalNullifiers' = totalNullifiers
  BY DEF Sip10Shield, nullifierVars
<1> HIDE DEF s
<1>6. IsInsertion(s) /\ NoteAmount[c] = amount
  BY <1>3, <1>4, Sip10Relation DEF ShieldCircuit
<1>7. Registers(1, <<c>>)
  BY <1>1, <1>3, <1>4, <1>6, OnePublished DEF TokenLedgerInv, LedgerInv
<1>8. AssetOf[c] = TokenOf(id) /\ c \in Commitment \ {ZeroHash}
  BY <1>3, <1>6 DEF IsInsertion, Opens
<1>9. /\ DOMAIN commitments' = DOMAIN commitments \cup {c} /\ c \notin DOMAIN commitments
      /\ totalCommitments' = totalCommitments + 1
  BY <1>7 DEF Registers
<1>10. totalNullifiers' = totalNullifiers + Cardinality({})
  BY <1>5, NoNotes DEF TokenLedgerInv, LedgerInv
<1>11. AssetMoves(TokenOf(id), {}, {c})
  BY <1>5, <1>8, <1>9, <1>10, OneNote, NoNotes DEF AssetMoves
<1>12. shieldedTotal \in [AssetIds -> Nat] /\ id \in AssetIds
  BY ListedIds DEF TokenLedgerInv, TokenTotals
<1>13. /\ shieldedTotal' = [i \in AssetIds |-> shieldedTotal'[i]]
       /\ shieldedTotal'[id] = shieldedTotal[id] + amount
       /\ \A i \in AssetIds \ {id} : shieldedTotal'[i] = shieldedTotal[i]
  BY <1>4, <1>12
<1>14. SumOf(NoteAmount, {c}) = amount /\ SumOf(NoteAmount, {}) = 0 /\ amount \in Nat
  BY <1>6, <1>8, OneNote, NoNotes
<1>15. shieldedTotal'[id] = shieldedTotal[id] + SumOf(NoteAmount, {c}) - SumOf(NoteAmount, {})
  BY <1>12, <1>13, <1>14
<1>16. SipMoves(id, {}, {c})
  BY <1>11, <1>13, <1>15 DEF SipMoves
<1> QED
  BY <1>7, <1>16, OneRegistered DEF SomeSipMove, TokenLedgerInv, LedgerInv

LEMMA Sip10TransferMoves ==
  ASSUME TokenLedgerInv, NEW user, Sip10Transfer(user)
  PROVE  Books' /\ SomeSipMove
<1>1. PICK id \in DOMAIN assets, root \in DOMAIN merkleRoots, n \in Nullifier :
        /\ CheckCurrentRoot(root)
        /\ RegisterNullifierCall(Sip10Contract, n)
        /\ \E c \in Commitment, slot \in Slots :
             LET s == Sip10TreeStatement(id, PROOF_TYPE_TRANSFER, <<n>>, <<c>>, 0, root, slot)
             IN  /\ RegisterOutput(Sip10Contract, c)
                 /\ PublishTree(Sip10Contract, s)
                 /\ VerifySip10(s)
  BY DEF Sip10Transfer
<1>2. PICK d \in Commitment, slot \in Slots :
        LET s == Sip10TreeStatement(id, PROOF_TYPE_TRANSFER, <<n>>, <<d>>, 0, root, slot)
        IN  /\ RegisterOutput(Sip10Contract, d)
            /\ PublishTree(Sip10Contract, s)
            /\ VerifySip10(s)
  BY <1>1
<1> DEFINE s == Sip10TreeStatement(id, PROOF_TYPE_TRANSFER, <<n>>, <<d>>, 0, root, slot)
<1>3. /\ s.op = 2 /\ s.ins = <<n>> /\ s.outs = <<d>> /\ s.root = root
      /\ s.asset = TokenOf(id)
  BY DEF Sip10TreeStatement, TreeInputs, PROOF_TYPE_TRANSFER
<1>4. /\ RegisterOutput(Sip10Contract, d)
      /\ PublishTree(Sip10Contract, s) /\ VerifySip10(s)
  BY <1>2
<1>5. /\ n \notin nullifiers /\ nullifiers' = nullifiers \cup {n}
      /\ totalNullifiers' = totalNullifiers + 1
  BY <1>1 DEF RegisterNullifierCall
<1>6. UNCHANGED shieldedTotal
  BY DEF Sip10Transfer
<1> HIDE DEF s
<1>7. TransferCircuit(s)
  BY <1>3, <1>4, Sip10Relation
<1>8. PICK c \in LeavesOf(s.root) : Spends(s, s.ins[1], c) /\ NoteAmount[c] = NoteAmount[s.outs[1]]
  BY <1>7 DEF TransferCircuit
<1>9. s.ins[1] = n /\ s.outs[1] = d
  BY <1>3
<1>10. c \in UnspentOf(TokenOf(id)) /\ n = NullifierOf[c] /\ c \in Commitment \ {ZeroHash}
  <2>1. Books /\ s.root \in DOMAIN merkleRoots /\ Spends(s, n, c)
    BY <1>3, <1>8, <1>9 DEF TokenLedgerInv, LedgerInv
  <2>2. c \in UnspentOf(s.asset) /\ n = NullifierOf[c] /\ c \in Commitment \ {ZeroHash}
    BY <1>5, <2>1, AssetLeafUnspent
  <2> QED
    BY <1>3, <2>2
<1>11. IsInsertion(s)
  BY <1>7 DEF TransferCircuit
<1>12. Registers(1, <<d>>)
  BY <1>1, <1>3, <1>4, <1>11, OnePublished DEF TokenLedgerInv, LedgerInv
<1>13. AssetOf[d] = TokenOf(id) /\ d \in Commitment \ {ZeroHash}
  BY <1>3, <1>11 DEF IsInsertion, Opens
<1>14. /\ DOMAIN commitments' = DOMAIN commitments \cup {d} /\ d \notin DOMAIN commitments
       /\ totalCommitments' = totalCommitments + 1
  BY <1>12 DEF Registers
<1>15. SumOf(NoteAmount, {c}) = SumOf(NoteAmount, {d}) /\ SumOf(NoteAmount, {d}) \in Nat
  BY <1>8, <1>9, <1>10, <1>13, OneNote
<1>16. /\ nullifiers' = nullifiers \cup {NullifierOf[x] : x \in {c}}
       /\ totalNullifiers' = totalNullifiers + Cardinality({c})
  BY <1>5, <1>10, OneNote
<1>17. AssetMoves(TokenOf(id), {c}, {d})
  BY <1>10, <1>13, <1>14, <1>16, OneNote DEF AssetMoves
<1>18. SipMoves(id, {c}, {d})
  BY <1>6, <1>15, <1>17, SameTotals
<1> QED
  BY <1>12, <1>18, OneRegistered DEF SomeSipMove, TokenLedgerInv, LedgerInv

LEMMA Sip10SplitMoves ==
  ASSUME TokenLedgerInv, NEW user, Sip10Split(user)
  PROVE  Books' /\ SomeSipMove
<1>1. PICK id \in DOMAIN assets, root \in DOMAIN merkleRoots, n \in Nullifier :
        /\ CheckCurrentRoot(root)
        /\ RegisterNullifierCall(Sip10Contract, n)
        /\ \E d, e \in Commitment, slot \in Slots :
             LET s == Sip10TreeStatement(id, PROOF_TYPE_SPLIT, <<n>>, <<d, e>>, 0, root, slot)
             IN  /\ RegisterCommitmentPairCall(Sip10Contract, d, e, protocolVersions.commitment)
                 /\ RegisterNotePairCall(Sip10Contract, d, e, protocolVersions.note)
                 /\ PublishTree(Sip10Contract, s)
                 /\ VerifySip10(s)
  BY DEF Sip10Split
<1>2. PICK d \in Commitment, e \in Commitment, slot \in Slots :
        LET s == Sip10TreeStatement(id, PROOF_TYPE_SPLIT, <<n>>, <<d, e>>, 0, root, slot)
        IN  /\ RegisterCommitmentPairCall(Sip10Contract, d, e, protocolVersions.commitment)
            /\ RegisterNotePairCall(Sip10Contract, d, e, protocolVersions.note)
            /\ PublishTree(Sip10Contract, s)
            /\ VerifySip10(s)
  BY <1>1
<1> DEFINE s == Sip10TreeStatement(id, PROOF_TYPE_SPLIT, <<n>>, <<d, e>>, 0, root, slot)
<1>3. /\ s.op = 4 /\ s.ins = <<n>> /\ s.outs = <<d, e>> /\ s.root = root
      /\ s.asset = TokenOf(id)
  BY DEF Sip10TreeStatement, TreeInputs, PROOF_TYPE_SPLIT
<1>4. /\ RegisterCommitmentPairCall(Sip10Contract, d, e, protocolVersions.commitment)
      /\ RegisterNotePairCall(Sip10Contract, d, e, protocolVersions.note)
      /\ PublishTree(Sip10Contract, s) /\ VerifySip10(s)
  BY <1>2
<1>5. /\ n \notin nullifiers /\ nullifiers' = nullifiers \cup {n}
      /\ totalNullifiers' = totalNullifiers + 1
  BY <1>1 DEF RegisterNullifierCall
<1>6. UNCHANGED shieldedTotal
  BY DEF Sip10Split
<1> HIDE DEF s
<1>7. SplitCircuit(s)
  BY <1>3, <1>4, Sip10Relation
<1>8. PICK c \in LeavesOf(s.root) :
        /\ Spends(s, s.ins[1], c)
        /\ NoteAmount[c] = NoteAmount[s.outs[1]] + NoteAmount[s.outs[2]]
  BY <1>7 DEF SplitCircuit
<1>9. s.ins[1] = n /\ s.outs[1] = d /\ s.outs[2] = e /\ 1 \in DOMAIN s.outs /\ 2 \in DOMAIN s.outs
  BY <1>3
<1>10. c \in UnspentOf(TokenOf(id)) /\ n = NullifierOf[c] /\ c \in Commitment \ {ZeroHash}
  <2>1. Books /\ s.root \in DOMAIN merkleRoots /\ Spends(s, n, c)
    BY <1>3, <1>8, <1>9 DEF TokenLedgerInv, LedgerInv
  <2>2. c \in UnspentOf(s.asset) /\ n = NullifierOf[c] /\ c \in Commitment \ {ZeroHash}
    BY <1>5, <2>1, AssetLeafUnspent
  <2> QED
    BY <1>3, <2>2
<1>11. IsInsertion(s)
  BY <1>7 DEF SplitCircuit
<1>12. Registers(2, <<d, e>>)
  BY <1>1, <1>3, <1>4, <1>11, TwoPublished DEF TokenLedgerInv, LedgerInv
<1>13. /\ AssetOf[d] = TokenOf(id) /\ d \in Commitment \ {ZeroHash}
       /\ AssetOf[e] = TokenOf(id) /\ e \in Commitment \ {ZeroHash} /\ d # e
  BY <1>3, <1>4, <1>9, <1>11 DEF IsInsertion, Opens, RegisterCommitmentPairCall
<1>14. /\ DOMAIN commitments' = DOMAIN commitments \cup {d, e}
       /\ d \notin DOMAIN commitments /\ e \notin DOMAIN commitments
       /\ totalCommitments' = totalCommitments + 2
  <2>1. /\ \A k \in 1..2 : <<d, e>>[k] \notin DOMAIN commitments
        /\ DOMAIN commitments' = DOMAIN commitments \cup {<<d, e>>[k] : k \in 1..2}
        /\ totalCommitments' = totalCommitments + 2
    BY <1>12 DEF Registers
  <2>2. {<<d, e>>[k] : k \in 1..2} = {d, e}
    OBVIOUS
  <2>3. <<d, e>>[1] \notin DOMAIN commitments /\ <<d, e>>[2] \notin DOMAIN commitments
    BY <2>1
  <2>4. <<d, e>>[1] = d /\ <<d, e>>[2] = e
    OBVIOUS
  <2> QED
    BY <2>1, <2>2, <2>3, <2>4
<1>15. /\ IsFiniteSet({d, e}) /\ Cardinality({d, e}) = 2
       /\ SumOf(NoteAmount, {d, e}) = NoteAmount[d] + NoteAmount[e]
       /\ NoteAmount[d] \in Nat /\ NoteAmount[e] \in Nat
  BY <1>13, TwoNotes
<1>16. SumOf(NoteAmount, {c}) = SumOf(NoteAmount, {d, e}) /\ SumOf(NoteAmount, {d, e}) \in Nat
  BY <1>8, <1>9, <1>10, <1>15, OneNote
<1>17. /\ nullifiers' = nullifiers \cup {NullifierOf[x] : x \in {c}}
       /\ totalNullifiers' = totalNullifiers + Cardinality({c})
  BY <1>5, <1>10, OneNote
<1>18. AssetMoves(TokenOf(id), {c}, {d, e})
  BY <1>10, <1>13, <1>14, <1>15, <1>17, OneNote DEF AssetMoves
<1>19. SipMoves(id, {c}, {d, e})
  BY <1>6, <1>16, <1>18, SameTotals
<1> QED
  BY <1>12, <1>19, TwoRegistered DEF SomeSipMove, TokenLedgerInv, LedgerInv

LEMMA Sip10MergeMoves ==
  ASSUME TokenLedgerInv, NEW user, Sip10Merge(user)
  PROVE  Books' /\ SomeSipMove
<1>1. PICK id \in DOMAIN assets, root \in DOMAIN merkleRoots, m \in Nullifier, n \in Nullifier :
        /\ CheckCurrentRoot(root)
        /\ RegisterNullifierPairCall(Sip10Contract, m, n)
        /\ \E d \in Commitment, slot \in Slots :
             LET s == Sip10TreeStatement(id, PROOF_TYPE_MERGE, <<m, n>>, <<d>>, 0, root, slot)
             IN  /\ RegisterOutput(Sip10Contract, d)
                 /\ PublishTree(Sip10Contract, s)
                 /\ VerifySip10(s)
  BY DEF Sip10Merge
<1>2. PICK d \in Commitment, slot \in Slots :
        LET s == Sip10TreeStatement(id, PROOF_TYPE_MERGE, <<m, n>>, <<d>>, 0, root, slot)
        IN  /\ RegisterOutput(Sip10Contract, d)
            /\ PublishTree(Sip10Contract, s)
            /\ VerifySip10(s)
  BY <1>1
<1> DEFINE s == Sip10TreeStatement(id, PROOF_TYPE_MERGE, <<m, n>>, <<d>>, 0, root, slot)
<1>3. /\ s.op = 5 /\ s.ins = <<m, n>> /\ s.outs = <<d>> /\ s.root = root
      /\ s.asset = TokenOf(id)
  BY DEF Sip10TreeStatement, TreeInputs, PROOF_TYPE_MERGE
<1>4. /\ RegisterOutput(Sip10Contract, d)
      /\ PublishTree(Sip10Contract, s) /\ VerifySip10(s)
  BY <1>2
<1>5. /\ m \notin nullifiers /\ n \notin nullifiers /\ nullifiers' = nullifiers \cup {m, n}
      /\ totalNullifiers' = totalNullifiers + 2
  BY <1>1 DEF RegisterNullifierPairCall
<1>6. UNCHANGED shieldedTotal
  BY DEF Sip10Merge
<1> HIDE DEF s
<1>7. MergeCircuit(s)
  BY <1>3, <1>4, Sip10Relation
<1>8. PICK b \in LeavesOf(s.root), c \in LeavesOf(s.root) :
        /\ b # c /\ Spends(s, s.ins[1], b) /\ Spends(s, s.ins[2], c)
        /\ NoteAmount[b] + NoteAmount[c] = NoteAmount[s.outs[1]]
  BY <1>7 DEF MergeCircuit
<1>9. s.ins[1] = m /\ s.ins[2] = n /\ s.outs[1] = d
  BY <1>3
<1>10. /\ b \in UnspentOf(TokenOf(id)) /\ m = NullifierOf[b] /\ b \in Commitment \ {ZeroHash}
       /\ c \in UnspentOf(TokenOf(id)) /\ n = NullifierOf[c] /\ c \in Commitment \ {ZeroHash}
  <2>1. Books /\ s.root \in DOMAIN merkleRoots /\ Spends(s, m, b) /\ Spends(s, n, c)
    BY <1>3, <1>8, <1>9 DEF TokenLedgerInv, LedgerInv
  <2>2. b \in UnspentOf(s.asset) /\ m = NullifierOf[b] /\ b \in Commitment \ {ZeroHash}
    BY <1>5, <2>1, AssetLeafUnspent
  <2>3. c \in UnspentOf(s.asset) /\ n = NullifierOf[c] /\ c \in Commitment \ {ZeroHash}
    BY <1>5, <2>1, AssetLeafUnspent
  <2> QED
    BY <1>3, <2>2, <2>3
<1>11. IsInsertion(s)
  BY <1>7 DEF MergeCircuit
<1>12. Registers(1, <<d>>)
  BY <1>1, <1>3, <1>4, <1>11, OnePublished DEF TokenLedgerInv, LedgerInv
<1>13. AssetOf[d] = TokenOf(id) /\ d \in Commitment \ {ZeroHash}
  BY <1>3, <1>11 DEF IsInsertion, Opens
<1>14. /\ DOMAIN commitments' = DOMAIN commitments \cup {d} /\ d \notin DOMAIN commitments
       /\ totalCommitments' = totalCommitments + 1
  BY <1>12 DEF Registers
<1>15. NoteAmount[b] + NoteAmount[c] = NoteAmount[d] /\ b # c
  BY <1>8, <1>9
<1>16. /\ IsFiniteSet({b, c}) /\ Cardinality({b, c}) = 2
       /\ SumOf(NoteAmount, {b, c}) = NoteAmount[b] + NoteAmount[c]
  BY <1>10, <1>15, TwoNotes
<1>17. SumOf(NoteAmount, {b, c}) = SumOf(NoteAmount, {d}) /\ SumOf(NoteAmount, {d}) \in Nat
  BY <1>13, <1>15, <1>16, OneNote
<1>18. /\ nullifiers' = nullifiers \cup {NullifierOf[x] : x \in {b, c}}
       /\ totalNullifiers' = totalNullifiers + Cardinality({b, c})
  BY <1>5, <1>10, <1>16
<1>19. AssetMoves(TokenOf(id), {b, c}, {d})
  BY <1>10, <1>13, <1>14, <1>16, <1>18, OneNote DEF AssetMoves
<1>20. SipMoves(id, {b, c}, {d})
  BY <1>6, <1>17, <1>19, SameTotals
<1> QED
  BY <1>12, <1>20, OneRegistered DEF SomeSipMove, TokenLedgerInv, LedgerInv

LEMMA Sip10WithdrawMoves ==
  ASSUME TokenLedgerInv, Sip10Withdraw
  PROVE  Books' /\ SomeSipMove
<1>1. PICK id \in DOMAIN assets, root \in DOMAIN merkleRoots, n \in Nullifier,
           amount \in AmountInputs, recipient \in RecipientInputs :
        Sip10WithdrawNote(id, n, amount, recipient, root)
  BY DEF Sip10Withdraw
<1> DEFINE s == Sip10WithdrawStatement(id, n, amount, recipient, root)
<1>2. /\ RegisterNullifierCall(Sip10Contract, n)
      /\ VerifySip10(s)
      /\ shieldedTotal' = [shieldedTotal EXCEPT ![id] = @ - amount]
      /\ UNCHANGED <<commitmentVars, rootVars, totalNotes, noteVars>>
  BY <1>1 DEF Sip10WithdrawNote
<1>3. s.op = 3 /\ s.ins = <<n>> /\ s.root = root /\ s.asset = TokenOf(id) /\ s.amount = amount
  BY DEF Sip10WithdrawStatement, WithdrawInputs, PROOF_TYPE_WITHDRAWAL
<1>4. /\ n \notin nullifiers /\ nullifiers' = nullifiers \cup {n}
      /\ totalNullifiers' = totalNullifiers + 1
  BY <1>2 DEF RegisterNullifierCall
<1>5. UNCHANGED bookVars
  BY <1>2 DEF bookVars, rootVars, noteVars
<1> HIDE DEF s
<1>6. PICK c \in LeavesOf(s.root) : Spends(s, s.ins[1], c) /\ NoteAmount[c] = s.amount
  BY <1>2, <1>3, Sip10Relation DEF WithdrawCircuit
<1>7. s.ins[1] = n
  BY <1>3
<1>8. c \in UnspentOf(TokenOf(id)) /\ n = NullifierOf[c] /\ c \in Commitment \ {ZeroHash}
  <2>1. Books /\ s.root \in DOMAIN merkleRoots /\ Spends(s, n, c)
    BY <1>3, <1>6, <1>7 DEF TokenLedgerInv, LedgerInv
  <2>2. c \in UnspentOf(s.asset) /\ n = NullifierOf[c] /\ c \in Commitment \ {ZeroHash}
    BY <1>4, <2>1, AssetLeafUnspent
  <2> QED
    BY <1>3, <2>2
<1>9. /\ nullifiers' = nullifiers \cup {NullifierOf[x] : x \in {c}}
      /\ totalNullifiers' = totalNullifiers + Cardinality({c})
  BY <1>4, <1>8, OneNote
<1>10. /\ DOMAIN commitments' = DOMAIN commitments
       /\ totalCommitments' = totalCommitments + Cardinality({})
  BY <1>5, NoNotes DEF bookVars, commitmentVars, TokenLedgerInv, LedgerInv, Books, TreeTyped
<1>11. AssetMoves(TokenOf(id), {c}, {})
  BY <1>8, <1>9, <1>10, OneNote, NoNotes DEF AssetMoves
<1>12. shieldedTotal \in [AssetIds -> Nat] /\ id \in AssetIds
  BY ListedIds DEF TokenLedgerInv, TokenTotals
<1>13. /\ shieldedTotal' = [i \in AssetIds |-> shieldedTotal'[i]]
       /\ shieldedTotal'[id] = shieldedTotal[id] - amount
       /\ \A i \in AssetIds \ {id} : shieldedTotal'[i] = shieldedTotal[i]
  BY <1>2, <1>12
<1>14. SumOf(NoteAmount, {c}) = amount /\ SumOf(NoteAmount, {}) = 0 /\ amount \in Nat
  BY <1>3, <1>6, <1>8, OneNote, NoNotes
<1>15. shieldedTotal'[id] = shieldedTotal[id] + SumOf(NoteAmount, {}) - SumOf(NoteAmount, {c})
  BY <1>12, <1>13, <1>14
<1>16. SipMoves(id, {c}, {})
  BY <1>11, <1>13, <1>15 DEF SipMoves
<1> QED
  BY <1>5, <1>16, BooksKept DEF SomeSipMove, TokenLedgerInv, LedgerInv

-----------------------------------------------------------------------------
(* The ledgers of both pools, step by step.                                 *)

\* An asset's total stays that of its notes when neither changes, and so it
\* does for the asset a listing adds, which has no notes yet.
LEMMA TotalsKept ==
  ASSUME TokenLedgerInv, LedgerInv', AssetTable', TableGrows, UNCHANGED shieldedTotal,
         \A t \in Tokens : UnspentOf(t)' = UnspentOf(t),
         \A c \in DOMAIN commitments' \ DOMAIN commitments : AssetOf[c] = Stx,
         DOMAIN assets' = DOMAIN assets \/ \E token \in Tokens : Lists(token)
  PROVE  TokenLedgerInv'
<1>1. /\ AssetTable /\ shieldedTotal \in [AssetIds -> Nat]
      /\ \A c \in DOMAIN commitments : AssetOf[c] = Stx \/ AssetOf[c] \in DOMAIN assetIds
      /\ \A id \in DOMAIN assets : shieldedTotal[id] = AmountOf(UnspentOf(TokenOf(id)))
      /\ \A id \in AssetIds \ DOMAIN assets : shieldedTotal[id] = 0
  BY DEF TokenLedgerInv, TokenTotals
<1>2. \A id \in DOMAIN assets : TokenOf(id) \in Tokens /\ TokenOf(id)' = TokenOf(id)
  BY <1>1, ListedIds DEF TableGrows
<1>3. \A c \in DOMAIN commitments' : AssetOf[c] = Stx \/ AssetOf[c] \in DOMAIN assetIds'
  BY <1>1 DEF TableGrows
<1>4. ASSUME NEW id \in DOMAIN assets
      PROVE  shieldedTotal'[id] = AmountOf(UnspentOf(TokenOf(id)))'
  <2>1. PICK a : a = TokenOf(id)
    OBVIOUS
  <2>2. a \in Tokens /\ TokenOf(id)' = a
    BY <1>2, <2>1
  <2>3. UnspentOf(TokenOf(id))' = UnspentOf(a)' /\ UnspentOf(a)' = UnspentOf(a)
    BY <2>2 DEF UnspentOf
  <2>4. UnspentOf(TokenOf(id))' = UnspentOf(TokenOf(id))
    BY <2>1, <2>3
  <2> QED
    BY <1>1, <2>4
<1>5. ASSUME NEW token \in Tokens, Lists(token)
      PROVE  /\ shieldedTotal'[nextAssetId] = AmountOf({c \in UnspentNotes' : AssetOf[c] = token})
             /\ assets'[nextAssetId].token = token
  <2>1. token \notin DOMAIN assetIds /\ token # Stx /\ nextAssetId \in AssetIds \ DOMAIN assets
    BY <1>5, Sip10Assumption DEF Lists
  <2>2. UnspentOf(token) = {}
    BY <1>1, <2>1 DEF UnspentOf, UnspentNotes
  <2>3. {c \in UnspentNotes' : AssetOf[c] = token} = {}
    BY <2>2 DEF UnspentOf
  <2>4. AmountOf({c \in UnspentNotes' : AssetOf[c] = token}) = 0
    BY <2>3, AmountIsSum, NoNotes
  <2> QED
    BY <1>1, <1>5, <2>1, <2>4 DEF Lists
<1>6. \A id \in DOMAIN assets' : shieldedTotal'[id] = AmountOf(UnspentOf(TokenOf(id)))'
  <2>1. CASE DOMAIN assets' = DOMAIN assets
    BY <1>4, <2>1
  <2>2. ASSUME NEW token \in Tokens, Lists(token), NEW id \in DOMAIN assets'
        PROVE  shieldedTotal'[id] = AmountOf(UnspentOf(TokenOf(id)))'
    <3>1. id \in DOMAIN assets \/ id = nextAssetId
      BY <2>2 DEF Lists
    <3>2. CASE id = nextAssetId
      <4>1. TokenOf(id)' = token
        BY <1>5, <2>2, <3>2 DEF TokenOf
      <4>2. UnspentOf(TokenOf(id))' = {c \in UnspentNotes' : AssetOf[c] = token}
        BY <4>1 DEF UnspentOf
      <4> QED
        BY <1>5, <2>2, <3>2, <4>2
    <3> QED
      BY <1>4, <3>1, <3>2
  <2> QED
    BY <2>1, <2>2
<1>7. \A id \in AssetIds \ DOMAIN assets' : shieldedTotal'[id] = 0
  BY <1>1 DEF TableGrows
<1>8. TokenTotals'
  BY <1>1, <1>3, <1>6, <1>7 DEF TokenTotals
<1> QED
  BY <1>8 DEF TokenLedgerInv

\* A SIP-10 operation keeps both pools' ledgers.
LEMMA SipKeepsLedger ==
  ASSUME TokenLedgerInv, Books', SomeSipMove, UNCHANGED <<totalShieldedStx, assetVars>>
  PROVE  /\ TokenLedgerInv' /\ UNCHANGED UnspentOf(Stx)
<1>1. PICK id \in DOMAIN assets : \E ins, outs : SipMoves(id, ins, outs)
  BY DEF SomeSipMove
<1>2. PICK ins, outs : SipMoves(id, ins, outs)
  BY <1>1
<1>3. PICK a : a = TokenOf(id)
  OBVIOUS
<1>4. /\ LedgerInv /\ AssetTable /\ shieldedTotal \in [AssetIds -> Nat]
      /\ \A c \in DOMAIN commitments : AssetOf[c] = Stx \/ AssetOf[c] \in DOMAIN assetIds
      /\ \A i \in DOMAIN assets : shieldedTotal[i] = AmountOf(UnspentOf(TokenOf(i)))
      /\ \A i \in AssetIds \ DOMAIN assets : shieldedTotal[i] = 0
  BY DEF TokenLedgerInv, TokenTotals
<1>5. /\ a \in Tokens /\ a # Stx /\ id \in AssetIds /\ a \in DOMAIN assetIds
      /\ \A i \in DOMAIN assets \ {id} : TokenOf(i) # a
      /\ \A i \in DOMAIN assets : TokenOf(i) \in Tokens /\ i \in AssetIds
  BY <1>3, <1>4, ListedIds, Sip10Assumption DEF AssetTable, TokenOf
<1>6. AssetMoves(a, ins, outs)
  BY <1>2, <1>3 DEF SipMoves
<1>7. \A other : other # a => UnspentOf(other)' = UnspentOf(other)
  BY <1>4, <1>6, MovedAssets
<1>8. SpendsAreOfRealNotes' /\ totalNullifiers' \in Nat
  BY <1>4, <1>6, MovesKeepCounts
<1>9. AmountOf(UnspentOf(a)') = AmountOf(UnspentOf(a)) + SumOf(NoteAmount, outs) - SumOf(NoteAmount, ins)
  BY <1>4, <1>6, MovesKeepCounts
<1>10. AmountOf(UnspentOf(a)') \in Nat
  BY <1>4, <1>6, MovesKeepCounts
<1>11. UnspentOf(Stx)' = UnspentOf(Stx)
  BY <1>5, <1>7
<1>12. ValueConserved'
  BY <1>4, <1>11 DEF LedgerInv, TotalsFollowNotes, ValueConserved
<1>13. LedgerInv'
  BY <1>8, <1>12 DEF LedgerInv, TotalsFollowNotes
<1>14. UNCHANGED <<assets, assetIds, nextAssetId>>
  BY DEF assetVars
<1>15. AssetTable'
  BY <1>4, <1>14, SameTable
<1>16. /\ shieldedTotal' = [i \in AssetIds |-> shieldedTotal'[i]]
       /\ shieldedTotal'[id] = shieldedTotal[id] + SumOf(NoteAmount, outs) - SumOf(NoteAmount, ins)
       /\ \A i \in AssetIds \ {id} : shieldedTotal'[i] = shieldedTotal[i]
  BY <1>2 DEF SipMoves
<1>17. shieldedTotal'[id] = AmountOf(UnspentOf(a)')
  BY <1>3, <1>4, <1>9, <1>16
<1>18. shieldedTotal' \in [AssetIds -> Nat]
  <2>1. \A i \in AssetIds : shieldedTotal'[i] \in Nat
    BY <1>4, <1>10, <1>16, <1>17
  <2> QED
    BY <1>16, <2>1
<1>19. \A c \in DOMAIN commitments' : AssetOf[c] = Stx \/ AssetOf[c] \in DOMAIN assetIds'
  BY <1>4, <1>5, <1>6, <1>14 DEF AssetMoves
<1>20. \A i \in DOMAIN assets' : shieldedTotal'[i] = AmountOf(UnspentOf(TokenOf(i)))'
  <2> SUFFICES ASSUME NEW i \in DOMAIN assets
               PROVE  shieldedTotal'[i] = AmountOf(UnspentOf(TokenOf(i)))'
    BY <1>14
  <2>1. PICK b : b = TokenOf(i)
    OBVIOUS
  <2>2. UnspentOf(TokenOf(i))' = UnspentOf(b)'
    BY <1>14, <2>1 DEF UnspentOf, TokenOf
  <2>3. CASE i = id
    BY <1>3, <1>17, <2>1, <2>2, <2>3
  <2>4. CASE i # id
    <3>1. b # a /\ UnspentOf(b)' = UnspentOf(b)
      BY <1>5, <1>7, <2>1, <2>4
    <3>2. shieldedTotal'[i] = AmountOf(UnspentOf(b))
      BY <1>4, <1>5, <1>16, <2>1, <2>4
    <3> QED
      BY <2>2, <3>1, <3>2
  <2> QED
    BY <2>3, <2>4
<1>21. \A i \in AssetIds \ DOMAIN assets' : shieldedTotal'[i] = 0
  BY <1>4, <1>14, <1>16
<1>22. TokenTotals'
  BY <1>18, <1>19, <1>20, <1>21 DEF TokenTotals
<1> QED
  BY <1>11, <1>13, <1>15, <1>22 DEF TokenLedgerInv

\* What the SIP-10 operations leave alone.
LEMMA SipFrame ==
  ASSUME NEW user, Sip10UserStep(user)
  PROVE  /\ UNCHANGED <<flowVars, assetVars, feeVars, stx, verifierVars, switches,
                        assetFreezeVars, skimming, operationSwitches, namespaceVars>>
         /\ UNCHANGED nonLedgerVars
<1>1. CASE Sip10Shield(user)
  BY <1>1 DEF Sip10Shield, untouchedBySip10Users
<1>2. CASE Sip10Transfer(user)
  BY <1>2 DEF Sip10Transfer, untouchedBySip10Users
<1>3. CASE Sip10Split(user)
  BY <1>3 DEF Sip10Split, untouchedBySip10Users
<1>4. CASE Sip10Merge(user)
  BY <1>4 DEF Sip10Merge, untouchedBySip10Users
<1>5. CASE Sip10Withdraw
  BY <1>5 DEF Sip10Withdraw, Sip10WithdrawNote, untouchedBySip10Users
<1> QED
  BY <1>1, <1>2, <1>3, <1>4, <1>5 DEF Sip10UserStep

LEMMA SipUserLedger ==
  ASSUME TokenLedgerInv, NEW user, Sip10UserStep(user)
  PROVE  TokenLedgerInv' /\ UNCHANGED UnspentOf(Stx)
<1>1. Books' /\ SomeSipMove
  BY Sip10ShieldMoves, Sip10TransferMoves, Sip10SplitMoves, Sip10MergeMoves, Sip10WithdrawMoves
     DEF Sip10UserStep
<1>2. UNCHANGED <<totalShieldedStx, assetVars>>
  BY SipFrame DEF flowVars
<1> QED
  BY <1>1, <1>2, SipKeepsLedger

\* A native operation, and what the staff does to the native contracts, keeps
\* the tokens' notes.
LEMMA NativeKeepsLedger ==
  ASSUME TokenLedgerInv, SystemNext, UNCHANGED sip10Vars
  PROVE  /\ TokenLedgerInv'
         /\ \A t \in Tokens : UnspentOf(t)' = UnspentOf(t)
<1>1. LedgerInv /\ LedgerInv'
  BY LedgerStepInv DEF TokenLedgerInv
<1>2. UNCHANGED <<assets, assetIds, nextAssetId, shieldedTotal>>
  BY DEF sip10Vars, assetVars, sip10PoolVars
<1>3. AssetTable' /\ TableGrows /\ DOMAIN assets' = DOMAIN assets
  BY <1>2, SameTable DEF TokenLedgerInv
<1>4. /\ \A t \in Tokens : UnspentOf(t)' = UnspentOf(t)
      /\ \A c \in DOMAIN commitments' \ DOMAIN commitments : AssetOf[c] = Stx
  <2>1. CASE \E user \in Users : UserStep(user)
    <3>1. PICK ins, outs : Moves(ins, outs)
      BY <1>1, <2>1, UserMoves DEF IsDeposit, IsReshape, IsPayout
    <3>2. AssetMoves(Stx, ins, outs)
      BY <3>1, NativeMoves
    <3>3. \A t \in Tokens : UnspentOf(t)' = UnspentOf(t)
      BY <1>1, <3>2, MovedAssets, Sip10Assumption
    <3>4. \A c \in DOMAIN commitments' \ DOMAIN commitments : AssetOf[c] = Stx
      BY <3>2 DEF AssetMoves
    <3> QED
      BY <3>3, <3>4
  <2>2. CASE \E p \in Users \cup Staff : IncidentStep(p) \/ UpgradeStep(p) \/ TreasuryStep(p)
    <3>1. UNCHANGED <<commitments, nullifiers>>
      BY <2>2, StaffFrame DEF ledgerBooks, bookVars, commitmentVars, nullifierVars
    <3> QED
      BY <3>1 DEF UnspentOf, UnspentNotes, SpentNotes
  <2> QED
    BY <2>1, <2>2, SystemSteps
<1>5. TokenLedgerInv'
  BY <1>1, <1>2, <1>3, <1>4, TotalsKept
<1> QED
  BY <1>4, <1>5

\* Steps that leave the ledger of notes alone, a listing included.
LEMMA QuietKeepsLedger ==
  ASSUME TokenLedgerInv, UNCHANGED <<ledgerBooks, shieldedTotal>>, AssetTable', TableGrows,
         DOMAIN assets' = DOMAIN assets \/ \E token \in Tokens : Lists(token)
  PROVE  /\ TokenLedgerInv'
         /\ \A t : UnspentOf(t)' = UnspentOf(t)
<1>1. LedgerInv'
  BY LedgerKept DEF TokenLedgerInv
<1>2. UNCHANGED <<commitments, nullifiers>>
  BY DEF ledgerBooks, bookVars, commitmentVars, nullifierVars
<1>3. \A t : UnspentOf(t)' = UnspentOf(t)
  BY <1>2 DEF UnspentOf, UnspentNotes, SpentNotes
<1>4. TokenLedgerInv'
  BY <1>1, <1>2, <1>3, TotalsKept
<1> QED
  BY <1>3, <1>4

LEMMA SameLedger ==
  ASSUME TokenLedgerInv, UNCHANGED <<ledgerBooks, shieldedTotal, assets, assetIds, nextAssetId>>
  PROVE  TokenLedgerInv' /\ \A t : UnspentOf(t)' = UnspentOf(t)
<1>1. AssetTable' /\ TableGrows /\ DOMAIN assets' = DOMAIN assets
  BY SameTable DEF TokenLedgerInv
<1> QED
  BY <1>1, QuietKeepsLedger

\* Nothing the staff does to the SIP-10 contracts touches the notes.
LEMMA TokenStaffLedger ==
  ASSUME TokenLedgerInv, NEW p \in Staff, ListingStep(p) \/ Sip10IncidentStep(p)
  PROVE  TokenLedgerInv' /\ \A t : UnspentOf(t)' = UnspentOf(t)
<1> USE DEF assetVars, sip10PoolVars
<1>1. UNCHANGED <<registryVars, noteVars>> => UNCHANGED ledgerBooks
  BY DEF registryVars, ledgerVars, ledgerBooks, bookVars, commitmentVars, nullifierVars,
         rootVars, flowVars, noteVars
<1>2. UNCHANGED poolVars => UNCHANGED ledgerBooks
  BY <1>1 DEF poolVars
<1>3. AssetTable
  BY DEF TokenLedgerInv
<1>4. CASE AssetStep(p) /\ UNCHANGED outsideAssets
  <2>1. UNCHANGED <<ledgerBooks, shieldedTotal>>
    <3>1. UNCHANGED registryVars
      BY <1>4 DEF AssetStep, RegisterAsset, SetAssetEnabled, DeprecateAsset, SetAssetLimits,
                  SetAssetFeeConfig, SetAssetFeeRecipient
    <3> QED
      BY <1>1, <1>4, <3>1 DEF outsideAssets
  <2>2. CASE RegisterAsset(p)
    BY <1>3, <2>1, <2>2, RegisterTable, QuietKeepsLedger
  <2>3. CASE ~RegisterAsset(p)
    BY <1>3, <1>4, <2>1, <2>3, AssetStepTable, QuietKeepsLedger
  <2> QED
    BY <2>2, <2>3
<1>5. CASE AssetFeesStep(p) /\ UNCHANGED outsideTokens
  BY <1>2, <1>5, SameLedger DEF outsideTokens
<1>6. CASE SetMaxFeeBps(p) /\ UNCHANGED <<beyondRegistry, sip10Vars>>
  <2>1. TreasuryStep(p)
    BY <1>6 DEF TreasuryStep
  <2> QED
    BY <1>6, <2>1, StaffFrame, SameLedger DEF sip10Vars
<1>7. CASE SetOperationEnabled(p)
  BY <1>2, <1>7, SameLedger DEF SetOperationEnabled, outsidePool
<1>8. CASE SetCircuitVersion(p)
  BY <1>2, <1>8, SameLedger DEF SetCircuitVersion, outsidePool
<1>9. CASE SetAuthorizedPool(p)
  BY <1>2, <1>9, SameLedger DEF SetAuthorizedPool, outsidePool
<1>10. CASE Sip10VerifierStep(p)
  BY <1>2, <1>10, SameLedger DEF Sip10VerifierStep
<1>11. CASE LifecycleStep(p) /\ UNCHANGED <<beyondRegistry, sip10Vars>>
  <2>1. IncidentStep(p)
    BY <1>11 DEF IncidentStep
  <2> QED
    BY <1>11, <2>1, StaffFrame, SameLedger DEF sip10Vars
<1> QED
  BY <1>4, <1>5, <1>6, <1>7, <1>8, <1>9, <1>10, <1>11 DEF ListingStep, Sip10IncidentStep

LEMMA TokenLedgerStepInv ==
  TokenLedgerInv /\ [TokenSystemNext]_bothPoolsVars => TokenLedgerInv'
<1> SUFFICES ASSUME TokenLedgerInv, [TokenSystemNext]_bothPoolsVars PROVE TokenLedgerInv'
  OBVIOUS
<1>1. CASE TokenStep \/ UNCHANGED bothPoolsVars
  <2>1. UNCHANGED <<poolVars, shieldedTotal, assets, assetIds, nextAssetId>>
    BY <1>1 DEF TokenStep, outsideTokens, bothPoolsVars, sip10Vars, assetVars, sip10PoolVars
  <2>2. UNCHANGED ledgerBooks
    BY <2>1 DEF poolVars, registryVars, ledgerVars, ledgerBooks, bookVars, commitmentVars,
                nullifierVars, rootVars, flowVars, noteVars
  <2> QED
    BY <2>1, <2>2, SameLedger
<1>2. CASE SystemNext /\ UNCHANGED sip10Vars
  BY <1>2, NativeKeepsLedger
<1>3. CASE \E user \in Users : Sip10UserStep(user)
  BY <1>3, SipUserLedger
<1>4. CASE \E p \in Staff : ListingStep(p) \/ Sip10IncidentStep(p)
  BY <1>4, TokenStaffLedger
<1> QED
  BY <1>1, <1>2, <1>3, <1>4 DEF TokenSystemNext

\* Ids given to the first tokens, one each, leave none out.
LEMMA EveryIdGiven ==
  ASSUME NEW registered \in SUBSET Tokens,
         NEW ids \in [registered -> 1..Cardinality(registered)],
         \A t, u \in registered : ids[t] = ids[u] => t = u
  PROVE  /\ Cardinality(registered) \in Nat /\ Cardinality(registered) <= Cardinality(Tokens)
         /\ \A id \in 1..Cardinality(registered) : \E t \in registered : ids[t] = id
<1>1. IsFiniteSet(registered) /\ Cardinality(registered) <= Cardinality(Tokens)
  BY AssetsAssumption, FS_Subset
<1>2. PICK n : n = Cardinality(registered)
  OBVIOUS
<1>3. n \in Nat
  BY <1>1, <1>2, FS_CardinalityType
<1>4. IsFiniteSet(1..n) /\ Cardinality(1..n) = n
  BY <1>3, FS_Interval
<1>5. ids \in Injection(registered, 1..n)
  BY <1>2 DEF Injection, IsInjective
<1>6. ids \in Surjection(registered, 1..n)
  BY <1>2, <1>4, <1>5, FS_Injection
<1>7. \A id \in 1..n : \E t \in registered : ids[t] = id
  BY <1>6 DEF Surjection
<1> QED
  BY <1>1, <1>2, <1>3, <1>7

LEMMA TokenLedgerStart == TokenSystemInit => TokenLedgerInv
<1> SUFFICES ASSUME NEW registered \in SUBSET Tokens, Sip10Init(registered)
             PROVE  TokenLedgerInv
  BY DEF TokenSystemInit
<1>1. PICK callers : DeployedWith(callers)
  BY DEF Sip10Init
<1>2. LedgerInv /\ commitments = EmptyMap
  BY <1>1, LedgerStart DEF DeployedWith
<1>3. PICK limits \in AssetLimitInputs, recipient \in FeeRecipientInputs,
           ids \in [registered -> 1..Cardinality(registered)] :
        /\ \A t, u \in registered : ids[t] = ids[u] => t = u
        /\ assetIds = ids
        /\ assets = [id \in 1..Cardinality(registered) |->
                       [token |-> CHOOSE t \in registered : ids[t] = id,
                        status |-> ASSET_ACTIVE, limits |-> limits,
                        feeRecipient |-> recipient]]
        /\ nextAssetId = Cardinality(registered) + 1
  BY ZenonT(150) DEF Sip10Init
<1>4. /\ Cardinality(registered) \in Nat /\ Cardinality(registered) <= Cardinality(Tokens)
      /\ \A id \in 1..Cardinality(registered) : \E t \in registered : ids[t] = id
  BY <1>3, EveryIdGiven
<1>5. PICK n \in Nat : n = Cardinality(registered)
  BY <1>4
<1>6. nextAssetId = n + 1 /\ nextAssetId \in Nat \ {0} /\ nextAssetId - 1 = n
  BY <1>3, <1>5
<1>7. /\ DOMAIN assets = 1..n
      /\ \A id \in 1..n : /\ assets[id].token = CHOOSE t \in registered : ids[t] = id
                          /\ assets[id] \in [token : {assets[id].token}, status : 1..3,
                                             limits : AssetLimitInputs, feeRecipient : Principals]
  BY <1>3, <1>5, AssetsAssumption DEF ASSET_ACTIVE
<1>8. \A id \in 1..n : assets[id].token \in registered /\ ids[assets[id].token] = id
  BY <1>4, <1>5, <1>7
<1>9. \A id \in 1..n : assets[id] \in AssetRecord
  BY <1>7, <1>8 DEF AssetRecord
<1>10. assets \in [1..n -> AssetRecord]
  <2>1. assets = [id \in 1..n |-> assets[id]]
    BY <1>3, <1>5
  <2> QED
    BY <1>9, <2>1
<1>11. DOMAIN assetIds = registered /\ \A t \in registered : assetIds[t] \in 1..n
  BY <1>3, <1>5
<1>12. \A t \in registered : assets[assetIds[t]].token = t
  BY <1>3, <1>8, <1>11
<1>13. AssetTable
  BY <1>3, <1>5, <1>6, <1>7, <1>8, <1>10, <1>11, <1>12 DEF AssetTable
<1>14. shieldedTotal = [id \in AssetIds |-> 0]
  BY DEF Sip10Init
<1>15. DOMAIN commitments = {} /\ \A t : UnspentOf(t) = {}
  BY <1>2 DEF EmptyMap, UnspentOf, UnspentNotes
<1>16. \A t : AmountOf(UnspentOf(t)) = 0
  BY <1>15, AmountIsSum, NoNotes
<1>17. TokenTotals
  <2>1. DOMAIN assets \subseteq AssetIds
    BY <1>13, ListedIds
  <2> QED
    BY <1>14, <1>15, <1>16, <2>1 DEF TokenTotals
<1> QED
  BY <1>2, <1>13, <1>17 DEF TokenLedgerInv

LEMMA TokenLedgerInvariant == TokenSystemSpec => []TokenLedgerInv
BY TokenLedgerStart, TokenLedgerStepInv, PTL DEF TokenSystemSpec

\* Whatever tokens are listed, delisted, priced and skimmed, and whoever uses
\* either pool, each pool's total of an asset is the value of that asset's
\* unspent notes on the shared tree.
THEOREM EachAssetIsConserved == TokenSystemSpec => []EveryAssetConserved
<1>1. TokenLedgerInv => EveryAssetConserved
  BY DEF TokenLedgerInv, TokenTotals, LedgerInv, TotalsFollowNotes, EveryAssetConserved
<1> QED
  BY <1>1, TokenLedgerInvariant, PTL

\* The native ledgers stay exact with the SIP-10 pool publishing on the same
\* tree and registering in the same note manager.
THEOREM SharedLedgersExact == TokenSystemSpec => []LedgersExact
<1>1. TokenLedgerInv => LedgersExact
  BY DEF TokenLedgerInv, LedgerInv, Books, LedgersExact
<1> QED
  BY <1>1, TokenLedgerInvariant, PTL

-----------------------------------------------------------------------------
(* Halts.                                                                   *)

\* The versions have the field the SIP-10 verifier puts its own version in.
VersionsNamed == "circuit" \in DOMAIN protocolVersions

LEMMA VersionsStart == TokenSystemInit => VersionsNamed
BY DEF TokenSystemInit, Sip10Init, DeployedWith, VersionsNamed, GenesisVersions

LEMMA VersionsStep == VersionsNamed /\ [TokenSystemNext]_bothPoolsVars => VersionsNamed'
<1> SUFFICES ASSUME VersionsNamed, [TokenSystemNext]_bothPoolsVars PROVE VersionsNamed'
  OBVIOUS
<1>1. ASSUME UNCHANGED protocolVersions PROVE VersionsNamed'
  BY <1>1 DEF VersionsNamed
<1>2. ASSUME UNCHANGED registryVars PROVE VersionsNamed'
  BY <1>1, <1>2 DEF registryVars, configVars
<1>3. CASE SystemNext /\ UNCHANGED sip10Vars
  <2>1. ASSUME NEW user, UserStep(user) PROVE UNCHANGED protocolVersions
    BY <2>1 DEF UserStep, Shield, Transfer, Withdraw, SplitNote, MergeNotes, untouchedByUsers,
                nonLedgerVars, configVars
  <2>2. ASSUME NEW p, IncidentStep(p) PROVE UNCHANGED protocolVersions
    <3>1. LifecycleStep(p) => UNCHANGED protocolVersions
      BY LifecycleFrame DEF configVars
    <3> QED
      BY <2>2, <3>1 DEF IncidentStep, SetRootStatus, SetVerificationFrozen, SetPoolSwitch,
                        SetManagerSwitch, SetSwitch, registryVars, configVars, nonLedgerVars
  <2>3. ASSUME NEW p, TreasuryStep(p) PROVE UNCHANGED protocolVersions
    BY <2>3 DEF TreasuryStep, FeesAdminStep, SetFee, WithdrawFees, FreezeFees, UnfreezeFees,
                FreezeTreasury, UnfreezeTreasury, StxTransfer, SetMaxFeeBps, registryVars,
                configVars
  <2>4. ASSUME NEW p, UpgradeStep(p) PROVE VersionsNamed'
    <3>1. CASE LifecycleStep(p)
      BY <1>1, <3>1, LifecycleFrame DEF configVars
    <3>2. CASE UpdateVersions(p)
      BY <3>2, InputsAssumption DEF UpdateVersions, Versions, VersionsNamed
    <3>3. CASE SetVerifierVersions(p)
      BY <3>3 DEF SetVerifierVersions, VersionsNamed
    <3>4. CASE UpdateProtocolLimits(p) \/ SetMaxFeeBps(p)
      BY <1>1, <3>4 DEF UpdateProtocolLimits, SetMaxFeeBps
    <3>5. CASE \/ RegisterVerificationKey(p) \/ SetVerificationKeyStatus(p)
               \/ SetZkverifyContextHash(p) \/ SetZkverifyBinding(p)
      BY <1>2, <3>5 DEF RegisterVerificationKey, SetVerificationKeyStatus,
                        SetZkverifyContextHash, SetZkverifyBinding
    <3> QED
      BY <2>4, <3>1, <3>2, <3>3, <3>4, <3>5 DEF UpgradeStep, ConfigStep
  <2> QED
    BY <1>1, <1>3, <2>1, <2>2, <2>3, <2>4, SystemSteps
<1>4. CASE \E user \in Users : Sip10UserStep(user)
  BY <1>1, <1>4, SipFrame DEF nonLedgerVars, configVars
<1>5. CASE \E p \in Staff : ListingStep(p) \/ Sip10IncidentStep(p)
  <2> SUFFICES ASSUME NEW p \in Staff, ListingStep(p) \/ Sip10IncidentStep(p)
               PROVE  VersionsNamed'
    BY <1>5
  <2>1. CASE AssetStep(p)
    BY <1>2, <2>1 DEF AssetStep, RegisterAsset, SetAssetEnabled, DeprecateAsset, SetAssetLimits,
                      SetAssetFeeConfig, SetAssetFeeRecipient
  <2>2. CASE AssetFeesStep(p) /\ UNCHANGED outsideTokens
    BY <1>2, <2>2 DEF outsideTokens, poolVars
  <2>3. CASE SetMaxFeeBps(p)
    BY <1>1, <2>3 DEF SetMaxFeeBps
  <2>4. CASE LifecycleStep(p)
    BY <1>1, <2>4, LifecycleFrame DEF configVars
  <2>5. CASE \/ SetOperationEnabled(p) \/ SetCircuitVersion(p) \/ SetAuthorizedPool(p)
             \/ Sip10VerifierStep(p)
    BY <1>2, <2>5 DEF SetOperationEnabled, SetCircuitVersion, SetAuthorizedPool,
                      Sip10VerifierStep, outsidePool, poolVars
  <2> QED
    BY <2>1, <2>2, <2>3, <2>4, <2>5 DEF ListingStep, Sip10IncidentStep
<1>6. CASE TokenStep \/ UNCHANGED bothPoolsVars
  BY <1>2, <1>6 DEF TokenStep, outsideTokens, bothPoolsVars, poolVars
<1> QED
  BY <1>3, <1>4, <1>5, <1>6 DEF TokenSystemNext

\* What an operation of type t that goes through says of the halts.
SipAccepts(t) ==
  /\ CheckActive /\ ~sip10Frozen /\ authorizedPool = Sip10Contract
  /\ sip10CircuitVersion = SIP10_CIRCUIT_VERSION
  /\ \A u \in ProofTypes : u # t => Accepted(sip10Verified', u) = Accepted(sip10Verified, u)

LEMMA Sip10Accepted ==
  ASSUME VersionsNamed, NEW s, VerifySip10(s)
  PROVE  SipAccepts(s.op)
<1>1. /\ CheckActive /\ ~sip10Frozen /\ Sip10Contract \in {authorizedPool}
      /\ SIP10_CIRCUIT_VERSION
           = [protocolVersions EXCEPT !.circuit = sip10CircuitVersion].circuit
  BY DEF VerifySip10, V!VerifyProofCall, V!IsProtocolCaller, V!CircuitReady, V!CheckActive,
         CheckActive, V!PROTOCOL_ACTIVE, PROTOCOL_ACTIVE
<1>2. sip10CircuitVersion = SIP10_CIRCUIT_VERSION /\ authorizedPool = Sip10Contract
  BY <1>1 DEF VersionsNamed
<1>3. PICK context, binding :
        sip10Verified' = sip10Verified \cup {<<context, binding, s>>}
  BY DEF VerifySip10, V!VerifyProofCall, V!LeafOf, V!StatementLeaf
<1>4. ASSUME NEW u, u # s.op
      PROVE  Accepted(sip10Verified', u) = Accepted(sip10Verified, u)
  BY <1>3, <1>4 DEF Accepted
<1> QED
  BY <1>1, <1>2, <1>4 DEF SipAccepts

LEMMA SipUserHalts ==
  ASSUME VersionsNamed, NEW user, Sip10UserStep(user)
  PROVE  \E t \in ProofTypes : operationSwitches[t] /\ SipAccepts(t)
<1>0. ASSUME NEW t, NEW s, VerifySip10(s), s.op = t PROVE SipAccepts(t)
  BY <1>0, Sip10Accepted
<1> USE DEF ProofTypes, PROOF_TYPE_SHIELD, PROOF_TYPE_TRANSFER, PROOF_TYPE_WITHDRAWAL,
            PROOF_TYPE_SPLIT, PROOF_TYPE_MERGE
<1>1. CASE Sip10Shield(user)
  <2>1. PICK s : VerifySip10(s) /\ s.op = PROOF_TYPE_SHIELD
    BY <1>1 DEF Sip10Shield, Sip10TreeStatement, TreeInputs
  <2>2. SipAccepts(PROOF_TYPE_SHIELD)
    BY <1>0, <2>1
  <2> QED
    BY <1>1, <2>2 DEF Sip10Shield
<1>2. CASE Sip10Transfer(user)
  <2>1. PICK s : VerifySip10(s) /\ s.op = PROOF_TYPE_TRANSFER
    BY <1>2 DEF Sip10Transfer, Sip10TreeStatement, TreeInputs
  <2>2. SipAccepts(PROOF_TYPE_TRANSFER)
    BY <1>0, <2>1
  <2> QED
    BY <1>2, <2>2 DEF Sip10Transfer
<1>3. CASE Sip10Split(user)
  <2>1. PICK s : VerifySip10(s) /\ s.op = PROOF_TYPE_SPLIT
    BY <1>3 DEF Sip10Split, Sip10TreeStatement, TreeInputs
  <2>2. SipAccepts(PROOF_TYPE_SPLIT)
    BY <1>0, <2>1
  <2> QED
    BY <1>3, <2>2 DEF Sip10Split
<1>4. CASE Sip10Merge(user)
  <2>1. PICK s : VerifySip10(s) /\ s.op = PROOF_TYPE_MERGE
    BY <1>4 DEF Sip10Merge, Sip10TreeStatement, TreeInputs
  <2>2. SipAccepts(PROOF_TYPE_MERGE)
    BY <1>0, <2>1
  <2> QED
    BY <1>4, <2>2 DEF Sip10Merge
<1>5. CASE Sip10Withdraw
  <2>1. PICK s : VerifySip10(s) /\ s.op = PROOF_TYPE_WITHDRAWAL
    BY <1>5 DEF Sip10Withdraw, Sip10WithdrawNote, Sip10WithdrawStatement, WithdrawInputs
  <2>2. SipAccepts(PROOF_TYPE_WITHDRAWAL)
    BY <1>0, <2>1
  <2> QED
    BY <1>5, <2>2 DEF Sip10Withdraw, Sip10WithdrawNote
<1> QED
  BY <1>1, <1>2, <1>3, <1>4, <1>5 DEF Sip10UserStep

TokenHalts ==
  /\ \/ ~CheckActive \/ sip10Frozen
     \/ authorizedPool # Sip10Contract
     \/ sip10CircuitVersion # SIP10_CIRCUIT_VERSION
     => UNCHANGED <<shieldedTotal, sip10Verified, assetFeeStats>>
        /\ \A t \in Tokens : UnspentOf(t)' = UnspentOf(t)
  /\ \A t \in ProofTypes : ~operationSwitches[t] =>
       Accepted(sip10Verified', t) = Accepted(sip10Verified, t)

LEMMA TokenStepHalts ==
  TokenLedgerInv /\ VersionsNamed /\ [TokenSystemNext]_bothPoolsVars => [TokenHalts]_bothPoolsVars
<1> SUFFICES ASSUME TokenLedgerInv, VersionsNamed, TokenSystemNext PROVE TokenHalts
  OBVIOUS
<1>1. ASSUME UNCHANGED <<shieldedTotal, sip10Verified, assetFeeStats>>,
             \A t \in Tokens : UnspentOf(t)' = UnspentOf(t)
      PROVE  TokenHalts
  BY <1>1 DEF TokenHalts, Accepted
<1>2. CASE SystemNext /\ UNCHANGED sip10Vars
  <2>1. UNCHANGED <<shieldedTotal, sip10Verified, assetFeeStats>>
    BY <1>2 DEF sip10Vars, sip10PoolVars, sip10VerifierVars, assetFeeVars, assetTreasuryVars
  <2> QED
    BY <1>1, <1>2, <2>1, NativeKeepsLedger
<1>3. CASE \E user \in Users : Sip10UserStep(user)
  <2>1. PICK t \in ProofTypes : operationSwitches[t] /\ SipAccepts(t)
    BY <1>3, SipUserHalts
  <2> QED
    BY <2>1 DEF TokenHalts, SipAccepts
<1>4. CASE \E p \in Staff : ListingStep(p) \/ Sip10IncidentStep(p)
  <2> SUFFICES ASSUME NEW p \in Staff, ListingStep(p) \/ Sip10IncidentStep(p)
               PROVE  TokenHalts
    BY <1>4
  <2> USE DEF sip10Vars, sip10PoolVars, sip10VerifierVars, assetFeeVars, assetTreasuryVars
  <2>1. \A t \in Tokens : UnspentOf(t)' = UnspentOf(t)
    BY TokenStaffLedger
  <2>2. CASE AssetStep(p) /\ UNCHANGED outsideAssets
    BY <1>1, <2>1, <2>2 DEF outsideAssets
  <2>3. CASE AssetFeesStep(p) /\ UNCHANGED outsideTokens
    BY <1>1, <2>1, <2>3 DEF outsideTokens, AssetFeesStep, WithdrawAssetFees, FlipFeesFreeze,
                            FlipTreasuryFreeze
  <2>4. CASE (SetMaxFeeBps(p) \/ LifecycleStep(p)) /\ UNCHANGED sip10Vars
    BY <1>1, <2>1, <2>4
  <2>5. CASE SetOperationEnabled(p) \/ SetCircuitVersion(p) \/ SetAuthorizedPool(p)
    BY <1>1, <2>1, <2>5 DEF SetOperationEnabled, SetCircuitVersion, SetAuthorizedPool, outsidePool
  <2>6. CASE Sip10VerifierStep(p)
    <3>1. UNCHANGED sip10Verified
      BY <2>6 DEF Sip10VerifierStep, V!VerifierAdminStep, V!RegisterVerificationKey,
                  V!SetVerificationKeyStatus, V!SetZkverifyContextHash, V!SetZkverifyBinding,
                  V!AddRelayer, V!RemoveRelayer, V!SetVerificationFrozen, V!acceptanceVars
    <3> QED
      BY <1>1, <2>1, <2>6, <3>1 DEF Sip10VerifierStep
  <2> QED
    BY <2>2, <2>3, <2>4, <2>5, <2>6 DEF ListingStep, Sip10IncidentStep
<1>5. CASE TokenStep
  <2>1. UNCHANGED <<shieldedTotal, sip10Verified, assetFeeStats>>
    BY <1>5 DEF TokenStep, outsideTokens, TokenTransfer, SetSkimBps, assetTreasuryVars,
                sip10PoolVars, sip10VerifierVars
  <2>2. UNCHANGED <<commitments, nullifiers>>
    BY <1>5 DEF TokenStep, outsideTokens, poolVars, registryVars, ledgerVars, commitmentVars,
                nullifierVars
  <2> QED
    BY <1>1, <2>1, <2>2 DEF UnspentOf, UnspentNotes, SpentNotes
<1> QED
  BY <1>2, <1>3, <1>4, <1>5 DEF TokenSystemNext

\* A frozen SIP-10 verifier, another pool named, a version left behind, a paused
\* protocol and a switch each stop the SIP-10 notes in the very next step,
\* whatever the native pool and the staff do in between.
THEOREM TokenHaltsAlwaysComplete == TokenSystemSpec => TokenHaltsAreComplete
BY VersionsStart, VersionsStep, TokenStepHalts, TokenLedgerInvariant, PTL
   DEF TokenSystemSpec, TokenHaltsAreComplete, TokenHalts

-----------------------------------------------------------------------------
(* Money, asset by asset.                                                   *)

TokenBalances == [Tokens -> [Principals -> Nat]]

LEMMA SipPlaces ==
  /\ Sip10Contract \in Principals /\ Sip10FeesContract \in Principals
  /\ Sip10Contract # Sip10FeesContract
  /\ \A u \in Users : u \in Principals /\ u # Sip10Contract /\ u # Sip10FeesContract
BY Sip10Assumption, Sip10FeesAssumption, FeesAssumption

LEMMA SkimType ==
  ASSUME NEW token, NEW amount \in Nat
  PROVE  SkimOf(token, amount) \in Nat
<1>1. (amount * SkimBps) \div BpsDenominator \in Nat
  BY ShareBounds, Sip10FeesAssumption, FeesAssumption
<1> QED
  BY <1>1 DEF SkimOf

\* A transfer takes the amount from the sender, brings the receiver something,
\* and all of it when the token does not skim.
LEMMA MoveMoves ==
  ASSUME NEW b \in TokenBalances, NEW token \in Tokens, NEW from \in Principals,
         NEW to \in Principals, NEW amount \in Nat, CanMove(b, token, from, to, amount),
         NEW c, c = Moved(b, token, from, to, amount)
  PROVE  /\ c \in TokenBalances /\ from # to /\ b[token][from] >= amount
         /\ c[token][from] = b[token][from] - amount
         /\ c[token][to] >= b[token][to]
         /\ token \notin skimming => c[token][to] = b[token][to] + amount
         /\ \A p \in Principals \ {from, to} : c[token][p] = b[token][p]
         /\ \A t \in Tokens \ {token} : c[t] = b[t]
<1>1. PICK got : got = amount - SkimOf(token, amount)
  OBVIOUS
<1>2. got \in Nat /\ from # to /\ b[token][from] >= amount
  BY <1>1, SkimType DEF CanMove
<1>3. PICK row : row = b[token]
  OBVIOUS
<1>4. PICK new : new = [row EXCEPT ![from] = @ - amount, ![to] = @ + got]
  OBVIOUS
<1>5. row \in [Principals -> Nat]
  BY <1>3 DEF TokenBalances
<1>6. c = [b EXCEPT ![token] = new]
  <2>1. c = [b EXCEPT ![token][from] = @ - amount, ![token][to] = @ + got]
    BY <1>1 DEF Moved
  <2> QED
    BY <1>2, <1>3, <1>4, <1>5, <2>1 DEF TokenBalances
<1>7. /\ new[from] = row[from] - amount /\ new[to] = row[to] + got
      /\ \A p \in Principals \ {from, to} : new[p] = row[p]
  BY <1>2, <1>4, <1>5
<1>8. new \in [Principals -> Nat]
  <2>1. \A p \in Principals : row[p] \in Nat
    BY <1>5
  <2>2. row[from] - amount \in Nat /\ row[to] + got \in Nat
    BY <1>2, <1>3, <2>1
  <2> QED
    BY <1>4, <1>5, <2>2
<1>9. /\ c[token] = new /\ \A t \in Tokens \ {token} : c[t] = b[t]
      /\ c \in TokenBalances
  BY <1>6, <1>8 DEF TokenBalances
<1>10. token \notin skimming => got = amount
  BY <1>1 DEF SkimOf
<1>11. row[to] \in Nat
  BY <1>5
<1> QED
  BY <1>2, <1>3, <1>7, <1>9, <1>10, <1>11

AssetBooks ==
  /\ assetTreasury \in [AssetIds -> [collected : Nat, withdrawn : Nat, balance : Nat]]
  /\ assetFeeStats \in [AssetIds -> [AssetFeeTypes -> Nat]]
  /\ \A id \in AssetIds :
       /\ assetTreasury[id].balance + assetTreasury[id].withdrawn = assetTreasury[id].collected
       /\ assetFeeStats[id][1] + assetFeeStats[id][2] + assetFeeStats[id][3]
            + assetFeeStats[id][4] + assetFeeStats[id][5] = assetTreasury[id].collected
  /\ \A id \in AssetIds \ DOMAIN assets : assetTreasury[id].balance = 0

TreasuriesHeld ==
  \A id \in DOMAIN assets :
    TokenOf(id) \notin Faulty =>
      tokens[TokenOf(id)][Sip10FeesContract] >= assetTreasury[id].balance

TokenMoney ==
  /\ assetFees \in [DOMAIN assets -> [AssetFeeTypes -> AssetFeeConfig]]
  /\ tokens \in TokenBalances /\ skimming \subseteq Faulty
  /\ AssetBooks /\ TokensBacked /\ TreasuriesHeld

LEMMA AssetFeeType ==
  ASSUME assetFees \in [DOMAIN assets -> [AssetFeeTypes -> AssetFeeConfig]],
         protocolLimits \in Limits, NEW id \in DOMAIN assets, NEW type \in AssetFeeTypes,
         NEW amount \in Nat
  PROVE  AssetFee(id, type, amount) \in Nat
<1>1. PICK config \in AssetFeeConfig : config = assetFees[id][type]
  OBVIOUS
<1>2. PICK bps : bps = EffectiveBps(config.bps)
  OBVIOUS
<1>3. bps \in Nat /\ config.flat \in Nat
  BY <1>1, <1>2 DEF EffectiveBps, Limits, AssetFeeConfig
<1>4. (amount * bps) \div BpsDenominator \in Nat
  BY <1>3, ShareBounds, FeesAssumption
<1>5. PICK share \in Nat : share = (amount * bps) \div BpsDenominator
  BY <1>4
<1>6. AssetFee(id, type, amount) = IF config.enabled THEN config.flat + share ELSE 0
  BY <1>1, <1>2, <1>5 DEF AssetFee
<1> QED
  BY <1>3, <1>5, <1>6

\* What the fees contract books of a fee on asset id.
FeeBooked(id, type, fee) ==
  /\ assetTreasury' = [assetTreasury EXCEPT ![id].collected = @ + fee, ![id].balance = @ + fee]
  /\ assetFeeStats' = [assetFeeStats EXCEPT ![id][type] = @ + fee]

LEMMA FeeTaken ==
  ASSUME AssetBooks, skimming \subseteq Faulty, NEW id \in AssetIds, TokenOf(id) \in Tokens,
         NEW type \in AssetFeeTypes, NEW payer \in Principals \ {Sip10FeesContract},
         NEW fee \in Nat, NEW b \in TokenBalances, NEW contract,
         CollectAssetFeeIfAny(contract, id, type, payer, fee, b),
         NEW c, c = AfterAssetFee(b, id, payer, fee),
         NEW a, a = TokenOf(id)
  PROVE  /\ FeeBooked(id, type, fee) /\ c \in TokenBalances
         /\ c[a][payer] = b[a][payer] - fee
         /\ c[a][Sip10FeesContract] >= b[a][Sip10FeesContract]
         /\ a \notin Faulty => c[a][Sip10FeesContract] = b[a][Sip10FeesContract] + fee
         /\ \A p \in Principals \ {payer, Sip10FeesContract} : c[a][p] = b[a][p]
         /\ \A t \in Tokens \ {a} : c[t] = b[t]
<1>1. \A p \in Principals : b[a][p] \in Nat
  BY DEF TokenBalances
<1>2. CASE fee = 0
  <2>1. c = b
    BY <1>2 DEF AfterAssetFee
  <2>2. UNCHANGED <<assetTreasury, assetFeeStats>>
    BY <1>2 DEF CollectAssetFeeIfAny, CollectAssetFee, assetTreasuryVars
  <2>3. FeeBooked(id, type, fee)
    BY <1>2, <2>2 DEF FeeBooked, AssetBooks
  <2> QED
    BY <1>1, <1>2, <2>1, <2>3, SipPlaces
<1>3. CASE fee # 0
  <2>1. CollectAssetFee(contract, id, type, payer, fee, b)
    BY <1>3 DEF CollectAssetFeeIfAny
  <2>2. FeeBooked(id, type, fee) /\ CanMove(b, a, payer, Sip10FeesContract, fee)
    BY <2>1 DEF CollectAssetFee, FeeBooked, TokenOf
  <2>3. c = Moved(b, a, payer, Sip10FeesContract, fee)
    BY <1>3 DEF AfterAssetFee, TokenOf
  <2>4. /\ c \in TokenBalances
        /\ c[a][payer] = b[a][payer] - fee
        /\ c[a][Sip10FeesContract] >= b[a][Sip10FeesContract]
        /\ a \notin skimming => c[a][Sip10FeesContract] = b[a][Sip10FeesContract] + fee
        /\ \A p \in Principals \ {payer, Sip10FeesContract} : c[a][p] = b[a][p]
        /\ \A t \in Tokens \ {a} : c[t] = b[t]
    BY <2>2, <2>3, SipPlaces, MoveMoves
  <2> QED
    BY <2>2, <2>4
<1> QED
  BY <1>2, <1>3

\* What an operation on asset id does to money: the pool gains what its total
\* gains, and the fees contract gets its fee.
SipPays(id, type, fee) ==
  /\ FeeBooked(id, type, fee)
  /\ tokens' \in TokenBalances
  /\ tokens'[TokenOf(id)][Sip10Contract]
       = tokens[TokenOf(id)][Sip10Contract] + (shieldedTotal'[id] - shieldedTotal[id])
  /\ TokenOf(id) \notin Faulty =>
       tokens'[TokenOf(id)][Sip10FeesContract] = tokens[TokenOf(id)][Sip10FeesContract] + fee
  /\ \A t \in Tokens \ {TokenOf(id)} : tokens'[t] = tokens[t]
  /\ \A i \in AssetIds \ {id} : shieldedTotal'[i] = shieldedTotal[i]

SomeSipPayment ==
  \E id \in DOMAIN assets : \E type \in AssetFeeTypes, fee \in Nat : SipPays(id, type, fee)

LEMMA Sip10ShieldPays ==
  ASSUME TokenLedgerInv, TokenMoney, protocolLimits \in Limits, NEW user \in Users,
         Sip10Shield(user)
  PROVE  SomeSipPayment
<1>1. PICK id \in DOMAIN assets, amount \in AmountInputs :
        LET fee == AssetFee(id, PROOF_TYPE_SHIELD, amount)
            deposited == Moved(tokens, TokenOf(id), user, Sip10Contract, amount)
        IN  /\ CanMove(tokens, TokenOf(id), user, Sip10Contract, amount)
            /\ Landed(deposited, TokenOf(id), amount)
            /\ CollectAssetFeeIfAny(Sip10Contract, id, PROOF_TYPE_SHIELD, user, fee, deposited)
            /\ tokens' = AfterAssetFee(deposited, id, user, fee)
            /\ shieldedTotal' = [shieldedTotal EXCEPT ![id] = @ + amount]
  BY ZenonT(60) DEF Sip10Shield
<1>2. PICK a, fee, deposited :
        /\ a = TokenOf(id) /\ fee = AssetFee(id, PROOF_TYPE_SHIELD, amount)
        /\ deposited = Moved(tokens, a, user, Sip10Contract, amount)
        /\ CanMove(tokens, a, user, Sip10Contract, amount)
        /\ deposited[a][Sip10Contract] = tokens[a][Sip10Contract] + amount
        /\ CollectAssetFeeIfAny(Sip10Contract, id, PROOF_TYPE_SHIELD, user, fee, deposited)
        /\ tokens' = AfterAssetFee(deposited, id, user, fee)
  BY <1>1 DEF Landed
<1>3. /\ id \in AssetIds /\ a \in Tokens /\ amount \in Nat /\ PROOF_TYPE_SHIELD \in AssetFeeTypes
      /\ tokens \in TokenBalances /\ AssetBooks /\ skimming \subseteq Faulty
      /\ assetFees \in [DOMAIN assets -> [AssetFeeTypes -> AssetFeeConfig]]
      /\ shieldedTotal \in [AssetIds -> Nat]
  BY <1>2, ListedIds, InputsAssumption
     DEF TokenLedgerInv, TokenTotals, TokenMoney, PROOF_TYPE_SHIELD, AssetFeeTypes
<1>4. fee \in Nat
  BY <1>2, <1>3, AssetFeeType
<1>5. /\ deposited \in TokenBalances
      /\ deposited[a][Sip10FeesContract] = tokens[a][Sip10FeesContract]
      /\ \A t \in Tokens \ {a} : deposited[t] = tokens[t]
  BY <1>2, <1>3, SipPlaces, MoveMoves
<1>6. /\ FeeBooked(id, PROOF_TYPE_SHIELD, fee) /\ tokens' \in TokenBalances
      /\ a \notin Faulty =>
           tokens'[a][Sip10FeesContract] = deposited[a][Sip10FeesContract] + fee
      /\ \A p \in Principals \ {user, Sip10FeesContract} : tokens'[a][p] = deposited[a][p]
      /\ \A t \in Tokens \ {a} : tokens'[t] = deposited[t]
  BY <1>2, <1>3, <1>4, <1>5, SipPlaces, FeeTaken
<1>7. /\ shieldedTotal'[id] = shieldedTotal[id] + amount
      /\ \A i \in AssetIds \ {id} : shieldedTotal'[i] = shieldedTotal[i]
  BY <1>1, <1>3
<1>8. tokens'[a][Sip10Contract] = tokens[a][Sip10Contract] + (shieldedTotal'[id] - shieldedTotal[id])
  <2>1. tokens'[a][Sip10Contract] = tokens[a][Sip10Contract] + amount
    BY <1>2, <1>6, SipPlaces
  <2>2. shieldedTotal[id] \in Nat
    BY <1>3
  <2> QED
    BY <1>3, <1>7, <2>1, <2>2
<1>9. SipPays(id, PROOF_TYPE_SHIELD, fee)
  BY <1>2, <1>5, <1>6, <1>7, <1>8 DEF SipPays
<1> QED
  BY <1>3, <1>4, <1>9 DEF SomeSipPayment

\* The flat fee of a transfer, a split or a merge.
LEMMA TokenFeePays ==
  ASSUME TokenLedgerInv, TokenMoney, protocolLimits \in Limits, NEW user \in Users,
         NEW id \in DOMAIN assets, NEW type \in AssetFeeTypes,
         ChargeTokenFee(id, type, user), UNCHANGED shieldedTotal
  PROVE  SomeSipPayment
<1>1. PICK a, fee : /\ a = TokenOf(id) /\ fee = AssetFee(id, type, 0)
                    /\ CollectAssetFeeIfAny(Sip10Contract, id, type, user, fee, tokens)
                    /\ tokens' = AfterAssetFee(tokens, id, user, fee)
  BY DEF ChargeTokenFee
<1>2. /\ id \in AssetIds /\ a \in Tokens
      /\ tokens \in TokenBalances /\ AssetBooks /\ skimming \subseteq Faulty
      /\ assetFees \in [DOMAIN assets -> [AssetFeeTypes -> AssetFeeConfig]]
      /\ shieldedTotal \in [AssetIds -> Nat]
  BY <1>1, ListedIds DEF TokenLedgerInv, TokenTotals, TokenMoney
<1>3. fee \in Nat
  BY <1>1, <1>2, AssetFeeType
<1>4. /\ FeeBooked(id, type, fee) /\ tokens' \in TokenBalances
      /\ a \notin Faulty => tokens'[a][Sip10FeesContract] = tokens[a][Sip10FeesContract] + fee
      /\ \A p \in Principals \ {user, Sip10FeesContract} : tokens'[a][p] = tokens[a][p]
      /\ \A t \in Tokens \ {a} : tokens'[t] = tokens[t]
  BY <1>1, <1>2, <1>3, SipPlaces, FeeTaken
<1>5. tokens'[a][Sip10Contract] = tokens[a][Sip10Contract] + (shieldedTotal'[id] - shieldedTotal[id])
  <2>1. tokens'[a][Sip10Contract] = tokens[a][Sip10Contract]
    BY <1>4, SipPlaces
  <2>2. shieldedTotal[id] \in Nat /\ tokens[a][Sip10Contract] \in Nat
    BY <1>2, SipPlaces DEF TokenBalances
  <2> QED
    BY <2>1, <2>2
<1>6. SipPays(id, type, fee)
  BY <1>1, <1>4, <1>5 DEF SipPays
<1> QED
  BY <1>3, <1>6 DEF SomeSipPayment

LEMMA Sip10WithdrawPays ==
  ASSUME TokenLedgerInv, TokenMoney, protocolLimits \in Limits, Sip10Withdraw
  PROVE  SomeSipPayment
<1>1. PICK id \in DOMAIN assets, root \in DOMAIN merkleRoots, n \in Nullifier,
           amount \in AmountInputs, recipient \in RecipientInputs :
        Sip10WithdrawNote(id, n, amount, recipient, root)
  BY DEF Sip10Withdraw
<1>2. PICK a, fee, charged :
        /\ a = TokenOf(id) /\ fee = AssetFee(id, PROOF_TYPE_WITHDRAWAL, amount)
        /\ charged = AfterAssetFee(tokens, id, Sip10Contract, fee)
        /\ recipient \notin {BurnAddress, Sip10Contract, Sip10FeesContract}
        /\ fee < amount
        /\ shieldedTotal' = [shieldedTotal EXCEPT ![id] = @ - amount]
        /\ CollectAssetFeeIfAny(Sip10Contract, id, PROOF_TYPE_WITHDRAWAL, Sip10Contract,
                                fee, tokens)
        /\ CanMove(charged, a, Sip10Contract, recipient, amount - fee)
        /\ tokens' = Moved(charged, a, Sip10Contract, recipient, amount - fee)
        /\ tokens'[a][Sip10Contract] = tokens[a][Sip10Contract] - amount
  BY <1>1 DEF Sip10WithdrawNote, ValidTokenRecipient
<1>3. /\ id \in AssetIds /\ a \in Tokens /\ amount \in Nat /\ recipient \in Principals
      /\ PROOF_TYPE_WITHDRAWAL \in AssetFeeTypes
      /\ tokens \in TokenBalances /\ AssetBooks /\ skimming \subseteq Faulty
      /\ assetFees \in [DOMAIN assets -> [AssetFeeTypes -> AssetFeeConfig]]
      /\ shieldedTotal \in [AssetIds -> Nat]
  BY <1>2, ListedIds, InputsAssumption, FeesAssumption
     DEF TokenLedgerInv, TokenTotals, TokenMoney, PROOF_TYPE_WITHDRAWAL, AssetFeeTypes
<1>4. fee \in Nat /\ amount - fee \in Nat
  <2>1. fee \in Nat
    BY <1>2, <1>3, AssetFeeType
  <2> QED
    BY <1>2, <1>3, <2>1
<1>5. /\ FeeBooked(id, PROOF_TYPE_WITHDRAWAL, fee) /\ charged \in TokenBalances
      /\ a \notin Faulty => charged[a][Sip10FeesContract] = tokens[a][Sip10FeesContract] + fee
      /\ \A t \in Tokens \ {a} : charged[t] = tokens[t]
  BY <1>2, <1>3, <1>4, SipPlaces, FeeTaken
<1>6. /\ tokens' \in TokenBalances
      /\ tokens'[a][Sip10FeesContract] = charged[a][Sip10FeesContract]
      /\ \A t \in Tokens \ {a} : tokens'[t] = charged[t]
  BY <1>2, <1>3, <1>4, <1>5, SipPlaces, MoveMoves
<1>7. /\ shieldedTotal'[id] = shieldedTotal[id] - amount
      /\ \A i \in AssetIds \ {id} : shieldedTotal'[i] = shieldedTotal[i]
  BY <1>2, <1>3
<1>8. tokens'[a][Sip10Contract] = tokens[a][Sip10Contract] + (shieldedTotal'[id] - shieldedTotal[id])
  <2>1. shieldedTotal[id] \in Nat /\ tokens[a][Sip10Contract] \in Nat
    BY <1>3, SipPlaces DEF TokenBalances
  <2> QED
    BY <1>2, <1>3, <1>7, <2>1
<1>9. SipPays(id, PROOF_TYPE_WITHDRAWAL, fee)
  BY <1>2, <1>5, <1>6, <1>7, <1>8 DEF SipPays
<1> QED
  BY <1>3, <1>4, <1>9 DEF SomeSipPayment

\* The books of the fees contract after a fee, and after a payout.
LEMMA BooksAfterFee ==
  ASSUME AssetBooks, NEW id \in AssetIds, id \in DOMAIN assets, UNCHANGED assets,
         NEW type \in AssetFeeTypes, NEW fee \in Nat, FeeBooked(id, type, fee)
  PROVE  /\ AssetBooks'
         /\ assetTreasury'[id].balance = assetTreasury[id].balance + fee
         /\ \A i \in AssetIds \ {id} : assetTreasury'[i] = assetTreasury[i]
<1>1. /\ assetTreasury[id] \in [collected : Nat, withdrawn : Nat, balance : Nat]
      /\ assetFeeStats[id] \in [AssetFeeTypes -> Nat]
  BY DEF AssetBooks
<1>2. PICK book, stats :
        /\ book = [assetTreasury[id] EXCEPT !.collected = @ + fee, !.balance = @ + fee]
        /\ stats = [assetFeeStats[id] EXCEPT ![type] = @ + fee]
  OBVIOUS
<1>3. /\ assetTreasury' = [assetTreasury EXCEPT ![id] = book]
      /\ assetFeeStats' = [assetFeeStats EXCEPT ![id] = stats]
  BY <1>2 DEF FeeBooked, AssetBooks
<1>4. /\ book \in [collected : Nat, withdrawn : Nat, balance : Nat]
      /\ book.collected = assetTreasury[id].collected + fee
      /\ book.balance = assetTreasury[id].balance + fee
      /\ book.withdrawn = assetTreasury[id].withdrawn
  <2>1. PICK old \in [collected : Nat, withdrawn : Nat, balance : Nat] : old = assetTreasury[id]
    BY <1>1
  <2>2. old.collected + fee \in Nat /\ old.balance + fee \in Nat
    BY <2>1
  <2>3. book = [old EXCEPT !.collected = old.collected + fee, !.balance = old.balance + fee]
    BY <1>2, <2>1
  <2>4. PICK c, h : c = old.collected + fee /\ h = old.balance + fee
    OBVIOUS
  <2>5. book = [old EXCEPT !.collected = c, !.balance = h] /\ c \in Nat /\ h \in Nat
    BY <2>2, <2>3, <2>4
  <2>6. /\ book \in [collected : Nat, withdrawn : Nat, balance : Nat]
        /\ book.collected = c /\ book.balance = h /\ book.withdrawn = old.withdrawn
    BY <2>1, <2>5
  <2> QED
    BY <2>1, <2>4, <2>6
<1>5. /\ stats \in [AssetFeeTypes -> Nat]
      /\ stats[1] + stats[2] + stats[3] + stats[4] + stats[5]
           = assetFeeStats[id][1] + assetFeeStats[id][2] + assetFeeStats[id][3]
             + assetFeeStats[id][4] + assetFeeStats[id][5] + fee
  <2>1. \A t \in AssetFeeTypes : assetFeeStats[id][t] \in Nat
    BY <1>1
  <2>2. stats \in [AssetFeeTypes -> Nat]
    BY <1>1, <1>2, <2>1
  <2> QED
    BY <1>1, <1>2, <2>1, <2>2 DEF AssetFeeTypes
<1>6. /\ assetTreasury' \in [AssetIds -> [collected : Nat, withdrawn : Nat, balance : Nat]]
      /\ assetFeeStats' \in [AssetIds -> [AssetFeeTypes -> Nat]]
      /\ assetTreasury'[id] = book /\ assetFeeStats'[id] = stats
      /\ \A i \in AssetIds \ {id} : /\ assetTreasury'[i] = assetTreasury[i]
                                    /\ assetFeeStats'[i] = assetFeeStats[i]
  BY <1>3, <1>4, <1>5 DEF AssetBooks
<1>7. /\ book.balance + book.withdrawn = book.collected
      /\ stats[1] + stats[2] + stats[3] + stats[4] + stats[5] = book.collected
  BY <1>1, <1>4, <1>5 DEF AssetBooks
<1>8. \A i \in AssetIds :
        /\ assetTreasury'[i].balance + assetTreasury'[i].withdrawn = assetTreasury'[i].collected
        /\ assetFeeStats'[i][1] + assetFeeStats'[i][2] + assetFeeStats'[i][3]
             + assetFeeStats'[i][4] + assetFeeStats'[i][5] = assetTreasury'[i].collected
  BY <1>6, <1>7 DEF AssetBooks
<1>9. \A i \in AssetIds \ DOMAIN assets' : assetTreasury'[i].balance = 0
  BY <1>6 DEF AssetBooks
<1> QED
  BY <1>4, <1>6, <1>8, <1>9 DEF AssetBooks

LEMMA BooksAfterPayout ==
  ASSUME AssetBooks, NEW id \in AssetIds, id \in DOMAIN assets, UNCHANGED <<assets, assetFeeStats>>,
         NEW amount \in Nat, amount <= assetTreasury[id].balance,
         assetTreasury' = [assetTreasury EXCEPT ![id].withdrawn = @ + amount,
                                                ![id].balance = @ - amount]
  PROVE  /\ AssetBooks'
         /\ assetTreasury'[id].balance = assetTreasury[id].balance - amount
         /\ \A i \in AssetIds \ {id} : assetTreasury'[i] = assetTreasury[i]
<1>1. assetTreasury[id] \in [collected : Nat, withdrawn : Nat, balance : Nat]
  BY DEF AssetBooks
<1>2. PICK book :
        book = [assetTreasury[id] EXCEPT !.withdrawn = @ + amount, !.balance = @ - amount]
  OBVIOUS
<1>3. assetTreasury' = [assetTreasury EXCEPT ![id] = book]
  BY <1>2 DEF AssetBooks
<1>4. /\ book \in [collected : Nat, withdrawn : Nat, balance : Nat]
      /\ book.collected = assetTreasury[id].collected
      /\ book.balance = assetTreasury[id].balance - amount
      /\ book.withdrawn = assetTreasury[id].withdrawn + amount
  <2>1. PICK old \in [collected : Nat, withdrawn : Nat, balance : Nat] : old = assetTreasury[id]
    BY <1>1
  <2>2. old.withdrawn + amount \in Nat /\ old.balance - amount \in Nat
    BY <2>1
  <2>3. book = [old EXCEPT !.withdrawn = old.withdrawn + amount,
                           !.balance = old.balance - amount]
    BY <1>2, <2>1
  <2>4. PICK w, h : w = old.withdrawn + amount /\ h = old.balance - amount
    OBVIOUS
  <2>5. book = [old EXCEPT !.withdrawn = w, !.balance = h] /\ w \in Nat /\ h \in Nat
    BY <2>2, <2>3, <2>4
  <2>6. /\ book \in [collected : Nat, withdrawn : Nat, balance : Nat]
        /\ book.withdrawn = w /\ book.balance = h /\ book.collected = old.collected
    BY <2>1, <2>5
  <2> QED
    BY <2>1, <2>4, <2>6
<1>5. /\ assetTreasury' \in [AssetIds -> [collected : Nat, withdrawn : Nat, balance : Nat]]
      /\ assetTreasury'[id] = book
      /\ \A i \in AssetIds \ {id} : assetTreasury'[i] = assetTreasury[i]
  BY <1>3, <1>4 DEF AssetBooks
<1>6. book.balance + book.withdrawn = book.collected
  BY <1>1, <1>4 DEF AssetBooks
<1>7. \A i \in AssetIds :
        assetTreasury'[i].balance + assetTreasury'[i].withdrawn = assetTreasury'[i].collected
  BY <1>5, <1>6 DEF AssetBooks
<1>8. \A i \in AssetIds :
        assetFeeStats'[i][1] + assetFeeStats'[i][2] + assetFeeStats'[i][3]
          + assetFeeStats'[i][4] + assetFeeStats'[i][5] = assetTreasury'[i].collected
  BY <1>4, <1>5 DEF AssetBooks
<1>9. \A i \in AssetIds \ DOMAIN assets' : assetTreasury'[i].balance = 0
  BY <1>5 DEF AssetBooks
<1> QED
  BY <1>4, <1>5, <1>7, <1>8, <1>9 DEF AssetBooks

\* A SIP-10 operation keeps every asset's money: its own by what it pays, the
\* others' because no two assets share a token.
LEMMA PaymentKeepsMoney ==
  ASSUME TokenLedgerInv, TokenLedgerInv', TokenMoney, SomeSipPayment,
         UNCHANGED <<assetVars, skimming>>
  PROVE  TokenMoney'
<1>1. PICK id \in DOMAIN assets, type \in AssetFeeTypes, fee \in Nat : SipPays(id, type, fee)
  BY DEF SomeSipPayment
<1>2. PICK a : a = TokenOf(id)
  OBVIOUS
<1>3. /\ id \in AssetIds /\ a \in Tokens
      /\ \A i \in DOMAIN assets : TokenOf(i) \in Tokens /\ i \in AssetIds
      /\ \A i \in DOMAIN assets \ {id} : TokenOf(i) # a
  BY <1>2, ListedIds DEF TokenLedgerInv
<1>4. /\ UNCHANGED <<assets, assetFees>>
      /\ \A i \in DOMAIN assets : TokenOf(i)' = TokenOf(i)
  BY DEF assetVars, TokenOf
<1>5. /\ AssetBooks /\ TokensBacked /\ TreasuriesHeld /\ skimming \subseteq Faulty
      /\ assetFees \in [DOMAIN assets -> [AssetFeeTypes -> AssetFeeConfig]]
      /\ tokens \in TokenBalances
  BY DEF TokenMoney
<1>6. /\ AssetBooks'
      /\ assetTreasury'[id].balance = assetTreasury[id].balance + fee
      /\ \A i \in AssetIds \ {id} : assetTreasury'[i] = assetTreasury[i]
  BY <1>1, <1>3, <1>4, <1>5, BooksAfterFee DEF SipPays
<1>7. /\ tokens' \in TokenBalances
      /\ tokens'[a][Sip10Contract] = tokens[a][Sip10Contract] + (shieldedTotal'[id] - shieldedTotal[id])
      /\ a \notin Faulty => tokens'[a][Sip10FeesContract] = tokens[a][Sip10FeesContract] + fee
      /\ \A t \in Tokens \ {a} : tokens'[t] = tokens[t]
      /\ \A i \in AssetIds \ {id} : shieldedTotal'[i] = shieldedTotal[i]
  BY <1>1, <1>2 DEF SipPays
<1>8. /\ shieldedTotal[id] \in Nat /\ shieldedTotal'[id] \in Nat
      /\ tokens[a][Sip10Contract] \in Nat /\ tokens[a][Sip10FeesContract] \in Nat
      /\ assetTreasury[id].balance \in Nat
  BY <1>3, <1>5, SipPlaces DEF TokenLedgerInv, TokenTotals, TokenBalances, AssetBooks
<1>9. \A i \in DOMAIN assets : tokens'[TokenOf(i)][Sip10Contract] >= shieldedTotal'[i]
  <2>1. tokens[a][Sip10Contract] >= shieldedTotal[id]
    BY <1>2, <1>5 DEF TokensBacked
  <2>2. tokens'[a][Sip10Contract] >= shieldedTotal'[id]
    BY <1>7, <1>8, <2>1
  <2>3. \A i \in DOMAIN assets \ {id} : tokens'[TokenOf(i)][Sip10Contract] >= shieldedTotal'[i]
    BY <1>3, <1>5, <1>7 DEF TokensBacked
  <2> QED
    BY <1>2, <2>2, <2>3
<1>10. TokensBacked'
  BY <1>4, <1>9 DEF TokensBacked
<1>11. \A i \in DOMAIN assets : TokenOf(i) \notin Faulty =>
         tokens'[TokenOf(i)][Sip10FeesContract] >= assetTreasury'[i].balance
  <2>1. a \notin Faulty => tokens[a][Sip10FeesContract] >= assetTreasury[id].balance
    BY <1>2, <1>5 DEF TreasuriesHeld
  <2>2. a \notin Faulty => tokens'[a][Sip10FeesContract] >= assetTreasury'[id].balance
    BY <1>6, <1>7, <1>8, <2>1
  <2>3. \A i \in DOMAIN assets \ {id} : TokenOf(i) \notin Faulty =>
          tokens'[TokenOf(i)][Sip10FeesContract] >= assetTreasury'[i].balance
    BY <1>3, <1>5, <1>6, <1>7 DEF TreasuriesHeld
  <2> QED
    BY <1>2, <2>2, <2>3
<1>12. TreasuriesHeld'
  BY <1>4, <1>11 DEF TreasuriesHeld
<1> QED
  BY <1>4, <1>5, <1>6, <1>7, <1>10, <1>12 DEF TokenMoney

LEMMA SipUserMoney ==
  ASSUME TokenLedgerInv, TokenMoney, protocolLimits \in Limits, NEW user \in Users,
         Sip10UserStep(user)
  PROVE  TokenMoney'
<1>1. PROOF_TYPE_TRANSFER \in AssetFeeTypes /\ PROOF_TYPE_SPLIT \in AssetFeeTypes
      /\ PROOF_TYPE_MERGE \in AssetFeeTypes
  BY DEF PROOF_TYPE_TRANSFER, PROOF_TYPE_SPLIT, PROOF_TYPE_MERGE, AssetFeeTypes
<1>2. SomeSipPayment
  <2>1. CASE Sip10Shield(user)
    BY <2>1, Sip10ShieldPays
  <2>2. CASE Sip10Transfer(user)
    <3>1. PICK id \in DOMAIN assets : ChargeTokenFee(id, PROOF_TYPE_TRANSFER, user)
      BY <2>2 DEF Sip10Transfer
    <3>2. UNCHANGED shieldedTotal
      BY <2>2 DEF Sip10Transfer
    <3> QED
      BY <1>1, <3>1, <3>2, TokenFeePays
  <2>3. CASE Sip10Split(user)
    <3>1. PICK id \in DOMAIN assets : ChargeTokenFee(id, PROOF_TYPE_SPLIT, user)
      BY <2>3 DEF Sip10Split
    <3>2. UNCHANGED shieldedTotal
      BY <2>3 DEF Sip10Split
    <3> QED
      BY <1>1, <3>1, <3>2, TokenFeePays
  <2>4. CASE Sip10Merge(user)
    <3>1. PICK id \in DOMAIN assets : ChargeTokenFee(id, PROOF_TYPE_MERGE, user)
      BY <2>4 DEF Sip10Merge
    <3>2. UNCHANGED shieldedTotal
      BY <2>4 DEF Sip10Merge
    <3> QED
      BY <1>1, <3>1, <3>2, TokenFeePays
  <2>5. CASE Sip10Withdraw
    BY <2>5, Sip10WithdrawPays
  <2> QED
    BY <2>1, <2>2, <2>3, <2>4, <2>5 DEF Sip10UserStep
<1>3. TokenLedgerInv' /\ UNCHANGED <<assetVars, skimming>>
  BY SipUserLedger, SipFrame
<1> QED
  BY <1>2, <1>3, PaymentKeepsMoney

\* A step that leaves the tokens, the totals and the books alone.
LEMMA MoneyKept ==
  ASSUME TokenMoney, UNCHANGED <<assets, tokens, shieldedTotal, assetTreasuryVars>>,
         assetFees' \in [DOMAIN assets -> [AssetFeeTypes -> AssetFeeConfig]],
         skimming' \subseteq Faulty
  PROVE  TokenMoney'
BY DEF TokenMoney, AssetBooks, TokensBacked, TreasuriesHeld, TokenOf, assetTreasuryVars

\* So does a change to an asset's record that keeps its token.
LEMMA MoneyKeptByRecords ==
  ASSUME TokenMoney, TableGrows, DOMAIN assets' = DOMAIN assets,
         UNCHANGED <<assetFees, tokens, skimming, shieldedTotal, assetTreasuryVars>>
  PROVE  TokenMoney'
<1>1. \A id \in DOMAIN assets : TokenOf(id)' = TokenOf(id)
  BY DEF TableGrows
<1>2. AssetBooks'
  BY DEF TokenMoney, AssetBooks, assetTreasuryVars
<1>3. TokensBacked' /\ TreasuriesHeld'
  BY <1>1 DEF TokenMoney, TokensBacked, TreasuriesHeld, assetTreasuryVars
<1> QED
  BY <1>2, <1>3 DEF TokenMoney

\* A listed asset starts with nothing shielded and nothing in its treasury.
LEMMA ListingKeepsMoney ==
  ASSUME TokenLedgerInv, TokenMoney, TableGrows, NEW token \in Tokens, Lists(token),
         assetFees' = MapSet(assetFees, nextAssetId, [t \in AssetFeeTypes |-> ZeroFee]),
         UNCHANGED <<tokens, skimming, shieldedTotal, assetTreasuryVars>>
  PROVE  TokenMoney'
<1>1. PICK id : id = nextAssetId
  OBVIOUS
<1>2. /\ id \in AssetIds \ DOMAIN assets /\ DOMAIN assets' = DOMAIN assets \cup {id}
      /\ assets'[nextAssetId].token = token
  BY <1>1 DEF Lists
<1>3. TokenOf(id)' = token
  BY <1>1, <1>2 DEF TokenOf
<1>4. \A i \in DOMAIN assets : TokenOf(i)' = TokenOf(i)
  BY DEF TableGrows
<1>5. /\ AssetBooks /\ TokensBacked /\ TreasuriesHeld /\ skimming \subseteq Faulty
      /\ assetFees \in [DOMAIN assets -> [AssetFeeTypes -> AssetFeeConfig]]
      /\ tokens \in TokenBalances
  BY DEF TokenMoney
<1>6. shieldedTotal[id] = 0 /\ assetTreasury[id].balance = 0
  BY <1>2, <1>5 DEF TokenLedgerInv, TokenTotals, AssetBooks
<1>7. tokens[token][Sip10Contract] >= 0 /\ tokens[token][Sip10FeesContract] >= 0
  BY <1>5, SipPlaces DEF TokenBalances
<1>8. UNCHANGED <<assetTreasury, assetFeeStats>>
  BY DEF assetTreasuryVars
<1>9. AssetBooks'
  BY <1>2, <1>5, <1>8 DEF AssetBooks
<1>10. TokensBacked'
  BY <1>2, <1>3, <1>4, <1>5, <1>6, <1>7 DEF TokensBacked
<1>11. TreasuriesHeld'
  BY <1>2, <1>3, <1>4, <1>5, <1>6, <1>7, <1>8 DEF TreasuriesHeld
<1>12. assetFees' \in [DOMAIN assets' -> [AssetFeeTypes -> AssetFeeConfig]]
  <2>1. [t \in AssetFeeTypes |-> ZeroFee] \in [AssetFeeTypes -> AssetFeeConfig]
    BY DEF ZeroFee, AssetFeeConfig
  <2>2. PICK row \in [AssetFeeTypes -> AssetFeeConfig] : row = [t \in AssetFeeTypes |-> ZeroFee]
    BY <2>1
  <2>3. assetFees' = MapSet(assetFees, id, row)
    BY <1>1, <2>2
  <2> QED
    BY <1>2, <1>5, <2>3 DEF MapSet
<1> QED
  BY <1>5, <1>9, <1>10, <1>11, <1>12 DEF TokenMoney

\* The owner's payout of an asset's fees takes from that asset's treasury what
\* it takes from its books.
LEMMA PayoutKeepsMoney ==
  ASSUME TokenLedgerInv, TokenMoney, NEW p, WithdrawAssetFees(p),
         UNCHANGED <<assetVars, sip10PoolVars>>
  PROVE  TokenMoney'
<1>1. PICK id \in DOMAIN assets, amount \in AmountInputs :
        /\ amount <= assetTreasury[id].balance
        /\ CanMove(tokens, TokenOf(id), Sip10FeesContract, assets[id].feeRecipient, amount)
        /\ tokens' = Moved(tokens, TokenOf(id), Sip10FeesContract, assets[id].feeRecipient, amount)
        /\ assetTreasury' = [assetTreasury EXCEPT ![id].withdrawn = @ + amount,
                                                  ![id].balance = @ - amount]
  BY DEF WithdrawAssetFees, TokenOf
<1>2. PICK a, to : a = TokenOf(id) /\ to = assets[id].feeRecipient
  OBVIOUS
<1>3. /\ id \in AssetIds /\ a \in Tokens /\ amount \in Nat
      /\ \A i \in DOMAIN assets : TokenOf(i) \in Tokens /\ i \in AssetIds
      /\ \A i \in DOMAIN assets \ {id} : TokenOf(i) # a
  BY <1>2, ListedIds, InputsAssumption DEF TokenLedgerInv
<1>4. to \in Principals
  <2>1. assets[id] \in AssetRecord
    BY DEF TokenLedgerInv, AssetTable
  <2> QED
    BY <1>2, <2>1 DEF AssetRecord
<1>5. /\ AssetBooks /\ TokensBacked /\ TreasuriesHeld /\ skimming \subseteq Faulty
      /\ assetFees \in [DOMAIN assets -> [AssetFeeTypes -> AssetFeeConfig]]
      /\ tokens \in TokenBalances
  BY DEF TokenMoney
<1>6. /\ UNCHANGED <<assets, assetFees, shieldedTotal, assetFeeStats, skimming>>
      /\ \A i \in DOMAIN assets : TokenOf(i)' = TokenOf(i)
  BY DEF WithdrawAssetFees, assetVars, sip10PoolVars, TokenOf
<1>7. /\ AssetBooks'
      /\ assetTreasury'[id].balance = assetTreasury[id].balance - amount
      /\ \A i \in AssetIds \ {id} : assetTreasury'[i] = assetTreasury[i]
  BY <1>1, <1>3, <1>5, <1>6, BooksAfterPayout
<1>8. /\ CanMove(tokens, a, Sip10FeesContract, to, amount)
      /\ tokens' = Moved(tokens, a, Sip10FeesContract, to, amount)
  BY <1>1, <1>2
<1>9. /\ tokens' \in TokenBalances /\ Sip10FeesContract # to
      /\ tokens'[a][Sip10FeesContract] = tokens[a][Sip10FeesContract] - amount
      /\ tokens'[a][to] >= tokens[a][to]
      /\ \A q \in Principals \ {Sip10FeesContract, to} : tokens'[a][q] = tokens[a][q]
      /\ \A t \in Tokens \ {a} : tokens'[t] = tokens[t]
  BY <1>3, <1>4, <1>5, <1>8, SipPlaces, MoveMoves
<1>10. /\ tokens[a][Sip10Contract] \in Nat /\ tokens[a][Sip10FeesContract] \in Nat
       /\ assetTreasury[id].balance \in Nat
  BY <1>3, <1>5, SipPlaces DEF TokenBalances, AssetBooks
<1>11. tokens'[a][Sip10Contract] >= tokens[a][Sip10Contract]
  BY <1>9, <1>10, SipPlaces
<1>12. tokens'[a][Sip10Contract] \in Nat /\ shieldedTotal[id] \in Nat
  BY <1>3, <1>9, SipPlaces DEF TokenBalances, TokenLedgerInv, TokenTotals
<1>13. \A i \in DOMAIN assets : tokens'[TokenOf(i)][Sip10Contract] >= shieldedTotal[i]
  <2>1. tokens[a][Sip10Contract] >= shieldedTotal[id]
    BY <1>2, <1>5 DEF TokensBacked
  <2>2. tokens'[a][Sip10Contract] >= shieldedTotal[id]
    BY <1>10, <1>11, <1>12, <2>1
  <2>3. \A i \in DOMAIN assets \ {id} : tokens'[TokenOf(i)][Sip10Contract] >= shieldedTotal[i]
    BY <1>3, <1>5, <1>9 DEF TokensBacked
  <2> QED
    BY <1>2, <2>2, <2>3
<1>14. \A i \in DOMAIN assets : TokenOf(i) \notin Faulty =>
         tokens'[TokenOf(i)][Sip10FeesContract] >= assetTreasury'[i].balance
  <2>1. a \notin Faulty => tokens[a][Sip10FeesContract] >= assetTreasury[id].balance
    BY <1>2, <1>5 DEF TreasuriesHeld
  <2>2. a \notin Faulty => tokens'[a][Sip10FeesContract] >= assetTreasury'[id].balance
    BY <1>3, <1>7, <1>9, <1>10, <2>1
  <2>3. \A i \in DOMAIN assets \ {id} : TokenOf(i) \notin Faulty =>
          tokens'[TokenOf(i)][Sip10FeesContract] >= assetTreasury'[i].balance
    BY <1>3, <1>5, <1>7, <1>9 DEF TreasuriesHeld
  <2> QED
    BY <1>2, <2>2, <2>3
<1>15. TokensBacked' /\ TreasuriesHeld'
  BY <1>6, <1>13, <1>14 DEF TokensBacked, TreasuriesHeld
<1> QED
  BY <1>5, <1>6, <1>7, <1>9, <1>15 DEF TokenMoney

\* A user's own transfer takes nothing from the two contracts.
LEMMA TransferKeepsMoney ==
  ASSUME TokenLedgerInv, TokenMoney, NEW user \in Users, TokenTransfer(user),
         UNCHANGED <<assetVars, sip10PoolVars>>
  PROVE  TokenMoney'
<1>1. PICK a \in Tokens, to \in RecipientInputs, amount \in AmountInputs :
        CanMove(tokens, a, user, to, amount) /\ tokens' = Moved(tokens, a, user, to, amount)
  BY DEF TokenTransfer
<1>2. /\ to \in Principals /\ amount \in Nat /\ user \in Principals
      /\ user # Sip10Contract /\ user # Sip10FeesContract
  BY InputsAssumption, FeesAssumption, SipPlaces
<1>3. /\ AssetBooks /\ TokensBacked /\ TreasuriesHeld /\ skimming \subseteq Faulty
      /\ assetFees \in [DOMAIN assets -> [AssetFeeTypes -> AssetFeeConfig]]
      /\ tokens \in TokenBalances
  BY DEF TokenMoney
<1>4. /\ UNCHANGED <<assets, assetFees, shieldedTotal, assetTreasury, assetFeeStats, skimming>>
      /\ \A i \in DOMAIN assets : TokenOf(i)' = TokenOf(i)
  BY DEF TokenTransfer, assetVars, sip10PoolVars, assetTreasuryVars, TokenOf
<1>5. /\ tokens' \in TokenBalances /\ user # to
      /\ tokens'[a][to] >= tokens[a][to]
      /\ \A q \in Principals \ {user, to} : tokens'[a][q] = tokens[a][q]
      /\ \A t \in Tokens \ {a} : tokens'[t] = tokens[t]
  BY <1>1, <1>2, <1>3, MoveMoves
<1>6. \A t \in Tokens : /\ tokens[t][Sip10Contract] \in Nat /\ tokens'[t][Sip10Contract] \in Nat
                        /\ tokens[t][Sip10FeesContract] \in Nat
                        /\ tokens'[t][Sip10FeesContract] \in Nat
  BY <1>3, <1>5, SipPlaces DEF TokenBalances
<1>7. \A t \in Tokens : tokens'[t][Sip10Contract] >= tokens[t][Sip10Contract]
  <2>1. tokens'[a][Sip10Contract] >= tokens[a][Sip10Contract]
    BY <1>2, <1>5, <1>6, SipPlaces
  <2> QED
    BY <1>5, <1>6, <2>1
<1>8. \A t \in Tokens : tokens'[t][Sip10FeesContract] >= tokens[t][Sip10FeesContract]
  <2>1. tokens'[a][Sip10FeesContract] >= tokens[a][Sip10FeesContract]
    BY <1>2, <1>5, <1>6, SipPlaces
  <2> QED
    BY <1>5, <1>6, <2>1
<1>9. \A i \in DOMAIN assets : /\ TokenOf(i) \in Tokens /\ shieldedTotal[i] \in Nat
                               /\ assetTreasury[i].balance \in Nat
  BY <1>3, ListedIds DEF TokenLedgerInv, TokenTotals, AssetBooks
<1>10. \A i \in DOMAIN assets : tokens'[TokenOf(i)][Sip10Contract] >= shieldedTotal[i]
  BY <1>3, <1>6, <1>7, <1>9 DEF TokensBacked
<1>11. \A i \in DOMAIN assets : TokenOf(i) \notin Faulty =>
         tokens'[TokenOf(i)][Sip10FeesContract] >= assetTreasury[i].balance
  BY <1>3, <1>6, <1>8, <1>9 DEF TreasuriesHeld
<1>12. AssetBooks'
  BY <1>3, <1>4 DEF AssetBooks
<1>13. TokensBacked' /\ TreasuriesHeld'
  BY <1>4, <1>10, <1>11 DEF TokensBacked, TreasuriesHeld
<1> QED
  BY <1>3, <1>4, <1>5, <1>12, <1>13 DEF TokenMoney

LEMMA TokenStaffMoney ==
  ASSUME TokenLedgerInv, TokenMoney, NEW p \in Staff, ListingStep(p) \/ Sip10IncidentStep(p)
  PROVE  TokenMoney'
<1> USE DEF assetVars, sip10PoolVars, assetFeeVars, tokenVars
<1>1. /\ skimming \subseteq Faulty
      /\ assetFees \in [DOMAIN assets -> [AssetFeeTypes -> AssetFeeConfig]]
  BY DEF TokenMoney
<1>2. ASSUME UNCHANGED <<assetVars, assetFeeVars, shieldedTotal>> PROVE TokenMoney'
  BY <1>1, <1>2, MoneyKept
<1>3. CASE AssetStep(p) /\ UNCHANGED outsideAssets
  <2>1. UNCHANGED <<tokens, skimming, shieldedTotal, assetTreasuryVars>>
    BY <1>3 DEF outsideAssets
  <2>2. CASE RegisterAsset(p)
    <3>1. /\ TableGrows /\ \E token \in Tokens : Lists(token)
          /\ assetFees' = MapSet(assetFees, nextAssetId, [t \in AssetFeeTypes |-> ZeroFee])
      BY <2>2, RegisterTable DEF TokenLedgerInv
    <3> QED
      BY <2>1, <3>1, ListingKeepsMoney
  <2>3. CASE SetAssetFeeConfig(p)
    <3>1. PICK id \in DOMAIN assets, input \in AssetFeeInputs :
            assetFees' = [assetFees EXCEPT ![id][input[1]] = input[2]]
      BY <2>3 DEF SetAssetFeeConfig
    <3>2. input[1] \in AssetFeeTypes /\ input[2] \in AssetFeeConfig
      BY AssetsAssumption
    <3>3. assetFees' \in [DOMAIN assets -> [AssetFeeTypes -> AssetFeeConfig]]
      BY <1>1, <3>1, <3>2
    <3>4. UNCHANGED assets
      BY <2>3 DEF SetAssetFeeConfig
    <3> QED
      BY <1>1, <2>1, <3>3, <3>4, MoneyKept
  <2>4. CASE ~RegisterAsset(p) /\ ~SetAssetFeeConfig(p)
    <3>1. TableGrows /\ DOMAIN assets' = DOMAIN assets
      BY <1>3, <2>4, AssetStepTable DEF TokenLedgerInv
    <3>2. UNCHANGED assetFees
      BY <1>3, <2>4 DEF AssetStep, SetAssetEnabled, DeprecateAsset, SetAssetLimits,
                        SetAssetFeeRecipient
    <3> QED
      BY <2>1, <3>1, <3>2, MoneyKeptByRecords
  <2> QED
    BY <2>2, <2>3, <2>4
<1>4. CASE AssetFeesStep(p) /\ UNCHANGED outsideTokens
  <2>1. UNCHANGED <<assetVars, sip10PoolVars>>
    BY <1>4 DEF outsideTokens
  <2>2. CASE WithdrawAssetFees(p)
    BY <2>1, <2>2, PayoutKeepsMoney
  <2>3. CASE FlipFeesFreeze(p) \/ FlipTreasuryFreeze(p)
    <3>1. UNCHANGED <<assetTreasuryVars, tokens, skimming>>
      BY <2>3 DEF FlipFeesFreeze, FlipTreasuryFreeze
    <3> QED
      BY <1>1, <2>1, <3>1, MoneyKept
  <2> QED
    BY <1>4, <2>2, <2>3 DEF AssetFeesStep
<1>5. CASE SetMaxFeeBps(p) /\ UNCHANGED <<beyondRegistry, sip10Vars>>
  BY <1>2, <1>5 DEF sip10Vars
<1>6. CASE SetOperationEnabled(p)
  BY <1>2, <1>6 DEF SetOperationEnabled, outsidePool
<1>7. CASE SetCircuitVersion(p)
  BY <1>2, <1>7 DEF SetCircuitVersion, outsidePool
<1>8. CASE SetAuthorizedPool(p)
  BY <1>2, <1>8 DEF SetAuthorizedPool, outsidePool
<1>9. CASE Sip10VerifierStep(p)
  BY <1>2, <1>9 DEF Sip10VerifierStep
<1>10. CASE LifecycleStep(p) /\ UNCHANGED <<beyondRegistry, sip10Vars>>
  BY <1>2, <1>10 DEF sip10Vars
<1> QED
  BY <1>3, <1>4, <1>5, <1>6, <1>7, <1>8, <1>9, <1>10 DEF ListingStep, Sip10IncidentStep

\* The native funds, whatever happens beside them.
LEMMA NativeFundsKept ==
  ASSUME FundsInv, UNCHANGED <<feeVars, stx, totalShieldedStx, protocolLimits>>
  PROVE  FundsInv'
BY DEF feeVars, feeConfigVars, treasuryVars, FundsInv, FeesTypeOK, TreasuryBacked, PoolSolvent,
       FlatFeesBounded, Limits

LEMMA TokenStaffFunds ==
  ASSUME FundsInv, NEW p \in Staff, ListingStep(p) \/ Sip10IncidentStep(p)
  PROVE  FundsInv'
<1>1. UNCHANGED <<registryVars, feeVars, stx>> => FundsInv'
  BY NativeFundsKept DEF registryVars, configVars, ledgerVars, flowVars
<1>2. UNCHANGED poolVars => FundsInv'
  BY <1>1 DEF poolVars
<1>3. CASE AssetStep(p) /\ UNCHANGED outsideAssets
  <2>1. UNCHANGED registryVars
    BY <1>3 DEF AssetStep, RegisterAsset, SetAssetEnabled, DeprecateAsset, SetAssetLimits,
                SetAssetFeeConfig, SetAssetFeeRecipient
  <2> QED
    BY <1>1, <1>3, <2>1 DEF outsideAssets
<1>4. CASE AssetFeesStep(p) /\ UNCHANGED outsideTokens
  BY <1>2, <1>4 DEF outsideTokens
<1>5. CASE SetMaxFeeBps(p) /\ UNCHANGED <<beyondRegistry, sip10Vars>>
  <2>1. TreasuryStep(p)
    BY <1>5 DEF TreasuryStep
  <2> QED
    BY <2>1, StaffFunds
<1>6. CASE SetOperationEnabled(p) \/ SetCircuitVersion(p) \/ SetAuthorizedPool(p)
  BY <1>2, <1>6 DEF SetOperationEnabled, SetCircuitVersion, SetAuthorizedPool, outsidePool
<1>7. CASE Sip10VerifierStep(p)
  BY <1>2, <1>7 DEF Sip10VerifierStep
<1>8. CASE LifecycleStep(p) /\ UNCHANGED <<beyondRegistry, sip10Vars>>
  <2>1. IncidentStep(p)
    BY <1>8 DEF IncidentStep
  <2> QED
    BY <2>1, StaffFunds
<1> QED
  BY <1>3, <1>4, <1>5, <1>6, <1>7, <1>8 DEF ListingStep, Sip10IncidentStep

\* Every fund of both pools, asset by asset, with the ledgers that say what is owed.
TokenFundsInv == TokenLedgerInv /\ FundsInv /\ TokenMoney

LEMMA TokenFundsStep ==
  TokenFundsInv /\ [TokenSystemNext]_bothPoolsVars => TokenFundsInv'
<1> SUFFICES ASSUME TokenFundsInv, [TokenSystemNext]_bothPoolsVars PROVE TokenFundsInv'
  OBVIOUS
<1>1. TokenLedgerInv'
  BY TokenLedgerStepInv DEF TokenFundsInv
<1>2. TokenLedgerInv /\ FundsInv /\ TokenMoney /\ protocolLimits \in Limits
      /\ skimming \subseteq Faulty
      /\ assetFees \in [DOMAIN assets -> [AssetFeeTypes -> AssetFeeConfig]]
  BY DEF TokenFundsInv, FundsInv, TokenMoney
<1>3. ASSUME UNCHANGED sip10Vars PROVE TokenMoney'
  BY <1>2, <1>3, MoneyKept DEF sip10Vars, assetVars, assetFeeVars, tokenVars, sip10PoolVars
<1>4. UNCHANGED poolVars => FundsInv'
  BY <1>2, NativeFundsKept DEF poolVars, registryVars, configVars, ledgerVars, flowVars
<1>5. FundsInv' /\ TokenMoney'
  <2>1. CASE SystemNext /\ UNCHANGED sip10Vars
    BY <1>2, <1>3, <2>1, FundsStep
  <2>2. CASE \E user \in Users : Sip10UserStep(user)
    <3>1. PICK user \in Users : Sip10UserStep(user)
      BY <2>2
    <3>2. TokenMoney'
      BY <1>2, <3>1, SipUserMoney
    <3>3. UNCHANGED <<feeVars, stx, totalShieldedStx, protocolLimits>>
      BY <3>1, SipFrame DEF flowVars, nonLedgerVars, configVars
    <3> QED
      BY <1>2, <3>2, <3>3, NativeFundsKept
  <2>3. CASE \E p \in Staff : ListingStep(p) \/ Sip10IncidentStep(p)
    BY <1>2, <2>3, TokenStaffMoney, TokenStaffFunds
  <2>4. CASE TokenStep
    <3>1. UNCHANGED poolVars /\ UNCHANGED <<assetVars, sip10PoolVars>>
      BY <2>4 DEF TokenStep, outsideTokens
    <3>2. ASSUME \E user \in Users : TokenTransfer(user) PROVE TokenMoney'
      <4>1. PICK user \in Users : TokenTransfer(user)
        BY <3>2
      <4>2. UNCHANGED <<assetVars, sip10PoolVars>>
        BY <3>1
      <4> QED
        BY <1>2, <4>1, <4>2, TransferKeepsMoney
    <3>3. ASSUME SetSkimBps PROVE TokenMoney'
      <4>1. PICK token \in Faulty :
              skimming' = IF token \in skimming THEN skimming \ {token} ELSE skimming \cup {token}
        BY <3>3 DEF SetSkimBps
      <4>2. skimming' \subseteq Faulty
        BY <1>2, <4>1
      <4>3. UNCHANGED <<tokens, assetTreasuryVars>>
        BY <3>3 DEF SetSkimBps
      <4>4. UNCHANGED <<assets, tokens, shieldedTotal, assetTreasuryVars>>
        BY <3>1, <4>3 DEF assetVars, sip10PoolVars
      <4>5. assetFees' = assetFees
        BY <3>1 DEF assetVars
      <4>6. assetFees' \in [DOMAIN assets -> [AssetFeeTypes -> AssetFeeConfig]]
        BY <1>2, <4>5
      <4> QED
        BY <1>2, <4>2, <4>4, <4>6, MoneyKept
    <3> QED
      BY <1>4, <2>4, <3>1, <3>2, <3>3 DEF TokenStep
  <2>5. CASE UNCHANGED bothPoolsVars
    BY <1>3, <1>4, <2>5 DEF bothPoolsVars
  <2> QED
    BY <2>1, <2>2, <2>3, <2>4, <2>5 DEF TokenSystemNext
<1> QED
  BY <1>1, <1>5 DEF TokenFundsInv

LEMMA TokenFundsStart == TokenSystemInit => TokenFundsInv
<1> SUFFICES ASSUME NEW registered \in SUBSET Tokens, Sip10Init(registered)
             PROVE  TokenFundsInv
  BY DEF TokenSystemInit
<1>1. TokenLedgerInv
  BY TokenLedgerStart DEF TokenSystemInit
<1>2. FundsInv
  BY FundsStart DEF Sip10Init
<1>3. AssetFeesInit /\ shieldedTotal = [id \in AssetIds |-> 0]
  BY DEF Sip10Init
<1>4. /\ DOMAIN assets \subseteq AssetIds /\ \A id \in DOMAIN assets : TokenOf(id) \in Tokens
  BY <1>1, ListedIds DEF TokenLedgerInv
<1>5. AssetBooks
  BY <1>3 DEF AssetFeesInit, AssetBooks, AssetFeeTypes
<1>6. /\ tokens \in TokenBalances /\ skimming \subseteq Faulty
      /\ \A t \in Tokens : tokens[t][Sip10Contract] >= 0 /\ tokens[t][Sip10FeesContract] = 0
  BY <1>3, SipPlaces, Sip10FeesAssumption DEF AssetFeesInit, TokenBalances
<1>7. TokensBacked
  BY <1>3, <1>4, <1>6 DEF TokensBacked
<1>8. TreasuriesHeld
  BY <1>3, <1>4, <1>6 DEF TreasuriesHeld, AssetFeesInit
<1>9. assetFees \in [DOMAIN assets -> [AssetFeeTypes -> AssetFeeConfig]]
  <2>1. PICK n : n = Cardinality(registered)
    OBVIOUS
  <2>2. /\ assetFees = [id \in 1..n |-> [t \in AssetFeeTypes |-> ZeroFee]]
        /\ DOMAIN assets = 1..n
    BY <2>1, ZenonT(60) DEF Sip10Init
  <2>3. [t \in AssetFeeTypes |-> ZeroFee] \in [AssetFeeTypes -> AssetFeeConfig]
    BY DEF ZeroFee, AssetFeeConfig
  <2>4. PICK row \in [AssetFeeTypes -> AssetFeeConfig] : row = [t \in AssetFeeTypes |-> ZeroFee]
    BY <2>3
  <2> QED
    BY <2>2, <2>4
<1>10. TokenMoney
  BY <1>5, <1>6, <1>7, <1>8, <1>9 DEF TokenMoney
<1> QED
  BY <1>1, <1>2, <1>10 DEF TokenFundsInv

\* Each pool holds what it owes of each asset, and each asset's treasury balances
\* and is held, with assets listed, priced, delisted and paid out in any order and
\* tokens that start and stop taking a cut of what they move.
THEOREM EveryFundAlwaysBacked == TokenSystemSpec => []EveryFundBacked
<1>1. TokenFundsInv => EveryFundBacked
  <2> SUFFICES ASSUME TokenFundsInv PROVE EveryFundBacked
    OBVIOUS
  <2>1. /\ AssetBooks /\ TokensBacked /\ TreasuriesHeld
        /\ PoolSolvent
    BY DEF TokenFundsInv, TokenMoney, FundsInv
  <2>2. \A id \in AssetIds : assetTreasury[id].balance >= 0
    BY <2>1 DEF AssetBooks
  <2>3. TokenTreasuriesBacked
    BY <2>1, <2>2 DEF TokenTreasuriesBacked, AssetBooks, TreasuriesHeld, KnownAsset, TokenOf
  <2> QED
    BY <2>1, <2>3 DEF EveryFundBacked
<1>2. TokenSystemSpec => []TokenFundsInv
  BY TokenFundsStart, TokenFundsStep, PTL DEF TokenSystemSpec
<1> QED
  BY <1>1, <1>2, PTL
=============================================================================
