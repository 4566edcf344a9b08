--------------------------- MODULE ShieldedLedger ---------------------------
(***************************************************************************)
(* What the shielded pool promises its users, with no trees, proofs, roots *)
(* or contracts: a set of notes that are each created once and consumed    *)
(* once, whose value enters by deposits, is only reshaped in between and   *)
(* leaves by payouts.                                                      *)
(***************************************************************************)
EXTENDS Integers, FiniteSets, FiniteSetsExt

CONSTANTS
  Notes,       \* every note that can exist
  Value        \* note |-> its value (a Nat), fixed when the note is created

VARIABLES
  unspent,     \* notes that exist and can still be consumed
  spent,       \* notes that have been consumed
  total        \* the value the pool owes

ledgerStateVars == <<unspent, spent, total>>

ValueOf(ns) == MapThenSumSet(LAMBDA n : Value[n], ns)
Fresh == Notes \ (unspent \cup spent)

LedgerInit == unspent = {} /\ spent = {} /\ total = 0

\* Value enters as one new note.
Deposit ==
  \E n \in Fresh :
    /\ unspent' = unspent \cup {n}
    /\ total' = total + Value[n]
    /\ UNCHANGED spent

\* A transfer, a split or a merge: one or two notes for one or two new ones of
\* the same value.
Reshape ==
  \E ins \in SUBSET unspent, outs \in SUBSET Fresh :
    /\ Cardinality(ins) \in 1..2 /\ Cardinality(outs) \in 1..2
    /\ ValueOf(ins) = ValueOf(outs)
    /\ unspent' = (unspent \ ins) \cup outs
    /\ spent' = spent \cup ins
    /\ UNCHANGED total

\* Value leaves by consuming one note whole.
Payout ==
  \E n \in unspent :
    /\ unspent' = unspent \ {n}
    /\ spent' = spent \cup {n}
    /\ total' = total - Value[n]

LedgerNext == Deposit \/ Reshape \/ Payout

LedgerSpec == LedgerInit /\ [][LedgerNext]_ledgerStateVars
=============================================================================
