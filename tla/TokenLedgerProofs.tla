--------------------------- MODULE TokenLedgerProofs ---------------------------
(***************************************************************************)
(* What the ledger's promise comes to, for any sessions and tokens.        *)
(* Whatever implements TokenLedger or uses it as the server has it too:    *)
(* Sessions through ImplementsLedger, Browser through KeepsLedger.         *)
(***************************************************************************)
EXTENDS TokenLedger, TLAPS

\* Spendable tokens have been issued, and none is of a closed session.
SpendableIsOpen ==
  \A t \in spendable : t \in DOMAIN owner /\ owner[t] \notin closed

LEMMA SpendableStep ==
  ASSUME SpendableIsOpen, [LedgerNext]_ledgerVars
  PROVE  SpendableIsOpen'
<1>1. ASSUME NEW s \in Session, NEW t \in Token, Grant(s, t)
      PROVE  SpendableIsOpen'
  BY <1>1 DEF SpendableIsOpen, Grant, Issued
<1>2. ASSUME NEW t \in Token, NEW t2 \in Token, Rotate(t, t2)
      PROVE  SpendableIsOpen'
  BY <1>2 DEF SpendableIsOpen, Rotate, Issued
<1>3. ASSUME NEW S \in SUBSET Session, Close(S)
      PROVE  SpendableIsOpen'
  BY <1>3 DEF SpendableIsOpen, Close
<1>4. ASSUME NEW T \in SUBSET Token, Lapse(T)
      PROVE  SpendableIsOpen'
  BY <1>4 DEF SpendableIsOpen, Lapse
<1>5. CASE UNCHANGED ledgerVars
  BY <1>5 DEF SpendableIsOpen, ledgerVars
<1> QED  BY <1>1, <1>2, <1>3, <1>4, <1>5 DEF LedgerNext

(* A token of a session that was closed is spendable never again, even one *)
(* that a refresh the closing overtook still inserts (refresh_tokens).     *)
THEOREM ClosedIsOver == LedgerSpec => []SpendableIsOpen
<1>1. LedgerInit => SpendableIsOpen
  BY DEF LedgerInit, SpendableIsOpen
<1> QED  BY <1>1, SpendableStep, PTL DEF LedgerSpec

\* What every step of the ledger leaves as it is.
NothingReturns ==
  /\ closed \subseteq closed'
  /\ \A t \in DOMAIN owner :
       /\ t \in DOMAIN owner' /\ owner'[t] = owner[t]
       /\ t \in spendable' => t \in spendable

LEMMA LedgerMoves ==
  ASSUME [LedgerNext]_ledgerVars
  PROVE  NothingReturns
<1> USE DEF NothingReturns
<1>1. ASSUME NEW s \in Session, NEW t \in Token, Grant(s, t)
      PROVE  NothingReturns
  BY <1>1 DEF Grant, Issued
<1>2. ASSUME NEW t \in Token, NEW t2 \in Token, Rotate(t, t2)
      PROVE  NothingReturns
  BY <1>2 DEF Rotate, Issued
<1>3. ASSUME NEW S \in SUBSET Session, Close(S)
      PROVE  NothingReturns
  BY <1>3 DEF Close
<1>4. ASSUME NEW T \in SUBSET Token, Lapse(T)
      PROVE  NothingReturns
  BY <1>4 DEF Lapse
<1>5. CASE UNCHANGED ledgerVars
  BY <1>5 DEF ledgerVars
<1> QED  BY <1>1, <1>2, <1>3, <1>4, <1>5 DEF LedgerNext

(* A token that was issued and is not spendable never becomes so again; it *)
(* stays with its session, and a closed session stays closed.              *)
THEOREM SpentIsOver == LedgerSpec => [][NothingReturns]_ledgerVars
<1>1. [LedgerNext]_ledgerVars => [NothingReturns]_ledgerVars
  BY LedgerMoves
<1> QED  BY <1>1, PTL DEF LedgerSpec
===============================================================================
