-------------------------------- MODULE Node --------------------------------
(***************************************************************************)
(* The RPC node as the SDK sees it, for the account of one signer: which   *)
(* transaction occupies each nonce and how many of them are mined.  The    *)
(* node is outside the repository; this is what the code under src/ relies *)
(* on (eth_getTransactionCount, eth_sendRawTransaction, receipts) and the  *)
(* error texts it matches.  A transaction is named after its sender.       *)
(***************************************************************************)
EXTENDS Naturals, FiniteSets

CONSTANTS
  Senders,    \* who may send a transaction from this account through the SDK
  Foreign,    \* a transaction sent from the account by some other wallet
  Vacant,     \* no transaction has this nonce
  MaxNonce,   \* bound: nonces are 0 .. MaxNonce - 1
  MaxForeign  \* bound: transactions of other wallets

ASSUME NodeAssumption ==
  /\ MaxNonce \in Nat
  /\ MaxForeign \in Nat
  /\ Foreign \notin Senders
  /\ Vacant \notin Senders
  /\ Foreign # Vacant

VARIABLES
  slot,       \* slot[n]: the transaction the node has accepted with nonce n
  mined       \* nonces below this one are in a block

nodeVars == <<slot, mined>>

Slots == 0 .. MaxNonce - 1

NodeTypeOK ==
  /\ slot \in [Slots -> Senders \cup {Foreign, Vacant}]
  /\ mined \in 0 .. MaxNonce

NodeInit ==
  /\ slot = [n \in Slots |-> Vacant]
  /\ mined = 0

Occupied(n) == n \in Slots /\ slot[n] # Vacant

(* p is the account's pending count: the first nonce no transaction has.   *)
IsPendingCount(p) ==
  /\ p \in mined .. MaxNonce
  /\ \A n \in mined .. p - 1 : Occupied(n)
  /\ ~Occupied(p)

(* A load-balanced replica that lags behind reports an older count.        *)
IsStaleCount(p) ==
  /\ p \in 0 .. MaxNonce
  /\ \A n \in mined .. p - 1 : Occupied(n)

(* How the node may answer s submitting a transaction with nonce n.  A     *)
(* transaction at an occupied nonce is refused unless its fees exceed the  *)
(* old one's by the node's margin; the fees are re-estimated by each build *)
(* so both answers are possible.                                           *)
Verdicts(s, n) ==
  IF n < mined THEN {"nonce_too_low"}
  ELSE IF ~Occupied(n) THEN {"accepted"}
  ELSE {"underpriced", "replaced"} \cup
       (IF slot[n] = s THEN {"already_known"} ELSE {})

TakesIn(verdict) == verdict \in {"accepted", "replaced"}

Include(s, n) == slot' = [slot EXCEPT ![n] = s] /\ UNCHANGED mined

Mined(s, n) == n < mined /\ slot[n] = s

(* Environment steps: a block is mined, another wallet uses the account.   *)
Mine ==
  /\ Occupied(mined)
  /\ mined' = mined + 1
  /\ UNCHANGED slot

ForeignSend ==
  /\ Cardinality({n \in Slots : slot[n] = Foreign}) < MaxForeign
  /\ \E n \in Slots : IsPendingCount(n) /\ Include(Foreign, n)
=============================================================================
