------------------------------- MODULE Escrow -------------------------------
(***************************************************************************)
(* What the request vaults promise, with the requests, keepers, prices and  *)
(* callbacks taken away.  A key is opened once, its claim on the bank may   *)
(* be topped up and paid out in parts, and it is closed for good.  Every    *)
(* step concerns one key, and the bank's recorded balances follow the       *)
(* claim: no claim grows unless tokens were recorded, and no recorded       *)
(* tokens leave unless the claim falls by as much.  Recorded balances may   *)
(* grow by more than the claim: a StrictBank also records what others sent. *)
(***************************************************************************)
EXTENDS Totals

CONSTANTS Keys, Tokens

VARIABLES state,  \* of each key: not handed out yet, open, closed
          claims, \* what the bank owes each key in each token
          held    \* what the bank has recorded of each token

escrowVars == <<state, claims, held>>

EscrowTypeOK ==
  /\ state \in [Keys -> {"new", "open", "closed"}]
  /\ claims \in [Keys -> [Tokens -> Nat]]
  /\ held \in [Tokens -> Nat]

NoClaim == [t \in Tokens |-> 0]

EscrowInit ==
  /\ state = [k \in Keys |-> "new"]
  /\ claims = [k \in Keys |-> NoClaim]
  /\ held \in [Tokens -> Nat]

(* The books of a step that concerns k.                                     *)
Book(k) ==
  /\ claims' \in [Keys -> [Tokens -> Nat]]
  /\ held' \in [Tokens -> Nat]
  /\ \A j \in Keys \ {k} : claims'[j] = claims[j]
  /\ \A t \in Tokens : held'[t] - held[t] >= claims'[k][t] - claims[k][t]

Open(k) ==
  /\ state[k] = "new"
  /\ state' = [state EXCEPT ![k] = "open"]
  /\ Book(k)

(* A top-up, or a payment that leaves the key open.                         *)
Adjust(k) ==
  /\ state[k] = "open"
  /\ UNCHANGED state
  /\ Book(k)

Close(k) ==
  /\ state[k] = "open"
  /\ state' = [state EXCEPT ![k] = "closed"]
  /\ claims'[k] = NoClaim
  /\ Book(k)

EscrowNext == \E k \in Keys : Open(k) \/ Adjust(k) \/ Close(k)

EscrowSpec == EscrowInit /\ [][EscrowNext]_escrowVars

Row(t) == [k \in Keys |-> claims[k][t]]

(* The recorded balances cover all claims together, in every token.         *)
Backed == \A t \in Tokens : Total(Row(t)) <= held[t]

(* A key that is not open has no claim.                                     *)
OnlyOpenClaims == \A k \in Keys : state[k] # "open" => claims[k] = NoClaim
=============================================================================
