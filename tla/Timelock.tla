------------------------------- MODULE Timelock -------------------------------
(***************************************************************************)
(* The Timelock and scripts/updateRoles.ts, which drives it.  A change of  *)
(* a role or of a protected parameter is signalled, waits for the delay    *)
(* that was in force, and is then carried out or cancelled; the multisig   *)
(* revokes roles and sets the strict price feed mode at once.  The script  *)
(* sends one multicall for all the role changes it lists, which reverts as *)
(* a whole.                                                                *)
(***************************************************************************)
EXTENDS Naturals

CONSTANTS Accounts,         \* the accounts that may have a role
          ThisTimelock,     \* the Timelock itself, one of the accounts
          Roles,            \* the roles
          Parameters,       \* oracle signers, the fee receiver, price feeds and realtime feeds
          Values,           \* what they may be set to
          InitialMembers,   \* the roles granted when the Timelock takes over
          InitialDelay, MAX_TIMELOCK_DELAY,
          Changes,          \* the lists of role changes updateRoles is run with
          MaxTime           \* bound on the clock

ASSUME TimelockAssumption ==
    /\ ThisTimelock \in Accounts
    /\ InitialMembers \subseteq Accounts \X Roles
    /\ Changes \subseteq SUBSET (Accounts \X Roles)
    /\ MAX_TIMELOCK_DELAY \in Nat /\ InitialDelay \in 0..MAX_TIMELOCK_DELAY
    /\ MaxTime \in Nat

VARIABLES
    members,         \* RoleStore: the pairs of an account and a role it has
    parameters,      \* DataStore and OracleStore: the protected parameters
    strict,          \* DataStore: the strict price feed mode
    pendingActions,  \* action -> the time from which it may be carried out, 0 when not signalled
    timelockDelay,
    now,             \* Chain.currentTimestamp()
    signals,         \* history: action -> when it was last signalled, under which delay, and whether that is still open
    receipts         \* the grants each transaction signalled, which cancelGrantRole looks up
timelockVars == <<members, parameters, strict, pendingActions, timelockDelay, now, signals, receipts>>

\* An action key hashes the kind of the action and its arguments.
grantRoleActionKey(p) == [kind |-> "grantRole", args |-> p]
revokeRoleActionKey(p) == [kind |-> "revokeRole", args |-> p]
setActionKey(n, v) == [kind |-> "set", args |-> <<n, v>>]
Grants == {grantRoleActionKey(p) : p \in Accounts \X Roles}
ActionKeys == Grants \union {revokeRoleActionKey(p) : p \in Accounts \X Roles}
                     \union {setActionKey(n, v) : n \in Parameters, v \in Values}

Unset == "unset"
NeverSignalled == [at |-> 0, delay |-> 0, open |-> FALSE]

TimelockInit ==
    /\ members = InitialMembers
    /\ parameters = [n \in Parameters |-> Unset]
    /\ strict = FALSE
    /\ pendingActions = [k \in ActionKeys |-> 0]
    /\ timelockDelay = InitialDelay
    /\ now = 1
    /\ signals = [k \in ActionKeys |-> NeverSignalled]
    /\ receipts = {}

-----------------------------------------------------------------------------
\* A caller with the role, and the Timelock's own rights in the RoleStore and the other stores.
Caller(role) == \E a \in Accounts \ {ThisTimelock} : <<a, role>> \in members
TimelockIs(role) == <<ThisTimelock, role>> \in members

\* RoleStore._revokeRole reverts when it takes the last member of these two.
Vacant(role, left) == \A a \in Accounts : <<a, role>> \notin left
RevokeAccepted(S) ==
    \A p \in S : p[2] \in {"ROLE_ADMIN", "TIMELOCK_MULTISIG"} => ~Vacant(p[2], members \ S)

\* _signalPendingAction, _validateAction and _clearAction, for every action of a multicall.
SignalAccepted(A) == \A k \in A : pendingActions[k] = 0
Signalled(A) == [k \in ActionKeys |-> IF k \in A THEN now + timelockDelay ELSE pendingActions[k]]
Validated(A) == \A k \in A : pendingActions[k] # 0 /\ pendingActions[k] <= now
\* Fault: an action that was carried out stays signalled.
NothingCleared(A) == pendingActions

Cleared(A) == [k \in ActionKeys |-> IF k \in A THEN 0 ELSE pendingActions[k]]

Opened(A) == [k \in ActionKeys |-> IF k \in A THEN [at |-> now, delay |-> timelockDelay, open |-> TRUE]
                                              ELSE signals[k]]
Closed(A) == [k \in ActionKeys |-> IF k \in A THEN [signals[k] EXCEPT !.open = FALSE] ELSE signals[k]]

SignalAll(A) ==
    /\ Caller("TIMELOCK_ADMIN")
    /\ SignalAccepted(A)
    /\ pendingActions' = Signalled(A)
    /\ signals' = Opened(A)
    /\ receipts' = receipts \union ({A \intersect Grants} \ {{}})
    /\ UNCHANGED <<members, parameters, strict, timelockDelay, now>>

CarryOut(A) ==
    /\ Caller("TIMELOCK_ADMIN")
    /\ Validated(A)
    /\ pendingActions' = Cleared(A)
    /\ signals' = Closed(A)
    /\ UNCHANGED <<strict, timelockDelay, now, receipts>>

ClearAll(A) ==
    /\ Caller("TIMELOCK_ADMIN")
    /\ \A k \in A : pendingActions[k] # 0
    /\ pendingActions' = Cleared(A)
    /\ signals' = Closed(A)
    /\ UNCHANGED <<members, parameters, strict, timelockDelay, now, receipts>>

-----------------------------------------------------------------------------
\* The methods of updateRoles, for the role changes S it lists.
signalGrantRole(S) == SignalAll({grantRoleActionKey(p) : p \in S})

grantRoleAfterSignal(S) ==
    /\ TimelockIs("ROLE_ADMIN")
    /\ CarryOut({grantRoleActionKey(p) : p \in S})
    /\ members' = members \union S
    /\ UNCHANGED parameters

\* Fault: the revocation is signalled alone.
signalRevokeRoleOnly(S) == SignalAll({revokeRoleActionKey(p) : p \in S})

\* Together with each revocation its grant is signalled, in case it needs to be reverted.
signalRevokeRole(S) == SignalAll({revokeRoleActionKey(p) : p \in S} \union {grantRoleActionKey(p) : p \in S})

revokeRoleAfterSignal(S) ==
    /\ TimelockIs("ROLE_ADMIN")
    /\ CarryOut({revokeRoleActionKey(p) : p \in S})
    /\ RevokeAccepted(S)
    /\ members' = members \ S
    /\ UNCHANGED parameters

\* The grants an earlier transaction signalled and that are pending now.
cancelGrantRole(tx) ==
    LET keys == {k \in tx : pendingActions[k] # 0}
    IN keys # {} /\ ClearAll(keys)

\* The single calls: the other signals, cancelAction, the immediate ones of the multisig, and the delay.
SignalSet(n, v) == SignalAll({setActionKey(n, v)})

SetAfterSignal(n, v) ==
    /\ TimelockIs("CONTROLLER")
    /\ CarryOut({setActionKey(n, v)})
    /\ parameters' = [parameters EXCEPT ![n] = v]
    /\ UNCHANGED members

cancelAction(k) == ClearAll({k})

revokeRole(p) ==
    /\ Caller("TIMELOCK_MULTISIG") /\ TimelockIs("ROLE_ADMIN")
    /\ RevokeAccepted({p})
    /\ members' = members \ {p}
    /\ UNCHANGED <<parameters, strict, pendingActions, timelockDelay, now, signals, receipts>>

setInStrictPriceFeedMode(v) ==
    /\ Caller("TIMELOCK_MULTISIG") /\ TimelockIs("CONTROLLER")
    /\ strict' = v
    /\ UNCHANGED <<members, parameters, pendingActions, timelockDelay, now, signals, receipts>>

increaseTimelockDelay(d) ==
    /\ Caller("TIMELOCK_ADMIN")
    /\ timelockDelay < d /\ d <= MAX_TIMELOCK_DELAY
    /\ timelockDelay' = d
    /\ UNCHANGED <<members, parameters, strict, pendingActions, now, signals, receipts>>

Wait ==
    /\ now < MaxTime
    /\ now' = now + 1
    /\ UNCHANGED <<members, parameters, strict, pendingActions, timelockDelay, signals, receipts>>

\* updateRoles throws when it has nothing to send.
TimelockNext ==
    \/ \E S \in Changes \ {{}} : \/ signalGrantRole(S) \/ grantRoleAfterSignal(S)
                         \/ signalRevokeRole(S) \/ revokeRoleAfterSignal(S)
    \/ \E tx \in receipts : cancelGrantRole(tx)
    \/ \E n \in Parameters, v \in Values : SignalSet(n, v) \/ SetAfterSignal(n, v)
    \/ \E k \in ActionKeys : cancelAction(k)
    \/ \E p \in members : revokeRole(p)
    \/ \E v \in BOOLEAN : setInStrictPriceFeedMode(v)
    \/ \E d \in 1..MAX_TIMELOCK_DELAY : increaseTimelockDelay(d)
    \/ Wait

TimelockSpec == TimelockInit /\ [][TimelockNext]_timelockVars

-----------------------------------------------------------------------------
\* What a step gives effect to: the roles it grants and the parameters it changes.
TakenEffect ==
    {grantRoleActionKey(p) : p \in members' \ members}
    \union {setActionKey(n, parameters'[n]) : n \in {x \in Parameters : parameters'[x] # parameters[x]}}

\* The signal of an action is open and as old as the delay that was in force when it was given.
Ripe(k) == signals[k].open /\ now >= signals[k].at + signals[k].delay

\* No role is granted and no protected parameter changed unless it was signalled the delay of that time ago,
\* not cancelled and not used up by an earlier execution since.
ChangedOnlyAfterDelay ==
    [][\A k \in TakenEffect : Ripe(k) /\ ~signals'[k].open]_timelockVars

\* While a revocation is pending, the grant that reverts it was signalled with it or later, so that the
\* revert needs no longer wait than the revocation did: updateRoles gives the two signals together, and
\* neither when an older signal of one of them is in the way.
RevocationRevertible ==
    \A p \in Accounts \X Roles :
        pendingActions[revokeRoleActionKey(p)] # 0 => signals[grantRoleActionKey(p)].at >= signals[revokeRoleActionKey(p)].at

=============================================================================
