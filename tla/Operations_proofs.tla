---------------------------- MODULE Operations_proofs ----------------------------
(***************************************************************************)
(* The scripts that operate the exchange.  For every set of accounts,      *)
(* roles, parameters and delays: what the Timelock changes was signalled   *)
(* the delay of that time before.  For every set of distributions,         *)
(* operators and recipients, and every batch size: who is paid when        *)
(* incentives are sent.  For every set of networks, and any number of      *)
(* stops and releases: what a run of the deployment leaves behind, and in  *)
(* which order the markets are configured.                                 *)
(***************************************************************************)
EXTENDS Configuration, Deployment, Timelock, Distribution, WellFoundedInduction, TLAPS

Pairs == Accounts \X Roles

\* The parts of the state the argument is about have their types; the clock has started.
TimelockTypeOK ==
    /\ pendingActions \in [ActionKeys -> Nat]
    /\ signals \in [ActionKeys -> [at : Nat, delay : Nat, open : BOOLEAN]]
    /\ timelockDelay \in Nat
    /\ now \in Nat /\ now > 0
    /\ receipts \subseteq SUBSET ActionKeys
    /\ members \subseteq Pairs
    /\ DOMAIN parameters = Parameters

\* What pendingActions holds is the signal that is open and the delay it was given under.
PendingIsOpenSignal ==
    \A k \in ActionKeys : pendingActions[k] # 0 =>
        /\ signals[k].open
        /\ pendingActions[k] = signals[k].at + signals[k].delay

\* No signal was given in the future.
SignalsInThePast == \A k \in ActionKeys : signals[k].at <= now

TimelockInv == TimelockTypeOK /\ PendingIsOpenSignal /\ SignalsInThePast /\ RevocationRevertible

LEMMA GrantKeys == \A p \in Pairs : grantRoleActionKey(p) \in ActionKeys
BY DEF Pairs, ActionKeys, Grants

LEMMA RevokeKeys == \A p \in Pairs : revokeRoleActionKey(p) \in ActionKeys
BY DEF Pairs, ActionKeys

LEMMA SetKeys == \A n \in Parameters, v \in Values : setActionKey(n, v) \in ActionKeys
BY DEF ActionKeys

\* A grant, a revocation and the setting of a parameter never share a key.
LEMMA KindsDiffer ==
    /\ \A p, q : grantRoleActionKey(p) # revokeRoleActionKey(q)
    /\ \A p, n, v : grantRoleActionKey(p) # setActionKey(n, v)
    /\ \A p, n, v : revokeRoleActionKey(p) # setActionKey(n, v)
    /\ \A p, q : revokeRoleActionKey(p) = revokeRoleActionKey(q) => p = q
BY DEF grantRoleActionKey, revokeRoleActionKey, setActionKey

\* Signalling keeps the invariant when each revocation comes with its grant.
LEMMA SignalKeepsInv ==
    ASSUME TimelockInv, NEW A \in SUBSET ActionKeys, SignalAll(A),
           \A p \in Pairs : revokeRoleActionKey(p) \in A => grantRoleActionKey(p) \in A
    PROVE  TimelockInv'
<1>1. TimelockTypeOK'
  <2>1. pendingActions' \in [ActionKeys -> Nat]
    BY DEF TimelockInv, TimelockTypeOK, SignalAll, Signalled
  <2>2. signals' \in [ActionKeys -> [at : Nat, delay : Nat, open : BOOLEAN]]
    BY DEF TimelockInv, TimelockTypeOK, SignalAll, Opened
  <2>3. receipts' \subseteq SUBSET ActionKeys
    BY DEF TimelockInv, TimelockTypeOK, SignalAll
  <2> QED BY <2>1, <2>2, <2>3 DEF TimelockInv, TimelockTypeOK, SignalAll
<1>2. PendingIsOpenSignal'
  <2> SUFFICES ASSUME NEW k \in ActionKeys, pendingActions'[k] # 0
               PROVE  signals'[k].open /\ pendingActions'[k] = signals'[k].at + signals'[k].delay
    BY DEF PendingIsOpenSignal
  <2>1. CASE k \in A
    BY <2>1 DEF SignalAll, Signalled, Opened
  <2>2. CASE k \notin A
    BY <2>2 DEF TimelockInv, PendingIsOpenSignal, SignalAll, Signalled, Opened
  <2> QED BY <2>1, <2>2
<1>3. SignalsInThePast'
  BY DEF TimelockInv, TimelockTypeOK, SignalsInThePast, SignalAll, Opened
<1>4. RevocationRevertible'
  <2> SUFFICES ASSUME NEW p \in Pairs, pendingActions'[revokeRoleActionKey(p)] # 0
               PROVE  signals'[grantRoleActionKey(p)].at >= signals'[revokeRoleActionKey(p)].at
    BY DEF RevocationRevertible, Pairs
  <2> DEFINE g == grantRoleActionKey(p)
             r == revokeRoleActionKey(p)
  <2>1. g \in ActionKeys /\ r \in ActionKeys
    BY GrantKeys, RevokeKeys
  <2>2. signals[g].at \in Nat /\ signals[r].at \in Nat /\ now \in Nat /\ signals[g].at <= now
    BY <2>1 DEF TimelockInv, TimelockTypeOK, SignalsInThePast
  <2> HIDE DEF g, r
  <2>3. CASE r \in A
    <3>1. g \in A
      BY <2>3 DEF g, r
    <3> QED BY <2>1, <2>2, <2>3, <3>1 DEF SignalAll, Opened, g, r
  <2>4. CASE r \notin A
    <3>1. pendingActions[r] # 0
      BY <2>1, <2>4 DEF SignalAll, Signalled, r
    <3>2. signals[g].at >= signals[r].at
      BY <3>1 DEF TimelockInv, RevocationRevertible, Pairs, g, r
    <3>3. signals'[r].at = signals[r].at
      BY <2>1, <2>4 DEF SignalAll, Opened
    <3>4. signals'[g].at = IF g \in A THEN now ELSE signals[g].at
      BY <2>1 DEF SignalAll, Opened
    <3> QED BY <2>2, <3>2, <3>3, <3>4 DEF g, r
  <2> QED BY <2>3, <2>4
<1> QED BY <1>1, <1>2, <1>3, <1>4 DEF TimelockInv

\* So does clearing signals, carried out or cancelled.
LEMMA ClearingKeepsInv ==
    ASSUME TimelockInv, NEW A \in SUBSET ActionKeys,
           pendingActions' = Cleared(A), signals' = Closed(A),
           UNCHANGED <<timelockDelay, now, receipts>>,
           members' \subseteq Pairs, DOMAIN parameters' = Parameters
    PROVE  TimelockInv'
<1>1. \A k \in ActionKeys : /\ pendingActions'[k] = IF k \in A THEN 0 ELSE pendingActions[k]
                            /\ signals'[k] = IF k \in A THEN [signals[k] EXCEPT !.open = FALSE] ELSE signals[k]
                            /\ signals'[k].at = signals[k].at
  BY DEF Cleared, Closed, TimelockInv, TimelockTypeOK
<1>2. TimelockTypeOK'
  <2>1. pendingActions' \in [ActionKeys -> Nat]
    BY DEF TimelockInv, TimelockTypeOK, Cleared
  <2>2. signals' \in [ActionKeys -> [at : Nat, delay : Nat, open : BOOLEAN]]
    <3> DEFINE Signal == [at : Nat, delay : Nat, open : BOOLEAN]
    <3>1. signals \in [ActionKeys -> Signal]
      BY DEF TimelockInv, TimelockTypeOK
    <3>2. \A x \in Signal : [x EXCEPT !.open = FALSE] \in Signal
      OBVIOUS
    <3> HIDE DEF Signal
    <3>3. signals' \in [ActionKeys -> Signal]
      BY <3>1, <3>2 DEF Closed
    <3> QED BY <3>3 DEF Signal
  <2> QED BY <2>1, <2>2 DEF TimelockInv, TimelockTypeOK
<1>3. PendingIsOpenSignal'
  BY <1>1 DEF TimelockInv, PendingIsOpenSignal
<1>4. SignalsInThePast'
  BY <1>1 DEF TimelockInv, SignalsInThePast
<1>5. RevocationRevertible'
  BY <1>1, GrantKeys, RevokeKeys DEF TimelockInv, RevocationRevertible, Pairs
<1> QED BY <1>2, <1>3, <1>4, <1>5 DEF TimelockInv

\* A step that leaves the signals alone and lets the clock run on or stand still.
LEMMA OtherStepsKeepInv ==
    ASSUME TimelockInv, UNCHANGED <<pendingActions, signals, receipts, parameters>>,
           members' \subseteq Pairs, timelockDelay' \in Nat, now' \in Nat, now' >= now
    PROVE  TimelockInv'
<1>1. TimelockTypeOK'
  BY DEF TimelockInv, TimelockTypeOK
<1>2. PendingIsOpenSignal' /\ RevocationRevertible'
  BY DEF TimelockInv, PendingIsOpenSignal, RevocationRevertible
<1>3. SignalsInThePast'
  BY DEF TimelockInv, TimelockTypeOK, SignalsInThePast
<1> QED BY <1>1, <1>2, <1>3 DEF TimelockInv

-----------------------------------------------------------------------------
\* Every action keeps the invariant.
THEOREM TimelockInvInductive ==
    ASSUME TimelockInv, [TimelockNext]_timelockVars
    PROVE  TimelockInv'
<1>1. ASSUME NEW S \in Changes, signalGrantRole(S)
      PROVE  TimelockInv'
  <2> DEFINE A == {grantRoleActionKey(p) : p \in S}
  <2>1. A \in SUBSET ActionKeys
    BY GrantKeys, TimelockAssumption DEF Pairs
  <2>2. \A p \in Pairs : revokeRoleActionKey(p) \notin A
    BY KindsDiffer
  <2>3. SignalAll(A)
    BY <1>1 DEF signalGrantRole
  <2> HIDE DEF A
  <2> QED BY <2>1, <2>2, <2>3, SignalKeepsInv
<1>2. ASSUME NEW S \in Changes, grantRoleAfterSignal(S)
      PROVE  TimelockInv'
  <2> DEFINE A == {grantRoleActionKey(p) : p \in S}
  <2>1. A \in SUBSET ActionKeys
    BY GrantKeys, TimelockAssumption DEF Pairs
  <2>2. members' \subseteq Pairs
    BY <1>2, TimelockAssumption DEF grantRoleAfterSignal, TimelockInv, TimelockTypeOK, Pairs
  <2>3. CarryOut(A) /\ UNCHANGED parameters
    BY <1>2 DEF grantRoleAfterSignal
  <2> HIDE DEF A
  <2> QED BY <2>1, <2>2, <2>3, ClearingKeepsInv DEF CarryOut, TimelockInv, TimelockTypeOK
<1>3. ASSUME NEW S \in Changes, signalRevokeRole(S)
      PROVE  TimelockInv'
  <2> DEFINE A == {revokeRoleActionKey(p) : p \in S} \union {grantRoleActionKey(p) : p \in S}
  <2>1. A \in SUBSET ActionKeys
    BY GrantKeys, RevokeKeys, TimelockAssumption DEF Pairs
  <2>2. ASSUME NEW p \in Pairs, revokeRoleActionKey(p) \in A
        PROVE  grantRoleActionKey(p) \in A
    <3>1. p \in S
      BY <2>2, KindsDiffer
    <3> QED BY <3>1
  <2>3. SignalAll(A)
    BY <1>3 DEF signalRevokeRole
  <2> HIDE DEF A
  <2> QED BY <2>1, <2>2, <2>3, SignalKeepsInv
<1>4. ASSUME NEW S \in Changes, revokeRoleAfterSignal(S)
      PROVE  TimelockInv'
  <2> DEFINE A == {revokeRoleActionKey(p) : p \in S}
  <2>1. A \in SUBSET ActionKeys
    BY RevokeKeys, TimelockAssumption DEF Pairs
  <2>2. members' \subseteq Pairs
    BY <1>4 DEF revokeRoleAfterSignal, TimelockInv, TimelockTypeOK
  <2>3. CarryOut(A) /\ UNCHANGED parameters
    BY <1>4 DEF revokeRoleAfterSignal
  <2> HIDE DEF A
  <2> QED BY <2>1, <2>2, <2>3, ClearingKeepsInv DEF CarryOut, TimelockInv, TimelockTypeOK
<1>5. ASSUME NEW tx \in receipts, cancelGrantRole(tx)
      PROVE  TimelockInv'
  <2> DEFINE A == {k \in tx : pendingActions[k] # 0}
  <2>1. A \in SUBSET ActionKeys
    BY DEF TimelockInv, TimelockTypeOK
  <2>2. ClearAll(A)
    BY <1>5 DEF cancelGrantRole
  <2> HIDE DEF A
  <2> QED BY <2>1, <2>2, ClearingKeepsInv DEF ClearAll, TimelockInv, TimelockTypeOK
<1>6. ASSUME NEW n \in Parameters, NEW v \in Values, SignalSet(n, v)
      PROVE  TimelockInv'
  <2>1. {setActionKey(n, v)} \in SUBSET ActionKeys
    BY SetKeys
  <2>2. \A p \in Pairs : revokeRoleActionKey(p) \notin {setActionKey(n, v)}
    BY KindsDiffer
  <2>3. SignalAll({setActionKey(n, v)})
    BY <1>6 DEF SignalSet
  <2> QED BY <2>1, <2>2, <2>3, SignalKeepsInv
<1>7. ASSUME NEW n \in Parameters, NEW v \in Values, SetAfterSignal(n, v)
      PROVE  TimelockInv'
  <2>1. {setActionKey(n, v)} \in SUBSET ActionKeys
    BY SetKeys
  <2>2. CarryOut({setActionKey(n, v)}) /\ UNCHANGED members
    BY <1>7 DEF SetAfterSignal
  <2>3. DOMAIN parameters' = Parameters
    BY <1>7 DEF SetAfterSignal, TimelockInv, TimelockTypeOK
  <2> QED BY <2>1, <2>2, <2>3, ClearingKeepsInv DEF CarryOut, TimelockInv, TimelockTypeOK
<1>8. ASSUME NEW k \in ActionKeys, cancelAction(k)
      PROVE  TimelockInv'
  <2>1. ClearAll({k})
    BY <1>8 DEF cancelAction
  <2> QED BY <2>1, ClearingKeepsInv DEF ClearAll, TimelockInv, TimelockTypeOK
<1>9. ASSUME NEW p \in members, revokeRole(p)
      PROVE  TimelockInv'
  BY <1>9, OtherStepsKeepInv DEF revokeRole, TimelockInv, TimelockTypeOK
<1>10. ASSUME NEW v \in BOOLEAN, setInStrictPriceFeedMode(v)
       PROVE  TimelockInv'
  BY <1>10, OtherStepsKeepInv DEF setInStrictPriceFeedMode, TimelockInv, TimelockTypeOK
<1>11. ASSUME NEW d \in 1..MAX_TIMELOCK_DELAY, increaseTimelockDelay(d)
       PROVE  TimelockInv'
  BY <1>11, OtherStepsKeepInv, TimelockAssumption DEF increaseTimelockDelay, TimelockInv, TimelockTypeOK
<1>12. CASE Wait
  BY <1>12, OtherStepsKeepInv DEF Wait, TimelockInv, TimelockTypeOK
<1>13. CASE UNCHANGED timelockVars
  BY <1>13, OtherStepsKeepInv DEF timelockVars, TimelockInv, TimelockTypeOK
<1> QED
  BY <1>1, <1>2, <1>3, <1>4, <1>5, <1>6, <1>7, <1>8, <1>9, <1>10, <1>11, <1>12, <1>13 DEF TimelockNext

\* The invariant holds of every behaviour.
THEOREM TimelockInvariant == TimelockSpec => []TimelockInv
<1>1. TimelockInit => TimelockInv
  <2> SUFFICES ASSUME TimelockInit PROVE TimelockInv
    OBVIOUS
  <2>1. TimelockTypeOK
    BY TimelockAssumption DEF TimelockInit, TimelockTypeOK, NeverSignalled, Pairs
  <2>2. PendingIsOpenSignal /\ SignalsInThePast
    BY DEF TimelockInit, PendingIsOpenSignal, SignalsInThePast, NeverSignalled
  <2>3. RevocationRevertible
    BY RevokeKeys DEF TimelockInit, RevocationRevertible, Pairs
  <2> QED BY <2>1, <2>2, <2>3 DEF TimelockInv
<1>2. TimelockInv /\ [TimelockNext]_timelockVars => TimelockInv'
  BY TimelockInvInductive
<1> QED BY <1>1, <1>2, PTL DEF TimelockSpec

\* updateRoles never leaves a revocation pending without the signal that reverts it, whatever lists of role
\* changes it is run with and whatever the delays.
THEOREM TimelockRevocationRevertible == TimelockSpec => []RevocationRevertible
<1>1. TimelockInv => RevocationRevertible
  BY DEF TimelockInv
<1> QED BY <1>1, TimelockInvariant, PTL

-----------------------------------------------------------------------------
\* What a multicall carries out was ripe, and its signals are closed afterwards.
LEMMA CarriedOutWasRipe ==
    ASSUME TimelockInv, NEW A \in SUBSET ActionKeys, CarryOut(A), NEW k \in A
    PROVE  Ripe(k) /\ ~signals'[k].open
<1>1. pendingActions[k] # 0 /\ pendingActions[k] <= now
  BY DEF CarryOut, Validated
<1>2. Ripe(k)
  BY <1>1 DEF TimelockInv, PendingIsOpenSignal, Ripe
<1>3. signals[k] \in [at : Nat, delay : Nat, open : BOOLEAN]
  BY DEF TimelockInv, TimelockTypeOK
<1>4. signals'[k] = [signals[k] EXCEPT !.open = FALSE]
  BY DEF CarryOut, Closed
<1> QED BY <1>2, <1>3, <1>4

\* Steps that neither grant a role nor change a parameter take no effect.
LEMMA NoEffect ==
    ASSUME members' \subseteq members, parameters' = parameters
    PROVE  TakenEffect = {}
BY DEF TakenEffect

\* One step changes only what is ripe.
LEMMA StepChangesOnlyRipe ==
    ASSUME TimelockInv, [TimelockNext]_timelockVars, NEW k \in TakenEffect
    PROVE  Ripe(k) /\ ~signals'[k].open
<1>1. ASSUME NEW S \in Changes, grantRoleAfterSignal(S)
      PROVE  Ripe(k) /\ ~signals'[k].open
  <2> DEFINE A == {grantRoleActionKey(p) : p \in S}
  <2>1. A \in SUBSET ActionKeys
    BY GrantKeys, TimelockAssumption DEF Pairs
  <2>2. members' = members \union S /\ parameters' = parameters /\ CarryOut(A)
    BY <1>1 DEF grantRoleAfterSignal
  <2>3. k \in A
    BY <2>2 DEF TakenEffect
  <2> HIDE DEF A
  <2> QED BY <2>1, <2>2, <2>3, CarriedOutWasRipe
<1>2. ASSUME NEW n \in Parameters, NEW v \in Values, SetAfterSignal(n, v)
      PROVE  Ripe(k) /\ ~signals'[k].open
  <2>1. {setActionKey(n, v)} \in SUBSET ActionKeys
    BY SetKeys
  <2>2. members' = members /\ parameters' = [parameters EXCEPT ![n] = v] /\ CarryOut({setActionKey(n, v)})
    BY <1>2 DEF SetAfterSignal
  <2>3. PICK x \in Parameters : parameters'[x] # parameters[x] /\ k = setActionKey(x, parameters'[x])
    BY <2>2 DEF TakenEffect
  <2>4. x = n /\ parameters'[x] = v
    BY <2>2, <2>3 DEF TimelockInv, TimelockTypeOK
  <2>5. k \in {setActionKey(n, v)}
    BY <2>3, <2>4
  <2> QED BY <2>1, <2>2, <2>5, CarriedOutWasRipe
<1>3. ASSUME members' \subseteq members, parameters' = parameters
      PROVE  FALSE
  BY <1>3, NoEffect
<1>4. ASSUME NEW A, SignalAll(A) PROVE FALSE
  BY <1>3, <1>4 DEF SignalAll
<1>5. ASSUME NEW A, ClearAll(A) PROVE FALSE
  BY <1>3, <1>5 DEF ClearAll
<1>6. ASSUME NEW S, revokeRoleAfterSignal(S) PROVE FALSE
  BY <1>3, <1>6 DEF revokeRoleAfterSignal
<1>7. CASE \/ \E p \in members : revokeRole(p)
           \/ \E v \in BOOLEAN : setInStrictPriceFeedMode(v)
           \/ \E d \in 1..MAX_TIMELOCK_DELAY : increaseTimelockDelay(d)
           \/ Wait
           \/ UNCHANGED timelockVars
  BY <1>3, <1>7 DEF revokeRole, setInStrictPriceFeedMode, increaseTimelockDelay, Wait, timelockVars
<1>8. CASE \/ \E S \in Changes : signalGrantRole(S) \/ signalRevokeRole(S)
           \/ \E n \in Parameters, v \in Values : SignalSet(n, v)
  BY <1>4, <1>8 DEF signalGrantRole, signalRevokeRole, SignalSet
<1>9. CASE \/ \E tx \in receipts : cancelGrantRole(tx)
           \/ \E x \in ActionKeys : cancelAction(x)
  BY <1>5, <1>9 DEF cancelGrantRole, cancelAction
<1> QED BY <1>1, <1>2, <1>6, <1>7, <1>8, <1>9 DEF TimelockNext

\* No role is granted and no protected parameter changed before its delay, for every delay, every increase of
\* it, and every order of signals, cancellations and executions.
THEOREM TimelockChangedOnlyAfterDelay == TimelockSpec => ChangedOnlyAfterDelay
<1>1. TimelockInv /\ [TimelockNext]_timelockVars
        => [\A k \in TakenEffect : Ripe(k) /\ ~signals'[k].open]_timelockVars
  BY StepChangesOnlyRipe
<1> QED BY <1>1, TimelockInvariant, PTL DEF TimelockSpec, ChangedOnlyAfterDelay

-----------------------------------------------------------------------------
\* Incentives. paid counts, and the run of each operator has its fields; no batch was sent before the funds
\* were checked and approved.
DistributionTypeOK ==
    /\ paid \in [Distributions -> [Recipients -> Nat]]
    /\ migrations \subseteq Distributions
    /\ sender \in [Operators -> [phase : {"idle", "checking", "approving", "sending"}, id : Distributions \union {0},
                                 mode : {"WRITE", "DRY_RUN"}, next : Nat \ {0}, seen : SUBSET Distributions]]
    /\ \A o \in Operators : /\ sender[o].phase # "idle" => sender[o].id \in Distributions
                            /\ sender[o].phase # "sending" => sender[o].next = 1

\* The recipients a distribution has reached.
GotShare(d, r) == paid[d][r] >= 1

\* Every copy of the record that a run read names only distributions that reached everyone, and a run that
\* writes has reached all recipients before its next batch.
BatchesReached ==
    \A o \in Operators :
        /\ \A d \in sender[o].seen, r \in Recipients : GotShare(d, r)
        /\ Writing(o) => \A r \in Recipients : r < sender[o].next => GotShare(sender[o].id, r)

EveryonePaidInv == DistributionTypeOK /\ EveryonePaid /\ BatchesReached

\* Runs that write at the same time are excused.
OverlapsExcused ==
    \A o, p \in Operators : o # p /\ Writing(o) /\ Writing(p) => sender[o].id \in excused

\* What a writing run read of the record is still the record, but for what is excused.
ReadIsRecord ==
    \A o \in Operators : Writing(o) =>
        \A d \in Distributions \ excused : d \in migrations <=> d \in sender[o].seen

\* A run that is not excused has paid nobody from its next batch on, and its distribution is not recorded.
OwnRunAhead ==
    \A o \in Operators : Writing(o) /\ sender[o].id \notin excused =>
        /\ sender[o].id \notin migrations
        /\ \A r \in Recipients : r >= sender[o].next => paid[sender[o].id][r] = 0

\* Nobody was paid for a distribution that is neither recorded, excused nor being sent.
UntouchedUnpaid ==
    \A d \in Distributions \ (excused \union migrations) :
        (\A o \in Operators : Writing(o) => sender[o].id # d) => \A r \in Recipients : paid[d][r] = 0

PaidOnceInv ==
    /\ DistributionTypeOK /\ NobodyPaidTwice
    /\ OverlapsExcused /\ ReadIsRecord /\ OwnRunAhead /\ UntouchedUnpaid

LEMMA DistributionTypeInit == DistributionInit => DistributionTypeOK
BY DEF DistributionInit, DistributionTypeOK, Idle

\* The types are kept, whatever a run does.
LEMMA DistributionTypeNext ==
    ASSUME DistributionTypeOK, [DistributionNext]_distributionVars PROVE DistributionTypeOK'
<1> USE DEF DistributionTypeOK
<1>0. Recipients \subseteq Nat BY DistributionAssumption DEF Recipients
<1>1. ASSUME NEW o \in Operators, NEW d \in Distributions, NEW mode \in {"WRITE", "DRY_RUN"},
             NEW skip \in BOOLEAN, StartSending(o, d, mode, skip)
      PROVE  DistributionTypeOK'
    BY <1>1 DEF StartSending
<1>2. ASSUME NEW o \in Operators, CheckFunds(o) PROVE DistributionTypeOK'
    BY <1>2 DEF CheckFunds, Idle
<1>3. ASSUME NEW o \in Operators, Approve(o) PROVE DistributionTypeOK'
    BY <1>3 DEF Approve
<1>4. ASSUME NEW o \in Operators, SendBatch(o) PROVE DistributionTypeOK'
  <2>1. sender[o].next + BatchSize \in Nat \ {0} BY DistributionAssumption
  <2>2. sender' = [sender EXCEPT ![o].next = sender[o].next + BatchSize] BY <1>4 DEF SendBatch
  <2>3. paid' \in [Distributions -> [Recipients -> Nat]] BY <1>4 DEF SendBatch
  <2>4. sender[o].phase = "sending" /\ UNCHANGED migrations BY <1>4 DEF SendBatch
  <2> QED BY <2>1, <2>2, <2>3, <2>4
<1>5. ASSUME NEW o \in Operators, FailBatch(o) PROVE DistributionTypeOK'
    BY <1>5 DEF FailBatch, Idle
<1>6. ASSUME NEW o \in Operators, Interrupt(o) PROVE DistributionTypeOK'
    BY <1>6 DEF Interrupt, Idle
<1>7. ASSUME NEW o \in Operators, Record(o) PROVE DistributionTypeOK'
    BY <1>7 DEF Record, Idle
<1>8. CASE UNCHANGED distributionVars BY <1>8 DEF distributionVars
<1> QED BY <1>1, <1>2, <1>3, <1>4, <1>5, <1>6, <1>7, <1>8 DEF DistributionNext

\* What one batch changes.
LEMMA BatchSent ==
    ASSUME DistributionTypeOK, NEW o \in Operators, SendBatch(o)
    PROVE  /\ sender[o].phase = "sending" /\ sender[o].next <= RecipientCount
           /\ sender[o].id \in Distributions
           /\ \A p \in Operators \ {o} : sender'[p] = sender[p]
           /\ sender'[o].phase = "sending" /\ sender'[o].id = sender[o].id
           /\ sender'[o].mode = sender[o].mode /\ sender'[o].seen = sender[o].seen
           /\ sender'[o].next = sender[o].next + BatchSize
           /\ ~Writing(o) => paid' = paid
           /\ Writing(o) => \A d \in Distributions, r \in Recipients :
                paid'[d][r] = IF d = sender[o].id /\ r \in Batch(o) THEN paid[d][r] + 1 ELSE paid[d][r]
           /\ UNCHANGED <<migrations, excused>>
<1>1. sender[o].phase = "sending" /\ sender[o].next <= RecipientCount BY DEF SendBatch
<1>2. sender[o].id \in Distributions BY <1>1 DEF DistributionTypeOK
<1>3. sender' = [sender EXCEPT ![o].next = sender[o].next + BatchSize] BY DEF SendBatch
<1>4. /\ \A p \in Operators \ {o} : sender'[p] = sender[p]
      /\ sender'[o].phase = sender[o].phase /\ sender'[o].id = sender[o].id
      /\ sender'[o].mode = sender[o].mode /\ sender'[o].seen = sender[o].seen
      /\ sender'[o].next = sender[o].next + BatchSize
    BY <1>3 DEF DistributionTypeOK
<1>5. ~Writing(o) => paid' = paid BY <1>1 DEF SendBatch, Writing
<1>6. ASSUME Writing(o)
      PROVE  \A d \in Distributions, r \in Recipients :
               paid'[d][r] = IF d = sender[o].id /\ r \in Batch(o) THEN paid[d][r] + 1 ELSE paid[d][r]
  <2>1. paid' = [paid EXCEPT ![sender[o].id] =
                   [r \in Recipients |-> IF r \in Batch(o) THEN paid[sender[o].id][r] + 1
                                                           ELSE paid[sender[o].id][r]]]
    BY <1>6 DEF SendBatch, Writing
  <2> QED BY <1>2, <2>1 DEF DistributionTypeOK
<1>7. UNCHANGED <<migrations, excused>> BY DEF SendBatch
<1> QED BY <1>1, <1>2, <1>4, <1>5, <1>6, <1>7

\* A run that ends is idle, and the runs of the others go on as they were.
LEMMA RunEnded ==
    ASSUME DistributionTypeOK, NEW o \in Operators, sender' = [sender EXCEPT ![o] = Idle]
    PROVE  /\ \A p \in Operators \ {o} : sender'[p] = sender[p]
           /\ sender'[o].phase = "idle" /\ sender'[o].seen = {}
           /\ \A p \in Operators : Writing(p)' <=> p # o /\ Writing(p)
BY DEF DistributionTypeOK, Idle, Writing

\* A run that starts has read the record and sent nothing.
LEMMA RunStarted ==
    ASSUME DistributionTypeOK, NEW o \in Operators, NEW d \in Distributions, NEW mode \in {"WRITE", "DRY_RUN"},
           NEW skip \in BOOLEAN, StartSending(o, d, mode, skip)
    PROVE  /\ ~Writing(o)
           /\ \A p \in Operators \ {o} : sender'[p] = sender[p]
           /\ sender'[o].id = d /\ sender'[o].next = 1 /\ sender'[o].seen = migrations
           /\ \A p \in Operators : Writing(p)' <=> IF p = o THEN mode = "WRITE" ELSE Writing(p)
           /\ UNCHANGED <<paid, migrations>>
<1>1. sender' = [sender EXCEPT ![o] = [phase |-> "checking", id |-> d, mode |-> mode, next |-> 1,
                                       seen |-> migrations]]
    BY DEF StartSending
<1>2. /\ \A p \in Operators \ {o} : sender'[p] = sender[p]
      /\ sender'[o] = [phase |-> "checking", id |-> d, mode |-> mode, next |-> 1, seen |-> migrations]
    BY <1>1 DEF DistributionTypeOK
<1>3. sender[o].phase = "idle" /\ UNCHANGED <<paid, migrations>> BY DEF StartSending
<1> QED BY <1>2, <1>3 DEF Writing

\* The other steps of a run, until it ends, move its phase.
LEMMA PhaseMoved ==
    ASSUME DistributionTypeOK, NEW o \in Operators, NEW phase \in {"approving", "sending"},
           sender[o].phase \in {"checking", "approving"}, sender' = [sender EXCEPT ![o].phase = phase]
    PROVE  /\ \A p \in Operators : /\ sender'[p].id = sender[p].id /\ sender'[p].next = sender[p].next
                                   /\ sender'[p].seen = sender[p].seen
           /\ \A p \in Operators : Writing(p)' <=> Writing(p)
BY DEF DistributionTypeOK, Writing

-----------------------------------------------------------------------------
\* The record, and every copy of it that a run still holds, names only distributions that reached everyone:
\* each step of a run keeps it so.
LEMMA EveryonePaidNext ==
    ASSUME EveryonePaidInv, [DistributionNext]_distributionVars PROVE EveryonePaidInv'
<1>0. DistributionTypeOK /\ DistributionTypeOK' /\ EveryonePaid /\ BatchesReached
    BY DistributionTypeNext DEF EveryonePaidInv
<1>00. Recipients \subseteq Nat /\ RecipientCount \in Nat /\ BatchSize \in Nat
    BY DistributionAssumption DEF Recipients
<1>01. SUFFICES EveryonePaid' /\ BatchesReached' BY <1>0 DEF EveryonePaidInv
<1>1. ASSUME NEW o \in Operators, NEW d \in Distributions, NEW mode \in {"WRITE", "DRY_RUN"},
             NEW skip \in BOOLEAN, StartSending(o, d, mode, skip)
      PROVE  EveryonePaid' /\ BatchesReached'
  <2>1. /\ \A p \in Operators \ {o} : sender'[p] = sender[p]
        /\ sender'[o].id = d /\ sender'[o].next = 1 /\ sender'[o].seen = migrations
        /\ \A p \in Operators : Writing(p)' <=> IF p = o THEN mode = "WRITE" ELSE Writing(p)
        /\ UNCHANGED <<paid, migrations>>
    BY <1>0, <1>1, RunStarted
  <2>2. \A r \in Recipients : ~(r < 1) BY DEF Recipients
  <2>3. EveryonePaid' BY <1>0, <2>1 DEF EveryonePaid
  <2>4. BatchesReached' BY <1>0, <2>1, <2>2 DEF BatchesReached, EveryonePaid, GotShare
  <2> QED BY <2>3, <2>4
<1>2. ASSUME NEW o \in Operators, sender' = [sender EXCEPT ![o] = Idle], UNCHANGED paid,
             \A d \in migrations' : d \in migrations \/ \A r \in Recipients : GotShare(d, r)
      PROVE  EveryonePaid' /\ BatchesReached'
  <2>1. /\ \A p \in Operators \ {o} : sender'[p] = sender[p]
        /\ sender'[o].seen = {}
        /\ \A p \in Operators : Writing(p)' <=> p # o /\ Writing(p)
    BY <1>0, <1>2, RunEnded
  <2>2. EveryonePaid' BY <1>0, <1>2 DEF EveryonePaid, GotShare
  <2>3. BatchesReached' BY <1>0, <1>2, <2>1 DEF BatchesReached, GotShare
  <2> QED BY <2>2, <2>3
<1>3. ASSUME NEW o \in Operators, NEW phase \in {"approving", "sending"},
             sender[o].phase \in {"checking", "approving"}, sender' = [sender EXCEPT ![o].phase = phase],
             UNCHANGED <<paid, migrations>>
      PROVE  EveryonePaid' /\ BatchesReached'
  <2>1. /\ \A p \in Operators : /\ sender'[p].id = sender[p].id /\ sender'[p].next = sender[p].next
                                /\ sender'[p].seen = sender[p].seen
        /\ \A p \in Operators : Writing(p)' <=> Writing(p)
    BY <1>0, <1>3, PhaseMoved
  <2>2. EveryonePaid' BY <1>0, <1>3 DEF EveryonePaid
  <2>3. BatchesReached' BY <1>0, <1>3, <2>1 DEF BatchesReached, GotShare
  <2> QED BY <2>2, <2>3
<1>4. ASSUME NEW o \in Operators, SendBatch(o) PROVE EveryonePaid' /\ BatchesReached'
  <2>1. /\ sender[o].phase = "sending" /\ sender[o].id \in Distributions
        /\ \A p \in Operators \ {o} : sender'[p] = sender[p]
        /\ sender'[o].phase = "sending" /\ sender'[o].id = sender[o].id
        /\ sender'[o].mode = sender[o].mode /\ sender'[o].seen = sender[o].seen
        /\ sender'[o].next = sender[o].next + BatchSize
        /\ ~Writing(o) => paid' = paid
        /\ Writing(o) => \A d \in Distributions, r \in Recipients :
             paid'[d][r] = IF d = sender[o].id /\ r \in Batch(o) THEN paid[d][r] + 1 ELSE paid[d][r]
        /\ UNCHANGED <<migrations, excused>>
    BY <1>0, <1>4, BatchSent
  <2>2. \A d \in Distributions, r \in Recipients : paid[d][r] \in Nat BY <1>0 DEF DistributionTypeOK
  <2>3. \A d \in Distributions, r \in Recipients : GotShare(d, r) => GotShare(d, r)'
    BY <2>1, <2>2 DEF GotShare
  <2>4. migrations \subseteq Distributions /\ \A p \in Operators : sender[p].seen \subseteq Distributions
    BY <1>0 DEF DistributionTypeOK
  <2>5. EveryonePaid' BY <1>0, <2>1, <2>3, <2>4 DEF EveryonePaid, GotShare
  <2>6. \A p \in Operators : Writing(p)' <=> Writing(p) BY <2>1 DEF Writing
  <2>7. \A p \in Operators : \A d \in sender'[p].seen, r \in Recipients : GotShare(d, r)'
    BY <1>0, <2>1, <2>3, <2>4 DEF BatchesReached
  <2>8. ASSUME NEW p \in Operators, p # o, Writing(p), NEW r \in Recipients, r < sender'[p].next
        PROVE  paid'[sender'[p].id][r] >= 1
    <3>1. sender[p].id \in Distributions BY <1>0, <2>8 DEF DistributionTypeOK, Writing
    <3>2. sender'[p].id = sender[p].id /\ sender'[p].next = sender[p].next BY <2>1, <2>8
    <3>3. GotShare(sender[p].id, r) BY <1>0, <2>8, <3>2 DEF BatchesReached
    <3>4. paid'[sender[p].id][r] >= 1 BY <2>3, <3>1, <3>3 DEF GotShare
    <3> QED BY <3>2, <3>4
  <2>9. ASSUME Writing(o), NEW r \in Recipients, r < sender'[o].next
        PROVE  paid'[sender'[o].id][r] >= 1
    <3>1. r \in Nat /\ sender[o].next \in Nat BY <1>0, <1>00 DEF DistributionTypeOK
    <3>2. CASE r < sender[o].next
      <4>1. GotShare(sender[o].id, r) BY <1>0, <2>9, <3>2 DEF BatchesReached
      <4>2. paid'[sender[o].id][r] >= 1 BY <2>1, <2>3, <4>1 DEF GotShare
      <4> QED BY <2>1, <4>2
    <3>3. CASE sender[o].next <= r
      <4>1. r \in Batch(o) BY <2>1, <2>9, <3>3 DEF Batch
      <4>2. paid'[sender[o].id][r] = paid[sender[o].id][r] + 1 BY <2>1, <2>9, <4>1
      <4>3. paid'[sender[o].id][r] >= 1 BY <2>1, <2>2, <4>2
      <4> QED BY <2>1, <4>3
    <3> QED BY <3>1, <3>2, <3>3
  <2>10. BatchesReached' BY <2>6, <2>7, <2>8, <2>9 DEF BatchesReached, GotShare
  <2> QED BY <2>5, <2>10
<1>5. ASSUME NEW o \in Operators, CheckFunds(o) PROVE EveryonePaid' /\ BatchesReached'
    BY <1>2, <1>3, <1>5 DEF CheckFunds
<1>6. ASSUME NEW o \in Operators, Approve(o) PROVE EveryonePaid' /\ BatchesReached'
    BY <1>3, <1>6 DEF Approve
<1>7. ASSUME NEW o \in Operators, FailBatch(o) \/ Interrupt(o) PROVE EveryonePaid' /\ BatchesReached'
    BY <1>2, <1>7 DEF FailBatch, Interrupt
<1>8. ASSUME NEW o \in Operators, Record(o) PROVE EveryonePaid' /\ BatchesReached'
  <2>1. /\ sender[o].phase = "sending" /\ sender[o].next > RecipientCount
        /\ sender' = [sender EXCEPT ![o] = Idle] /\ UNCHANGED paid
        /\ migrations' = IF sender[o].mode = "WRITE" THEN sender[o].seen \union {sender[o].id} ELSE migrations
    BY <1>8 DEF Record
  <2>2. Writing(o) => \A r \in Recipients : GotShare(sender[o].id, r)
    <3>1. \A r \in Recipients : r < sender[o].next
        BY <1>0, <1>00, <2>1 DEF Recipients, DistributionTypeOK
    <3> QED BY <1>0, <3>1 DEF BatchesReached
  <2>3. \A d \in sender[o].seen, r \in Recipients : GotShare(d, r) BY <1>0 DEF BatchesReached
  <2>4. \A d \in migrations' : d \in migrations \/ \A r \in Recipients : GotShare(d, r)
    BY <2>1, <2>2, <2>3 DEF Writing
  <2> QED BY <1>2, <2>1, <2>4
<1>9. CASE UNCHANGED distributionVars
    BY <1>0, <1>9 DEF distributionVars, EveryonePaid, BatchesReached, GotShare, Writing
<1> QED BY <1>1, <1>4, <1>5, <1>6, <1>7, <1>8, <1>9 DEF DistributionNext

LEMMA EveryonePaidInit == DistributionInit => EveryonePaidInv
BY DistributionTypeInit DEF DistributionInit, EveryonePaidInv, EveryonePaid, BatchesReached, Writing, Idle

\* Whoever else ran, wherever runs were interrupted and whatever the batch size: a distribution recorded in
\* .migrations.json has reached all its recipients (batchSend.ts).
THEOREM DistributionEveryonePaid == DistributionSpec => []EveryonePaid
<1>1. EveryonePaidInv /\ [DistributionNext]_distributionVars => EveryonePaidInv' BY EveryonePaidNext
<1>2. EveryonePaidInv => EveryonePaid BY DEF EveryonePaidInv
<1> QED BY EveryonePaidInit, <1>1, <1>2, PTL DEF DistributionSpec

-----------------------------------------------------------------------------
\* A start excuses what it must: the runs it overlaps, and its own when it overlaps or was asked to skip.
LEMMA StartExcuses ==
    ASSUME DistributionTypeOK, NEW o \in Operators, NEW d \in Distributions, NEW mode \in {"WRITE", "DRY_RUN"},
           NEW skip \in BOOLEAN, StartSending(o, d, mode, skip)
    PROVE  /\ excused \subseteq excused'
           /\ d \notin migrations \/ skip
           /\ mode = "WRITE" =>
                /\ \A p \in Operators \ {o} : Writing(p) => sender[p].id \in excused' /\ d \in excused'
                /\ skip => d \in excused'
<1>1. CASE mode = "WRITE"
  <2>1. excused' = excused \union Others(o) \union {x \in {d} : skip \/ Others(o) # {}}
    BY <1>1 DEF StartSending
  <2>2. \A p \in Operators \ {o} : Writing(p) => sender[p].id \in Others(o) BY DEF Others
  <2> QED BY <2>1, <2>2 DEF StartSending
<1>2. CASE mode # "WRITE" BY <1>2 DEF StartSending
<1> QED BY <1>1, <1>2

LEMMA StartPaysOnce ==
    ASSUME PaidOnceInv, NEW o \in Operators, NEW d \in Distributions, NEW mode \in {"WRITE", "DRY_RUN"},
           NEW skip \in BOOLEAN, StartSending(o, d, mode, skip)
    PROVE  NobodyPaidTwice' /\ OverlapsExcused' /\ ReadIsRecord' /\ OwnRunAhead' /\ UntouchedUnpaid'
<1>0. /\ DistributionTypeOK /\ NobodyPaidTwice
      /\ OverlapsExcused /\ ReadIsRecord /\ OwnRunAhead /\ UntouchedUnpaid
    BY DEF PaidOnceInv
<1>1. /\ ~Writing(o)
      /\ \A p \in Operators \ {o} : sender'[p] = sender[p]
      /\ sender'[o].id = d /\ sender'[o].next = 1 /\ sender'[o].seen = migrations
      /\ \A p \in Operators : Writing(p)' <=> IF p = o THEN mode = "WRITE" ELSE Writing(p)
      /\ UNCHANGED <<paid, migrations>>
    BY <1>0, RunStarted
<1>2. /\ excused \subseteq excused'
      /\ d \notin migrations \/ skip
      /\ mode = "WRITE" =>
           /\ \A p \in Operators \ {o} : Writing(p) => sender[p].id \in excused' /\ d \in excused'
           /\ skip => d \in excused'
    BY <1>0, StartExcuses
<1>3. NobodyPaidTwice' BY <1>0, <1>1, <1>2 DEF NobodyPaidTwice
<1>4. OverlapsExcused'
  <2> SUFFICES ASSUME NEW p \in Operators, NEW q \in Operators, p # q, Writing(p)', Writing(q)'
               PROVE  sender'[p].id \in excused'
    BY DEF OverlapsExcused
  <2>1. CASE p = o BY <1>1, <1>2, <2>1
  <2>2. CASE q = o BY <1>1, <1>2, <2>2
  <2>3. CASE p # o /\ q # o BY <1>0, <1>1, <1>2, <2>3 DEF OverlapsExcused
  <2> QED BY <2>1, <2>2, <2>3
<1>5. ReadIsRecord' BY <1>0, <1>1, <1>2 DEF ReadIsRecord
<1>6. OwnRunAhead'
  <2> SUFFICES ASSUME NEW p \in Operators, Writing(p)', sender'[p].id \notin excused'
               PROVE  /\ sender'[p].id \notin migrations'
                      /\ \A r \in Recipients : r >= sender'[p].next => paid'[sender'[p].id][r] = 0
    BY DEF OwnRunAhead
  <2>1. CASE p = o
    <3>1. mode = "WRITE" /\ d \notin excused' /\ sender'[p].id = d BY <1>1, <2>1
    <3>2. d \notin migrations /\ d \notin excused BY <1>2, <3>1
    <3>3. \A q \in Operators : ~Writing(q) BY <1>1, <1>2, <3>1
    <3>4. \A r \in Recipients : paid[d][r] = 0 BY <1>0, <3>2, <3>3 DEF UntouchedUnpaid
    <3> QED BY <1>1, <3>1, <3>2, <3>4
  <2>2. CASE p # o BY <1>0, <1>1, <1>2, <2>2 DEF OwnRunAhead
  <2> QED BY <2>1, <2>2
<1>7. UntouchedUnpaid'
  <2> SUFFICES ASSUME NEW x \in Distributions \ (excused' \union migrations'),
                      \A p \in Operators : Writing(p)' => sender'[p].id # x, NEW r \in Recipients
               PROVE  paid'[x][r] = 0
    BY DEF UntouchedUnpaid
  <2>1. x \in Distributions \ (excused \union migrations) BY <1>1, <1>2
  <2>2. \A p \in Operators : Writing(p) => sender[p].id # x BY <1>1
  <2> QED BY <1>0, <1>1, <2>1, <2>2 DEF UntouchedUnpaid
<1> QED BY <1>3, <1>4, <1>5, <1>6, <1>7

\* A run may end without a record when it is excused, has sent nothing or does not write.
LEMMA EndPaysOnce ==
    ASSUME PaidOnceInv, NEW o \in Operators, sender' = [sender EXCEPT ![o] = Idle],
           UNCHANGED <<paid, migrations>>, excused \subseteq excused',
           Writing(o) => sender[o].id \in excused' \/ sender[o].next = 1
    PROVE  NobodyPaidTwice' /\ OverlapsExcused' /\ ReadIsRecord' /\ OwnRunAhead' /\ UntouchedUnpaid'
<1>0. /\ DistributionTypeOK /\ NobodyPaidTwice
      /\ OverlapsExcused /\ ReadIsRecord /\ OwnRunAhead /\ UntouchedUnpaid
    BY DEF PaidOnceInv
<1>1. /\ \A p \in Operators \ {o} : sender'[p] = sender[p]
      /\ \A p \in Operators : Writing(p)' <=> p # o /\ Writing(p)
    BY <1>0, RunEnded
<1>2. NobodyPaidTwice' BY <1>0 DEF NobodyPaidTwice
<1>3. OverlapsExcused' BY <1>0, <1>1 DEF OverlapsExcused
<1>4. ReadIsRecord' BY <1>0, <1>1 DEF ReadIsRecord
<1>5. OwnRunAhead' BY <1>0, <1>1 DEF OwnRunAhead
<1>6. UntouchedUnpaid'
  <2> SUFFICES ASSUME NEW x \in Distributions \ (excused' \union migrations'),
                      \A p \in Operators : Writing(p)' => sender'[p].id # x, NEW r \in Recipients
               PROVE  paid'[x][r] = 0
    BY DEF UntouchedUnpaid
  <2>1. x \in Distributions \ (excused \union migrations) OBVIOUS
  <2>2. \A p \in Operators \ {o} : Writing(p) => sender[p].id # x BY <1>1
  <2>3. CASE Writing(o) /\ sender[o].id = x
    <3>1. sender[o].next = 1 BY <2>3
    <3>2. r >= sender[o].next BY <3>1 DEF Recipients
    <3> QED BY <1>0, <2>1, <2>3, <3>2 DEF OwnRunAhead
  <2>4. CASE ~(Writing(o) /\ sender[o].id = x) BY <1>0, <2>1, <2>2, <2>4 DEF UntouchedUnpaid
  <2> QED BY <2>3, <2>4
<1> QED BY <1>2, <1>3, <1>4, <1>5, <1>6

\* Checking the funds and approving them.
LEMMA PhasePaysOnce ==
    ASSUME PaidOnceInv, NEW o \in Operators, NEW phase \in {"approving", "sending"},
           sender[o].phase \in {"checking", "approving"}, sender' = [sender EXCEPT ![o].phase = phase],
           UNCHANGED <<paid, migrations, excused>>
    PROVE  NobodyPaidTwice' /\ OverlapsExcused' /\ ReadIsRecord' /\ OwnRunAhead' /\ UntouchedUnpaid'
<1>0. /\ DistributionTypeOK /\ NobodyPaidTwice
      /\ OverlapsExcused /\ ReadIsRecord /\ OwnRunAhead /\ UntouchedUnpaid
    BY DEF PaidOnceInv
<1>1. /\ \A p \in Operators : /\ sender'[p].id = sender[p].id /\ sender'[p].next = sender[p].next
                              /\ sender'[p].seen = sender[p].seen
      /\ \A p \in Operators : Writing(p)' <=> Writing(p)
    BY <1>0, PhaseMoved
<1>2. NobodyPaidTwice' BY <1>0 DEF NobodyPaidTwice
<1>3. OverlapsExcused' BY <1>0, <1>1 DEF OverlapsExcused
<1>4. ReadIsRecord' BY <1>0, <1>1 DEF ReadIsRecord
<1>5. OwnRunAhead' BY <1>0, <1>1 DEF OwnRunAhead
<1>6. UntouchedUnpaid' BY <1>0, <1>1 DEF UntouchedUnpaid
<1> QED BY <1>2, <1>3, <1>4, <1>5, <1>6

\* A batch pays only recipients from next on, whom a run that is not excused has not paid before.
LEMMA BatchPaysOnce ==
    ASSUME PaidOnceInv, NEW o \in Operators, SendBatch(o)
    PROVE  NobodyPaidTwice' /\ OverlapsExcused' /\ ReadIsRecord' /\ OwnRunAhead' /\ UntouchedUnpaid'
<1>0. /\ DistributionTypeOK /\ NobodyPaidTwice
      /\ OverlapsExcused /\ ReadIsRecord /\ OwnRunAhead /\ UntouchedUnpaid
    BY DEF PaidOnceInv
<1>1. /\ sender[o].id \in Distributions
      /\ \A p \in Operators \ {o} : sender'[p] = sender[p]
      /\ sender'[o].phase = sender[o].phase /\ sender'[o].id = sender[o].id
      /\ sender'[o].mode = sender[o].mode /\ sender'[o].seen = sender[o].seen
      /\ sender'[o].next = sender[o].next + BatchSize
      /\ ~Writing(o) => paid' = paid
      /\ Writing(o) => \A d \in Distributions, r \in Recipients :
           paid'[d][r] = IF d = sender[o].id /\ r \in Batch(o) THEN paid[d][r] + 1 ELSE paid[d][r]
      /\ UNCHANGED <<migrations, excused>>
    BY <1>0, BatchSent
<1>2. \A p \in Operators : /\ Writing(p)' <=> Writing(p)
                           /\ sender'[p].id = sender[p].id /\ sender'[p].seen = sender[p].seen
    BY <1>1 DEF Writing
<1>3. \A d \in Distributions, r \in Recipients : paid[d][r] \in Nat BY <1>0 DEF DistributionTypeOK
<1>4. /\ \A r \in Batch(o) : r \in Recipients /\ r >= sender[o].next /\ r < sender[o].next + BatchSize
      /\ sender[o].next \in Nat /\ BatchSize \in Nat /\ Recipients \subseteq Nat
    BY <1>0, DistributionAssumption DEF Batch, Recipients, DistributionTypeOK
<1>5. ASSUME NEW d \in Distributions, NEW r \in Recipients, ~(Writing(o) /\ d = sender[o].id)
      PROVE  paid'[d][r] = paid[d][r]
    BY <1>1, <1>5
<1>6. NobodyPaidTwice'
  <2> SUFFICES ASSUME NEW d \in Distributions \ excused', NEW r \in Recipients PROVE paid'[d][r] <= 1
    BY DEF NobodyPaidTwice
  <2>1. d \in Distributions \ excused /\ paid[d][r] <= 1 BY <1>0, <1>1 DEF NobodyPaidTwice
  <2>2. CASE Writing(o) /\ d = sender[o].id /\ r \in Batch(o)
    <3>1. paid[d][r] = 0 BY <1>0, <1>4, <2>1, <2>2 DEF OwnRunAhead
    <3> QED BY <1>1, <2>2, <3>1
  <2>3. CASE ~(Writing(o) /\ d = sender[o].id /\ r \in Batch(o)) BY <1>1, <2>1, <2>3
  <2> QED BY <2>2, <2>3
<1>7. OverlapsExcused' BY <1>0, <1>1, <1>2 DEF OverlapsExcused
<1>8. ReadIsRecord' BY <1>0, <1>1, <1>2 DEF ReadIsRecord
<1>9. OwnRunAhead'
  <2> SUFFICES ASSUME NEW p \in Operators, Writing(p), sender[p].id \notin excused
               PROVE  /\ sender[p].id \notin migrations
                      /\ \A r \in Recipients : r >= sender'[p].next => paid'[sender[p].id][r] = 0
    BY <1>1, <1>2 DEF OwnRunAhead
  <2>1. sender[p].id \notin migrations BY <1>0 DEF OwnRunAhead
  <2>2. sender[p].id \in Distributions BY <1>0 DEF DistributionTypeOK, Writing
  <2>3. ASSUME NEW r \in Recipients, r >= sender'[p].next PROVE paid'[sender[p].id][r] = 0
    <3>1. CASE p = o
      <4>1. r >= sender[o].next /\ r \notin Batch(o) BY <1>1, <1>4, <2>3, <3>1
      <4>2. paid[sender[o].id][r] = 0 BY <1>0, <3>1, <4>1 DEF OwnRunAhead
      <4> QED BY <1>1, <3>1, <4>1, <4>2
    <3>2. CASE p # o
      <4>1. ~(Writing(o) /\ sender[p].id = sender[o].id) BY <1>0, <3>2 DEF OverlapsExcused
      <4>2. paid'[sender[p].id][r] = paid[sender[p].id][r] BY <1>5, <2>2, <4>1
      <4> QED BY <1>0, <1>1, <2>3, <3>2, <4>2 DEF OwnRunAhead
    <3> QED BY <3>1, <3>2
  <2> QED BY <2>1, <2>3
<1>10. UntouchedUnpaid'
  <2> SUFFICES ASSUME NEW x \in Distributions \ (excused \union migrations),
                      \A p \in Operators : Writing(p) => sender[p].id # x, NEW r \in Recipients
               PROVE  paid'[x][r] = 0
    BY <1>1, <1>2 DEF UntouchedUnpaid
  <2>1. paid'[x][r] = paid[x][r] BY <1>5
  <2> QED BY <1>0, <2>1 DEF UntouchedUnpaid
<1> QED BY <1>6, <1>7, <1>8, <1>9, <1>10

\* The record is written with what the run read: what others recorded meanwhile is lost, and excused.
LEMMA RecordPaysOnce ==
    ASSUME PaidOnceInv, NEW o \in Operators, Record(o)
    PROVE  NobodyPaidTwice' /\ OverlapsExcused' /\ ReadIsRecord' /\ OwnRunAhead' /\ UntouchedUnpaid'
<1>0. /\ DistributionTypeOK /\ NobodyPaidTwice
      /\ OverlapsExcused /\ ReadIsRecord /\ OwnRunAhead /\ UntouchedUnpaid
    BY DEF PaidOnceInv
<1>1. /\ sender[o].phase = "sending"
      /\ sender' = [sender EXCEPT ![o] = Idle] /\ UNCHANGED <<paid, excused>>
      /\ migrations' = IF sender[o].mode = "WRITE" THEN sender[o].seen \union {sender[o].id} ELSE migrations
    BY DEF Record
<1>2. CASE ~Writing(o)
  <2>1. UNCHANGED migrations BY <1>1, <1>2 DEF Writing
  <2> QED BY <1>1, <1>2, <2>1, EndPaysOnce
<1>3. CASE Writing(o)
  <2>1. migrations' = sender[o].seen \union {sender[o].id} BY <1>1, <1>3 DEF Writing
  <2>2. /\ \A p \in Operators \ {o} : sender'[p] = sender[p]
        /\ \A p \in Operators : Writing(p)' <=> p # o /\ Writing(p)
    BY <1>0, <1>1, RunEnded
  <2>3. \A d \in Distributions \ excused : d # sender[o].id => (d \in migrations' <=> d \in migrations)
    BY <1>0, <1>3, <2>1 DEF ReadIsRecord
  <2>4. \A p \in Operators : p # o /\ Writing(p) => sender[o].id \in excused /\ sender[p].id \in excused
    BY <1>0, <1>3 DEF OverlapsExcused
  <2>5. NobodyPaidTwice' BY <1>0, <1>1 DEF NobodyPaidTwice
  <2>6. OverlapsExcused' BY <1>0, <1>1, <2>2 DEF OverlapsExcused
  <2>7. ReadIsRecord' BY <1>0, <1>1, <2>2, <2>3, <2>4 DEF ReadIsRecord
  <2>8. OwnRunAhead' BY <1>1, <2>2, <2>4 DEF OwnRunAhead
  <2>9. UntouchedUnpaid'
    <3> SUFFICES ASSUME NEW x \in Distributions \ (excused \union migrations'),
                        \A p \in Operators : Writing(p)' => sender'[p].id # x, NEW r \in Recipients
                 PROVE  paid'[x][r] = 0
      BY <1>1 DEF UntouchedUnpaid
    <3>1. x # sender[o].id /\ x \notin migrations BY <2>1, <2>3
    <3>2. \A p \in Operators : Writing(p) => sender[p].id # x BY <2>2, <3>1
    <3> QED BY <1>0, <1>1, <3>1, <3>2 DEF UntouchedUnpaid
  <2> QED BY <2>5, <2>6, <2>7, <2>8, <2>9
<1> QED BY <1>2, <1>3

LEMMA PaidOnceNext ==
    ASSUME PaidOnceInv, [DistributionNext]_distributionVars PROVE PaidOnceInv'
<1>0. DistributionTypeOK /\ DistributionTypeOK' BY DistributionTypeNext DEF PaidOnceInv
<1> SUFFICES NobodyPaidTwice' /\ OverlapsExcused' /\ ReadIsRecord' /\ OwnRunAhead' /\ UntouchedUnpaid'
    BY <1>0 DEF PaidOnceInv
<1> DEFINE Goal == NobodyPaidTwice /\ OverlapsExcused /\ ReadIsRecord /\ OwnRunAhead /\ UntouchedUnpaid
<1>1. ASSUME NEW o \in Operators, NEW d \in Distributions, NEW mode \in {"WRITE", "DRY_RUN"},
             NEW skip \in BOOLEAN, StartSending(o, d, mode, skip)
      PROVE  Goal'
    BY <1>1, StartPaysOnce
<1>2. ASSUME NEW o \in Operators, CheckFunds(o) PROVE Goal'
  <2>1. sender[o].phase = "checking" /\ UNCHANGED <<paid, migrations, excused>> BY <1>2 DEF CheckFunds
  <2>2. sender[o].next = 1 BY <1>0, <2>1 DEF DistributionTypeOK
  <2>3. CASE sender' = [sender EXCEPT ![o] = Idle] BY <2>1, <2>2, <2>3, EndPaysOnce
  <2>4. CASE \E phase \in {"approving", "sending"} : sender' = [sender EXCEPT ![o].phase = phase]
    BY <2>1, <2>4, PhasePaysOnce
  <2> QED BY <1>2, <2>3, <2>4 DEF CheckFunds
<1>3. ASSUME NEW o \in Operators, Approve(o) PROVE Goal'
    BY <1>3, PhasePaysOnce DEF Approve
<1>4. ASSUME NEW o \in Operators, SendBatch(o) PROVE Goal'
    BY <1>4, BatchPaysOnce
<1>5. ASSUME NEW o \in Operators, FailBatch(o) \/ Interrupt(o) PROVE Goal'
  <2>1. /\ sender' = [sender EXCEPT ![o] = Idle] /\ UNCHANGED <<paid, migrations>>
        /\ excused' = HalfWay(o)
    BY <1>5 DEF FailBatch, Interrupt
  <2>2. excused \subseteq excused' BY <2>1 DEF HalfWay
  <2>3. Writing(o) => sender[o].id \in excused' \/ sender[o].next = 1
    <3>1. sender[o].next \in Nat \ {0} /\ (sender[o].phase # "sending" => sender[o].next = 1)
      BY <1>0 DEF DistributionTypeOK
    <3>2. CASE Writing(o) /\ sender[o].phase = "sending" /\ sender[o].next > 1
      BY <2>1, <3>2 DEF HalfWay
    <3> QED BY <3>1, <3>2
  <2> QED BY <2>1, <2>2, <2>3, EndPaysOnce
<1>6. ASSUME NEW o \in Operators, Record(o) PROVE Goal'
    BY <1>6, RecordPaysOnce
<1>7. CASE UNCHANGED distributionVars
    BY <1>7 DEF distributionVars, PaidOnceInv, NobodyPaidTwice, OverlapsExcused, ReadIsRecord, OwnRunAhead,
                UntouchedUnpaid, Writing
<1> QED BY <1>1, <1>2, <1>3, <1>4, <1>5, <1>6, <1>7 DEF DistributionNext

LEMMA PaidOnceInit == DistributionInit => PaidOnceInv
BY DistributionTypeInit DEF DistributionInit, PaidOnceInv, NobodyPaidTwice, OverlapsExcused, ReadIsRecord,
                            OwnRunAhead, UntouchedUnpaid, Writing, Idle

\* Nobody is sent a distribution twice, whatever the batch size and wherever a dry run comes between, unless
\* a run of it was told to ignore .migrations.json, overlapped another, or ended between its first batch and
\* the record (batchSend.ts).
THEOREM DistributionPaysOnce == DistributionSpec => []NobodyPaidTwice
<1>1. PaidOnceInv /\ [DistributionNext]_distributionVars => PaidOnceInv' BY PaidOnceNext
<1>2. PaidOnceInv => NobodyPaidTwice BY DEF PaidOnceInv
<1> QED BY PaidOnceInit, <1>1, <1>2, PTL DEF DistributionSpec

-----------------------------------------------------------------------------
\* There are no deployments number 0, and a run is at some script.
DeployTypeOK ==
    /\ \A c \in DOMAIN deployed : deployed[c].gen \in Nat /\ deployed[c].gen > 0
    /\ run \in [phase : {"idle", "running", "done", "failed"}, pos : Nat \ {0}]

\* Whatever stopped or failed before: behind the position of a run nothing is missing, and after it nothing at all.
NothingMissing ==
    /\ run.phase = "running" => \A j \in DOMAIN Script : j < run.pos => Complete(Script[j])
    /\ run.phase = "done" => \A j \in DOMAIN Script : Complete(Script[j])

DeployInv == DeployTypeOK /\ NothingMissing /\ RunNeverFails

\* Only what is deployed has a number.
LEMMA GenType ==
  ASSUME DeployTypeOK, NEW c
  PROVE Gen(c) \in Nat /\ (Gen(c) > 0 <=> c \in DOMAIN deployed)
BY DEF DeployTypeOK, Gen

\* What a deployment changes: the number of one contract.
LEMMA DeployedIs ==
  ASSUME DeployTypeOK, NEW i, NEW script, Deploy(i, script)
  PROVE  /\ \A c : c # script.name => Gen(c)' = Gen(c)
         /\ \A c \in DOMAIN deployed : c # script.name => c \in DOMAIN deployed' /\ deployed'[c] = deployed[c]
         /\ Gen(script.name)' > 0
         /\ \A c \in DOMAIN deployed' : deployed'[c].gen \in Nat /\ deployed'[c].gen > 0
<1>1. DOMAIN deployed' = DOMAIN deployed \union {script.name}
  BY DEF Deploy
<1>2. \A c \in DOMAIN deployed : c # script.name => deployed'[c] = deployed[c]
  BY DEF Deploy
<1>3. deployed'[script.name].gen = Gen(script.name) + 1
  BY DEF Deploy
<1>4. Gen(script.name) + 1 \in Nat /\ Gen(script.name) + 1 > 0
  BY GenType
<1>5. \A c : c # script.name => Gen(c)' = Gen(c)
  BY <1>1, <1>2 DEF Gen
<1>6. Gen(script.name)' > 0
  BY <1>1, <1>3, <1>4 DEF Gen
<1> QED
  BY <1>1, <1>2, <1>3, <1>4, <1>5, <1>6 DEF DeployTypeOK

\* A set of numbers has a least one.
LEMMA MinIs ==
  ASSUME NEW S \in SUBSET Nat, S # {}
  PROVE  Min(S) \in S /\ \A y \in S : Min(S) <= y
<1>1. IsWellFoundedOn(OpToRel(<, Nat), Nat)
  BY NatLessThanWellFounded
<1>2. PICK x \in S : \A y \in S : ~(<<y, x>> \in OpToRel(<, Nat))
  BY <1>1, WFMin
<1>3. \A y \in S : x <= y
  <2>1. TAKE y \in S
  <2>2. <<y, x>>[1] = y /\ <<y, x>>[2] = x /\ <<y, x>> \in Nat \X Nat /\ x \in Nat /\ y \in Nat
    OBVIOUS
  <2>3. ~(y < x)
    BY <1>2, <2>2 DEF OpToRel
  <2> QED
    BY <2>2, <2>3
<1> QED
  BY <1>3 DEF Min

\* A deployment takes nothing back from the scripts before it.
LEMMA DeployKeepsComplete ==
  ASSUME DeployTypeOK, NEW i \in DOMAIN Script, Deploy(i, Script[i]),
         NEW j \in DOMAIN Script, j < i, Complete(Script[j])
  PROVE  Complete(Script[j])'
<1> DEFINE name == Script[i].name
           before == Script[j]
<1>1. name # "" /\ target' = target /\ sources' = sources /\ facts' = facts
  BY DEF Deploy, UpToDate
<1>2. /\ name # before.name /\ name \notin Range(before.links)
      /\ \A e \in Range(before.after) : name \notin {e.on, e.about}
      /\ before.tag \in NeedMarkets => name \notin {"DataStore", "MarketFactory"}
  BY <1>1, OrderAssumption
<1>3. /\ \A c : c # name => Gen(c)' = Gen(c)
      /\ \A c \in DOMAIN deployed : c # name => deployed'[c] = deployed[c]
      /\ Gen(name)' > 0
  BY DeployedIs
<1> HIDE DEF name
<1>4. CASE before.tag \in Skipped(target)
  BY <1>1, <1>4 DEF Complete
<1>5. CASE before.tag \notin Skipped(target)
  <2>1. ~CannotStart(before) /\ UpToDate(before) /\ Pending(before) = {}
    BY <1>5 DEF Complete
  <2>2. \A e : name \notin {e.on, e.about} => Done(e)' = Done(e)
    <3>1. SUFFICES ASSUME NEW e, name \notin {e.on, e.about} PROVE Done(e)' = Done(e)
      OBVIOUS
    <3>2. Gen(e.on)' = Gen(e.on) /\ Gen(e.about)' = Gen(e.about)
      BY <3>1, <1>3
    <3>3. Fact(e.on, e.about, e.what)' = Fact(e.on, e.about, e.what)
      BY <3>2 DEF Fact
    <3> QED
      BY <3>3, <1>1 DEF Done
  <2>3. Pending(before)' = {}
    <3>1. \A p \in DOMAIN before.after : before.after[p] \in Range(before.after)
      BY DEF Range
    <3> HIDE DEF before
    <3> QED
      BY <2>1, <2>2, <3>1, <1>2 DEF Pending
  <2>4. UpToDate(before)'
    <3>1. CASE before.name = ""
      BY <3>1 DEF UpToDate
    <3>2. CASE before.name # ""
      <4>1. Gen(before.name) > 0 /\ deployed[before.name].source = sources[before.name]
            /\ deployed[before.name].links = Built(before)
        BY <2>1, <3>2 DEF UpToDate
      <4>2. before.name \in DOMAIN deployed
        BY <4>1, GenType
      <4>3. Gen(before.name)' = Gen(before.name) /\ deployed'[before.name] = deployed[before.name]
        BY <4>2, <1>2, <1>3
      <4>4. \A k \in DOMAIN before.links : before.links[k] # name
        BY <1>2 DEF Range
      <4>5. Built(before)' = Built(before)
        BY <4>4, <1>3 DEF Built
      <4> HIDE DEF before
      <4> QED
        BY <4>1, <4>3, <4>5, <1>1 DEF UpToDate
    <3> QED
      BY <3>1, <3>2
  <2>5. ~CannotStart(before)'
    <3> HIDE DEF before
    <3>1. \A d \in Range(before.gets) : Gen(d)' # 0
      <4>1. TAKE d \in Range(before.gets)
      <4>2. Gen(d) # 0
        BY <2>1 DEF CannotStart
      <4> QED
        BY <4>2, <1>3
    <3>2. before.tag \in NeedMarkets => Done(Effect("DataStore", "MarketFactory", "createMarket", {}))'
      <4> DEFINE e == Effect("DataStore", "MarketFactory", "createMarket", {})
      <4>1. e.on = "DataStore" /\ e.about = "MarketFactory"
        BY DEF Effect
      <4>2. before.tag \in NeedMarkets => Done(e)
        BY <2>1 DEF CannotStart
      <4>3. before.tag \in NeedMarkets => Done(e)' = Done(e)
        BY <4>1, <2>2, <1>2
      <4> QED
        BY <4>2, <4>3
    <3> QED
      BY <3>1, <3>2 DEF CannotStart
  <2> QED
    BY <2>3, <2>4, <2>5 DEF Complete
<1> QED
  BY <1>4, <1>5

\* Nor does any other step that only adds facts.
LEMMA FactsKeepComplete ==
  ASSUME target' = target, sources' = sources, deployed' = deployed, facts \subseteq facts',
         NEW s, Complete(s)
  PROVE  Complete(s)'
<1>1. \A c : Gen(c)' = Gen(c)
  BY DEF Gen
<1>2. \A e : Done(e) => Done(e)'
  BY <1>1 DEF Done, Fact
<1>3. UpToDate(s)' = UpToDate(s)
  BY <1>1 DEF UpToDate, Built
<1>4. ~CannotStart(s) => ~CannotStart(s)'
  BY <1>1, <1>2 DEF CannotStart
<1>5. Pending(s) = {} => Pending(s)' = {}
  BY <1>2 DEF Pending
<1> QED
  BY <1>3, <1>4, <1>5 DEF Complete

\* A run that has reached a script has nothing missing before it.
LEMMA ReachedPrefix ==
  ASSUME DeployInv, NEW i \in DOMAIN Script, Reached(i), NEW j \in DOMAIN Script, j < i
  PROVE  Complete(Script[j])
<1>1. i \in Nat /\ j \in Nat /\ run.pos \in Nat
  <2>1. DOMAIN Script \subseteq Nat
    <3>1. DOMAIN Script = 1..Len(Script)
      BY OrderAssumption
    <3> QED
      BY <3>1
  <2> QED
    BY <2>1 DEF DeployInv, DeployTypeOK
<1>2. CASE j < run.pos
  BY <1>2 DEF Reached, DeployInv, NothingMissing
<1>3. CASE j >= run.pos
  BY <1>1, <1>3 DEF Reached
<1> QED
  BY <1>1, <1>2, <1>3

\* On the Sei networks the script a run has reached finds the contracts it gets, and its transaction the roles.
LEMMA ReachedCanRun ==
  ASSUME DeployInv, target \in SeiNetworks, NEW i \in DOMAIN Script, Reached(i)
  PROVE  ~FailRun(Script[i])
<1> DEFINE script == Script[i]
<1>1. script.tag \notin Skipped(target) /\ i \in Nat
  <2>1. DOMAIN Script = 1..Len(Script)
    BY OrderAssumption
  <2> QED
    BY <2>1 DEF Reached, Complete
<1>2. /\ \A d \in Range(script.gets) : DeployedBefore(target, i, d)
      /\ \A p \in DOMAIN script.after :
             /\ DeployedBefore(target, i + 1, script.after[p].on)
             /\ \A r \in script.after[p].needs : GrantedBefore(target, i, p, r)
  BY <1>1, SeiAssumption
<1>3. \A j \in DOMAIN Script : j < i /\ Script[j].tag \notin Skipped(target) =>
          UpToDate(Script[j]) /\ Pending(Script[j]) = {}
  BY ReachedPrefix DEF Complete
<1>4. 1..i \subseteq DOMAIN Script
  <2>1. DOMAIN Script = 1..Len(Script)
    BY OrderAssumption
  <2> QED
    BY <2>1, <1>1
<1>5. \A c : DeployedBefore(target, i, c) => Gen(c) > 0
  <2>1. SUFFICES ASSUME NEW c, DeployedBefore(target, i, c) PROVE Gen(c) > 0
    OBVIOUS
  <2>2. PICK j \in 1..(i - 1) : Script[j].tag \notin Skipped(target) /\ Script[j].name = c
    BY <2>1 DEF DeployedBefore
  <2>3. j \in DOMAIN Script /\ j < i
    BY <2>2, <1>1, <1>4
  <2>4. UpToDate(Script[j])
    BY <2>2, <2>3, <1>3
  <2> QED
    BY <2>1, <2>2, <2>4 DEF UpToDate, DeployedBefore
<1>6. \A d \in Range(script.gets) : Gen(d) # 0
  <2>1. TAKE d \in Range(script.gets)
  <2>2. Gen(d) > 0
    BY <1>2, <1>5
  <2> QED
    BY <2>2
<1>7. ~CannotStart(script)
  <2>1. Script[i].tag \notin NeedMarkets
    BY <1>1 DEF Skipped, NeedMarkets, SeiNetworks
  <2> HIDE DEF script
  <2>2. script.tag \notin NeedMarkets
    BY <2>1 DEF script
  <2> QED
    BY <1>6, <2>2 DEF CannotStart
<1>8. ASSUME UpToDate(script), Pending(script) # {}
      PROVE  Permitted(script.after[Min(Pending(script))])
  <2> DEFINE p == Min(Pending(script))
             e == script.after[p]
  <2>1. p \in Pending(script) /\ \A q \in Pending(script) : p <= q
    <3>1. Pending(script) \subseteq Nat
      BY OrderAssumption DEF Pending
    <3> QED
      BY <3>1, <1>8, MinIs
  <2>2. p \in DOMAIN script.after /\ p \in Nat
    <3>1. DOMAIN script.after \subseteq Nat
      BY OrderAssumption
    <3> QED
      BY <2>1, <3>1 DEF Pending
  <2> HIDE DEF p
  <2>3. Gen(e.on) > 0
    <3>1. DeployedBefore(target, i + 1, e.on)
      BY <2>2, <1>2
    <3>2. PICK j \in 1..((i + 1) - 1) : Script[j].tag \notin Skipped(target) /\ Script[j].name = e.on
      BY <3>1 DEF DeployedBefore
    <3>3. e.on # ""
      BY <3>1 DEF DeployedBefore
    <3>4. j = i \/ (j < i /\ j \in 1..i)
      BY <1>1
    <3>5. UpToDate(Script[j])
      <4>1. CASE j = i
        BY <4>1, <1>8
      <4>2. CASE j < i /\ j \in 1..i
        BY <4>2, <1>4, <1>3, <3>2
      <4> QED
        BY <4>1, <4>2, <3>4
    <3>6. Gen(Script[j].name) > 0
      BY <3>2, <3>3, <3>5 DEF UpToDate
    <3> QED
      BY <3>2, <3>6
  <2>4. ASSUME NEW r \in e.needs
        PROVE  HasRole(r[1], r[2])
    <3>1. GrantedBefore(target, i, p, r)
      BY <2>2, <2>4, <1>2
    <3>2. PICK j \in 1..i : \E q \in DOMAIN Script[j].after :
              /\ Script[j].tag \notin Skipped(target) /\ (j = i => q < p)
              /\ Script[j].after[q].on = "RoleStore"
              /\ <<Script[j].after[q].about, Script[j].after[q].what>> = r
      BY Zenon, <3>1 DEF GrantedBefore
    <3>3. PICK q \in DOMAIN Script[j].after :
              /\ Script[j].tag \notin Skipped(target) /\ (j = i => q < p)
              /\ Script[j].after[q].on = "RoleStore"
              /\ <<Script[j].after[q].about, Script[j].after[q].what>> = r
      BY Zenon, <3>2
    <3>4. q \notin Pending(Script[j])
      <4>1. CASE j = i
        <5>1. q \in Nat
          BY OrderAssumption, <4>1
        <5> QED
          BY <5>1, <4>1, <3>3, <2>1, <2>2
      <4>2. CASE j # i
        <5>1. j \in DOMAIN Script /\ j < i
          BY <4>2, <1>1, <1>4
        <5> QED
          BY <5>1, <1>3, <3>3
      <4> QED
        BY <4>1, <4>2
    <3>5. Done(Script[j].after[q])
      BY <3>3, <3>4 DEF Pending
    <3>6. r[1] = Script[j].after[q].about /\ r[2] = Script[j].after[q].what
      BY <3>3
    <3> QED
      BY <3>3, <3>5, <3>6 DEF Done, HasRole
  <2> HIDE DEF e
  <2>5. Permitted(e)
    BY <2>3, <2>4 DEF Permitted
  <2> QED
    BY <2>5 DEF e, p
<1> HIDE DEF script
<1>9. ~FailRun(script)
  BY <1>7, <1>8 DEF FailRun
<1> QED
  BY <1>9 DEF script

\* A run that ends before it is through promises nothing.
LEMMA IdleKeepsInv ==
  ASSUME DeployInv, run' = [run EXCEPT !.phase = "idle"], UNCHANGED <<target, deployed>>
  PROVE  DeployInv'
<1>1. run' \in [phase : {"idle", "running", "done", "failed"}, pos : Nat \ {0}] /\ run'.phase = "idle"
  BY DEF DeployInv, DeployTypeOK
<1>2. DeployTypeOK'
  BY <1>1 DEF DeployInv, DeployTypeOK
<1> QED
  BY <1>1, <1>2 DEF DeployInv, NothingMissing, RunNeverFails

\* Before the first run nothing was promised.
LEMMA DeployInitInv == DeployInit => DeployInv
<1> SUFFICES ASSUME DeployInit PROVE DeployInv
  OBVIOUS
<1>1. DOMAIN deployed = {}
  BY DEF DeployInit
<1>2. DeployTypeOK
  BY <1>1 DEF DeployInit, DeployTypeOK
<1> QED
  BY <1>2 DEF DeployInit, DeployInv, NothingMissing, RunNeverFails

\* Every step keeps it: a run, its end and its failure, and a release.
LEMMA DeployNextInv == DeployInv /\ [DeployNext]_deployVars => DeployInv'
<1> SUFFICES ASSUME DeployInv, [DeployNext]_deployVars PROVE DeployInv'
  OBVIOUS
<1>0. \A i \in DOMAIN Script : i \in Nat \ {0}
  <2>1. DOMAIN Script = 1..Len(Script)
    BY OrderAssumption
  <2> QED
    BY <2>1
<1>1. CASE StartRun
  <2>1. run' = [phase |-> "running", pos |-> 1] /\ UNCHANGED <<target, sources, deployed, facts>>
    BY <1>1 DEF StartRun
  <2>2. DeployTypeOK'
    BY <2>1 DEF DeployInv, DeployTypeOK
  <2>3. NothingMissing'
    <3>1. \A j \in DOMAIN Script : ~(j < 1)
      <4>1. DOMAIN Script = 1..Len(Script)
        BY OrderAssumption
      <4> QED
        BY <4>1
    <3> QED
      BY <2>1, <3>1 DEF NothingMissing
  <2> QED
    BY <2>1, <2>2, <2>3 DEF DeployInv, RunNeverFails
<1>2. ASSUME NEW i \in DOMAIN Script, Reached(i), Deploy(i, Script[i]) PROVE DeployInv'
  <2>1. run.phase = "running" /\ run' = [run EXCEPT !.pos = i] /\ target' = target
    BY <1>2 DEF Reached, Deploy
  <2>2. run' \in [phase : {"idle", "running", "done", "failed"}, pos : Nat \ {0}]
        /\ run'.phase = "running" /\ run'.pos = i
    BY <2>1, <1>0 DEF DeployInv, DeployTypeOK
  <2>3. DeployTypeOK'
    BY <1>2, <2>2, DeployedIs DEF DeployInv, DeployTypeOK
  <2>4. \A j \in DOMAIN Script : j < i => Complete(Script[j])'
    BY <1>2, ReachedPrefix, DeployKeepsComplete DEF DeployInv
  <2> QED
    BY <2>2, <2>3, <2>4 DEF DeployInv, NothingMissing, RunNeverFails
<1>3. ASSUME NEW i \in DOMAIN Script, Reached(i), SendEffect(i, Script[i]) PROVE DeployInv'
  <2>1. run.phase = "running" /\ run' = [run EXCEPT !.pos = i] /\ UNCHANGED <<target, sources, deployed>>
        /\ facts \subseteq facts'
    BY <1>3 DEF Reached, SendEffect
  <2>2. run' \in [phase : {"idle", "running", "done", "failed"}, pos : Nat \ {0}]
        /\ run'.phase = "running" /\ run'.pos = i
    BY <2>1, <1>0 DEF DeployInv, DeployTypeOK
  <2>3. DeployTypeOK'
    BY <2>1, <2>2 DEF DeployInv, DeployTypeOK
  <2>4. \A j \in DOMAIN Script : j < i => Complete(Script[j])'
    BY <1>3, <2>1, ReachedPrefix, FactsKeepComplete
  <2> QED
    BY <2>2, <2>3, <2>4 DEF DeployInv, NothingMissing, RunNeverFails
<1>4. ASSUME NEW i \in DOMAIN Script, Reached(i), FailRun(Script[i]) PROVE DeployInv'
  <2>1. run' = [run EXCEPT !.phase = "failed"] /\ UNCHANGED <<target, deployed>>
    BY <1>4 DEF FailRun
  <2>2. run' \in [phase : {"idle", "running", "done", "failed"}, pos : Nat \ {0}] /\ run'.phase = "failed"
    BY <2>1 DEF DeployInv, DeployTypeOK
  <2>3. DeployTypeOK'
    BY <2>1, <2>2 DEF DeployInv, DeployTypeOK
  <2>4. target \notin SeiNetworks
    BY <1>4, ReachedCanRun
  <2> QED
    BY <2>1, <2>2, <2>3, <2>4 DEF DeployInv, NothingMissing, RunNeverFails
<1>5. CASE FinishRun
  <2>1. run.phase = "running" /\ run' = [run EXCEPT !.phase = "done"]
        /\ UNCHANGED <<target, sources, deployed, facts>>
    BY <1>5 DEF FinishRun
  <2>2. run' \in [phase : {"idle", "running", "done", "failed"}, pos : Nat \ {0}] /\ run'.phase = "done"
    BY <2>1 DEF DeployInv, DeployTypeOK
  <2>3. DeployTypeOK'
    BY <2>1, <2>2 DEF DeployInv, DeployTypeOK
  <2>4. \A j \in DOMAIN Script : Complete(Script[j])
    <3>1. SUFFICES ASSUME NEW j \in DOMAIN Script PROVE Complete(Script[j])
      OBVIOUS
    <3>2. DOMAIN Script = 1..Len(Script)
      BY OrderAssumption
    <3>3. CASE j < run.pos
      BY <3>3, <2>1 DEF DeployInv, NothingMissing
    <3>4. CASE ~(j < run.pos)
      <4>1. run.pos \in Nat
        BY DEF DeployInv, DeployTypeOK
      <4>2. j \in run.pos..Len(Script)
        BY <3>2, <3>4, <4>1
      <4> QED
        BY <4>2, <1>5 DEF FinishRun
    <3> QED
      BY <3>3, <3>4
  <2>5. \A j \in DOMAIN Script : Complete(Script[j])'
    BY <2>1, <2>4, FactsKeepComplete
  <2> QED
    BY <2>1, <2>2, <2>3, <2>5 DEF DeployInv, NothingMissing, RunNeverFails
<1>6. CASE StopRun
  <2>1. run' = [run EXCEPT !.phase = "idle"] /\ UNCHANGED <<target, deployed>>
    BY <1>6 DEF StopRun
  <2> QED
    BY <2>1, IdleKeepsInv
<1>7. ASSUME NEW c \in Changeable, Release(c) PROVE DeployInv'
  <2>1. run' = [run EXCEPT !.phase = "idle"] /\ UNCHANGED <<target, deployed>>
    BY <1>7 DEF Release
  <2> QED
    BY <2>1, IdleKeepsInv
<1>9. CASE UNCHANGED deployVars
  <2>1. UNCHANGED <<target, sources, deployed, facts>> /\ run' = run
    BY <1>9 DEF deployVars
  <2>2. \A j \in DOMAIN Script : Complete(Script[j]) => Complete(Script[j])'
    BY <2>1, FactsKeepComplete
  <2> QED
    BY <2>1, <2>2 DEF DeployInv, DeployTypeOK, NothingMissing, RunNeverFails
<1> QED
  BY <1>1, <1>2, <1>3, <1>4, <1>5, <1>6, <1>7, <1>9 DEF DeployNext, RunScript

\* What is complete is linked with what is there now and has its roles.
LEMMA DeployInvImplies == DeployInv => BuiltOnCurrent /\ RolesReady /\ RunNeverFails
<1> SUFFICES ASSUME DeployInv PROVE BuiltOnCurrent /\ RolesReady /\ RunNeverFails
  OBVIOUS
<1>1. ASSUME run.phase = "done", NEW s \in RunScripts
      PROVE  UpToDate(s) /\ Pending(s) = {}
  <2>1. s \in Range(Script) /\ s.tag \notin Skipped(target)
    BY OrderAssumption DEF RunScripts
  <2>2. PICK i \in DOMAIN Script : Script[i] = s
    BY <2>1 DEF Range
  <2> QED
    BY <1>1, <2>1, <2>2 DEF DeployInv, NothingMissing, Complete
<1>2. BuiltOnCurrent
  BY <1>1 DEF BuiltOnCurrent, UpToDate
<1>3. RolesReady
  <2>1. SUFFICES ASSUME run.phase = "done", NEW s \in RunScripts, NEW i \in DOMAIN s.after,
                        s.after[i].on = "RoleStore"
                 PROVE  HasRole(s.after[i].about, s.after[i].what)
    BY DEF RolesReady
  <2>2. Done(s.after[i])
    BY <1>1, <2>1 DEF Pending
  <2> QED
    BY <2>1, <2>2 DEF Done, HasRole
<1> QED
  BY <1>2, <1>3 DEF DeployInv

\* Every deployment, from every start: in every state of it the invariant holds.
LEMMA DeployInvariant == DeploySpec => []DeployInv
BY DeployInitInv, DeployNextInv, PTL DEF DeploySpec

\* However often a run stops or fails and however many releases follow, after a run that was finished every
\* contract stands on the current deployments of what it was built with (createDeployFunction, which never
\* looks back).
THEOREM DeploymentBuiltOnCurrent == DeploySpec => []BuiltOnCurrent
BY DeployInvariant, DeployInvImplies, PTL

\* And every contract has the roles its script grants it, in the RoleStore there is now (grantRoleIfNotGranted).
THEOREM DeploymentRolesReady == DeploySpec => []RolesReady
BY DeployInvariant, DeployInvImplies, PTL

\* On the Sei networks no run fails, whatever the stops and releases before left behind: what an order that is
\* right for the first run needs is there in every later one.
THEOREM DeploymentNeverFails == DeploySpec => []RunNeverFails
BY DeployInvariant, DeployInvImplies, PTL

--------------------------------------------------------------------------------
(* The configuration of the markets: Configuration. *)

\* The greatest of a bounded set of numbers.
LEMMA MaxIs ==
  ASSUME NEW n \in Nat, NEW S \in SUBSET (1..n), S # {}
  PROVE  Max(S) \in S
<1> DEFINE D == {n - x : x \in S}
<1>1. D \in SUBSET Nat /\ D # {}
  <2>1. \A x \in S : x \in Nat /\ n - x \in Nat
    OBVIOUS
  <2>2. PICK x \in S : TRUE
    OBVIOUS
  <2> QED
    BY <2>1, <2>2
<1>2. PICK d \in D : \A y \in D : d <= y
  BY <1>1, MinIs
<1>3. PICK x \in S : d = n - x
  BY <1>2
<1>4. \A y \in S : x >= y
  <2>1. TAKE y \in S
  <2>2. n - x <= n - y
    BY <1>2, <1>3
  <2> QED
    BY <2>2
<1> QED
  BY <1>4 DEF Max

\* A step of the setup has nothing left to do, or another keeper undid what it did.
Kept(s) == Settled(s) \/ (IsSetting(s) /\ s.key \in drifted)

\* The phases and the position of a setup, and the writes of an update that was read.
ConfigTypeOK ==
    /\ net \in ConfigNetworks
    /\ setup \in [phase : SetupPhases, pos : Nat \ {0}, skip : BOOLEAN]
    /\ setup.pos <= Len(Plans[net]) + 1
    /\ update.phase = "read" =>
           /\ GeneralDefined(net) /\ update.script \in {"general", "markets"}
           /\ update.writes = [i \in DOMAIN update.writes |-> UpdateItems(update.script, net)[i]]
           /\ DOMAIN update.writes \subseteq DOMAIN UpdateItems(update.script, net)

\* Behind the position of a setup everything is kept, and after it everything.
PlanKept ==
    /\ setup.phase = "running" => \A j \in DOMAIN Plans[net] : j < setup.pos => Kept(Plans[net][j])
    /\ setup.phase = "done" => \A j \in DOMAIN Plans[net] : Kept(Plans[net][j])

ConfigInv == ConfigTypeOK /\ PlanKept

\* What was kept still is after any write of an agreed value, and after any change that is noted.
LEMMA WriteKeepsKept ==
  ASSUME NEW keys, NEW value, setup'.skip = setup.skip, created \subseteq created',
         store' = [k \in DOMAIN store \union keys |-> IF k \in keys THEN value[k] ELSE store[k]],
         NEW s, Kept(s) \/ (IsSetting(s) /\ s.key \in keys),
         drifted \ keys \subseteq drifted',
         IsSetting(s) /\ s.key \in keys =>
             \/ s.key \in drifted'
             \/ s.value = value[s.key] /\ (s.type = "uint" => s.value # Undefined)
  PROVE  Kept(s)'
<1>1. CASE ~IsSetting(s)
  BY <1>1 DEF Kept, Settled, IsSetting
<1>2. CASE IsSetting(s) /\ s.key \notin keys
  <2>1. Stored(s.type, s.key)' = Stored(s.type, s.key)
    BY <1>2 DEF Stored
  <2>2. CASE s.key \in drifted
    BY <1>2, <2>2 DEF Kept
  <2>3. CASE s.key \notin drifted
    BY <1>2, <2>1, <2>3 DEF Kept, Settled, Written, IsSetting
  <2> QED
    BY <2>2, <2>3
<1>3. CASE IsSetting(s) /\ s.key \in keys
  <2>1. CASE s.key \in drifted'
    BY <1>3, <2>1 DEF Kept
  <2>2. CASE s.value = value[s.key] /\ (s.type = "uint" => s.value # Undefined)
    <3>1. Stored(s.type, s.key)' = s.value
      BY <1>3, <2>2 DEF Stored
    <3> QED
      BY <1>3, <2>2, <3>1 DEF Kept, Settled, Written, IsSetting, SameUint
  <2> QED
    BY <1>3, <2>1, <2>2
<1> QED
  BY <1>1, <1>2, <1>3

\* What was kept still is when nothing is written.
LEMMA NothingWrittenKept ==
  ASSUME setup'.skip = setup.skip, created \subseteq created', UNCHANGED <<store, drifted>>, NEW s, Kept(s)
  PROVE  Kept(s)'
<1>1. Stored(s.type, s.key)' = Stored(s.type, s.key)
  BY DEF Stored
<1>2. Written(s)' = Written(s)
  BY <1>1 DEF Written
<1> QED
  BY <1>2 DEF Kept, Settled

\* The next step is the first with something to do.
LEMMA NextStepIs ==
  ASSUME NEW T, NEW plan \in Seq(T), NEW from \in Nat \ {0}, from <= Len(plan) + 1
  PROVE  LET i == NextStep(plan, from)
         IN  /\ i \in from..(Len(plan) + 1)
             /\ i <= Len(plan) => ~Settled(plan[i])
             /\ \A j \in from..(i - 1) : Settled(plan[j])
<1> DEFINE S == {i \in from..(Len(plan) + 1) : i <= Len(plan) => ~Settled(plan[i])}
<1>1. Len(plan) \in Nat
  OBVIOUS
<1>2. S \in SUBSET Nat /\ Len(plan) + 1 \in S
  BY <1>1
<1>3. PICK m \in S : \A y \in S : m <= y
  <2> HIDE DEF S
  <2> QED
    BY <1>2, MinIs
<1>4. \A j \in from..(m - 1) : Settled(plan[j])
  <2>1. TAKE j \in from..(m - 1)
  <2>2. j \in from..(Len(plan) + 1) /\ j <= Len(plan) /\ ~(m <= j)
    BY <1>1, <1>3
  <2>3. j \notin S
    BY <2>2, <1>3
  <2> QED
    BY <2>2, <2>3
<1>5. m \in from..(Len(plan) + 1) /\ (m <= Len(plan) => ~Settled(plan[m]))
  BY <1>3
<1> QED
  BY <1>4, <1>5 DEF NextStep

\* What the lists agree on, for the two lists as they are used.
LEMMA AgreeingLists ==
  ASSUME ConfigTypeOK, \A n \in ConfigNetworks : ListsAgree(n)
  PROVE  /\ Plans[net] \in Seq(Range(Plans[net]))
         /\ \A s, t \in Range(Plans[net]) : IsSetting(s) /\ IsSetting(t) => SameValue(s, t)
         /\ update.phase = "read" =>
                /\ \E n \in Nat : DOMAIN update.writes \subseteq 1..n
                /\ \A s \in Range(Plans[net]), t \in Range(update.writes) : IsSetting(s) => SameValue(s, t)
<1>1. ListsAgree(net)
  BY DEF ConfigTypeOK
<1>2. /\ Plans[net] \in Seq(Range(Plans[net]))
      /\ \A s, t \in Range(Plans[net]) : IsSetting(s) /\ IsSetting(t) => SameValue(s, t)
  BY Zenon, <1>1 DEF ListsAgree
<1>3. ASSUME update.phase = "read"
      PROVE  /\ \E n \in Nat : DOMAIN update.writes \subseteq 1..n
             /\ \A s \in Range(Plans[net]), t \in Range(update.writes) : IsSetting(s) => SameValue(s, t)
  <2> DEFINE items == UpdateItems(update.script, net)
  <2>1. /\ GeneralDefined(net) /\ update.script \in {"general", "markets"}
        /\ update.writes = [i \in DOMAIN update.writes |-> items[i]]
        /\ DOMAIN update.writes \subseteq DOMAIN items
    BY <1>3 DEF ConfigTypeOK
  <2>2. /\ items \in Seq(Range(items))
        /\ \A s \in Range(Plans[net]), t \in Range(items) : IsSetting(s) => SameValue(s, t)
    BY Zenon, <1>1, <2>1 DEF ListsAgree
  <2> HIDE DEF items
  <2>3. Len(items) \in Nat /\ DOMAIN items = 1..Len(items)
    BY <2>2
  <2>4. Range(update.writes) \subseteq Range(items)
    BY <2>1 DEF Range
  <2> QED
    BY <2>1, <2>2, <2>3, <2>4
<1> QED
  BY <1>2, <1>3

\* One transaction of the setup keeps each setting, and writes its own.
LEMMA SendKeeps ==
  ASSUME ConfigInv, \A n \in ConfigNetworks : ListsAgree(n), NEW i \in DOMAIN Plans[net],
         SendTransaction(Plans[net], i), NEW s \in Range(Plans[net]), Kept(s) \/ s = Plans[net][i]
  PROVE  Kept(s)'
<1> DEFINE t == Plans[net][i]
<1>1. t \in Range(Plans[net]) /\ ~Throws(t)
  BY DEF Range, SendTransaction
<1>2. setup'.skip = setup.skip
  BY DEF SendTransaction, ConfigInv, ConfigTypeOK
<1>3. CASE t.type = "create"
  <2>1. created' = created \union {t.key} /\ UNCHANGED <<store, drifted>>
    BY <1>3 DEF SendTransaction
  <2>2. CASE s = t
    BY <1>3, <2>1, <2>2 DEF Kept, Settled
  <2>3. CASE Kept(s)
    <3> HIDE DEF t
    <3> QED
      BY <1>2, <2>1, <2>3, NothingWrittenKept
  <2> QED
    BY <2>2, <2>3
<1>4. CASE t.type # "create"
  <2> DEFINE keys == {t.key}
             value == [k \in keys |-> t.value]
  <2>1. /\ store' = [k \in DOMAIN store \union keys |-> IF k \in keys THEN value[k] ELSE store[k]]
        /\ drifted' = drifted \ keys /\ created' = created
    <3>1. /\ store' = [k \in DOMAIN store \union {t.key} |-> IF k = t.key THEN t.value ELSE store[k]]
          /\ drifted' = drifted \ keys /\ created' = created
      BY <1>4 DEF SendTransaction
    <3> HIDE DEF t
    <3> QED
      BY <3>1
  <2>2. IsSetting(t) /\ (t.type = "uint" => t.value # Undefined)
    BY <1>1, <1>4 DEF Throws, IsSetting
  <2>3. IsSetting(s) => SameValue(s, t)
    BY <1>1, <2>2, AgreeingLists DEF ConfigInv
  <2>4. Kept(s) \/ s = t
    OBVIOUS
  <2> HIDE DEF t
  <2>5. IsSetting(s) /\ s.key \in keys => s.value = value[s.key] /\ (s.type = "uint" => s.value # Undefined)
    BY <2>2, <2>3 DEF SameValue
  <2>6. Kept(s) \/ (IsSetting(s) /\ s.key \in keys)
    BY <2>2, <2>4
  <2> HIDE DEF keys, value
  <2>7. created \subseteq created' /\ drifted \ keys \subseteq drifted'
    BY <2>1
  <2> QED
    BY <1>2, <2>1, <2>5, <2>6, <2>7, WriteKeepsKept
<1> QED
  BY <1>3, <1>4

\* One transaction of the setup keeps what was kept and completes its own step.
LEMMA SendKeepsInv ==
  ASSUME ConfigInv, \A n \in ConfigNetworks : ListsAgree(n), setup.phase = "running",
         NEW i, i = NextStep(Plans[net], setup.pos), SendTransaction(Plans[net], i)
  PROVE  ConfigInv'
<1> DEFINE plan == Plans[net]
<1>1. plan \in Seq(Range(plan)) /\ Len(plan) \in Nat /\ DOMAIN plan = 1..Len(plan)
  <2>1. plan \in Seq(Range(plan))
    BY AgreeingLists DEF ConfigInv
  <2> HIDE DEF plan
  <2> QED
    BY <2>1
<1>2. /\ setup.pos \in Nat \ {0} /\ setup.pos <= Len(plan) + 1
      /\ setup \in [phase : SetupPhases, pos : Nat \ {0}, skip : BOOLEAN]
  BY DEF ConfigInv, ConfigTypeOK
<1>3. /\ i \in setup.pos..(Len(plan) + 1)
      /\ \A j \in setup.pos..(i - 1) : Settled(plan[j])
  <2> HIDE DEF plan
  <2>1. i = NextStep(plan, setup.pos)
    BY DEF plan
  <2> QED
    BY <1>1, <1>2, <2>1, NextStepIs
<1>4. /\ i <= Len(plan) /\ ~Throws(plan[i]) /\ setup' = [setup EXCEPT !.pos = i + 1]
      /\ UNCHANGED <<net, update>>
  BY DEF SendTransaction
<1>5. i \in DOMAIN plan /\ plan[i] \in Range(plan) /\ i \in Nat \ {0}
  <2> HIDE DEF plan
  <2>1. i \in DOMAIN plan /\ i \in Nat \ {0}
    BY <1>1, <1>2, <1>3, <1>4
  <2> QED
    BY <2>1 DEF Range
<1>6. \A j \in DOMAIN plan : j < i => Kept(plan[j])
  <2>1. SUFFICES ASSUME NEW j \in DOMAIN plan, j < i PROVE Kept(plan[j])
    OBVIOUS
  <2>2. CASE j < setup.pos
    BY <2>1, <2>2 DEF ConfigInv, PlanKept
  <2>3. CASE ~(j < setup.pos)
    <3>1. j \in setup.pos..(i - 1)
      <4> HIDE DEF plan
      <4> QED
        BY <1>1, <1>2, <1>3, <2>1, <2>3
    <3> QED
      BY <1>3, <3>1 DEF Kept
  <2> QED
    BY <2>2, <2>3
<1>7. setup'.skip = setup.skip /\ setup'.phase = "running" /\ setup'.pos = i + 1
      /\ setup' \in [phase : SetupPhases, pos : Nat \ {0}, skip : BOOLEAN]
  BY <1>2, <1>4, <1>5 DEF SetupPhases
<1>8. ASSUME NEW j \in DOMAIN plan, Kept(plan[j]) \/ j = i
      PROVE  Kept(plan[j])'
  <2>1. plan' = plan /\ plan[j] \in Range(plan)
    BY <1>4, <1>8 DEF Range
  <2> QED
    BY <1>5, <1>8, <2>1, SendKeeps
<1>9. ConfigTypeOK'
  <2>1. i + 1 <= Len(plan) + 1
    <3> HIDE DEF plan
    <3> QED
      BY <1>1, <1>4, <1>5
  <2> QED
    BY <1>4, <1>7, <2>1 DEF ConfigInv, ConfigTypeOK
<1>10. PlanKept'
  <2>1. \A j \in DOMAIN plan : j < i + 1 => Kept(plan[j])'
    <3>1. SUFFICES ASSUME NEW j \in DOMAIN plan, j < i + 1 PROVE Kept(plan[j])'
      OBVIOUS
    <3>2. j < i \/ j = i
      <4> HIDE DEF plan
      <4> QED
        BY <1>1, <1>5, <3>1
    <3> QED
      BY <3>2, <1>6, <1>8
  <2> QED
    BY <2>1, <1>4, <1>7 DEF PlanKept
<1> QED
  BY <1>9, <1>10 DEF ConfigInv

\* Nothing is promised of a setup that is neither running nor done, and a step that leaves it alone and keeps
\* each of its settings keeps the promise.
LEMMA SetupAlone ==
  ASSUME ConfigInv, ConfigTypeOK', UNCHANGED <<net, setup>>,
         \A s \in Range(Plans[net]) : Kept(s) => Kept(s)'
  PROVE  ConfigInv'
<1>1. \A j \in DOMAIN Plans[net] : Plans[net][j] \in Range(Plans[net])
  BY DEF Range
<1> QED
  BY <1>1 DEF ConfigInv, PlanKept

\* The multicall of an update writes what the setup would.
LEMMA UpdateKeeps ==
  ASSUME ConfigInv, \A n \in ConfigNetworks : ListsAgree(n), WriteUpdate,
         NEW s \in Range(Plans[net]), Kept(s)
  PROVE  Kept(s)'
<1>1. UNCHANGED <<net, created, setup>> /\ update.phase = "read"
  BY DEF WriteUpdate
<1>2. CASE ~\A t \in Range(update.writes) : ~Throws(t) /\ setUintAccepted(t)
  <2>1. UNCHANGED <<store, drifted>>
    BY <1>2 DEF WriteUpdate
  <2> QED
    BY <1>1, <2>1, NothingWrittenKept
<1>3. CASE \A t \in Range(update.writes) : ~Throws(t) /\ setUintAccepted(t)
  <2> DEFINE writes == update.writes
             keys == {t.key : t \in Range(writes)}
             value == [k \in keys |-> LastWrite(writes, k).value]
  <2>1. /\ store' = [k \in DOMAIN store \union keys |->
                        IF k \in keys THEN LastWrite(writes, k).value ELSE store[k]]
        /\ drifted' = drifted \ keys
    BY <1>3 DEF WriteUpdate
  <2>2. PICK n \in Nat : DOMAIN writes \subseteq 1..n
    BY <1>1, AgreeingLists DEF ConfigInv
  <2>3. \A t \in Range(writes) : IsSetting(s) => SameValue(s, t)
    BY <1>1, AgreeingLists DEF ConfigInv
  <2>4. \A t \in Range(writes) : t.type = "uint" => t.value # Undefined
    BY <1>3 DEF Throws
  <2> HIDE DEF writes
  <2>5. ASSUME NEW k \in keys
        PROVE  LastWrite(writes, k) \in Range(writes) /\ LastWrite(writes, k).key = k
    <3> DEFINE S == {i \in DOMAIN writes : writes[i].key = k}
    <3>1. S \in SUBSET (1..n) /\ S # {}
      BY <2>2, <2>5 DEF Range
    <3>2. Max(S) \in S
      <4> HIDE DEF S
      <4> QED
        BY <3>1, MaxIs
    <3> QED
      BY <3>2 DEF LastWrite, Range
  <2>6. IsSetting(s) /\ s.key \in keys => s.value = value[s.key] /\ (s.type = "uint" => s.value # Undefined)
    <3>1. SUFFICES ASSUME IsSetting(s), s.key \in keys
                   PROVE  s.value = value[s.key] /\ (s.type = "uint" => s.value # Undefined)
      OBVIOUS
    <3> DEFINE t == LastWrite(writes, s.key)
    <3>2. t \in Range(writes) /\ t.key = s.key
      BY <3>1, <2>5
    <3>3. value[s.key] = t.value
      BY <3>1
    <3> HIDE DEF t, keys, value
    <3>4. s.type = t.type /\ s.value = t.value
      BY <3>1, <3>2, <2>3 DEF SameValue
    <3> QED
      BY <3>2, <3>3, <3>4, <2>4
  <2>7. store' = [k \in DOMAIN store \union keys |-> IF k \in keys THEN value[k] ELSE store[k]]
    BY <2>1
  <2>8. setup'.skip = setup.skip /\ created \subseteq created' /\ drifted \ keys \subseteq drifted'
    BY <1>1, <2>1
  <2> HIDE DEF keys, value
  <2> QED
    BY <2>6, <2>7, <2>8, WriteKeepsKept
<1> QED
  BY <1>2, <1>3

\* The multicall of updateGeneralConfig.ts or updateMarketConfig.ts leaves what a setup has done done.
LEMMA UpdateKeepsInv ==
  ASSUME ConfigInv, \A n \in ConfigNetworks : ListsAgree(n), WriteUpdate
  PROVE  ConfigInv'
<1>1. UNCHANGED <<net, setup>> /\ update'.phase # "read"
  <2>1. CASE update' = [update EXCEPT !.phase = "done"]
    BY <2>1 DEF WriteUpdate
  <2>2. CASE update' = [update EXCEPT !.phase = "failed"]
    BY <2>2 DEF WriteUpdate
  <2> QED
    BY <2>1, <2>2 DEF WriteUpdate
<1>2. ConfigTypeOK'
  BY <1>1 DEF ConfigInv, ConfigTypeOK
<1> QED
  BY <1>1, <1>2, UpdateKeeps, SetupAlone

\* Another keeper's change is noted.
LEMMA KeeperKeeps ==
  ASSUME NEW m, KeeperChange(m), NEW s, Kept(s)
  PROVE  Kept(s)'
<1> DEFINE keys == {PoolKey(m)}
           value == [k \in keys |-> Float(7, 0)]
<1>1. /\ UNCHANGED <<created, setup>>
      /\ store' = [k \in DOMAIN store \union {PoolKey(m)} |-> IF k = PoolKey(m) THEN Float(7, 0) ELSE store[k]]
      /\ drifted' = drifted \union keys
  BY Zenon DEF KeeperChange
<1>2. store' = [k \in DOMAIN store \union keys |-> IF k \in keys THEN value[k] ELSE store[k]]
  BY <1>1
<1>3. /\ setup'.skip = setup.skip /\ created \subseteq created' /\ drifted \ keys \subseteq drifted'
      /\ keys \subseteq drifted'
  BY <1>1
<1> HIDE DEF keys, value
<1> QED
  BY <1>2, <1>3, WriteKeepsKept

\* So does a keeper who changes a market's limit by hand: the change is noted as drift.
LEMMA KeeperKeepsInv ==
  ASSUME ConfigInv, NEW m, KeeperChange(m)
  PROVE  ConfigInv'
<1>1. UNCHANGED <<net, setup, update>>
  BY Zenon DEF KeeperChange
<1>2. ConfigTypeOK'
  BY <1>1 DEF ConfigInv, ConfigTypeOK
<1> QED
  BY <1>1, <1>2, KeeperKeeps, SetupAlone

\* Before the first run of the setup nothing is promised.
LEMMA ConfigInitInv ==
  ASSUME ConfigInit, \A n \in ConfigNetworks : ListsAgree(n)
  PROVE  ConfigInv
<1>1. Plans[net] \in Seq(Range(Plans[net]))
  BY Zenon DEF ConfigInit, ListsAgree
<1>2. Len(Plans[net]) \in Nat
  BY <1>1
<1>3. ConfigTypeOK
  BY <1>2 DEF ConfigInit, ConfigTypeOK, SetupPhases, NoUpdate
<1> QED
  BY <1>3 DEF ConfigInit, ConfigInv, PlanKept

\* Every step of the setup, of the update scripts and of the keeper leaves what a setup has done done.
LEMMA ConfigNextInv ==
  ASSUME ConfigInv, \A n \in ConfigNetworks : ListsAgree(n), [ConfigNext]_configVars
  PROVE  ConfigInv'
<1>1. ASSUME NEW skip \in BOOLEAN, StartSetup(skip) PROVE ConfigInv'
  <2>1. /\ setup' = [phase |-> "running", pos |-> 1, skip |-> skip] /\ update' = NoUpdate /\ net' = net
    BY <1>1 DEF StartSetup
  <2>2. Plans[net] \in Seq(Range(Plans[net]))
    BY AgreeingLists DEF ConfigInv
  <2>3. Len(Plans[net]) \in Nat /\ \A j \in DOMAIN Plans[net] : ~(j < 1)
    <3> DEFINE plan == Plans[net]
    <3> HIDE DEF plan
    <3>1. plan \in Seq(Range(plan))
      BY <2>2 DEF plan
    <3>2. Len(plan) \in Nat /\ \A j \in DOMAIN plan : ~(j < 1)
      BY <3>1
    <3> QED
      BY <3>2 DEF plan
  <2>4. ConfigTypeOK'
    BY <2>1, <2>3 DEF ConfigInv, ConfigTypeOK, SetupPhases, NoUpdate
  <2>5. PlanKept'
    BY <2>1, <2>3 DEF PlanKept
  <2> QED
    BY <2>4, <2>5 DEF ConfigInv
<1>2. ASSUME setup.phase = "running", NEW i, i = NextStep(Plans[net], setup.pos), FinishSetup(Plans[net], i)
      PROVE  ConfigInv'
  <2> DEFINE plan == Plans[net]
  <2>1. /\ setup' = [setup EXCEPT !.phase = "done"] /\ UNCHANGED <<net, store, created, update, drifted>>
        /\ i > Len(plan)
    BY <1>2 DEF FinishSetup
  <2>2. plan \in Seq(Range(plan))
    BY AgreeingLists DEF ConfigInv
  <2>3. setup.pos \in Nat \ {0} /\ setup.pos <= Len(plan) + 1
        /\ setup \in [phase : SetupPhases, pos : Nat \ {0}, skip : BOOLEAN]
    BY DEF ConfigInv, ConfigTypeOK
  <2>4. \A j \in setup.pos..(i - 1) : Settled(plan[j])
    <3> HIDE DEF plan
    <3>1. i = NextStep(plan, setup.pos)
      BY <1>2 DEF plan
    <3> QED
      BY <2>2, <2>3, <3>1, NextStepIs
  <2>5. i \in Nat
    <3> HIDE DEF plan
    <3>1. i = NextStep(plan, setup.pos)
      BY <1>2 DEF plan
    <3>2. i \in setup.pos..(Len(plan) + 1)
      BY <2>2, <2>3, <3>1, NextStepIs
    <3> QED
      BY <2>2, <2>3, <3>2
  <2>6. \A j \in DOMAIN plan : Kept(plan[j])
    <3>1. SUFFICES ASSUME NEW j \in DOMAIN plan PROVE Kept(plan[j])
      OBVIOUS
    <3>2. CASE j < setup.pos
      BY <1>2, <3>2 DEF ConfigInv, PlanKept
    <3>3. CASE ~(j < setup.pos)
      <4>1. j \in setup.pos..(i - 1)
        <5> HIDE DEF plan
        <5> QED
          BY <2>1, <2>2, <2>3, <2>5, <3>1, <3>3
      <4> QED
        BY <2>4, <4>1 DEF Kept
    <3> QED
      BY <3>2, <3>3
  <2>7. setup' \in [phase : SetupPhases, pos : Nat \ {0}, skip : BOOLEAN] /\ setup'.skip = setup.skip
        /\ setup'.phase = "done" /\ setup'.pos = setup.pos
    BY <2>1, <2>3 DEF SetupPhases
  <2>8. ConfigTypeOK'
    BY <2>1, <2>7 DEF ConfigInv, ConfigTypeOK
  <2>9. \A j \in DOMAIN plan : Kept(plan[j])'
    <3>1. TAKE j \in DOMAIN plan
    <3>2. created \subseteq created' /\ Kept(plan[j]) /\ plan' = plan
      BY <2>1, <2>6
    <3> HIDE DEF plan
    <3> QED
      BY <2>1, <2>7, <3>2, NothingWrittenKept
  <2> QED
    BY <2>1, <2>7, <2>8, <2>9 DEF ConfigInv, PlanKept
<1>3. ASSUME setup' = [setup EXCEPT !.phase = "failed"] \/ setup' = [setup EXCEPT !.phase = "idle"],
             UNCHANGED <<net, update>>
      PROVE  ConfigInv'
  <2>1. setup \in [phase : SetupPhases, pos : Nat \ {0}, skip : BOOLEAN]
    BY DEF ConfigInv, ConfigTypeOK
  <2>2. /\ setup' \in [phase : SetupPhases, pos : Nat \ {0}, skip : BOOLEAN] /\ setup'.pos = setup.pos
        /\ setup'.phase \notin {"running", "done"}
    BY <1>3, <2>1 DEF SetupPhases
  <2>3. ConfigTypeOK'
    BY <1>3, <2>2 DEF ConfigInv, ConfigTypeOK
  <2> QED
    BY <2>2, <2>3 DEF ConfigInv, PlanKept
<1>4. CASE SetupNext(Plans[net])
  <2>1. ASSUME NEW i, FailSetup(Plans[net], i) PROVE ConfigInv'
    BY <1>3, <2>1 DEF FailSetup
  <2>2. CASE KillSetup
    BY <1>3, <2>2 DEF KillSetup
  <2> QED
    BY <1>1, <1>2, <1>4, <2>1, <2>2, SendKeepsInv DEF SetupNext
<1>5. ASSUME NEW script \in {"general", "markets"}, NEW fromChain \in BOOLEAN, NEW markets,
             ReadForUpdate(script, markets, fromChain)
      PROVE  ConfigInv'
  <2>1. UNCHANGED <<net, store, created, setup, drifted>>
    BY <1>5 DEF ReadForUpdate
  <2>2. CASE CannotUpdate(script, markets, fromChain)
    <3>1. update'.phase # "read"
      BY <1>5, <2>2 DEF ReadForUpdate
    <3>2. ConfigTypeOK'
      BY <2>1, <3>1 DEF ConfigInv, ConfigTypeOK
    <3> QED
      BY <2>1, <3>2, SetupAlone, NothingWrittenKept
  <2>3. CASE ~CannotUpdate(script, markets, fromChain)
    <3> DEFINE items == UpdateItems(script, net)
    <3>1. GeneralDefined(net)
      BY <2>3 DEF CannotUpdate
    <3>2. update' = [phase |-> "read", script |-> script, fromChain |-> fromChain, writes |-> Differing(items)]
      BY <1>5, <2>3 DEF ReadForUpdate
    <3>3. /\ Differing(items) = [i \in DOMAIN Differing(items) |-> items[i]]
          /\ DOMAIN Differing(items) \subseteq DOMAIN items
      <4> HIDE DEF items
      <4> QED
        BY DEF Differing
    <3>4. update'.script = script /\ update'.writes = Differing(items) /\ net' = net
      BY <2>1, <3>2
    <3>5. ConfigTypeOK'
      BY <1>5, <2>1, <3>1, <3>3, <3>4 DEF ConfigInv, ConfigTypeOK
    <3> QED
      BY <2>1, <3>5, SetupAlone, NothingWrittenKept
  <2> QED
    BY <2>2, <2>3
<1>6. CASE UNCHANGED configVars
  <2>1. UNCHANGED <<net, store, created, setup, update, drifted>>
    BY <1>6 DEF configVars
  <2>2. ConfigTypeOK'
    BY <2>1 DEF ConfigInv, ConfigTypeOK
  <2> QED
    BY <2>1, <2>2, SetupAlone, NothingWrittenKept
<1>7. CASE UpdateNext(getMarkets(net))
  BY <1>5, <1>7, UpdateKeepsInv, KeeperKeepsInv DEF UpdateNext
<1> QED
  BY <1>4, <1>6, <1>7 DEF ConfigNext

\* A finished deployAndConfigureMarkets.ts leaves every setting of its lists as the lists say, or changed by a
\* keeper since, however often it was stopped and whatever updateGeneralConfig.ts and updateMarketConfig.ts did
\* meanwhile: when the lists of the two agree, no order of their transactions undoes a setting.
THEOREM SetupKeepsWhatAgrees ==
  ASSUME \A n \in ConfigNetworks : ListsAgree(n)
  PROVE  ConfigSpec => []ConfiguredAsWritten
<1>1. ConfigInit => ConfigInv
  BY ConfigInitInv
<1>2. ConfigInv /\ [ConfigNext]_configVars => ConfigInv'
  BY ConfigNextInv
<1>3. ConfigInv => ConfiguredAsWritten
  BY DEF ConfigInv, PlanKept, ConfiguredAsWritten, Kept, Range
<1> QED
  BY <1>1, <1>2, <1>3, PTL DEF ConfigSpec

\* What keeps a market closed until it is ready.  A step up to which the setup does not write the pool limit of
\* a market has behind it what must be kept when the limit is there (PoolsLast); only the limit of the first
\* market drifts; nothing but the listed keys is written; and the update of the markets waits for the setup.
PoolsLast ==
    \A m \in Range(getMarkets(net)), p \in DOMAIN Plans[net] :
        PoolKey(m) \in DOMAIN store /\ (\A j \in 1..(p - 1) : Plans[net][j].key # PoolKey(m)) =>
            \A j \in 1..(p - 1) : IsSetting(Plans[net][j]) => Kept(Plans[net][j])
WritesListed ==
    /\ drifted \subseteq {PoolKey(Head(getMarkets(net)))}
    /\ GeneralDefined(net) => DOMAIN store \subseteq WritableKeys(net)
    /\ ~GeneralDefined(net) => DOMAIN store = {} /\ setup.pos = 1 /\ setup.phase # "done"
UpdateWaits ==
    /\ GeneralDefined(net) /\ setup.phase = "failed" => OnChain(getMarkets(net)) # Range(getMarkets(net))
    /\ update.phase = "read" =>
           /\ setup.phase \in {"done", "failed"}
           /\ update.script = "markets" => setup.phase = "done"

OpenInv == ConfigInv /\ PoolsLast /\ WritesListed /\ UpdateWaits

\* The limits stay last when each setting is kept and those before a limit are kept when it is written.
LEMMA PoolsStayLast ==
  ASSUME PoolsLast, net' = net,
         \A s \in Range(Plans[net]) : IsSetting(s) /\ Kept(s) => Kept(s)',
         Plans[net] \in Seq(Range(Plans[net])),
         \A m \in Range(getMarkets(net)), p \in DOMAIN Plans[net] :
             /\ PoolKey(m) \in DOMAIN store' \ DOMAIN store
             /\ \A j \in 1..(p - 1) : Plans[net][j].key # PoolKey(m)
             => \A j \in 1..(p - 1) : IsSetting(Plans[net][j]) => Kept(Plans[net][j])'
  PROVE  PoolsLast'
<1> DEFINE plan == Plans[net]
<1>1. SUFFICES ASSUME NEW m \in Range(getMarkets(net)), NEW p \in DOMAIN plan, PoolKey(m) \in DOMAIN store',
                      \A j \in 1..(p - 1) : plan[j].key # PoolKey(m),
                      NEW j \in 1..(p - 1), IsSetting(plan[j])
               PROVE  Kept(plan[j])'
  BY DEF PoolsLast
<1>2. CASE PoolKey(m) \notin DOMAIN store
  BY <1>1, <1>2
<1>3. CASE PoolKey(m) \in DOMAIN store
  <2>1. Kept(plan[j])
    BY <1>1, <1>3 DEF PoolsLast
  <2>2. j \in DOMAIN plan
    <3> HIDE DEF plan
    <3>1. plan \in Seq(Range(plan))
      BY DEF plan
    <3> QED
      BY <1>1, <3>1
  <2>3. plan[j] \in Range(plan)
    BY <2>2 DEF Range
  <2> QED
    BY <1>1, <2>1, <2>3
<1> QED
  BY <1>2, <1>3

\* Before the first run no market has a limit and no update has read anything.
LEMMA OpenInitInv ==
  ASSUME ConfigInit, \A n \in ConfigNetworks : ListsAgree(n)
  PROVE  OpenInv
<1>1. ConfigInv
  BY ConfigInitInv
<1>2. DOMAIN store = {} /\ drifted = {} /\ setup = [phase |-> "idle", pos |-> 1, skip |-> FALSE]
      /\ update.phase = "idle"
  BY DEF ConfigInit, NoUpdate
<1> QED
  BY <1>1, <1>2 DEF OpenInv, PoolsLast, WritesListed, UpdateWaits

\* A step that writes nothing keeps the limits last, also a new start with new markets to come.
LEMMA NothingWrittenLast ==
  ASSUME OpenInv, \A n \in ConfigNetworks : ListsAgree(n), UNCHANGED <<net, store, drifted>>
  PROVE  PoolsLast'
<1>1. \A s : IsSetting(s) /\ Kept(s) => Kept(s)'
  <2>1. SUFFICES ASSUME NEW s, IsSetting(s), Kept(s) PROVE Kept(s)'
    OBVIOUS
  <2>2. Written(s)' = Written(s)
    BY DEF Written, Stored
  <2> QED
    BY <2>1, <2>2 DEF Kept, Settled, IsSetting
<1>2. Plans[net] \in Seq(Range(Plans[net]))
  BY AgreeingLists DEF OpenInv, ConfigInv
<1> QED
  BY <1>1, <1>2, PoolsStayLast DEF OpenInv

\* The step the setup sends next: everything before it is kept.
LEMMA SendingNext ==
  ASSUME ConfigInv, \A n \in ConfigNetworks : ListsAgree(n), setup.phase = "running",
         NEW i, i = NextStep(Plans[net], setup.pos)
  PROVE  /\ i \in setup.pos..(Len(Plans[net]) + 1)
         /\ i <= Len(Plans[net]) => ~Settled(Plans[net][i])
         /\ \A j \in setup.pos..(i - 1) : Settled(Plans[net][j])
         /\ setup.pos \in Nat \ {0} /\ setup.pos <= Len(Plans[net]) + 1
         /\ Len(Plans[net]) \in Nat /\ DOMAIN Plans[net] = 1..Len(Plans[net])
         /\ \A j \in DOMAIN Plans[net] : j < i => Kept(Plans[net][j])
<1> DEFINE plan == Plans[net]
<1>1. plan \in Seq(Range(plan))
  BY AgreeingLists DEF ConfigInv
<1>2. setup.pos \in Nat \ {0} /\ setup.pos <= Len(plan) + 1
  BY DEF ConfigInv, ConfigTypeOK
<1>3. \A j \in DOMAIN plan : j < setup.pos => Kept(plan[j])
  BY DEF ConfigInv, PlanKept
<1>4. i = NextStep(plan, setup.pos)
  OBVIOUS
<1> HIDE DEF plan
<1>5. /\ i \in setup.pos..(Len(plan) + 1)
      /\ i <= Len(plan) => ~Settled(plan[i])
      /\ \A j \in setup.pos..(i - 1) : Settled(plan[j])
  BY <1>1, <1>2, <1>4, NextStepIs
<1>6. Len(plan) \in Nat /\ DOMAIN plan = 1..Len(plan)
  BY <1>1
<1>7. \A j \in DOMAIN plan : j < i => Kept(plan[j])
  <2>1. SUFFICES ASSUME NEW j \in DOMAIN plan, j < i PROVE Kept(plan[j])
    OBVIOUS
  <2>2. j < setup.pos \/ j \in setup.pos..(i - 1)
    BY <1>2, <1>5, <1>6, <2>1
  <2> QED
    BY <1>3, <1>5, <2>1, <2>2 DEF Kept
<1> QED
  BY <1>2, <1>5, <1>6, <1>7 DEF plan

\* Where there are no general settings the setup has one step, which throws.
LEMMA NoPlan ==
  ASSUME ConfigTypeOK, ~GeneralDefined(net)
  PROVE  Plans[net] = <<Setting("uint", <<>>, Undefined)>>
BY DEF ConfigTypeOK, Plans

\* Sending a transaction.
LEMMA SendKeepsOpen ==
  ASSUME OpenInv, \A n \in ConfigNetworks : ListsAgree(n) /\ ReadyInOrder(n), setup.phase = "running",
         NEW i, i = NextStep(Plans[net], setup.pos), SendTransaction(Plans[net], i)
  PROVE  OpenInv'
<1> DEFINE plan == Plans[net]
<1>1. ConfigInv /\ ConfigTypeOK /\ \A n \in ConfigNetworks : ListsAgree(n)
  BY DEF OpenInv, ConfigInv
<1>2. /\ setup.pos \in Nat \ {0}
      /\ i \in setup.pos..(Len(plan) + 1) /\ Len(plan) \in Nat /\ DOMAIN plan = 1..Len(plan)
      /\ \A j \in DOMAIN plan : j < i => Kept(plan[j])
  BY <1>1, SendingNext
<1>3. /\ i <= Len(plan) /\ ~Throws(plan[i])
      /\ setup' = [setup EXCEPT !.pos = i + 1] /\ UNCHANGED <<net, update>>
  BY DEF SendTransaction
<1>4. i \in DOMAIN plan
  <2> HIDE DEF plan
  <2> QED
    BY <1>2, <1>3
<1>5. \A s \in Range(plan) : Kept(s) => Kept(s)'
  BY <1>1, <1>4, SendKeeps
<1>6. GeneralDefined(net)
  <2>1. SUFFICES ASSUME ~GeneralDefined(net) PROVE FALSE
    OBVIOUS
  <2>2. plan = <<Setting("uint", <<>>, Undefined)>>
    BY <1>1, <2>1, NoPlan
  <2> HIDE DEF plan
  <2>3. plan[i] = Setting("uint", <<>>, Undefined)
    BY <1>4, <2>2
  <2> QED
    BY <1>3, <2>3 DEF Throws, Setting
<1>7. /\ DOMAIN store' \subseteq DOMAIN store \union {plan[i].key} /\ drifted' \subseteq drifted
      /\ setup'.phase = "running"
  <2>1. setup'.phase = "running"
    BY <1>1, <1>3 DEF ConfigTypeOK
  <2> QED
    BY <2>1 DEF SendTransaction
<1>8. PoolsLast'
  <2>1. ASSUME NEW m \in Range(getMarkets(net)), NEW p \in DOMAIN plan, PoolKey(m) \in DOMAIN store' \ DOMAIN store,
               \A j \in 1..(p - 1) : plan[j].key # PoolKey(m),
               NEW j \in 1..(p - 1), IsSetting(plan[j])
        PROVE  Kept(plan[j])'
    <3>1. PoolKey(m) = plan[i].key
      BY <1>7, <2>1
    <3>2. j \in DOMAIN plan /\ j < i
      <4>1. i \notin 1..(p - 1)
        BY <2>1, <3>1
      <4> HIDE DEF plan
      <4> QED
        BY <1>2, <1>4, <2>1, <4>1
    <3>3. plan[j] \in Range(plan)
      BY <3>2 DEF Range
    <3>4. Kept(plan[j])
      BY <1>2, <3>2
    <3>5. plan' = plan
      BY <1>3
    <3> HIDE DEF plan
    <3>6. PICK s \in Range(plan) : s = plan[j] /\ Kept(s)
      BY <3>3, <3>4
    <3>7. Kept(s)'
      BY <1>5, <3>6
    <3> QED
      BY <3>5, <3>6, <3>7
  <2>2. plan \in Seq(Range(plan))
    BY <1>1, AgreeingLists
  <2>3. net' = net /\ PoolsLast
    BY <1>3 DEF OpenInv
  <2> QED
    BY <1>5, <2>1, <2>2, <2>3, PoolsStayLast
<1>9. WritesListed'
  <2>1. plan[i].key \in WritableKeys(net)
    BY <1>4 DEF WritableKeys, Keys
  <2> QED
    BY <1>3, <1>6, <1>7, <2>1 DEF OpenInv, WritesListed
<1>10. UpdateWaits'
  BY <1>3, <1>7 DEF OpenInv, UpdateWaits
<1> QED
  BY <1>1, <1>8, <1>9, <1>10, SendKeepsInv DEF OpenInv

\* The multicall of an update.
LEMMA UpdateKeepsOpen ==
  ASSUME OpenInv, \A n \in ConfigNetworks : ListsAgree(n) /\ ReadyInOrder(n), WriteUpdate
  PROVE  OpenInv'
<1>1. ConfigInv /\ ConfigTypeOK /\ \A n \in ConfigNetworks : ListsAgree(n)
  BY DEF OpenInv, ConfigInv
<1>2. UNCHANGED <<net, created, setup>> /\ update.phase = "read" /\ update'.phase # "read"
  <2>1. CASE update' = [update EXCEPT !.phase = "done"]
    BY <2>1 DEF WriteUpdate
  <2>2. CASE update' = [update EXCEPT !.phase = "failed"]
    BY <2>2 DEF WriteUpdate
  <2> QED
    BY <2>1, <2>2 DEF WriteUpdate
<1>3. \A s \in Range(Plans[net]) : Kept(s) => Kept(s)'
  BY <1>1, UpdateKeeps
<1>4. GeneralDefined(net) /\ update.script \in {"general", "markets"}
      /\ {s.key : s \in Range(update.writes)} \subseteq Keys(UpdateItems(update.script, net))
  <2> DEFINE items == UpdateItems(update.script, net)
             writes == update.writes
  <2>1. /\ GeneralDefined(net) /\ update.script \in {"general", "markets"}
        /\ writes = [i \in DOMAIN writes |-> items[i]]
        /\ DOMAIN writes \subseteq DOMAIN items
    BY <1>1, <1>2 DEF ConfigTypeOK
  <2> HIDE DEF items, writes
  <2>2. {s.key : s \in Range(writes)} \subseteq Keys(items)
    BY <2>1 DEF Range, Keys
  <2> QED
    BY <2>1, <2>2 DEF items, writes
<1>5. DOMAIN store' \subseteq DOMAIN store \union {s.key : s \in Range(update.writes)} /\ drifted' \subseteq drifted
  BY DEF WriteUpdate
<1>6. PoolsLast'
  <2>1. ASSUME NEW m \in Range(getMarkets(net)), PoolKey(m) \in DOMAIN store' \ DOMAIN store
        PROVE  setup.phase = "done"
    <3>1. PoolKey(m) \in Keys(UpdateItems(update.script, net))
      BY <1>4, <1>5, <2>1
    <3>2. PoolKey(m) \notin Keys(UpdateItems("general", net))
      BY <1>1, <1>4 DEF ReadyInOrder, ConfigTypeOK
    <3> QED
      BY <1>2, <1>4, <3>1, <3>2 DEF OpenInv, UpdateWaits
  <2>2. setup.phase = "done" =>
            \A j \in DOMAIN Plans[net] : Kept(Plans[net][j]) /\ Plans[net][j] \in Range(Plans[net])
    BY <1>1 DEF ConfigInv, PlanKept, Range
  <2>3. Plans[net] \in Seq(Range(Plans[net]))
    BY <1>1, AgreeingLists
  <2>4. \A p \in DOMAIN Plans[net] : 1..(p - 1) \subseteq DOMAIN Plans[net]
    <3> DEFINE plan == Plans[net]
    <3> HIDE DEF plan
    <3>1. plan \in Seq(Range(plan))
      BY <2>3 DEF plan
    <3>2. \A p \in DOMAIN plan : 1..(p - 1) \subseteq DOMAIN plan
      BY <3>1
    <3> QED
      BY <3>2 DEF plan
  <2>5. net' = net /\ PoolsLast
    BY <1>2 DEF OpenInv
  <2> QED
    BY <1>3, <2>1, <2>2, <2>3, <2>4, <2>5, PoolsStayLast
<1>7. WritesListed'
  <2>1. Keys(UpdateItems(update.script, net)) \subseteq WritableKeys(net)
    BY <1>4 DEF WritableKeys
  <2> QED
    BY <1>2, <1>4, <1>5, <2>1 DEF OpenInv, WritesListed
<1>8. UpdateWaits'
  BY <1>2 DEF OpenInv, UpdateWaits, OnChain
<1> QED
  BY <1>1, <1>6, <1>7, <1>8, UpdateKeepsInv DEF OpenInv

\* Another keeper's change, of the first market's limit and after the setup.
LEMMA KeeperKeepsOpen ==
  ASSUME OpenInv, \A n \in ConfigNetworks : ListsAgree(n), KeeperChange(Head(getMarkets(net)))
  PROVE  OpenInv'
<1> DEFINE key == PoolKey(Head(getMarkets(net)))
<1>1. ConfigInv
  BY DEF OpenInv
<1>2. /\ UNCHANGED <<net, created, setup, update>> /\ setup.phase = "done"
      /\ DOMAIN store' = DOMAIN store \union {key} /\ drifted' = drifted \union {key}
  BY DEF KeeperChange
<1>3. PoolsLast'
  <2>1. \A s : Kept(s) => Kept(s)'
    BY KeeperKeeps
  <2>2. \A j \in DOMAIN Plans[net] : Kept(Plans[net][j])
    BY <1>1, <1>2 DEF ConfigInv, PlanKept
  <2>3. Plans[net] \in Seq(Range(Plans[net]))
    BY <1>1, AgreeingLists DEF ConfigInv
  <2>4. \A p \in DOMAIN Plans[net] : 1..(p - 1) \subseteq DOMAIN Plans[net]
    <3> DEFINE plan == Plans[net]
    <3> HIDE DEF plan
    <3>1. plan \in Seq(Range(plan))
      BY <2>3 DEF plan
    <3>2. \A p \in DOMAIN plan : 1..(p - 1) \subseteq DOMAIN plan
      BY <3>1
    <3> QED
      BY <3>2 DEF plan
  <2>5. net' = net /\ PoolsLast
    BY <1>2 DEF OpenInv
  <2> QED
    BY <2>1, <2>2, <2>3, <2>4, <2>5, PoolsStayLast
<1>4. WritesListed'
  BY <1>2 DEF OpenInv, WritesListed, WritableKeys
<1>5. UpdateWaits'
  BY <1>2 DEF OpenInv, UpdateWaits, OnChain
<1> QED
  BY <1>1, <1>3, <1>4, <1>5, KeeperKeepsInv DEF OpenInv

\* Every step of the setup, of the update scripts and of the keeper keeps the order the markets open in.
LEMMA OpenNextInv ==
  ASSUME OpenInv, \A n \in ConfigNetworks : ListsAgree(n) /\ ReadyInOrder(n), [ConfigNext]_configVars
  PROVE  OpenInv'
<1>1. ConfigInv /\ ConfigTypeOK /\ \A n \in ConfigNetworks : ListsAgree(n)
  BY DEF OpenInv, ConfigInv
<1>2. ConfigInv'
  BY <1>1, ConfigNextInv
<1>3. UNCHANGED <<net, store, drifted>> => PoolsLast'
  BY <1>1, NothingWrittenLast
<1>4. ASSUME NEW skip \in BOOLEAN, StartSetup(skip) PROVE OpenInv'
  <2>1. /\ setup' = [phase |-> "running", pos |-> 1, skip |-> skip] /\ update' = NoUpdate
        /\ UNCHANGED <<net, store, created, drifted>>
    BY <1>4 DEF StartSetup
  <2>2. WritesListed' /\ UpdateWaits'
    BY <2>1 DEF OpenInv, WritesListed, UpdateWaits, NoUpdate
  <2> QED
    BY <1>2, <1>3, <2>1, <2>2 DEF OpenInv
<1>5. ASSUME setup.phase = "running", NEW i, i = NextStep(Plans[net], setup.pos), FinishSetup(Plans[net], i)
      PROVE  OpenInv'
  <2>1. /\ setup' = [setup EXCEPT !.phase = "done"] /\ UNCHANGED <<net, store, created, update, drifted>>
        /\ i > Len(Plans[net])
    BY <1>5 DEF FinishSetup
  <2>2. setup'.phase = "done" /\ setup'.pos = setup.pos
    BY <1>1, <2>1 DEF ConfigTypeOK
  <2>3. GeneralDefined(net)
    <3>1. SUFFICES ASSUME ~GeneralDefined(net) PROVE FALSE
      OBVIOUS
    <3> DEFINE plan == Plans[net]
    <3>2. plan = <<Setting("uint", <<>>, Undefined)>> /\ setup.pos = 1
      BY <1>1, <3>1, NoPlan DEF OpenInv, WritesListed
    <3>3. /\ i \in setup.pos..(Len(plan) + 1)
          /\ \A j \in setup.pos..(i - 1) : Settled(plan[j])
      BY <1>1, <1>5, SendingNext
    <3>4. i > Len(plan)
      BY <2>1
    <3> HIDE DEF plan
    <3>5. Settled(Setting("uint", <<>>, Undefined))
      BY <3>2, <3>3, <3>4
    <3> QED
      BY <3>5 DEF Settled, Setting, Written
  <2>4. WritesListed' /\ UpdateWaits'
    BY <1>5, <2>1, <2>2, <2>3 DEF OpenInv, WritesListed, UpdateWaits
  <2> QED
    BY <1>2, <1>3, <2>1, <2>4 DEF OpenInv
<1>6. ASSUME setup.phase = "running", NEW i, i = NextStep(Plans[net], setup.pos), FailSetup(Plans[net], i)
      PROVE  OpenInv'
  <2>1. /\ setup' = [setup EXCEPT !.phase = "failed"] /\ UNCHANGED <<net, store, created, update, drifted>>
        /\ i <= Len(Plans[net]) /\ Throws(Plans[net][i])
    BY <1>6 DEF FailSetup
  <2>2. setup'.phase = "failed" /\ setup'.pos = setup.pos
    BY <1>1, <2>1 DEF ConfigTypeOK
  <2>3. GeneralDefined(net) => OnChain(getMarkets(net)) # Range(getMarkets(net))
    <3>1. SUFFICES ASSUME GeneralDefined(net)
                   PROVE  \E m \in Range(getMarkets(net)) : getMarketKey(m) \notin created
      BY DEF OnChain
    <3> DEFINE s == Plans[net][i]
    <3>2. /\ i \in setup.pos..(Len(Plans[net]) + 1) /\ ~Settled(s)
          /\ setup.pos \in Nat \ {0} /\ DOMAIN Plans[net] = 1..Len(Plans[net]) /\ Len(Plans[net]) \in Nat
      BY <1>1, <1>6, <2>1, SendingNext
    <3>3. i \in DOMAIN Plans[net]
      BY <2>1, <3>2
    <3>4. s \in Range(Plans[net])
      BY <3>3 DEF Range
    <3>5. /\ s.type = "uint" => s.value # Undefined
          /\ s.type = "market" => \E m \in Range(getMarkets(net)) : s.key = getMarketKey(m)
      BY <1>1, <3>1, <3>4 DEF ReadyInOrder, ConfigTypeOK
    <3>6. s.type = "market"
      BY <2>1, <3>5 DEF Throws
    <3> HIDE DEF s
    <3>7. s.key \notin created
      BY <3>2, <3>6 DEF Settled
    <3> QED
      BY <3>5, <3>6, <3>7
  <2>4. WritesListed' /\ UpdateWaits'
    <3>1. UpdateWaits'
      BY <1>6, <2>1, <2>2, <2>3 DEF OpenInv, UpdateWaits, OnChain
    <3>2. WritesListed'
      BY <2>1, <2>2 DEF OpenInv, WritesListed
    <3> QED
      BY <3>1, <3>2
  <2> QED
    BY <1>2, <1>3, <2>1, <2>4 DEF OpenInv
<1>7. CASE KillSetup
  <2>1. /\ setup' = [setup EXCEPT !.phase = "idle"] /\ UNCHANGED <<net, store, created, update, drifted>>
        /\ setup.phase = "running"
    BY <1>7 DEF KillSetup
  <2>2. setup'.phase = "idle" /\ setup'.pos = setup.pos
    BY <1>1, <2>1 DEF ConfigTypeOK
  <2>3. WritesListed' /\ UpdateWaits'
    BY <2>1, <2>2 DEF OpenInv, WritesListed, UpdateWaits
  <2> QED
    BY <1>2, <1>3, <2>1, <2>3 DEF OpenInv
<1>8. CASE SetupNext(Plans[net])
  BY <1>4, <1>5, <1>6, <1>7, <1>8, SendKeepsOpen DEF SetupNext
<1>9. ASSUME NEW script \in {"general", "markets"}, NEW fromChain \in BOOLEAN,
             ReadForUpdate(script, getMarkets(net), fromChain)
      PROVE  OpenInv'
  <2>1. UNCHANGED <<net, store, created, setup, drifted>> /\ setup.phase \in {"done", "failed"}
    BY <1>9 DEF ReadForUpdate
  <2>2. WritesListed'
    BY <2>1 DEF OpenInv, WritesListed
  <2>3. UpdateWaits'
    <3>1. CASE CannotUpdate(script, getMarkets(net), fromChain)
      <4>1. update'.phase # "read"
        BY <1>9, <3>1 DEF ReadForUpdate
      <4> QED
        BY <2>1, <4>1 DEF OpenInv, UpdateWaits, OnChain
    <3>2. CASE ~CannotUpdate(script, getMarkets(net), fromChain)
      <4>1. update'.script = script
        BY <1>9, <3>2 DEF ReadForUpdate
      <4>2. GeneralDefined(net) /\ (script = "markets" => OnChain(getMarkets(net)) = Range(getMarkets(net)))
        BY <3>2 DEF CannotUpdate
      <4>3. script = "markets" => setup.phase = "done"
        BY <2>1, <4>2 DEF OpenInv, UpdateWaits
      <4> QED
        BY <2>1, <4>1, <4>3 DEF OpenInv, UpdateWaits, OnChain
    <3> QED
      BY <3>1, <3>2
  <2> QED
    BY <1>2, <1>3, <2>1, <2>2, <2>3 DEF OpenInv
<1>10. CASE UpdateNext(getMarkets(net))
  BY <1>1, <1>9, <1>10, UpdateKeepsOpen, KeeperKeepsOpen DEF UpdateNext
<1>11. CASE UNCHANGED configVars
  <2>1. UNCHANGED <<net, store, created, setup, update, drifted>>
    BY <1>11 DEF configVars
  <2>2. WritesListed' /\ UpdateWaits'
    BY <2>1 DEF OpenInv, WritesListed, UpdateWaits, OnChain
  <2> QED
    BY <1>2, <1>3, <2>1, <2>2 DEF OpenInv
<1> QED
  BY <1>8, <1>10, <1>11 DEF ConfigNext

\* What a kept setting that does not drift says of the store.
LEMMA SetsNonZero ==
  ASSUME NEW settings, NEW key, Sets(settings, key), \A s \in settings : Written(s)
  PROVE  NonZero(key)
<1>1. PICK s \in settings : s.type = "uint" /\ s.key = key /\ s.value[1] # 0
  BY DEF Sets
<1>2. SameUint(Stored("uint", key), s.value)
  BY <1>1 DEF Written
<1>3. Stored("uint", key)[1] # 0
  BY <1>1, <1>2 DEF SameUint
<1> QED
  BY <1>3 DEF NonZero, SameUint, Float

\* The oracle can price a token whose settings were made: its type, and what each feed it has is read with.
LEMMA PriceableIs ==
  ASSUME NEW settings, NEW keys, NEW token, MakesPriceable(settings, keys, token),
         \A s \in settings : Written(s), DOMAIN store \subseteq keys
  PROVE  Priceable(token)
<1>1. Stored("bytes32", oracleTypeKey(token)) # HashZero
  <2>1. PICK s \in settings : s.type = "bytes32" /\ s.key = oracleTypeKey(token) /\ s.value # HashZero
    BY Zenon DEF MakesPriceable
  <2> QED
    BY <2>1 DEF Written
<1>2. ASSUME Stored("address", priceFeedKey(token)) # "AddressZero"
      PROVE  NonZero(priceFeedMultiplierKey(token)) /\ NonZero(priceFeedHeartbeatDurationKey(token))
  <2>1. priceFeedKey(token) \in keys
    BY <1>2 DEF Stored, Default
  <2>2. Sets(settings, priceFeedMultiplierKey(token)) /\ Sets(settings, priceFeedHeartbeatDurationKey(token))
    BY Zenon, <2>1 DEF MakesPriceable
  <2> QED
    BY <2>2, SetsNonZero
<1>3. ASSUME Stored("bytes32", realtimeFeedIdKey(token)) # HashZero
      PROVE  NonZero(realtimeFeedMultiplierKey(token))
  <2>1. realtimeFeedIdKey(token) \in keys
    BY <1>3 DEF Stored, Default
  <2>2. Sets(settings, realtimeFeedMultiplierKey(token))
    BY Zenon, <2>1 DEF MakesPriceable
  <2> QED
    BY <2>2, SetsNonZero
<1> QED
  BY Zenon, <1>1, <1>2, <1>3 DEF Priceable

\* A market with a pool limit has the settings that come before the limit in the list.
LEMMA OpenInvReady ==
  ASSUME OpenInv, \A n \in ConfigNetworks : ListsAgree(n) /\ ReadyInOrder(n)
  PROVE  ReadyBeforeOpen
<1>1. SUFFICES ASSUME NEW m \in Range(getMarkets(net)), NonZero(PoolKey(m))
               PROVE  /\ \A s \in Range(VirtualIdSettings(m)) : Written(s)
                      /\ \A token \in {m.longToken, m.shortToken} : Transferable(token) /\ Priceable(token)
                      /\ ~m.swapOnly => Priceable(m.indexToken)
                      /\ NonZero(<<"MAX_ORACLE_PRICE_AGE">>)
  BY Zenon DEF ReadyBeforeOpen
<1>2. PoolKey(m) \in DOMAIN store
  BY <1>1 DEF NonZero, Stored, Default, SameUint
<1>3. GeneralDefined(net)
  BY <1>2 DEF OpenInv, WritesListed
<1>4. ReadyInOrder(net)
  BY DEF OpenInv, ConfigInv, ConfigTypeOK
<1>5. PICK p \in DOMAIN Plans[net] : /\ \A j \in 1..(p - 1) : Plans[net][j].key # PoolKey(m)
                                     /\ MakesReady(SettingsBefore(net, p), WritableKeys(net), m)
  BY Zenon, <1>1, <1>3, <1>4 DEF ReadyInOrder
<1> DEFINE settings == SettingsBefore(net, p)
           keys == WritableKeys(net)
<1>6. \A s \in settings : Written(s)
  <2>1. SUFFICES ASSUME NEW s \in settings PROVE Written(s)
    OBVIOUS
  <2>2. PICK j \in 1..(p - 1) : s = Plans[net][j]
    BY DEF SettingsBefore
  <2>3. IsSetting(s) /\ s.key # PoolKey(Head(getMarkets(net)))
    BY DEF SettingsBefore
  <2>4. Kept(s)
    BY <1>2, <1>5, <2>2, <2>3 DEF OpenInv, PoolsLast
  <2>5. s.key \notin drifted
    BY <2>3 DEF OpenInv, WritesListed
  <2> QED
    BY <2>3, <2>4, <2>5 DEF Kept, Settled, IsSetting
<1>7. DOMAIN store \subseteq keys
  BY <1>3 DEF OpenInv, WritesListed
<1>8. MakesReady(settings, keys, m)
  BY <1>5
<1> HIDE DEF settings, keys
<1>9. \A s \in Range(VirtualIdSettings(m)) : Written(s)
  BY <1>6, <1>8 DEF MakesReady
<1>10. ASSUME NEW token \in {m.longToken, m.shortToken}
       PROVE  Transferable(token) /\ Priceable(token)
  <2>1. Sets(settings, tokenTransferGasLimit(TokenAddress(token))) /\ MakesPriceable(settings, keys, token)
    BY Zenon, <1>8, <1>10 DEF MakesReady
  <2>2. Priceable(token)
    BY <1>6, <1>7, <2>1, PriceableIs
  <2>3. NonZero(tokenTransferGasLimit(TokenAddress(token)))
    BY <1>6, <2>1, SetsNonZero
  <2> QED
    BY <2>2, <2>3 DEF Transferable
<1>11. ~m.swapOnly => Priceable(m.indexToken)
  <2>1. ~m.swapOnly => MakesPriceable(settings, keys, m.indexToken)
    BY Zenon, <1>8 DEF MakesReady
  <2> QED
    BY <1>6, <1>7, <2>1, PriceableIs
<1>12. NonZero(<<"MAX_ORACLE_PRICE_AGE">>)
  <2>1. Sets(settings, <<"MAX_ORACLE_PRICE_AGE">>)
    BY Zenon, <1>8 DEF MakesReady
  <2> QED
    BY <1>6, <2>1, SetsNonZero
<1> QED
  BY <1>9, <1>10, <1>11, <1>12

\* A market that takes deposits, its pool limit being set, can price its tokens, transfer them and knows its
\* virtual markets, at every step of every setup: when the limit comes after those settings in the list.
THEOREM MarketsOpenReady ==
  ASSUME \A n \in ConfigNetworks : ListsAgree(n) /\ ReadyInOrder(n)
  PROVE  ConfigSpec => []ReadyBeforeOpen
<1>1. ConfigInit => OpenInv
  BY OpenInitInv
<1>2. OpenInv /\ [ConfigNext]_configVars => OpenInv'
  BY OpenNextInv
<1>3. OpenInv => ReadyBeforeOpen
  BY OpenInvReady
<1> QED
  BY <1>1, <1>2, <1>3, PTL DEF ConfigSpec
=================================================================================
