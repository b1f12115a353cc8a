----------------------------- MODULE Distribution ------------------------------
(***************************************************************************)
(* Paying out incentives with scripts/incentives/batchSend.ts.  A run      *)
(* reads the file of a distribution and the file of what was sent before,  *)
(* approves the BatchSender, sends the recipients batch by batch, one      *)
(* transaction each, and records the distribution when all were sent.  It  *)
(* may stop between any two of these, it is run again by hand, and two     *)
(* operators may run it at the same time with the same wallet.             *)
(***************************************************************************)
EXTENDS Naturals, FiniteSetsExt

CONSTANTS Distributions,    \* the ids of the distribution files
          Operators,        \* the processes that run the script
          RecipientCount,   \* the recipients of each, each is sent 1
          BatchSize,        \* 150 in the script
          Funds,            \* the tokens of the wallet
          MaxInterrupts     \* bound: how often a run is interrupted

ASSUME DistributionAssumption == RecipientCount \in Nat /\ BatchSize \in Nat \ {0}

VARIABLES
    paid,         \* distribution -> recipient -> how often it was paid
    allowance,    \* what the BatchSender may take from the wallet
    migrations,   \* .migrations.json: the distributions recorded as sent
    sender,       \* the run of each operator: [phase, id, mode, next, seen]
    interrupts,   \* how often a run was interrupted
    excused       \* history: the distributions sent by a run that asked to, overlapped another or ended half way
distributionVars == <<paid, allowance, migrations, sender, interrupts, excused>>

Recipients == 1..RecipientCount
Total == RecipientCount
Balance == Funds - FoldSet(LAMBDA d, t : t + FoldSet(LAMBDA r, s : s + paid[d][r], 0, Recipients), 0, Distributions)
Idle == [phase |-> "idle", id |-> 0, mode |-> "WRITE", next |-> 1, seen |-> {}]

DistributionInit ==
    /\ paid = [d \in Distributions |-> [r \in Recipients |-> 0]]
    /\ allowance = 0
    /\ migrations = {}
    /\ sender = [o \in Operators |-> Idle]
    /\ interrupts = 0
    /\ excused = {}

Writing(o) == sender[o].phase # "idle" /\ sender[o].mode = "WRITE"
Others(o) == {sender[p].id : p \in {q \in Operators \ {o} : Writing(q)}}

\* A run starts unless the distribution was recorded; SKIP_MIGRATION_VALIDATION starts it all the same.
StartSending(o, d, mode, skip) ==
    /\ sender[o].phase = "idle"
    /\ d \notin migrations \/ skip
    /\ sender' = [sender EXCEPT ![o] = [phase |-> "checking", id |-> d, mode |-> mode, next |-> 1,
                                        seen |-> migrations]]
    /\ excused' = IF mode = "WRITE"
                  THEN excused \union Others(o) \union {x \in {d} : skip \/ Others(o) # {}}
                  ELSE excused
    /\ UNCHANGED <<paid, allowance, migrations, interrupts>>

\* The balance must cover the total; the total is approved when the allowance does not, by a dry run too.
CheckFunds(o) ==
    /\ sender[o].phase = "checking"
    /\ sender' = IF Balance < Total THEN [sender EXCEPT ![o] = Idle]
                 ELSE [sender EXCEPT ![o].phase = IF allowance < Total THEN "approving" ELSE "sending"]
    /\ UNCHANGED <<paid, allowance, migrations, interrupts, excused>>

Approve(o) ==
    /\ sender[o].phase = "approving"
    /\ allowance' = Total
    /\ sender' = [sender EXCEPT ![o].phase = "sending"]
    /\ UNCHANGED <<paid, migrations, interrupts, excused>>

\* Fault: the last recipient of a full batch is left out.
BatchShort(o) == {r \in Recipients : sender[o].next <= r /\ r + 1 < sender[o].next + BatchSize}

\* range(0, amounts.length, batchSize): the recipients from next on, at most a batch.
Batch(o) == {r \in Recipients : sender[o].next <= r /\ r < sender[o].next + BatchSize}
Reverts(o) == Cardinality(Batch(o)) > allowance \/ Cardinality(Batch(o)) > Balance

\* One batch; a dry run only asks whether it would succeed.
SendBatch(o) ==
    /\ sender[o].phase = "sending" /\ sender[o].next <= RecipientCount
    /\ ~Reverts(o)
    /\ sender' = [sender EXCEPT ![o].next = @ + BatchSize]
    /\ IF sender[o].mode = "WRITE"
       THEN /\ paid' = [paid EXCEPT ![sender[o].id] =
                            [r \in Recipients |-> IF r \in Batch(o) THEN @[r] + 1 ELSE @[r]]]
            /\ allowance' = allowance - Cardinality(Batch(o))
       ELSE UNCHANGED <<paid, allowance>>
    /\ UNCHANGED <<migrations, interrupts, excused>>

\* A run that ends before its last batch, or before it recorded what it sent.
HalfWay(o) == IF Writing(o) /\ sender[o].phase = "sending" /\ sender[o].next > 1
              THEN excused \union {sender[o].id} ELSE excused

FailBatch(o) ==
    /\ sender[o].phase = "sending" /\ sender[o].next <= RecipientCount
    /\ Reverts(o)
    /\ sender' = [sender EXCEPT ![o] = Idle]
    /\ excused' = HalfWay(o)
    /\ UNCHANGED <<paid, allowance, migrations, interrupts>>

Interrupt(o) ==
    /\ sender[o].phase # "idle" /\ interrupts < MaxInterrupts
    /\ interrupts' = interrupts + 1
    /\ sender' = [sender EXCEPT ![o] = Idle]
    /\ excused' = HalfWay(o)
    /\ UNCHANGED <<paid, allowance, migrations>>

\* Fault: the distribution itself is not added to what was read.
RecordForgets(o) ==
    /\ sender[o].phase = "sending" /\ sender[o].next > RecipientCount
    /\ migrations' = IF sender[o].mode = "WRITE" THEN sender[o].seen ELSE migrations
    /\ sender' = [sender EXCEPT ![o] = Idle]
    /\ UNCHANGED <<paid, allowance, interrupts, excused>>

\* All sent: the whole file is written, with what was read at the start.
Record(o) ==
    /\ sender[o].phase = "sending" /\ sender[o].next > RecipientCount
    /\ migrations' = IF sender[o].mode = "WRITE" THEN sender[o].seen \union {sender[o].id} ELSE migrations
    /\ sender' = [sender EXCEPT ![o] = Idle]
    /\ UNCHANGED <<paid, allowance, interrupts, excused>>

DistributionNext ==
    \E o \in Operators :
        \/ \E d \in Distributions, mode \in {"WRITE", "DRY_RUN"}, skip \in BOOLEAN :
              StartSending(o, d, mode, skip)
        \/ CheckFunds(o) \/ Approve(o) \/ SendBatch(o) \/ FailBatch(o) \/ Interrupt(o) \/ Record(o)

DistributionSpec == DistributionInit /\ [][DistributionNext]_distributionVars

-----------------------------------------------------------------------------
\* A distribution recorded as sent has reached every recipient: no batch is left out, whatever the wallet
\* allowed, whoever else ran, and although a dry run goes through the same steps.
EveryonePaid == \A d \in migrations : \A r \in Recipients : paid[d][r] >= 1

\* Nobody is paid twice for a distribution, unless a run of it was asked to ignore the record, ran at the
\* same time as another, or ended between its first batch and the record.
NobodyPaidTwice == \A d \in Distributions \ excused : \A r \in Recipients : paid[d][r] <= 1

=============================================================================
