------------------------------ MODULE Deployment ------------------------------
(***************************************************************************)
(* Running the deployment scripts: hardhat-deploy runs them in the order   *)
(* of their dependencies, each script sends the transactions that are      *)
(* still missing, a run may stop after any transaction, and it is run      *)
(* again as it is, or after a release changed the source of a contract.    *)
(* A contract is deployed again when its source, or an address it was      *)
(* built with, is no longer the same.                                      *)
(***************************************************************************)
EXTENDS DeployGraph, FiniteSetsExt

CONSTANTS DeployNetworks,   \* the networks deployed to
          Changeable,       \* the contracts a release may change
          MaxReleases,      \* bound: how many releases follow the first
          MaxStops          \* bound: how often a run stops between two transactions

VARIABLES
    target,     \* the network
    sources,    \* the version of each contract's source in the repository
    deployed,   \* contract -> [gen, source, links]: the deployment, its source and, in the order of the script's
                \* links, the deployments it was built with
    facts,      \* what the transactions after the deployments have done
    run,        \* [phase, pos]: the position in the order of the scripts
    stops       \* how often a run was stopped
deployVars == <<target, sources, deployed, facts, run, stops>>

ContractNames == {s.name : s \in Scripts} \ {""}
Gen(name) == IF name \in DOMAIN deployed THEN deployed[name].gen ELSE 0

DeployInit ==
    /\ target \in DeployNetworks
    /\ sources = [c \in ContractNames |-> 1]
    /\ deployed = <<>>
    /\ facts = {}
    /\ run = [phase |-> "idle", pos |-> 1]
    /\ stops = 0

-----------------------------------------------------------------------------
\* An effect is about the deployments of its two contracts: done again when either was replaced.
Fact(on, about, what) == <<on, Gen(on), about, Gen(about), what>>
\* Fault: a role counts as granted when it was granted to an earlier deployment of the contract.
DoneByName(e) == \E f \in facts : f[1] = e.on /\ f[3] = e.about /\ f[5] = e.what

Done(e) == Fact(e.on, e.about, e.what) \in facts
HasRole(account, role) == Fact("RoleStore", account, role) \in facts
Permitted(e) == Gen(e.on) > 0 /\ \A n \in e.needs : HasRole(n[1], n[2])

Built(script) == [i \in DOMAIN script.links |-> Gen(script.links[i])]
\* Fault: only the source is compared.
UpToDateSourceOnly(script) ==
    \/ script.name = ""
    \/ Gen(script.name) > 0 /\ deployed[script.name].source = sources[script.name]

\* What deploy() compares: the source, and the addresses in the constructor's arguments and the linked bytecode.
UpToDate(script) ==
    \/ script.name = ""
    \/ /\ Gen(script.name) > 0
       /\ deployed[script.name].source = sources[script.name]
       /\ deployed[script.name].links = Built(script)

\* The two that read the pools of every configured market, as it is on chain.
NeedMarkets == {"FixVirtualInventoryForSwaps", "FixVirtualInventoryForSwaps2"}

\* get() throws when a contract is not there; on hardhat the verifier needs the MockFeeManager no script
\* deploys; fixVirtualInventoryForSwaps throws when a configured market is not on chain.
CannotStart(script) ==
    \/ \E d \in Range(script.gets) : Gen(d) = 0
    \/ script.tag \in NeedMarkets
       /\ ~Done(Effect("DataStore", "MarketFactory", "createMarket", {}))

Pending(script) == {i \in DOMAIN script.after : ~Done(script.after[i])}
\* Fault: a contract's script has nothing to do once the contract is deployed.
CompleteOnceDeployed(script) ==
    \/ script.tag \in Skipped(target)
    \/ ~CannotStart(script) /\ UpToDate(script) /\ (script.name = "" => Pending(script) = {})

Complete(script) ==
    script.tag \in Skipped(target) \/ (~CannotStart(script) /\ UpToDate(script) /\ Pending(script) = {})

\* The run is at the script i: the first from its position on that has a transaction to send or throws.
Reached(i) ==
    /\ run.phase = "running"
    /\ run.pos <= i
    /\ ~Complete(Script[i])
    /\ \A j \in run.pos..(i - 1) : Complete(Script[j])

StartRun ==
    /\ run.phase # "running"
    /\ run' = [phase |-> "running", pos |-> 1]
    /\ UNCHANGED <<target, sources, deployed, facts, stops>>

Deploy(i, script) ==
    /\ ~CannotStart(script)
    /\ ~UpToDate(script)
    /\ deployed' = [c \in DOMAIN deployed \union {script.name} |->
           IF c = script.name
           THEN [gen |-> Gen(c) + 1, source |-> sources[c], links |-> Built(script)]
           ELSE deployed[c]]
    /\ run' = [run EXCEPT !.pos = i]
    /\ UNCHANGED <<target, sources, facts, stops>>

\* The next transaction after the deployment, in the order of the script.
SendEffect(i, script) ==
    /\ ~CannotStart(script)
    /\ UpToDate(script)
    /\ LET e == script.after[Min(Pending(script))]
       IN Permitted(e) /\ facts' = facts \union {Fact(e.on, e.about, e.what)}
    /\ run' = [run EXCEPT !.pos = i]
    /\ UNCHANGED <<target, sources, deployed, stops>>

\* A script throws, or its transaction reverts: hardhat-deploy ends the run.
FailRun(script) ==
    /\ \/ CannotStart(script)
       \/ /\ UpToDate(script)
          /\ Pending(script) # {}
          /\ ~Permitted(script.after[Min(Pending(script))])
    /\ run' = [run EXCEPT !.phase = "failed"]
    /\ UNCHANGED <<target, sources, deployed, facts, stops>>

\* One transaction of the script the run has reached, or its failure.
RunScript ==
    \E i \in DOMAIN Script :
        /\ Reached(i)
        /\ Deploy(i, Script[i]) \/ SendEffect(i, Script[i]) \/ FailRun(Script[i])

FinishRun ==
    /\ run.phase = "running"
    /\ \A i \in run.pos..Len(Script) : Complete(Script[i])
    /\ run' = [run EXCEPT !.phase = "done"]
    /\ UNCHANGED <<target, sources, deployed, facts, stops>>

StopRun ==
    /\ run.phase = "running" /\ stops < MaxStops
    /\ stops' = stops + 1
    /\ run' = [run EXCEPT !.phase = "idle"]
    /\ UNCHANGED <<target, sources, deployed, facts>>

\* A release between two runs.
Release(c) ==
    /\ run.phase \in {"idle", "done"}
    /\ sources[c] <= MaxReleases /\ \A d \in Changeable \ {c} : sources[d] = 1
    /\ sources' = [sources EXCEPT ![c] = @ + 1]
    /\ run' = [run EXCEPT !.phase = "idle"]
    /\ UNCHANGED <<target, deployed, facts, stops>>

DeployNext ==
    \/ StartRun \/ RunScript \/ FinishRun \/ StopRun
    \/ \E c \in Changeable : Release(c)

DeploySpec == DeployInit /\ [][DeployNext]_deployVars

-----------------------------------------------------------------------------
\* The order the scripts are run in: every file is run, and no script is run before one that deploys what it
\* is linked with or what its transactions are about.
ASSUME OrderAssumption ==
    /\ DOMAIN Script = 1..Len(Script) /\ Range(Script) = Scripts
    /\ \A i \in DOMAIN Script : DOMAIN Script[i].after \subseteq Nat
    /\ \A i, j \in DOMAIN Script : i < j /\ Script[j].name # "" =>
           /\ Script[j].name \notin {Script[i].name} \union Range(Script[i].links)
           /\ \A e \in Range(Script[i].after) : Script[j].name \notin {e.on, e.about}
           /\ Script[i].tag \in NeedMarkets => Script[j].name \notin {"DataStore", "MarketFactory"}

\* On the Sei networks every contract a script gets is deployed by an earlier one that is not skipped, and
\* every role a transaction needs is granted by an earlier transaction.
SeiNetworks == {"seiTestnet", "seiMainnet"}
DeployedBefore(network, i, contract) ==
    contract # "" /\ \E j \in 1..(i - 1) : Script[j].tag \notin Skipped(network) /\ Script[j].name = contract
GrantedBefore(network, i, p, role) ==
    \E j \in 1..i : \E q \in DOMAIN Script[j].after :
        /\ Script[j].tag \notin Skipped(network) /\ (j = i => q < p)
        /\ Script[j].after[q].on = "RoleStore"
        /\ <<Script[j].after[q].about, Script[j].after[q].what>> = role

ASSUME SeiAssumption ==
    \A n \in SeiNetworks, i \in DOMAIN Script : Script[i].tag \notin Skipped(n) =>
        /\ \A d \in Range(Script[i].gets) : DeployedBefore(n, i, d)
        /\ \A p \in DOMAIN Script[i].after :
               /\ DeployedBefore(n, i + 1, Script[i].after[p].on)
               /\ \A r \in Script[i].after[p].needs : GrantedBefore(n, i, p, r)

-----------------------------------------------------------------------------
RunScripts == {s \in Scripts : s.tag \notin Skipped(target)}

\* After a run every contract stands on the current deployments of the contracts and libraries it was built
\* with: a library that was released again pulls along every contract linked with it, however far away and
\* wherever an earlier run stopped.  The order of the scripts is all that ensures it, as no script looks back.
BuiltOnCurrent ==
    run.phase = "done" => \A s \in RunScripts : s.name # "" => deployed[s.name].links = Built(s)

\* After a run every contract has the roles its script grants it, also when an earlier run stopped between
\* the deployment and the grant, and also when the RoleStore itself was replaced.
RolesReady ==
    run.phase = "done" => \A s \in RunScripts : \A i \in DOMAIN s.after :
        s.after[i].on = "RoleStore" => HasRole(s.after[i].about, s.after[i].what)

\* On the live Sei networks no run fails: whatever an earlier run left, no script gets a contract that is not
\* deployed yet, and no transaction is sent before its sender has the role for it.
RunNeverFails == target \in SeiNetworks => run.phase # "failed"

=============================================================================
