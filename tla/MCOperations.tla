----------------------------- MODULE MCOperations ------------------------------
(***************************************************************************)
(* The scripts that operate the exchange, one job per behaviour: deploying *)
(* it, configuring it, changing roles through the Timelock, and sending    *)
(* incentives.  They share no state but what the deployment hands over, so *)
(* each is explored on its own.                                            *)
(***************************************************************************)
EXTENDS Configuration, Deployment, Timelock, Distribution

VARIABLE job
Jobs == {"deployment", "configuration", "roles", "incentives"}

MCAccounts == {"timelock", "newTimelock", "safe"}
MCRoles == {"ROLE_ADMIN", "CONTROLLER", "TIMELOCK_ADMIN", "TIMELOCK_MULTISIG"}
MCInitialMembers == {<<"timelock", "ROLE_ADMIN">>, <<"timelock", "CONTROLLER">>,
                     <<"safe", "TIMELOCK_ADMIN">>, <<"safe", "TIMELOCK_MULTISIG">>}
MCChanges == {{<<"newTimelock", "ROLE_ADMIN">>, <<"newTimelock", "CONTROLLER">>}}

OperationsInit ==
    /\ job \in Jobs
    /\ ConfigInit /\ (job # "configuration" => net = "hardhat")
    /\ DeployInit /\ (job # "deployment" => target = "hardhat")
    /\ TimelockInit
    /\ DistributionInit

OperationsNext ==
    /\ UNCHANGED job
    /\ \/ job = "deployment" /\ DeployNext /\ UNCHANGED <<configVars, timelockVars, distributionVars>>
       \/ job = "configuration" /\ ConfigNext /\ UNCHANGED <<deployVars, timelockVars, distributionVars>>
       \/ job = "roles" /\ TimelockNext /\ UNCHANGED <<deployVars, configVars, distributionVars>>
       \/ job = "incentives" /\ DistributionNext /\ UNCHANGED <<deployVars, configVars, timelockVars>>

OperationsSpec == OperationsInit /\ [][OperationsNext]_<<job, configVars, deployVars, timelockVars, distributionVars>>

=============================================================================
