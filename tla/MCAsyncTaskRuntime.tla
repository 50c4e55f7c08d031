-------------------------- MODULE MCAsyncTaskRuntime --------------------------
(* Instances of AsyncTaskRuntime for TLC: submissions whose keys overlap the   *)
(* way those of the real operations do.                                        *)
EXTENDS AsyncTaskRuntime

CONSTANTS import, install, launch, refresh, instances, instanceA, interactive, account

FourIds == {import, install, launch, refresh}
FourKeys == {instances, instanceA, interactive, account}

\* An instance.import, a resource.install-version into an instance, the launch of
\* that instance, and the refresh of an account: the first and the last two may
\* compete for two slots, and the second conflicts with two of them.
OperationWrites ==
    [t \in Ids |-> CASE t = import -> {instances, interactive}
                     [] t = install -> {instanceA, interactive}
                     [] t = launch -> {instanceA}
                     [] t = refresh -> {account}]

\* The runtime compares the idempotencyKey alone: a client may give the install that
\* of the refresh.
OneKeyTwice == [t \in Ids |-> IF t = install THEN refresh ELSE t]
NoRetry == [t \in Ids |-> t]

LaunchIsHigh == {launch}
ImportIsUnchecked == {import}
=============================================================================
