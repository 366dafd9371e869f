------------------------------ MODULE MCDeploy ------------------------------
(* Command sets for the model-checking runs of Deploy. *)
EXTENDS DeployInvariant, ReleaseInvariant

Update(flags) == [tool |-> "update", flags |-> flags]
Setup(flags) == [tool |-> "setup", flags |-> flags]

\* the routine: full updates in each mode, and PostGIS alone
Routine == {Update({}), Update({"keepOld"}), Update({"simple"}), Update({"db"})}
\* every way of running update.sh that does not restore .old
AllButRollback == Routine \cup {Update({"force"}), Update({"tiles", "keepOld"})}
EveryUpdate == AllButRollback \cup {Update({"rollback"})}
EverySetup == {Setup({}), Setup({"skipPbf"}), Setup({"skipDb"}),
               Setup({"skipTiles"}), Setup({"skipPbf", "skipTiles"})}
Everything == EveryUpdate \cup EverySetup
Plain == {Update({})}

=============================================================================
