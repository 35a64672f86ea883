---------------------------- MODULE LocalExport ----------------------------
(***************************************************************************)
(* The bounded transfer of a sealed row out of its OCI layout.             *)
(*                                                                         *)
(* A Docker client, with the plugin that does its work, writes an archive; *)
(* both belong to one process group.  A transfer that exceeds its time is  *)
(* stopped with its whole group and repeated once into a new archive.  The *)
(* one that completes is unpacked for the caller.                          *)
(***************************************************************************)
EXTENDS Integers

CONSTANT Rows   \* the rows of the Python matrix, in the order of their names

ASSUME RowsAssumption == Rows \subseteq Nat

VARIABLES export,   \* how far the transfer of a row has come
          try,      \* its attempt, 0 before the first
          group,    \* live processes of each attempt's group
          archive   \* what the latest attempt has written

exportVars == <<export, try, group, archive>>

Processes == {"client", "plugin"}

ExportTypeOK ==
    /\ export \in [Rows -> {"none", "running", "stopping", "completed", "failed"}]
    /\ try \in [Rows -> 0 .. 2]
    /\ group \in [Rows -> [1 .. 2 -> SUBSET Processes]]
    /\ archive \in [Rows -> {"none", "partial", "complete"}]

ExportInit ==
    /\ export = [r \in Rows |-> "none"]
    /\ try = [r \in Rows |-> 0]
    /\ group = [r \in Rows |-> [n \in 1 .. 2 |-> {}]]
    /\ archive = [r \in Rows |-> "none"]

-----------------------------------------------------------------------------
\* Each attempt has a directory, an archive and a process group of its own.
BeginAttempt(r, n) ==
    /\ export' = [export EXCEPT ![r] = "running"]
    /\ try' = [try EXCEPT ![r] = n]
    /\ archive' = [archive EXCEPT ![r] = "partial"]

Start(r) ==
    /\ BeginAttempt(r, 1)
    /\ group' = [group EXCEPT ![r][1] = Processes]

\* In time, the client ends.  It reports success with the status of its plugin,
\* after it; a client that fails may leave the plugin behind, which nothing
\* stops.  Only a completed archive is unpacked.
TransferEnds(r) ==
    /\ export[r] = "running"
    /\ \/ /\ archive' = [archive EXCEPT ![r] = "complete"]
          /\ export' = [export EXCEPT ![r] = "completed"]
          /\ group' = [group EXCEPT ![r][try[r]] = {}]
       \/ /\ export' = [export EXCEPT ![r] = "failed"]
          /\ \E left \in {{}, {"plugin"}} : group' = [group EXCEPT ![r][try[r]] = left]
          /\ UNCHANGED archive
    /\ UNCHANGED try

\* Otherwise the group is told to stop.
TransferTimesOut(r) ==
    /\ export[r] = "running"
    /\ export' = [export EXCEPT ![r] = "stopping"]
    /\ UNCHANGED <<try, group, archive>>

\* Its processes may end in any order; what they still write belongs to an
\* archive that will not be read.
ProcessEnds(r) ==
    /\ export[r] = "stopping"
    /\ \E p \in group[r][try[r]] : group' = [group EXCEPT ![r][try[r]] = @ \ {p}]
    /\ UNCHANGED <<export, try, archive>>

\* Mutant of KillGroup: only the client is killed and waited for.
BugKillGroup(r) == [group EXCEPT ![r][try[r]] = @ \ {"client"}]

\* The client has ended or has had its time: what is left of its group is
\* killed.
KillGroup(r) == [group EXCEPT ![r][try[r]] = {}]

Retry(r) ==
    /\ export[r] = "stopping" /\ try[r] = 1
    /\ BeginAttempt(r, 2)
    /\ group' = [KillGroup(r) EXCEPT ![r][2] = Processes]

GiveUp(r) ==
    /\ export[r] = "stopping" /\ try[r] = 2
    /\ export' = [export EXCEPT ![r] = "failed"]
    /\ group' = KillGroup(r)
    /\ UNCHANGED <<try, archive>>

\* What the processes of a transfer do, and what the worker of the row does with
\* them.  The transfer of a worker that has died goes on without it: nothing
\* more is known of it, not even that it ends.
TransferStep(r) == TransferEnds(r) \/ ProcessEnds(r)
CallerStep(r) == TransferTimesOut(r) \/ Retry(r) \/ GiveUp(r)

-----------------------------------------------------------------------------
\* A second attempt runs alone, and what the caller unpacks is an archive that
\* was written to its end and that no process writes any more.
ConsumedAlone ==
    \A r \in Rows :
        /\ try[r] = 2 => group[r][1] = {}
        /\ export[r] = "completed" =>
            archive[r] = "complete" /\ \A n \in 1 .. 2 : group[r][n] = {}
=============================================================================
