------------------------- MODULE MCVaultRepository -------------------------
(***************************************************************************)
(* VaultRepository for TLC: one repository for all requests, or one     *)
(* each, and the symmetry of the model values.                             *)
(***************************************************************************)
EXTENDS VaultRefinement, TLC

CONSTANTS r1, l1

\* One repository, or one lock, for every request.
OneRepo == [p \in Procs |-> r1]
OneLock == [p \in Procs |-> l1]

\* A repository, or a lock, for each request, named after it.
OwnRepo == [p \in Procs |-> p]
OwnLock == [p \in Procs |-> p]

Versions == 1..2

Symmetry == Permutations(Procs) \cup Permutations(Ids) \cup Permutations(Names)

\* Method mixes.
AllButUpdate == (WriteOps \ {"UpdateKey"}) \cup ReadOps
AtomicOps == (WriteOps \ {"DeleteKey"}) \cup {"GetKeyByName", "GetCurrentVersion"}
\* The methods the server's RPCs reach: DeleteKey and UpdateKey are served by none.
WiredOps == {"CreateKey", "AddVersion", "GetKeyByName", "GetCurrentVersion", "ListKeys"}
NoNameReads == AllButUpdate \ {"GetKeyByName"}

=============================================================================
