----------------------------- MODULE MCService ------------------------------
(***************************************************************************)
(* Service for TLC: one policy, one key name and two concurrent requests.  *)
(* To keep the product of its three concerns small, TLC follows only the   *)
(* histories (Followed) in which keys are used under a policy that stays   *)
(* as it was created, or policies are updated and no key is used.          *)
(***************************************************************************)
EXTENDS Service, FiniteSets, TLC

CONSTANTS k1, p1

\* Everything, on key k1 only.
Owner == [perms |-> Permissions, allowKeys |-> Keys, denyKeys |-> Keys \ {k1},
          allowPolicies |-> {p1}, denyPolicies |-> {}]

\* Every permission, and no key.
Guest == [Owner EXCEPT !.denyKeys = Keys]

\* Creates keys, and may neither see the policy nor rotate or decrypt.
Clerk == [perms |-> {"keys:create", "keys:read", "crypto:encrypt", "policy:write"},
          allowKeys |-> Keys, denyKeys |-> {}, allowPolicies |-> {}, denyPolicies |-> {}]

AllTokens == {Owner, Guest, Clerk, None}

\* What is asked for to see who may do and learn what ...
GatedCalls == {"CreateKey", "ReadKey", "MigrateKey", "Encrypt", "Decrypt", "DeleteKey",
               "CreateCryptoPolicy", "ReadCryptoPolicy"}

\* ... and to see what becomes of artefacts ...
KeyCalls == {"CreateCryptoPolicy", "CreateKey", "TransformKey", "Sign", "Verify"}

\* ... and of policies.
PolicyCalls == {"CreateCryptoPolicy", "UpdateCryptoPolicy"}

AllCalls == GatedCalls \cup KeyCalls \cup PolicyCalls

Asked == {reqs[r].q.rpc : r \in {s \in Requests : reqs[s] # None}}

\* The parameters in play.
Parameters == {reqs[r].q.context : r \in {s \in Requests : reqs[s] # None}}
                \cup (IF held = None THEN {} ELSE {held.context})

\* Policies are updated where nobody uses keys.
PoliciesOnly == (\A n \in Keys : names[n] = None) /\ Asked \subseteq PolicyCalls

\* Where no policy is updated, keys have two versions at most.
KeysOnly == (\A p \in Policies : newest[p] <= 1) /\ (\A i \in Ids : versions[i][3] = None)

\* With authorization on, requests agree on their parameters ...
Gated ==
    /\ enabled /\ Asked \subseteq GatedCalls
    /\ Cardinality(Parameters \ {None}) <= 1

\* ... and with it off, keys are made, changed and used.
Ungated == ~enabled /\ Asked \subseteq KeyCalls

\* The histories TLC follows.
Followed == PoliciesOnly \/ (KeysOnly /\ (Gated \/ Ungated))

Interchangeable == Permutations(Requests) \cup Permutations(Contexts)

=============================================================================
