---------------------------- MODULE MCDeployment ----------------------------
(***************************************************************************)
(* Deployment for TLC: the shipped catalogue, one with a template whose    *)
(* scope is not known, one without a template that a provider advertises,  *)
(* and none at all.                                                        *)
(***************************************************************************)
EXTENDS Deployment

\* Before "aes-128-cbc-pkcs7-128" in ID order.
Newer == [id |-> "aegis-256", details |-> Unimplemented("aegis"), ops |-> Encrypts,
          scopes |-> {Unreadable}]

TestCatalogues ==
    [standard |-> StandardCatalogue,
     newer    |-> <<Newer>> \o StandardCatalogue,
     older    |-> SelectSeq(StandardCatalogue, LAMBDA t : t.details.family # "mlDsa"),
     empty    |-> <<>>]

Environment(catalogue, fips) ==
    [catalogue |-> catalogue, libcrypto |-> TRUE, fips |-> fips, writes |-> 40]

TestConfigs ==
    {Environment("standard", fips) : fips \in {"unset", "ok", "open"}}
    \cup {Environment(c, "ok") : c \in {"older", "empty"}}
    \cup {Environment("newer", "fails"),
          [Environment("standard", "unset") EXCEPT !.libcrypto = FALSE],
          [Environment("standard", "unset") EXCEPT !.writes = 2]}

FIPSTemplates == Ossl!catalog \ {"chacha20-poly1305", "ed25519ph"}

AskedTemplates == {"aes-256-gcm-128-96", "chacha20-poly1305", "ml-dsa-65", "ed448", "rot13"}

TestSpecs == {[name |-> "AEAD_STANDARD", fips |-> FALSE],
              [name |-> "AEAD_STANDARD", fips |-> TRUE],
              [name |-> "SIGNATURE_WITH_CONTEXT", fips |-> FALSE],
              [name |-> "KEY_WRAP", fips |-> FALSE]}

\* A policy's candidates, not in ID order; ed448 is served by no provider.
TestCandidates == {Only(<<"ed448", "ml-dsa-65", "chacha20-poly1305", "aes-256-gcm-128-96">>)}

TestRequirements ==
    {[valid |-> TRUE, fips |-> FALSE, hardware |-> FALSE],
     [valid |-> TRUE, fips |-> TRUE, hardware |-> FALSE],
     [valid |-> TRUE, fips |-> FALSE, hardware |-> TRUE],
     [valid |-> FALSE, fips |-> FALSE, hardware |-> FALSE]}

TestFaults == {NoFault, [list |-> TRUE, lost |-> {}],
               [list |-> FALSE, lost |-> {"aes-128-gcm-128-96", "ml-dsa-65"}]}
=============================================================================
