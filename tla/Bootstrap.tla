----------------------------- MODULE Bootstrap ------------------------------
(***************************************************************************)
(* The authorization bootstrap: the commands of setup-auth/main.go (apply, *)
(* users, verify, validate), the two files they keep, and the commands     *)
(* reset and nuke of bootstrap.sh.                                         *)
(*                                                                         *)
(* The identity provider is external.  idp says which of its objects exist *)
(* and under which identifier, 0 for none; an object that is created again *)
(* gets another identifier.  The calls are idempotent, and a client secret *)
(* is returned only by the call that creates the client.  The secret of a  *)
(* client is written as the client's identifier, 0 if unknown; likewise    *)
(* identifier 0 in a file is an entry that is not there.  The results for  *)
(* the web application and for a human also say whether the call created   *)
(* or updated it; fresh are the ones that do.                              *)
(*                                                                         *)
(* A command may die at any step, and any call may fail, before or after   *)
(* the provider has done what was asked (a lost answer, the two-minute     *)
(* timeout).  The access list, the environment and the provider's users    *)
(* change only between commands: a command reads the first two once.       *)
(***************************************************************************)
EXTENDS AccessList

CONSTANTS
    ACLFiles,      \* contents of the access list at first
    Edits,         \* those that it is given later
    MachineUsers,  \* usernames in them, by kind
    HumanUsers,
    MaxIncidents   \* bound on failures, deletions and resets

Usernames(inputs) == {inputs[i].username : i \in DOMAIN inputs}

Distinct(inputs) ==
    \A i, j \in DOMAIN inputs : inputs[i].username = inputs[j].username => i = j

\* A file lists its users, and MachineUsers and HumanUsers name those of the
\* valid files.
ASSUME BootstrapAssumption ==
    /\ {"project", "api", "web"} \cap (MachineUsers \cup HumanUsers) = {}
    /\ MachineUsers \cap HumanUsers = {}
    /\ MaxIncidents \in Nat
    /\ Edits \subseteq ACLFiles
    /\ \A f \in ACLFiles : ACLOK(f) =>
          /\ f.users \in Seq(Range(f.users))
          /\ \A u \in Range(f.users) : /\ IsMachine(u) => u.username \in MachineUsers
                                       /\ IsHuman(u) => u.username \in HumanUsers

VARIABLES
    file,      \* acl.yaml
    idp,       \* the identity provider's objects
    created,   \* how often each has been created
    generated, \* generated-config.json
    ui,        \* citius-ui-auth.json
    cmd,       \* the running command
    status,    \* the last command if it succeeded and nothing has changed since
    incidents  \* failures, deletions and resets so far

vars == <<file, idp, created, generated, ui, cmd, status, incidents>>

Objects == {"project", "api", "web"} \cup MachineUsers \cup HumanUsers
Ids == 0 .. MaxIncidents + 1

NoFile == [absent |-> TRUE]
Torn   == [truncated |-> TRUE]
Idle   == [pc |-> "idle"]

NoCredential == [id |-> 0, secret |-> 0]
NoConfig == [project |-> 0, api |-> NoCredential, web |-> 0,
             users  |-> [u \in MachineUsers |-> NoCredential],
             humans |-> [u \in HumanUsers |-> 0], fresh |-> {}]

Credentials == [id : Ids, secret : Ids]
Configs == [project : Ids, api : Credentials, web : Ids,
            users : [MachineUsers -> Credentials], humans : [HumanUsers -> Ids],
            fresh : SUBSET (HumanUsers \cup {"web"})]
UIConfigs == [project : Ids, web : Ids, users : [HumanUsers -> Ids]]

TypeOK ==
    /\ file \in ACLFiles
    /\ idp \in [Objects -> Ids] /\ created \in [Objects -> Ids]
    /\ generated \in Configs \cup {NoFile}
    /\ ui \in UIConfigs \cup {NoFile, Torn}
    /\ \/ cmd = Idle
       \/ /\ cmd.pc \in {"bootstrap", "resolve", "web", "machines", "humans", "merge", "rename",
                         "ui", "ui-write", "verify", "delete"}
          /\ cmd.name \in {"apply", "users", "verify", "reset", "nuke"}
          /\ cmd.result \in Configs
          /\ cmd.unread \in BOOLEAN
    /\ status \in {"none", "failed", "apply", "users", "verify", "reset", "nuke"}
    /\ incidents \in 0 .. MaxIncidents

Init ==
    /\ file \in ACLFiles
    /\ idp = [o \in Objects |-> 0] /\ created = [o \in Objects |-> 0]
    /\ generated = NoFile /\ ui = NoFile
    /\ cmd = Idle /\ status = "none" /\ incidents = 0

(***************************************************************************)
(* Steps of a command                                                      *)
(***************************************************************************)
Succeed == cmd' = Idle /\ status' = cmd.name
Fail    == cmd' = Idle /\ status' = "failed"

Incident == incidents < MaxIncidents /\ incidents' = incidents + 1

Goto(pc) == cmd' = [cmd EXCEPT !.pc = pc] /\ UNCHANGED status

\* The provider creates object o unless it exists.
Ensured(o) == IF idp[o] = 0 THEN created[o] + 1 ELSE idp[o]

Ensure(objects) ==
    /\ idp' = [o \in Objects |-> IF o \in objects THEN Ensured(o) ELSE idp[o]]
    /\ created' = [o \in Objects |->
                      IF o \in objects /\ idp[o] = 0 THEN created[o] + 1 ELSE created[o]]

Credential(o) == [id |-> Ensured(o), secret |-> IF idp[o] = 0 THEN Ensured(o) ELSE 0]

\* What a call that creates or updates o leaves in fresh.
Flagged(o, updated) == IF idp[o] = 0 \/ updated THEN {o} ELSE {}

\* What validate, a dry run, a bad access list, a missing PAT, or users and
\* verify with a generated-config.json that cannot be read amount to.
ReturnAtOnce ==
    /\ cmd = Idle
    /\ status' = "none"
    /\ UNCHANGED <<file, idp, created, generated, ui, cmd, incidents>>

Start(name, pc, passwords) ==
    cmd' = [pc |-> pc, name |-> name, acl |-> loadACL(file), passwords |-> passwords,
            todo |-> <<>>, result |-> NoConfig, unread |-> FALSE]

\* runApply, up to Bootstrap.
runApply ==
    /\ cmd = Idle
    /\ ACLOK(file)
    /\ \E passwords \in SUBSET Usernames(loadACL(file).humans) : Start("apply", "bootstrap", passwords)
    /\ UNCHANGED <<file, idp, created, generated, ui, status, incidents>>

\* runUsers and runVerify, up to their first call; existing is generated,
\* which nothing else writes meanwhile.
runUsers ==
    /\ cmd = Idle
    /\ ACLOK(file)
    /\ generated # NoFile
    /\ \E passwords \in SUBSET Usernames(loadACL(file).humans) : Start("users", "resolve", passwords)
    /\ UNCHANGED <<file, idp, created, generated, ui, status, incidents>>

runVerify ==
    /\ cmd = Idle
    /\ ACLOK(file)
    /\ generated # NoFile
    /\ Start("verify", "verify", {})
    /\ UNCHANGED <<file, idp, created, generated, ui, status, incidents>>

\* Bootstrap: the project and the API application.
CallBootstrap ==
    /\ cmd.pc = "bootstrap"
    /\ Ensure({"project", "api"})
    /\ cmd' = [cmd EXCEPT !.pc = "resolve", !.result.project = Ensured("project"),
                          !.result.api = Credential("api")]
    /\ UNCHANGED <<file, generated, ui, status, incidents>>

\* Mutant: a missing password is not noticed here.
resolveNothing ==
    /\ cmd.pc = "resolve"
    /\ cmd' = [cmd EXCEPT !.pc = "web", !.todo = cmd.acl.machines]
    /\ UNCHANGED <<file, idp, created, generated, ui, status, incidents>>

\* resolveHumanInputs: before any identity is touched.
resolveHumanInputs ==
    /\ cmd.pc = "resolve"
    /\ IF Usernames(cmd.acl.humans) \subseteq cmd.passwords
       THEN /\ cmd' = [cmd EXCEPT !.pc = "web", !.todo = cmd.acl.machines]
            /\ UNCHANGED status
       ELSE Fail
    /\ UNCHANGED <<file, idp, created, generated, ui, incidents>>

\* The client is bound to a project, which the provider must still have.
ProjectID == IF cmd.name = "apply" THEN cmd.result.project ELSE generated.project

EnsureWebApplication ==
    /\ cmd.pc = "web"
    /\ IF cmd.acl.web = NoWeb
       THEN Goto("machines") /\ UNCHANGED <<idp, created>>
       ELSE /\ idp["project"] = ProjectID
            /\ Ensure({"web"})
            /\ \E updated \in BOOLEAN :
                  cmd' = [cmd EXCEPT !.pc = "machines", !.result.web = Ensured("web"),
                                     !.result.fresh = @ \cup Flagged("web", updated)]
            /\ UNCHANGED status
    /\ UNCHANGED <<file, generated, ui, incidents>>

OnboardMachine ==
    /\ cmd.pc = "machines"
    /\ IF cmd.todo = <<>>
       THEN /\ cmd' = [cmd EXCEPT !.pc = "humans", !.todo = cmd.acl.humans]
            /\ UNCHANGED <<idp, created>>
       ELSE LET u == Head(cmd.todo).username IN
            /\ idp["project"] = ProjectID
            /\ Ensure({u})
            /\ cmd' = [cmd EXCEPT !.todo = Tail(@), !.result.users[u] = Credential(u)]
    /\ UNCHANGED <<file, generated, ui, status, incidents>>

OnboardHuman ==
    /\ cmd.pc = "humans"
    /\ IF cmd.todo = <<>>
       THEN Goto("merge") /\ UNCHANGED <<idp, created>>
       ELSE LET u == Head(cmd.todo).username IN
            /\ idp["project"] = ProjectID
            /\ Ensure({u})
            /\ cmd' = [cmd EXCEPT !.todo = Tail(@), !.result.humans[u] = Ensured(u),
                                  !.result.fresh = @ \cup Flagged(u, FALSE)]
            /\ UNCHANGED status
    /\ UNCHANGED <<file, generated, ui, incidents>>

(***************************************************************************)
(* The two files                                                           *)
(***************************************************************************)
\* Mutant: the client identifier is not compared.
PreservedBlindly(old, new) ==
    IF new.secret = 0 THEN [new EXCEPT !.secret = old.secret] ELSE new

\* A secret is carried over only if there is no new one and the client is
\* the same.
Preserved(old, new) ==
    IF new.secret = 0 /\ new.id = old.id THEN [new EXCEPT !.secret = old.secret] ELSE new

\* Mutants: only the users' secrets are carried over; only the API's is.
preserveUserSecrets(previous, next) ==
    [next EXCEPT !.users = [u \in MachineUsers |->
                              Preserved(previous.users[u], next.users[u])]]

preserveAPISecret(previous, next) ==
    [next EXCEPT !.api = Preserved(previous.api, next.api)]

preserveKnownSecrets(previous, next) ==
    [next EXCEPT !.api = Preserved(previous.api, next.api),
                 !.users = [u \in MachineUsers |->
                              Preserved(previous.users[u], next.users[u])]]

\* Mutant: existing entries win.
Under(new, old, none) == [u \in DOMAIN old |-> IF old[u] = none THEN new[u] ELSE old[u]]

Over(new, old, none) == [u \in DOMAIN old |-> IF new[u] = none THEN old[u] ELSE new[u]]

\* The results of this command, which replace those of the file.
Reported(config) == {u \in HumanUsers : config.humans[u] # 0}
                      \cup (IF config.web # 0 THEN {"web"} ELSE {})

\* apply starts from its own results, users from the existing file.
Merged ==
    CASE cmd.name = "apply" /\ (generated = NoFile \/ cmd.unread) -> cmd.result
      [] cmd.name = "apply" /\ generated # NoFile /\ ~cmd.unread ->
            preserveKnownSecrets(generated, cmd.result)
      [] cmd.name = "users" ->
            preserveKnownSecrets(generated,
                [generated EXCEPT
                    !.users  = Over(cmd.result.users, generated.users, NoCredential),
                    !.humans = Over(cmd.result.humans, generated.humans, 0),
                    !.web    = IF cmd.result.web # 0 THEN cmd.result.web ELSE @,
                    !.fresh  = (@ \ Reported(cmd.result)) \cup cmd.result.fresh])

buildUIAuthConfig(config, acl) ==
    [project |-> config.project, web |-> config.web,
     users |-> [u \in HumanUsers |->
                   IF u \in Usernames(acl.humans) THEN config.humans[u] ELSE 0]]

\* buildUIAuthConfig fails unless this holds (or the issuer is malformed).
UIConfigOK(config, acl) ==
    acl.web # NoWeb => /\ config.project # 0 /\ config.web # 0
                       /\ \A u \in Usernames(acl.humans) : config.humans[u] # 0

\* apply's readGeneratedConfig fails on a file that is there: it cannot be
\* read, parsed, or has no project.  apply goes on as if there were none.
ReadFails ==
    /\ cmd.pc = "merge"
    /\ cmd.name = "apply" /\ generated # NoFile /\ ~cmd.unread
    /\ Incident
    /\ cmd' = [cmd EXCEPT !.unread = TRUE]
    /\ UNCHANGED <<file, idp, created, generated, ui, status>>

\* Merging, and writeBootstrapConfigs up to the temporary file.
PrepareConfigs ==
    /\ cmd.pc = "merge"
    /\ \/ /\ UIConfigOK(Merged, cmd.acl)
          /\ cmd' = [cmd EXCEPT !.pc = "rename", !.result = Merged]
          /\ UNCHANGED status
       \/ Fail   \* a malformed issuer, or a UI configuration that is incomplete
    /\ UNCHANGED <<file, idp, created, generated, ui, incidents>>

\* Mutant: the target is removed before it is written anew.
writeInPlace ==
    /\ cmd.pc = "rename"
    /\ \/ generated # NoFile /\ generated' = NoFile /\ UNCHANGED <<cmd, status>>
       \/ generated = NoFile /\ generated' = cmd.result /\ Goto("ui")
    /\ UNCHANGED <<file, idp, created, ui, incidents>>

\* writeFileAtomic: the rename.
writeGeneratedConfig ==
    /\ cmd.pc = "rename"
    /\ generated' = cmd.result
    /\ Goto("ui")
    /\ UNCHANGED <<file, idp, created, ui, incidents>>

\* The UI file is removed, or truncated and then written.
writeUIConfig ==
    /\ cmd.pc = "ui"
    /\ IF cmd.acl.web = NoWeb THEN ui' = NoFile /\ Succeed
                              ELSE ui' = Torn /\ Goto("ui-write")
    /\ UNCHANGED <<file, idp, created, generated, incidents>>

FinishUIConfig ==
    /\ cmd.pc = "ui-write"
    /\ ui' = buildUIAuthConfig(cmd.result, cmd.acl)
    /\ Succeed
    /\ UNCHANGED <<file, idp, created, generated, incidents>>

\* verify: drift is a declared web application or human that does not exist.
verifyIdentityResources ==
    /\ cmd.pc = "verify"
    /\ IF /\ cmd.acl.web # NoWeb
          /\ idp["project"] = generated.project
          /\ idp["web"] # 0
          /\ \A u \in Usernames(cmd.acl.humans) : idp[u] # 0
       THEN Succeed ELSE Fail
    /\ UNCHANGED <<file, idp, created, generated, ui, incidents>>

(***************************************************************************)
(* Failure                                                                 *)
(***************************************************************************)
\* The object that the pending call would create.
PendingObjects ==
    CASE cmd.pc = "bootstrap" -> {"project", "api"}
      [] cmd.pc = "web" /\ cmd.acl.web # NoWeb -> {"web"}
      [] cmd.pc \in {"machines", "humans"} /\ cmd.todo # <<>> -> {Head(cmd.todo).username}
      [] OTHER -> {}

\* The provider refuses: it has no such project.
CallRefused ==
    /\ cmd.pc # "bootstrap" /\ PendingObjects # {}
    /\ idp["project"] # ProjectID
    /\ Fail
    /\ UNCHANGED <<file, idp, created, generated, ui, incidents>>

\* A call fails: all, some or nothing of it is done, and its answer is lost.
CallFails ==
    /\ PendingObjects # {}
    /\ cmd.pc = "bootstrap" \/ idp["project"] = ProjectID
    /\ Incident
    /\ \E done \in {{}, PendingObjects, PendingObjects \ {"api"}} : Ensure(done)
    /\ Fail
    /\ UNCHANGED <<file, generated, ui>>

\* The process is killed, or a file operation fails and it gives up.
Interrupt ==
    /\ cmd # Idle
    /\ Incident
    /\ Fail
    /\ UNCHANGED <<file, idp, created, generated, ui>>

(***************************************************************************)
(* The operator, between commands                                          *)
(***************************************************************************)
EditACL ==
    /\ cmd = Idle
    /\ file' \in Edits \ {file}
    /\ status' = "none"
    /\ UNCHANGED <<idp, created, generated, ui, cmd, incidents>>

\* A user or the web application is deleted at the provider.
DeleteObject(o) ==
    /\ cmd = Idle
    /\ idp[o] # 0
    /\ Incident
    /\ idp' = [idp EXCEPT ![o] = 0]
    /\ status' = "none"
    /\ UNCHANGED <<file, created, generated, ui, cmd>>

\* The volumes first, if there is a .env for compose to read, then the files.
WipeStack(name) ==
    /\ cmd = Idle
    /\ Incident
    /\ \E envFile \in BOOLEAN : idp' = IF envFile THEN [o \in Objects |-> 0] ELSE idp
    /\ Start(name, "delete", {})
    /\ status' = "none"
    /\ UNCHANGED <<file, created, generated, ui>>

cmd_reset == WipeStack("reset")
cmd_nuke  == WipeStack("nuke")

\* reset goes on with cmd_up, which refuses without .env, among others.
DeleteFiles ==
    /\ cmd.pc = "delete"
    /\ generated' = NoFile /\ ui' = NoFile
    /\ Succeed \/ (cmd.name = "reset" /\ Fail)
    /\ UNCHANGED <<file, idp, created, incidents>>

Step == \/ CallBootstrap \/ resolveHumanInputs \/ EnsureWebApplication
        \/ OnboardMachine \/ OnboardHuman \/ PrepareConfigs \/ writeGeneratedConfig
        \/ writeUIConfig \/ FinishUIConfig \/ verifyIdentityResources
        \/ DeleteFiles \/ CallRefused

Operator == \/ runApply \/ runUsers \/ runVerify \/ ReturnAtOnce \/ EditACL
            \/ cmd_reset \/ cmd_nuke
            \/ \E o \in Objects \ {"project", "api"} : DeleteObject(o)

Next == Step \/ ReadFails \/ CallFails \/ Interrupt \/ Operator

Spec == Init /\ [][Next]_vars

(***************************************************************************)
(* Properties                                                              *)
(***************************************************************************)
Clients == MachineUsers \cup {"api"}

Entry(config, c) == IF c = "api" THEN config.api ELSE config.users[c]

FileKnows(c) == /\ idp[c] # 0 /\ generated # NoFile
                /\ Entry(generated, c) = [id |-> idp[c], secret |-> idp[c]]

Known(c) == \/ FileKnows(c)
            \/ /\ idp[c] # 0 /\ cmd # Idle
               /\ Entry(cmd.result, c) = [id |-> idp[c], secret |-> idp[c]]

\* apply writes the file without the users that have left the access list.
Dropped(c) == /\ cmd # Idle /\ cmd.name = "apply"
              /\ c \in MachineUsers \ Usernames(cmd.acl.machines)

(***************************************************************************)
(* A secret in generated-config.json is the secret of the client it stands *)
(* beside (preserveKnownSecrets: "a new client ID means a new credential,  *)
(* whose old secret must not be reused"), whatever was deleted, recreated, *)
(* reset or interrupted before.                                            *)
(***************************************************************************)
SecretsMatch ==
    generated # NoFile =>
        \A c \in Clients : Entry(generated, c).secret \in {0, Entry(generated, c).id}

(***************************************************************************)
(* What takes the secret of a client that exists out of the file: an apply *)
(* whose access list has lost the user, an apply that could not read the   *)
(* file it replaces (main.go:234), and a reset or nuke that found no .env  *)
(* and so left the provider as it was (bootstrap.sh:670).                  *)
(***************************************************************************)
Forgets(c) == Dropped(c) \/ (cmd # Idle /\ (cmd.unread \/ cmd.name \in {"reset", "nuke"}))

(***************************************************************************)
(* No other step, and no failure or death of a command, takes from the     *)
(* file the secret of a client that still exists (writeFileAtomic,         *)
(* preserveKnownSecrets).                                                  *)
(***************************************************************************)
FileKeepsSecrets ==
    [][\A c \in Clients : FileKnows(c) /\ idp'[c] = idp[c] => FileKnows(c)' \/ Forgets(c)]_vars

(***************************************************************************)
(* A secret that the provider has issued is in the file or in the running  *)
(* command until that command fails or forgets it: one that succeeds and   *)
(* has read the file loses none, its own new ones included (runApply,      *)
(* runUsers).                                                              *)
(***************************************************************************)
SecretsAccountedFor ==
    [][\A c \in Clients :
          /\ idp'[c] # 0
          /\ idp[c] # idp'[c] \/ Known(c)
          => Known(c)' \/ status' = "failed" \/ Forgets(c)]_vars

(***************************************************************************)
(* After a successful apply or users, generated-config.json names the      *)
(* project and every identity of the access list by the identifier they    *)
(* have at the provider, and after apply no other machine user.            *)
(***************************************************************************)
GeneratedCurrent ==
    cmd = Idle /\ status \in {"apply", "users"} =>
        LET acl == loadACL(file) IN
        /\ generated.project = idp["project"]
        /\ generated.api.id = idp["api"]
        /\ acl.web # NoWeb => generated.web = idp["web"]
        /\ \A u \in Usernames(acl.machines) : generated.users[u].id = idp[u]
        /\ \A u \in Usernames(acl.humans) : generated.humans[u] = idp[u]
        /\ status = "apply" => \A u \in MachineUsers \ Usernames(acl.machines) :
                                    generated.users[u] = NoCredential

(***************************************************************************)
(* After a successful apply or users the UI file is there exactly if the   *)
(* access list declares a web application, is complete, and names the same *)
(* project, application and demo users as the provider                     *)
(* (writeBootstrapConfigs).                                                *)
(***************************************************************************)
UICurrent ==
    cmd = Idle /\ status \in {"apply", "users"} =>
        LET acl == loadACL(file) IN
        IF acl.web = NoWeb THEN ui = NoFile
        ELSE ui = [project |-> idp["project"], web |-> idp["web"],
                   users |-> [u \in HumanUsers |->
                                 IF u \in Usernames(acl.humans) THEN idp[u] ELSE 0]]

(***************************************************************************)
(* Both files are current after a successful apply or users.               *)
(***************************************************************************)
FilesCurrent == GeneratedCurrent /\ UICurrent

(***************************************************************************)
(* No identity is created unless the access list is valid and the password *)
(* of every human in it is there (resolveHumanInputs).                     *)
(***************************************************************************)
ValidatedFirst ==
    [][\A o \in Objects \ {"project", "api"} :
          idp'[o] \notin {0, idp[o]} =>
              ACLOK(file) /\ Usernames(loadACL(file).humans) \subseteq cmd.passwords]_vars

(***************************************************************************)
(* apply is idempotent (main.go, "idempotent"): after one that succeeded,  *)
(* the next changes nothing at the provider, and in generated-config.json  *)
(* nothing but the created and updated flags, unless it cannot read the    *)
(* file and so loses the secrets in it.                                    *)
(***************************************************************************)
ReapplyChangesNothing ==
    [][status = "apply" /\ cmd # Idle /\ cmd.name = "apply" =>
          /\ idp' = idp
          /\ cmd.unread \/ generated' = [generated EXCEPT !.fresh = generated'.fresh]]_vars

=============================================================================
