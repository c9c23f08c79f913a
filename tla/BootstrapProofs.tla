-------------------------- MODULE BootstrapProofs ---------------------------
(***************************************************************************)
(* What the commands of setup-auth promise, for every set of access lists  *)
(* and users and any number of failures, deletions and resets.             *)
(***************************************************************************)
EXTENDS Bootstrap, SequenceTheorems, FiniteSetTheorems, TLAPS

ACL      == loadACL(file)
Machines == Usernames(ACL.machines)
Humans   == Usernames(ACL.humans)

PCs == {"bootstrap", "resolve", "web", "machines", "humans", "merge", "rename",
        "ui", "ui-write", "verify", "delete"}
Collecting == {"resolve", "web", "machines", "humans", "merge"}
Writing    == {"rename", "ui", "ui-write"}

Cred == [id : Nat, secret : Nat]
Conf == [project : Nat, api : Cred, web : Nat,
         users : [MachineUsers -> Cred], humans : [HumanUsers -> Nat],
         fresh : SUBSET (HumanUsers \cup {"web"})]
Inputs(acl) == Range(acl.machines) \cup Range(acl.humans)
Wipes == {"reset", "nuke"}
Command(acl) == [pc : PCs, name : {"apply", "users", "verify"} \cup Wipes, acl : {acl},
                 passwords : SUBSET HumanUsers, todo : Seq(Inputs(acl)), result : Conf,
                 unread : BOOLEAN]

(***************************************************************************)
(* The inductive invariant                                                 *)
(***************************************************************************)
\* Identifiers are numbers, and none is given twice.
Types ==
    /\ file \in ACLFiles
    /\ idp \in [Objects -> Nat] /\ created \in [Objects -> Nat]
    /\ \A o \in Objects : idp[o] <= created[o]
    /\ generated \in Conf \cup {NoFile}
    /\ cmd \in Command(ACL) \cup {Idle}

\* What a command has established when it is at its pc.
Control ==
    cmd # Idle =>
        /\ cmd.pc = "delete" <=> cmd.name \in Wipes
        /\ cmd.pc = "verify" <=> cmd.name = "verify"
        /\ cmd.pc = "bootstrap" => cmd.name = "apply"
        /\ cmd.name \notin Wipes => ACLOK(file)
        /\ cmd.unread => cmd.name = "apply" /\ generated # NoFile
        /\ cmd.name = "users" => generated # NoFile
        /\ cmd.pc \in {"web", "machines", "humans"} => Humans \subseteq cmd.passwords
        /\ cmd.pc = "web" => cmd.todo = ACL.machines
        /\ cmd.pc = "machines" => Usernames(cmd.todo) \subseteq Machines
        /\ cmd.pc = "humans" => Usernames(cmd.todo) \subseteq Humans
        /\ cmd.pc \in {"machines", "humans"} => Distinct(cmd.todo)
        /\ cmd.pc = "ui-write" => ACL.web # NoWeb

\* An entry that the provider's answer to this command gave for client o.
Issued(entry, o) == idp[o] # 0 /\ entry.id = idp[o] /\ entry.secret \in {0, idp[o]}

\* The command has ensured the web application or not, and onboarded machines
\* ms and humans hs.
Gathered(web, ms, hs) ==
    LET r == cmd.result IN
    /\ IF cmd.name = "apply"
       THEN r.project = idp["project"] /\ idp["project"] # 0 /\ Issued(r.api, "api")
       ELSE r.project = 0 /\ r.api = NoCredential
    /\ IF web THEN r.web = idp["web"] /\ idp["web"] # 0 ELSE r.web = 0
    /\ \A u \in MachineUsers :
          IF u \in ms THEN Issued(r.users[u], u) ELSE r.users[u] = NoCredential
    /\ \A u \in HumanUsers :
          IF u \in hs THEN r.humans[u] = idp[u] /\ idp[u] # 0 ELSE r.humans[u] = 0
    /\ cmd.name = "users" /\ (web \/ ms # {} \/ hs # {}) => generated.project = idp["project"]

Collected ==
    LET web == ACL.web # NoWeb IN
    /\ cmd.pc \in {"bootstrap", "verify", "delete"} => cmd.result = NoConfig
    /\ cmd.pc \in {"resolve", "web"} => Gathered(FALSE, {}, {})
    /\ cmd.pc = "machines" => Gathered(web, Machines \ Usernames(cmd.todo), {})
    /\ cmd.pc = "humans" => Gathered(web, Machines, Humans \ Usernames(cmd.todo))
    /\ cmd.pc = "merge" => Gathered(web, Machines, Humans)

\* Secrets stand beside their own clients.
Matching(r) == \A c \in Clients : Entry(r, c).secret \in {0, Entry(r, c).id}

\* The API application of the file's project is the file's.
FileOK ==
    generated # NoFile =>
        /\ Matching(generated)
        /\ generated.project # 0 /\ generated.project <= created["project"]
        /\ generated.api.id # 0
        /\ generated.project = idp["project"] => generated.api.id = idp["api"]

\* A configuration that names the identities of the access list as the
\* provider does, and nothing else if apply has made it.
Fresh(r, name) ==
    /\ r.project = idp["project"] /\ idp["project"] # 0
    /\ r.api.id = idp["api"] /\ idp["api"] # 0
    /\ ACL.web # NoWeb => r.web = idp["web"] /\ idp["web"] # 0
    /\ \A u \in Machines : r.users[u].id = idp[u] /\ idp[u] # 0
    /\ \A u \in Humans : r.humans[u] = idp[u] /\ idp[u] # 0
    /\ name = "apply" =>
          /\ ACL.web = NoWeb => r.web = 0
          /\ \A u \in MachineUsers \ Machines : r.users[u] = NoCredential
          /\ \A u \in HumanUsers \ Humans : r.humans[u] = 0

\* The secrets that the file knows are in the configuration to be written.
Keeps(r) == \A c \in Clients :
               FileKnows(c) => Entry(r, c) = [id |-> idp[c], secret |-> idp[c]] \/ Forgets(c)

Written ==
    cmd.pc \in Writing =>
        /\ Matching(cmd.result) /\ Fresh(cmd.result, cmd.name)
        /\ IF cmd.pc = "rename" THEN Keeps(cmd.result) ELSE generated = cmd.result

BootstrapInv == Types /\ Control /\ Collected /\ FileOK /\ Written

\* The same but for the created and updated flags.
SameBut(r, q) == r = [q EXCEPT !.fresh = r.fresh]

\* After a successful apply the file is fresh, and another apply learns nothing.
Applied ==
    /\ status = "apply" /\ (cmd = Idle \/ cmd.name = "apply") =>
          ACLOK(file) /\ generated # NoFile /\ Fresh(generated, "apply")
    /\ status = "apply" /\ cmd.pc \in Collecting /\ cmd.name = "apply" =>
          \A c \in Clients : Entry(cmd.result, c).secret = 0
    /\ status = "apply" /\ cmd.pc \in Writing /\ cmd.name = "apply" =>
          cmd.unread \/ SameBut(cmd.result, generated)
    /\ status = "users" /\ cmd = Idle => ACLOK(file) /\ Fresh(generated, "users")
    /\ UICurrent

-----------------------------------------------------------------------------
(***************************************************************************)
(* The members of a sequence at some places, in their order.               *)
(***************************************************************************)
\* The place of the n-th of them.
Place(at, n) == CHOOSE i \in at : Cardinality(at \cap (1 .. i)) = n

LEMMA InOrderPlaces ==
    \A s, at : InOrder(s, at) = [n \in 1 .. Cardinality(at) |-> s[Place(at, n)]]
  BY Zenon DEF InOrder, Place

\* As many different numbers as there are numbers are all of them.
LEMMA Onto ==
    ASSUME NEW S, IsFiniteSet(S), NEW f \in [S -> 1 .. Cardinality(S)],
           \A i, j \in S : f[i] = f[j] => i = j
    PROVE  \A n \in 1 .. Cardinality(S) : \E i \in S : f[i] = n
<1>1. Cardinality(S) \in Nat  BY FS_CardinalityType
<1>2. IsFiniteSet(1 .. Cardinality(S)) /\ Cardinality(1 .. Cardinality(S)) = Cardinality(S)
  <2>1. 1 \in Int /\ Cardinality(S) \in Int  BY <1>1
  <2>2. IsFiniteSet(1 .. Cardinality(S))
        /\ Cardinality(1 .. Cardinality(S))
           = IF 1 > Cardinality(S) THEN 0 ELSE Cardinality(S) - 1 + 1
    BY <2>1, FS_Interval
  <2> QED BY <1>1, <2>2
<1>3. f \in Injection(S, 1 .. Cardinality(S))  BY Zenon DEF Injection, IsInjective
<1>4. f \in Surjection(S, 1 .. Cardinality(S))  BY <1>2, <1>3, FS_Injection
<1> QED BY <1>4, Zenon DEF Surjection

\* The numbers of two places are in the order of the places.
LEMMA PlaceNumbers ==
    ASSUME NEW len \in Nat, NEW at \in SUBSET (1 .. len)
    PROVE  /\ IsFiniteSet(at) /\ Cardinality(at) \in Nat
           /\ \A i \in at : Cardinality(at \cap (1 .. i)) \in 1 .. Cardinality(at)
           /\ \A i, j \in at : i < j => Cardinality(at \cap (1 .. i)) < Cardinality(at \cap (1 .. j))
<1>1. IsFiniteSet(at)
  <2>1. 1 \in Int /\ len \in Int  OBVIOUS
  <2>2. IsFiniteSet(1 .. len)  BY <2>1, FS_Interval
  <2> QED BY <2>2, FS_Subset
<1>2. Cardinality(at) \in Nat  BY <1>1, FS_CardinalityType
<1>3. ASSUME NEW i \in at
      PROVE  /\ IsFiniteSet(at \cap (1 .. i)) /\ Cardinality(at \cap (1 .. i)) \in Nat
             /\ Cardinality(at \cap (1 .. i)) \in 1 .. Cardinality(at)
  <2>1. (at \cap (1 .. i)) \in SUBSET at  OBVIOUS
  <2>2. IsFiniteSet(at \cap (1 .. i)) /\ Cardinality(at \cap (1 .. i)) <= Cardinality(at)
    BY <1>1, <2>1, FS_Subset
  <2>3. Cardinality(at \cap (1 .. i)) \in Nat  BY <2>2, FS_CardinalityType
  <2>4. Cardinality(at \cap (1 .. i)) # 0
    <3>1. i \in at \cap (1 .. i)  OBVIOUS
    <3> QED BY <2>2, <3>1, FS_EmptySet
  <2> QED BY <1>2, <2>2, <2>3, <2>4
<1>4. ASSUME NEW i \in at, NEW j \in at, i < j
      PROVE  Cardinality(at \cap (1 .. i)) < Cardinality(at \cap (1 .. j))
  <2>1. (at \cap (1 .. i)) \in SUBSET (at \cap (1 .. j))  BY <1>4
  <2>2. j \in at \cap (1 .. j) /\ j \notin at \cap (1 .. i)  BY <1>4
  <2>3. /\ Cardinality(at \cap (1 .. i)) <= Cardinality(at \cap (1 .. j))
        /\ Cardinality(at \cap (1 .. j)) = Cardinality(at \cap (1 .. i))
              => at \cap (1 .. j) = at \cap (1 .. i)
    BY <1>3, <2>1, FS_Subset
  <2>4. Cardinality(at \cap (1 .. i)) \in Nat /\ Cardinality(at \cap (1 .. j)) \in Nat  BY <1>3
  <2> QED BY <2>2, <2>3, <2>4
<1> QED BY <1>1, <1>2, <1>3, <1>4

LEMMA Placing ==
    ASSUME NEW len \in Nat, NEW at \in SUBSET (1 .. len)
    PROVE  /\ \A n \in 1 .. Cardinality(at) : Place(at, n) \in at
           /\ \A i \in at : \E n \in 1 .. Cardinality(at) : Place(at, n) = i
           /\ \A m, n \in 1 .. Cardinality(at) : m < n => Place(at, m) < Place(at, n)
<1> DEFINE number == [i \in at |-> Cardinality(at \cap (1 .. i))]
<1>1. /\ IsFiniteSet(at) /\ Cardinality(at) \in Nat
      /\ \A i \in at : number[i] \in 1 .. Cardinality(at)
      /\ \A i, j \in at : i < j => number[i] < number[j]
  BY PlaceNumbers
<1>2. number \in [at -> 1 .. Cardinality(at)]  BY <1>1
<1>3. \A n : Place(at, n) = CHOOSE i \in at : number[i] = n
  BY Zenon DEF Place
<1> HIDE DEF number
<1>4. \A i, j \in at : number[i] = number[j] => i = j
  <2> TAKE i, j \in at
  <2>1. i \in Nat /\ j \in Nat /\ number[i] \in Nat /\ number[j] \in Nat  BY <1>1
  <2> QED BY <1>1, <2>1
<1>5. \A n \in 1 .. Cardinality(at) : \E i \in at : number[i] = n
  BY <1>1, <1>2, <1>4, Onto
<1>6. \A n \in 1 .. Cardinality(at) : Place(at, n) \in at /\ number[Place(at, n)] = n
  BY <1>3, <1>5
<1>7. \A i \in at : Place(at, number[i]) = i
  BY <1>1, <1>4, <1>6
<1>8. \A m, n \in 1 .. Cardinality(at) : m < n => Place(at, m) < Place(at, n)
  <2> SUFFICES ASSUME NEW m \in 1 .. Cardinality(at), NEW n \in 1 .. Cardinality(at), m < n
               PROVE  Place(at, m) < Place(at, n)
    OBVIOUS
  <2>1. Place(at, m) \in at /\ number[Place(at, m)] = m /\ Place(at, n) \in at /\ number[Place(at, n)] = n
    BY <1>6
  <2>2. m \in Nat /\ n \in Nat  BY <1>1
  <2>3. \A i \in at : i \in Nat  OBVIOUS
  <2>4. Place(at, m) \in Nat /\ Place(at, n) \in Nat  BY <2>1, <2>3
  <2> QED BY <1>1, <2>1, <2>2, <2>4
<1> QED BY <1>1, <1>6, <1>7, <1>8

LEMMA Ordered ==
    ASSUME NEW len \in Nat, NEW at \in SUBSET (1 .. len), NEW s
    PROVE  /\ Cardinality(at) \in Nat
           /\ DOMAIN InOrder(s, at) = 1 .. Cardinality(at)
           /\ InOrder(s, at) = <<>> <=> at = {}
           /\ \A n \in DOMAIN InOrder(s, at) : InOrder(s, at)[n] = s[Place(at, n)]
<1>1. IsFiniteSet(at) /\ Cardinality(at) \in Nat  BY PlaceNumbers
<1>2. /\ DOMAIN InOrder(s, at) = 1 .. Cardinality(at)
      /\ \A n \in DOMAIN InOrder(s, at) : InOrder(s, at)[n] = s[Place(at, n)]
  BY InOrderPlaces
<1>3. at = {} => InOrder(s, at) = <<>>
  <2>1. at = {} => InOrder(s, at) = [n \in {} |-> s[Place(at, n)]]
    <3>1. at = {} => Cardinality(at) = 0  BY FS_EmptySet
    <3> QED BY <3>1, InOrderPlaces
  <2> QED BY <2>1
<1>4. at # {} => InOrder(s, at) # <<>>
  <2>1. at # {} => 1 \in DOMAIN InOrder(s, at)  BY <1>1, <1>2, FS_EmptySet
  <2> QED BY <2>1
<1> QED BY <1>1, <1>2, <1>3, <1>4

\* The inputs that are made of the users at some places: a list of them, each
\* once if no two users have the same name.
LEMMA InputsOf ==
    ASSUME NEW users, NEW len \in Nat, DOMAIN users = 1 .. len, NEW at \in SUBSET (1 .. len),
           \A i, j \in DOMAIN users : users[i].username = users[j].username => i = j,
           NEW inputs, inputs = [n \in DOMAIN InOrder(users, at) |-> inputs[n]],
           \A n \in DOMAIN inputs : inputs[n].username = InOrder(users, at)[n].username
    PROVE  /\ inputs \in Seq(Range(inputs))
           /\ \A n \in DOMAIN inputs : \E i \in at : inputs[n].username = users[i].username
           /\ Distinct(inputs)
           /\ at # {} => inputs # <<>>
  <1> DEFINE chosen == InOrder(users, at)
  <1>1. /\ Cardinality(at) \in Nat
        /\ DOMAIN chosen = 1 .. Cardinality(at)
        /\ chosen = <<>> <=> at = {}
        /\ \A n \in DOMAIN chosen : chosen[n] = users[Place(at, n)]
    BY Ordered
  <1>2. /\ \A n \in 1 .. Cardinality(at) : Place(at, n) \in at
        /\ \A m, n \in 1 .. Cardinality(at) : m < n => Place(at, m) < Place(at, n)
    BY Placing
  <1>3. DOMAIN inputs = DOMAIN chosen  OBVIOUS
  <1> HIDE DEF chosen
  <1>4. \A n \in 1 .. Cardinality(at) : inputs[n].username = users[Place(at, n)].username
    BY <1>1, <1>3 DEF chosen
  <1>5. inputs \in Seq(Range(inputs))
    <2>1. inputs = [n \in 1 .. Cardinality(at) |-> inputs[n]]  BY <1>1 DEF chosen
    <2>2. \A n \in 1 .. Cardinality(at) : inputs[n] \in Range(inputs)  BY <1>1, <1>3 DEF Range
    <2> QED BY <1>1, <2>1, <2>2
  <1>6. Distinct(inputs)
    <2> SUFFICES ASSUME NEW m \in 1 .. Cardinality(at), NEW n \in 1 .. Cardinality(at),
                        inputs[m].username = inputs[n].username
                 PROVE  m = n
      BY <1>1, <1>3 DEF Distinct
    <2>0. Place(at, m) \in DOMAIN users /\ Place(at, n) \in DOMAIN users  BY <1>2
    <2>1. Place(at, m) = Place(at, n)
      <3>1. users[Place(at, m)].username = users[Place(at, n)].username  BY <1>4
      <3> QED BY Zenon, <2>0, <3>1
    <2>2. \A i \in at : i \in Nat  OBVIOUS
    <2>3. Place(at, m) \in Nat /\ m \in Nat /\ n \in Nat  BY <1>1, <1>2, <2>2
    <2> QED BY <1>2, <2>1, <2>3
  <1>7. at # {} => inputs # <<>>
    <2>1. at # {} => 1 \in DOMAIN inputs
      <3>1. at # {} => chosen # <<>>  BY <1>1
      <3>2. Cardinality(at) = 0 => at = {}  BY PlaceNumbers, FS_EmptySet
      <3> QED BY <1>1, <1>3, <3>2
    <2> QED BY <2>1
  <1> QED BY <1>1, <1>2, <1>3, <1>4, <1>5, <1>6, <1>7

-----------------------------------------------------------------------------
(***************************************************************************)
(* Access lists                                                            *)
(***************************************************************************)
LEMMA ACLFacts ==
    ASSUME file \in ACLFiles, ACLOK(file)
    PROVE  /\ ACL.machines \in Seq(Inputs(ACL)) /\ ACL.humans \in Seq(Inputs(ACL))
           /\ Machines \subseteq MachineUsers /\ Humans \subseteq HumanUsers
           /\ Distinct(ACL.machines) /\ Distinct(ACL.humans)
           /\ Machines # {} \/ Humans # {}
  <1> DEFINE acl == loadACL(file)
  <1>1. /\ acl.machines \in Seq(Range(acl.machines)) /\ acl.humans \in Seq(Range(acl.humans))
        /\ \A i \in DOMAIN acl.machines : acl.machines[i].username \in MachineUsers
        /\ \A i \in DOMAIN acl.humans : acl.humans[i].username \in HumanUsers
        /\ Distinct(acl.machines) /\ Distinct(acl.humans)
        /\ acl.machines # <<>> \/ acl.humans # <<>>
    <2> DEFINE users    == file.users
               machines == {i \in DOMAIN users : IsMachine(users[i])}
               humans   == {i \in DOMAIN users : IsHuman(users[i])}
               ms       == InOrder(users, machines)
               hs       == InOrder(users, humans)
    <2>1. /\ acl.machines = [i \in DOMAIN ms |-> machineOnboardInput(ms[i])]
          /\ acl.humans = [i \in DOMAIN hs |-> humanACLInput(hs[i])]
      BY DEF loadACL
    <2>2. /\ users \in Seq(Range(users))
          /\ \A u \in Range(users) : /\ IsMachine(u) => u.username \in MachineUsers
                                     /\ IsHuman(u) => u.username \in HumanUsers
      BY BootstrapAssumption
    <2>3. PICK len \in Nat : DOMAIN users = 1 .. len  BY <2>2
    <2>4. /\ users # <<>>
          /\ \A i \in DOMAIN users : /\ \A j \in 1 .. i - 1 : users[j].username # users[i].username
                                     /\ IsMachine(users[i]) \/ IsHuman(users[i])
      BY DEF ACLOK, appendACLUser
    <2>5. machines \in SUBSET (1 .. len) /\ humans \in SUBSET (1 .. len)  BY <2>3
    <2>6. machines # {} \/ humans # {}
      <3>1. 1 \in DOMAIN users  BY <2>2, <2>4
      <3> QED BY <2>4, <3>1
    <2>7. \A i \in machines : users[i].username \in MachineUsers
      BY <2>2 DEF Range
    <2>8. \A i \in humans : users[i].username \in HumanUsers
      BY <2>2 DEF Range
    <2> HIDE DEF users, machines, humans, acl
    <2>9. \A i, j \in DOMAIN users : users[i].username = users[j].username => i = j
      BY <2>3, <2>4
    <2>10. \A u : machineOnboardInput(u).username = u.username /\ humanACLInput(u).username = u.username
      BY DEF machineOnboardInput, humanACLInput
    <2>11. /\ acl.machines = [i \in DOMAIN ms |-> acl.machines[i]]
           /\ \A i \in DOMAIN acl.machines : acl.machines[i].username = ms[i].username
      BY <2>1, <2>10
    <2>12. /\ acl.humans = [i \in DOMAIN hs |-> acl.humans[i]]
           /\ \A i \in DOMAIN acl.humans : acl.humans[i].username = hs[i].username
      BY <2>1, <2>10
    <2>13. /\ acl.machines \in Seq(Range(acl.machines))
           /\ \A i \in DOMAIN acl.machines : \E k \in machines : acl.machines[i].username = users[k].username
           /\ Distinct(acl.machines)
           /\ machines # {} => acl.machines # <<>>
      BY <2>3, <2>5, <2>9, <2>11, InputsOf
    <2>14. /\ acl.humans \in Seq(Range(acl.humans))
           /\ \A i \in DOMAIN acl.humans : \E k \in humans : acl.humans[i].username = users[k].username
           /\ Distinct(acl.humans)
           /\ humans # {} => acl.humans # <<>>
      BY <2>3, <2>5, <2>9, <2>12, InputsOf
    <2> QED BY <2>6, <2>7, <2>8, <2>13, <2>14
  <1> HIDE DEF acl
  <1>2. \A S, T : \A s \in Seq(S) : S \subseteq T => s \in Seq(T)
    OBVIOUS
  <1>3. acl.machines \in Seq(Inputs(acl)) /\ acl.humans \in Seq(Inputs(acl))
    BY <1>1, <1>2 DEF Inputs
  <1>4. \A S : \A s \in Seq(S) : s # <<>> => 1 \in DOMAIN s
    OBVIOUS
  <1>5. Usernames(acl.machines) # {} \/ Usernames(acl.humans) # {}
    BY <1>1, <1>4 DEF Usernames
  <1>6. Usernames(acl.machines) \subseteq MachineUsers /\ Usernames(acl.humans) \subseteq HumanUsers
    BY <1>1 DEF Usernames
  <1> QED
    BY <1>1, <1>3, <1>5, <1>6 DEF ACL, Machines, Humans, acl

\* What is left to do when the first user has been onboarded.
LEMMA TodoTail ==
    ASSUME NEW S, NEW s \in Seq(S), s # <<>>, Distinct(s)
    PROVE  /\ Tail(s) \in Seq(S) /\ Distinct(Tail(s))
           /\ Usernames(Tail(s)) = Usernames(s) \ {Head(s).username}
           /\ Head(s).username \in Usernames(s)
  <1>1. /\ Tail(s) \in Seq(S) /\ Head(s) = s[1] /\ 1 \in DOMAIN s
        /\ \A i \in DOMAIN Tail(s) : i + 1 \in DOMAIN s /\ Tail(s)[i] = s[i + 1] /\ i \in Nat /\ i > 0
        /\ \A i \in DOMAIN s : i = 1 \/ (i - 1 \in DOMAIN Tail(s) /\ Tail(s)[i - 1] = s[i])
    OBVIOUS
  <1>2. Distinct(Tail(s))
    <2> SUFFICES ASSUME NEW i \in DOMAIN Tail(s), NEW j \in DOMAIN Tail(s),
                        Tail(s)[i].username = Tail(s)[j].username
                 PROVE  i = j
      BY DEF Distinct
    <2>1. i + 1 = j + 1
      BY <1>1 DEF Distinct
    <2> QED
      BY <1>1, <2>1
  <1>3. Head(s).username \in Usernames(s)
    BY <1>1 DEF Usernames
  <1>4. ASSUME NEW u \in Usernames(Tail(s)) PROVE u \in Usernames(s) \ {Head(s).username}
    <2>1. PICK i \in DOMAIN Tail(s) : u = Tail(s)[i].username
      BY DEF Usernames
    <2>2. u = s[i + 1].username /\ i + 1 \in DOMAIN s /\ i + 1 # 1
      BY <1>1, <2>1
    <2>3. u \in Usernames(s)
      BY <2>2 DEF Usernames
    <2>4. u # s[1].username
      BY <1>1, <2>2 DEF Distinct
    <2> QED
      BY <1>1, <2>3, <2>4
  <1>5. ASSUME NEW u \in Usernames(s), u # Head(s).username PROVE u \in Usernames(Tail(s))
    <2>1. PICK i \in DOMAIN s : u = s[i].username
      BY DEF Usernames
    <2>2. i - 1 \in DOMAIN Tail(s) /\ Tail(s)[i - 1] = s[i]
      BY <1>1, <1>5, <2>1
    <2> QED
      BY <2>1, <2>2 DEF Usernames
  <1> QED
    BY <1>1, <1>2, <1>3, <1>4, <1>5

\* The running command is not Idle, and a configuration is not NoFile.
LEMMA Running ==
    ASSUME Types
    PROVE  /\ cmd = Idle => cmd.pc = "idle"
           /\ cmd # Idle => cmd \in Command(ACL) /\ cmd.pc \in PCs /\ cmd.acl = ACL
           /\ cmd.pc \in PCs => cmd # Idle
           /\ cmd.pc # "idle" => cmd # Idle
  BY DEF Types, Idle, Command, PCs

LEMMA ConfIsFile ==
    ASSUME NEW r \in Conf PROVE r # NoFile
  <1>1. "project" \in DOMAIN r
    BY DEF Conf
  <1>2. "project" \notin DOMAIN NoFile
    BY DEF NoFile
  <1> QED
    BY <1>1, <1>2

(***************************************************************************)
(* Steps, field by field                                                   *)
(***************************************************************************)
\* What a call makes of the provider's objects, and what it returns.
LEMMA EnsureEffect ==
    ASSUME Types, NEW objects \in SUBSET Objects, Ensure(objects)
    PROVE  /\ idp' \in [Objects -> Nat] /\ created' \in [Objects -> Nat]
           /\ \A o \in Objects :
                 /\ idp'[o] <= created'[o] /\ created[o] <= created'[o]
                 /\ idp[o] # 0 => idp'[o] = idp[o]
                 /\ idp[o] = 0 => idp'[o] = 0 \/ idp'[o] > created[o]
           /\ \A o \in Objects \ objects : idp'[o] = idp[o]
           /\ \A o \in objects :
                 /\ idp'[o] # 0 /\ Ensured(o) = idp'[o]
                 /\ Credential(o) \in Cred /\ Credential(o).id = idp'[o]
                 /\ Credential(o).secret = IF idp[o] = 0 THEN idp'[o] ELSE 0
  <1>1. idp \in [Objects -> Nat] /\ created \in [Objects -> Nat] /\ \A o \in Objects : idp[o] <= created[o]
    BY DEF Types
  <1>2. idp' \in [Objects -> Nat] /\ created' \in [Objects -> Nat]
    BY <1>1 DEF Ensure, Ensured
  <1>3. ASSUME NEW o \in Objects
        PROVE  /\ idp'[o] <= created'[o] /\ created[o] <= created'[o]
               /\ idp[o] # 0 => idp'[o] = idp[o]
               /\ idp[o] = 0 => idp'[o] = 0 \/ idp'[o] > created[o]
               /\ o \notin objects => idp'[o] = idp[o]
               /\ o \in objects => idp'[o] # 0 /\ Ensured(o) = idp'[o]
    BY <1>1 DEF Ensure, Ensured
  <1>4. ASSUME NEW o \in objects
        PROVE  /\ Credential(o) \in Cred /\ Credential(o).id = idp'[o]
               /\ Credential(o).secret = IF idp[o] = 0 THEN idp'[o] ELSE 0
    <2>1. Ensured(o) = idp'[o] /\ idp'[o] \in Nat
      BY <1>2, <1>3
    <2> QED
      BY <2>1 DEF Credential, Cred
  <1> QED
    BY <1>2, <1>3, <1>4

\* A running command that fails, or a client that only looks, changes nothing
\* but itself.
Quiet == UNCHANGED <<file, idp, created, generated>>

\* A step to pc with the list todo.
Moved(pc, todo) ==
    /\ cmd' \in Command(ACL)' /\ cmd # Idle /\ cmd' # Idle
    /\ cmd'.pc = pc /\ cmd'.todo = todo
    /\ cmd'.name = cmd.name /\ cmd'.acl = cmd.acl /\ cmd'.passwords = cmd.passwords
    /\ cmd'.unread = cmd.unread

LEMMA BootstrapEffect ==
    ASSUME Types, CallBootstrap
    PROVE  /\ Ensure({"project", "api"}) /\ {"project", "api"} \subseteq Objects
           /\ Moved("resolve", cmd.todo)
           /\ cmd'.result.project = idp'["project"] /\ cmd'.result.api = Credential("api")
           /\ cmd'.result.web = cmd.result.web /\ cmd'.result.users = cmd.result.users
           /\ cmd'.result.humans = cmd.result.humans
  <1>1. Ensure({"project", "api"}) /\ {"project", "api"} \subseteq Objects
    BY DEF CallBootstrap, Objects
  <1>2. cmd \in Command(ACL) /\ cmd # Idle
    BY Running DEF CallBootstrap, PCs
  <1>3. /\ Credential("api") \in Cred /\ Ensured("project") = idp'["project"]
        /\ idp'["project"] \in Nat
    BY <1>1, EnsureEffect
  <1>4. cmd' = [cmd EXCEPT !.pc = "resolve", !.result.project = Ensured("project"),
                           !.result.api = Credential("api")]
    BY DEF CallBootstrap
  <1>5. ACL' = ACL
    BY DEF CallBootstrap, ACL
  <1>6. /\ cmd' \in Command(ACL) /\ cmd'.pc = "resolve" /\ cmd'.todo = cmd.todo
        /\ cmd'.name = cmd.name /\ cmd'.acl = cmd.acl /\ cmd'.passwords = cmd.passwords
        /\ cmd'.unread = cmd.unread
        /\ cmd'.result.project = idp'["project"] /\ cmd'.result.api = Credential("api")
        /\ cmd'.result.web = cmd.result.web /\ cmd'.result.users = cmd.result.users
        /\ cmd'.result.humans = cmd.result.humans
    BY <1>2, <1>3, <1>4 DEF Command, PCs, Conf
  <1>7. cmd' # Idle
    BY <1>6 DEF Idle
  <1> QED
    BY <1>1, <1>2, <1>5, <1>6, <1>7 DEF Moved

LEMMA ResolveEffect ==
    ASSUME Types, Control, resolveHumanInputs
    PROVE  /\ cmd # Idle
           /\ \/ Fail
              \/ /\ Moved("web", ACL.machines) /\ cmd'.result = cmd.result
                 /\ Humans \subseteq cmd.passwords /\ UNCHANGED status
  <1>1. cmd \in Command(ACL) /\ cmd # Idle /\ cmd.acl = ACL
    BY Running DEF resolveHumanInputs, PCs
  <1>2. ACL.machines \in Seq(Inputs(ACL))
    BY <1>1, ACLFacts DEF Types, Control, resolveHumanInputs
  <1>3. ACL' = ACL
    BY DEF resolveHumanInputs, ACL
  <1>4. CASE ~(Usernames(cmd.acl.humans) \subseteq cmd.passwords)
    BY <1>1, <1>4 DEF resolveHumanInputs
  <1>5. CASE Usernames(cmd.acl.humans) \subseteq cmd.passwords
    <2>1. cmd' = [cmd EXCEPT !.pc = "web", !.todo = cmd.acl.machines] /\ UNCHANGED status
      BY <1>5 DEF resolveHumanInputs
    <2>2. /\ cmd' \in Command(ACL) /\ cmd'.pc = "web" /\ cmd'.todo = ACL.machines
          /\ cmd'.name = cmd.name /\ cmd'.acl = cmd.acl /\ cmd'.passwords = cmd.passwords
          /\ cmd'.unread = cmd.unread
          /\ cmd'.result = cmd.result
      BY <1>1, <1>2, <2>1 DEF Command, PCs
    <2>3. cmd' # Idle
      BY <2>2 DEF Idle
    <2> QED
      BY <1>1, <1>3, <1>5, <2>1, <2>2, <2>3 DEF Moved, Humans
  <1> QED
    BY <1>4, <1>5

LEMMA GotoEffect ==
    ASSUME Types, cmd # Idle, UNCHANGED file, NEW pc \in PCs, Goto(pc)
    PROVE  Moved(pc, cmd.todo) /\ cmd'.result = cmd.result /\ UNCHANGED status
  <1>1. cmd \in Command(ACL)
    BY Running
  <1>2. ACL' = ACL
    BY DEF ACL
  <1>3. /\ cmd' \in Command(ACL) /\ cmd'.pc = pc /\ cmd'.todo = cmd.todo
        /\ cmd'.name = cmd.name /\ cmd'.acl = cmd.acl /\ cmd'.passwords = cmd.passwords
        /\ cmd'.unread = cmd.unread
        /\ cmd'.result = cmd.result
    BY <1>1 DEF Command, Goto
  <1>4. cmd' # Idle
    BY <1>3 DEF Idle, PCs
  <1> QED
    BY <1>2, <1>3, <1>4 DEF Moved, Goto

LEMMA WebEffect ==
    ASSUME Types, EnsureWebApplication
    PROVE  /\ cmd # Idle /\ UNCHANGED status /\ Moved("machines", cmd.todo)
           /\ \/ /\ ACL.web = NoWeb /\ UNCHANGED <<idp, created>> /\ cmd'.result = cmd.result
              \/ /\ ACL.web # NoWeb /\ idp["project"] = ProjectID
                 /\ Ensure({"web"}) /\ {"web"} \subseteq Objects
                 /\ cmd'.result.web = idp'["web"]
                 /\ cmd'.result.project = cmd.result.project /\ cmd'.result.api = cmd.result.api
                 /\ cmd'.result.users = cmd.result.users
                 /\ cmd'.result.humans = cmd.result.humans
  <1>1. cmd \in Command(ACL) /\ cmd # Idle /\ cmd.acl = ACL
    BY Running DEF EnsureWebApplication, PCs
  <1>2. ACL' = ACL
    BY DEF EnsureWebApplication, ACL
  <1>3. CASE ACL.web = NoWeb
    <2>1. Goto("machines") /\ UNCHANGED <<file, idp, created>> /\ "machines" \in PCs
      BY <1>1, <1>3 DEF EnsureWebApplication, PCs
    <2> QED
      BY <1>1, <1>3, <2>1, GotoEffect
  <1>4. CASE ACL.web # NoWeb
    <2>1. /\ Ensure({"web"}) /\ {"web"} \subseteq Objects /\ idp["project"] = ProjectID
          /\ \E f \in SUBSET (HumanUsers \cup {"web"}) :
                cmd' = [cmd EXCEPT !.pc = "machines", !.result.web = Ensured("web"),
                                   !.result.fresh = f]
          /\ UNCHANGED status
      <3>1. PICK updated \in BOOLEAN :
               cmd' = [cmd EXCEPT !.pc = "machines", !.result.web = Ensured("web"),
                                  !.result.fresh = @ \cup Flagged("web", updated)]
        BY <1>1, <1>4 DEF EnsureWebApplication
      <3> DEFINE f == cmd.result.fresh \cup Flagged("web", updated)
      <3>2. f \in SUBSET (HumanUsers \cup {"web"})
        BY <1>1 DEF Command, Conf, Flagged
      <3>3. cmd' = [cmd EXCEPT !.pc = "machines", !.result.web = Ensured("web"),
                               !.result.fresh = f]
        BY <1>1, <3>1 DEF Command, Conf
      <3> HIDE DEF f
      <3> QED
        BY <1>1, <1>4, <3>2, <3>3 DEF EnsureWebApplication, Objects
    <2>2. Ensured("web") = idp'["web"] /\ idp'["web"] \in Nat
      BY <2>1, EnsureEffect
    <2>3. /\ cmd' \in Command(ACL) /\ cmd'.pc = "machines" /\ cmd'.todo = cmd.todo
          /\ cmd'.name = cmd.name /\ cmd'.acl = cmd.acl /\ cmd'.passwords = cmd.passwords
          /\ cmd'.unread = cmd.unread
          /\ cmd'.result.web = idp'["web"]
          /\ cmd'.result.project = cmd.result.project /\ cmd'.result.api = cmd.result.api
          /\ cmd'.result.users = cmd.result.users
          /\ cmd'.result.humans = cmd.result.humans
      <3>1. PICK f \in SUBSET (HumanUsers \cup {"web"}) :
               cmd' = [cmd EXCEPT !.pc = "machines", !.result.web = Ensured("web"),
                                  !.result.fresh = f]
        BY <2>1
      <3> QED
        BY <1>1, <2>2, <3>1 DEF Command, PCs, Conf
    <2>4. cmd' # Idle
      BY <2>3 DEF Idle
    <2> QED
      BY <1>1, <1>2, <1>4, <2>1, <2>3, <2>4 DEF Moved
  <1> QED
    BY <1>3, <1>4

LEMMA MachineEffect ==
    ASSUME Types, Control, OnboardMachine
    PROVE  /\ cmd # Idle /\ UNCHANGED status
           /\ \/ /\ cmd.todo = <<>> /\ UNCHANGED <<idp, created>>
                 /\ Moved("humans", ACL.humans) /\ cmd'.result = cmd.result
              \/ /\ idp["project"] = ProjectID /\ Moved("machines", Tail(cmd.todo))
                 /\ Usernames(Tail(cmd.todo)) \subseteq Machines /\ Distinct(Tail(cmd.todo))
                 /\ \E u \in Machines :
                       /\ u \in Usernames(cmd.todo) /\ u \in MachineUsers /\ Ensure({u})
                       /\ Usernames(Tail(cmd.todo)) = Usernames(cmd.todo) \ {u}
                       /\ cmd'.result.users = [cmd.result.users EXCEPT ![u] = Credential(u)]
                 /\ cmd'.result.project = cmd.result.project /\ cmd'.result.api = cmd.result.api
                 /\ cmd'.result.web = cmd.result.web /\ cmd'.result.humans = cmd.result.humans
  <1>1. cmd \in Command(ACL) /\ cmd # Idle /\ cmd.acl = ACL /\ cmd.pc = "machines"
    BY Running DEF OnboardMachine, PCs
  <1>2. ACL' = ACL /\ UNCHANGED status
    BY DEF OnboardMachine, ACL
  <1>3. /\ ACL.humans \in Seq(Inputs(ACL)) /\ Machines \subseteq MachineUsers
        /\ Usernames(cmd.todo) \subseteq Machines /\ Distinct(cmd.todo)
    BY <1>1, ACLFacts DEF Types, Control
  <1>4. cmd.todo \in Seq(Inputs(ACL)) /\ cmd.result \in Conf
    BY <1>1 DEF Command
  <1>5. CASE cmd.todo = <<>>
    <2>1. /\ cmd' = [cmd EXCEPT !.pc = "humans", !.todo = cmd.acl.humans]
          /\ UNCHANGED <<idp, created>>
      BY <1>5 DEF OnboardMachine
    <2>2. /\ cmd' \in Command(ACL) /\ cmd'.pc = "humans" /\ cmd'.todo = ACL.humans
          /\ cmd'.name = cmd.name /\ cmd'.acl = cmd.acl /\ cmd'.passwords = cmd.passwords
          /\ cmd'.unread = cmd.unread
          /\ cmd'.result = cmd.result
      BY <1>1, <1>3, <2>1 DEF Command, PCs
    <2>3. cmd' # Idle
      BY <2>2 DEF Idle
    <2> QED
      BY <1>1, <1>2, <1>5, <2>1, <2>2, <2>3 DEF Moved
  <1>6. CASE cmd.todo # <<>>
    <2> DEFINE u == Head(cmd.todo).username
               t == Tail(cmd.todo)
    <2>1. /\ idp["project"] = ProjectID /\ Ensure({u})
          /\ cmd' = [cmd EXCEPT !.todo = t, !.result.users[u] = Credential(u)]
      BY <1>6 DEF OnboardMachine
    <2>2. /\ t \in Seq(Inputs(ACL)) /\ Distinct(t)
          /\ Usernames(t) = Usernames(cmd.todo) \ {u} /\ u \in Usernames(cmd.todo)
      BY <1>3, <1>4, <1>6, TodoTail
    <2>t. t = Tail(cmd.todo)
      OBVIOUS
    <2> HIDE DEF u, t
    <2>3. u \in Machines /\ u \in MachineUsers /\ {u} \subseteq Objects
      BY <1>3, <2>2 DEF Objects
    <2>4. Credential(u) \in Cred
      BY <2>1, <2>3, EnsureEffect
    <2>5. /\ cmd' \in Command(ACL) /\ cmd'.pc = "machines" /\ cmd'.todo = t
          /\ cmd'.name = cmd.name /\ cmd'.acl = cmd.acl /\ cmd'.passwords = cmd.passwords
          /\ cmd'.unread = cmd.unread
          /\ cmd'.result.users = [cmd.result.users EXCEPT ![u] = Credential(u)]
          /\ cmd'.result.project = cmd.result.project /\ cmd'.result.api = cmd.result.api
          /\ cmd'.result.web = cmd.result.web /\ cmd'.result.humans = cmd.result.humans
      BY <1>1, <2>1, <2>2, <2>3, <2>4 DEF Command, PCs, Conf
    <2>6. cmd' # Idle
      BY <2>5 DEF Idle
    <2>7. Usernames(t) \subseteq Machines
      BY <1>3, <2>2
    <2> QED
      BY <1>1, <1>2, <2>t, <2>1, <2>2, <2>3, <2>5, <2>6, <2>7 DEF Moved
  <1> QED
    BY <1>5, <1>6

LEMMA HumanEffect ==
    ASSUME Types, Control, OnboardHuman
    PROVE  /\ cmd # Idle /\ UNCHANGED status
           /\ \/ /\ cmd.todo = <<>> /\ UNCHANGED <<idp, created>>
                 /\ Moved("merge", cmd.todo) /\ cmd'.result = cmd.result
              \/ /\ idp["project"] = ProjectID /\ Moved("humans", Tail(cmd.todo))
                 /\ Usernames(Tail(cmd.todo)) \subseteq Humans /\ Distinct(Tail(cmd.todo))
                 /\ \E u \in Humans :
                       /\ u \in Usernames(cmd.todo) /\ u \in HumanUsers /\ Ensure({u})
                       /\ Usernames(Tail(cmd.todo)) = Usernames(cmd.todo) \ {u}
                       /\ cmd'.result.humans = [cmd.result.humans EXCEPT ![u] = idp'[u]]
                 /\ cmd'.result.project = cmd.result.project /\ cmd'.result.api = cmd.result.api
                 /\ cmd'.result.web = cmd.result.web /\ cmd'.result.users = cmd.result.users
  <1>1. cmd \in Command(ACL) /\ cmd # Idle /\ cmd.acl = ACL /\ cmd.pc = "humans"
    BY Running DEF OnboardHuman, PCs
  <1>2. ACL' = ACL /\ UNCHANGED status
    BY DEF OnboardHuman, ACL, Goto
  <1>3. /\ Humans \subseteq HumanUsers
        /\ Usernames(cmd.todo) \subseteq Humans /\ Distinct(cmd.todo)
    BY <1>1, ACLFacts DEF Types, Control
  <1>4. cmd.todo \in Seq(Inputs(ACL)) /\ cmd.result \in Conf
    BY <1>1 DEF Command
  <1>5. CASE cmd.todo = <<>>
    <2>1. Goto("merge") /\ UNCHANGED <<file, idp, created>> /\ "merge" \in PCs
      BY <1>5 DEF OnboardHuman, PCs
    <2> QED
      BY <1>1, <1>5, <2>1, GotoEffect
  <1>6. CASE cmd.todo # <<>>
    <2> DEFINE u == Head(cmd.todo).username
               t == Tail(cmd.todo)
               f == cmd.result.fresh \cup Flagged(u, FALSE)
    <2>1. /\ idp["project"] = ProjectID /\ Ensure({u})
          /\ cmd' = [cmd EXCEPT !.todo = t, !.result.humans[u] = Ensured(u), !.result.fresh = f]
      BY <1>1, <1>4, <1>6 DEF OnboardHuman, Command, Conf
    <2>2. /\ t \in Seq(Inputs(ACL)) /\ Distinct(t)
          /\ Usernames(t) = Usernames(cmd.todo) \ {u} /\ u \in Usernames(cmd.todo)
      BY <1>3, <1>4, <1>6, TodoTail
    <2>t. t = Tail(cmd.todo)
      OBVIOUS
    <2>f. u \in HumanUsers => f \in SUBSET (HumanUsers \cup {"web"})
      BY <1>4 DEF Conf, Flagged
    <2> HIDE DEF u, t, f
    <2>3. u \in Humans /\ u \in HumanUsers /\ {u} \subseteq Objects
      BY <1>3, <2>2 DEF Objects
    <2>4. Ensured(u) = idp'[u] /\ idp'[u] \in Nat
      BY <2>1, <2>3, EnsureEffect
    <2>5. /\ cmd' \in Command(ACL) /\ cmd'.pc = "humans" /\ cmd'.todo = t
          /\ cmd'.name = cmd.name /\ cmd'.acl = cmd.acl /\ cmd'.passwords = cmd.passwords
          /\ cmd'.unread = cmd.unread
          /\ cmd'.result.humans = [cmd.result.humans EXCEPT ![u] = idp'[u]]
          /\ cmd'.result.project = cmd.result.project /\ cmd'.result.api = cmd.result.api
          /\ cmd'.result.web = cmd.result.web /\ cmd'.result.users = cmd.result.users
      BY <1>1, <2>f, <2>1, <2>2, <2>3, <2>4 DEF Command, PCs, Conf
    <2>6. cmd' # Idle
      BY <2>5 DEF Idle
    <2>7. Usernames(t) \subseteq Humans
      BY <1>3, <2>2
    <2> QED
      BY <1>1, <1>2, <2>t, <2>1, <2>2, <2>3, <2>5, <2>6, <2>7 DEF Moved
  <1> QED
    BY <1>5, <1>6

LEMMA PreservedEffect ==
    ASSUME NEW old \in Cred, NEW new \in Cred
    PROVE  /\ Preserved(old, new) \in Cred /\ Preserved(old, new).id = new.id
           /\ Preserved(old, new).secret =
                 IF new.secret = 0 /\ new.id = old.id THEN old.secret ELSE new.secret
  BY DEF Preserved, Cred

LEMMA PreserveEffect ==
    ASSUME NEW previous \in Conf, NEW next \in Conf
    PROVE  LET r == preserveKnownSecrets(previous, next) IN
           /\ r \in Conf
           /\ r.project = next.project /\ r.web = next.web /\ r.humans = next.humans
           /\ r.api = Preserved(previous.api, next.api)
           /\ \A u \in MachineUsers : r.users[u] = Preserved(previous.users[u], next.users[u])
  <1> DEFINE us == [u \in MachineUsers |-> Preserved(previous.users[u], next.users[u])]
             a  == Preserved(previous.api, next.api)
  <1>1. a \in Cred
    BY PreservedEffect DEF Conf
  <1>2. \A u \in MachineUsers : previous.users[u] \in Cred /\ next.users[u] \in Cred
    BY DEF Conf
  <1>3. us \in [MachineUsers -> Cred]
    BY <1>2, PreservedEffect
  <1>4. preserveKnownSecrets(previous, next) = [next EXCEPT !.api = a, !.users = us]
    BY DEF preserveKnownSecrets
  <1>5. \A u \in MachineUsers : us[u] = Preserved(previous.users[u], next.users[u])
    OBVIOUS
  <1>6. a = Preserved(previous.api, next.api)
    OBVIOUS
  <1> HIDE DEF us, a
  <1> QED
    BY <1>1, <1>3, <1>4, <1>5, <1>6 DEF Conf

\* What apply and users write.
LEMMA MergedEffect ==
    ASSUME cmd \in Command(ACL), cmd.name \in {"apply", "users"},
           generated \in Conf \cup {NoFile}, cmd.name = "users" => generated # NoFile
    PROVE  /\ Merged \in Conf
           /\ cmd.name = "apply" /\ (generated = NoFile \/ cmd.unread) => Merged = cmd.result
           /\ cmd.name = "apply" =>
                 /\ Merged.project = cmd.result.project /\ Merged.web = cmd.result.web
                 /\ Merged.humans = cmd.result.humans
                 /\ generated # NoFile /\ ~cmd.unread =>
                       /\ Merged.api = Preserved(generated.api, cmd.result.api)
                       /\ \A u \in MachineUsers :
                             Merged.users[u] = Preserved(generated.users[u], cmd.result.users[u])
           /\ cmd.name = "users" =>
                 /\ Merged.project = generated.project
                 /\ Merged.api = Preserved(generated.api, generated.api)
                 /\ Merged.web = IF cmd.result.web # 0 THEN cmd.result.web ELSE generated.web
                 /\ \A u \in HumanUsers :
                       Merged.humans[u] = IF cmd.result.humans[u] = 0 THEN generated.humans[u]
                                          ELSE cmd.result.humans[u]
                 /\ \A u \in MachineUsers :
                       Merged.users[u] =
                          Preserved(generated.users[u],
                                    IF cmd.result.users[u] = NoCredential THEN generated.users[u]
                                    ELSE cmd.result.users[u])
  <1>1. cmd.result \in Conf
    BY DEF Command
  <1>2. CASE cmd.name = "apply" /\ (generated = NoFile \/ cmd.unread)
    BY <1>1, <1>2 DEF Merged
  <1>3. CASE cmd.name = "apply" /\ generated # NoFile /\ ~cmd.unread
    <2>1. Merged = preserveKnownSecrets(generated, cmd.result) /\ generated \in Conf
      BY <1>3 DEF Merged
    <2> QED
      BY <1>1, <1>3, <2>1, PreserveEffect
  <1>4. CASE cmd.name = "users"
    <2> DEFINE us == Over(cmd.result.users, generated.users, NoCredential)
               hs == Over(cmd.result.humans, generated.humans, 0)
               w  == IF cmd.result.web # 0 THEN cmd.result.web ELSE generated.web
               f  == (generated.fresh \ Reported(cmd.result)) \cup cmd.result.fresh
               n  == [generated EXCEPT !.users = us, !.humans = hs, !.web = w, !.fresh = f]
    <2>1. generated \in Conf
      BY <1>4
    <2>2. Merged = preserveKnownSecrets(generated, n)
      BY <1>4, <2>1 DEF Merged, Conf
    <2>3. /\ us \in [MachineUsers -> Cred]
          /\ \A u \in MachineUsers : us[u] = IF cmd.result.users[u] = NoCredential
                                             THEN generated.users[u] ELSE cmd.result.users[u]
      BY <1>1, <2>1 DEF Over, Conf
    <2>4. /\ hs \in [HumanUsers -> Nat]
          /\ \A u \in HumanUsers : hs[u] = IF cmd.result.humans[u] = 0
                                           THEN generated.humans[u] ELSE cmd.result.humans[u]
      BY <1>1, <2>1 DEF Over, Conf
    <2>5. w \in Nat /\ f \in SUBSET (HumanUsers \cup {"web"})
      BY <1>1, <2>1 DEF Conf
    <2> HIDE DEF us, hs, f
    <2>6. /\ n \in Conf /\ n.users = us /\ n.humans = hs /\ n.web = w
          /\ n.project = generated.project /\ n.api = generated.api
      BY <2>1, <2>3, <2>4, <2>5 DEF Conf
    <2> HIDE DEF n
    <2>7. /\ Merged \in Conf
          /\ Merged.project = n.project /\ Merged.web = n.web /\ Merged.humans = n.humans
          /\ Merged.api = Preserved(generated.api, n.api)
          /\ \A u \in MachineUsers : Merged.users[u] = Preserved(generated.users[u], n.users[u])
      BY <2>1, <2>2, <2>6, PreserveEffect
    <2> QED
      BY <1>4, <2>3, <2>4, <2>6, <2>7
  <1> QED
    BY <1>2, <1>3, <1>4

LEMMA PrepareEffect ==
    ASSUME Types, Control, PrepareConfigs
    PROVE  /\ cmd # Idle /\ cmd.name \in {"apply", "users"}
           /\ \/ Fail
              \/ /\ Moved("rename", cmd.todo) /\ cmd'.result = Merged /\ UNCHANGED status
                 /\ UIConfigOK(Merged, ACL)
  <1>1. /\ cmd \in Command(ACL) /\ cmd # Idle /\ cmd.acl = ACL /\ cmd.pc = "merge"
        /\ generated \in Conf \cup {NoFile}
    BY Running DEF PrepareConfigs, PCs, Types
  <1>2. cmd.name \in {"apply", "users"} /\ (cmd.name = "users" => generated # NoFile)
    BY <1>1 DEF Control, Command
  <1>3. ACL' = ACL
    BY DEF PrepareConfigs, ACL
  <1>4. Merged \in Conf
    BY <1>1, <1>2, MergedEffect
  <1>5. CASE Fail
    BY <1>1, <1>2, <1>5
  <1>6. CASE /\ UIConfigOK(Merged, cmd.acl) /\ UNCHANGED status
             /\ cmd' = [cmd EXCEPT !.pc = "rename", !.result = Merged]
    <2>1. /\ cmd' \in Command(ACL) /\ cmd'.pc = "rename" /\ cmd'.todo = cmd.todo
          /\ cmd'.name = cmd.name /\ cmd'.acl = cmd.acl /\ cmd'.passwords = cmd.passwords
          /\ cmd'.unread = cmd.unread
          /\ cmd'.result = Merged
      BY <1>1, <1>4, <1>6 DEF Command, PCs
    <2>2. cmd' # Idle
      BY <2>1 DEF Idle
    <2> QED
      BY <1>1, <1>2, <1>3, <1>6, <2>1, <2>2 DEF Moved
  <1> QED
    BY <1>5, <1>6 DEF PrepareConfigs

LEMMA StartEffect ==
    ASSUME Types, UNCHANGED file, NEW name \in {"apply", "users", "verify"} \cup Wipes,
           NEW pc \in PCs, NEW passwords \in SUBSET HumanUsers, Start(name, pc, passwords)
    PROVE  /\ cmd' \in Command(ACL)' /\ cmd' # Idle
           /\ cmd'.pc = pc /\ cmd'.name = name /\ cmd'.todo = <<>> /\ cmd'.result = NoConfig
           /\ cmd'.unread = FALSE
  <1>1. NoConfig \in Conf
    BY DEF NoConfig, NoCredential, Conf, Cred
  <1>2. ACL' = ACL
    BY DEF ACL
  <1>3. <<>> \in Seq(Inputs(ACL))
    OBVIOUS
  <1>4. cmd' = [pc |-> pc, name |-> name, acl |-> ACL, passwords |-> passwords,
                todo |-> <<>>, result |-> NoConfig, unread |-> FALSE]
    BY DEF Start, ACL
  <1>5. cmd' \in Command(ACL) /\ cmd'.pc = pc
    BY <1>1, <1>3, <1>4 DEF Command
  <1>6. cmd' # Idle
    BY <1>5 DEF Idle, PCs
  <1> QED
    BY <1>2, <1>4, <1>5, <1>6

\* A wipe of the stack, with the volumes or without.
Wiping == cmd_reset \/ cmd_nuke

LEMMA WipeEffect ==
    ASSUME Types, Wiping
    PROVE  /\ cmd = Idle /\ UNCHANGED <<file, created, generated, ui>> /\ status' = "none"
           /\ idp' = [o \in Objects |-> 0] \/ UNCHANGED idp
           /\ cmd' \in Command(ACL)' /\ cmd' # Idle /\ cmd'.pc = "delete"
           /\ cmd'.name \in Wipes /\ cmd'.result = NoConfig /\ cmd'.unread = FALSE
  <1>1. PICK name \in Wipes : WipeStack(name)
    BY DEF Wiping, cmd_reset, cmd_nuke, Wipes
  <1>2. /\ cmd = Idle /\ UNCHANGED <<file, created, generated, ui>> /\ status' = "none"
        /\ idp' = [o \in Objects |-> 0] \/ UNCHANGED idp
        /\ Start(name, "delete", {})
    BY <1>1 DEF WipeStack
  <1>3. "delete" \in PCs /\ {} \in SUBSET HumanUsers
    BY DEF PCs
  <1> QED
    BY <1>2, <1>3, StartEffect

\* apply has not been able to read the file, and goes on.
LEMMA ReadFailsEffect ==
    ASSUME Types, ReadFails
    PROVE  /\ Quiet /\ UNCHANGED <<ui, status>> /\ cmd # Idle /\ cmd' # Idle
           /\ cmd.name = "apply" /\ cmd.pc = "merge" /\ generated # NoFile
           /\ cmd' \in Command(ACL)' /\ cmd'.pc = "merge" /\ cmd'.todo = cmd.todo
           /\ cmd'.name = cmd.name /\ cmd'.acl = cmd.acl /\ cmd'.passwords = cmd.passwords
           /\ cmd'.result = cmd.result /\ cmd'.unread
  <1>1. cmd \in Command(ACL) /\ cmd # Idle
    BY Running DEF ReadFails, PCs
  <1>2. ACL' = ACL /\ Quiet /\ UNCHANGED <<ui, status>>
    BY DEF ReadFails, ACL, Quiet
  <1>3. /\ cmd' \in Command(ACL) /\ cmd'.pc = "merge" /\ cmd'.todo = cmd.todo
        /\ cmd'.name = cmd.name /\ cmd'.acl = cmd.acl /\ cmd'.passwords = cmd.passwords
        /\ cmd'.result = cmd.result /\ cmd'.unread
    BY <1>1 DEF ReadFails, Command
  <1>4. cmd' # Idle
    BY <1>3 DEF Idle
  <1> QED
    BY <1>1, <1>2, <1>3, <1>4 DEF ReadFails

\* What the pending call is about.
LEMMA Pending ==
    ASSUME Types, Control, PendingObjects # {}
    PROVE  /\ cmd # Idle /\ PendingObjects \subseteq Objects
           /\ \/ cmd.pc = "bootstrap" /\ PendingObjects = {"project", "api"}
              \/ cmd.pc = "web" /\ ACL.web # NoWeb /\ PendingObjects = {"web"}
              \/ cmd.pc = "machines" /\ \E u \in Machines : u \in MachineUsers /\ PendingObjects = {u}
              \/ cmd.pc = "humans" /\ \E u \in Humans : u \in HumanUsers /\ PendingObjects = {u}
  <1>1. cmd # Idle /\ cmd.pc \in {"bootstrap", "web", "machines", "humans"}
    <2>1. cmd.pc \in {"bootstrap", "web", "machines", "humans"}
      BY DEF PendingObjects
    <2> QED
      BY <2>1, Running
  <1>2. cmd \in Command(ACL) /\ cmd.acl = ACL /\ cmd.todo \in Seq(Inputs(ACL))
    <2>1. cmd \in Command(ACL) /\ cmd.acl = ACL
      BY <1>1, Running
    <2> QED
      BY <2>1 DEF Command
  <1>3. ACLOK(file) /\ file \in ACLFiles
    BY <1>1 DEF Control, Types
  <1>4. Machines \subseteq MachineUsers /\ Humans \subseteq HumanUsers
    BY <1>3, ACLFacts
  <1>5. CASE cmd.pc = "bootstrap"
    BY <1>1, <1>5 DEF PendingObjects, Objects
  <1>6. CASE cmd.pc = "web"
    BY <1>1, <1>2, <1>6 DEF PendingObjects, Objects
  <1>7. ASSUME cmd.pc \in {"machines", "humans"}
        PROVE  /\ PendingObjects = {Head(cmd.todo).username}
               /\ Head(cmd.todo).username \in Usernames(cmd.todo)
    <2>1. PendingObjects = {Head(cmd.todo).username} /\ cmd.todo # <<>>
      BY <1>7 DEF PendingObjects
    <2>2. Distinct(cmd.todo)
      BY <1>1, <1>7 DEF Control
    <2> QED
      BY <1>2, <2>1, <2>2, TodoTail
  <1>8. CASE cmd.pc = "machines"
    BY <1>1, <1>4, <1>7, <1>8 DEF Control, Objects
  <1>9. CASE cmd.pc = "humans"
    BY <1>1, <1>4, <1>7, <1>9 DEF Control, Objects
  <1> QED
    BY <1>1, <1>5, <1>6, <1>8, <1>9

LEMMA CallFailsEffect ==
    ASSUME Types, Control, CallFails
    PROVE  /\ cmd # Idle /\ Fail /\ UNCHANGED <<file, generated>>
           /\ \E done \in SUBSET Objects : done \subseteq PendingObjects /\ Ensure(done)
  BY Pending DEF CallFails

-----------------------------------------------------------------------------
(***************************************************************************)
(* Types and control                                                       *)
(***************************************************************************)
LEMMA Ending ==
    ASSUME cmd' = Idle PROVE cmd'.pc = "idle" /\ cmd'.pc \notin PCs
  BY DEF Idle, PCs

LEMMA TypesStep ==
    ASSUME Types, Control, [Next]_vars
    PROVE  Types'
  <1>0. /\ file \in ACLFiles /\ idp \in [Objects -> Nat] /\ created \in [Objects -> Nat]
        /\ \A o \in Objects : idp[o] <= created[o]
        /\ generated \in Conf \cup {NoFile} /\ cmd \in Command(ACL) \cup {Idle}
        /\ cmd # Idle => cmd.result \in Conf
    BY DEF Types, Command
  <1>a. ASSUME Quiet, cmd' \in Command(ACL)' \cup {Idle} PROVE Types'
    BY <1>0, <1>a DEF Quiet, Types
  <1>b. ASSUME NEW done \in SUBSET Objects, Ensure(done), UNCHANGED <<file, generated>>,
               cmd' \in Command(ACL)' \cup {Idle}
        PROVE  Types'
    <2>1. /\ idp' \in [Objects -> Nat] /\ created' \in [Objects -> Nat]
          /\ \A o \in Objects : idp'[o] <= created'[o]
      BY <1>b, EnsureEffect
    <2> QED
      BY <1>0, <1>b, <2>1 DEF Types
  <1>1. CASE CallBootstrap
    BY <1>b, <1>1, BootstrapEffect DEF CallBootstrap, Moved
  <1>2. CASE resolveHumanInputs
    BY <1>a, <1>2, ResolveEffect DEF resolveHumanInputs, Moved, Fail, Quiet
  <1>3. CASE EnsureWebApplication
    BY <1>a, <1>b, <1>3, WebEffect DEF EnsureWebApplication, Moved, Quiet
  <1>4. CASE OnboardMachine
    <2>1. UNCHANGED <<file, generated>>
      BY <1>4 DEF OnboardMachine
    <2>2. CASE UNCHANGED <<idp, created>>
      BY <1>a, <1>4, <2>1, <2>2, MachineEffect DEF Moved, Quiet
    <2>3. CASE \E u \in MachineUsers : Ensure({u})
      BY <1>b, <1>4, <2>1, <2>3, MachineEffect DEF Moved, Objects
    <2> QED
      BY <1>4, <2>2, <2>3, MachineEffect
  <1>5. CASE OnboardHuman
    <2>1. UNCHANGED <<file, generated>>
      BY <1>5 DEF OnboardHuman
    <2>2. CASE UNCHANGED <<idp, created>>
      BY <1>a, <1>5, <2>1, <2>2, HumanEffect DEF Moved, Quiet
    <2>3. CASE \E u \in HumanUsers : Ensure({u})
      BY <1>b, <1>5, <2>1, <2>3, HumanEffect DEF Moved, Objects
    <2> QED
      BY <1>5, <2>2, <2>3, HumanEffect
  <1>6. CASE PrepareConfigs
    BY <1>a, <1>6, PrepareEffect DEF PrepareConfigs, Moved, Fail, Quiet
  <1>7. CASE writeGeneratedConfig
    <2>1. cmd # Idle /\ UNCHANGED file /\ Goto("ui") /\ generated' = cmd.result
      BY <1>7, Running DEF writeGeneratedConfig, PCs
    <2>2. cmd' \in Command(ACL)'
      BY <2>1, GotoEffect DEF Moved, PCs
    <2> QED
      BY <1>0, <1>7, <2>1, <2>2 DEF writeGeneratedConfig, Types
  <1>8. CASE writeUIConfig
    <2>1. cmd # Idle /\ Quiet /\ (cmd' = Idle \/ Goto("ui-write"))
      BY <1>8, Running DEF writeUIConfig, PCs, Quiet, Succeed
    <2>2. cmd' = Idle \/ cmd' \in Command(ACL)'
      BY <2>1, GotoEffect DEF Moved, PCs, Quiet
    <2> QED
      BY <1>a, <2>1, <2>2
  <1>9. CASE FinishUIConfig
    BY <1>a, <1>9 DEF FinishUIConfig, Succeed, Quiet
  <1>10. CASE verifyIdentityResources
    BY <1>a, <1>10 DEF verifyIdentityResources, Succeed, Fail, Quiet
  <1>11. CASE DeleteFiles
    BY <1>0, <1>11 DEF DeleteFiles, Succeed, Fail, Types
  <1>12. CASE CallRefused
    BY <1>a, <1>12 DEF CallRefused, Fail, Quiet
  <1>13. CASE CallFails
    BY <1>b, <1>13, CallFailsEffect DEF Fail
  <1>14. CASE Interrupt
    BY <1>a, <1>14 DEF Interrupt, Fail, Quiet
  <1>s. ASSUME NEW name \in {"apply", "users", "verify"} \cup Wipes, NEW pc \in PCs,
               ACLOK(file), Quiet,
               \E passwords \in SUBSET Usernames(loadACL(file).humans) : Start(name, pc, passwords)
        PROVE  Types'
    <2>1. Humans \subseteq HumanUsers
      BY <1>0, <1>s, ACLFacts
    <2> QED
      BY <1>a, <1>s, <2>1, StartEffect DEF Quiet, Humans, ACL
  <1>15. CASE runApply
    BY <1>s, <1>15 DEF runApply, Quiet, PCs
  <1>16. CASE runUsers
    BY <1>s, <1>16 DEF runUsers, Quiet, PCs
  <1>17. CASE runVerify
    BY <1>s, <1>17 DEF runVerify, Quiet, PCs
  <1>18. CASE ReturnAtOnce
    BY <1>a, <1>18 DEF ReturnAtOnce, Quiet
  <1>19. CASE EditACL
    BY <1>0, <1>19, BootstrapAssumption DEF EditACL, Types
  <1>20. CASE Wiping
    <2>1. CASE UNCHANGED idp
      BY <1>0, <1>20, <2>1, WipeEffect DEF Types
    <2>2. CASE idp' = [o \in Objects |-> 0]
      <3>1. idp' \in [Objects -> Nat] /\ \A o \in Objects : idp'[o] <= created[o]
        BY <1>0, <2>2
      <3> QED
        BY <1>0, <1>20, <3>1, WipeEffect DEF Types
    <2> QED
      BY <1>20, <2>1, <2>2, WipeEffect
  <1>23. CASE ReadFails
    BY <1>a, <1>23, ReadFailsEffect
  <1>21. CASE \E o \in Objects \ {"project", "api"} : DeleteObject(o)
    BY <1>0, <1>21 DEF DeleteObject, Types
  <1>22. CASE UNCHANGED vars
    BY <1>0, <1>22 DEF vars, Types, ACL
  <1> QED
    BY <1>1, <1>2, <1>3, <1>4, <1>5, <1>6, <1>7, <1>8, <1>9, <1>10, <1>11, <1>12, <1>13, <1>14,
       <1>15, <1>16, <1>17, <1>18, <1>19, <1>20, <1>21, <1>22, <1>23 DEF Next, Step, Operator, Wiping

LEMMA ControlStep ==
    ASSUME Types, Control, [Next]_vars
    PROVE  Control'
  <1>0. /\ file \in ACLFiles /\ generated \in Conf \cup {NoFile}
        /\ cmd # Idle => cmd \in Command(ACL) /\ cmd.result \in Conf /\ cmd.pc \in PCs
        /\ cmd = Idle => cmd.pc = "idle"
    BY Running DEF Types, Command
  <1>i. ASSUME cmd' = Idle PROVE Control'
    BY <1>i DEF Control
  \* A step of apply or users from one pc to another.
  <1>m. ASSUME NEW pc \in PCs \ {"bootstrap", "verify", "delete"}, NEW todo, Moved(pc, todo),
               cmd.pc \notin {"verify", "delete"}, UNCHANGED file,
               generated # NoFile => generated' # NoFile,
               pc \in {"web", "machines", "humans"} => Humans \subseteq cmd.passwords,
               pc = "web" => todo = ACL.machines,
               pc = "machines" => Usernames(todo) \subseteq Machines,
               pc = "humans" => Usernames(todo) \subseteq Humans,
               pc \in {"machines", "humans"} => Distinct(todo),
               pc = "ui-write" => ACL.web # NoWeb
        PROVE  Control'
    <2>1. ACL' = ACL /\ Machines' = Machines /\ Humans' = Humans /\ cmd # Idle
      BY <1>m DEF Moved, ACL, Machines, Humans
    <2>2. cmd.name \notin {"verify"} \cup Wipes /\ ACLOK(file) /\ (cmd.name = "users" => generated # NoFile)
      BY <1>m, <2>1 DEF Control
    <2> QED
      BY <1>m, <2>1, <2>2 DEF Moved, Control
  <1>f. ACLOK(file) => /\ Distinct(ACL.machines) /\ Distinct(ACL.humans)
                       /\ Usernames(ACL.machines) = Machines /\ Usernames(ACL.humans) = Humans
    BY <1>0, ACLFacts DEF Machines, Humans
  <1>1. CASE CallBootstrap
    BY <1>m, <1>1, BootstrapEffect DEF CallBootstrap, PCs
  <1>2. CASE resolveHumanInputs
    <2>1. cmd.pc = "resolve" /\ UNCHANGED <<file, generated>>
      BY <1>2 DEF resolveHumanInputs
    <2> QED
      BY <1>i, <1>m, <1>2, <2>1, ResolveEffect DEF PCs, Fail
  <1>3. CASE EnsureWebApplication
    <2>1. cmd.pc = "web" /\ UNCHANGED <<file, generated>> /\ cmd # Idle
      BY <1>3, WebEffect DEF EnsureWebApplication
    <2>2. Humans \subseteq cmd.passwords /\ cmd.todo = ACL.machines /\ ACLOK(file)
      BY <2>1 DEF Control
    <2>3. Moved("machines", cmd.todo)
      BY <1>3, WebEffect
    <2> QED
      BY <1>f, <1>m, <2>1, <2>2, <2>3 DEF PCs
  <1>4. CASE OnboardMachine
    <2>1. cmd.pc = "machines" /\ UNCHANGED <<file, generated>> /\ cmd # Idle
      BY <1>4, MachineEffect DEF OnboardMachine
    <2>2. Humans \subseteq cmd.passwords /\ ACLOK(file)
      BY <2>1 DEF Control
    <2> QED
      BY <1>f, <1>m, <1>4, <2>1, <2>2, MachineEffect DEF PCs
  <1>5. CASE OnboardHuman
    <2>1. cmd.pc = "humans" /\ UNCHANGED <<file, generated>> /\ cmd # Idle
      BY <1>5, HumanEffect DEF OnboardHuman
    <2>2. Humans \subseteq cmd.passwords /\ ACLOK(file)
      BY <2>1 DEF Control
    <2> QED
      BY <1>m, <1>5, <2>1, <2>2, HumanEffect DEF PCs
  <1>6. CASE PrepareConfigs
    <2>1. cmd.pc = "merge" /\ UNCHANGED <<file, generated>>
      BY <1>6 DEF PrepareConfigs
    <2> QED
      BY <1>i, <1>m, <1>6, <2>1, PrepareEffect DEF PCs, Fail
  <1>7. CASE writeGeneratedConfig
    <2>1. /\ cmd # Idle /\ UNCHANGED file /\ Goto("ui") /\ generated' = cmd.result
          /\ cmd.pc = "rename"
      BY <1>7, Running DEF writeGeneratedConfig, PCs
    <2>2. Moved("ui", cmd.todo)
      BY <2>1, GotoEffect DEF PCs
    <2>3. generated' # NoFile
      BY <1>0, <2>1, ConfIsFile
    <2> QED
      BY <1>m, <2>1, <2>2, <2>3 DEF PCs
  <1>8. CASE writeUIConfig
    <2>1. /\ cmd # Idle /\ UNCHANGED <<file, generated>>
          /\ cmd' = Idle \/ (Goto("ui-write") /\ ACL.web # NoWeb)
          /\ cmd.pc = "ui"
      BY <1>8, Running DEF writeUIConfig, PCs, Succeed
    <2>2. cmd' = Idle \/ (Moved("ui-write", cmd.todo) /\ ACL.web # NoWeb)
      BY <2>1, GotoEffect DEF PCs
    <2> QED
      BY <1>i, <1>m, <2>1, <2>2 DEF PCs
  <1>9. CASE FinishUIConfig \/ verifyIdentityResources \/ DeleteFiles \/ CallRefused
    BY <1>i, <1>9 DEF FinishUIConfig, verifyIdentityResources, DeleteFiles, CallRefused, Succeed, Fail
  <1>10. CASE CallFails \/ Interrupt
    BY <1>i, <1>10 DEF CallFails, Interrupt, Fail
  <1>s. ASSUME NEW name \in {"apply", "users", "verify"} \cup Wipes, NEW pc \in PCs,
               ACLOK(file), UNCHANGED <<file, generated>>,
               \E passwords \in SUBSET Usernames(loadACL(file).humans) : Start(name, pc, passwords)
        PROVE  cmd' # Idle /\ cmd'.pc = pc /\ cmd'.name = name /\ cmd'.unread = FALSE
    <2>1. Humans \subseteq HumanUsers
      BY <1>0, <1>s, ACLFacts
    <2> QED
      BY <1>s, <2>1, StartEffect DEF Humans, ACL
  <1>15. CASE runApply
    <2>1. cmd' # Idle /\ cmd'.pc = "bootstrap" /\ cmd'.name = "apply" /\ cmd'.unread = FALSE
      BY <1>s, <1>15 DEF runApply, PCs
    <2> QED
      BY <1>15, <2>1 DEF runApply, Control, Wipes
  <1>16. CASE runUsers
    <2>1. cmd' # Idle /\ cmd'.pc = "resolve" /\ cmd'.name = "users" /\ cmd'.unread = FALSE
      BY <1>s, <1>16 DEF runUsers, PCs
    <2> QED
      BY <1>16, <2>1 DEF runUsers, Control, Wipes
  <1>17. CASE runVerify
    <2>1. cmd' # Idle /\ cmd'.pc = "verify" /\ cmd'.name = "verify" /\ cmd'.unread = FALSE
      BY <1>s, <1>17 DEF runVerify, PCs
    <2> QED
      BY <1>17, <2>1 DEF runVerify, Control, Wipes
  <1>18. CASE ReturnAtOnce \/ EditACL \/ \E o \in Objects \ {"project", "api"} : DeleteObject(o)
    BY <1>i, <1>18 DEF ReturnAtOnce, EditACL, DeleteObject
  <1>20. CASE Wiping
    BY <1>20, WipeEffect DEF Control, Wipes
  <1>23. CASE ReadFails
    BY <1>23, ReadFailsEffect DEF Control, Quiet, ACL, Machines, Humans, Wipes
  <1>22. CASE UNCHANGED vars
    BY <1>22 DEF vars, Control, ACL, Humans, Machines
  <1> QED
    BY <1>1, <1>2, <1>3, <1>4, <1>5, <1>6, <1>7, <1>8, <1>9, <1>10,
       <1>15, <1>16, <1>17, <1>18, <1>20, <1>22, <1>23 DEF Next, Step, Operator, Wiping

-----------------------------------------------------------------------------
(***************************************************************************)
(* What is collected                                                       *)
(***************************************************************************)
LEMMA ObjectNames ==
    /\ "project" \in Objects /\ "api" \in Objects /\ "web" \in Objects
    /\ MachineUsers \subseteq Objects /\ HumanUsers \subseteq Objects
    /\ Clients \subseteq Objects
    /\ \A u \in MachineUsers \cup HumanUsers : u \notin {"project", "api", "web"}
    /\ \A u \in MachineUsers : u \notin HumanUsers
  BY BootstrapAssumption DEF Objects, Clients

\* Nothing that has been collected is touched by a call about other objects.
LEMMA GatheredKept ==
    ASSUME Types, NEW web \in BOOLEAN, NEW ms \in SUBSET MachineUsers, NEW hs \in SUBSET HumanUsers,
           Gathered(web, ms, hs), cmd'.name = cmd.name, cmd'.result = cmd.result,
           UNCHANGED <<idp, generated>>
    PROVE  Gathered(web, ms, hs)'
  BY DEF Gathered, Issued

LEMMA CollectedBootstrap ==
    ASSUME Types, Control, Collected, CallBootstrap
    PROVE  Collected'
  <1>1. /\ cmd'.pc = "resolve" /\ cmd'.name = "apply" /\ Ensure({"project", "api"})
        /\ cmd'.result.project = idp'["project"] /\ cmd'.result.api = Credential("api")
        /\ cmd'.result.web = cmd.result.web /\ cmd'.result.users = cmd.result.users
        /\ cmd'.result.humans = cmd.result.humans
    BY BootstrapEffect DEF Moved, CallBootstrap, Control
  <1>2. cmd.result = NoConfig
    BY DEF Collected, CallBootstrap
  <1>3. /\ idp'["project"] # 0 /\ idp'["api"] # 0 /\ Credential("api").id = idp'["api"]
        /\ Credential("api").secret \in {0, idp'["api"]}
    BY <1>1, EnsureEffect, ObjectNames
  <1>4. Gathered(FALSE, {}, {})'
    BY <1>1, <1>2, <1>3 DEF Gathered, Issued, NoConfig
  <1> QED
    BY <1>1, <1>4 DEF Collected

LEMMA CollectedWeb ==
    ASSUME Types, Control, Collected, EnsureWebApplication
    PROVE  Collected'
  <1> DEFINE web == ACL.web # NoWeb
  <1>1. /\ Moved("machines", cmd.todo) /\ cmd # Idle /\ cmd.pc = "web" /\ UNCHANGED <<file, generated>>
    BY WebEffect DEF EnsureWebApplication
  <1>2. /\ cmd'.name = cmd.name /\ cmd'.pc = "machines" /\ cmd'.todo = cmd.todo
        /\ ACL' = ACL /\ Machines' = Machines /\ Usernames(cmd.todo) = Machines
    BY <1>1 DEF Moved, ACL, Machines, Control
  <1>3. Gathered(FALSE, {}, {})
    BY <1>1 DEF Collected
  <1>4. Gathered(web, {}, {})'
    <2>1. CASE ACL.web = NoWeb
      <3>1. cmd'.result = cmd.result /\ UNCHANGED idp
        BY <2>1, WebEffect
      <3>2. Gathered(FALSE, {}, {})'
        BY <1>1, <1>2, <1>3, <3>1, GatheredKept
      <3> QED
        BY <1>2, <2>1, <3>2
    <2>2. CASE ACL.web # NoWeb
      <3>1. /\ idp["project"] = ProjectID /\ Ensure({"web"})
            /\ cmd'.result.web = idp'["web"]
            /\ cmd'.result.project = cmd.result.project /\ cmd'.result.api = cmd.result.api
            /\ cmd'.result.users = cmd.result.users /\ cmd'.result.humans = cmd.result.humans
        BY <2>2, WebEffect
      <3>2. /\ idp'["web"] # 0 /\ idp'["project"] = idp["project"] /\ idp'["api"] = idp["api"]
        BY <3>1, EnsureEffect, ObjectNames
      <3>3. Gathered(TRUE, {}, {})'
        BY <1>1, <1>2, <1>3, <3>1, <3>2 DEF Gathered, Issued, ProjectID
      <3> QED
        BY <1>2, <2>2, <3>3
    <2> QED
      BY <2>1, <2>2
  <1>5. (Machines \ Usernames(cmd.todo))' = {}
    BY <1>2
  <1> QED
    BY <1>2, <1>4, <1>5 DEF Collected

LEMMA CollectedMachine ==
    ASSUME Types, Control, Collected, OnboardMachine
    PROVE  Collected'
  <1> DEFINE web == ACL.web # NoWeb
  <1>1. /\ cmd # Idle /\ cmd.pc = "machines" /\ UNCHANGED <<file, generated>>
    BY MachineEffect DEF OnboardMachine
  <1>2. /\ ACL' = ACL /\ Machines' = Machines /\ Humans' = Humans
        /\ Machines \subseteq MachineUsers /\ Humans \subseteq HumanUsers
    BY <1>1, ACLFacts DEF ACL, Machines, Humans, Control, Types
  <1>3. Gathered(web, Machines \ Usernames(cmd.todo), {})
    BY <1>1 DEF Collected
  <1>4. CASE /\ cmd.todo = <<>> /\ UNCHANGED <<idp, created>>
             /\ Moved("humans", ACL.humans) /\ cmd'.result = cmd.result
    <2>1. /\ cmd'.name = cmd.name /\ cmd'.pc = "humans" /\ cmd'.todo = ACL.humans /\ cmd'.result = cmd.result
          /\ UNCHANGED idp
      BY <1>4 DEF Moved
    <2>2. Usernames(cmd.todo) = {}
      BY <1>4 DEF Usernames
    <2>3. (Gathered(web, Machines, {}))'
      BY <1>1, <1>2, <1>3, <2>1, <2>2, GatheredKept
    <2>4. (Humans \ Usernames(cmd.todo))' = {}
      BY <1>2, <2>1, <2>2 DEF Humans, Machines
    <2> QED
      BY <1>2, <2>1, <2>3, <2>4 DEF Collected
  <1>5. CASE /\ idp["project"] = ProjectID /\ Moved("machines", Tail(cmd.todo))
             /\ \E u \in Machines :
                   /\ u \in Usernames(cmd.todo) /\ u \in MachineUsers /\ Ensure({u})
                   /\ Usernames(Tail(cmd.todo)) = Usernames(cmd.todo) \ {u}
                   /\ cmd'.result.users = [cmd.result.users EXCEPT ![u] = Credential(u)]
             /\ cmd'.result.project = cmd.result.project /\ cmd'.result.api = cmd.result.api
             /\ cmd'.result.web = cmd.result.web /\ cmd'.result.humans = cmd.result.humans
    <2>1. PICK u \in Machines :
             /\ u \in Usernames(cmd.todo) /\ u \in MachineUsers /\ Ensure({u})
             /\ Usernames(Tail(cmd.todo)) = Usernames(cmd.todo) \ {u}
             /\ cmd'.result.users = [cmd.result.users EXCEPT ![u] = Credential(u)]
      BY <1>5
    <2>2. /\ cmd'.name = cmd.name /\ cmd'.pc = "machines" /\ cmd'.todo = Tail(cmd.todo)
      BY <1>5 DEF Moved
    <2>3. \A o \in Objects : o # u => idp'[o] = idp[o]
      BY <2>1, EnsureEffect, ObjectNames
    <2>4. /\ idp'[u] # 0 /\ Credential(u).id = idp'[u] /\ Credential(u).secret \in {0, idp'[u]}
      BY <2>1, EnsureEffect, ObjectNames
    <2>5. (Machines \ Usernames(cmd.todo))' = (Machines \ Usernames(cmd.todo)) \cup {u}
      BY <1>2, <2>1, <2>2
    <2>6. cmd.result \in Conf
      BY <1>1, Running DEF Command
    <2>7. idp'["project"] = idp["project"] /\ idp'["api"] = idp["api"] /\ idp'["web"] = idp["web"]
      BY <2>1, <2>3, ObjectNames
    <2>8. ASSUME NEW v \in MachineUsers
          PROVE  IF v \in (Machines \ Usernames(cmd.todo)) \cup {u} THEN Issued(cmd.result.users[v], v)'
                 ELSE cmd'.result.users[v] = NoCredential
      <3>1. CASE v = u
        BY <2>1, <2>4, <2>6, <3>1 DEF Conf, Issued
      <3>2. CASE v # u
        <4>1. cmd'.result.users[v] = cmd.result.users[v] /\ idp'[v] = idp[v]
          BY <2>1, <2>3, <2>6, <3>2, ObjectNames DEF Conf
        <4> QED
          BY <1>3, <3>2, <4>1 DEF Gathered, Issued
      <3> QED
        BY <3>1, <3>2
    <2>9. ASSUME NEW v \in HumanUsers PROVE idp'[v] = idp[v]
      BY <2>1, <2>3, ObjectNames
    <2>10. cmd.name = "users" => generated.project = idp["project"]
      BY <1>5 DEF ProjectID
    <2>11. (Gathered(web, Machines \ Usernames(cmd.todo), {}))'
      BY <1>1, <1>2, <1>3, <1>5, <2>2, <2>5, <2>7, <2>8, <2>9, <2>10 DEF Gathered, Issued
    <2> QED
      BY <2>2, <2>11 DEF Collected
  <1> QED
    BY <1>4, <1>5, MachineEffect

LEMMA CollectedHuman ==
    ASSUME Types, Control, Collected, OnboardHuman
    PROVE  Collected'
  <1> DEFINE web == ACL.web # NoWeb
  <1>1. /\ cmd # Idle /\ cmd.pc = "humans" /\ UNCHANGED <<file, generated>>
    BY HumanEffect DEF OnboardHuman
  <1>2. /\ ACL' = ACL /\ Machines' = Machines /\ Humans' = Humans
        /\ Machines \subseteq MachineUsers /\ Humans \subseteq HumanUsers
    BY <1>1, ACLFacts DEF ACL, Machines, Humans, Control, Types
  <1>3. Gathered(web, Machines, Humans \ Usernames(cmd.todo))
    BY <1>1 DEF Collected
  <1>4. CASE /\ cmd.todo = <<>> /\ UNCHANGED <<idp, created>>
             /\ Moved("merge", cmd.todo) /\ cmd'.result = cmd.result
    <2>1. /\ cmd'.name = cmd.name /\ cmd'.pc = "merge" /\ cmd'.result = cmd.result
          /\ UNCHANGED idp
      BY <1>4 DEF Moved
    <2>2. Usernames(cmd.todo) = {}
      BY <1>4 DEF Usernames
    <2>3. (Gathered(web, Machines, Humans))'
      BY <1>1, <1>2, <1>3, <2>1, <2>2, GatheredKept
    <2>4. Humans' = Humans
      BY <1>2, <2>1, <2>2 DEF Humans, Machines
    <2> QED
      BY <1>2, <2>1, <2>3, <2>4 DEF Collected
  <1>5. CASE /\ idp["project"] = ProjectID /\ Moved("humans", Tail(cmd.todo))
             /\ \E u \in Humans :
                   /\ u \in Usernames(cmd.todo) /\ u \in HumanUsers /\ Ensure({u})
                   /\ Usernames(Tail(cmd.todo)) = Usernames(cmd.todo) \ {u}
                   /\ cmd'.result.humans = [cmd.result.humans EXCEPT ![u] = idp'[u]]
             /\ cmd'.result.project = cmd.result.project /\ cmd'.result.api = cmd.result.api
             /\ cmd'.result.web = cmd.result.web /\ cmd'.result.users = cmd.result.users
    <2>1. PICK u \in Humans :
             /\ u \in Usernames(cmd.todo) /\ u \in HumanUsers /\ Ensure({u})
             /\ Usernames(Tail(cmd.todo)) = Usernames(cmd.todo) \ {u}
             /\ cmd'.result.humans = [cmd.result.humans EXCEPT ![u] = idp'[u]]
      BY <1>5
    <2>2. /\ cmd'.name = cmd.name /\ cmd'.pc = "humans" /\ cmd'.todo = Tail(cmd.todo)
      BY <1>5 DEF Moved
    <2>3. \A o \in Objects : o # u => idp'[o] = idp[o]
      BY <2>1, EnsureEffect, ObjectNames
    <2>4. idp'[u] # 0
      BY <2>1, EnsureEffect, ObjectNames
    <2>5. (Humans \ Usernames(cmd.todo))' = (Humans \ Usernames(cmd.todo)) \cup {u}
      BY <1>2, <2>1, <2>2
    <2>6. cmd.result \in Conf
      BY <1>1, Running DEF Command
    <2>7. idp'["project"] = idp["project"] /\ idp'["api"] = idp["api"] /\ idp'["web"] = idp["web"]
      BY <2>1, <2>3, ObjectNames
    <2>8. ASSUME NEW v \in HumanUsers
          PROVE  IF v \in (Humans \ Usernames(cmd.todo)) \cup {u}
                 THEN cmd'.result.humans[v] = idp'[v] /\ idp'[v] # 0
                 ELSE cmd'.result.humans[v] = 0
      <3>1. CASE v = u
        BY <2>1, <2>4, <2>6, <3>1 DEF Conf, Issued
      <3>2. CASE v # u
        <4>1. cmd'.result.humans[v] = cmd.result.humans[v] /\ idp'[v] = idp[v]
          BY <2>1, <2>3, <2>6, <3>2, ObjectNames DEF Conf
        <4> QED
          BY <1>3, <3>2, <4>1 DEF Gathered, Issued
      <3> QED
        BY <3>1, <3>2
    <2>9. ASSUME NEW v \in MachineUsers PROVE idp'[v] = idp[v]
      BY <2>1, <2>3, ObjectNames
    <2>10. cmd.name = "users" => generated.project = idp["project"]
      BY <1>5 DEF ProjectID
    <2>11. (Gathered(web, Machines, Humans \ Usernames(cmd.todo)))'
      BY <1>1, <1>2, <1>3, <1>5, <2>2, <2>5, <2>7, <2>8, <2>9, <2>10 DEF Gathered, Issued
    <2> QED
      BY <2>2, <2>11 DEF Collected
  <1> QED
    BY <1>4, <1>5, HumanEffect

LEMMA CollectedStep ==
    ASSUME Types, Control, Collected, [Next]_vars
    PROVE  Collected'
  <1>i. ASSUME cmd'.pc \in {"idle"} \cup Writing PROVE Collected'
    BY <1>i DEF Collected, Writing
  <1>e. ASSUME cmd' = Idle PROVE Collected'
    BY <1>e, <1>i, Ending
  <1>1. CASE CallBootstrap
    BY <1>1, CollectedBootstrap
  <1>2. CASE resolveHumanInputs
    <2>1. CASE Fail
      BY <1>e, <2>1 DEF Fail
    <2>2. CASE Moved("web", ACL.machines) /\ cmd'.result = cmd.result
      <3>1. /\ cmd'.pc = "web" /\ cmd'.name = cmd.name /\ cmd.pc = "resolve"
            /\ UNCHANGED <<file, idp, generated>>
        BY <1>2, <2>2 DEF Moved, resolveHumanInputs
      <3>2. Gathered(FALSE, {}, {})'
        BY <2>2, <3>1, GatheredKept DEF Collected
      <3> QED
        BY <3>1, <3>2 DEF Collected
    <2> QED
      BY <1>2, <2>1, <2>2, ResolveEffect
  <1>3. CASE EnsureWebApplication
    BY <1>3, CollectedWeb
  <1>4. CASE OnboardMachine
    BY <1>4, CollectedMachine
  <1>5. CASE OnboardHuman
    BY <1>5, CollectedHuman
  <1>6. CASE PrepareConfigs
    BY <1>e, <1>i, <1>6, PrepareEffect DEF Moved, Fail, Writing
  <1>7. CASE writeGeneratedConfig
    <2>1. cmd # Idle /\ UNCHANGED file /\ Goto("ui")
      BY <1>7, Running DEF writeGeneratedConfig, PCs
    <2> QED
      BY <1>i, <2>1, GotoEffect DEF Moved, PCs, Writing
  <1>8. CASE writeUIConfig
    <2>1. cmd # Idle /\ UNCHANGED file /\ (cmd' = Idle \/ Goto("ui-write"))
      BY <1>8, Running DEF writeUIConfig, PCs, Succeed
    <2> QED
      BY <1>e, <1>i, <2>1, GotoEffect DEF Moved, PCs, Writing
  <1>9. CASE FinishUIConfig \/ verifyIdentityResources \/ DeleteFiles \/ CallRefused
    BY <1>e, <1>9 DEF FinishUIConfig, verifyIdentityResources, DeleteFiles, CallRefused, Succeed, Fail
  <1>10. CASE CallFails \/ Interrupt
    BY <1>e, <1>10 DEF CallFails, Interrupt, Fail
  <1>s. ASSUME NEW name \in {"apply", "users", "verify"} \cup Wipes, NEW pc \in PCs,
               ACLOK(file), UNCHANGED file,
               \E passwords \in SUBSET Usernames(loadACL(file).humans) : Start(name, pc, passwords)
        PROVE  cmd'.pc = pc /\ cmd'.name = name /\ cmd'.result = NoConfig
    <2>1. Humans \subseteq HumanUsers
      BY <1>s, ACLFacts DEF Types
    <2> QED
      BY <1>s, <2>1, StartEffect DEF Humans, ACL
  <1>15. CASE runApply
    <2>1. cmd'.pc = "bootstrap" /\ cmd'.result = NoConfig
      BY <1>s, <1>15 DEF runApply, PCs
    <2> QED
      BY <2>1 DEF Collected
  <1>16. CASE runUsers
    <2>1. cmd'.pc = "resolve" /\ cmd'.name = "users" /\ cmd'.result = NoConfig
      BY <1>s, <1>16 DEF runUsers, PCs
    <2>2. Gathered(FALSE, {}, {})'
      BY <2>1 DEF Gathered, NoConfig
    <2> QED
      BY <2>1, <2>2 DEF Collected
  <1>17. CASE runVerify
    <2>1. cmd'.pc = "verify" /\ cmd'.result = NoConfig
      BY <1>s, <1>17 DEF runVerify, PCs
    <2> QED
      BY <2>1 DEF Collected
  <1>18. CASE ReturnAtOnce \/ EditACL \/ \E o \in Objects \ {"project", "api"} : DeleteObject(o)
    BY <1>e, <1>18 DEF ReturnAtOnce, EditACL, DeleteObject
  <1>20. CASE Wiping
    <2>1. cmd'.pc = "delete" /\ cmd'.result = NoConfig
      BY <1>20, WipeEffect
    <2> QED
      BY <2>1 DEF Collected
  <1>23. CASE ReadFails
    <2>1. /\ cmd'.pc = "merge" /\ cmd.pc = "merge" /\ cmd'.name = cmd.name
          /\ cmd'.result = cmd.result /\ UNCHANGED <<file, idp, generated>>
      BY <1>23, ReadFailsEffect DEF Quiet
    <2> QED
      BY <2>1 DEF Collected, ACL, Humans, Machines, Gathered, Issued
  <1>22. CASE UNCHANGED vars
    BY <1>22 DEF vars, Collected, ACL, Humans, Machines, Gathered, Issued
  <1> QED
    BY <1>1, <1>2, <1>3, <1>4, <1>5, <1>6, <1>7, <1>8, <1>9, <1>10,
       <1>15, <1>16, <1>17, <1>18, <1>20, <1>22, <1>23 DEF Next, Step, Operator, Wiping

-----------------------------------------------------------------------------
(***************************************************************************)
(* What is written                                                         *)
(***************************************************************************)
LEMMA Credible ==
    ASSUME NEW e \in Cred, NEW x, e.id = x, e.secret = x PROVE e = [id |-> x, secret |-> x]
  BY DEF Cred

LEMMA EntryFacts ==
    ASSUME NEW r \in Conf
    PROVE  /\ \A c \in Clients : Entry(r, c) \in Cred
           /\ Entry(r, "api") = r.api
           /\ \A u \in MachineUsers : Entry(r, u) = r.users[u]
  BY ObjectNames DEF Entry, Clients, Conf

\* What apply or users is about to write, client by client: new is what the
\* command has been told, or the file's entry if it has been told nothing.
LEMMA MergedEntry ==
    ASSUME Types, Control, Collected, FileOK, cmd.pc = "merge", NEW c \in Clients
    PROVE  LET e == Entry(Merged, c) IN
           /\ e.secret \in {0, e.id}
           /\ c \in Machines \cup {"api"} /\ (cmd.name = "apply" \/ generated.project = idp["project"])
                 => e.id = idp[c] /\ idp[c] # 0
           /\ FileKnows(c) => e = [id |-> idp[c], secret |-> idp[c]] \/ Dropped(c) \/ cmd.unread
           /\ c \notin Machines \cup {"api"} /\ cmd.name = "apply" => e = NoCredential
           /\ idp[c] # 0 /\ Entry(cmd.result, c) = [id |-> idp[c], secret |-> idp[c]]
                 => e = [id |-> idp[c], secret |-> idp[c]]
  <1> DEFINE e == Entry(Merged, c)
             g == Entry(generated, c)
             new == Entry(cmd.result, c)
  <1>1. /\ cmd \in Command(ACL) /\ cmd # Idle /\ cmd.acl = ACL /\ cmd.result \in Conf
        /\ generated \in Conf \cup {NoFile}
    <2>1. cmd \in Command(ACL) /\ cmd # Idle /\ cmd.acl = ACL
      BY Running DEF PCs
    <2> QED
      BY <2>1 DEF Command, Types
  <1>2. /\ cmd.name \in {"apply", "users"} /\ (cmd.name = "users" => generated # NoFile)
        /\ Machines \subseteq MachineUsers /\ (cmd.unread => cmd.name = "apply")
    <2>1. /\ cmd.name \in {"apply", "users"} /\ (cmd.name = "users" => generated # NoFile)
          /\ ACLOK(file) /\ (cmd.unread => cmd.name = "apply")
      BY <1>1 DEF Control, Command, Wipes
    <2> QED
      BY <2>1, ACLFacts DEF Types
  <1>3. Gathered(ACL.web # NoWeb, Machines, Humans)
    BY DEF Collected
  <1>4. Merged \in Conf
    BY <1>1, <1>2, MergedEffect
  <1>5. e \in Cred /\ new \in Cred /\ (generated # NoFile => g \in Cred)
    BY <1>1, <1>4, EntryFacts
  <1>6. generated # NoFile => /\ g.secret \in {0, g.id} /\ (c = "api" => g.id # 0)
                              /\ c = "api" /\ generated.project = idp["project"] => g.id = idp[c]
    BY EntryFacts, <1>1 DEF FileOK, Matching
  <1>7. c = "api" \/ (c \in MachineUsers /\ c # "api")
    BY ObjectNames DEF Clients
  <1>8. c \in Machines \/ (c = "api" /\ cmd.name = "apply")
           => idp[c] # 0 /\ new.id = idp[c] /\ new.secret \in {0, idp[c]}
    BY <1>1, <1>2, <1>3, <1>7, EntryFacts DEF Gathered, Issued
  <1>9. ~(c \in Machines \/ (c = "api" /\ cmd.name = "apply")) => new = NoCredential
    BY <1>1, <1>2, <1>3, <1>7, EntryFacts DEF Gathered
  <1>10. e = IF generated = NoFile \/ cmd.unread THEN new
             ELSE Preserved(g, IF cmd.name = "users" /\ new = NoCredential THEN g ELSE new)
    <2>1. CASE c = "api"
      BY <1>1, <1>2, <1>3, <1>4, <2>1, MergedEffect, EntryFacts DEF Gathered
    <2>2. CASE c \in MachineUsers
      BY <1>1, <1>2, <1>4, <2>2, MergedEffect, EntryFacts
    <2> QED
      BY <1>7, <2>1, <2>2
  <1>11. FileKnows(c) <=> generated # NoFile /\ idp[c] # 0 /\ g = [id |-> idp[c], secret |-> idp[c]]
    BY DEF FileKnows
  <1>12. Dropped(c) <=> cmd.name = "apply" /\ c \in MachineUsers \ Machines
    BY <1>1 DEF Dropped, Machines
  <1>13. NoCredential.id = 0 /\ NoCredential.secret = 0 /\ NoCredential \in Cred
    BY DEF NoCredential, Cred
  <1> HIDE DEF e, g, new
  <1>14. CASE generated = NoFile \/ cmd.unread
    BY <1>2, <1>5, <1>7, <1>8, <1>9, <1>10, <1>11, <1>13, <1>14 DEF e, new
  <1>15. CASE generated # NoFile /\ ~cmd.unread /\ cmd.name = "users" /\ new = NoCredential
    <2>1. e \in Cred /\ e.id = g.id /\ e.secret = g.secret
      BY <1>5, <1>10, <1>15, PreservedEffect
    <2>2. c \notin Machines
      BY <1>8, <1>13, <1>15
    <2>3. FileKnows(c) => e = [id |-> idp[c], secret |-> idp[c]]
      BY <1>11, <2>1, Credible
    <2> QED
      BY <1>6, <1>7, <1>13, <1>15, <2>1, <2>2, <2>3 DEF e, new
  <1>16. CASE generated # NoFile /\ ~cmd.unread /\ ~(cmd.name = "users" /\ new = NoCredential)
    <2>1. /\ e \in Cred /\ e.id = new.id
          /\ e.secret = IF new.secret = 0 /\ new.id = g.id THEN g.secret ELSE new.secret
      BY <1>5, <1>10, <1>16, PreservedEffect
    <2>2. CASE new = NoCredential
      <3>1. cmd.name = "apply" /\ c \in MachineUsers \ Machines /\ c # "api"
        BY <1>2, <1>7, <1>8, <1>13, <1>16, <2>2
      <3>2. e.id = 0 /\ e.secret = 0
        BY <1>6, <1>13, <1>16, <2>1, <2>2
      <3>3. e = NoCredential
        BY <2>1, <3>2, Credible DEF NoCredential
      <3> QED
        BY <1>12, <1>13, <2>2, <3>1, <3>2, <3>3 DEF e, new
    <2>3. CASE new # NoCredential
      <3>1. idp[c] # 0 /\ new.id = idp[c] /\ new.secret \in {0, idp[c]}
        BY <1>8, <1>9, <2>3
      <3>2. e.id = idp[c] /\ e.secret \in {0, e.id}
        BY <1>6, <1>16, <2>1, <3>1
      <3>3. c \in Machines \cup {"api"}
        BY <1>7, <1>9, <2>3
      <3>4. FileKnows(c) => e.secret = idp[c]
        BY <1>11, <2>1, <3>1
      <3>5. FileKnows(c) => e = [id |-> idp[c], secret |-> idp[c]]
        BY <2>1, <3>2, <3>4, Credible
      <3>6. new = [id |-> idp[c], secret |-> idp[c]] => e.secret = idp[c]
        BY <2>1, <3>1
      <3>7. new = [id |-> idp[c], secret |-> idp[c]] => e = [id |-> idp[c], secret |-> idp[c]]
        BY <2>1, <3>2, <3>6, Credible
      <3> QED
        BY <3>1, <3>2, <3>3, <3>5, <3>7 DEF e, new
    <2> QED
      BY <2>2, <2>3
  <1> QED
    BY <1>2, <1>14, <1>15, <1>16

LEMMA PrepareWrites ==
    ASSUME Types, Control, Collected, FileOK, PrepareConfigs, ~Fail
    PROVE  /\ Merged \in Conf /\ Matching(Merged) /\ Fresh(Merged, cmd.name) /\ Keeps(Merged)
  <1>1. /\ cmd \in Command(ACL) /\ cmd # Idle /\ cmd.acl = ACL /\ cmd.result \in Conf
        /\ cmd.pc = "merge" /\ generated \in Conf \cup {NoFile}
    <2>1. cmd \in Command(ACL) /\ cmd # Idle /\ cmd.acl = ACL /\ cmd.pc = "merge"
      BY Running DEF PCs, PrepareConfigs
    <2> QED
      BY <2>1 DEF Command, Types
  <1>2. /\ cmd.name \in {"apply", "users"} /\ (cmd.name = "users" => generated # NoFile)
        /\ Machines \subseteq MachineUsers /\ Humans \subseteq HumanUsers
        /\ Machines # {} \/ Humans # {}
    <2>1. cmd.name \in {"apply", "users"} /\ (cmd.name = "users" => generated # NoFile) /\ ACLOK(file)
      BY <1>1 DEF Control, Command
    <2> QED
      BY <2>1, ACLFacts DEF Types
  <1>3. Gathered(ACL.web # NoWeb, Machines, Humans)
    BY <1>1 DEF Collected
  <1>4. Merged \in Conf
    BY <1>1, <1>2, MergedEffect
  <1>5. Matching(Merged) /\ Keeps(Merged)
    BY <1>1, MergedEntry DEF Matching, Keeps, Forgets
  <1>6. cmd.name = "users" => generated.project = idp["project"]
    BY <1>2, <1>3 DEF Gathered
  <1>7. \A c \in Machines \cup {"api"} : Entry(Merged, c).id = idp[c] /\ idp[c] # 0
    BY <1>1, <1>2, <1>6, MergedEntry DEF Clients
  <1>8. Merged.project = idp["project"] /\ idp["project"] # 0
    BY <1>1, <1>2, <1>3, <1>6, MergedEffect DEF Gathered, FileOK
  <1>9. Merged.api.id = idp["api"] /\ idp["api"] # 0
    BY <1>4, <1>7, EntryFacts
  <1>10. \A u \in Machines : Merged.users[u].id = idp[u] /\ idp[u] # 0
    BY <1>2, <1>4, <1>7, EntryFacts
  <1>11. ACL.web # NoWeb => Merged.web = idp["web"] /\ idp["web"] # 0
    BY <1>1, <1>2, <1>3, MergedEffect DEF Gathered
  <1>12. \A u \in Humans : Merged.humans[u] = idp[u] /\ idp[u] # 0
    BY <1>1, <1>2, <1>3, MergedEffect DEF Gathered
  <1>13. ASSUME cmd.name = "apply"
         PROVE  /\ ACL.web = NoWeb => Merged.web = 0
                /\ \A u \in HumanUsers \ Humans : Merged.humans[u] = 0
    BY <1>1, <1>3, <1>13, MergedEffect DEF Gathered
  <1>14. ASSUME cmd.name = "apply", NEW u \in MachineUsers \ Machines
         PROVE  Merged.users[u] = NoCredential
    BY <1>1, <1>4, <1>14, MergedEntry, EntryFacts, ObjectNames DEF Clients
  <1> QED
    BY <1>4, <1>5, <1>8, <1>9, <1>10, <1>11, <1>12, <1>13, <1>14 DEF Fresh

LEMMA WrittenStep ==
    ASSUME Types, Control, Collected, FileOK, Written, [Next]_vars
    PROVE  Written'
  <1>i. ASSUME cmd'.pc \notin Writing PROVE Written'
    BY <1>i DEF Written
  <1>e. ASSUME cmd' = Idle PROVE Written'
    BY <1>e, <1>i, Ending DEF PCs, Writing
  <1>1. CASE CallBootstrap
    BY <1>i, <1>1, BootstrapEffect DEF Moved, Writing
  <1>2. CASE resolveHumanInputs
    BY <1>e, <1>i, <1>2, ResolveEffect DEF Moved, Writing, Fail
  <1>3. CASE EnsureWebApplication
    BY <1>i, <1>3, WebEffect DEF Moved, Writing
  <1>4. CASE OnboardMachine
    BY <1>i, <1>4, MachineEffect DEF Moved, Writing
  <1>5. CASE OnboardHuman
    BY <1>i, <1>5, HumanEffect DEF Moved, Writing
  <1>6. CASE PrepareConfigs
    <2>1. CASE Fail
      BY <1>e, <2>1 DEF Fail
    <2>2. CASE ~Fail
      <3>1. /\ cmd # Idle /\ cmd'.pc = "rename" /\ cmd'.name = cmd.name /\ cmd'.result = Merged
            /\ cmd'.acl = cmd.acl /\ cmd' # Idle /\ cmd'.unread = cmd.unread
        BY <1>6, <2>2, PrepareEffect DEF Moved
      <3>2. UNCHANGED <<file, idp, generated>>
        BY <1>6 DEF PrepareConfigs
      <3>3. Matching(Merged) /\ Fresh(Merged, cmd.name) /\ Keeps(Merged)
        BY <1>6, <2>2, PrepareWrites
      <3> DEFINE m == Merged
                 n == cmd.name
      <3>4. cmd'.result = m /\ cmd'.name = n /\ Matching(m) /\ Fresh(m, n) /\ Keeps(m)
        BY <3>1, <3>3
      <3> HIDE DEF m, n
      <3>5. Matching(cmd.result)'
        BY <3>4 DEF Matching, Entry
      <3>6. Fresh(cmd.result, cmd.name)'
        BY <3>2, <3>4 DEF Fresh, ACL, Machines, Humans
      <3>7. Keeps(cmd.result)'
        BY <3>1, <3>2, <3>4 DEF Keeps, FileKnows, Forgets, Dropped, Entry
      <3> QED
        BY <3>1, <3>5, <3>6, <3>7 DEF Written
    <2> QED
      BY <2>1, <2>2
  <1>7. CASE writeGeneratedConfig
    <2>1. /\ cmd # Idle /\ UNCHANGED <<file, idp>> /\ Goto("ui") /\ generated' = cmd.result
          /\ cmd.pc = "rename"
      BY <1>7, Running DEF writeGeneratedConfig, PCs
    <2>2. cmd'.pc = "ui" /\ cmd'.name = cmd.name /\ cmd'.result = cmd.result
      BY <2>1, GotoEffect DEF Moved, PCs
    <2> QED
      BY <2>1, <2>2 DEF Written, Writing, Matching, Entry, Fresh, ACL, Machines, Humans
  <1>8. CASE writeUIConfig
    <2>1. /\ cmd # Idle /\ UNCHANGED <<file, idp, generated>> /\ (cmd' = Idle \/ Goto("ui-write"))
          /\ cmd.pc = "ui"
      BY <1>8, Running DEF writeUIConfig, PCs, Succeed
    <2>2. CASE Goto("ui-write")
      <3>1. cmd'.pc = "ui-write" /\ cmd'.name = cmd.name /\ cmd'.result = cmd.result
        BY <2>1, <2>2, GotoEffect DEF Moved, PCs
      <3> QED
        BY <2>1, <3>1 DEF Written, Writing, Matching, Entry, Fresh, ACL, Machines, Humans
    <2> QED
      BY <1>e, <2>1, <2>2
  <1>9. CASE FinishUIConfig \/ verifyIdentityResources \/ DeleteFiles \/ CallRefused
    BY <1>e, <1>9 DEF FinishUIConfig, verifyIdentityResources, DeleteFiles, CallRefused, Succeed, Fail
  <1>10. CASE CallFails \/ Interrupt
    BY <1>e, <1>10 DEF CallFails, Interrupt, Fail
  <1>15. CASE runApply \/ runUsers \/ runVerify \/ Wiping \/ ReadFails
    <2>1. cmd'.pc \in {"bootstrap", "resolve", "verify", "delete", "merge"}
      <3>1. CASE runApply \/ runUsers \/ runVerify
        BY <3>1 DEF runApply, runUsers, runVerify, Start
      <3>2. CASE Wiping \/ ReadFails
        BY <3>2, WipeEffect, ReadFailsEffect
      <3> QED
        BY <1>15, <3>1, <3>2
    <2> QED
      BY <1>i, <2>1 DEF Writing
  <1>18. CASE ReturnAtOnce \/ EditACL \/ \E o \in Objects \ {"project", "api"} : DeleteObject(o)
    BY <1>e, <1>18 DEF ReturnAtOnce, EditACL, DeleteObject
  <1>22. CASE UNCHANGED vars
    BY <1>22 DEF vars, Written, Matching, Entry, Fresh, ACL, Humans, Machines, Keeps, FileKnows,
       Forgets, Dropped
  <1> QED
    BY <1>1, <1>2, <1>3, <1>4, <1>5, <1>6, <1>7, <1>8, <1>9, <1>10,
       <1>15, <1>18, <1>22 DEF Next, Step, Operator, Wiping

LEMMA FileOKStep ==
    ASSUME Types, Control, Collected, FileOK, Written, [Next]_vars
    PROVE  FileOK'
  <1>0. /\ idp \in [Objects -> Nat] /\ created \in [Objects -> Nat]
        /\ \A o \in Objects : idp[o] <= created[o]
        /\ generated \in Conf \cup {NoFile}
        /\ "project" \in Objects /\ "api" \in Objects
    BY ObjectNames DEF Types
  <1>1. ASSUME UNCHANGED <<idp, created, generated>> PROVE FileOK'
    BY <1>1 DEF FileOK, Matching, Entry
  <1>2. ASSUME NEW done \in SUBSET Objects, Ensure(done), UNCHANGED generated PROVE FileOK'
    <2>1. /\ idp'["api"] \in Nat /\ created'["project"] \in Nat
          /\ created["project"] <= created'["project"]
          /\ idp["project"] # 0 => idp'["project"] = idp["project"]
          /\ idp["api"] # 0 => idp'["api"] = idp["api"]
          /\ idp["project"] = 0 => idp'["project"] = 0 \/ idp'["project"] > created["project"]
      BY <1>0, <1>2, EnsureEffect
    <2>2. generated # NoFile => generated.project \in Nat
      BY <1>0 DEF Conf
    <2>3. idp'["project"] \in Nat
      BY <1>2, <1>0, EnsureEffect
    <2>4. generated # NoFile =>
              /\ generated.project <= created'["project"]
              /\ generated.project = idp'["project"] => generated.api.id = idp'["api"]
      BY <1>0, <2>1, <2>2, <2>3 DEF FileOK
    <2> QED
      BY <1>2, <2>4 DEF FileOK, Matching, Entry
  <1>3. CASE CallBootstrap
    BY <1>2, <1>3, BootstrapEffect DEF CallBootstrap
  <1>4. CASE EnsureWebApplication
    BY <1>1, <1>2, <1>4, WebEffect DEF EnsureWebApplication
  <1>5. CASE OnboardMachine
    <2>1. CASE UNCHANGED <<idp, created>>
      BY <1>1, <1>5, <2>1 DEF OnboardMachine
    <2>2. CASE \E u \in MachineUsers : Ensure({u})
      BY <1>2, <1>5, <2>2 DEF OnboardMachine, Objects
    <2> QED
      BY <1>5, <2>1, <2>2, MachineEffect
  <1>6. CASE OnboardHuman
    <2>1. CASE UNCHANGED <<idp, created>>
      BY <1>1, <1>6, <2>1 DEF OnboardHuman
    <2>2. CASE \E u \in HumanUsers : Ensure({u})
      BY <1>2, <1>6, <2>2 DEF OnboardHuman, Objects
    <2> QED
      BY <1>6, <2>1, <2>2, HumanEffect
  <1>7. CASE writeGeneratedConfig
    <2>1. Matching(cmd.result) /\ Fresh(cmd.result, cmd.name)
      BY <1>7 DEF writeGeneratedConfig, Written, Writing
    <2>2. UNCHANGED <<idp, created>> /\ generated' = cmd.result
      BY <1>7 DEF writeGeneratedConfig
    <2> QED
      BY <1>0, <2>1, <2>2 DEF Fresh, FileOK, Matching, Entry
  <1>8. CASE DeleteFiles
    BY <1>8 DEF DeleteFiles, FileOK
  <1>9. CASE CallFails
    BY <1>2, <1>9, CallFailsEffect
  <1>10. CASE \/ resolveHumanInputs \/ PrepareConfigs \/ writeUIConfig \/ FinishUIConfig
              \/ verifyIdentityResources \/ CallRefused \/ Interrupt \/ ReadFails
    BY <1>1, <1>10 DEF resolveHumanInputs, PrepareConfigs, writeUIConfig, FinishUIConfig,
       verifyIdentityResources, CallRefused, Interrupt, ReadFails
  <1>11. CASE runApply \/ runUsers \/ runVerify \/ ReturnAtOnce \/ EditACL \/ UNCHANGED vars
    BY <1>1, <1>11 DEF runApply, runUsers, runVerify, ReturnAtOnce, EditACL, vars
  <1>12. CASE Wiping
    <2>1. (idp'["project"] = 0 \/ UNCHANGED idp) /\ UNCHANGED <<created, generated>>
      BY <1>0, <1>12, WipeEffect
    <2> QED
      BY <1>1, <2>1 DEF FileOK, Matching, Entry
  <1>13. CASE \E o \in Objects \ {"project", "api"} : DeleteObject(o)
    <2>1. idp'["project"] = idp["project"] /\ idp'["api"] = idp["api"] /\ UNCHANGED <<created, generated>>
      BY <1>0, <1>13 DEF DeleteObject
    <2> QED
      BY <2>1 DEF FileOK, Matching, Entry
  <1> QED
    BY <1>3, <1>4, <1>5, <1>6, <1>7, <1>8, <1>9, <1>10, <1>11, <1>12, <1>13
       DEF Next, Step, Operator, Wiping

-----------------------------------------------------------------------------
(***************************************************************************)
(* Secrets                                                                 *)
(***************************************************************************)
LEMMA BootstrapInvariant == Spec => []BootstrapInv
  <1>1. Init => BootstrapInv
    <2> SUFFICES ASSUME Init PROVE BootstrapInv
      OBVIOUS
    <2>1. cmd = Idle /\ cmd.pc = "idle" /\ generated = NoFile
      BY DEF Init, Idle
    <2>2. Types
      BY DEF Init, Types
    <2> QED
      BY <2>1, <2>2 DEF BootstrapInv, Control, Collected, FileOK, Written, Writing
  <1>2. BootstrapInv /\ [Next]_vars => BootstrapInv'
    BY TypesStep, ControlStep, CollectedStep, FileOKStep, WrittenStep DEF BootstrapInv
  <1> QED
    BY <1>1, <1>2, PTL DEF Spec

(***************************************************************************)
(* A secret in generated-config.json is the secret of the client it stands *)
(* beside, whatever was deleted, recreated, reset or interrupted           *)
(* (preserveKnownSecrets).                                                 *)
(***************************************************************************)
THEOREM SecretsStandByTheirClients == Spec => []SecretsMatch
  <1>1. BootstrapInv => SecretsMatch
    BY DEF BootstrapInv, FileOK, Matching, SecretsMatch
  <1> QED
    BY <1>1, BootstrapInvariant, PTL

\* A step that leaves the file alone keeps what it knows.
LEMMA FileKnowsKept ==
    ASSUME NEW c, FileKnows(c), idp'[c] = idp[c], UNCHANGED generated PROVE FileKnows(c)'
  BY DEF FileKnows, Entry

LEMMA FileKeepsStep ==
    ASSUME BootstrapInv, [Next]_vars, NEW c \in Clients, FileKnows(c), idp'[c] = idp[c]
    PROVE  FileKnows(c)' \/ Forgets(c)
  <1>1. CASE UNCHANGED generated
    BY <1>1, FileKnowsKept
  <1>2. CASE writeGeneratedConfig
    <2>1. /\ cmd.pc = "rename" /\ generated' = cmd.result
      BY <1>2 DEF writeGeneratedConfig
    <2>2. Entry(cmd.result, c) = [id |-> idp[c], secret |-> idp[c]] \/ Forgets(c)
      BY <2>1 DEF BootstrapInv, Written, Writing, Keeps
    <2>3. cmd.result # NoFile
      <3>1. cmd.result \in Conf
        BY <2>1, Running DEF BootstrapInv, PCs, Command
      <3> QED
        BY <3>1, ConfIsFile
    <2> QED
      BY <2>1, <2>2, <2>3 DEF FileKnows, Entry
  <1>3. CASE DeleteFiles
    <2>1. cmd.pc = "delete" /\ cmd # Idle
      BY <1>3, Running DEF DeleteFiles, BootstrapInv, PCs
    <2> QED
      BY <2>1 DEF BootstrapInv, Control, Wipes, Forgets
  <1>4. writeGeneratedConfig \/ DeleteFiles \/ UNCHANGED generated
    BY DEF Next, Step, Operator, CallBootstrap, resolveHumanInputs, EnsureWebApplication,
       OnboardMachine, OnboardHuman, PrepareConfigs, writeUIConfig, FinishUIConfig,
       verifyIdentityResources, CallRefused, CallFails, Interrupt, runApply, runUsers, runVerify,
       ReturnAtOnce, EditACL, cmd_reset, cmd_nuke, WipeStack, ReadFails, DeleteObject, vars
  <1> QED
    BY <1>1, <1>2, <1>3, <1>4

(***************************************************************************)
(* No step, and no failure or death of a command, takes from the file the  *)
(* secret of a client that still exists, but for an apply whose access     *)
(* list has lost the user or that could not read the file (main.go:234),   *)
(* and a reset or nuke that left the provider's volumes (bootstrap.sh:670, *)
(* writeFileAtomic, preserveKnownSecrets).                                 *)
(***************************************************************************)
THEOREM FileNeverLosesSecrets == Spec => FileKeepsSecrets
  <1>1. BootstrapInv /\ [Next]_vars =>
           [\A c \in Clients : FileKnows(c) /\ idp'[c] = idp[c] => FileKnows(c)' \/ Forgets(c)]_vars
    BY FileKeepsStep
  <1> QED
    BY <1>1, BootstrapInvariant, PTL DEF Spec, FileKeepsSecrets

\* The running command knows the secret of client c.
Told(c) == /\ idp[c] # 0 /\ cmd # Idle
           /\ Entry(cmd.result, c) = [id |-> idp[c], secret |-> idp[c]]

LEMMA KnownIs == \A c : Known(c) <=> FileKnows(c) \/ Told(c)
  BY DEF Known, Told

\* A client whose entry the command has not filled in is not one it knows.
LEMMA UntoldEntry ==
    ASSUME NEW c, cmd # Idle => Entry(cmd.result, c) = NoCredential PROVE ~Told(c)
  BY DEF Told, NoCredential

\* Which steps create which objects.
LEMMA Creation ==
    ASSUME BootstrapInv, [Next]_vars, NEW o \in Objects, idp'[o] \notin {0, idp[o]}
    PROVE  /\ idp[o] = 0
           /\ \/ CallBootstrap /\ o \in {"project", "api"}
              \/ EnsureWebApplication /\ o = "web" /\ ACL.web # NoWeb
              \/ OnboardMachine /\ o \in MachineUsers /\ o \in Machines
              \/ OnboardHuman /\ o \in HumanUsers /\ o \in Humans
              \/ CallFails /\ o \in PendingObjects
  <1>0. Types /\ Control /\ idp \in [Objects -> Nat]
    BY DEF BootstrapInv, Types
  <1>a. ASSUME NEW done \in SUBSET Objects, Ensure(done) PROVE o \in done /\ idp[o] = 0
    BY <1>0, <1>a, EnsureEffect
  <1>1. CASE CallBootstrap
    BY <1>0, <1>a, <1>1, BootstrapEffect
  <1>2. CASE EnsureWebApplication
    BY <1>0, <1>a, <1>2, WebEffect
  <1>3. CASE OnboardMachine
    <2>1. PICK u \in MachineUsers : u \in Machines /\ Ensure({u})
      BY <1>0, <1>3, MachineEffect
    <2> QED
      BY <1>a, <1>3, <2>1, ObjectNames
  <1>4. CASE OnboardHuman
    <2>1. PICK u \in HumanUsers : u \in Humans /\ Ensure({u})
      BY <1>0, <1>4, HumanEffect
    <2> QED
      BY <1>a, <1>4, <2>1, ObjectNames
  <1>5. CASE CallFails
    BY <1>0, <1>a, <1>5, CallFailsEffect
  <1>6. CASE Wiping \/ \E x \in Objects \ {"project", "api"} : DeleteObject(x)
    BY <1>0, <1>6, WipeEffect DEF DeleteObject
  <1>7. CASE \/ resolveHumanInputs \/ PrepareConfigs \/ writeGeneratedConfig \/ writeUIConfig
             \/ FinishUIConfig \/ verifyIdentityResources \/ DeleteFiles \/ CallRefused \/ Interrupt
             \/ runApply \/ runUsers \/ runVerify \/ ReturnAtOnce \/ EditACL \/ ReadFails
             \/ UNCHANGED vars
    BY <1>7 DEF resolveHumanInputs, PrepareConfigs, writeGeneratedConfig, writeUIConfig,
       FinishUIConfig, verifyIdentityResources, DeleteFiles, CallRefused, Interrupt, runApply,
       runUsers, runVerify, ReturnAtOnce, EditACL, ReadFails, vars
  <1> QED
    BY <1>1, <1>2, <1>3, <1>4, <1>5, <1>6, <1>7 DEF Next, Step, Operator, Wiping

\* The creator of a client is told its secret.
LEMMA CreatorTold ==
    ASSUME BootstrapInv, [Next]_vars, NEW c \in Clients, idp'[c] \notin {0, idp[c]}
    PROVE  Known(c)' \/ status' = "failed"
  <1>0. Types /\ Control /\ c \in Objects /\ Types'
    BY ObjectNames, TypesStep DEF BootstrapInv
  <1>1. CASE CallFails
    BY <1>1 DEF CallFails, Fail
  <1>r. ASSUME cmd' # Idle, cmd'.result \in Conf, Entry(cmd'.result, c) = Credential(c),
               NEW done \in SUBSET Objects, c \in done, Ensure(done)
        PROVE  Known(c)'
    <2>1. Credential(c) \in Cred /\ Credential(c).id = idp'[c] /\ Credential(c).secret = idp'[c]
      BY <1>0, <1>r, EnsureEffect, Creation
    <2>2. Credential(c) = [id |-> idp'[c], secret |-> idp'[c]]
      BY <2>1, Credible
    <2> QED
      BY <1>r, <2>2 DEF Known, Entry
  <1>2. CASE CallBootstrap /\ c \in {"project", "api"}
    <2>1. c = "api"
      BY <1>2, ObjectNames DEF Clients
    <2>2. /\ Ensure({"project", "api"}) /\ {"project", "api"} \subseteq Objects
          /\ cmd' \in Command(ACL)' /\ cmd' # Idle /\ cmd'.result.api = Credential("api")
      BY <1>0, <1>2, BootstrapEffect DEF Moved
    <2>3. cmd'.result \in Conf
      BY <2>2 DEF Command
    <2> QED
      BY <1>r, <2>1, <2>2, <2>3 DEF Entry
  <1>3. CASE OnboardMachine /\ c \in MachineUsers
    <2>1. PICK u \in MachineUsers :
             Ensure({u}) /\ cmd'.result.users = [cmd.result.users EXCEPT ![u] = Credential(u)]
      BY <1>0, <1>3, MachineEffect, Creation DEF vars
    <2>2. c = u /\ {u} \subseteq Objects
      BY <1>0, <2>1, EnsureEffect, ObjectNames
    <2>3. cmd' # Idle /\ cmd' \in Command(ACL)'
      BY <1>0, <1>3, MachineEffect DEF Moved
    <2>4. cmd.result \in Conf /\ cmd'.result \in Conf
      BY <1>0, <1>3, <2>3, MachineEffect, Running DEF Command
    <2>5. Entry(cmd'.result, c) = Credential(c)
      BY <2>1, <2>2, <2>4, ObjectNames DEF Entry, Conf
    <2> QED
      BY <1>r, <2>1, <2>2, <2>3, <2>4, <2>5
  <1> QED
    BY <1>0, <1>1, <1>2, <1>3, Creation, ObjectNames DEF Clients

\* A secret that the command knows goes into the file, or the command fails.
LEMMA ToldStep ==
    ASSUME BootstrapInv, [Next]_vars, NEW c \in Clients, Told(c), idp'[c] = idp[c]
    PROVE  Known(c)' \/ status' = "failed"
  <1>0. /\ Types /\ Control /\ Collected /\ FileOK /\ Written /\ cmd # Idle
        /\ Entry(cmd.result, c) = [id |-> idp[c], secret |-> idp[c]] /\ idp[c] # 0
        /\ Entry(cmd.result, c) # NoCredential
    BY UntoldEntry DEF BootstrapInv, Told
  <1>1. cmd \in Command(ACL) /\ cmd.result \in Conf /\ c \in Objects
    <2>1. cmd \in Command(ACL)
      BY <1>0, Running
    <2> QED
      BY <2>1, ObjectNames DEF Command
  <1>2. ASSUME cmd' # Idle, Entry(cmd'.result, c) = Entry(cmd.result, c) PROVE Known(c)'
    BY <1>0, <1>2 DEF Known, Entry
  <1>3. ASSUME generated' = cmd.result PROVE Known(c)'
    BY <1>0, <1>1, <1>3, ConfIsFile DEF Known, FileKnows, Entry
  <1>4. cmd.result # NoConfig
    <2>1. Entry(NoConfig, c) = NoCredential
      BY ObjectNames DEF Entry, NoConfig, Clients
    <2> QED
      BY <1>0, <2>1
  <1>5. CASE CallBootstrap \/ verifyIdentityResources \/ DeleteFiles
    BY <1>0, <1>4, <1>5 DEF Collected, CallBootstrap, verifyIdentityResources, DeleteFiles
  <1>6. CASE resolveHumanInputs
    BY <1>0, <1>2, <1>6, ResolveEffect DEF Moved, Fail
  <1>7. CASE EnsureWebApplication
    BY <1>0, <1>2, <1>7, WebEffect DEF Moved, Entry
  <1>8. CASE OnboardMachine
    <2>1. CASE cmd'.result = cmd.result
      BY <1>0, <1>2, <1>8, <2>1, MachineEffect DEF Moved
    <2>2. CASE /\ \E u \in Machines :
                     /\ u \in Usernames(cmd.todo) /\ u \in MachineUsers
                     /\ cmd'.result.users = [cmd.result.users EXCEPT ![u] = Credential(u)]
               /\ cmd'.result.api = cmd.result.api
      <3>1. PICK u \in MachineUsers : /\ u \in Usernames(cmd.todo)
                                      /\ cmd'.result.users = [cmd.result.users EXCEPT ![u] = Credential(u)]
        BY <2>2
      <3>2. cmd.result.users[u] = NoCredential
        BY <1>0, <1>8, <3>1 DEF Collected, Gathered, OnboardMachine
      <3>3. c # u
        BY <1>0, <3>1, <3>2, ObjectNames DEF Entry
      <3>4. Entry(cmd'.result, c) = Entry(cmd.result, c)
        BY <1>1, <2>2, <3>1, <3>3 DEF Entry, Conf, Clients
      <3> QED
        BY <1>0, <1>2, <1>8, <3>4, MachineEffect DEF Moved
    <2> QED
      BY <1>0, <1>8, <2>1, <2>2, MachineEffect
  <1>9. CASE OnboardHuman
    <2>1. cmd' # Idle /\ cmd'.result.api = cmd.result.api /\ cmd'.result.users = cmd.result.users
      BY <1>0, <1>9, HumanEffect DEF Moved
    <2> QED
      BY <1>2, <2>1 DEF Entry
  <1>10. CASE PrepareConfigs
    <2>1. CASE Fail
      BY <2>1 DEF Fail
    <2>2. CASE ~Fail
      <3>1. cmd' # Idle /\ cmd'.result = Merged /\ cmd.pc = "merge"
        BY <1>0, <1>10, <2>2, PrepareEffect DEF Moved, PrepareConfigs
      <3>2. Entry(Merged, c) = [id |-> idp[c], secret |-> idp[c]]
        BY <1>0, <3>1, MergedEntry
      <3> QED
        BY <1>0, <1>2, <3>1, <3>2
    <2> QED
      BY <2>1, <2>2
  <1>11. CASE writeGeneratedConfig
    BY <1>3, <1>11 DEF writeGeneratedConfig
  <1>12. CASE writeUIConfig \/ FinishUIConfig
    <2>1. cmd.pc \in {"ui", "ui-write"} /\ UNCHANGED generated
      BY <1>12 DEF writeUIConfig, FinishUIConfig
    <2>2. generated' = cmd.result
      BY <1>0, <2>1 DEF Written, Writing
    <2> QED
      BY <1>3, <2>2
  <1>13. CASE CallRefused \/ CallFails \/ Interrupt
    BY <1>13 DEF CallRefused, CallFails, Interrupt, Fail
  <1>14. CASE Operator
    BY <1>0, <1>14 DEF Operator, runApply, runUsers, runVerify, ReturnAtOnce, EditACL, cmd_reset,
       cmd_nuke, WipeStack, DeleteObject
  <1>15. CASE UNCHANGED vars
    BY <1>0, <1>2, <1>15 DEF vars
  <1>16. CASE ReadFails
    BY <1>0, <1>2, <1>16, ReadFailsEffect
  <1> QED
    BY <1>5, <1>6, <1>7, <1>8, <1>9, <1>10, <1>11, <1>12, <1>13, <1>14, <1>15, <1>16
       DEF Next, Step

(***************************************************************************)
(* A secret that the provider has issued is in the file or in the running  *)
(* command until that command fails or forgets it: a command that succeeds *)
(* and has read the file loses none (runApply, runUsers).                  *)
(***************************************************************************)
THEOREM IssuedSecretsAreKept == Spec => SecretsAccountedFor
  <1>1. ASSUME BootstrapInv, [Next]_vars, NEW c \in Clients,
               idp'[c] # 0, idp[c] # idp'[c] \/ Known(c)
        PROVE  Known(c)' \/ status' = "failed" \/ Forgets(c)
    <2>1. CASE idp'[c] # idp[c]
      BY <1>1, <2>1, CreatorTold
    <2>2. CASE idp'[c] = idp[c] /\ FileKnows(c)
      BY <1>1, <2>2, FileKeepsStep DEF Known, FileKnows
    <2>3. CASE idp'[c] = idp[c] /\ Told(c)
      BY <1>1, <2>3, ToldStep
    <2> QED
      BY <1>1, <2>1, <2>2, <2>3, KnownIs
  <1>2. BootstrapInv /\ [Next]_vars =>
           [\A c \in Clients : /\ idp'[c] # 0
                               /\ idp[c] # idp'[c] \/ Known(c)
                               => Known(c)' \/ status' = "failed" \/ Forgets(c)]_vars
    BY <1>1
  <1> QED
    BY <1>2, BootstrapInvariant, PTL DEF Spec, SecretsAccountedFor

(***************************************************************************)
(* No identity is created unless the access list is valid and the password *)
(* of every human in it is there (resolveHumanInputs).                     *)
(***************************************************************************)
THEOREM InputsValidatedFirst == Spec => ValidatedFirst
  <1>1. ASSUME BootstrapInv, [Next]_vars, NEW o \in Objects \ {"project", "api"},
               idp'[o] \notin {0, idp[o]}
        PROVE  ACLOK(file) /\ Usernames(loadACL(file).humans) \subseteq cmd.passwords
    <2>1. Types /\ Control
      BY <1>1 DEF BootstrapInv
    <2>2. cmd.pc \in {"web", "machines", "humans"}
      <3>1. CASE EnsureWebApplication \/ OnboardMachine \/ OnboardHuman
        BY <3>1 DEF EnsureWebApplication, OnboardMachine, OnboardHuman
      <3>2. CASE o \in PendingObjects
        BY <1>1, <2>1, <3>2, Pending
      <3> QED
        BY <1>1, <3>1, <3>2, Creation
    <2>3. cmd # Idle
      BY <2>1, <2>2, Running DEF PCs
    <2> QED
      BY <2>1, <2>2, <2>3 DEF Control, Humans, ACL
  <1>2. BootstrapInv /\ [Next]_vars =>
           [\A o \in Objects \ {"project", "api"} :
               idp'[o] \notin {0, idp[o]} =>
                   ACLOK(file) /\ Usernames(loadACL(file).humans) \subseteq cmd.passwords]_vars
    BY <1>1
  <1> QED
    BY <1>2, BootstrapInvariant, PTL DEF Spec, ValidatedFirst

-----------------------------------------------------------------------------
(***************************************************************************)
(* Success                                                                 *)
(***************************************************************************)
\* The steps with which apply and users succeed.
LEMMA Success ==
    ASSUME BootstrapInv, [Next]_vars, cmd' = Idle, status' \in {"apply", "users"}
    PROVE  \/ UNCHANGED vars
           \/ /\ writeUIConfig \/ FinishUIConfig
              /\ cmd # Idle /\ cmd.pc \in {"ui", "ui-write"} /\ status' = cmd.name
              /\ UNCHANGED <<file, idp, generated>>
  <1>0. Types /\ Control
    BY DEF BootstrapInv
  <1>1. CASE writeUIConfig \/ FinishUIConfig
    <2>1. cmd.pc \in {"ui", "ui-write"} /\ UNCHANGED <<file, idp, generated>>
      BY <1>1 DEF writeUIConfig, FinishUIConfig
    <2>2. cmd # Idle
      BY <1>0, <2>1, Running DEF PCs
    <2>3. status' = cmd.name
      <3>1. CASE Succeed
        BY <3>1 DEF Succeed
      <3>2. CASE Goto("ui-write") /\ UNCHANGED file
        BY <1>0, <2>2, <3>2, GotoEffect DEF Moved, PCs
      <3> QED
        BY <1>1, <3>1, <3>2 DEF writeUIConfig, FinishUIConfig
    <2> QED
      BY <1>1, <2>1, <2>2, <2>3
  <1>2. CASE CallBootstrap
    BY <1>0, <1>2, BootstrapEffect DEF Moved
  <1>3. CASE resolveHumanInputs
    BY <1>0, <1>3, ResolveEffect DEF Moved, Fail
  <1>4. CASE EnsureWebApplication
    BY <1>0, <1>4, WebEffect DEF Moved
  <1>5. CASE OnboardMachine
    BY <1>0, <1>5, MachineEffect DEF Moved
  <1>6. CASE OnboardHuman
    BY <1>0, <1>6, HumanEffect DEF Moved
  <1>7. CASE PrepareConfigs
    BY <1>0, <1>7, PrepareEffect DEF Moved, Fail
  <1>8. CASE writeGeneratedConfig
    <2>1. cmd # Idle /\ UNCHANGED file /\ Goto("ui")
      BY <1>0, <1>8, Running DEF writeGeneratedConfig, PCs
    <2> QED
      BY <1>0, <2>1, GotoEffect DEF Moved, PCs
  <1>9. CASE verifyIdentityResources \/ DeleteFiles
    <2>1. cmd.pc \in {"verify", "delete"} /\ (Succeed \/ Fail)
      BY <1>9 DEF verifyIdentityResources, DeleteFiles
    <2>2. cmd.name \in {"verify"} \cup Wipes
      BY <1>0, <2>1, Running DEF PCs, Control
    <2> QED
      BY <2>1, <2>2 DEF Succeed, Fail, Wipes
  <1>10. CASE CallRefused \/ CallFails \/ Interrupt
    BY <1>10 DEF CallRefused, CallFails, Interrupt, Fail
  <1>11. CASE runApply \/ runUsers \/ runVerify
    <2>1. cmd'.pc \in {"bootstrap", "resolve", "verify"}
      BY <1>11 DEF runApply, runUsers, runVerify, Start
    <2> QED
      BY <2>1 DEF Idle
  <1>12. CASE ReturnAtOnce \/ EditACL \/ \E o \in Objects \ {"project", "api"} : DeleteObject(o)
    BY <1>12 DEF ReturnAtOnce, EditACL, DeleteObject
  <1>13. CASE Wiping \/ ReadFails
    BY <1>0, <1>13, WipeEffect, ReadFailsEffect
  <1> QED
    BY <1>1, <1>2, <1>3, <1>4, <1>5, <1>6, <1>7, <1>8, <1>9, <1>10, <1>11, <1>12, <1>13
       DEF Next, Step, Operator, Wiping

LEMMA SuccessCurrent ==
    ASSUME BootstrapInv, Applied, [Next]_vars, cmd' = Idle, status' \in {"apply", "users"}
    PROVE  /\ ACLOK(file') /\ Fresh(generated, status)' /\ UICurrent'
           /\ generated' # NoFile \/ status' = "users"
  <1>0. Types /\ Control /\ Written
    BY DEF BootstrapInv
  <1>1. CASE UNCHANGED vars
    BY <1>1 DEF Applied, vars, Fresh, ACL, Machines, Humans, UICurrent
  <1>2. CASE /\ writeUIConfig \/ FinishUIConfig
             /\ cmd # Idle /\ cmd.pc \in {"ui", "ui-write"} /\ status' = cmd.name
             /\ UNCHANGED <<file, idp, generated>>
    <2>1. /\ generated = cmd.result /\ Fresh(cmd.result, cmd.name) /\ cmd.result \in Conf
          /\ cmd.acl = ACL /\ file \in ACLFiles /\ ACLOK(file)
      <3>1. cmd \in Command(ACL) /\ cmd.acl = ACL /\ file \in ACLFiles
        BY <1>0, <1>2, Running DEF Types
      <3>2. cmd.name \notin Wipes
        BY <1>0, <1>2 DEF Control
      <3> QED
        BY <1>0, <1>2, <3>1, <3>2 DEF Written, Writing, Control, Command
    <2>2. Fresh(generated, status)'
      BY <1>2, <2>1 DEF Fresh, ACL, Machines, Humans
    <2>3. Humans \subseteq HumanUsers
      BY <2>1, ACLFacts
    <2>4. CASE writeUIConfig
      <3>1. ACL.web = NoWeb /\ ui' = NoFile
        <4>1. CASE ACL.web # NoWeb
          <5>1. Goto("ui-write") /\ UNCHANGED file
            BY <2>1, <2>4, <4>1 DEF writeUIConfig
          <5> QED
            BY <1>0, <1>2, <5>1, GotoEffect DEF Moved, PCs
        <4> QED
          BY <2>1, <2>4, <4>1 DEF writeUIConfig
      <3> QED
        BY <1>2, <2>1, <2>2, <3>1, ConfIsFile DEF UICurrent, ACL
    <2>5. CASE FinishUIConfig
      <3>1. ACL.web # NoWeb /\ ui' = buildUIAuthConfig(cmd.result, ACL)
        BY <1>0, <1>2, <2>1, <2>5 DEF FinishUIConfig, Control
      <3>2. [u \in HumanUsers |-> IF u \in Usernames(ACL.humans) THEN cmd.result.humans[u] ELSE 0]
              = [u \in HumanUsers |-> IF u \in Usernames(ACL.humans) THEN idp[u] ELSE 0]
        BY <2>1 DEF Fresh, Humans
      <3>3. cmd.result.project = idp["project"] /\ cmd.result.web = idp["web"]
        BY <2>1, <3>1 DEF Fresh
      <3>4. ui' = [project |-> idp["project"], web |-> idp["web"],
                   users |-> [u \in HumanUsers |-> IF u \in Usernames(ACL.humans) THEN idp[u] ELSE 0]]
        BY <3>1, <3>2, <3>3 DEF buildUIAuthConfig
      <3> QED
        BY <1>2, <2>1, <2>2, <3>1, <3>4, ConfIsFile DEF UICurrent, ACL
    <2> QED
      BY <1>2, <2>4, <2>5
  <1> QED
    BY <1>1, <1>2, Success

LEMMA ReapplyStep ==
    ASSUME BootstrapInv, Applied, [Next]_vars, status = "apply", cmd # Idle, cmd.name = "apply"
    PROVE  /\ idp' = idp
           /\ cmd.unread \/ SameBut(generated', generated)
           /\ \/ generated' = generated
              \/ /\ generated' = cmd.result /\ Fresh(cmd.result, "apply") /\ cmd.result # NoFile
                 /\ writeGeneratedConfig
  <1>0. /\ Types /\ Control /\ Types' /\ idp \in [Objects -> Nat] /\ idp' \in [Objects -> Nat]
        /\ Fresh(generated, "apply") /\ generated \in Conf
    BY TypesStep DEF BootstrapInv, Types, Applied
  <1>u. generated' = generated => SameBut(generated', generated)
    BY <1>0 DEF SameBut, Conf
  <1>1. CASE Operator
    BY <1>1 DEF Operator, runApply, runUsers, runVerify, ReturnAtOnce, EditACL, cmd_reset, cmd_nuke,
       WipeStack, DeleteObject
  <1>2. CASE ~Operator
    <2>1. ASSUME NEW o \in Objects, idp'[o] # idp[o], idp'[o] = 0 PROVE FALSE
      <3>1. ASSUME NEW done \in SUBSET Objects, Ensure(done) PROVE FALSE
        BY <1>0, <2>1, <3>1, EnsureEffect
      <3>2. \/ CallBootstrap \/ EnsureWebApplication \/ OnboardMachine \/ OnboardHuman \/ CallFails
            \/ UNCHANGED idp
        BY <1>2 DEF Next, Step, resolveHumanInputs, PrepareConfigs, writeGeneratedConfig,
           writeUIConfig, FinishUIConfig, verifyIdentityResources, DeleteFiles, CallRefused,
           Interrupt, ReadFails, vars
      <3>3. CASE CallBootstrap
        BY <1>0, <3>1, <3>3, BootstrapEffect
      <3>4. CASE EnsureWebApplication
        BY <1>0, <2>1, <3>1, <3>4, WebEffect
      <3>5. CASE OnboardMachine
        BY <1>0, <2>1, <3>1, <3>5, MachineEffect DEF Objects
      <3>6. CASE OnboardHuman
        BY <1>0, <2>1, <3>1, <3>6, HumanEffect DEF Objects
      <3>7. CASE CallFails
        BY <1>0, <3>1, <3>7, CallFailsEffect
      <3> QED
        BY <2>1, <3>2, <3>3, <3>4, <3>5, <3>6, <3>7
    <2>2. ASSUME NEW o \in Objects, idp'[o] # idp[o], idp'[o] # 0 PROVE FALSE
      <3>1. /\ idp[o] = 0
            /\ \/ o \in {"project", "api"} \/ (o = "web" /\ ACL.web # NoWeb)
               \/ o \in Machines \/ o \in Humans \/ o \in PendingObjects
        BY <2>2, Creation
      <3>2. \/ o \in {"project", "api"} \/ (o = "web" /\ ACL.web # NoWeb)
            \/ o \in Machines \/ o \in Humans
        BY <1>0, <3>1, Pending
      <3> QED
        BY <1>0, <3>1, <3>2 DEF Fresh
    <2>3. idp' = idp
      BY <1>0, <2>1, <2>2
    <2>4. CASE writeGeneratedConfig
      <3>1. generated' = cmd.result /\ cmd.pc = "rename"
        BY <2>4 DEF writeGeneratedConfig
      <3>2. cmd.unread \/ SameBut(cmd.result, generated)
        BY <3>1 DEF Applied, Writing
      <3>3. Fresh(cmd.result, "apply")
        BY <3>1 DEF BootstrapInv, Written, Writing
      <3>4. cmd.result # NoFile
        BY <1>0, <3>1, Running, ConfIsFile DEF PCs, Command
      <3> QED
        BY <2>3, <2>4, <3>1, <3>2, <3>3, <3>4
    <2>5. CASE DeleteFiles
      BY <1>0, <2>5 DEF DeleteFiles, Control, Wipes
    <2>6. writeGeneratedConfig \/ DeleteFiles \/ UNCHANGED generated
      BY <1>2 DEF Next, Step, CallBootstrap, resolveHumanInputs, EnsureWebApplication,
         OnboardMachine, OnboardHuman, PrepareConfigs, writeUIConfig, FinishUIConfig,
         verifyIdentityResources, CallRefused, CallFails, Interrupt, ReadFails, vars
    <2> QED
      BY <1>u, <2>3, <2>4, <2>5, <2>6
  <1> QED
    BY <1>1, <1>2

\* apply is running and the last one has succeeded: it was so before, or it
\* has just been started.
LEMMA Reapplying ==
    ASSUME BootstrapInv, [Next]_vars, cmd' # Idle, cmd'.name = "apply", status' = "apply"
    PROVE  /\ status = "apply" /\ UNCHANGED file
           /\ \/ /\ cmd = Idle /\ cmd'.pc = "bootstrap" /\ UNCHANGED <<idp, generated>>
              \/ UNCHANGED vars
              \/ cmd # Idle /\ cmd.name = "apply" /\ (Step \/ ReadFails)
  <1>0. Types /\ Control
    BY DEF BootstrapInv
  <1>1. CASE runApply
    BY <1>1 DEF runApply, Start
  <1>2. CASE runUsers \/ runVerify
    <2>1. cmd'.name \in {"users", "verify"}
      BY <1>2 DEF runUsers, runVerify, Start
    <2> QED
      BY <2>1
  <1>3. CASE ReturnAtOnce \/ EditACL \/ \E o \in Objects \ {"project", "api"} : DeleteObject(o)
    BY <1>3 DEF ReturnAtOnce, EditACL, DeleteObject
  <1>4. CASE UNCHANGED vars
    BY <1>4 DEF vars
  <1>5. CASE CallFails \/ Interrupt \/ CallRefused
    BY <1>5 DEF CallFails, Interrupt, CallRefused, Fail
  <1>6. CASE CallBootstrap
    BY <1>0, <1>6, BootstrapEffect DEF Moved, CallBootstrap, Step
  <1>7. CASE resolveHumanInputs
    BY <1>0, <1>7, ResolveEffect DEF Moved, Fail, resolveHumanInputs, Step
  <1>8. CASE EnsureWebApplication
    BY <1>0, <1>8, WebEffect DEF Moved, EnsureWebApplication, Step
  <1>9. CASE OnboardMachine
    BY <1>0, <1>9, MachineEffect DEF Moved, OnboardMachine, Step
  <1>10. CASE OnboardHuman
    BY <1>0, <1>10, HumanEffect DEF Moved, OnboardHuman, Step
  <1>11. CASE PrepareConfigs
    BY <1>0, <1>11, PrepareEffect DEF Moved, Fail, PrepareConfigs, Step
  <1>12. CASE writeGeneratedConfig
    <2>1. cmd # Idle /\ UNCHANGED file /\ Goto("ui")
      BY <1>0, <1>12, Running DEF writeGeneratedConfig, PCs
    <2> QED
      BY <1>0, <1>12, <2>1, GotoEffect DEF Moved, PCs, Step
  <1>13. CASE writeUIConfig
    <2>1. cmd # Idle /\ UNCHANGED file /\ Goto("ui-write")
      BY <1>0, <1>13, Running DEF writeUIConfig, PCs, Succeed
    <2> QED
      BY <1>0, <1>13, <2>1, GotoEffect DEF Moved, PCs, Step
  <1>14. CASE FinishUIConfig \/ verifyIdentityResources \/ DeleteFiles
    BY <1>14 DEF FinishUIConfig, verifyIdentityResources, DeleteFiles, Succeed, Fail
  <1>15. CASE Wiping
    BY <1>0, <1>15, WipeEffect
  <1>16. CASE ReadFails
    BY <1>0, <1>16, ReadFailsEffect DEF Quiet
  <1> QED
    BY <1>1, <1>2, <1>3, <1>4, <1>5, <1>6, <1>7, <1>8, <1>9, <1>10, <1>11, <1>12, <1>13, <1>14,
       <1>15, <1>16 DEF Next, Step, Operator, Wiping

LEMMA ConfEqual ==
    ASSUME NEW r \in Conf, NEW q \in Conf, r.project = q.project, r.api = q.api, r.web = q.web,
           r.users = q.users, r.humans = q.humans
    PROVE  SameBut(r, q)
  BY DEF Conf, SameBut

LEMMA CredEqual ==
    ASSUME NEW r \in Cred, NEW q \in Cred, r.id = q.id, r.secret = q.secret PROVE r = q
  BY DEF Cred

\* An apply that was told no secret, and has read the file, writes what the
\* last one has written.
LEMMA Rewrites ==
    ASSUME BootstrapInv, Applied, status = "apply", cmd.pc = "merge", cmd.name = "apply",
           ~cmd.unread
    PROVE  SameBut(Merged, generated)
  <1>1. /\ Types /\ Control /\ Collected /\ FileOK /\ generated # NoFile /\ generated \in Conf
        /\ Fresh(generated, "apply") /\ \A c \in Clients : Entry(cmd.result, c).secret = 0
    BY DEF BootstrapInv, Types, Applied, Collecting
  <1>2. /\ cmd \in Command(ACL) /\ cmd # Idle /\ cmd.result \in Conf
    <2>1. cmd \in Command(ACL) /\ cmd # Idle
      BY <1>1, Running DEF PCs
    <2> QED
      BY <2>1 DEF Command
  <1>3. Machines \subseteq MachineUsers /\ Humans \subseteq HumanUsers
    BY <1>1, <1>2, ACLFacts DEF Control, Types
  <1>4. Gathered(ACL.web # NoWeb, Machines, Humans)
    BY <1>1 DEF Collected
  <1>5. /\ Merged \in Conf /\ Merged.project = cmd.result.project /\ Merged.web = cmd.result.web
        /\ Merged.humans = cmd.result.humans
        /\ Merged.api = Preserved(generated.api, cmd.result.api)
        /\ \A u \in MachineUsers : Merged.users[u] = Preserved(generated.users[u], cmd.result.users[u])
    BY <1>1, <1>2, MergedEffect
  <1>6. Merged.project = generated.project /\ Merged.web = generated.web
    BY <1>1, <1>4, <1>5 DEF Gathered, Fresh
  <1>7. Merged.humans = generated.humans
    <2>1. \A u \in HumanUsers : Merged.humans[u] = generated.humans[u]
      BY <1>1, <1>4, <1>5 DEF Gathered, Fresh
    <2> QED
      BY <1>1, <1>5, <2>1 DEF Conf
  <1>8. ASSUME NEW old \in Cred, NEW new \in Cred, new.secret = 0, new.id = old.id
        PROVE  Preserved(old, new) = old
    BY <1>8, PreservedEffect, CredEqual
  <1>9. Merged.api = generated.api
    <2>1. cmd.result.api \in Cred /\ generated.api \in Cred
      BY <1>1, <1>2 DEF Conf
    <2>2. cmd.result.api.secret = 0 /\ cmd.result.api.id = generated.api.id
      BY <1>1, <1>2, <1>4, EntryFacts DEF Gathered, Issued, Fresh, Clients
    <2> QED
      BY <1>5, <1>8, <2>1, <2>2
  <1>10. Merged.users = generated.users
    <2>1. ASSUME NEW u \in MachineUsers PROVE Merged.users[u] = generated.users[u]
      <3>1. cmd.result.users[u] \in Cred /\ generated.users[u] \in Cred
        BY <1>1, <1>2 DEF Conf
      <3>2. cmd.result.users[u].secret = 0
        BY <1>1, <1>2, EntryFacts DEF Clients
      <3>3. cmd.result.users[u].id = generated.users[u].id
        BY <1>1, <1>4 DEF Gathered, Issued, Fresh
      <3> QED
        BY <1>5, <1>8, <3>1, <3>2, <3>3
    <2> QED
      BY <1>1, <1>5, <2>1 DEF Conf
  <1> QED
    BY <1>1, <1>5, <1>6, <1>7, <1>9, <1>10, ConfEqual

\* An apply after a successful one is told no secret ...
LEMMA TellsNothing ==
    ASSUME BootstrapInv, Applied, [Next]_vars, status' = "apply", cmd' # Idle,
           cmd'.pc \in Collecting, cmd'.name = "apply", NEW c \in Clients
    PROVE  Entry(cmd.result, c)'.secret = 0
  <1>0. Types /\ Control /\ Collected
    BY DEF BootstrapInv
  <1>1. CASE UNCHANGED vars
    BY <1>1 DEF vars, Applied, Entry
  <1>2. CASE cmd'.pc = "bootstrap"
    BY <1>2 DEF Collecting
  <1>3. CASE status = "apply" /\ cmd # Idle /\ cmd.name = "apply" /\ (Step \/ ReadFails)
    <2>0. /\ Fresh(generated, "apply") /\ cmd.result \in Conf /\ cmd.pc \in PCs
      <3>1. cmd \in Command(ACL) /\ cmd.pc \in PCs
        BY <1>0, <1>3, Running
      <3> QED
        BY <1>3, <3>1 DEF Applied, Command
    <2>1. ASSUME cmd.pc \in Collecting, Entry(cmd'.result, c) = Entry(cmd.result, c)
          PROVE  Entry(cmd'.result, c).secret = 0
      BY <1>3, <2>1 DEF Applied
    <2>2. CASE CallBootstrap
      <3>1. /\ Ensure({"project", "api"}) /\ {"project", "api"} \subseteq Objects
            /\ cmd'.result.api = Credential("api") /\ cmd'.result.users = cmd.result.users
        BY <1>0, <2>2, BootstrapEffect
      <3>2. Credential("api").secret = 0
        BY <1>0, <2>0, <3>1, EnsureEffect DEF Fresh
      <3>3. cmd.result = NoConfig
        BY <1>0, <2>2 DEF CallBootstrap, Collected
      <3>4. \A u \in MachineUsers : cmd'.result.users[u] = NoCredential
        BY <3>1, <3>3 DEF NoConfig
      <3> QED
        BY <3>1, <3>2, <3>4 DEF Entry, Clients, NoCredential
    <2>3. CASE resolveHumanInputs
      BY <1>0, <2>1, <2>3, ResolveEffect DEF Moved, Fail, resolveHumanInputs, Collecting, Entry
    <2>4. CASE EnsureWebApplication
      <3>1. /\ cmd.pc \in Collecting /\ cmd'.result.api = cmd.result.api
            /\ cmd'.result.users = cmd.result.users
        BY <1>0, <2>4, WebEffect DEF EnsureWebApplication, Collecting
      <3> QED
        BY <2>1, <3>1 DEF Entry
    <2>5. CASE OnboardMachine
      <3>1. cmd.pc \in Collecting
        BY <2>5 DEF OnboardMachine, Collecting
      <3>2. CASE cmd'.result = cmd.result
        BY <2>1, <3>1, <3>2
      <3>3. CASE /\ \E u \in Machines :
                       /\ u \in MachineUsers /\ Ensure({u})
                       /\ cmd'.result.users = [cmd.result.users EXCEPT ![u] = Credential(u)]
                 /\ cmd'.result.api = cmd.result.api
        <4>1. PICK u \in Machines :
                 /\ u \in MachineUsers /\ Ensure({u})
                 /\ cmd'.result.users = [cmd.result.users EXCEPT ![u] = Credential(u)]
          BY <3>3
        <4>2. CASE c = u
          <5>1. Credential(u).secret = 0
            BY <1>0, <2>0, <4>1, EnsureEffect, ObjectNames DEF Fresh
          <5> QED
            BY <2>0, <4>1, <4>2, <5>1, ObjectNames DEF Entry, Conf
        <4>3. CASE c # u
          <5>1. Entry(cmd'.result, c) = Entry(cmd.result, c)
            BY <2>0, <3>3, <4>1, <4>3 DEF Entry, Conf, Clients
          <5> QED
            BY <2>1, <3>1, <5>1
        <4> QED
          BY <4>2, <4>3
      <3> QED
        BY <1>0, <2>5, <3>2, <3>3, MachineEffect
    <2>6. CASE OnboardHuman
      <3>1. /\ cmd.pc \in Collecting /\ cmd'.result.api = cmd.result.api
            /\ cmd'.result.users = cmd.result.users
        BY <1>0, <2>6, HumanEffect DEF OnboardHuman, Collecting
      <3> QED
        BY <2>1, <3>1 DEF Entry
    <2>7. CASE PrepareConfigs
      BY <1>0, <2>7, PrepareEffect DEF Moved, Fail, Collecting
    <2>8. CASE writeGeneratedConfig \/ writeUIConfig
      <3>1. (Goto("ui") \/ Goto("ui-write")) /\ UNCHANGED file
        BY <2>8 DEF writeGeneratedConfig, writeUIConfig, Succeed
      <3>2. cmd'.pc \in {"ui", "ui-write"}
        BY <1>0, <1>3, <3>1, GotoEffect DEF Moved, PCs
      <3> QED
        BY <3>2 DEF Collecting
    <2>9. CASE FinishUIConfig \/ verifyIdentityResources \/ DeleteFiles \/ CallRefused
      BY <2>9 DEF FinishUIConfig, verifyIdentityResources, DeleteFiles, CallRefused, Succeed, Fail
    <2>10. CASE ReadFails
      BY <1>0, <2>1, <2>10, ReadFailsEffect DEF Collecting
    <2>11. Entry(cmd'.result, c).secret = 0
      BY <1>3, <2>2, <2>3, <2>4, <2>5, <2>6, <2>7, <2>8, <2>9, <2>10 DEF Step
    <2> QED
      BY <2>11 DEF Entry
  <1> QED
    BY <1>1, <1>2, <1>3, Reapplying

\* ... and has nothing new to write.
LEMMA WritesNothing ==
    ASSUME BootstrapInv, Applied, [Next]_vars, status' = "apply", cmd' # Idle,
           cmd'.pc \in Writing, cmd'.name = "apply"
    PROVE  cmd'.unread \/ SameBut(cmd'.result, generated')
  <1>0. Types /\ Control
    BY DEF BootstrapInv
  <1>1. CASE UNCHANGED vars
    BY <1>1 DEF vars, Applied, SameBut
  <1>2. CASE cmd'.pc = "bootstrap"
    BY <1>2 DEF Writing
  <1>3. CASE status = "apply" /\ cmd # Idle /\ cmd.name = "apply" /\ (Step \/ ReadFails)
    <2>1. generated' = generated \/ (writeGeneratedConfig /\ generated' = cmd.result)
      BY <1>3, ReapplyStep
    <2>r. cmd.result \in Conf
      BY <1>0, <1>3, Running DEF Command
    <2>2. CASE CallBootstrap
      BY <1>0, <2>2, BootstrapEffect DEF Moved, Writing
    <2>3. CASE resolveHumanInputs
      BY <1>0, <2>3, ResolveEffect DEF Moved, Writing, Fail
    <2>4. CASE EnsureWebApplication
      BY <1>0, <2>4, WebEffect DEF Moved, Writing
    <2>5. CASE OnboardMachine
      BY <1>0, <2>5, MachineEffect DEF Moved, Writing
    <2>6. CASE OnboardHuman
      BY <1>0, <2>6, HumanEffect DEF Moved, Writing
    <2>7. CASE PrepareConfigs
      <3>1. /\ cmd'.result = Merged /\ cmd.pc = "merge" /\ cmd'.unread = cmd.unread
            /\ generated' = generated
        BY <1>0, <2>7, PrepareEffect DEF Fail, PrepareConfigs, Moved
      <3> QED
        BY <1>3, <3>1, Rewrites
    <2>8. CASE writeGeneratedConfig \/ writeUIConfig
      <3>1. (Goto("ui") \/ Goto("ui-write")) /\ UNCHANGED file /\ cmd.pc \in Writing
        BY <2>8 DEF writeGeneratedConfig, writeUIConfig, Succeed, Writing
      <3>2. cmd'.result = cmd.result /\ cmd'.unread = cmd.unread
        BY <1>0, <1>3, <3>1, GotoEffect DEF PCs, Moved
      <3>3. SameBut(cmd.result, cmd.result)
        BY <2>r DEF SameBut, Conf
      <3> QED
        BY <1>3, <2>1, <3>1, <3>2, <3>3 DEF Applied
    <2>9. CASE FinishUIConfig \/ verifyIdentityResources \/ DeleteFiles \/ CallRefused
      BY <2>9 DEF FinishUIConfig, verifyIdentityResources, DeleteFiles, CallRefused, Succeed, Fail
    <2>10. CASE ReadFails
      BY <1>0, <2>10, ReadFailsEffect DEF Writing
    <2> QED
      BY <1>3, <2>2, <2>3, <2>4, <2>5, <2>6, <2>7, <2>8, <2>9, <2>10 DEF Step
  <1> QED
    BY <1>1, <1>2, <1>3, Reapplying

LEMMA AppliedStep ==
    ASSUME BootstrapInv, Applied, [Next]_vars
    PROVE  Applied'
  <1>1. ASSUME status' = "apply", cmd' # Idle, cmd'.name = "apply"
        PROVE  ACLOK(file') /\ generated' # NoFile /\ Fresh(generated, "apply")'
    <2>1. /\ status = "apply" /\ UNCHANGED file /\ (cmd = Idle \/ cmd.name = "apply")
          /\ idp' = idp
          /\ \/ generated' = generated
             \/ generated' = cmd.result /\ Fresh(cmd.result, "apply") /\ cmd.result # NoFile
      <3>1. CASE UNCHANGED vars
        BY <1>1, <3>1 DEF vars
      <3>2. CASE cmd = Idle /\ UNCHANGED <<idp, generated>>
        BY <1>1, <3>2, Reapplying
      <3>3. CASE cmd # Idle /\ cmd.name = "apply"
        BY <1>1, <3>3, Reapplying, ReapplyStep
      <3> QED
        BY <1>1, <3>1, <3>2, <3>3, Reapplying
    <2>2. ACLOK(file) /\ generated # NoFile /\ Fresh(generated, "apply")
      BY <2>1 DEF Applied
    <2> QED
      BY <2>1, <2>2 DEF Fresh, ACL, Machines, Humans
  <1>2. ASSUME cmd' = Idle, status' = "apply"
        PROVE  ACLOK(file') /\ generated' # NoFile /\ Fresh(generated, "apply")'
    <2>1. ACLOK(file') /\ generated' # NoFile /\ Fresh(generated, status)'
      BY <1>2, SuccessCurrent
    <2> QED
      BY <1>2, <2>1 DEF Fresh
  <1>3. ASSUME cmd' = Idle, status' = "users" PROVE ACLOK(file') /\ Fresh(generated, "users")'
    <2>1. ACLOK(file') /\ Fresh(generated, status)'
      BY <1>3, SuccessCurrent
    <2> QED
      BY <1>3, <2>1 DEF Fresh
  <1>4. UICurrent'
    <2>1. CASE cmd' = Idle /\ status' \in {"apply", "users"}
      BY <2>1, SuccessCurrent
    <2> QED
      BY <2>1 DEF UICurrent
  <1>5. cmd'.pc \in Collecting \cup Writing => cmd' # Idle
    BY Ending DEF PCs, Collecting, Writing
  <1>6. ASSUME status' = "apply", cmd'.pc \in Collecting, cmd'.name = "apply", NEW c \in Clients
        PROVE  Entry(cmd.result, c)'.secret = 0
    BY <1>5, <1>6, TellsNothing
  <1>7. ASSUME status' = "apply", cmd'.pc \in Writing, cmd'.name = "apply"
        PROVE  cmd'.unread \/ SameBut(cmd.result, generated)'
    BY <1>5, <1>7, WritesNothing DEF SameBut
  <1> QED
    BY <1>1, <1>2, <1>3, <1>4, <1>6, <1>7 DEF Applied, Entry

LEMMA AppliedInvariant == Spec => [](BootstrapInv /\ Applied)
  <1>1. Init => Applied
    BY DEF Init, Applied, UICurrent
  <1>2. BootstrapInv /\ Applied /\ [Next]_vars => Applied'
    BY AppliedStep
  <1> QED
    BY <1>1, <1>2, BootstrapInvariant, PTL DEF Spec

(***************************************************************************)
(* After a successful apply or users both files name the project and every *)
(* identity of the access list by the identifier they have at the provider *)
(* (writeBootstrapConfigs).                                                *)
(***************************************************************************)
THEOREM SuccessMeansCurrent == Spec => []FilesCurrent
  <1>1. BootstrapInv /\ Applied => FilesCurrent
    BY DEF Applied, FilesCurrent, GeneratedCurrent, Fresh, ACL, Machines, Humans
  <1> QED
    BY <1>1, AppliedInvariant, PTL

(***************************************************************************)
(* apply is idempotent: after one that succeeded, the next changes nothing *)
(* at the provider, even if it fails, and in generated-config.json nothing *)
(* but the created and updated flags, provided that it can read it         *)
(* (runApply).                                                             *)
(***************************************************************************)
THEOREM ApplyIsIdempotent == Spec => ReapplyChangesNothing
  <1>1. BootstrapInv /\ Applied /\ [Next]_vars =>
           [status = "apply" /\ cmd # Idle /\ cmd.name = "apply" =>
               /\ idp' = idp
               /\ cmd.unread \/ generated' = [generated EXCEPT !.fresh = generated'.fresh]]_vars
    BY ReapplyStep DEF SameBut
  <1> QED
    BY <1>1, AppliedInvariant, PTL DEF Spec, ReapplyChangesNothing
=============================================================================
