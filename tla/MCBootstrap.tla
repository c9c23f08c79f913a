---------------------------- MODULE MCBootstrap -----------------------------
(***************************************************************************)
(* Bootstrap for TLC: two machine users, two human users, and access lists *)
(* that are valid or have one defect each.                                 *)
(***************************************************************************)
EXTENDS Bootstrap

Text(s)  == [s |-> s, pad |-> FALSE]
NoText   == Text("")
NoEmail  == [s |-> "", pad |-> FALSE, upper |-> FALSE, valid |-> FALSE]
NoEnv    == [s |-> "", pad |-> FALSE, valid |-> FALSE]

m1 == "svc-admin"
m2 == "svc-app"
h1 == "ciso"
h2 == "producer"

Machine(name, permissions) ==
    [username |-> name, padded |-> FALSE, type |-> "", permissions |-> permissions,
     givenName |-> NoText, familyName |-> NoText, email |-> NoEmail, passwordEnv |-> NoEnv,
     emailVerified |-> "nil", passwordChangeRequired |-> "nil"]

Human(name, upper) ==
    [username |-> name, padded |-> FALSE, type |-> "human", permissions |-> <<crypto.sign>>,
     givenName |-> Text("g"), familyName |-> Text("f"),
     email |-> [s |-> "a@x", pad |-> FALSE, upper |-> upper, valid |-> TRUE],
     passwordEnv |-> [s |-> "PW", pad |-> FALSE, valid |-> TRUE],
     emailVerified |-> "nil", passwordChangeRequired |-> "nil"]

Demo(u) == [u EXCEPT !.emailVerified = "true"]

Admin == Machine(m1, <<"*">>)
App   == Machine(m2, <<crypto.encrypt, keys.read>>)

URI(scheme, host) == [fault |-> "none", scheme |-> scheme, host |-> host, port |-> "", path |-> "/cb", query |-> ""]

Web(uris, devMode) == [name |-> Text("ui"), redirectURIs |-> uris, postLogoutURIs |-> <<>>,
                       devMode |-> devMode]

Prod == Web(<<URI("https", "ui.example")>>, FALSE)
Dev  == Web(<<URI("http", "localhost"), URI("http", "127.1.2.3")>>, TRUE)

File(users, web) == [version |-> 1, users |-> users, web |-> web]

Valid == {File(<<Admin>>, NoWeb), File(<<Admin, App, Demo(Human(h1, FALSE))>>, Dev)}

Invalid ==
    {File(<<>>, NoWeb),
     [File(<<Admin>>, NoWeb) EXCEPT !.version = 2],
     File(<<Admin, Admin>>, NoWeb),
     File(<<Machine(m2, <<"*", keys.read>>)>>, NoWeb),
     File(<<Machine(m2, <<"citius:keys:raed">>)>>, NoWeb),
     File(<<[App EXCEPT !.type = "robot"]>>, NoWeb),
     File(<<[App EXCEPT !.passwordEnv = [s |-> "PW", pad |-> FALSE, valid |-> TRUE]]>>, NoWeb),
     File(<<Human(h1, FALSE), Human(h2, TRUE)>>, Prod),
     File(<<Demo(Human(h1, FALSE))>>, Prod),
     File(<<[Human(h1, FALSE) EXCEPT !.familyName.pad = TRUE]>>, NoWeb),
     File(<<App>>, Web(<<URI("http", "localhost")>>, FALSE)),
     File(<<App>>, Web(<<URI("http", "ui.example")>>, TRUE)),
     File(<<App>>, Web(<<>>, TRUE)),
     File(<<App>>, Web(<<URI("https", "ui.example"), URI("https", "ui.example")>>, TRUE))}

SomeACLs == Valid \cup Invalid
TwoMachines == {m1, m2}
TwoHumans == {h1, h2}
=============================================================================
