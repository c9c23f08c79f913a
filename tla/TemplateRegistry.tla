-------------------------- MODULE TemplateRegistry --------------------------
(***************************************************************************)
(* The template registry (vault-storage/template) and the discovery        *)
(* handlers that read it (internal/grpc/discovery), as functions of the    *)
(* stored templates and of the storage faults that one call meets.         *)
(*                                                                         *)
(* stored is the sequence of stored templates in ID order.  A fault is     *)
(* [list, lost]: whether listing the IDs fails, and the IDs whose entry    *)
(* cannot be read or decoded.                                              *)
(***************************************************************************)
EXTENDS Algorithms, Lists

NoFault == [list |-> FALSE, lost |-> {}]

\* A scope specification, or none; fips asks for approved templates only.
NoScope == [name |-> "none", fips |-> FALSE]

\* A specification that cannot be parsed.
BadScope == [name |-> "BAD", fips |-> FALSE]

\* A template's scope that this version of the server does not know.
Unreadable == [name |-> "UNREADABLE", fips |-> FALSE]

IDs(stored) == [i \in DOMAIN stored |-> stored[i].id]

\* The entries with these IDs that can be read, in the order of the IDs.
Read(stored, ids, fault) ==
    LET readable == ToSet(IDs(stored)) \ fault.lost
        found == InOrder(ids, {i \in DOMAIN ids : ids[i] \in readable})
    IN [i \in DOMAIN found |-> stored[CHOOSE j \in DOMAIN stored : stored[j].id = found[i]]]

Get(stored, id, fault) ==
    LET entry == Read(stored, <<id>>, fault) IN
    IF entry # <<>> THEN Answer(<<>>, entry[1])
    ELSE Refuse(IF id \in fault.lost THEN "Unknown" ELSE "TemplateNotFound")

List(stored, fault) == IF fault.list THEN <<>> ELSE Read(stored, IDs(stored), fault)

(***************************************************************************)
(* Selection                                                               *)
(***************************************************************************)
\* MatchesScope, of core: a template offers a scope of that name, approved if
\* the specification asks for it.
MatchesScope(t, spec) ==
    spec = NoScope \/ \E s \in t.scopes : s.name = spec.name /\ (spec.fips => s.fips)
ScopeError(t, spec) == spec # NoScope /\ Unreadable \in t.scopes

selectTemplatesWithIDs(stored, ids, spec, fault) ==
    LET read == Read(stored, ids, fault) IN
    Answer(Require(\A i \in DOMAIN read : ~ ScopeError(read[i], spec), "UnreadableScope"),
           InOrder(read, {i \in DOMAIN read : MatchesScope(read[i], spec)}))

\* Mutant: the scope of the only candidate is not looked at.
SelectOnly(stored, spec, cs, fault) ==
    IF cs.restricted /\ Len(cs.ids) = 1 THEN Get(stored, cs.ids[1], fault)
    ELSE LET matching == selectTemplatesWithIDs(stored,
                           IF cs.restricted THEN cs.ids ELSE IDs(stored), spec, fault)
         IN IF ~ Ok(matching) THEN matching
            ELSE IF matching.how = <<>> THEN Refuse("TemplateNotFound")
            ELSE Answer(<<>>, matching.how[1])

\* cs is [restricted, ids]: the candidates, or all that is stored.
Select(stored, spec, cs, fault) ==
    LET matching == selectTemplatesWithIDs(stored,
                      IF cs.restricted THEN cs.ids ELSE IDs(stored), spec, fault)
    IN CASE cs.restricted /\ Len(cs.ids) = 1 /\ spec = NoScope -> Get(stored, cs.ids[1], fault)
         [] OTHER ->
            CASE ~ cs.restricted /\ fault.list -> Refuse("Unknown")
              [] OTHER -> IF ~ Ok(matching) THEN matching
                          ELSE IF matching.how = <<>> THEN Refuse("TemplateNotFound")
                          ELSE Answer(<<>>, matching.how[1])

Unrestricted == [restricted |-> FALSE, ids |-> <<>>]
Only(ids)    == [restricted |-> TRUE, ids |-> ids]

(***************************************************************************)
(* Pages of a listing: the token is the offset of the page's first item,   *)
(* and 0 stands for no token.                                              *)
(***************************************************************************)
Page(items, size, token) ==
    LET end == IF size > 0 /\ size < Len(items) - token THEN token + size ELSE Len(items) IN
    Answer(Require(size >= 0 /\ token <= Len(items), "InvalidArgument"),
           [items |-> SubSeq(items, token + 1, end), next |-> IF end < Len(items) THEN end ELSE 0])

(***************************************************************************)
(* Discovery                                                               *)
(***************************************************************************)
\* Mutant: a scope that cannot be read is passed over.
offeredScopesKnown(templates) ==
    LET readable(t) == {s \in t.scopes : s # Unreadable}
        names == UNION {{s.name : s \in readable(t)} : t \in ToSet(templates)}
    IN Answer(<<>>, [n \in names |-> UNION {t.ops : t \in {u \in ToSet(templates) :
                                              \E s \in readable(u) : s.name = n}}])

\* templateScope's error is part of it.
offeredScopes(templates) ==
    LET names == UNION {{s.name : s \in t.scopes} : t \in ToSet(templates)} IN
    Answer(Require(\A t \in ToSet(templates) : Unreadable \notin t.scopes, "Internal"),
           [n \in names |-> UNION {t.ops : t \in {u \in ToSet(templates) :
                                                    \E s \in u.scopes : s.name = n}}])

ListScopes(stored, fault) == offeredScopes(List(stored, fault))

\* Mutant: the FIPS part of the scope is not asked for.
templateMatchesName(t, passing, spec) == t.id \in passing /\ MatchesScope(t, [spec EXCEPT !.fips = FALSE])

\* passing: the templates that the status and standards filters let through.
templateMatches(t, passing, spec) == t.id \in passing /\ MatchesScope(t, spec)

ListTemplates(stored, passing, spec, fault, size, token) ==
    LET all == List(stored, fault)
        listed == InOrder(all, {i \in DOMAIN all : templateMatches(all[i], passing, spec)})
        page == Page(IDs(listed), size, token)
    IN CASE spec = BadScope -> Refuse("InvalidArgument")
         [] OTHER -> IF \E t \in ToSet(all) : t.id \in passing /\ ScopeError(t, spec)
                     THEN Refuse("UnreadableScope") ELSE page

GetTemplate(stored, id, fault) == IF id = "" THEN Refuse("InvalidArgument") ELSE Get(stored, id, fault)
=============================================================================
