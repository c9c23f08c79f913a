-------------------------- MODULE ProviderRegistry --------------------------
(***************************************************************************)
(* The registered backends and the handlers that describe them             *)
(* (internal/grpc/provider).  A backend is [name, type, algorithms,        *)
(* restricted]; restricted says whether its context admits only the FIPS   *)
(* module.  Registry, Meets and Rank are core's.                           *)
(*                                                                         *)
(* Requirements are [valid, fips, hardware]: whether they can be parsed,   *)
(* the hard requirement of FIPS 140 and the preference for acceleration.   *)
(***************************************************************************)
EXTENDS TemplateRegistry

\* The order of the instance names, which strings do not have here.
NameOrder == <<"openssl", "openssl-fips", "software">>
TypeOrder == <<"openssl", "software">>

AdvertisedBy(b, template) == template \in b.algorithms

ImplementationProperties(b) ==
    [hardware |-> b.type = "openssl", fips |-> b.type = "openssl" /\ b.restricted]

(***************************************************************************)
(* Core                                                                    *)
(***************************************************************************)
Meets(b, required) == required.fips => ImplementationProperties(b).fips

Prefers(b, required) == required.hardware /\ ImplementationProperties(b).hardware

Eligible(b, template, required) == AdvertisedBy(b, template) /\ Meets(b, required)

\* The eligible part of Rank: the preferred ones, then the rest, in
\* registration order.
Ranked(backends, template, required) ==
    LET eligible == {i \in DOMAIN backends : Eligible(backends[i], template, required)}
        preferred(i) == Prefers(backends[i], required)
        before(i, j) == IF preferred(i) <=> preferred(j) THEN i < j ELSE preferred(i)
        rank(i) == Cardinality({j \in eligible : before(j, i)}) + 1
    IN [n \in 1 .. Cardinality(eligible) |-> backends[CHOOSE i \in eligible : rank(i) = n]]

Named(backends, name) == {b \in ToSet(backends) : b.name = name}

(***************************************************************************)
(* Handlers                                                                *)
(***************************************************************************)
registered(backends) ==
    LET present == InOrder(NameOrder, {i \in DOMAIN NameOrder : Named(backends, NameOrder[i]) # {}})
    IN [i \in DOMAIN present |-> CHOOSE b \in Named(backends, present[i]) : TRUE]

instanceInfo(b) == [instance |-> b.name, provider |-> b.type, properties |-> ImplementationProperties(b)]

Infos(backends) == [i \in DOMAIN backends |-> instanceInfo(backends[i])]

ListProviderInstances(backends, type, required, size, token) ==
    LET all == registered(backends)
        matched == InOrder(all, {i \in DOMAIN all : type \in {"", all[i].type} /\ Meets(all[i], required)})
    IN IF required.valid THEN Page(Infos(matched), size, token) ELSE Refuse("InvalidArgument")

GetProviderInstance(backends, name) ==
    CASE name = "" -> Refuse("InvalidArgument")
      [] OTHER -> IF Named(backends, name) = {} THEN Refuse("ProviderNotFound")
                  ELSE Answer(<<>>, instanceInfo(CHOOSE b \in Named(backends, name) : TRUE))

\* Mutant: the matches are listed by name.
MatchProvidersByName(backends, template, required) ==
    Answer(<<>>, Infos(InOrder(registered(backends),
                          {i \in DOMAIN registered(backends) : Eligible(registered(backends)[i], template, required)})))

\* The response is Rank's order up to the first ineligible candidate.
MatchProviders(backends, template, required) ==
    IF template = "" \/ ~ required.valid THEN Refuse("InvalidArgument")
    ELSE Answer(<<>>, Infos(Ranked(backends, template, required)))

instancesByType(backends) ==
    LET all == registered(backends)
    IN [type \in {b.type : b \in ToSet(backends)} |-> InOrder(all, {i \in DOMAIN all : all[i].type = type})]

\* The templates of a provider, each with the instances that serve it.
providerInfo(type, instances) ==
    [provider |-> type,
     servedBy |-> [t \in UNION {b.algorithms : b \in ToSet(instances)} |->
                      {b.name : b \in {c \in ToSet(instances) : AdvertisedBy(c, t)}}]]

\* ListProviders' filter on the instances of one provider.
ListedType(instances, template, required) ==
    \E b \in ToSet(instances) : Meets(b, required) /\ (template = "" \/ AdvertisedBy(b, template))

ListProviders(backends, template, required, size, token) ==
    LET byType == instancesByType(backends)
        listed(type) == type \in DOMAIN byType /\ ListedType(byType[type], template, required)
        types == InOrder(TypeOrder, {i \in DOMAIN TypeOrder : listed(TypeOrder[i])})
    IN IF required.valid
       THEN Page([i \in DOMAIN types |-> providerInfo(types[i], byType[types[i]])], size, token)
       ELSE Refuse("InvalidArgument")

GetProvider(backends, type) ==
    LET byType == instancesByType(backends) IN
    CASE type = "" -> Refuse("InvalidArgument")
      [] OTHER -> IF type \in DOMAIN byType THEN Answer(<<>>, providerInfo(type, byType[type]))
                  ELSE Refuse("ProviderNotFound")
=============================================================================
