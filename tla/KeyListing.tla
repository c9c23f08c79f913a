----------------------------- MODULE KeyListing -----------------------------
(***************************************************************************)
(* ListKeys (internal/grpc/keymanagement/list_keys.go) and its page tokens *)
(* (internal/grpc/paging/paging.go).                                       *)
(*                                                                         *)
(* A client walks through the keys page by page.  A token is an offset     *)
(* into a listing that every call reads, filters and sorts afresh, while   *)
(* other requests create keys, move them between providers and the         *)
(* identity provider changes what the client may read.                     *)
(*                                                                         *)
(* Names are numbers: only their order matters.  What is recorded of a     *)
(* walk beside its request is for the properties: the keys returned and    *)
(* how many, the keys listed when it began, and whether the listing has    *)
(* lost a key or changed since.                                            *)
(***************************************************************************)
EXTENDS Naturals, Integers, FiniteSets

CONSTANTS
    Names,       \* key names, ordered
    Attributes,  \* the attributes a request can filter on
    Values,      \* their values
    Any,         \* the unset filter
    Mutable,     \* the attributes that change after a key is created
    Walkers,     \* clients
    PageSizes,   \* the page sizes they ask for
    None

ASSUME ListingAssumption ==
    /\ Names \subseteq Nat /\ IsFiniteSet(Names)
    /\ PageSizes \subseteq Int
    /\ Mutable \subseteq Attributes
    /\ None \notin Nat \cup [Attributes -> Values]
    /\ Any \notin Values

VARIABLES
    keys,     \* name to attributes, or None
    allowed,  \* the names each client's claims let it read
    walk      \* each client's walk

vars == <<keys, allowed, walk>>

Metadata == [Attributes -> Values]
Filters  == [Attributes -> Values \cup {Any}]

\* listFilterMatches: every filter that is set has the key's value.
Matches(f, md) == \A a \in Attributes : f[a] \in {Any, md[a]}

\* visibleKeys: the keys that match and that authorizeKey lets pass.
Listing(ks, names, f) == {n \in names : ks[n] # None /\ Matches(f, ks[n])}

\* The position of a key in the listing sorted by name.
Rank(L, n) == Cardinality({m \in L : m < n})

\* The keys at positions start to end - 1.
Slice(L, start, end) == {n \in L : start <= Rank(L, n) /\ Rank(L, n) < end}

\* Mutants: the next page starts one too far; a page repeats the last key of
\* the one before; a token at the end of the listing is refused.
WindowSkips(total, size, token) ==
    LET start == IF token = None THEN 0 ELSE token
        end == IF size > 0 /\ size < total - start THEN start + size ELSE total
    IN [ok |-> size >= 0 /\ start <= total, start |-> start, end |-> end,
        next |-> IF end + 1 < total THEN end + 1 ELSE None]

WindowRepeats(total, size, token) ==
    LET start == IF token = None THEN 0 ELSE token
        end == IF size > 0 /\ size < total - start THEN start + size ELSE total
    IN [ok |-> size >= 0 /\ start <= total,
        start |-> IF start > 0 THEN start - 1 ELSE 0, end |-> end,
        next |-> IF end < total THEN end ELSE None]

WindowRefuses(total, size, token) ==
    LET start == IF token = None THEN 0 ELSE token
        end == IF size > 0 /\ size < total - start THEN start + size ELSE total
    IN [ok |-> size >= 0 /\ start + size < total, start |-> start, end |-> end,
        next |-> IF end < total THEN end ELSE None]

\* paging.Window: a size of 0 means every remaining item, and a token is good
\* as long as it does not point past the listing.
Window(total, size, token) ==
    LET start == IF token = None THEN 0 ELSE token
        end == IF size > 0 /\ size < total - start THEN start + size ELSE total
    IN [ok |-> size >= 0 /\ start <= total, start |-> start, end |-> end,
        next |-> IF end < total THEN end ELSE None]

-----------------------------------------------------------------------------

NoFilter == [a \in Attributes |-> Any]

NoWalk == [status |-> "idle", filter |-> NoFilter, size |-> 0, token |-> None, seen |-> {},
           due |-> {}, count |-> 0, left |-> FALSE, changed |-> FALSE]

Init ==
    /\ keys = [n \in Names |-> None]
    /\ allowed \in [Walkers -> SUBSET Names]
    /\ walk = [w \in Walkers |-> NoWalk]

Listed(w) == Listing(keys, allowed[w], walk[w].filter)

\* One ListKeys call of client w, with the request in k.
ListPage(w, k) ==
    LET L == Listing(keys, allowed[w], k.filter)
        win == Window(Cardinality(L), k.size, k.token)
        page == Slice(L, win.start, win.end)
    IN /\ walk' = [walk EXCEPT ![w] =
                     IF win.ok
                     THEN [k EXCEPT !.status = IF win.next = None THEN "done" ELSE "walking",
                                    !.token = win.next, !.seen = k.seen \cup page,
                                    !.count = k.count + Cardinality(page)]
                     ELSE [k EXCEPT !.status = "failed"]]
       /\ UNCHANGED <<keys, allowed>>

\* A call without a token begins a walk.
FirstPage(w, f, s) ==
    /\ walk[w].status # "walking"
    /\ ListPage(w, [NoWalk EXCEPT !.filter = f, !.size = s,
                                  !.due = Listing(keys, allowed[w], f)])

\* The client passes back the token of the last answer.
NextPage(w) == walk[w].status = "walking" /\ ListPage(w, walk[w])

-----------------------------------------------------------------------------
(* What other requests do meanwhile.  DeleteKey is not served.             *)

\* What a change of the keys or of the claims does to the listings walked.
Observe(ks, al) ==
    walk' = [w \in Walkers |->
               LET L == Listed(w)
                   M == Listing(ks, al[w], walk[w].filter)
               IN [walk[w] EXCEPT !.left = @ \/ ~(L \subseteq M), !.changed = @ \/ L # M]]

CreateKey(n, md) ==
    /\ keys[n] = None
    /\ keys' = [keys EXCEPT ![n] = md]
    /\ Observe(keys', allowed)
    /\ UNCHANGED allowed

\* TransformKey and MigrateKey make a new current version, on any provider.
ReplaceVersion(n, a, v) ==
    /\ keys[n] # None /\ a \in Mutable
    /\ keys' = [keys EXCEPT ![n] = [keys[n] EXCEPT ![a] = v]]
    /\ Observe(keys', allowed)
    /\ UNCHANGED allowed

\* The claims of the next call differ.
Regrant(w, names) ==
    /\ allowed' = [allowed EXCEPT ![w] = names]
    /\ Observe(keys, allowed')
    /\ UNCHANGED keys

Next ==
    \/ \E w \in Walkers : \/ NextPage(w)
                          \/ \E f \in Filters, s \in PageSizes : FirstPage(w, f, s)
                          \/ \E names \in SUBSET Names : Regrant(w, names)
    \/ \E n \in Names : \/ \E md \in Metadata : CreateKey(n, md)
                        \/ \E a \in Attributes, v \in Values : ReplaceVersion(n, a, v)

Spec == Init /\ [][Next]_vars

-----------------------------------------------------------------------------
(* Properties.                                                             *)

Walks == [status : {"idle", "walking", "done", "failed"}, filter : Filters, size : Int,
          token : Nat \cup {None}, seen : SUBSET Names, due : SUBSET Names, count : Nat,
          left : BOOLEAN, changed : BOOLEAN]

\* Every variable has its type, and exactly a walk in progress has a token.
TypeOK ==
    /\ keys \in [Names -> Metadata \cup {None}]
    /\ allowed \in [Walkers -> SUBSET Names]
    /\ walk \in [Walkers -> Walks]
    /\ \A w \in Walkers : walk[w].status = "walking" => walk[w].token \in Nat

\* A walk during which no key left the listing returns every key that was
\* listed when it began, however many keys were added before, between and
\* after the pages: offset tokens may repeat a key but skip none.
WalkComplete ==
    \A w \in Walkers :
        walk[w].status = "done" /\ ~walk[w].left => walk[w].due \subseteq walk[w].seen

\* A token the server issued is accepted as long as no key left the listing.
TokenAccepted ==
    \A w \in Walkers :
        walk[w].status = "failed" => walk[w].size < 0 \/ walk[w].left

\* Over a listing that does not change the pages are disjoint and together
\* are the listing.
ExactlyOnce ==
    \A w \in Walkers : ~walk[w].changed =>
        /\ walk[w].count = Cardinality(walk[w].seen)
        /\ walk[w].status = "done" => walk[w].seen = walk[w].due

=============================================================================
