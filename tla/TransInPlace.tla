------------------------------ MODULE TransInPlace ------------------------------
(***************************************************************************)
(* A chain of CTransInPlaceFilters between an upstream filter and a        *)
(* downstream one: how they come to share one allocator.  Link k joins the *)
(* output pin of filter k and the input pin of filter k + 1; filter 0 is   *)
(* the upstream filter, filter Filters + 1 the downstream one.  The graph  *)
(* manager makes one call at a time.                                       *)
(***************************************************************************)
EXTENDS Integers, FiniteSets

CONSTANTS
    Filters,        \* how many filters are in the chain
    Modifies,       \* those with m_bModifiesData
    Upstreams,      \* the filters that may be upstream
    Refuses,        \* the downstream filter may refuse an allocator
    None

TransInPlaceAssumption ==
    /\ Filters \in Nat \ {0} /\ Modifies \subseteq 1 .. Filters
    /\ Upstreams \subseteq Nat /\ Refuses \in BOOLEAN

Links == 0 .. Filters
\* An allocator, named after who made it.
Down == <<"down", 0>>
Up(n) == <<"up", n>>
Own(k) == <<"own", k>>
Temporary(k) == <<"temp", k>>
Allocs == {Down} \cup {Up(n) : n \in Upstreams} \cup {Own(k) : k \in Links} \cup {Temporary(k) : k \in Links}

VARIABLES
    connected,      \* the links that exist
    outAlloc,       \* m_pAllocator of the output pin of each link
    inAlloc,        \* m_pAllocator of its input pin
    readOnly,       \* m_bReadOnly of its input pin
    up,             \* the upstream filter: its allocator, whether it is read-only and how it decides
    offers,         \* the downstream filter has an allocator
    pending         \* links that the graph manager was asked to reconnect

vars == <<connected, outAlloc, inAlloc, readOnly, up, offers, pending>>

Init ==
    /\ connected = {} /\ readOnly = [k \in Links |-> FALSE]
    /\ outAlloc = [k \in Links |-> None] /\ inAlloc = [k \in Links |-> None]
    /\ up = [alloc |-> None, readOnly |-> FALSE, decides |-> "insists"]
    /\ offers = FALSE /\ pending = {}

\* The last link that can be reached from link k, whether or not k exists yet.
End(k) ==
    CHOOSE j \in k .. Filters :
        /\ k + 1 .. j \subseteq connected
        /\ j + 1 \notin connected

-----------------------------------------------------------------------------
\* GetAllocator of the input pin of link k: what the downstream filter offers, or a
\* temporary one of the last filter; every output pin on the way takes it at once.
Temp(s, j) == IF s.inn[j] = None THEN Temporary(j) ELSE s.inn[j]
Offered(s, k) == IF End(k) = Filters THEN IF s.offers THEN Down ELSE None ELSE Temp(s, End(k))
GetAllocator(s, k) ==
    LET a == Offered(s, k) IN
    IF a = None THEN s
    ELSE [s EXCEPT !.out = [j \in Links |-> IF j \in k + 1 .. End(k) THEN a ELSE @[j]],
                   !.inn = IF End(k) = Filters THEN @ ELSE [@ EXCEPT ![End(k)] = a]]

\* NotifyAllocator of the input pin of link k with allocator a: what each link from k on
\* is told.  A filter that modifies read-only data keeps its output's allocator and copies.
Copies(s, prev, f) == prev.readOnly /\ f \in Modifies
ToldFrom(s, k, a, ro) ==
    LET told[j \in k .. End(k)] ==
            IF j = k THEN [alloc |-> a, readOnly |-> ro, clash |-> FALSE]
            ELSE LET prev == told[j - 1] IN
                 IF Copies(s, prev, j)
                 THEN [alloc |-> s.out[j], readOnly |-> FALSE, clash |-> prev.clash \/ s.out[j] = prev.alloc]
                 ELSE prev
    IN told
Accepted(told, k) == ~told[End(k)].clash
NotifyAllocator(s, k, a, ro) ==
    LET told == ToldFrom(s, k, a, ro) IN
    [s EXCEPT !.out = [j \in Links |-> IF j \in k + 1 .. End(k) THEN told[j].alloc ELSE @[j]],
              !.inn = [j \in Links |-> IF j \in k .. End(k) THEN told[j].alloc ELSE @[j]],
              !.ro = [j \in Links |-> IF j \in k .. End(k) THEN told[j].readOnly ELSE @[j]]]

\* One attempt with allocator a; the answer of the downstream filter is ok.
Attempt(s, k, a, ro, ok) ==
    IF a # None /\ Accepted(ToldFrom(s, k, a, ro), k) /\ (End(k) = Filters => ok)
    THEN [NotifyAllocator(s, k, a, ro) EXCEPT !.out[k] = a]
    ELSE s

\* DecideAllocator of an output pin: the one it is offered, or its own; ok1 and ok2 are the
\* downstream filter's answers.  The upstream filter may go its own way.
Failed(s, t, k) == t.out[k] = None
Decide(s, k, ok1, ok2) ==
    LET own == IF k = 0 THEN up'.alloc ELSE Own(k)
        ro == k = 0 /\ up'.readOnly
        asks == k > 0 \/ up'.decides # "insists"
        t == IF asks THEN GetAllocator(s, k) ELSE s
        u == IF asks /\ (k > 0 \/ up'.decides = "takes") THEN Attempt(t, k, Offered(s, k), FALSE, ok1) ELSE t
    IN IF Failed(s, u, k) THEN Attempt(u, k, own, ro, ok2) ELSE u

\* CompleteConnect of the filter before link k: its input is connected again, to the
\* allocator that now is there.
ReconnectInput(k) == {k - 1} \cap connected

State == [out |-> outAlloc, inn |-> inAlloc, ro |-> readOnly, offers |-> offers]

\* The pins of link k let their allocators go.
Broken(s, k) == [s EXCEPT !.out[k] = None, !.inn[k] = None, !.ro[k] = FALSE]
Becomes(s) == outAlloc' = s.out /\ inAlloc' = s.inn /\ readOnly' = s.ro

Finish(s, t, k) ==
    IF Failed(s, t, k)
    THEN /\ Becomes(Broken(t, k))
         /\ connected' = connected \ {k} /\ pending' = pending \ {k}
    ELSE /\ Becomes(t)
         /\ connected' = connected \cup {k} /\ pending' = (pending \ {k}) \cup ReconnectInput(k)

-----------------------------------------------------------------------------
\* The upstream filter connects to the first one.
ConnectUpstream ==
    \E n \in Upstreams, ro, ok1, ok2 \in BOOLEAN, how \in {"insists", "asks", "takes"} :
        /\ 0 \notin connected
        /\ (ok1 /\ ok2) \/ Refuses
        /\ up' = [alloc |-> Up(n), readOnly |-> ro, decides |-> how]
        /\ Finish(State, Decide(State, 0, ok1, ok2), 0)
        /\ UNCHANGED offers

\* An output pin connects to the next filter, or to the downstream one.
Connect ==
    \E k \in Links \ {0}, has, ok1, ok2 \in BOOLEAN :
        LET s == [State EXCEPT !.offers = IF k = Filters THEN has ELSE @] IN
        /\ k \notin connected
        /\ (ok1 /\ ok2) \/ Refuses
        /\ up' = up
        /\ offers' = s.offers
        /\ Finish(s, Decide(s, k, ok1, ok2), k)

\* ReconnectEx: the graph manager parts a link and joins it again.
Reconnect ==
    \E k \in pending, ok1, ok2 \in BOOLEAN :
        LET s == Broken(State, k) IN
        /\ (ok1 /\ ok2) \/ Refuses
        /\ up' = up
        /\ Finish(s, Decide(s, k, ok1, ok2), k)
        /\ UNCHANGED offers

\* Only the pins of the link itself take notice.
Disconnect ==
    \E k \in connected :
        /\ Becomes(Broken(State, k))
        /\ connected' = connected \ {k} /\ pending' = pending \ {k}
        /\ UNCHANGED <<up, offers>>

Next == ConnectUpstream \/ Connect \/ Reconnect \/ Disconnect
Fairness == WF_vars(Reconnect)
Spec == Init /\ [][Next]_vars /\ Fairness

-----------------------------------------------------------------------------
\* Every variable has its type.
TypeOK ==
    /\ connected \subseteq Links /\ pending \subseteq connected
    /\ \A k \in Links : outAlloc[k] \in Allocs \cup {None} /\ inAlloc[k] \in Allocs \cup {None}
    /\ \A k \in Links : (k \in connected) = (outAlloc[k] # None)
    /\ \A k \in Links : (k \in connected) = (inAlloc[k] # None)

\* The two pins of a link use the same allocator, the one that was given its size.
AllocatorAgreed == \A k \in connected : outAlloc[k] = inAlloc[k]

\* The buffers of a read-only allocator are not modified: a filter that modifies data does
\* not send them on.
ReadOnlyIsCopied ==
    (0 \in connected /\ up.readOnly /\ outAlloc[0] = up.alloc) =>
        \A f \in Modifies : (1 .. f \subseteq connected) => outAlloc[f] # up.alloc

\* When the reconnections are over and the upstream filter's buffers may be written to,
\* the whole chain uses one allocator and nobody copies.
NoNeedlessCopy ==
    (pending = {} /\ connected = Links /\ ~up.readOnly) => \A k \in Links : outAlloc[k] = outAlloc[0]

\* Reconnections ask for further ones, but not for ever.
ReconnectsEnd == <>[][~(ConnectUpstream \/ Connect \/ Disconnect)]_vars => <>[](pending = {})

\* What one filter may rest in: "up" and "down" for an allocator from there, "up-ro" for a
\* read-only one, "own" for one of its own.
Kind(a, k) ==
    IF k \notin connected THEN "none"
    ELSE IF a[1] = "up" THEN IF up.readOnly THEN "up-ro" ELSE "up"
    ELSE IF a[1] = "down" THEN "down" ELSE "own"

\* The resting states that the table at transip.cpp:92 lists for one filter.
RestingState ==
    pending = {} =>
        <<Kind(inAlloc[0], 0), Kind(outAlloc[1], 1)>> \in
            {<<"none", "none">>, <<"up", "none">>, <<"up-ro", "none">>, <<"own", "none">>,
             <<"none", "own">>, <<"none", "down">>, <<"own", "own">>, <<"up-ro", "own">>,
             <<"up-ro", "down">>, <<"up", "up">>, <<"down", "down">>}
================================================================================
