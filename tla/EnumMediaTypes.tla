----------------------------- MODULE EnumMediaTypes -----------------------------
(***************************************************************************)
(* CEnumMediaTypes: a client goes through a pin's media types, with clones, *)
(* while the pin replaces its list of types and then counts its media type *)
(* version up.  Nothing locks the enumerator against the pin, which is     *)
(* asked for one type at a time.                                           *)
(***************************************************************************)
EXTENDS Integers, Sequences

CONSTANTS
    Offers,         \* the lists of types the pin may offer
    Enums,          \* enumerators
    NoEnum,
    MaxWant,        \* the most types a call asks for, or skips
    Changes,        \* bound: changes of the pin's types
    MaxPosition,    \* bound: positions an enumerator goes through
    MemoryFails     \* whether CoTaskMemAlloc may fail

EnumMediaTypesAssumption ==
    /\ \A o \in Offers : o \in Seq({o[i] : i \in DOMAIN o}) /\ Len(o) < MaxPosition
    /\ NoEnum \notin Enums /\ MaxWant \in Nat \ {0} /\ Changes \in Nat
    /\ MaxPosition \in Nat /\ MemoryFails \in BOOLEAN

VARIABLES
    offer,          \* what the pin offers now
    version,        \* its media type version
    replaced,       \* the types have been replaced and the version does not say so yet
    enum,           \* each enumerator's position and version
    owner,          \* the enumerators that exist
    call,           \* the Next under way: its enumerator and the types still wanted
    seen            \* of each enumerator, what it has had at every position since Reset

vars == <<offer, version, replaced, enum, owner, call, seen>>

NoCall == [e |-> NoEnum, want |-> 0]
Missed == {"skipped", "lost"}   \* positions passed without a type

Init ==
    /\ offer \in Offers /\ version = 0 /\ replaced = FALSE
    /\ enum = [e \in Enums |-> [pos |-> 0, version |-> 0]]
    /\ \E e \in Enums : owner = {e}
    /\ call = NoCall /\ seen = [e \in Enums |-> <<>>]

-----------------------------------------------------------------------------
\* The pin: its types are replaced, and then IncrementTypeVersion.
Replace ==
    /\ ~replaced /\ version < Changes
    /\ offer' \in Offers \ {offer} /\ replaced' = TRUE
    /\ UNCHANGED <<version, enum, owner, call, seen>>

IncrementTypeVersion ==
    /\ replaced
    /\ replaced' = FALSE /\ version' = version + 1
    /\ UNCHANGED <<offer, enum, owner, call, seen>>

-----------------------------------------------------------------------------
\* The client makes one call at a time.
OutOfSync(e) == enum[e].version # version
Idle(e) == e \in owner /\ call = NoCall

\* Past a position: k of them, all without a type, or one with the type t.
Pass(e, k, what) ==
    /\ enum' = [enum EXCEPT ![e].pos = @ + k]
    /\ seen' = [seen EXCEPT ![e] = @ \o [i \in 1..k |-> what]]

\* Next looks at the version once, before its loop.
Next_(e) ==
    \E n \in 1..MaxWant :
        /\ Idle(e) /\ ~OutOfSync(e)
        /\ call' = [e |-> e, want |-> n]
        /\ UNCHANGED <<offer, version, replaced, enum, owner, seen>>

\* One turn of the loop: the position is counted up also when the pin has no
\* such type, or there is no memory for it, and the call returns.
NextType ==
    LET e == call.e
        k == enum[e].pos + 1
    IN
    /\ call.want > 0 /\ k <= MaxPosition
    /\ \/ /\ k <= Len(offer)
          /\ Pass(e, 1, offer[k])
          /\ call' = IF call.want = 1 THEN NoCall ELSE [call EXCEPT !.want = @ - 1]
       \/ /\ k > Len(offer) \/ MemoryFails
          /\ Pass(e, 1, "lost")
          /\ call' = NoCall
    /\ UNCHANGED <<offer, version, replaced, owner>>

\* Skip may go past the end, and says so afterwards.
Skip(e) ==
    \E n \in 1..MaxWant :
        /\ Idle(e) /\ ~OutOfSync(e) /\ enum[e].pos + n <= MaxPosition
        /\ Pass(e, n, "skipped")
        /\ UNCHANGED <<offer, version, replaced, owner, call>>

\* A slip: the version is taken without going back to the beginning.
Reset_KeepsPosition(e) ==
    /\ Idle(e)
    /\ enum' = [enum EXCEPT ![e].version = version]
    /\ UNCHANGED <<offer, version, replaced, owner, call, seen>>
Reset(e) ==
    /\ Idle(e)
    /\ enum' = [enum EXCEPT ![e] = [pos |-> 0, version |-> version]]
    /\ seen' = [seen EXCEPT ![e] = <<>>]
    /\ UNCHANGED <<offer, version, replaced, owner, call>>

Clone(e) ==
    \E f \in Enums \ owner :
        /\ Idle(e) /\ ~OutOfSync(e)
        /\ owner' = owner \cup {f}
        /\ enum' = [enum EXCEPT ![f] = enum[e]]
        /\ seen' = [seen EXCEPT ![f] = seen[e]]
        /\ UNCHANGED <<offer, version, replaced, call>>

Next ==
    \/ Replace \/ IncrementTypeVersion \/ NextType
    \/ \E e \in Enums : Next_(e) \/ Skip(e) \/ Reset(e) \/ Clone(e)

Spec == Init /\ [][Next]_vars

-----------------------------------------------------------------------------
\* Every variable has its type.
TypeOK ==
    /\ offer \in Offers /\ version \in 0..Changes /\ owner \subseteq Enums
    /\ \A e \in Enums : enum[e].version \in 0..version /\ enum[e].pos \in 0..MaxPosition
    /\ call.e \in Enums \cup {NoEnum} /\ call.want \in 0..MaxWant

\* An enumerator, or clone, in step with its pin has gone through the pin's list
\* in order from its beginning: no type of a list the pin has replaced stands
\* among what it returned, although Next looks at the version only once.
InOrder ==
    ~replaced => \A e \in owner : ~OutOfSync(e) =>
        \A k \in DOMAIN seen[e] :
            seen[e][k] \in Missed \/ (k <= Len(offer) /\ seen[e][k] = offer[k])
=============================================================================
