-------------------------------- MODULE EnumPins --------------------------------
(***************************************************************************)
(* CEnumPins: a client goes through a filter's pins, with clones, while    *)
(* the filter adds and removes pins and then counts its pin version up.    *)
(* Nothing locks the enumerator against the filter.                        *)
(***************************************************************************)
EXTENDS Integers, Sequences, FiniteSets

CONSTANTS
    Pins,           \* pins the filter may have
    First,          \* those it begins with, in order
    Enums,          \* enumerators
    NoEnum,
    MaxWant,        \* the most pins a call of Next asks for
    Changes         \* bound: changes of the filter's pins

EnumPinsAssumption ==
    /\ IsFiniteSet(Pins) /\ IsFiniteSet(Enums) /\ NoEnum \notin Enums
    /\ First \in Seq(Pins) /\ \A j, k \in DOMAIN First : j # k => First[j] # First[k]
    /\ MaxWant \in Nat \ {0} /\ Changes \in Nat

VARIABLES
    list,           \* the filter's pins
    version,        \* its pin version
    changed,        \* the pins have changed and the version has not yet
    changes,        \* changes so far
    enum,           \* each enumerator: position, pin count, version, cache
    owner,          \* the enumerators that exist
    call,           \* the call under way: its enumerator, step, pins wanted and fetched
    seen            \* what each enumerator has returned since Reset, in order

filterVars == <<list, version, changed, changes>>
vars == <<filterVars, enum, owner, call, seen>>

InSeq(s) == {s[k] : k \in DOMAIN s}
NoCall == [e |-> NoEnum, at |-> "idle", want |-> 0, fetched |-> <<>>, result |-> "none"]
Blank == [pos |-> 0, count |-> 0, version |-> 0, cache |-> {}]

Init ==
    /\ list = First /\ version = 1 /\ changed = FALSE /\ changes = 0
    /\ enum = [e \in Enums |-> [Blank EXCEPT !.version = 1, !.count = Len(First)]]
    /\ \E e \in Enums : owner = {e}
    /\ call = NoCall /\ seen = [e \in Enums |-> <<>>]

-----------------------------------------------------------------------------
\* The filter: a pin comes or goes, and then IncrementPinVersion.
Change ==
    /\ ~changed /\ changes < Changes
    /\ \/ \E p \in Pins \ InSeq(list) : list' = Append(list, p)
       \/ \E k \in DOMAIN list : list' = SubSeq(list, 1, k - 1) \o SubSeq(list, k + 1, Len(list))
    /\ changed' = TRUE /\ changes' = changes + 1
    /\ UNCHANGED <<version, enum, owner, call, seen>>

IncrementPinVersion ==
    /\ changed
    /\ changed' = FALSE /\ version' = version + 1
    /\ UNCHANGED <<list, changes, enum, owner, call, seen>>

-----------------------------------------------------------------------------
\* Next: in sync, or refreshed; the version is read before the count.
Idle(e) == e \in owner /\ call.at \notin {"version", "count", "pins"}
OutOfSync(e) == enum[e].version # version

Next_(e) ==
    \E n \in 1..MaxWant :
        /\ Idle(e)
        /\ call' = [e |-> e, at |-> IF OutOfSync(e) THEN "version" ELSE "pins",
                    want |-> n, fetched |-> <<>>, result |-> "none"]
        /\ UNCHANGED <<filterVars, enum, owner, seen>>

Reset(e) ==
    /\ Idle(e)
    /\ call' = [NoCall EXCEPT !.e = e, !.at = "version"]
    /\ enum' = [enum EXCEPT ![e].cache = {}]
    /\ seen' = [seen EXCEPT ![e] = <<>>]
    /\ UNCHANGED <<filterVars, owner>>

Version ==
    /\ call.at = "version"
    /\ enum' = [enum EXCEPT ![call.e].version = version]
    /\ call' = [call EXCEPT !.at = "count"]
    /\ UNCHANGED <<filterVars, owner, seen>>

Count ==
    /\ call.at = "count"
    /\ enum' = [enum EXCEPT ![call.e].count = Len(list), ![call.e].pos = 0]
    /\ call' = IF call.want = 0 THEN NoCall ELSE [call EXCEPT !.at = "pins"]
    /\ UNCHANGED <<filterVars, owner, seen>>

\* One turn of the loop: the pin at the position, unless it is in the cache.
NextPin ==
    LET e == call.e
        k == enum[e].pos + 1
        new == list[k] \notin enum[e].cache
    IN
    /\ call.at = "pins" /\ Len(call.fetched) < call.want /\ enum[e].count > enum[e].pos
    /\ IF k > Len(list)
       THEN /\ call' = [call EXCEPT !.at = "done", !.result = "outOfSync"]
            /\ enum' = [enum EXCEPT ![e].pos = k]
            /\ UNCHANGED seen
       ELSE /\ enum' = [enum EXCEPT ![e].pos = k, ![e].cache = @ \cup {list[k]}]
            /\ call' = IF new THEN [call EXCEPT !.fetched = Append(@, list[k])] ELSE call
            /\ seen' = IF new THEN [seen EXCEPT ![e] = Append(@, list[k])] ELSE seen
    /\ UNCHANGED <<filterVars, owner>>

NextReturns ==
    LET e == call.e IN
    /\ call.at = "pins" /\ (Len(call.fetched) = call.want \/ enum[e].count <= enum[e].pos)
    /\ call' = [call EXCEPT !.at = "done", !.result = IF Len(call.fetched) = call.want THEN "ok" ELSE "fewer"]
    /\ UNCHANGED <<filterVars, enum, owner, seen>>

\* Skip never goes past the end.
Skip(e) ==
    \E n \in 1..MaxWant :
        /\ Idle(e) /\ ~OutOfSync(e) /\ n <= enum[e].count - enum[e].pos
        /\ enum' = [enum EXCEPT ![e].pos = @ + n]
        /\ call' = NoCall
        /\ UNCHANGED <<filterVars, owner, seen>>

Clone(e) ==
    \E f \in Enums \ owner :
        /\ Idle(e) /\ ~OutOfSync(e)
        /\ owner' = owner \cup {f}
        /\ enum' = [enum EXCEPT ![f] = enum[e]]
        /\ seen' = [seen EXCEPT ![f] = seen[e]]
        /\ call' = NoCall
        /\ UNCHANGED filterVars

InNext == Version \/ Count \/ NextPin \/ NextReturns

Next ==
    \/ Change \/ IncrementPinVersion \/ InNext
    \/ \E e \in Enums : Next_(e) \/ Reset(e) \/ Skip(e) \/ Clone(e)

Fairness == WF_vars(InNext)
Spec == Init /\ [][Next]_vars /\ Fairness

-----------------------------------------------------------------------------
\* Every variable has its type.
TypeOK ==
    /\ InSeq(list) \subseteq Pins /\ version \in 1..(Changes + 1)
    /\ \A e \in Enums : enum[e].pos \in 0..(Cardinality(Pins) + 1) /\ enum[e].cache \subseteq Pins
    /\ call.e \in Enums \cup {NoEnum} /\ Len(call.fetched) <= call.want

\* "We only want to return this pin, if it is not in our cache": however the
\* filter changes, no enumerator and no clone returns a pin twice before Reset.
ReturnedOnce == \A e \in Enums : \A j, k \in DOMAIN seen[e] : j # k => seen[e][j] # seen[e][k]

\* A Next that returns fewer pins than it was asked for has been through all of
\* them: every pin of the filter has been seen, or skipped, or the version will
\* tell the enumerator to begin again.
EndIsTheEnd ==
    call.at = "done" /\ call.result = "fewer" /\ ~changed /\ ~OutOfSync(call.e) =>
        enum[call.e].pos = Len(list)

\* The assert in Next: when a pin has gone, none of this call's is in the array.
\* "we should really go back and release the iPins"
NoneFetchedWhenOutOfSync == call.result = "outOfSync" => call.fetched = <<>>

\* Next and Reset return.
NextComesBack == (call.at \in {"version", "count", "pins"}) ~> (call.at \in {"idle", "done"})
=============================================================================
