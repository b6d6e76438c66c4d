------------------------------- MODULE AllocSize -------------------------------
(***************************************************************************)
(* How CMemAllocator turns requested properties into one block of memory:  *)
(* the rounding in SetProperties and the checked arithmetic of Alloc, in a *)
(* LONG of Bits bits.                                                      *)
(***************************************************************************)
EXTENDS Integers

CONSTANTS
    Bits,           \* the width of a LONG
    Granularity,    \* the system's allocation granularity, a power of two
    Requests        \* what callers ask for: [buffer, count, align, prefix]

MAXLONG == 2 ^ (Bits - 1) - 1

AllocSizeAssumption ==
    /\ Bits \in Nat \ {0} /\ Granularity \in Nat \ {0}
    /\ \A r \in Requests :
         {r.buffer, r.count, r.align, r.prefix} \subseteq (-MAXLONG - 1)..MAXLONG /\ r.buffer > 0

VARIABLES
    req,            \* the last request
    props,          \* m_lSize, m_lCount, m_lAlignment and m_lPrefix
    block           \* the samples' common size and the block's, <<>> before Alloc

vars == <<req, props, block>>

ToLong(x) == ((x + MAXLONG + 1) % 2 ^ Bits) - MAXLONG - 1

\* C's remainder takes the sign of the dividend.
Magnitude(x) == IF x < 0 THEN -x ELSE x
Rem(x, y) == IF x < 0 THEN -((-x) % Magnitude(y)) ELSE x % Magnitude(y)

NoProps == [size |-> 0, count |-> 0, align |-> 0, prefix |-> 0]
None == <<>>

Init == req \in Requests /\ props = NoProps /\ block = None

-----------------------------------------------------------------------------
\* The check that the alignment is a power of two only writes a log.
BadAlign(a) == a = 0 \/ ((a - 1) \div Granularity) % 2 = 1

Rounded(r) ==
    LET size == ToLong(r.buffer + r.prefix)
        rem == Rem(size, r.align)
    IN ToLong((IF rem # 0 THEN ToLong(size - rem + r.align) ELSE size) - r.prefix)

SetProperties ==
    /\ props = NoProps /\ ~BadAlign(req.align)
    /\ props' = [size |-> Rounded(req), count |-> req.count, align |-> req.align, prefix |-> req.prefix]
    /\ UNCHANGED <<req, block>>

\* CMemAllocator::Alloc; it fails by leaving block as it is.
Aligned(p) ==
    LET size == ToLong(p.size + p.prefix)
        rem == Rem(size, p.align)
    IN IF rem = 0 THEN size ELSE ToLong(size + p.align - rem)

Reasonable(p) ==
    /\ p.count > 0 /\ p.size > 0 /\ p.align > 0
    /\ p.prefix >= 0
    /\ ToLong(p.size + p.prefix) >= p.size
    /\ Aligned(p) >= ToLong(p.size + p.prefix)
    /\ p.count * Aligned(p) <= MAXLONG

Alloc ==
    /\ props # NoProps /\ block = None
    /\ Reasonable(props)
    /\ block' = <<Aligned(props), props.count * Aligned(props)>>
    /\ UNCHANGED <<req, props>>

Next == SetProperties \/ Alloc
Spec == Init /\ [][Next]_vars

-----------------------------------------------------------------------------
\* The properties are LONGs, whatever the program asks for.
TypeOK == \A f \in DOMAIN props : props[f] \in (-MAXLONG - 1)..MAXLONG

\* What Alloc accepts holds what was asked for, however SetProperties rounded or
\* wrapped: each sample has its prefix and at least the requested bytes, and the
\* samples fit the block.
BlockHoldsRequest ==
    block # None =>
        /\ props.size >= req.buffer
        /\ block[1] >= req.prefix + props.size
        /\ block[1] * req.count <= block[2] /\ block[2] \in 0..MAXLONG

PowersOfTwo == {2 ^ i : i \in 0..(Bits - 1)}
SampleStarts == {Granularity + i * block[1] : i \in 0..(props.count - 1)}

\* With an alignment that is a power of two, every sample begins at a multiple of
\* it; the block itself begins at a multiple of the granularity.
StartsAreAligned ==
    block # None /\ props.align \in PowersOfTwo => \A a \in SampleStarts : a % props.align = 0

\* "making sure it's properly aligned (64K should be enough!)": for any alignment.
ProperlyAligned == block # None => \A a \in SampleStarts : a % props.align = 0
=============================================================================
