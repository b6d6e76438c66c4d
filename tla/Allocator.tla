------------------------------- MODULE Allocator -------------------------------
(***************************************************************************)
(* CBaseAllocator and CMemAllocator with their media samples.  The owner   *)
(* sets the number of buffers, commits, decommits and at last releases the *)
(* allocator; users take buffers, share them and release them.  A sample   *)
(* keeps the allocator alive through the one reference that the allocator  *)
(* has on itself from Commit to the end of Decommit.                       *)
(***************************************************************************)
EXTENDS Integers, FiniteSets, FiniteSetTheorems, TLAPS

CONSTANTS
    Users,          \* threads that use buffers
    MaxCount,       \* bound: the most buffers the owner asks for
    NoWait,         \* users may call GetBuffer with AM_GBF_NOWAIT
    AllocMayFail,   \* the system may have no memory for all samples
    MaxCommits,     \* bound: calls of Commit and SetProperties
    MaxWaiting      \* bound: counts left behind by those who would not wait

AllocatorAssumption ==
    /\ IsFiniteSet(Users) /\ {NoWait, AllocMayFail} \subseteq BOOLEAN
    /\ {MaxCount, MaxCommits, MaxWaiting} \subseteq Nat

VARIABLES
    count,          \* m_lCount, 0 before SetProperties
    changed,        \* m_bChanged
    allocated,      \* m_lAllocated; the samples are 1..allocated
    free,           \* m_lFree
    committed,      \* m_bCommitted
    decommitting,   \* m_bDecommitInProgress
    waiting,        \* m_lWaiting
    sem,            \* the count of m_hSem
    cRef,           \* m_cRef of each sample
    refs,           \* the allocator's reference count
    owner,          \* "owns", "decommitted" (Decommit has yet to release), "gone"
    pc,             \* the statement each user has reached
    hold,           \* the sample each user has, 0 for none
    commits         \* calls of Commit and SetProperties so far

propVars == <<count, changed, allocated>>
semVars == <<waiting, sem>>
stateVars == <<committed, decommitting>>
vars == <<propVars, semVars, stateVars, free, cRef, refs, owner, pc, hold, commits>>

Goto(u, l) == pc' = [pc EXCEPT ![u] = l]

Init ==
    /\ count = 0 /\ changed = FALSE /\ allocated = 0 /\ free = {}
    /\ committed = FALSE /\ decommitting = FALSE
    /\ waiting = 0 /\ sem = 0
    /\ cRef = [s \in 1..MaxCount |-> 0]
    /\ refs = 1 /\ owner = "owns"
    /\ pc = [u \in Users |-> "idle"] /\ hold = [u \in Users |-> 0]
    /\ commits = 0

-----------------------------------------------------------------------------
\* Helpers that need the lock.

NotifySample ==
    /\ sem' = sem + waiting
    /\ waiting' = 0

\* CMemAllocator::Alloc.  Unless the requirements have changed the samples stay;
\* otherwise the old ones go and as many new ones come as there is memory for.
Alloc(n) == allocated' = n /\ free' = 1..n

-----------------------------------------------------------------------------
\* The owner.

SetProperties ==
    \E n \in 1..MaxCount :
        /\ owner = "owns" /\ commits < MaxCommits /\ commits' = commits + 1
        /\ ~committed
        /\ Cardinality(free) = allocated
        /\ count' = n /\ changed' = TRUE
        /\ UNCHANGED <<allocated, free, semVars, stateVars, cRef, refs, owner, pc, hold>>

\* A commit during a decommit cancels it.
Commit ==
    /\ owner = "owns" /\ ~committed /\ count > 0
    /\ commits < MaxCommits /\ commits' = commits + 1
    /\ \/ /\ decommitting
          /\ committed' = TRUE /\ decommitting' = FALSE
          /\ UNCHANGED <<allocated, free, changed, refs>>
       \/ /\ ~decommitting
          /\ IF changed THEN Alloc(count) ELSE UNCHANGED <<allocated, free>>
          /\ committed' = TRUE /\ changed' = FALSE
          /\ refs' = refs + 1
          /\ UNCHANGED decommitting
       \/ /\ ~decommitting /\ changed /\ AllocMayFail
          /\ \E n \in 0..(count - 1) : Alloc(n)
          /\ UNCHANGED <<stateVars, changed, refs>>
    /\ UNCHANGED <<count, semVars, cRef, owner, pc, hold>>

\* With buffers outstanding the last ReleaseBuffer will complete it.
Decommit ==
    /\ owner = "owns" /\ committed
    /\ committed' = FALSE
    /\ decommitting' = (Cardinality(free) < allocated)
    /\ NotifySample
    /\ owner' = IF decommitting' THEN owner ELSE "decommitted"
    /\ UNCHANGED <<propVars, free, cRef, refs, pc, hold, commits>>

\* Decommit's Release, after the lock.
DecommitRelease ==
    /\ owner = "decommitted"
    /\ refs' = refs - 1
    /\ owner' = "owns"
    /\ UNCHANGED <<propVars, semVars, stateVars, free, cRef, pc, hold, commits>>

\* The owner lets the allocator go when it is decommitted and nobody is in
\* GetBuffer; those who hold samples do not have to know the allocator.
OwnerRelease ==
    /\ owner = "owns" /\ ~committed
    /\ \A u \in Users : pc[u] \notin {"wait", "get"}
    /\ refs' = refs - 1
    /\ owner' = "gone"
    /\ UNCHANGED <<propVars, semVars, stateVars, free, cRef, pc, hold, commits>>

-----------------------------------------------------------------------------
\* GetBuffer.

GetBuffer(u) ==
    /\ pc[u] = "idle" /\ owner = "owns"
    /\ Goto(u, "get")
    /\ UNCHANGED <<propVars, semVars, stateVars, free, cRef, refs, owner, hold, commits>>

\* One turn of its loop, under the lock.
TryBuffer(u) ==
    /\ pc[u] = "get"
    /\ \/ ~committed /\ Goto(u, "idle") /\ UNCHANGED <<waiting, free, cRef, hold>>
       \/ committed /\ \E s \in free :
            /\ free' = free \ {s}
            /\ cRef' = [cRef EXCEPT ![s] = 1]
            /\ hold' = [hold EXCEPT ![u] = s]
            /\ Goto(u, "hold")
            /\ UNCHANGED waiting
       \/ /\ committed /\ free = {}
          /\ waiting' = waiting + 1
          /\ Goto(u, "wait")
          /\ UNCHANGED <<free, cRef, hold>>
       \/ /\ committed /\ free = {} /\ NoWait /\ waiting + sem < MaxWaiting
          /\ waiting' = waiting + 1
          /\ Goto(u, "idle")
          /\ UNCHANGED <<free, cRef, hold>>
    /\ UNCHANGED <<propVars, sem, stateVars, refs, owner, commits>>

Wait(u) ==
    /\ pc[u] = "wait" /\ sem > 0
    /\ sem' = sem - 1
    /\ Goto(u, "get")
    /\ UNCHANGED <<propVars, waiting, stateVars, free, cRef, refs, owner, hold, commits>>

-----------------------------------------------------------------------------
\* The user that filled its sample gives another one a reference to it.
Share(u) ==
    \E v \in Users \ {u} :
        /\ pc[u] = "hold" /\ pc[v] = "idle"
        /\ cRef' = [cRef EXCEPT ![hold[u]] = @ + 1]
        /\ hold' = [hold EXCEPT ![v] = hold[u]]
        /\ Goto(v, "borrow")
        /\ UNCHANGED <<propVars, semVars, stateVars, free, refs, owner, commits>>

\* CMediaSample::Release: the count is read first, and a sole reference is
\* given up without an interlocked decrement.
ReleaseSample(u) ==
    /\ pc[u] \in {"hold", "borrow"}
    /\ Goto(u, IF cRef[hold[u]] = 1 THEN "last" ELSE "decrement")
    /\ UNCHANGED <<propVars, semVars, stateVars, free, cRef, refs, owner, hold, commits>>

ReleaseLast(u) ==
    /\ pc[u] = "last"
    /\ cRef' = [cRef EXCEPT ![hold[u]] = 0]
    /\ Goto(u, "release")
    /\ UNCHANGED <<propVars, semVars, stateVars, free, refs, owner, hold, commits>>

\* A slip: only the sole reference of ReleaseSample gives the sample back. Two
\* users that release it at once both see the other's reference there, and neither
\* looks at what the interlocked decrement returned.
Decrement_Forgets(u) ==
    /\ pc[u] = "decrement"
    /\ cRef' = [cRef EXCEPT ![hold[u]] = @ - 1]
    /\ hold' = [hold EXCEPT ![u] = 0]
    /\ Goto(u, "idle")
    /\ UNCHANGED <<propVars, semVars, stateVars, free, refs, owner, commits>>

Decrement(u) ==
    /\ pc[u] = "decrement"
    /\ cRef' = [cRef EXCEPT ![hold[u]] = @ - 1]
    /\ IF cRef[hold[u]] = 1 THEN Goto(u, "release") /\ UNCHANGED hold
       ELSE Goto(u, "idle") /\ hold' = [hold EXCEPT ![u] = 0]
    /\ UNCHANGED <<propVars, semVars, stateVars, free, refs, owner, commits>>

\* ReleaseBuffer under the lock; the last one completes a decommit.
ReleaseBuffer(u) ==
    /\ pc[u] = "release"
    /\ free' = free \cup {hold[u]}
    /\ hold' = [hold EXCEPT ![u] = 0]
    /\ NotifySample
    /\ LET completes == decommitting /\ Cardinality(free') = allocated IN
         /\ decommitting' = (decommitting /\ ~completes)
         /\ Goto(u, IF completes THEN "notifyLast" ELSE "notify")
    /\ UNCHANGED <<propVars, committed, cRef, refs, owner, commits>>

\* It reads m_pNotify after the lock, and then releases the allocator.
NotifyRelease(u) ==
    /\ pc[u] \in {"notify", "notifyLast"}
    /\ refs' = IF pc[u] = "notifyLast" THEN refs - 1 ELSE refs
    /\ Goto(u, "idle")
    /\ UNCHANGED <<propVars, semVars, stateVars, free, cRef, owner, hold, commits>>

InGetBuffer(u) == TryBuffer(u) \/ Wait(u)
InRelease(u) == ReleaseLast(u) \/ Decrement(u) \/ ReleaseBuffer(u) \/ NotifyRelease(u)

Next ==
    \/ SetProperties \/ Commit \/ Decommit \/ DecommitRelease \/ OwnerRelease
    \/ \E u \in Users : GetBuffer(u) \/ InGetBuffer(u) \/ Share(u) \/ ReleaseSample(u) \/ InRelease(u)

\* Calls go on, and samples are released in the end.
Fairness ==
    /\ WF_vars(DecommitRelease)
    /\ \A u \in Users : WF_vars(InGetBuffer(u)) /\ WF_vars(ReleaseSample(u)) /\ WF_vars(InRelease(u))
Spec == Init /\ [][Next]_vars /\ Fairness

-----------------------------------------------------------------------------
Outstanding == {s \in 1..allocated : s \notin free}
Blocked == {u \in Users : pc[u] = "wait"}

\* Every variable has its type; no more samples exist than were agreed, until
\* SetProperties agrees on fewer; and a decommit is over when Commit comes.
TypeOK ==
    /\ free \subseteq 1..allocated
    /\ allocated <= count \/ count = 0 \/ changed
    /\ refs \in 0..(2 + Cardinality(Users)) /\ waiting \in Nat /\ sem \in Nat
    /\ committed => ~decommitting

\* A sample that is not free is on its way to one user or to several, as many
\* as its count says, and a free one has no user.
SamplesAreCounted ==
    \A s \in 1..allocated :
        LET users == {u \in Users : hold[u] = s} IN
        IF s \in free THEN users = {} /\ cRef[s] = 0
        ELSE /\ users # {}
             /\ cRef[s] = Cardinality({u \in users : pc[u] # "release"})

\* amfilter.h's argument that no wakeup is lost: with a free sample, or without
\* a commit, nobody is counted as waiting, and everybody who waits is counted
\* or has the semaphore's count to go on with.
NoLostWakeup ==
    /\ free # {} \/ ~committed => waiting = 0
    /\ waiting + sem >= Cardinality(Blocked)

\* The same comment claims equality: "m_lWaiting + Semaphore count == nWaiting".
WaitingIsCounted == waiting + sem = Cardinality(Blocked)

\* "He cannot allow SetProperties between Decommit and the last free": samples
\* in use are never of another size and number than the allocator's.
SettledWhileInUse == Outstanding # {} => ~changed

\* The allocator has its own reference exactly from Commit to the end of the
\* decommit; nobody's release is lost or made twice.
OneOwnReference ==
    refs = (IF owner # "gone" THEN 1 ELSE 0)
         + (IF committed \/ decommitting THEN 1 ELSE 0)
         + (IF owner = "decommitted" THEN 1 ELSE 0)
         + Cardinality({u \in Users : pc[u] = "notifyLast"})

\* A sample in use keeps the allocator alive.
AliveWhileInUse == Outstanding # {} => refs > 0

\* "For each buffer there is one AddRef, made in GetBuffer and released here":
\* whoever is inside ReleaseBuffer has a reference to go by.
AliveInRelease == \A u \in Users : pc[u] = "notify" => refs > 0

\* Nobody waits in GetBuffer for ever once the allocator stays decommitted.
DecommitWakes == \A u \in Users : <>[](~committed) => []<>(pc[u] # "wait")

\* A decommit is completed, or cancelled by a commit.
DecommitCompletes == decommitting ~> ~decommitting
-----------------------------------------------------------------------------
\* Proofs, for any users, numbers of buffers and failing allocations.

\* Where a user has a sample, and who has one.
Holding == {"hold", "borrow", "last", "decrement", "release"}
Places == Holding \cup {"idle", "get", "wait", "notify", "notifyLast"}
Holders(s) == {u \in Users : hold[u] = s}
Counted(s) == {u \in Users : hold[u] = s /\ pc[u] # "release"}
Releasing == {u \in Users : pc[u] = "notifyLast"}

Typed ==
    /\ count \in 0..MaxCount /\ allocated \in 0..MaxCount /\ free \subseteq 1..allocated
    /\ changed \in BOOLEAN /\ committed \in BOOLEAN /\ decommitting \in BOOLEAN
    /\ waiting \in Nat /\ sem \in Nat /\ refs \in Int
    /\ cRef \in [1..MaxCount -> Int] /\ hold \in [Users -> 0..MaxCount]
    /\ pc \in [Users -> Places] /\ owner \in {"owns", "decommitted", "gone"}

\* The state of a commit and a decommit: with samples in use one of them is
\* under way, and then the owner has not let the allocator go.
CommitInv ==
    /\ committed => ~decommitting /\ owner = "owns"
    /\ decommitting => free # 1..allocated
    /\ free # 1..allocated => committed \/ decommitting
    /\ changed => free = 1..allocated /\ ~committed

\* Who has which sample: users at the end of the last release have one alone,
\* and those before it are as many as the sample's count says.
SampleInv ==
    /\ \A u \in Users : IF pc[u] \in Holding THEN hold[u] \in (1..allocated) \ free
                                              ELSE hold[u] = 0
    /\ \A s \in 1..MaxCount : cRef[s] = Cardinality(Counted(s))
    /\ \A s \in (1..allocated) \ free : Holders(s) # {}
    /\ \A u, v \in Users : pc[u] = "release" /\ hold[v] = hold[u] => v = u
    /\ \A u \in Users : pc[u] = "last" => cRef[hold[u]] = 1

\* Every reference has its holder.
RefInv ==
    refs = (IF owner # "gone" THEN 1 ELSE 0)
         + (IF committed \/ decommitting THEN 1 ELSE 0)
         + (IF owner = "decommitted" THEN 1 ELSE 0)
         + Cardinality(Releasing)

\* With NoLostWakeup, which is inductive as it stands.
AllocInv == Typed /\ CommitInv /\ SampleInv /\ RefInv /\ NoLostWakeup

\* What the theorems take for granted of the users and the bound.
LEMMA Constants ==
    AllocatorAssumption => IsFiniteSet(Users) /\ MaxCount \in Nat
BY DEF AllocatorAssumption

\* The number of some of the users is a natural number, 0 for none of them.
LEMMA UsersCount ==
    ASSUME IsFiniteSet(Users), NEW S \in SUBSET Users
    PROVE  /\ IsFiniteSet(S) /\ Cardinality(S) \in Nat
           /\ Cardinality(S) = 0 <=> S = {}
<1>1. IsFiniteSet(S)
    BY FS_Subset
<1> QED
    BY <1>1, FS_CardinalityType, FS_EmptySet

\* One more user.
LEMMA Joins ==
    ASSUME IsFiniteSet(Users), NEW S \in SUBSET Users, NEW T, NEW u, u \notin S, T = S \cup {u}
    PROVE  Cardinality(T) = Cardinality(S) + 1
BY UsersCount, FS_AddElement

\* One user less.
LEMMA Leaves ==
    ASSUME IsFiniteSet(Users), NEW S \in SUBSET Users, NEW T, NEW u \in S, T = S \ {u}
    PROVE  Cardinality(T) = Cardinality(S) - 1
BY UsersCount, FS_RemoveElement

\* A count of one leaves room for one user.
LEMMA Alone ==
    ASSUME IsFiniteSet(Users), NEW S \in SUBSET Users, Cardinality(S) = 1,
           NEW u \in S, NEW v \in S
    PROVE  u = v
<1>1. PICK x : S = {x}
    BY UsersCount, FS_Singleton
<1> QED
    BY <1>1

\* All samples are free when as many are free as there are.
LEMMA AllFree ==
    ASSUME NEW n \in Nat, NEW F \in SUBSET (1..n)
    PROVE  /\ Cardinality(F) = n <=> F = 1..n
           /\ Cardinality(F) < n <=> F # 1..n
<1>1. IsFiniteSet(1..n) /\ Cardinality(1..n) = n
    BY FS_Interval
<1>2. IsFiniteSet(F) /\ Cardinality(F) <= n /\ (Cardinality(F) = n => F = 1..n)
    BY <1>1, FS_Subset
<1>3. Cardinality(F) \in Nat
    BY <1>2, FS_CardinalityType
<1> QED
    BY <1>1, <1>2, <1>3

\* Nothing is claimed of samples that a step leaves alone.
LEMMA SampleFrame == SampleInv /\ UNCHANGED <<allocated, free, cRef, pc, hold>> => SampleInv'
BY DEF SampleInv, Counted, Holders

\* Users who wait, and users who have a reference to release.
LEMMA WaitingFrame == UNCHANGED pc => Blocked' = Blocked /\ Releasing' = Releasing
BY DEF Blocked, Releasing

\* How many users wait, and how many have a reference to release.
LEMMA Numbers ==
    ASSUME AllocatorAssumption
    PROVE  Cardinality(Blocked) \in Nat /\ Cardinality(Releasing) \in Nat
BY Constants, UsersCount DEF Blocked, Releasing

\* A new allocator has no samples, one reference and nobody waiting.
LEMMA InitInv == AllocatorAssumption /\ Init => AllocInv
<1> SUFFICES ASSUME AllocatorAssumption, Init PROVE AllocInv
    OBVIOUS
<1>1. Typed /\ CommitInv
  <2>1. free = 1..allocated /\ free \subseteq 1..allocated
      BY DEF Init
  <2>2. cRef \in [1..MaxCount -> Int] /\ hold \in [Users -> 0..MaxCount] /\ pc \in [Users -> Places]
      BY Constants DEF Init, Places
  <2>3. CommitInv
      BY <2>1 DEF Init, CommitInv
  <2>4. /\ count \in 0..MaxCount /\ allocated \in 0..MaxCount
        /\ waiting \in Nat /\ sem \in Nat /\ refs \in Int
      BY Constants DEF Init
  <2>5. Typed
      BY <2>1, <2>2, <2>4 DEF Init, Typed
  <2> QED
      BY <2>3, <2>5
<1>2. SampleInv
  <2>1. \A s \in 1..MaxCount : Counted(s) = {}
      BY DEF Init, Counted
  <2>2. \A u \in Users : pc[u] = "idle" /\ hold[u] = 0
      BY DEF Init
  <2>3. (1..allocated) \ free = {}
      BY DEF Init
  <2> QED
      BY <2>1, <2>2, <2>3, FS_EmptySet DEF Init, SampleInv, Holding
<1>3. Releasing = {} /\ Blocked = {}
    BY DEF Init, Releasing, Blocked
<1>4. RefInv /\ NoLostWakeup
    BY <1>3, FS_EmptySet DEF Init, RefInv, NoLostWakeup
<1> QED
    BY <1>1, <1>2, <1>4 DEF AllocInv

-----------------------------------------------------------------------------
\* The owner's steps.

\* SetProperties finds every sample free.
LEMMA SetPropertiesInv == AllocatorAssumption /\ AllocInv /\ SetProperties => AllocInv'
<1> SUFFICES ASSUME AllocatorAssumption, AllocInv, SetProperties PROVE AllocInv'
    OBVIOUS
<1>1. free = 1..allocated
    BY AllFree DEF AllocInv, Typed, SetProperties
<1>2. Typed' /\ CommitInv'
    BY <1>1 DEF AllocInv, Typed, CommitInv, SetProperties, semVars, stateVars
<1>3. SampleInv'
    BY SampleFrame DEF AllocInv, SetProperties
<1>4. RefInv' /\ NoLostWakeup'
    BY WaitingFrame DEF AllocInv, RefInv, NoLostWakeup, SetProperties, semVars, stateVars
<1> QED
    BY <1>2, <1>3, <1>4 DEF AllocInv

\* A commit that makes new samples finds all the old ones free.
LEMMA CommitSamples ==
    ASSUME AllocatorAssumption, AllocInv, NEW n \in 0..MaxCount, ~committed, ~decommitting,
           Alloc(n), UNCHANGED <<cRef, pc, hold>>
    PROVE  SampleInv'
<1>1. free = 1..allocated /\ free' = 1..n /\ allocated' = n
    BY DEF AllocInv, CommitInv, Alloc
<1>2. \A u \in Users : pc[u] \notin Holding /\ hold[u] = 0
    BY <1>1 DEF AllocInv, SampleInv
<1>3. \A s \in 1..MaxCount : Counted(s)' = Counted(s)
    BY DEF Counted
<1> QED
    BY <1>1, <1>2, <1>3 DEF AllocInv, SampleInv, Holding

\* Commit makes the samples anew, or goes on with those of an unfinished decommit.
LEMMA CommitStepInv == AllocatorAssumption /\ AllocInv /\ Commit => AllocInv'
<1> SUFFICES ASSUME AllocatorAssumption, AllocInv, Commit PROVE AllocInv'
    OBVIOUS
<1>0. count \in 0..MaxCount /\ MaxCount \in Nat
    BY Constants DEF AllocInv, Typed
<1>1. Blocked' = Blocked /\ Releasing' = Releasing
    BY WaitingFrame DEF Commit
<1>2. UNCHANGED semVars /\ waiting = 0
    BY DEF Commit, AllocInv, NoLostWakeup
<1>3. NoLostWakeup'
    BY <1>1, <1>2 DEF AllocInv, NoLostWakeup, semVars
<1>4. CASE decommitting
  <2>1. UNCHANGED <<count, changed, allocated, free, waiting, sem, cRef, refs, owner, pc, hold>>
      BY <1>4 DEF Commit, semVars, AllocInv, Typed, stateVars
  <2>2. owner = "owns" /\ ~committed /\ committed' = TRUE /\ decommitting' = FALSE
      BY <1>4 DEF Commit, AllocInv, Typed, stateVars
  <2>3. Typed'
      BY <2>1, <2>2 DEF AllocInv, Typed
  <2>4. CommitInv'
      BY <2>1, <2>2, <1>4 DEF AllocInv, CommitInv
  <2>5. RefInv'
      BY <1>1, <1>4, <2>1, <2>2 DEF AllocInv, RefInv
  <2>6. SampleInv'
      BY <2>1, SampleFrame DEF AllocInv
  <2> QED
      BY <1>3, <2>3, <2>4, <2>5, <2>6 DEF AllocInv
<1>5. CASE ~decommitting
  <2>1. free = 1..allocated /\ ~committed
      BY <1>5 DEF AllocInv, CommitInv, Commit
  <2>2. free' = 1..allocated' /\ allocated' \in 0..MaxCount
      BY <1>0, <1>5, <2>1 DEF Commit, Alloc, AllocInv, Typed
  <2>3. UNCHANGED <<count, cRef, owner, pc, hold, decommitting>>
      BY <1>5 DEF Commit, stateVars
  <2>4. \/ committed' = TRUE /\ changed' = FALSE /\ refs' = refs + 1
        \/ UNCHANGED <<committed, changed, refs>>
      BY <1>5 DEF Commit, stateVars
  <2>5. Typed'
    <3>1. free' \subseteq 1..allocated' /\ refs' \in Int
        BY <2>2, <2>4 DEF AllocInv, Typed
    <3>2. UNCHANGED <<waiting, sem, count, cRef, hold, pc, owner, decommitting>>
        BY <1>2, <2>3 DEF semVars
    <3>3. committed' \in BOOLEAN /\ changed' \in BOOLEAN
        BY <2>4 DEF AllocInv, Typed
    <3> QED
        BY <2>2, <3>1, <3>2, <3>3 DEF AllocInv, Typed
  <2>6. owner = "owns"
      BY DEF Commit
  <2>7. CommitInv'
      BY <1>5, <2>1, <2>2, <2>3, <2>4, <2>6 DEF AllocInv, CommitInv, Typed
  <2>8. RefInv'
      BY <1>1, <1>5, <2>1, <2>3, <2>4, Numbers DEF AllocInv, RefInv, Typed
  <2>9. SampleInv'
    <3>1. CASE UNCHANGED <<allocated, free>>
        BY <2>3, <3>1, SampleFrame DEF AllocInv
    <3>2. CASE \E n \in 0..MaxCount : Alloc(n)
        BY <1>5, <2>1, <2>3, <3>2, CommitSamples
    <3> QED
        BY <1>0, <1>5, <3>1, <3>2 DEF Commit
  <2> QED
      BY <1>3, <2>5, <2>7, <2>8, <2>9 DEF AllocInv
<1> QED
    BY <1>4, <1>5

\* Decommit is under way from here to the last ReleaseBuffer, if a sample is out.
LEMMA DecommitInv == AllocatorAssumption /\ AllocInv /\ Decommit => AllocInv'
<1> SUFFICES ASSUME AllocatorAssumption, AllocInv, Decommit PROVE AllocInv'
    OBVIOUS
<1>1. Blocked' = Blocked /\ Releasing' = Releasing
    BY WaitingFrame DEF Decommit
<1>2. decommitting' = (free # 1..allocated)
    BY AllFree DEF AllocInv, Typed, Decommit
<1>3. Typed' /\ CommitInv'
  <2>1. UNCHANGED <<count, changed, allocated, free, cRef, refs, pc, hold>> /\ committed' = FALSE
      BY DEF Decommit, propVars
  <2>2. waiting' \in Nat /\ sem' \in Nat /\ owner' \in {"owns", "decommitted", "gone"}
      BY DEF AllocInv, Typed, Decommit, NotifySample
  <2>3. Typed'
      BY <1>2, <2>1, <2>2 DEF AllocInv, Typed
  <2>4. CommitInv'
      BY <1>2, <2>1 DEF AllocInv, CommitInv
  <2> QED
      BY <2>3, <2>4
<1>4. SampleInv'
    BY SampleFrame DEF AllocInv, Decommit, propVars
<1>5. RefInv'
    BY <1>1, <1>2, Numbers DEF AllocInv, Typed, CommitInv, RefInv, Decommit
<1>6. NoLostWakeup'
    BY <1>1 DEF AllocInv, Typed, NoLostWakeup, Decommit, NotifySample
<1> QED
    BY <1>3, <1>4, <1>5, <1>6 DEF AllocInv

\* Decommit's own Release, when no sample was out.
LEMMA DecommitReleaseInv == AllocatorAssumption /\ AllocInv /\ DecommitRelease => AllocInv'
<1> SUFFICES ASSUME AllocatorAssumption, AllocInv, DecommitRelease PROVE AllocInv'
    OBVIOUS
<1>1. Typed' /\ CommitInv'
    BY DEF AllocInv, Typed, CommitInv, DecommitRelease, propVars, semVars, stateVars
<1>2. SampleInv'
    BY SampleFrame DEF AllocInv, DecommitRelease, propVars
<1>3. RefInv' /\ NoLostWakeup'
    BY WaitingFrame, Numbers
    DEF AllocInv, Typed, RefInv, NoLostWakeup, DecommitRelease, semVars, stateVars
<1> QED
    BY <1>1, <1>2, <1>3 DEF AllocInv

\* The owner's reference goes; that of a decommit under way stays.
LEMMA OwnerReleaseInv == AllocatorAssumption /\ AllocInv /\ OwnerRelease => AllocInv'
<1> SUFFICES ASSUME AllocatorAssumption, AllocInv, OwnerRelease PROVE AllocInv'
    OBVIOUS
<1>1. Typed' /\ CommitInv'
    BY DEF AllocInv, Typed, CommitInv, OwnerRelease, propVars, semVars, stateVars
<1>2. SampleInv'
    BY SampleFrame DEF AllocInv, OwnerRelease, propVars
<1>3. RefInv' /\ NoLostWakeup'
    BY WaitingFrame, Numbers
    DEF AllocInv, Typed, RefInv, NoLostWakeup, OwnerRelease, semVars, stateVars
<1> QED
    BY <1>1, <1>2, <1>3 DEF AllocInv

-----------------------------------------------------------------------------
\* The users' steps.

\* A user that moves on, and takes no sample with it or keeps the one it has,
\* between places where as much is known of its sample.
LEMMA MovesOn ==
    ASSUME AllocatorAssumption, AllocInv, NEW u \in Users, NEW l \in Places, Goto(u, l),
           pc[u] \in Holding <=> l \in Holding, pc[u] # "release", l # "release",
           l = "last" => cRef[hold[u]] = 1,
           UNCHANGED <<allocated, free, cRef, hold>>
    PROVE  SampleInv'
<1>1. pc' = [pc EXCEPT ![u] = l] /\ pc \in [Users -> Places]
    BY DEF Goto, AllocInv, Typed
<1>2. \A s : Counted(s)' = Counted(s)
    BY <1>1 DEF Counted
<1>3. \A s : Holders(s)' = Holders(s)
    BY DEF Holders
<1>4. \A v \in Users : IF pc'[v] \in Holding THEN hold[v] \in (1..allocated) \ free
                                               ELSE hold[v] = 0
    BY <1>1 DEF AllocInv, SampleInv
<1>5. \A v, w \in Users : pc'[v] = "release" /\ hold[w] = hold[v] => w = v
    BY <1>1 DEF AllocInv, SampleInv
<1>6. \A v \in Users : pc'[v] = "last" => cRef[hold[v]] = 1
    BY <1>1 DEF AllocInv, SampleInv
<1> QED
    BY <1>2, <1>3, <1>4, <1>5, <1>6 DEF AllocInv, SampleInv

\* A user that neither begins nor ends to wait, nor to have a reference to release.
LEMMA SameNumbers ==
    ASSUME AllocInv, NEW u \in Users, NEW l \in Places, Goto(u, l),
           {pc[u], l} \cap {"wait", "notifyLast"} = {}
    PROVE  Blocked' = Blocked /\ Releasing' = Releasing
BY DEF Goto, AllocInv, Typed, Blocked, Releasing

\* Where a user is has its type.
LEMMA Going ==
    ASSUME AllocInv, NEW u \in Users, NEW l \in Places, Goto(u, l)
    PROVE  pc' \in [Users -> Places]
BY DEF Goto, AllocInv, Typed

\* A user enters GetBuffer.
LEMMA GetBufferInv ==
    ASSUME AllocatorAssumption, AllocInv, NEW u \in Users, GetBuffer(u) PROVE AllocInv'
<1>1. Goto(u, "get") /\ "get" \in Places /\ pc[u] = "idle"
    BY DEF GetBuffer, Places
<1>2. UNCHANGED <<count, changed, allocated, waiting, sem, committed, decommitting, free, cRef,
                  refs, owner, hold>>
    BY DEF GetBuffer, propVars, semVars, stateVars
<1>3. Typed'
    BY <1>1, <1>2, Going DEF AllocInv, Typed
<1>4. SampleInv'
    BY <1>1, <1>2, MovesOn DEF Holding
<1>5. Blocked' = Blocked /\ Releasing' = Releasing
    BY <1>1, SameNumbers
<1>6. CommitInv' /\ RefInv' /\ NoLostWakeup'
    BY <1>2, <1>5 DEF AllocInv, CommitInv, RefInv, NoLostWakeup
<1> QED
    BY <1>3, <1>4, <1>6 DEF AllocInv

\* A user reads the count and so decides how to release its sample.
LEMMA ReleaseSampleInv ==
    ASSUME AllocatorAssumption, AllocInv, NEW u \in Users, ReleaseSample(u) PROVE AllocInv'
<1> DEFINE l == IF cRef[hold[u]] = 1 THEN "last" ELSE "decrement"
<1>1. Goto(u, l) /\ l \in Places /\ pc[u] \in {"hold", "borrow"}
    BY DEF ReleaseSample, Places, Holding
<1>2. UNCHANGED <<count, changed, allocated, waiting, sem, committed, decommitting, free, cRef,
                  refs, owner, hold>>
    BY DEF ReleaseSample, propVars, semVars, stateVars
<1>3. Typed'
    BY <1>1, <1>2, Going DEF AllocInv, Typed
<1>4. SampleInv'
    BY <1>1, <1>2, MovesOn DEF Holding
<1>5. Blocked' = Blocked /\ Releasing' = Releasing
    BY <1>1, SameNumbers
<1>6. CommitInv' /\ RefInv' /\ NoLostWakeup'
    BY <1>2, <1>5 DEF AllocInv, CommitInv, RefInv, NoLostWakeup
<1> QED
    BY <1>3, <1>4, <1>6 DEF AllocInv

\* GetBuffer hands out a sample that nobody has.
LEMMA TakeInv ==
    ASSUME AllocatorAssumption, AllocInv, NEW u \in Users, NEW s \in free, committed,
           pc[u] = "get", free' = free \ {s}, cRef' = [cRef EXCEPT ![s] = 1],
           hold' = [hold EXCEPT ![u] = s], Goto(u, "hold"),
           UNCHANGED <<propVars, semVars, stateVars, refs, owner>>
    PROVE  AllocInv'
<1>1. /\ s \in 1..allocated /\ s \in 1..MaxCount /\ MaxCount \in Nat /\ allocated \in 0..MaxCount
      /\ pc \in [Users -> Places] /\ hold \in [Users -> 0..MaxCount]
      /\ cRef \in [1..MaxCount -> Int]
    BY Constants DEF AllocInv, Typed
<1>2. /\ pc' = [pc EXCEPT ![u] = "hold"] /\ "hold" \in Places /\ "hold" \in Holding
      /\ "get" \notin Holding /\ "get" # "release" /\ "get" # "last"
    BY DEF Goto, Places, Holding
<1>3. UNCHANGED <<count, changed, allocated, waiting, sem, committed, decommitting, refs, owner>>
    BY DEF propVars, semVars, stateVars
<1>4. hold[u] = 0 /\ \A v \in Users : hold[v] # s
    BY <1>1, <1>2 DEF AllocInv, SampleInv
<1>5. Typed'
  <2>1. pc' \in [Users -> Places] /\ hold' \in [Users -> 0..MaxCount] /\ cRef' \in [1..MaxCount -> Int]
      BY <1>1, <1>2
  <2>2. free' \subseteq 1..allocated'
      BY <1>3 DEF AllocInv, Typed
  <2> QED
      BY <1>3, <2>1, <2>2 DEF AllocInv, Typed
<1>6. CommitInv'
  <2>1. free' # 1..allocated' /\ ~changed
    <3>1. s \notin free' /\ s \in 1..allocated'
        BY <1>1, <1>3
    <3>2. ~changed
        BY DEF AllocInv, CommitInv, Typed
    <3> QED
        BY <3>1, <3>2
  <2> QED
      BY <1>3, <2>1 DEF AllocInv, CommitInv
<1>7. SampleInv'
  <2>1. Counted(s)' = {u}
      BY <1>1, <1>2, <1>4 DEF Counted
  <2>2. \A t \in (1..MaxCount) \ {s} : Counted(t)' = Counted(t)
      BY <1>1, <1>2, <1>4 DEF Counted
  <2>3. \A t \in 1..MaxCount : cRef'[t] = Cardinality(Counted(t)')
      BY <1>1, <2>1, <2>2, FS_Singleton DEF AllocInv, SampleInv
  <2>4. \A t \in (1..allocated') \ free' : Holders(t)' # {}
    <3>1. u \in Holders(s)'
        BY <1>1 DEF Holders
    <3>2. \A t \in (1..allocated) \ free : Holders(t)' # {}
      <4> TAKE t \in (1..allocated) \ free
      <4>1. PICK v \in Users : hold[v] = t
          BY DEF AllocInv, SampleInv, Holders
      <4>2. v # u /\ hold'[v] = t
          BY <1>1, <1>4, <4>1
      <4> QED
          BY <4>2 DEF Holders
    <3> QED
        BY <1>3, <3>1, <3>2
  <2>5. \A v \in Users : IF pc'[v] \in Holding THEN hold'[v] \in (1..allocated') \ free'
                                                ELSE hold'[v] = 0
      BY <1>1, <1>2, <1>3, <1>4 DEF AllocInv, SampleInv
  <2>6. \A v, w \in Users : pc'[v] = "release" /\ hold'[w] = hold'[v] => w = v
      BY <1>1, <1>2, <1>4 DEF AllocInv, SampleInv
  <2>7. \A v \in Users : pc'[v] = "last" => cRef'[hold'[v]] = 1
    <3> SUFFICES ASSUME NEW v \in Users, pc'[v] = "last" PROVE cRef'[hold'[v]] = 1
        OBVIOUS
    <3>1. v # u /\ pc[v] = "last" /\ hold'[v] = hold[v] /\ hold[v] # s
        BY <1>1, <1>2, <1>4
    <3>2. cRef[hold[v]] = 1 /\ hold[v] \in 1..MaxCount
        BY <1>1, <3>1 DEF AllocInv, SampleInv, Holding
    <3> QED
        BY <1>1, <3>1, <3>2
  <2> QED
      BY <2>3, <2>4, <2>5, <2>6, <2>7 DEF SampleInv
<1>8. Blocked' = Blocked /\ Releasing' = Releasing
    BY <1>2, SameNumbers
<1>9. RefInv'
    BY <1>3, <1>8 DEF AllocInv, RefInv
<1>10. NoLostWakeup'
    BY <1>3, <1>8 DEF AllocInv, NoLostWakeup
<1> QED
    BY <1>5, <1>6, <1>7, <1>9, <1>10 DEF AllocInv

\* GetBuffer finds no sample: the user is counted, and waits or will not wait.
LEMMA CountedWaiting ==
    ASSUME AllocatorAssumption, AllocInv, NEW u \in Users, NEW l \in {"wait", "idle"},
           committed, free = {}, pc[u] = "get", waiting' = waiting + 1, Goto(u, l),
           UNCHANGED <<propVars, sem, stateVars, free, cRef, refs, owner, hold>>
    PROVE  AllocInv'
<1>1. l \in Places /\ l \notin Holding /\ "get" \notin Holding /\ l # "release" /\ l # "last"
    BY DEF Places, Holding
<1>2. UNCHANGED <<count, changed, allocated, sem, committed, decommitting, free, cRef, refs,
                  owner, hold>>
    BY DEF propVars, stateVars
<1>3. Typed'
    BY <1>1, <1>2, Going DEF AllocInv, Typed
<1>4. CommitInv'
    BY <1>2 DEF AllocInv, CommitInv
<1>5. SampleInv'
    BY <1>1, <1>2, MovesOn
<1>6. Releasing' = Releasing
    BY <1>1 DEF Goto, AllocInv, Typed, Releasing
<1>7. RefInv'
    BY <1>2, <1>6 DEF AllocInv, RefInv
<1>8. Cardinality(Blocked') <= Cardinality(Blocked) + 1
  <2>1. CASE l = "wait"
    <3>1. u \notin Blocked /\ Blocked' = Blocked \cup {u} /\ Blocked \in SUBSET Users
        BY <2>1 DEF Goto, AllocInv, Typed, Blocked
    <3> QED
        BY <3>1, Constants, Joins, UsersCount
  <2>2. CASE l = "idle"
    <3>1. Blocked' = Blocked
        BY <2>2 DEF Goto, AllocInv, Typed, Blocked
    <3> QED
        BY <3>1, Numbers
  <2> QED
      BY <2>1, <2>2
<1>9. Cardinality(Blocked') \in Nat
  <2>1. Blocked' \in SUBSET Users
      BY DEF Blocked
  <2> QED
      BY <2>1, Constants, UsersCount
<1>10. NoLostWakeup'
  <2>1. waiting + sem >= Cardinality(Blocked) /\ waiting \in Nat /\ sem \in Nat
      BY DEF AllocInv, NoLostWakeup, Typed
  <2>2. waiting' + sem' >= Cardinality(Blocked')
      BY <1>2, <1>8, <1>9, <2>1, Numbers
  <2> QED
      BY <1>2, <2>2 DEF NoLostWakeup
<1> QED
    BY <1>3, <1>4, <1>5, <1>7, <1>10 DEF AllocInv

\* GetBuffer comes back empty-handed once the allocator is decommitted.
LEMMA EmptyHanded ==
    ASSUME AllocatorAssumption, AllocInv, NEW u \in Users, pc[u] = "get", Goto(u, "idle"),
           UNCHANGED <<propVars, semVars, stateVars, free, cRef, refs, owner, hold>>
    PROVE  AllocInv'
<1>1. "idle" \in Places /\ "idle" \notin Holding /\ "get" \notin Holding
    BY DEF Places, Holding
<1>2. UNCHANGED <<count, changed, allocated, waiting, sem, committed, decommitting, free, cRef,
                  refs, owner, hold>>
    BY DEF propVars, semVars, stateVars
<1>3. Typed'
    BY <1>1, <1>2, Going DEF AllocInv, Typed
<1>4. SampleInv'
    BY <1>1, <1>2, MovesOn
<1>5. Blocked' = Blocked /\ Releasing' = Releasing
    BY <1>1, SameNumbers
<1>6. CommitInv' /\ RefInv' /\ NoLostWakeup'
    BY <1>2, <1>5 DEF AllocInv, CommitInv, RefInv, NoLostWakeup
<1> QED
    BY <1>3, <1>4, <1>6 DEF AllocInv

\* One turn of GetBuffer's loop is one of the above.
LEMMA TryBufferInv ==
    ASSUME AllocatorAssumption, AllocInv, NEW u \in Users, TryBuffer(u) PROVE AllocInv'
<1>1. UNCHANGED <<propVars, sem, stateVars, refs, owner>> /\ pc[u] = "get"
    BY DEF TryBuffer
<1>2. CASE ~committed /\ Goto(u, "idle") /\ UNCHANGED <<waiting, free, cRef, hold>>
    BY <1>1, <1>2, EmptyHanded DEF semVars
<1>3. CASE /\ committed
           /\ \E s \in free : /\ free' = free \ {s} /\ cRef' = [cRef EXCEPT ![s] = 1]
                              /\ hold' = [hold EXCEPT ![u] = s] /\ Goto(u, "hold")
                              /\ UNCHANGED waiting
    BY <1>1, <1>3, TakeInv DEF semVars
<1>4. CASE /\ committed /\ free = {} /\ waiting' = waiting + 1
           /\ Goto(u, "wait") \/ Goto(u, "idle")
           /\ UNCHANGED <<free, cRef, hold>>
    BY <1>1, <1>4, CountedWaiting
<1> QED
    BY <1>2, <1>3, <1>4 DEF TryBuffer

\* Whoever the semaphore lets go on is no longer counted by it.
LEMMA WaitInv ==
    ASSUME AllocatorAssumption, AllocInv, NEW u \in Users, Wait(u) PROVE AllocInv'
<1>1. Goto(u, "get") /\ "get" \in Places /\ pc[u] = "wait" /\ sem > 0 /\ sem' = sem - 1
    BY DEF Wait, Places
<1>2. UNCHANGED <<count, changed, allocated, waiting, committed, decommitting, free, cRef,
                  refs, owner, hold>>
    BY DEF Wait, propVars, stateVars
<1>3. Typed'
    BY <1>1, <1>2, Going DEF AllocInv, Typed
<1>4. SampleInv'
    BY <1>1, <1>2, MovesOn DEF Holding
<1>5. Releasing' = Releasing
    BY <1>1 DEF Goto, AllocInv, Typed, Releasing
<1>6. CommitInv' /\ RefInv'
    BY <1>2, <1>5 DEF AllocInv, CommitInv, RefInv
<1>7. Cardinality(Blocked') = Cardinality(Blocked) - 1
  <2>1. u \in Blocked /\ Blocked' = Blocked \ {u} /\ Blocked \in SUBSET Users
      BY <1>1 DEF Goto, AllocInv, Typed, Blocked
  <2> QED
      BY <2>1, Constants, Leaves
<1>8. NoLostWakeup'
  <2>1. waiting + sem >= Cardinality(Blocked) /\ waiting \in Nat /\ sem \in Nat
      BY DEF AllocInv, NoLostWakeup, Typed
  <2>2. waiting' + sem' >= Cardinality(Blocked')
      BY <1>1, <1>2, <1>7, <2>1, Numbers
  <2> QED
      BY <1>2, <2>2 DEF AllocInv, NoLostWakeup
<1> QED
    BY <1>3, <1>4, <1>6, <1>8 DEF AllocInv

\* What is known of a user with a sample: the sample, and who else has it.
LEMMA OneSample ==
    ASSUME AllocatorAssumption, AllocInv, NEW u \in Users, pc[u] \in Holding
    PROVE  /\ hold[u] \in 1..allocated /\ hold[u] \in 1..MaxCount /\ hold[u] \notin free
           /\ hold[u] # 0 /\ cRef[hold[u]] = Cardinality(Counted(hold[u]))
           /\ Counted(hold[u]) \in SUBSET Users
           /\ free # 1..allocated /\ ~changed
<1>1. hold[u] \in 1..allocated /\ hold[u] \notin free
    BY DEF AllocInv, SampleInv
<1>2. hold[u] \in 1..MaxCount
    BY <1>1, Constants DEF AllocInv, Typed
<1>3. free # 1..allocated /\ ~changed
    BY <1>1 DEF AllocInv, CommitInv, Typed
<1> QED
    BY <1>1, <1>2, <1>3 DEF AllocInv, SampleInv, Counted

\* Whoever has a sample with a count of one is the only user that has it.
LEMMA SoleUser ==
    ASSUME AllocatorAssumption, AllocInv, NEW u \in Users, pc[u] \in Holding,
           pc[u] # "release", cRef[hold[u]] = 1
    PROVE  \A v \in Users : hold[v] = hold[u] => v = u
<1> SUFFICES ASSUME NEW v \in Users, hold[v] = hold[u] PROVE v = u
    OBVIOUS
<1>1. Counted(hold[u]) \in SUBSET Users /\ Cardinality(Counted(hold[u])) = 1 /\ u \in Counted(hold[u])
    BY OneSample DEF Counted
<1>2. CASE pc[v] = "release"
    BY <1>2 DEF AllocInv, SampleInv
<1>3. CASE pc[v] # "release"
  <2>1. v \in Counted(hold[u])
      BY <1>3 DEF Counted
  <2> QED
      BY <1>1, <2>1, Constants, Alone
<1> QED
    BY <1>2, <1>3

\* Another user gets a sample, and is counted.
LEMMA ShareInv ==
    ASSUME AllocatorAssumption, AllocInv, NEW u \in Users, Share(u) PROVE AllocInv'
<1>0. PICK s : s = hold[u]
    OBVIOUS
<1>1. PICK v \in Users \ {u} :
        /\ pc[u] = "hold" /\ pc[v] = "idle"
        /\ cRef' = [cRef EXCEPT ![s] = @ + 1] /\ hold' = [hold EXCEPT ![v] = s]
        /\ Goto(v, "borrow")
        /\ UNCHANGED <<propVars, semVars, stateVars, free, refs, owner, commits>>
    BY <1>0 DEF Share
<1>2. /\ "borrow" \in Places /\ "borrow" \in Holding /\ "hold" \in Holding /\ "idle" \notin Holding
      /\ "last" \in Holding
    BY DEF Places, Holding
<1>3. UNCHANGED <<count, changed, allocated, waiting, sem, committed, decommitting, free, refs, owner>>
    BY <1>1 DEF propVars, semVars, stateVars
<1>4. /\ pc \in [Users -> Places] /\ hold \in [Users -> 0..MaxCount] /\ cRef \in [1..MaxCount -> Int]
      /\ pc' = [pc EXCEPT ![v] = "borrow"]
    BY <1>1 DEF AllocInv, Typed, Goto
<1>5. /\ s \in 1..allocated /\ s \in 1..MaxCount /\ s \notin free /\ s # 0
      /\ cRef[s] = Cardinality(Counted(s)) /\ Counted(s) \in SUBSET Users
    BY <1>0, <1>1, <1>2, OneSample
<1>6. hold[v] = 0
    BY <1>1, <1>2 DEF AllocInv, SampleInv
<1>7. Typed'
  <2>1. pc' \in [Users -> Places] /\ hold' \in [Users -> 0..MaxCount] /\ cRef' \in [1..MaxCount -> Int]
    <3>1. s \in 0..MaxCount
        BY <1>0, <1>4
    <3>2. cRef' \in [1..MaxCount -> Int]
        BY <1>1, <1>4, <1>5
    <3> QED
        BY <1>1, <1>2, <1>4, <3>1, <3>2
  <2> QED
      BY <1>3, <2>1 DEF AllocInv, Typed
<1>8. SampleInv'
  <2>1. Counted(s)' = Counted(s) \cup {v} /\ v \notin Counted(s)
      BY <1>1, <1>4, <1>5, <1>6 DEF Counted
  <2>2. Cardinality(Counted(s)') = cRef[s] + 1
      BY <1>5, <2>1, Constants, Joins
  <2>3. \A t \in (1..MaxCount) \ {s} : Counted(t)' = Counted(t)
      BY <1>4, <1>1, <1>6 DEF Counted
  <2>4. \A t \in 1..MaxCount : cRef'[t] = Cardinality(Counted(t)')
    <3>1. cRef'[s] = cRef[s] + 1 /\ \A t \in (1..MaxCount) \ {s} : cRef'[t] = cRef[t]
        BY <1>1, <1>4, <1>5
    <3> QED
        BY <1>5, <2>2, <2>3, <3>1 DEF AllocInv, SampleInv
  <2>5. \A t \in (1..allocated) \ free : Holders(t)' # {}
    <3> SUFFICES ASSUME NEW t \in (1..allocated) \ free PROVE Holders(t)' # {}
        OBVIOUS
    <3>1. PICK w \in Users : hold[w] = t
        BY DEF AllocInv, SampleInv, Holders
    <3>2. w # v /\ hold'[w] = t
        BY <1>1, <1>4, <1>6, <3>1
    <3> QED
        BY <3>2 DEF Holders
  <2>6. \A w \in Users : IF pc'[w] \in Holding THEN hold'[w] \in (1..allocated) \ free
                                                ELSE hold'[w] = 0
      BY <1>1, <1>2, <1>4, <1>5 DEF AllocInv, SampleInv
  <2>7. \A w \in Users : pc[w] = "release" => hold[w] # s
      BY <1>0, <1>1 DEF AllocInv, SampleInv
  <2>8. \A w, x \in Users : pc'[w] = "release" /\ hold'[x] = hold'[w] => x = w
      BY <1>1, <1>4, <2>7 DEF AllocInv, SampleInv
  <2>9. \A w \in Users : pc'[w] = "last" => cRef'[hold'[w]] = 1
    <3> SUFFICES ASSUME NEW w \in Users, pc'[w] = "last" PROVE cRef'[hold'[w]] = 1
        OBVIOUS
    <3>1. w # v /\ pc[w] = "last" /\ hold'[w] = hold[w] /\ cRef[hold[w]] = 1 /\ w # u
        BY <1>1, <1>4 DEF AllocInv, SampleInv
    <3>2. hold[w] \in 1..MaxCount /\ hold[w] # s
        BY <1>0, <1>2, <3>1, OneSample, SoleUser
    <3> QED
        BY <1>1, <1>4, <3>1, <3>2
  <2> QED
      BY <1>3, <2>4, <2>5, <2>6, <2>8, <2>9 DEF SampleInv
<1>9. Blocked' = Blocked /\ Releasing' = Releasing
    BY <1>1, <1>2, SameNumbers
<1>10. CommitInv' /\ RefInv' /\ NoLostWakeup'
    BY <1>3, <1>9 DEF AllocInv, CommitInv, RefInv, NoLostWakeup
<1> QED
    BY <1>7, <1>8, <1>10 DEF AllocInv

\* The last reference goes: its user alone has the sample, in ReleaseBuffer.
LEMMA LastGoes ==
    ASSUME AllocatorAssumption, AllocInv, NEW u \in Users, pc[u] \in {"last", "decrement"},
           cRef[hold[u]] = 1, cRef' = [cRef EXCEPT ![hold[u]] = 0], Goto(u, "release"),
           UNCHANGED <<propVars, semVars, stateVars, free, refs, owner, hold>>
    PROVE  AllocInv'
<1> DEFINE s == hold[u]
<1>2. {"release", "last", "decrement"} \subseteq Holding /\ "release" \in Places
    BY DEF Places, Holding
<1>3. UNCHANGED <<count, changed, allocated, waiting, sem, committed, decommitting, free, refs, owner,
                  hold>>
    BY DEF propVars, semVars, stateVars
<1>4. /\ pc \in [Users -> Places] /\ hold \in [Users -> 0..MaxCount] /\ cRef \in [1..MaxCount -> Int]
      /\ pc' = [pc EXCEPT ![u] = "release"]
    BY DEF AllocInv, Typed, Goto
<1>5. s \in 1..allocated /\ s \in 1..MaxCount /\ s \notin free /\ s # 0
    BY <1>2, OneSample
<1>6. \A v \in Users : hold[v] = s => v = u
    BY <1>2, SoleUser
<1>7. Typed'
  <2>1. pc' \in [Users -> Places] /\ cRef' \in [1..MaxCount -> Int]
      BY <1>2, <1>4, <1>5
  <2> QED
      BY <1>3, <2>1 DEF AllocInv, Typed
<1>8. SampleInv'
  <2>1. Counted(s)' = {}
      BY <1>3, <1>4, <1>6 DEF Counted
  <2>2. \A t \in (1..MaxCount) \ {s} : Counted(t)' = Counted(t)
      BY <1>3, <1>4 DEF Counted
  <2>3. \A t \in 1..MaxCount : cRef'[t] = Cardinality(Counted(t)')
      BY <1>4, <1>5, <2>1, <2>2, FS_EmptySet DEF AllocInv, SampleInv
  <2>4. \A t : Holders(t)' = Holders(t)
      BY <1>3 DEF Holders
  <2>5. \A w \in Users : IF pc'[w] \in Holding THEN hold[w] \in (1..allocated) \ free
                                                ELSE hold[w] = 0
      BY <1>2, <1>4 DEF AllocInv, SampleInv
  <2>6. \A w, x \in Users : pc'[w] = "release" /\ hold[x] = hold[w] => x = w
      BY <1>4, <1>6 DEF AllocInv, SampleInv
  <2>7. \A w \in Users : pc'[w] = "last" => cRef'[hold[w]] = 1
    <3> SUFFICES ASSUME NEW w \in Users, pc'[w] = "last" PROVE cRef'[hold[w]] = 1
        OBVIOUS
    <3>1. w # u /\ pc[w] = "last" /\ cRef[hold[w]] = 1
        BY <1>4 DEF AllocInv, SampleInv
    <3>2. hold[w] \in 1..MaxCount /\ hold[w] # s
        BY <1>2, <1>6, <3>1, OneSample
    <3> QED
        BY <1>4, <3>1, <3>2
  <2> QED
      BY <1>3, <2>3, <2>4, <2>5, <2>6, <2>7 DEF AllocInv, SampleInv
<1>9. Blocked' = Blocked /\ Releasing' = Releasing
    BY <1>2, SameNumbers
<1>10. CommitInv' /\ RefInv' /\ NoLostWakeup'
    BY <1>3, <1>9 DEF AllocInv, CommitInv, RefInv, NoLostWakeup
<1> QED
    BY <1>7, <1>8, <1>10 DEF AllocInv

\* One of several references goes, and the other users have the sample still.
LEMMA OneGoes ==
    ASSUME AllocatorAssumption, AllocInv, NEW u \in Users, pc[u] = "decrement",
           cRef[hold[u]] # 1, cRef' = [cRef EXCEPT ![hold[u]] = @ - 1],
           hold' = [hold EXCEPT ![u] = 0], Goto(u, "idle"),
           UNCHANGED <<propVars, semVars, stateVars, free, refs, owner>>
    PROVE  AllocInv'
<1>1. PICK s : s = hold[u]
    OBVIOUS
<1>2. /\ {"decrement", "last"} \subseteq Holding /\ "idle" \in Places /\ "idle" \notin Holding
      /\ 0 \in 0..MaxCount
    BY Constants DEF Places, Holding
<1>3. UNCHANGED <<count, changed, allocated, waiting, sem, committed, decommitting, free, refs, owner>>
    BY DEF propVars, semVars, stateVars
<1>4. /\ pc \in [Users -> Places] /\ hold \in [Users -> 0..MaxCount] /\ cRef \in [1..MaxCount -> Int]
      /\ pc' = [pc EXCEPT ![u] = "idle"]
    BY DEF AllocInv, Typed, Goto
<1>5. /\ s \in 1..allocated /\ s \in 1..MaxCount /\ s \notin free /\ s # 0
      /\ cRef[s] = Cardinality(Counted(s)) /\ Counted(s) \in SUBSET Users
    BY <1>1, <1>2, OneSample
<1>7. Typed'
  <2>1. pc' \in [Users -> Places] /\ hold' \in [Users -> 0..MaxCount]
      BY <1>2, <1>4
  <2>2. cRef' \in [1..MaxCount -> Int]
      BY <1>1, <1>4, <1>5
  <2> QED
      BY <1>3, <2>1, <2>2 DEF AllocInv, Typed
<1>8. SampleInv'
  <2>1. Counted(s)' = Counted(s) \ {u} /\ u \in Counted(s)
      BY <1>1, <1>4, <1>5 DEF Counted
  <2>2. Cardinality(Counted(s)') = cRef[s] - 1
      BY <1>5, <2>1, Constants, Leaves
  <2>3. \A t \in (1..MaxCount) \ {s} : Counted(t)' = Counted(t)
      BY <1>1, <1>4 DEF Counted
  <2>4. \A t \in 1..MaxCount : cRef'[t] = Cardinality(Counted(t)')
    <3>1. cRef'[s] = cRef[s] - 1 /\ \A t \in (1..MaxCount) \ {s} : cRef'[t] = cRef[t]
        BY <1>1, <1>4, <1>5
    <3> QED
        BY <1>5, <2>2, <2>3, <3>1 DEF AllocInv, SampleInv
  <2>5. \A t \in (1..allocated) \ free : Holders(t)' # {}
    <3> SUFFICES ASSUME NEW t \in (1..allocated) \ free PROVE Holders(t)' # {}
        OBVIOUS
    <3>1. CASE t = s
      <4>1. Cardinality(Counted(s)') # 0
          BY <1>1, <1>4, <1>5, <2>2
      <4>2. Counted(s)' # {}
          BY <4>1, FS_EmptySet
      <4> QED
          BY <3>1, <4>2 DEF Counted, Holders
    <3>2. CASE t # s
      <4>1. PICK w \in Users : hold[w] = t
          BY DEF AllocInv, SampleInv, Holders
      <4>2. hold'[w] = t
          BY <1>1, <1>4, <3>2, <4>1
      <4> QED
          BY <4>2 DEF Holders
    <3> QED
        BY <3>1, <3>2
  <2>6. \A w \in Users : IF pc'[w] \in Holding THEN hold'[w] \in (1..allocated) \ free
                                                ELSE hold'[w] = 0
      BY <1>2, <1>4 DEF AllocInv, SampleInv
  <2>7. \A w, x \in Users : pc'[w] = "release" /\ hold'[x] = hold'[w] => x = w
    <3> SUFFICES ASSUME NEW w \in Users, NEW x \in Users, pc'[w] = "release", hold'[x] = hold'[w]
                 PROVE  x = w
        OBVIOUS
    <3>1. w # u /\ pc[w] = "release" /\ hold'[w] = hold[w]
        BY <1>4
    <3>2. hold[w] # 0
        BY <3>1, OneSample DEF Holding
    <3>3. x # u /\ hold'[x] = hold[x]
        BY <1>1, <1>4, <3>1, <3>2
    <3> QED
        BY <3>1, <3>3 DEF AllocInv, SampleInv
  <2>8. \A w \in Users : pc'[w] = "last" => cRef'[hold'[w]] = 1
    <3> SUFFICES ASSUME NEW w \in Users, pc'[w] = "last" PROVE cRef'[hold'[w]] = 1
        OBVIOUS
    <3>1. w # u /\ pc[w] = "last" /\ cRef[hold[w]] = 1 /\ hold'[w] = hold[w]
        BY <1>4 DEF AllocInv, SampleInv
    <3>2. hold[w] \in 1..MaxCount /\ hold[w] # s
        BY <1>1, <1>2, <3>1, OneSample
    <3> QED
        BY <1>1, <1>4, <3>1, <3>2
  <2> QED
      BY <1>3, <2>4, <2>5, <2>6, <2>7, <2>8 DEF SampleInv
<1>9. Blocked' = Blocked /\ Releasing' = Releasing
    BY <1>2, SameNumbers
<1>10. CommitInv' /\ RefInv' /\ NoLostWakeup'
    BY <1>3, <1>9 DEF AllocInv, CommitInv, RefInv, NoLostWakeup
<1> QED
    BY <1>7, <1>8, <1>10 DEF AllocInv

\* Whoever read a count of one has the sample alone still.
LEMMA ReleaseLastInv ==
    ASSUME AllocatorAssumption, AllocInv, NEW u \in Users, ReleaseLast(u) PROVE AllocInv'
<1>1. cRef[hold[u]] = 1
    BY DEF ReleaseLast, AllocInv, SampleInv
<1> QED
    BY <1>1, LastGoes DEF ReleaseLast

\* The interlocked decrement ends in ReleaseBuffer for one user only.
LEMMA DecrementInv ==
    ASSUME AllocatorAssumption, AllocInv, NEW u \in Users, Decrement(u) PROVE AllocInv'
<1>1. CASE cRef[hold[u]] = 1
  <2>1. hold[u] \in 1..MaxCount /\ cRef \in [1..MaxCount -> Int]
      BY OneSample DEF Decrement, Holding, AllocInv, Typed
  <2>2. cRef' = [cRef EXCEPT ![hold[u]] = 0]
      BY <1>1, <2>1 DEF Decrement
  <2> QED
      BY <1>1, <2>2, LastGoes DEF Decrement
<1>2. CASE cRef[hold[u]] # 1
    BY <1>2, OneGoes DEF Decrement
<1> QED
    BY <1>1, <1>2

\* ReleaseBuffer frees the sample, wakes all that wait, and may end a decommit.
LEMMA ReleaseBufferInv ==
    ASSUME AllocatorAssumption, AllocInv, NEW u \in Users, ReleaseBuffer(u) PROVE AllocInv'
<1> DEFINE s == hold[u]
           completes == decommitting /\ free' = 1..allocated
           l == IF completes THEN "notifyLast" ELSE "notify"
<1>1. /\ "release" \in Holding /\ l \in Places /\ l \notin Holding /\ 0 \in 0..MaxCount
      /\ l \notin {"wait", "last", "release"} /\ pc[u] = "release"
    BY Constants DEF Places, Holding, ReleaseBuffer
<1>2. /\ s \in 1..allocated /\ s \in 1..MaxCount /\ s \notin free /\ s # 0
      /\ free # 1..allocated /\ ~changed
    BY <1>1, OneSample
<1>3. UNCHANGED <<count, changed, allocated, committed, cRef, refs, owner>>
    BY DEF ReleaseBuffer, propVars
<1>4. free' = free \cup {s} /\ free' \subseteq 1..allocated /\ allocated \in Nat
  <2>1. free' = free \cup {s}
      BY DEF ReleaseBuffer
  <2>2. free \subseteq 1..allocated /\ allocated \in Nat
      BY Constants DEF AllocInv, Typed
  <2> QED
      BY <1>2, <2>1, <2>2
<1>5. decommitting' = (decommitting /\ ~completes) /\ Goto(u, l)
  <2>1. Cardinality(free') = allocated <=> free' = 1..allocated
      BY <1>4, AllFree
  <2> QED
      BY <2>1 DEF ReleaseBuffer
<1>6. /\ pc \in [Users -> Places] /\ hold \in [Users -> 0..MaxCount]
      /\ pc' = [pc EXCEPT ![u] = l] /\ hold' = [hold EXCEPT ![u] = 0]
    BY <1>5 DEF AllocInv, Typed, Goto, ReleaseBuffer
<1>7. Typed'
  <2>1. pc' \in [Users -> Places] /\ hold' \in [Users -> 0..MaxCount]
      BY <1>1, <1>6
  <2>2. waiting' \in Nat /\ sem' \in Nat /\ decommitting' \in BOOLEAN
      BY <1>5 DEF AllocInv, Typed, ReleaseBuffer, NotifySample
  <2>3. free' \subseteq 1..allocated'
      BY <1>3, <1>4
  <2> QED
      BY <1>3, <2>1, <2>2, <2>3 DEF AllocInv, Typed
<1>8. CommitInv'
    BY <1>2, <1>3, <1>5 DEF AllocInv, CommitInv
<1>9. SampleInv'
  <2>1. \A t \in 1..MaxCount : Counted(t)' = Counted(t)
      BY <1>1, <1>6 DEF Counted
  <2>2. \A v \in Users : hold[v] = s => v = u
      BY <1>1 DEF AllocInv, SampleInv
  <2>3. \A t \in (1..allocated) \ free' : Holders(t)' # {}
    <3> SUFFICES ASSUME NEW t \in (1..allocated) \ free' PROVE Holders(t)' # {}
        OBVIOUS
    <3>1. t # s /\ t \in (1..allocated) \ free
        BY <1>4
    <3>2. PICK w \in Users : hold[w] = t
        BY <3>1 DEF AllocInv, SampleInv, Holders
    <3>3. hold'[w] = t
        BY <1>6, <3>1, <3>2
    <3> QED
        BY <3>3 DEF Holders
  <2>4. \A w \in Users : IF pc'[w] \in Holding THEN hold'[w] \in (1..allocated) \ free'
                                                ELSE hold'[w] = 0
      BY <1>1, <1>4, <1>6, <2>2 DEF AllocInv, SampleInv
  <2>5. \A w, x \in Users : pc'[w] = "release" /\ hold'[x] = hold'[w] => x = w
    <3> SUFFICES ASSUME NEW w \in Users, NEW x \in Users, pc'[w] = "release", hold'[x] = hold'[w]
                 PROVE  x = w
        OBVIOUS
    <3>1. w # u /\ pc[w] = "release" /\ hold'[w] = hold[w]
        BY <1>1, <1>6
    <3>2. hold[w] # 0
        BY <1>1, <3>1, OneSample
    <3>3. x # u /\ hold'[x] = hold[x]
        BY <1>6, <3>1, <3>2
    <3> QED
        BY <3>1, <3>3 DEF AllocInv, SampleInv
  <2>6. \A w \in Users : pc'[w] = "last" => cRef[hold'[w]] = 1
      BY <1>1, <1>6 DEF AllocInv, SampleInv
  <2> QED
      BY <1>3, <2>1, <2>3, <2>4, <2>5, <2>6 DEF AllocInv, SampleInv
<1>10. RefInv'
  <2>1. CASE completes
    <3>1. Releasing' = Releasing \cup {u} /\ u \notin Releasing /\ Releasing \in SUBSET Users
        BY <1>1, <1>6, <2>1 DEF Releasing
    <3>2. Cardinality(Releasing') = Cardinality(Releasing) + 1
        BY <3>1, Constants, Joins
    <3>3. ~committed /\ decommitting /\ ~decommitting'
        BY <1>5, <2>1 DEF AllocInv, CommitInv
    <3> QED
        BY <1>3, <3>2, <3>3, Numbers DEF AllocInv, RefInv
  <2>2. CASE ~completes
    <3>1. Releasing' = Releasing
        BY <1>1, <1>6, <2>2 DEF Releasing
    <3> QED
        BY <1>3, <1>5, <2>2, <3>1 DEF AllocInv, RefInv, Typed
  <2> QED
      BY <2>1, <2>2
<1>11. NoLostWakeup'
  <2>1. Blocked' = Blocked
      BY <1>1, <1>6 DEF Blocked
  <2> QED
      BY <2>1 DEF AllocInv, NoLostWakeup, Typed, ReleaseBuffer, NotifySample
<1> QED
    BY <1>7, <1>8, <1>9, <1>10, <1>11 DEF AllocInv

\* The release of the allocator after the lock.
LEMMA NotifyReleaseInv ==
    ASSUME AllocatorAssumption, AllocInv, NEW u \in Users, NotifyRelease(u) PROVE AllocInv'
<1>1. /\ Goto(u, "idle") /\ "idle" \in Places /\ "idle" \notin Holding
      /\ pc[u] \in {"notify", "notifyLast"} /\ pc[u] \notin Holding
    BY DEF NotifyRelease, Places, Holding
<1>2. UNCHANGED <<count, changed, allocated, waiting, sem, committed, decommitting, free, cRef,
                  owner, hold>>
    BY DEF NotifyRelease, propVars, semVars, stateVars
<1>3. Typed'
  <2>1. refs' \in Int
      BY DEF NotifyRelease, AllocInv, Typed
  <2> QED
      BY <1>1, <1>2, <2>1, Going DEF AllocInv, Typed
<1>4. SampleInv'
    BY <1>1, <1>2, MovesOn
<1>5. CommitInv'
    BY <1>2 DEF AllocInv, CommitInv
<1>6. RefInv'
  <2>1. CASE pc[u] = "notifyLast"
    <3>1. u \in Releasing /\ Releasing' = Releasing \ {u} /\ Releasing \in SUBSET Users
        BY <1>1, <2>1 DEF Goto, AllocInv, Typed, Releasing
    <3>2. Cardinality(Releasing') = Cardinality(Releasing) - 1
        BY <3>1, Constants, Leaves
    <3>3. refs' = refs - 1
        BY <2>1 DEF NotifyRelease
    <3> QED
        BY <1>2, <3>2, <3>3, Numbers DEF AllocInv, RefInv, Typed
  <2>2. CASE pc[u] = "notify"
    <3>1. Releasing' = Releasing /\ refs' = refs
        BY <1>1, <2>2 DEF Goto, AllocInv, Typed, Releasing, NotifyRelease
    <3> QED
        BY <1>2, <3>1 DEF AllocInv, RefInv
  <2> QED
      BY <1>1, <2>1, <2>2
<1>7. NoLostWakeup'
  <2>1. Blocked' = Blocked
      BY <1>1 DEF Goto, AllocInv, Typed, Blocked
  <2> QED
      BY <1>2, <2>1 DEF AllocInv, NoLostWakeup
<1> QED
    BY <1>3, <1>4, <1>5, <1>6, <1>7 DEF AllocInv

-----------------------------------------------------------------------------
\* Every step keeps the invariant.
LEMMA StepInv == AllocatorAssumption /\ AllocInv /\ [Next]_vars => AllocInv'
<1> SUFFICES ASSUME AllocatorAssumption, AllocInv, [Next]_vars PROVE AllocInv'
    OBVIOUS
<1>1. CASE SetProperties \/ Commit \/ Decommit \/ DecommitRelease \/ OwnerRelease
    BY <1>1, SetPropertiesInv, CommitStepInv, DecommitInv, DecommitReleaseInv, OwnerReleaseInv
<1>2. ASSUME NEW u \in Users,
             GetBuffer(u) \/ InGetBuffer(u) \/ Share(u) \/ ReleaseSample(u) \/ InRelease(u)
      PROVE  AllocInv'
    BY <1>2, GetBufferInv, TryBufferInv, WaitInv, ShareInv, ReleaseSampleInv, ReleaseLastInv,
       DecrementInv, ReleaseBufferInv, NotifyReleaseInv DEF InGetBuffer, InRelease
<1>3. CASE UNCHANGED vars
  <2>1. Typed' /\ CommitInv'
      BY <1>3 DEF AllocInv, Typed, CommitInv, vars, propVars, semVars, stateVars
  <2>2. SampleInv'
      BY <1>3, SampleFrame DEF AllocInv, vars, propVars
  <2>3. RefInv' /\ NoLostWakeup'
      BY <1>3, WaitingFrame DEF AllocInv, RefInv, NoLostWakeup, vars, semVars, stateVars
  <2> QED
      BY <2>1, <2>2, <2>3 DEF AllocInv
<1> QED
    BY <1>1, <1>2, <1>3 DEF Next

\* The invariant holds in every state.
LEMMA AllocInvariant == AllocatorAssumption /\ Spec => []AllocInv
<1> SUFFICES ASSUME AllocatorAssumption PROVE Spec => []AllocInv
    OBVIOUS
<1>1. Init => AllocInv
    BY InitInv
<1>2. AllocInv /\ [Next]_vars => AllocInv'
    BY StepInv
<1> QED
    BY <1>1, <1>2, PTL DEF Spec

\* There are no more samples than were asked for, but for a request that has yet
\* to be committed.
NotTooMany == allocated <= count \/ changed

LEMMA FewInit == Init => NotTooMany
BY DEF Init, NotTooMany

LEMMA FewStep ==
    ASSUME AllocatorAssumption, AllocInv, NotTooMany, [Next]_vars PROVE NotTooMany'
<1>1. count \in Nat /\ allocated \in Nat
    BY Constants DEF AllocInv, Typed
<1>2. CASE SetProperties
    BY <1>2 DEF SetProperties, NotTooMany
<1>3. CASE Commit
    BY <1>1, <1>3 DEF Commit, Alloc, NotTooMany
<1>4. CASE UNCHANGED propVars
    BY <1>4 DEF propVars, NotTooMany
<1>5. SetProperties \/ Commit \/ UNCHANGED propVars
    BY DEF Next, vars, Decommit, DecommitRelease, OwnerRelease, GetBuffer, InGetBuffer, TryBuffer, Wait,
       Share, ReleaseSample, InRelease, ReleaseLast, Decrement, ReleaseBuffer, NotifyRelease
<1> QED
    BY <1>2, <1>3, <1>4, <1>5

\* The types, and how many references there can be: the owner's, that of a commit
\* and that of a decommit, and one for each user that has yet to release its own.
LEMMA TypedImplied == ASSUME AllocatorAssumption, AllocInv, NotTooMany PROVE TypeOK
<1> DEFINE m == Cardinality(Users)
           n == Cardinality(Releasing)
<1>1. Releasing \subseteq Users /\ IsFiniteSet(Users)
    BY Constants DEF Releasing
<1>2. n <= m /\ n \in Nat /\ m \in Nat
    BY <1>1, FS_Subset, FS_CardinalityType
<1>3. decommitting => n < m
  <2> SUFFICES ASSUME decommitting PROVE n < m
      OBVIOUS
  <2>1. PICK i \in 1..allocated : i \notin free
      BY DEF AllocInv, CommitInv, Typed
  <2>2. i # 0 /\ i \in (1..allocated) \ free
      BY <2>1, Constants DEF AllocInv, Typed
  <2>3. PICK u \in Users : hold[u] = i
      BY <2>2 DEF AllocInv, SampleInv, Holders
  <2>4. pc[u] # "notifyLast"
      BY <2>2, <2>3 DEF AllocInv, SampleInv, Holding
  <2>5. Releasing # Users
      BY <2>3, <2>4 DEF Releasing
  <2> QED
      BY <1>1, <1>2, <2>5, FS_Subset
<1>4. refs \in 0..(2 + m)
  <2> HIDE DEF m, n
  <2>1. /\ committed \in BOOLEAN /\ decommitting \in BOOLEAN
        /\ committed => ~decommitting /\ owner = "owns"
      BY DEF AllocInv, Typed, CommitInv
  <2>2. refs = (IF owner # "gone" THEN 1 ELSE 0)
             + (IF committed \/ decommitting THEN 1 ELSE 0)
             + (IF owner = "decommitted" THEN 1 ELSE 0) + n
      BY DEF AllocInv, RefInv, n
  <2> QED
      BY <1>2, <1>3, <2>1, <2>2
<1> QED
    BY <1>4 DEF AllocInv, Typed, CommitInv, NotTooMany, TypeOK

-----------------------------------------------------------------------------
\* What the invariant says of samples, users and references.
LEMMA AllocImplied ==
    ASSUME AllocatorAssumption, AllocInv
    PROVE  /\ SamplesAreCounted /\ NoLostWakeup /\ SettledWhileInUse
           /\ OneOwnReference /\ AliveWhileInUse
<1>1. SamplesAreCounted
  <2> SUFFICES ASSUME NEW s \in 1..allocated
               PROVE  LET users == {u \in Users : hold[u] = s} IN
                      IF s \in free THEN users = {} /\ cRef[s] = 0
                      ELSE /\ users # {}
                           /\ cRef[s] = Cardinality({u \in users : pc[u] # "release"})
      BY DEF SamplesAreCounted
  <2>1. s \in 1..MaxCount /\ s # 0
      BY Constants DEF AllocInv, Typed
  <2>2. cRef[s] = Cardinality(Counted(s))
      BY <2>1 DEF AllocInv, SampleInv
  <2>3. {u \in {u \in Users : hold[u] = s} : pc[u] # "release"} = Counted(s)
      BY DEF Counted
  <2>4. CASE s \in free
    <3>1. \A u \in Users : hold[u] # s
        BY <2>1, <2>4 DEF AllocInv, SampleInv
    <3>2. Counted(s) = {}
        BY <3>1 DEF Counted
    <3> QED
        BY <2>2, <2>4, <3>1, <3>2, FS_EmptySet
  <2>5. CASE s \notin free
    <3>1. Holders(s) # {}
        BY <2>5 DEF AllocInv, SampleInv
    <3> QED
        BY <2>2, <2>3, <2>5, <3>1 DEF Holders
  <2> QED
      BY <2>4, <2>5
<1>2. NoLostWakeup
    BY DEF AllocInv
<1>3. SettledWhileInUse
  <2> SUFFICES ASSUME changed PROVE Outstanding = {}
      BY DEF SettledWhileInUse
  <2>1. free = 1..allocated
      BY DEF AllocInv, CommitInv
  <2> QED
      BY <2>1 DEF Outstanding
<1>4. OneOwnReference
    BY DEF AllocInv, RefInv, OneOwnReference, Releasing
<1>5. AliveWhileInUse
  <2> SUFFICES ASSUME Outstanding # {} PROVE refs > 0
      BY DEF AliveWhileInUse
  <2>1. free # 1..allocated
      BY DEF Outstanding
  <2>2. committed \/ decommitting
      BY <2>1 DEF AllocInv, CommitInv
  <2> QED
      BY <2>2, Numbers DEF AllocInv, RefInv
<1> QED
    BY <1>1, <1>2, <1>3, <1>4, <1>5

\* Whatever users share and release in whatever order, a free sample has no user,
\* and every other sample has as many as CMediaSample's count says.
THEOREM SamplesCounted == AllocatorAssumption /\ Spec => []SamplesAreCounted
<1> SUFFICES ASSUME AllocatorAssumption PROVE Spec => []SamplesAreCounted
    OBVIOUS
<1>1. AllocInv => SamplesAreCounted
    BY AllocImplied
<1> QED
    BY <1>1, AllocInvariant, PTL

\* amfilter.h's argument for m_lWaiting and the semaphore: no user of GetBuffer
\* waits without being counted, and none is counted while a sample is free.
THEOREM WakeupsAreNotLost == AllocatorAssumption /\ Spec => []NoLostWakeup
<1> SUFFICES ASSUME AllocatorAssumption PROVE Spec => []NoLostWakeup
    OBVIOUS
<1>1. AllocInv => NoLostWakeup
    BY AllocImplied
<1> QED
    BY <1>1, AllocInvariant, PTL

\* With samples in use the properties of the allocator have not been changed.
THEOREM SettledInUse == AllocatorAssumption /\ Spec => []SettledWhileInUse
<1> SUFFICES ASSUME AllocatorAssumption PROVE Spec => []SettledWhileInUse
    OBVIOUS
<1>1. AllocInv => SettledWhileInUse
    BY AllocImplied
<1> QED
    BY <1>1, AllocInvariant, PTL

\* Commit's AddRef has one Release, in Decommit or in the last ReleaseBuffer.
THEOREM OneReference == AllocatorAssumption /\ Spec => []OneOwnReference
<1> SUFFICES ASSUME AllocatorAssumption PROVE Spec => []OneOwnReference
    OBVIOUS
<1>1. AllocInv => OneOwnReference
    BY AllocImplied
<1> QED
    BY <1>1, AllocInvariant, PTL

\* A sample that somebody has yet to release still has its allocator.
THEOREM AliveInUse == AllocatorAssumption /\ Spec => []AliveWhileInUse
<1> SUFFICES ASSUME AllocatorAssumption PROVE Spec => []AliveWhileInUse
    OBVIOUS
<1>1. AllocInv => AliveWhileInUse
    BY AllocImplied
<1> QED
    BY <1>1, AllocInvariant, PTL

\* The allocator never loses more references than it has: it is let go once.
THEOREM NeverBelowZero == AllocatorAssumption /\ Spec => [](refs >= 0)
<1> SUFFICES ASSUME AllocatorAssumption PROVE Spec => [](refs >= 0)
    OBVIOUS
<1>1. AllocInv => refs >= 0
    BY Numbers DEF AllocInv, RefInv
<1> QED
    BY <1>1, AllocInvariant, PTL
=============================================================================
