------------------------- MODULE TransferServerProofs -------------------------
(* Theorems about TransferServer for any source directories, files,          *)
(* priorities, options and bounds, with their proofs.                        *)
EXTENDS TransferServer, FiniteSetTheorems, WellFoundedInduction, TLAPS

-----------------------------------------------------------------------------
(* The inductive invariant. *)

\* A time, or the like, for each destination of each source directory.
Table(T) == {t \in [Sources -> [Dests -> T] \cup [{"main"} -> T]] :
                \A s \in Sources : t[s] \in [DestsOf(s) -> T]}

WorldTypes ==
    /\ now \in 1 .. MaxTime
    /\ ctime \in [Files -> Times] /\ dir \in [Files -> Sources]
    /\ deleted \subseteq Files
    /\ atDest \in [Dests -> SUBSET Files] /\ copied \in [Dests -> SUBSET Files]
SharedTypes ==
    /\ stale \in [Sources -> {"UP_TO_DATE", "PROCESSING", "STALE"}]
    /\ staleFrom \in {NoPriority} \cup Priorities
    /\ cleared \in Table(Times) /\ saved \in Table(Times)
    /\ kicks \in Nat
CycleTypes ==
    /\ at \in {"wait", "scan", "files", "copying"}
    /\ prio \in {NoPriority} \cup Priorities
    /\ todo \subseteq Sources /\ jobs \subseteq Files \X Dests
    /\ latest \in [Sources -> Times] /\ latestCopied \in Table(Times \cup {Failed})

\* Of a directory nothing is to be copied, and nothing has been in this cycle.
JobsOf(s, d) == {j \in jobs : dir[j[1]] = s /\ j[2] = d}
Untouched(s) ==
    \A d \in DestsOf(s) : JobsOf(s, d) = {} /\ latestCopied[s][d] = 0

\* A file appears no earlier than now, so no time kept covers one that is still
\* to appear; a scan that could examine no destination may have seen files as
\* young as itself, but then its time is not used.
Past ==
    /\ \A f \in Files : ctime[f] <= now
    /\ \A s \in Sources :
          /\ latest[s] < now \/ Untouched(s)
          /\ \A d \in DestsOf(s) : cleared[s][d] < now /\ saved[s][d] < now

\* The files that a table of times covers have been copied.
Covers(table) ==
    \A f \in Files : \A d \in DestsOf(dir[f]) :
        ctime[f] # 0 /\ ctime[f] <= table[dir[f]][d] => f \in copied[d]
AllCovered ==
    /\ Covers(cleared) /\ Covers(saved)
    /\ \A d \in Dests : atDest[d] \subseteq copied[d]

\* What a scan found is to be copied: of a directory and a destination with
\* files to copy every file found has been copied or is a job, unless something
\* went wrong with it.
Accounted(s, d) ==
    \A f \in Files : dir[f] = s /\ ctime[f] # 0 /\ ctime[f] <= latest[s] =>
        f \in copied[d] \/ <<f, d>> \in jobs
JobsKnown ==
    \A j \in jobs :
        /\ j[2] \in DestsOf(dir[j[1]])
        /\ ctime[j[1]] # 0 /\ ctime[j[1]] <= latest[dir[j[1]]]
ScanOrder ==
    /\ todo # {} => at = "scan"
    /\ \A s \in todo : \A j \in jobs : dir[j[1]] # s
    /\ at \in {"wait", "scan"} =>
          \A s \in Sources : \A d \in DestsOf(s) : latestCopied[s][d] = 0
AllAccounted ==
    \A s \in Sources : \A d \in DestsOf(s) :
        /\ latestCopied[s][d] <= latest[s]
        /\ latestCopied[s][d] \notin {0, Failed} => Accounted(s, d)
        /\ JobsOf(s, d) # {} => latestCopied[s][d] = Failed \/ Accounted(s, d)

\* The file being copied is an oldest one still to be.
Copying ==
    at = "copying" =>
        \E j \in jobs : /\ current = {j} /\ j \in NextJobs
                        /\ latestCopied[dir[j[1]]][j[2]] # Failed

\* The copying process is woken when a directory is stale.
Pending ==
    /\ StaleIsPending
    /\ staleFrom # NoPriority => kicks > 0

IInv ==
    /\ WorldTypes /\ SharedTypes /\ CycleTypes
    /\ Past /\ AllCovered /\ DeletedWasCopied
    /\ JobsKnown /\ ScanOrder /\ AllAccounted /\ Copying /\ Pending
-----------------------------------------------------------------------------
(* Minima and maxima, and tables of times. *)

Less == {p \in Nat \X Nat : p[1] < p[2]}

LEMMA LessWellFounded == IsWellFoundedOn(Less, Nat)
  BY NatLessThanWellFounded, Zenon DEF OpToRel, Less

LEMMA MinNat ==
    ASSUME NEW S \in SUBSET Nat, S # {}
    PROVE  Min(S) \in S /\ \A y \in S : Min(S) <= y
  <1>1. \A a, b \in Nat : a < b => <<a, b>> \in Less
    <2> SUFFICES ASSUME NEW a \in Nat, NEW b \in Nat, a < b
                 PROVE  <<a, b>> \in Less
      OBVIOUS
    <2>1. <<a, b>> \in Nat \X Nat /\ <<a, b>>[1] < <<a, b>>[2]
      OBVIOUS
    <2> QED  BY <2>1 DEF Less
  <1>2. PICK x \in S : \A y \in S : ~(<<y, x>> \in Less)
    BY LessWellFounded, WFMin
  <1>3. \A y \in S : x <= y
    <2> SUFFICES ASSUME NEW y \in S, ~(x <= y)
                 PROVE  FALSE
      OBVIOUS
    <2>1. x \in Nat /\ y \in Nat /\ y < x
      OBVIOUS
    <2>2. <<y, x>> \in Less
      BY <1>1, <2>1
    <2> QED  BY <1>2, <2>2
  <1> QED  BY <1>3 DEF Min

LEMMA MaxNat ==
    ASSUME NEW S \in SUBSET Nat, S # {}, NEW n \in Nat, \A y \in S : y <= n
    PROVE  Max(S) \in S /\ \A y \in S : Max(S) >= y
  <1> DEFINE T == {n - y : y \in S}
  <1>1. \A y \in S : n - y \in Nat
    OBVIOUS
  <1>2. T \in SUBSET Nat /\ T # {}
    BY <1>1
  <1>3. Min(T) \in T /\ \A z \in T : Min(T) <= z
    BY <1>2, MinNat
  <1>4. PICK x \in S : Min(T) = n - x
    BY <1>3
  <1>5. \A y \in S : n - y \in T
    OBVIOUS
  <1> HIDE DEF T
  <1>6. \A y \in S : x >= y
    <2> SUFFICES ASSUME NEW y \in S
                 PROVE  x >= y
      OBVIOUS
    <2>1. n - x <= n - y
      BY <1>3, <1>4, <1>5
    <2>2. x \in Nat /\ y \in Nat
      OBVIOUS
    <2> QED  BY <2>1, <2>2
  <1> QED  BY <1>6 DEF Max

LEMMA MaxPair ==
    ASSUME NEW a \in Int, NEW b \in Int
    PROVE  Max({a, b}) \in {a, b} /\ Max({a, b}) >= a /\ Max({a, b}) >= b
  <1>1. \E x \in {a, b} : \A y \in {a, b} : x >= y
    OBVIOUS
  <1>2. Max({a, b}) \in {a, b} /\ \A y \in {a, b} : Max({a, b}) >= y
    BY <1>1 DEF Max
  <1> QED  BY <1>2

\* The first priority, and the one after a priority.
LEMMA FirstPriority ==
    /\ Min(Priorities) \in Priorities
    /\ \A s \in Sources : Min(Priorities) \in 1 .. Priority[s]
  <1>1. Priorities \in SUBSET (Nat \ {0}) /\ Priorities # {}
    BY PriorityAssumption, SourcesAssumption DEF Priorities
  <1>2. Min(Priorities) \in Priorities /\ \A y \in Priorities : Min(Priorities) <= y
    BY <1>1, MinNat
  <1>3. ASSUME NEW s \in Sources
        PROVE  Min(Priorities) \in 1 .. Priority[s]
    <2>1. Priority[s] \in Priorities /\ Priority[s] \in Nat
      BY PriorityAssumption DEF Priorities
    <2>2. Min(Priorities) \in Nat \ {0} /\ Min(Priorities) <= Priority[s]
      BY <1>1, <1>2, <2>1
    <2> QED  BY <2>1, <2>2
  <1> QED  BY <1>2, <1>3

LEMMA PriorityAfter ==
    ASSUME NEW p
    PROVE  NextPriority(p) \in {NoPriority} \cup Priorities
  <1> DEFINE after == {q \in Priorities : StringBefore(p, q)}
             least(q) == \A r \in after : Place(q) <= Place(r)
  <1>1. NextPriority(p) = IF after = {} THEN NoPriority ELSE CHOOSE q \in after : least(q)
    BY DEF NextPriority
  <1>2. IsFiniteSet(Priorities)
    <2> DEFINE f == [s \in Sources |-> Priority[s]]
    <2>1. f \in Surjection(Sources, Priorities)
      BY DEF Priorities, Surjection
    <2> QED  BY <2>1, SourcesAssumption, FS_Surjection
  <1>3. \A q : Place(q) \in Nat
    <2> SUFFICES ASSUME NEW q
                 PROVE  Place(q) \in Nat
      OBVIOUS
    <2> DEFINE before == {r \in Priorities : StringBefore(r, q)}
    <2>1. before \in SUBSET Priorities
      OBVIOUS
    <2> HIDE DEF before
    <2>2. IsFiniteSet(before)
      BY <1>2, <2>1, FS_Subset
    <2>3. Cardinality(before) \in Nat
      BY <2>2, FS_CardinalityType
    <2> QED  BY <2>3 DEF before, Place
  <1>4. after \subseteq Priorities
    OBVIOUS
  <1> HIDE DEF after
  <1>5. ASSUME after # {}
        PROVE  \E q \in after : least(q)
    <2> DEFINE places == {Place(q) : q \in after}
    <2>1. places \in SUBSET Nat /\ places # {}
      BY <1>3, <1>5
    <2>2. Min(places) \in places /\ \A y \in places : Min(places) <= y
      BY <2>1, MinNat
    <2>3. PICK q \in after : Place(q) = Min(places)
      BY <2>2
    <2>4. \A r \in after : Place(r) \in places
      OBVIOUS
    <2> HIDE DEF places
    <2>5. least(q)
      BY <2>2, <2>3, <2>4
    <2> QED  BY <2>5
  <1> HIDE DEF least
  <1>6. after # {} => (CHOOSE q \in after : least(q)) \in after
    BY <1>5
  <1> QED  BY <1>1, <1>4, <1>6

LEMMA DestsOfType ==
    \A s \in Sources : DestsOf(s) \in {Dests, {"main"}} /\ DestsOf(s) \subseteq Dests
  BY DEF DestsOf, Dests

\* A row of a table, and an entry, replaced.
LEMMA TableRow ==
    ASSUME NEW T, NEW t \in Table(T), NEW s \in Sources, NEW r \in [DestsOf(s) -> T]
    PROVE  /\ [t EXCEPT ![s] = r] \in Table(T)
           /\ [t EXCEPT ![s] = r][s] = r
           /\ \A q \in Sources : q # s => [t EXCEPT ![s] = r][q] = t[q]
  <1>1. t \in [Sources -> [Dests -> T] \cup [{"main"} -> T]]
        /\ \A q \in Sources : t[q] \in [DestsOf(q) -> T]
    BY DEF Table
  <1>2. r \in [Dests -> T] \cup [{"main"} -> T]
    BY DestsOfType
  <1>3. [t EXCEPT ![s] = r] \in [Sources -> [Dests -> T] \cup [{"main"} -> T]]
    BY <1>1, <1>2
  <1>4. /\ [t EXCEPT ![s] = r][s] = r
        /\ \A q \in Sources : q # s => [t EXCEPT ![s] = r][q] = t[q]
    BY <1>1
  <1>5. \A q \in Sources : [t EXCEPT ![s] = r][q] \in [DestsOf(q) -> T]
    BY <1>1, <1>4
  <1> QED  BY <1>3, <1>4, <1>5 DEF Table

\* The entry of table t for s and d becomes v.
Put(t, s, d, v) == [t EXCEPT ![s][d] = v]

LEMMA PutFacts ==
    ASSUME NEW T, NEW t \in Table(T), NEW s \in Sources, NEW d \in DestsOf(s), NEW v \in T
    PROVE  /\ Put(t, s, d, v) \in Table(T)
           /\ Put(t, s, d, v)[s][d] = v
           /\ \A q \in Sources : \A e \in DestsOf(q) :
                 q # s \/ e # d => Put(t, s, d, v)[q][e] = t[q][e]
  <1> DEFINE r == [t[s] EXCEPT ![d] = v]
  <1>1. t[s] \in [DestsOf(s) -> T]
    BY DEF Table
  <1>2. r \in [DestsOf(s) -> T] /\ r[d] = v /\ \A e \in DestsOf(s) : e # d => r[e] = t[s][e]
    BY <1>1
  <1>3. Put(t, s, d, v) = [t EXCEPT ![s] = r]
    BY DEF Put
  <1> HIDE DEF r
  <1> DEFINE u == [t EXCEPT ![s] = r]
  <1>4. /\ u \in Table(T) /\ u[s] = r
        /\ \A q \in Sources : q # s => u[q] = t[q]
    BY <1>2, TableRow
  <1> HIDE DEF u
  <1>5. \A q \in Sources : \A e \in DestsOf(q) : q # s \/ e # d => u[q][e] = t[q][e]
    <2> SUFFICES ASSUME NEW q \in Sources, NEW e \in DestsOf(q), q # s \/ e # d
                 PROVE  u[q][e] = t[q][e]
      OBVIOUS
    <2>1. CASE q = s
      BY <1>2, <1>4, <2>1
    <2>2. CASE q # s
      BY <1>4, <2>2
    <2> QED  BY <2>1, <2>2
  <1>6. Put(t, s, d, v) = u
    BY <1>3 DEF u
  <1> QED  BY <1>2, <1>4, <1>5, <1>6

\* No time yet, of any destination.
ZeroTable == [s \in Sources |-> [d \in DestsOf(s) |-> 0]]

LEMMA ZeroTableFacts ==
    /\ ZeroTable \in Table(Times) /\ ZeroTable \in Table(Times \cup {Failed})
    /\ \A s \in Sources : \A d \in DestsOf(s) : ZeroTable[s][d] = 0
  <1>1. \A s \in Sources : ZeroTable[s] = [d \in DestsOf(s) |-> 0]
    BY DEF ZeroTable
  <1>2. 0 \in Times
    BY SourcesAssumption DEF Times
  <1>3. \A s \in Sources : ZeroTable[s] \in [DestsOf(s) -> Times]
    BY <1>1, <1>2
  <1>4. ZeroTable \in Table(Times)
    <2>1. \A s \in Sources : ZeroTable[s] \in [Dests -> Times] \cup [{"main"} -> Times]
      BY <1>3, DestsOfType
    <2>2. ZeroTable \in [Sources -> [Dests -> Times] \cup [{"main"} -> Times]]
      BY <2>1 DEF ZeroTable
    <2> QED  BY <1>3, <2>2 DEF Table
  <1>5. ZeroTable \in Table(Times \cup {Failed})
    <2> DEFINE T == Times \cup {Failed}
    <2>1. \A s \in Sources : ZeroTable[s] \in [DestsOf(s) -> T]
      BY <1>1, <1>2
    <2> HIDE DEF T
    <2>2. \A s \in Sources : ZeroTable[s] \in [Dests -> T] \cup [{"main"} -> T]
      BY <2>1, DestsOfType
    <2>3. ZeroTable \in [Sources -> [Dests -> T] \cup [{"main"} -> T]]
      BY <2>2 DEF ZeroTable
    <2>4. ZeroTable \in Table(T)
      BY <2>1, <2>3 DEF Table
    <2> QED  BY <2>4 DEF T
  <1> QED  BY <1>1, <1>4, <1>5

LEMMA TimesPut ==
    ASSUME NEW t \in Table(Times), NEW s \in Sources, NEW d \in DestsOf(s),
           NEW v \in Times
    PROVE  /\ Put(t, s, d, v) \in Table(Times)
           /\ Put(t, s, d, v)[s][d] = v
           /\ \A q \in Sources : \A e \in DestsOf(q) :
                 q # s \/ e # d => Put(t, s, d, v)[q][e] = t[q][e]
  BY PutFacts

LEMMA LatestPut ==
    ASSUME NEW t \in Table(Times \cup {Failed}), NEW s \in Sources, NEW d \in DestsOf(s),
           NEW v \in Times \cup {Failed}
    PROVE  /\ Put(t, s, d, v) \in Table(Times \cup {Failed})
           /\ Put(t, s, d, v)[s][d] = v
           /\ \A q \in Sources : \A e \in DestsOf(q) :
                 q # s \/ e # d => Put(t, s, d, v)[q][e] = t[q][e]
  BY PutFacts


\* A directory stays untouched as long as no job is added and no file of it ends.
LEMMA UntouchedStays ==
    ASSUME NEW s, Untouched(s), dir' = dir, jobs' \subseteq jobs,
           \A d \in DestsOf(s) : latestCopied'[s][d] = latestCopied[s][d]
    PROVE  Untouched(s)'
  BY DEF Untouched, JobsOf

\* The files of a directory with jobs were all older than the scan.
LEMMA JobIsPast ==
    ASSUME Past, JobsKnown, NEW j \in jobs, dir[j[1]] \in Sources
    PROVE  latest[dir[j[1]]] < now
  <1>1. j \in JobsOf(dir[j[1]], j[2]) /\ j[2] \in DestsOf(dir[j[1]])
    BY DEF JobsOf, JobsKnown
  <1> QED  BY <1>1 DEF Past, Untouched

\* A job that may be next is as old as any for its destination.
LEMMA NextJobIsOldest ==
    ASSUME WorldTypes, CycleTypes, NEW j \in NextJobs, NEW i \in jobs, i[2] = j[2]
    PROVE  ctime[i[1]] >= ctime[j[1]]
  <1>1. j \in jobs /\ i[1] \in Files /\ j[1] \in Files
    BY DEF NextJobs, CycleTypes
  <1>2. ctime[i[1]] \in Nat /\ ctime[j[1]] \in Nat
    BY <1>1, SourcesAssumption DEF WorldTypes, Times
  <1>3. CASE i = j
    BY <1>2, <1>3
  <1>4. CASE i # j
    <2>1. ~Before(i, j)
      BY <1>4 DEF NextJobs
    <2> QED  BY <1>2, <2>1 DEF Before
  <1> QED  BY <1>3, <1>4

-----------------------------------------------------------------------------
(* Steps around the server. *)

\* Time passes.
LEMMA TickKeeps ==
    ASSUME IInv, Tick
    PROVE  IInv'
  <1>1. /\ WorldTypes /\ SharedTypes /\ CycleTypes /\ Past /\ AllCovered /\ DeletedWasCopied
        /\ JobsKnown /\ ScanOrder /\ AllAccounted /\ Copying /\ Pending
    BY DEF IInv
  <1>2. /\ ctime' = ctime /\ dir' = dir /\ deleted' = deleted /\ atDest' = atDest
        /\ stale' = stale /\ staleFrom' = staleFrom /\ cleared' = cleared /\ kicks' = kicks
        /\ saved' = saved /\ at' = at /\ prio' = prio /\ todo' = todo /\ jobs' = jobs
        /\ current' = current /\ latest' = latest /\ latestCopied' = latestCopied
        /\ copied' = copied
    BY DEF Tick, source, shared, cycle
  <1>3. now < MaxTime /\ now' = now + 1
    BY DEF Tick
  <1>4. SharedTypes'
    BY <1>1, <1>2 DEF SharedTypes
  <1>5. CycleTypes'
    BY <1>1, <1>2 DEF CycleTypes
  <1>6. AllCovered'
    BY <1>1, <1>2 DEF AllCovered, Covers
  <1>7. DeletedWasCopied'
    BY <1>1, <1>2 DEF DeletedWasCopied
  <1>8. JobsKnown'
    BY <1>1, <1>2 DEF JobsKnown
  <1>9. ScanOrder'
    BY <1>1, <1>2 DEF ScanOrder
  <1>10. AllAccounted'
    BY <1>1, <1>2 DEF AllAccounted, Accounted, JobsOf
  <1>11. Copying'
    BY <1>1, <1>2 DEF Copying, NextJobs, Before
  <1>12. Pending'
    BY <1>1, <1>2 DEF Pending, StaleIsPending
  <1>13. WorldTypes'
    BY <1>1, <1>2, <1>3, SourcesAssumption DEF WorldTypes
  <1>14. Past'
    BY <1>1, <1>2, <1>3, SourcesAssumption
    DEF Past, Untouched, JobsOf, WorldTypes, SharedTypes, CycleTypes, Table, Times
  <1> QED  BY <1>4, <1>5, <1>6, <1>7, <1>8, <1>9, <1>10, <1>11, <1>12, <1>13, <1>14
  DEF IInv

\* A file appears: no time kept covers it, and it is nobody's job yet.
LEMMA AppearKeeps ==
    ASSUME IInv, Appear
    PROVE  IInv'
  <1>1. /\ WorldTypes /\ SharedTypes /\ CycleTypes /\ Past /\ AllCovered /\ DeletedWasCopied
        /\ JobsKnown /\ ScanOrder /\ AllAccounted /\ Copying /\ Pending
    BY DEF IInv
  <1>2. /\ now' = now /\ dir' = dir /\ deleted' = deleted /\ atDest' = atDest
        /\ stale' = stale
        /\ staleFrom' = staleFrom /\ cleared' = cleared /\ kicks' = kicks /\ saved' = saved
        /\ at' = at /\ prio' = prio /\ todo' = todo /\ jobs' = jobs /\ current' = current
        /\ latest' = latest /\ latestCopied' = latestCopied /\ copied' = copied
    BY DEF Appear, source, shared, cycle
  <1>3. PICK f \in Files : ctime[f] = 0 /\ ctime' = [ctime EXCEPT ![f] = now]
    BY DEF Appear
  <1>4. /\ ctime' \in [Files -> Times] /\ now \in Times /\ ctime'[f] = now
        /\ \A g \in Files : g # f => ctime'[g] = ctime[g]
    BY <1>1, <1>3, SourcesAssumption DEF WorldTypes, Times
  <1>5. now \in Nat /\ now >= 1 /\ \A g \in Files : ctime[g] \in Nat
    BY <1>1, SourcesAssumption DEF WorldTypes, Times
  <1>6. \A i \in jobs : i[1] \in Files /\ ctime'[i[1]] = ctime[i[1]]
    BY <1>1, <1>3, <1>4 DEF JobsKnown, CycleTypes
  <1>7. NextJobs' = NextJobs
    <2>1. \A i, j \in jobs : Before(i, j)' <=> Before(i, j)
      BY <1>6 DEF Before
    <2> QED  BY <1>2, <2>1 DEF NextJobs
  <1>8. SharedTypes'
    BY <1>1, <1>2 DEF SharedTypes
  <1>9. CycleTypes'
    BY <1>1, <1>2 DEF CycleTypes
  <1>10. DeletedWasCopied'
    BY <1>1, <1>2 DEF DeletedWasCopied
  <1>11. ScanOrder'
    BY <1>1, <1>2 DEF ScanOrder
  <1>12. Pending'
    BY <1>1, <1>2 DEF Pending, StaleIsPending
  <1>13. WorldTypes'
    BY <1>1, <1>2, <1>3, <1>4, <1>5, <1>6 DEF WorldTypes
  <1>14. Past'
    BY <1>1, <1>2, <1>3, <1>4, <1>5, <1>6 DEF Past, Untouched, JobsOf
  <1>15. AllCovered'
    <2> SUFFICES ASSUME NEW g \in Files, NEW d \in DestsOf(dir[g]), ctime'[g] # 0,
                        ctime'[g] <= cleared[dir[g]][d] \/ ctime'[g] <= saved[dir[g]][d]
                 PROVE  g \in copied[d]
      BY <1>1, <1>2 DEF AllCovered, Covers
    <2>1. dir[g] \in Sources /\ cleared[dir[g]][d] \in Nat /\ saved[dir[g]][d] \in Nat
      BY <1>1, SourcesAssumption DEF WorldTypes, SharedTypes, Table, Times
    <2>2. cleared[dir[g]][d] < now /\ saved[dir[g]][d] < now
      BY <1>1, <2>1 DEF Past
    <2>3. g # f
      BY <1>4, <1>5, <2>1, <2>2
    <2> QED  BY <1>1, <1>4, <2>3 DEF AllCovered, Covers
  <1>16. JobsKnown'
    BY <1>1, <1>2, <1>3, <1>4, <1>5, <1>6 DEF JobsKnown
  <1>17. AllAccounted'
    <2> SUFFICES ASSUME NEW s \in Sources, NEW d \in DestsOf(s), Accounted(s, d),
                        ~Untouched(s)
                 PROVE  Accounted(s, d)'
      BY <1>1, <1>2 DEF AllAccounted, JobsOf, Untouched
    <2> SUFFICES ASSUME NEW g \in Files, dir[g] = s, ctime'[g] # 0, ctime'[g] <= latest[s]
                 PROVE  g \in copied[d] \/ <<g, d>> \in jobs
      BY <1>2 DEF Accounted
    <2>1. latest[s] \in Nat /\ latest[s] < now
      BY <1>1, SourcesAssumption DEF CycleTypes, Times, Past
    <2>2. g # f
      BY <1>4, <1>5, <2>1
    <2> QED  BY <1>4, <2>2 DEF Accounted
  <1>18. Copying'
    BY <1>1, <1>2, <1>7 DEF Copying
  <1> QED  BY <1>8, <1>9, <1>10, <1>11, <1>12, <1>13, <1>14, <1>15, <1>16, <1>17, <1>18
  DEF IInv

\* A destination holds no more than before.
LEMMA RemoveKeeps ==
    ASSUME IInv, Remove
    PROVE  IInv'
  <1>1. /\ WorldTypes /\ SharedTypes /\ CycleTypes /\ Past /\ AllCovered /\ DeletedWasCopied
        /\ JobsKnown /\ ScanOrder /\ AllAccounted /\ Copying /\ Pending
    BY DEF IInv
  <1>2. /\ now' = now /\ ctime' = ctime /\ dir' = dir /\ deleted' = deleted
        /\ stale' = stale
        /\ staleFrom' = staleFrom /\ cleared' = cleared /\ kicks' = kicks /\ saved' = saved
        /\ at' = at /\ prio' = prio /\ todo' = todo /\ jobs' = jobs /\ current' = current
        /\ latest' = latest /\ latestCopied' = latestCopied /\ copied' = copied
    BY DEF Remove, source, shared, cycle
  <1>3. PICK d \in Dests, f \in Files : atDest' = [atDest EXCEPT ![d] = @ \ {f}]
    BY <1>1 DEF Remove, WorldTypes
  <1>4. atDest' \in [Dests -> SUBSET Files]
        /\ \A e \in Dests : atDest'[e] \subseteq atDest[e]
    BY <1>1, <1>3 DEF WorldTypes
  <1>5. SharedTypes'
    BY <1>1, <1>2 DEF SharedTypes
  <1>6. CycleTypes'
    BY <1>1, <1>2 DEF CycleTypes
  <1>7. Past'
    BY <1>1, <1>2 DEF Past, Untouched, JobsOf
  <1>8. DeletedWasCopied'
    BY <1>1, <1>2 DEF DeletedWasCopied
  <1>9. JobsKnown'
    BY <1>1, <1>2 DEF JobsKnown
  <1>10. ScanOrder'
    BY <1>1, <1>2 DEF ScanOrder
  <1>11. AllAccounted'
    BY <1>1, <1>2 DEF AllAccounted, Accounted, JobsOf
  <1>12. Copying'
    BY <1>1, <1>2 DEF Copying, NextJobs, Before
  <1>13. Pending'
    BY <1>1, <1>2 DEF Pending, StaleIsPending
  <1>14. WorldTypes'
    BY <1>1, <1>2, <1>4 DEF WorldTypes
  <1>15. AllCovered'
    BY <1>1, <1>2, <1>4 DEF AllCovered, Covers
  <1> QED  BY <1>5, <1>6, <1>7, <1>8, <1>9, <1>10, <1>11, <1>12, <1>13, <1>14, <1>15
  DEF IInv

-----------------------------------------------------------------------------
(* Steps of the process that serves clients. *)

\* A client names a directory: it is stale, and a cycle is due.
LEMMA AddPairKeeps ==
    ASSUME IInv, NEW s \in Sources, AddPair(s)
    PROVE  IInv'
  <1>1. /\ WorldTypes /\ SharedTypes /\ CycleTypes /\ Past /\ AllCovered /\ DeletedWasCopied
        /\ JobsKnown /\ ScanOrder /\ AllAccounted /\ Copying /\ Pending
    BY DEF IInv
  <1>2. /\ now' = now /\ ctime' = ctime /\ dir' = dir /\ deleted' = deleted
        /\ atDest' = atDest
        /\ cleared' = cleared /\ saved' = saved /\ at' = at /\ prio' = prio /\ todo' = todo
        /\ jobs' = jobs /\ current' = current /\ latest' = latest
        /\ latestCopied' = latestCopied /\ copied' = copied
    BY DEF AddPair, source, shared, cycle
  <1>3. /\ stale' = [stale EXCEPT ![s] = "STALE"]
        /\ kicks' = (IF staleFrom = NoPriority THEN kicks + 1 ELSE kicks)
        /\ staleFrom' = (IF staleFrom = NoPriority \/ staleFrom > Priority[s]
                         THEN Priority[s] ELSE staleFrom)
    BY DEF AddPair
  <1>4. /\ Priority[s] \in Priorities /\ Priority[s] \in Nat \ {0} /\ kicks \in Nat
        /\ staleFrom \in Nat /\ staleFrom \in {NoPriority} \cup Priorities
    BY <1>1, PriorityAssumption DEF Priorities, SharedTypes, NoPriority
  <1>5. kicks' \in Nat /\ kicks' > 0
    BY <1>1, <1>3, <1>4 DEF Pending, NoPriority
  <1>6. staleFrom' \in 1 .. Priority[s]
        /\ (staleFrom # NoPriority => staleFrom' <= staleFrom)
    BY <1>3, <1>4 DEF NoPriority
  <1>7. WorldTypes'
    BY <1>1, <1>2 DEF WorldTypes
  <1>8. CycleTypes'
    BY <1>1, <1>2 DEF CycleTypes
  <1>9. Past'
    BY <1>1, <1>2 DEF Past, Untouched, JobsOf
  <1>10. AllCovered'
    BY <1>1, <1>2 DEF AllCovered, Covers
  <1>11. DeletedWasCopied'
    BY <1>1, <1>2 DEF DeletedWasCopied
  <1>12. JobsKnown'
    BY <1>1, <1>2 DEF JobsKnown
  <1>13. ScanOrder'
    BY <1>1, <1>2 DEF ScanOrder
  <1>14. AllAccounted'
    BY <1>1, <1>2 DEF AllAccounted, Accounted, JobsOf
  <1>15. Copying'
    BY <1>1, <1>2 DEF Copying, NextJobs, Before
  <1>16. SharedTypes'
    BY <1>1, <1>2, <1>3, <1>4, <1>5, <1>6 DEF SharedTypes
  <1>17. Pending'
    <2> SUFFICES ASSUME NEW q \in Sources, stale'[q] = "STALE"
                 PROVE  staleFrom' \in 1 .. Priority[q]
      BY <1>5 DEF Pending, StaleIsPending
    <2>1. CASE q = s
      BY <1>6, <2>1
    <2>2. CASE q # s
      <3>1. stale[q] = "STALE"
        BY <1>1, <1>3, <2>2 DEF SharedTypes
      <3>2. staleFrom \in 1 .. Priority[q] /\ Priority[q] \in Nat
        BY <1>1, <3>1, PriorityAssumption DEF Pending, StaleIsPending
      <3> QED  BY <1>4, <1>6, <3>2, PriorityAssumption DEF NoPriority
    <2> QED  BY <2>1, <2>2
  <1> QED  BY <1>7, <1>8, <1>9, <1>10, <1>11, <1>12, <1>13, <1>14, <1>15, <1>16, <1>17
  DEF IInv

\* The server starts again from the paths file.
LEMMA RestartKeeps ==
    ASSUME IInv, Restart
    PROVE  IInv'
  <1>1. /\ WorldTypes /\ SharedTypes /\ CycleTypes /\ Past /\ AllCovered /\ DeletedWasCopied
        /\ JobsKnown /\ ScanOrder /\ AllAccounted /\ Copying /\ Pending
    BY DEF IInv
  <1>2. /\ now' = now /\ ctime' = ctime /\ dir' = dir /\ deleted' = deleted
        /\ atDest' = atDest
        /\ saved' = saved /\ copied' = copied
    BY DEF Restart, source
  <1>3. /\ cleared' = saved /\ stale' = [s \in Sources |-> "STALE"]
        /\ staleFrom' = Min(Priorities) /\ kicks' = 1
    BY DEF Restart
  <1>4. /\ at' = "wait" /\ prio' = NoPriority /\ todo' = {} /\ jobs' = {} /\ current' = {}
        /\ latest' = [s \in Sources |-> 0]
        /\ latestCopied' = ZeroTable
    BY DEF Restart, ZeroTable
  <1>5. /\ latest' \in [Sources -> Times] /\ \A s \in Sources : latest'[s] = 0
        /\ latestCopied' \in Table(Times \cup {Failed})
        /\ \A s \in Sources : \A d \in DestsOf(s) : latestCopied'[s][d] = 0
    BY <1>4, ZeroTableFacts, SourcesAssumption DEF Times
  <1>6. WorldTypes'
    BY <1>1, <1>2 DEF WorldTypes
  <1>7. DeletedWasCopied'
    BY <1>1, <1>2 DEF DeletedWasCopied
  <1>8. SharedTypes'
    BY <1>1, <1>2, <1>3, FirstPriority DEF SharedTypes
  <1>9. CycleTypes'
    BY <1>1, <1>2, <1>4, <1>5 DEF CycleTypes
  <1>10. Past'
    BY <1>1, <1>2, <1>3, <1>4, <1>5 DEF Past, WorldTypes
  <1>11. AllCovered'
    BY <1>1, <1>2, <1>3 DEF AllCovered, Covers
  <1>12. JobsKnown'
    BY <1>1, <1>2, <1>4, <1>5 DEF JobsKnown
  <1>13. ScanOrder'
    BY <1>1, <1>2, <1>4, <1>5 DEF ScanOrder
  <1>14. AllAccounted'
    BY <1>1, <1>2, <1>4, <1>5 DEF AllAccounted, JobsOf
  <1>15. Copying'
    BY <1>1, <1>2, <1>4, <1>5 DEF Copying, NextJobs, Before
  <1>16. Pending'
    BY <1>1, <1>2, <1>3, FirstPriority DEF Pending, StaleIsPending
  <1> QED  BY <1>6, <1>7, <1>8, <1>9, <1>10, <1>11, <1>12, <1>13, <1>14, <1>15, <1>16
  DEF IInv

-----------------------------------------------------------------------------
(* Steps of the copying process. *)

\* What is begun with a priority: no jobs, and all times are zero.
LEMMA ScanPriorityFacts ==
    ASSUME NEW p \in {NoPriority} \cup Priorities, NEW marks, ScanPriority(p, marks)
    PROVE  /\ prio' = p /\ jobs' = {} /\ current' = {} /\ todo' \subseteq Sources
           /\ at' \in {"wait", "scan"} /\ (todo' # {} => at' = "scan")
           /\ latest' \in [Sources -> Times] /\ \A s \in Sources : latest'[s] = 0
           /\ latestCopied' \in Table(Times \cup {Failed})
           /\ \A s \in Sources : \A d \in DestsOf(s) : latestCopied'[s][d] = 0
  <1>1. /\ latest' = [s \in Sources |-> 0]
        /\ latestCopied' = ZeroTable
    BY DEF ScanPriority, ZeroTable
  <1>2. /\ latest' \in [Sources -> Times] /\ \A s \in Sources : latest'[s] = 0
        /\ latestCopied' \in Table(Times \cup {Failed})
        /\ \A s \in Sources : \A d \in DestsOf(s) : latestCopied'[s][d] = 0
    BY <1>1, ZeroTableFacts, SourcesAssumption DEF Times
  <1>3. p = NoPriority => todo' = {}
    BY PriorityAssumption DEF ScanPriority, NoPriority
  <1> QED  BY <1>2, <1>3 DEF ScanPriority

\* A cycle begins: what was stale is being processed.
LEMMA BeginCycleKeeps ==
    ASSUME IInv, BeginCycle
    PROVE  IInv'
  <1>1. /\ WorldTypes /\ SharedTypes /\ CycleTypes /\ Past /\ AllCovered /\ DeletedWasCopied
        /\ JobsKnown /\ ScanOrder /\ AllAccounted /\ Copying /\ Pending
    BY DEF IInv
  <1>2. /\ now' = now /\ ctime' = ctime /\ dir' = dir /\ deleted' = deleted
        /\ atDest' = atDest
        /\ cleared' = cleared /\ saved' = saved /\ copied' = copied
    BY DEF BeginCycle, source, shared
  <1>3. /\ prio' \in {NoPriority} \cup Priorities /\ jobs' = {} /\ current' = {}
        /\ todo' \subseteq Sources /\ at' \in {"wait", "scan"}
        /\ (todo' # {} => at' = "scan")
        /\ latest' \in [Sources -> Times] /\ \A s \in Sources : latest'[s] = 0
        /\ latestCopied' \in Table(Times \cup {Failed})
        /\ \A s \in Sources : \A d \in DestsOf(s) : latestCopied'[s][d] = 0
    <2>1. ScanPriority(NextPriority(NoPriority), stale')
      BY DEF BeginCycle
    <2> QED  BY <2>1, PriorityAfter, ScanPriorityFacts
  <1>4. /\ staleFrom' = NoPriority
        /\ stale' = [s \in Sources |->
                        IF stale[s] = "UP_TO_DATE" THEN stale[s] ELSE "PROCESSING"]
        /\ kicks' = kicks \/ (kicks > 0 /\ kicks' = kicks - 1)
    BY DEF BeginCycle
  <1>5. WorldTypes'
    BY <1>1, <1>2 DEF WorldTypes
  <1>6. AllCovered'
    BY <1>1, <1>2 DEF AllCovered, Covers
  <1>7. DeletedWasCopied'
    BY <1>1, <1>2 DEF DeletedWasCopied
  <1>8. SharedTypes'
    BY <1>1, <1>2, <1>4 DEF SharedTypes
  <1>9. CycleTypes'
    BY <1>1, <1>2, <1>3 DEF CycleTypes
  <1>10. Past'
    BY <1>1, <1>2, <1>3 DEF Past, WorldTypes
  <1>11. JobsKnown'
    BY <1>1, <1>2, <1>3 DEF JobsKnown
  <1>12. ScanOrder'
    BY <1>1, <1>2, <1>3 DEF ScanOrder
  <1>13. AllAccounted'
    BY <1>1, <1>2, <1>3 DEF AllAccounted, JobsOf
  <1>14. Copying'
    BY <1>1, <1>2, <1>3 DEF Copying, NextJobs, Before
  <1>15. Pending'
    BY <1>1, <1>2, <1>4 DEF Pending, StaleIsPending
  <1> QED  BY <1>5, <1>6, <1>7, <1>8, <1>9, <1>10, <1>11, <1>12, <1>13, <1>14, <1>15
  DEF IInv

\* What a scan deletes has been copied to every destination.
LEMMA RedundantFacts ==
    ASSUME IInv, NEW s, DeleteRedundant(s), dir' = dir, copied' = copied
    PROVE  deleted' \subseteq Files /\ DeletedWasCopied'
  <1>1. WorldTypes /\ AllCovered /\ DeletedWasCopied
    BY DEF IInv
  <1>2. There(s) \subseteq Files /\ \A f \in There(s) : dir[f] = s /\ ctime[f] # 0
    BY DEF There
  <1>3. ASSUME NEW f \in Redundant(s), NEW d \in DestsOf(dir[f])
        PROVE  f \in copied[d]
    <2>1. f \in There(s) /\ Copied(f, d) /\ d \in Dests
      BY <1>2, <1>3 DEF Redundant, DestsOf, Dests
    <2> QED  BY <1>1, <1>2, <1>3, <2>1 DEF Copied, AllCovered, Covers
  <1>4. PICK old \in SUBSET Redundant(s) : deleted' = deleted \cup old
    BY DEF DeleteRedundant
  <1>5. Redundant(s) \subseteq Files
    BY <1>2 DEF Redundant
  <1> QED  BY <1>1, <1>3, <1>4, <1>5 DEF WorldTypes, DeletedWasCopied

\* A directory with files as young as the scan is to be scanned again.
LEMMA ScanAgainKeeps ==
    ASSUME IInv, NEW s \in Sources, ScanAgain(s)
    PROVE  IInv'
  <1>1. /\ WorldTypes /\ SharedTypes /\ CycleTypes /\ Past /\ AllCovered /\ DeletedWasCopied
        /\ JobsKnown /\ ScanOrder /\ AllAccounted /\ Copying /\ Pending
    BY DEF IInv
  <1>2. /\ now' = now /\ ctime' = ctime /\ dir' = dir /\ atDest' = atDest
        /\ stale' = stale /\ staleFrom' = staleFrom /\ cleared' = cleared /\ kicks' = kicks
        /\ saved' = saved /\ at' = at /\ prio' = prio /\ todo' = todo /\ jobs' = jobs
        /\ current' = current
        /\ latest' = latest /\ latestCopied' = latestCopied /\ copied' = copied
    BY DEF ScanAgain, shared, cycle
  <1>3. deleted' \subseteq Files /\ DeletedWasCopied'
    BY <1>2, RedundantFacts DEF ScanAgain
  <1>4. WorldTypes'
    BY <1>1, <1>2, <1>3 DEF WorldTypes
  <1>5. SharedTypes' /\ CycleTypes'
    BY <1>1, <1>2 DEF SharedTypes, CycleTypes
  <1>6. Past'
    BY <1>1, <1>2 DEF Past, Untouched, JobsOf
  <1>7. AllCovered'
    BY <1>1, <1>2 DEF AllCovered, Covers
  <1>8. JobsKnown'
    BY <1>1, <1>2 DEF JobsKnown
  <1>9. ScanOrder'
    BY <1>1, <1>2 DEF ScanOrder
  <1>10. AllAccounted'
    BY <1>1, <1>2 DEF AllAccounted, Accounted, JobsOf
  <1>11. Copying'
    BY <1>1, <1>2 DEF Copying, NextJobs, Before
  <1>12. Pending'
    BY <1>1, <1>2 DEF Pending, StaleIsPending
  <1> QED  BY <1>3, <1>4, <1>5, <1>6, <1>7, <1>8, <1>9, <1>10, <1>11, <1>12 DEF IInv

\* A directory is scanned: every file found has been copied or becomes a job.
LEMMA ScanDirKeeps ==
    ASSUME IInv, NEW s \in Sources, ScanDir(s)
    PROVE  IInv'
  <1>1. /\ WorldTypes /\ SharedTypes /\ CycleTypes /\ Past /\ AllCovered /\ DeletedWasCopied
        /\ JobsKnown /\ ScanOrder /\ AllAccounted /\ Copying /\ Pending
    BY DEF IInv
  <1>2. /\ now' = now /\ ctime' = ctime /\ dir' = dir /\ atDest' = atDest
        /\ staleFrom' = staleFrom /\ kicks' = kicks /\ at' = at /\ prio' = prio
        /\ current' = current /\ latestCopied' = latestCopied /\ copied' = copied
    BY DEF ScanDir, source, shared, cycle
  <1> DEFINE seen(bad) == DestsOf(s) \ bad
             need(bad) == {j \in There(s) \X seen(bad) : ~Copied(j[1], j[2])}
             youngest == Max({0} \cup {ctime[f] : f \in There(s)})
             idle(bad) == {d \in seen(bad) : \A j \in need(bad) : j[2] # d}
             row(bad) == [d \in DestsOf(s) |->
                             IF d \in idle(bad) THEN youngest ELSE cleared[s][d]]
  <1>3. at = "scan" /\ s \in todo /\ todo' = todo \ {s}
    BY DEF ScanDir
  <1>4. PICK bad \in SUBSET DestsOf(s) :
           /\ seen(bad) # {} => \A f \in There(s) : ctime[f] < now
           /\ jobs' = jobs \cup need(bad)
           /\ latest' = [latest EXCEPT ![s] = youngest]
           /\ stale' \in {stale, [stale EXCEPT ![s] = "UP_TO_DATE"]}
           /\ cleared' = [cleared EXCEPT ![s] = row(bad)]
           /\ saved' \in {cleared', saved}
    <2>1. PICK bad \in SUBSET DestsOf(s) :
             /\ Young(s) => seen(bad) = {}
             /\ jobs' = jobs \cup need(bad)
             /\ latest' = [latest EXCEPT ![s] = youngest]
             /\ stale' \in {stale, [stale EXCEPT ![s] = "UP_TO_DATE"]}
             /\ cleared' = [cleared EXCEPT ![s] = row(bad)]
             /\ saved' \in {cleared', saved}
      BY DEF ScanDir
    <2>2. \A f \in There(s) : ctime[f] \in Nat /\ now \in Nat
      BY <1>1, SourcesAssumption DEF There, WorldTypes, Times
    <2>3. ~Young(s) => \A f \in There(s) : ctime[f] < now
      BY <2>2 DEF Young
    <2> QED  BY <2>1, <2>3
  <1> HIDE DEF youngest, row
  <1>5. There(s) \subseteq Files /\ DestsOf(s) \subseteq Dests /\ now \in Nat /\ now >= 1
        /\ \A f \in Files : ctime[f] \in Nat
    BY <1>1, DestsOfType, SourcesAssumption DEF There, WorldTypes, Times
  <1>6. /\ youngest \in Times /\ \A f \in There(s) : ctime[f] <= youngest
        /\ seen(bad) # {} => youngest < now
    <2> DEFINE T == {0} \cup {ctime[f] : f \in There(s)}
    <2>1. \A f \in There(s) : ctime[f] <= now
      BY <1>1, <1>5 DEF Past
    <2>2. T \in SUBSET Nat /\ T # {} /\ \A t \in T : t <= now
      BY <1>5, <2>1
    <2>3. seen(bad) # {} => \A t \in T : t < now
      BY <1>4, <1>5
    <2> HIDE DEF T
    <2>4. Max(T) \in T /\ \A t \in T : Max(T) >= t
      BY <1>5, <2>2, MaxNat
    <2> USE DEF T
    <2>5. Max(T) \in Nat /\ Max(T) <= now /\ \A f \in There(s) : ctime[f] <= Max(T)
      BY <1>5, <2>2, <2>4
    <2> HIDE DEF T
    <2>6. seen(bad) # {} => Max(T) < now
      BY <2>3, <2>4
    <2> QED  BY <1>1, <2>5, <2>6, SourcesAssumption DEF T, youngest, Times, WorldTypes
  <1>7. \A f \in There(s) : \A d \in seen(bad) : Copied(f, d) => f \in copied[d]
    BY <1>1, <1>5 DEF Copied, There, AllCovered, Covers
  <1>8. /\ need(bad) \subseteq Files \X Dests
        /\ \A j \in need(bad) : /\ dir[j[1]] = s /\ j[2] \in DestsOf(s)
                                /\ ctime[j[1]] # 0 /\ ctime[j[1]] <= youngest
    BY <1>5, <1>6 DEF There
  <1>9. \A f \in Files : \A d \in seen(bad) :
           dir[f] = s /\ ctime[f] # 0 => f \in copied[d] \/ <<f, d>> \in need(bad)
    <2> SUFFICES ASSUME NEW f \in Files, NEW d \in seen(bad), dir[f] = s, ctime[f] # 0
                 PROVE  f \in copied[d] \/ <<f, d>> \in need(bad)
      OBVIOUS
    <2>1. CASE f \in deleted
      BY <1>1, <2>1 DEF DeletedWasCopied
    <2>2. CASE f \notin deleted
      <3>1. f \in There(s)
        BY <2>2 DEF There
      <3> QED  BY <1>7, <3>1
    <2> QED  BY <2>1, <2>2
  <1>10. deleted' \subseteq Files /\ DeletedWasCopied'
    BY <1>2, RedundantFacts DEF ScanDir
  <1>11. /\ cleared' \in Table(Times)
         /\ \A d \in DestsOf(s) :
               cleared'[s][d] = IF d \in idle(bad) THEN youngest ELSE cleared[s][d]
         /\ \A q \in Sources : q # s => cleared'[q] = cleared[q]
    <2>1. cleared[s] \in [DestsOf(s) -> Times]
      BY <1>1 DEF SharedTypes, Table
    <2>2. row(bad) \in [DestsOf(s) -> Times]
      BY <1>6, <2>1 DEF row
    <2>3. cleared \in Table(Times) /\ cleared' = [cleared EXCEPT ![s] = row(bad)]
      BY <1>1, <1>4 DEF SharedTypes
    <2>4. \A t \in Table(Times) : \A r \in [DestsOf(s) -> Times] :
             /\ [t EXCEPT ![s] = r] \in Table(Times)
             /\ [t EXCEPT ![s] = r][s] = r
             /\ \A q \in Sources : q # s => [t EXCEPT ![s] = r][q] = t[q]
      BY TableRow
    <2>5. /\ [cleared EXCEPT ![s] = row(bad)] \in Table(Times)
          /\ [cleared EXCEPT ![s] = row(bad)][s] = row(bad)
          /\ \A q \in Sources : q # s => [cleared EXCEPT ![s] = row(bad)][q] = cleared[q]
      BY <2>2, <2>3, <2>4, Zenon
    <2>6. /\ cleared' \in Table(Times) /\ cleared'[s] = row(bad)
          /\ \A q \in Sources : q # s => cleared'[q] = cleared[q]
      BY <2>3, <2>5
    <2> QED  BY <2>6 DEF row
  <1> HIDE DEF need
  <1>12. WorldTypes'
    BY <1>1, <1>2, <1>4, <1>10 DEF WorldTypes
  <1>13. SharedTypes'
    BY <1>1, <1>2, <1>4, <1>11 DEF SharedTypes
  <1>14. CycleTypes'
    BY <1>1, <1>2, <1>3, <1>4, <1>6, <1>8 DEF CycleTypes
  <1>15. Past'
    <2>1. ASSUME NEW q \in Sources
          PROVE  latest'[q] < now \/ Untouched(q)'
      <3>1. CASE q # s
        <4>1. latest'[q] = latest[q]
          BY <1>1, <1>4, <3>1 DEF CycleTypes
        <4>2. \A d \in DestsOf(q) : JobsOf(q, d)' = JobsOf(q, d)
          BY <1>2, <1>4, <1>8, <3>1 DEF JobsOf
        <4> QED  BY <1>1, <1>2, <4>1, <4>2 DEF Past, Untouched
      <3>2. CASE q = s /\ seen(bad) # {}
        BY <1>1, <1>4, <1>6, <3>2 DEF CycleTypes
      <3>3. CASE q = s /\ seen(bad) = {}
        <4>1. need(bad) = {}
          BY <3>3 DEF need
        <4>2. \A d \in DestsOf(s) : JobsOf(s, d)' = {} /\ latestCopied[s][d] = 0
          BY <1>1, <1>2, <1>3, <1>4, <4>1 DEF JobsOf, ScanOrder
        <4> QED  BY <1>2, <3>3, <4>2 DEF Untouched
      <3> QED  BY <3>1, <3>2, <3>3
    <2>2. \A q \in Sources : \A d \in DestsOf(q) : cleared'[q][d] < now /\ saved[q][d] < now
      BY <1>1, <1>6, <1>11 DEF Past
    <2> QED  BY <1>1, <1>2, <1>4, <2>1, <2>2 DEF Past
  <1>16. AllCovered'
    <2>1. ASSUME NEW f \in Files, NEW d \in DestsOf(dir[f]), ctime[f] # 0,
                 ctime[f] <= cleared'[dir[f]][d]
          PROVE  f \in copied[d]
      <3>1. dir[f] \in Sources
        BY <1>1 DEF WorldTypes
      <3>2. CASE dir[f] = s /\ d \in idle(bad)
        BY <1>9, <2>1, <3>2
      <3>3. CASE ~(dir[f] = s /\ d \in idle(bad))
        <4>1. cleared'[dir[f]][d] = cleared[dir[f]][d]
          BY <1>11, <2>1, <3>1, <3>3
        <4> QED  BY <1>1, <2>1, <4>1 DEF AllCovered, Covers
      <3> QED  BY <3>2, <3>3
    <2>2. Covers(cleared)' /\ Covers(saved)'
      BY <1>1, <1>2, <1>4, <2>1 DEF AllCovered, Covers
    <2> QED  BY <1>1, <1>2, <2>2 DEF AllCovered
  <1>17. DeletedWasCopied'
    BY <1>10
  <1>18. JobsKnown'
    BY <1>1, <1>2, <1>3, <1>4, <1>8 DEF JobsKnown, ScanOrder, CycleTypes
  <1>19. ScanOrder'
    BY <1>1, <1>2, <1>3, <1>4, <1>8 DEF ScanOrder
  <1>20. AllAccounted'
    <2> SUFFICES ASSUME NEW q \in Sources, NEW d \in DestsOf(q)
                 PROVE  /\ latestCopied[q][d] <= latest'[q] /\ latestCopied[q][d] = 0
                        /\ JobsOf(q, d)' # {} => Accounted(q, d)'
      BY <1>2 DEF AllAccounted
    <2>1. latestCopied[q][d] = 0 /\ latest'[q] \in Nat
      BY <1>1, <1>3, <1>4, <1>6 DEF ScanOrder, CycleTypes, Times
    <2>2. CASE q # s
      <3>1. JobsOf(q, d)' = JobsOf(q, d)
        BY <1>2, <1>4, <1>8, <2>2 DEF JobsOf
      <3>2. Accounted(q, d) => Accounted(q, d)'
        BY <1>1, <1>2, <1>4, <2>2 DEF Accounted, CycleTypes
      <3> QED  BY <1>1, <2>1, <3>1, <3>2 DEF AllAccounted, Failed
    <2>3. CASE q = s
      <3>1. ASSUME JobsOf(s, d)' # {}
            PROVE  d \in seen(bad)
        BY <1>1, <1>2, <1>3, <1>4, <3>1 DEF JobsOf, ScanOrder, need
      <3>2. d \in seen(bad) => Accounted(s, d)'
        BY <1>2, <1>4, <1>9 DEF Accounted
      <3> QED  BY <2>1, <2>3, <3>1, <3>2
    <2> QED  BY <2>2, <2>3
  <1>21. Copying'
    BY <1>2, <1>3 DEF Copying
  <1>22. Pending'
    <2>1. \A q \in Sources : stale'[q] = "STALE" => stale[q] = "STALE"
      BY <1>1, <1>4 DEF SharedTypes
    <2> QED  BY <1>1, <1>2, <2>1 DEF Pending, StaleIsPending
  <1> QED  BY <1>12, <1>13, <1>14, <1>15, <1>16, <1>17, <1>18, <1>19, <1>20, <1>21,
      <1>22
  DEF IInv

\* A directory cannot be read.
LEMMA ScanFailsKeeps ==
    ASSUME IInv, NEW s \in Sources, ScanFails(s)
    PROVE  IInv'
  <1>1. /\ WorldTypes /\ SharedTypes /\ CycleTypes /\ Past /\ AllCovered /\ DeletedWasCopied
        /\ JobsKnown /\ ScanOrder /\ AllAccounted /\ Copying /\ Pending
    BY DEF IInv
  <1>2. /\ now' = now /\ ctime' = ctime /\ dir' = dir /\ atDest' = atDest
        /\ stale' = stale /\ staleFrom' = staleFrom /\ cleared' = cleared /\ kicks' = kicks
        /\ saved' = saved /\ at' = at /\ prio' = prio /\ jobs' = jobs /\ current' = current
        /\ latest' = latest /\ latestCopied' = latestCopied /\ copied' = copied
    BY DEF ScanFails, shared
  <1>3. s \in todo /\ todo' = todo \ {s}
    BY DEF ScanFails
  <1>8. deleted' \subseteq Files /\ DeletedWasCopied'
    BY <1>2, RedundantFacts DEF ScanFails
  <1>4. WorldTypes'
    BY <1>1, <1>2, <1>8 DEF WorldTypes
  <1>5. SharedTypes'
    BY <1>1, <1>2 DEF SharedTypes
  <1>6. Past'
    BY <1>1, <1>2 DEF Past, Untouched, JobsOf
  <1>7. AllCovered'
    BY <1>1, <1>2 DEF AllCovered, Covers
  <1>9. JobsKnown'
    BY <1>1, <1>2 DEF JobsKnown
  <1>10. AllAccounted'
    BY <1>1, <1>2 DEF AllAccounted, Accounted, JobsOf
  <1>11. Copying'
    BY <1>1, <1>2 DEF Copying, NextJobs, Before
  <1>12. Pending'
    BY <1>1, <1>2 DEF Pending, StaleIsPending
  <1>13. CycleTypes'
    BY <1>1, <1>2, <1>3 DEF CycleTypes
  <1>14. ScanOrder'
    BY <1>1, <1>2, <1>3 DEF ScanOrder
  <1> QED  BY <1>4, <1>5, <1>6, <1>7, <1>8, <1>9, <1>10, <1>11, <1>12, <1>13, <1>14
  DEF IInv

\* All directories are scanned.
LEMMA EndScanKeeps ==
    ASSUME IInv, EndScan
    PROVE  IInv'
  <1>1. /\ WorldTypes /\ SharedTypes /\ CycleTypes /\ Past /\ AllCovered /\ DeletedWasCopied
        /\ JobsKnown /\ ScanOrder /\ AllAccounted /\ Copying /\ Pending
    BY DEF IInv
  <1>2. /\ now' = now /\ ctime' = ctime /\ dir' = dir /\ deleted' = deleted
        /\ atDest' = atDest
        /\ stale' = stale /\ staleFrom' = staleFrom /\ cleared' = cleared /\ kicks' = kicks
        /\ saved' = saved /\ prio' = prio /\ todo' = todo /\ jobs' = jobs
        /\ current' = current
        /\ latest' = latest /\ latestCopied' = latestCopied /\ copied' = copied
    BY DEF EndScan, source, shared, cycle
  <1>3. at = "scan" /\ at' = "files" /\ todo = {}
    BY DEF EndScan
  <1>4. WorldTypes'
    BY <1>1, <1>2 DEF WorldTypes
  <1>5. SharedTypes'
    BY <1>1, <1>2 DEF SharedTypes
  <1>6. Past'
    BY <1>1, <1>2 DEF Past, Untouched, JobsOf
  <1>7. AllCovered'
    BY <1>1, <1>2 DEF AllCovered, Covers
  <1>8. DeletedWasCopied'
    BY <1>1, <1>2 DEF DeletedWasCopied
  <1>9. JobsKnown'
    BY <1>1, <1>2 DEF JobsKnown
  <1>10. AllAccounted'
    BY <1>1, <1>2 DEF AllAccounted, Accounted, JobsOf
  <1>11. Pending'
    BY <1>1, <1>2 DEF Pending, StaleIsPending
  <1>12. CycleTypes'
    BY <1>1, <1>2, <1>3 DEF CycleTypes
  <1>13. ScanOrder'
    BY <1>1, <1>2, <1>3 DEF ScanOrder
  <1>14. Copying'
    BY <1>1, <1>2, <1>3 DEF Copying, NextJobs, Before
  <1> QED  BY <1>4, <1>5, <1>6, <1>7, <1>8, <1>9, <1>10, <1>11, <1>12, <1>13, <1>14
  DEF IInv

\* The jobs of a priority are done, or given up for a higher one.
LEMMA EndPriorityKeeps ==
    ASSUME IInv, EndPriority
    PROVE  IInv'
  <1>1. /\ WorldTypes /\ SharedTypes /\ CycleTypes /\ Past /\ AllCovered /\ DeletedWasCopied
        /\ JobsKnown /\ ScanOrder /\ AllAccounted /\ Copying /\ Pending
    BY DEF IInv
  <1>2. /\ now' = now /\ ctime' = ctime /\ dir' = dir /\ deleted' = deleted
        /\ atDest' = atDest
        /\ stale' = stale /\ staleFrom' = staleFrom /\ cleared' = cleared /\ kicks' = kicks
        /\ saved' = saved /\ copied' = copied
    BY DEF EndPriority, source, shared
  <1>3. /\ prio' \in {NoPriority} \cup Priorities /\ jobs' = {} /\ current' = {}
        /\ todo' \subseteq Sources /\ at' \in {"wait", "scan"}
        /\ (todo' # {} => at' = "scan")
        /\ latest' \in [Sources -> Times] /\ \A s \in Sources : latest'[s] = 0
        /\ latestCopied' \in Table(Times \cup {Failed})
        /\ \A s \in Sources : \A d \in DestsOf(s) : latestCopied'[s][d] = 0
    <2>1. PICK p \in {NoPriority, NextPriority(prio)} : ScanPriority(p, stale)
      BY DEF EndPriority
    <2>2. p \in {NoPriority} \cup Priorities
      BY <1>1, <2>1, PriorityAfter DEF CycleTypes
    <2> QED  BY <2>1, <2>2, ScanPriorityFacts
  <1>4. WorldTypes'
    BY <1>1, <1>2 DEF WorldTypes
  <1>5. SharedTypes'
    BY <1>1, <1>2 DEF SharedTypes
  <1>6. AllCovered'
    BY <1>1, <1>2 DEF AllCovered, Covers
  <1>7. DeletedWasCopied'
    BY <1>1, <1>2 DEF DeletedWasCopied
  <1>8. Pending'
    BY <1>1, <1>2 DEF Pending, StaleIsPending
  <1>9. CycleTypes'
    BY <1>1, <1>2, <1>3 DEF CycleTypes
  <1>10. Past'
    BY <1>1, <1>2, <1>3 DEF Past, WorldTypes
  <1>11. JobsKnown'
    BY <1>1, <1>2, <1>3 DEF JobsKnown
  <1>12. ScanOrder'
    BY <1>1, <1>2, <1>3 DEF ScanOrder
  <1>13. AllAccounted'
    BY <1>1, <1>2, <1>3 DEF AllAccounted, JobsOf
  <1>14. Copying'
    BY <1>1, <1>2, <1>3 DEF Copying, NextJobs, Before
  <1> QED  BY <1>4, <1>5, <1>6, <1>7, <1>8, <1>9, <1>10, <1>11, <1>12, <1>13, <1>14
  DEF IInv

\* What a job is about.
LEMMA JobFacts ==
    ASSUME IInv, NEW j \in jobs
    PROVE  /\ j[1] \in Files /\ dir[j[1]] \in Sources /\ j[2] \in DestsOf(dir[j[1]])
          /\ j[2] \in Dests
           /\ j = <<j[1], j[2]>>
           /\ ctime[j[1]] \in Times \ {0} /\ ctime[j[1]] <= latest[dir[j[1]]]
           /\ latest[dir[j[1]]] \in Times
  <1>1. WorldTypes /\ CycleTypes /\ JobsKnown
    BY DEF IInv
  <1>2. j \in Files \X Dests
    BY <1>1 DEF CycleTypes
  <1> QED  BY <1>1, <1>2 DEF WorldTypes, CycleTypes, JobsKnown

\* A job taken off: what is known of the directory and destination of another.
LEMMA OtherAccounted ==
    ASSUME NEW j \in jobs, jobs' = jobs \ {j}, latest' = latest, ctime' = ctime, dir' = dir,
           NEW s \in Sources, NEW d \in DestsOf(s), copied[d] \subseteq copied'[d],
           Accounted(s, d), <<j[1], j[2]>> = j,
           dir[j[1]] # s \/ j[2] # d \/ j[1] \in copied'[d]
    PROVE  Accounted(s, d)'
  <1> SUFFICES ASSUME NEW f \in Files, dir[f] = s, ctime[f] # 0, ctime[f] <= latest[s]
               PROVE  f \in copied'[d] \/ <<f, d>> \in jobs'
    BY DEF Accounted
  <1>1. f \in copied[d] \/ <<f, d>> \in jobs
    BY DEF Accounted
  <1>2. CASE <<f, d>> = j
    BY <1>2
  <1>3. CASE <<f, d>> # j
    BY <1>1, <1>3
  <1> QED  BY <1>2, <1>3

\* A job is left for this cycle.
LEMMA SkipFileKeeps ==
    ASSUME IInv, NEW j \in jobs, SkipFile(j)
    PROVE  IInv'
  <1>1. /\ WorldTypes /\ SharedTypes /\ CycleTypes /\ Past /\ AllCovered /\ DeletedWasCopied
        /\ JobsKnown /\ ScanOrder /\ AllAccounted /\ Copying /\ Pending
    BY DEF IInv
  <1>2. /\ now' = now /\ ctime' = ctime /\ dir' = dir /\ deleted' = deleted
        /\ atDest' = atDest
        /\ stale' = stale /\ staleFrom' = staleFrom /\ cleared' = cleared /\ kicks' = kicks
        /\ saved' = saved /\ at' = at /\ prio' = prio /\ todo' = todo /\ current' = current
        /\ latest' = latest /\ latestCopied' = latestCopied /\ copied' = copied
    BY DEF SkipFile, source, shared, cycle
  <1>3. /\ j[1] \in Files /\ dir[j[1]] \in Sources /\ j[2] \in DestsOf(dir[j[1]])
        /\ j[2] \in Dests
        /\ j = <<j[1], j[2]>>
    BY JobFacts
  <1>4. at = "files" /\ jobs' = jobs \ {j} /\ latestCopied[dir[j[1]]][j[2]] = Failed
    BY DEF SkipFile
  <1>5. WorldTypes'
    BY <1>1, <1>2 DEF WorldTypes
  <1>6. SharedTypes'
    BY <1>1, <1>2 DEF SharedTypes
  <1>7. Past'
    <2>1. \A s \in Sources : Untouched(s) => Untouched(s)'
      BY <1>2, <1>4, UntouchedStays
    <2> QED  BY <1>1, <1>2, <2>1 DEF Past
  <1>8. AllCovered'
    BY <1>1, <1>2 DEF AllCovered, Covers
  <1>9. DeletedWasCopied'
    BY <1>1, <1>2 DEF DeletedWasCopied
  <1>10. Pending'
    BY <1>1, <1>2 DEF Pending, StaleIsPending
  <1>11. CycleTypes'
    BY <1>1, <1>2, <1>4 DEF CycleTypes
  <1>12. JobsKnown'
    BY <1>1, <1>2, <1>3, <1>4 DEF JobsKnown
  <1>13. ScanOrder'
    BY <1>1, <1>2, <1>3, <1>4 DEF ScanOrder
  <1>14. AllAccounted'
    <2> SUFFICES ASSUME NEW q \in Sources, NEW e \in DestsOf(q)
                 PROVE  /\ latestCopied'[q][e] <= latest[q]
                        /\ latestCopied'[q][e] \notin {0, Failed} => Accounted(q, e)'
                        /\ JobsOf(q, e)' # {} =>
                              latestCopied'[q][e] = Failed \/ Accounted(q, e)'
      BY <1>2 DEF AllAccounted
    <2>1. CASE q = dir[j[1]] /\ e = j[2]
      BY <1>1, <1>2, <1>4, <2>1 DEF AllAccounted
    <2>2. CASE q # dir[j[1]] \/ e # j[2]
      <3>1. Accounted(q, e) => Accounted(q, e)'
        BY <1>2, <1>3, <1>4, <2>2, OtherAccounted
      <3>2. JobsOf(q, e)' # {} => JobsOf(q, e) # {}
        BY <1>2, <1>4 DEF JobsOf
      <3>3. latestCopied'[q][e] = latestCopied[q][e]
        BY <1>2
      <3> QED  BY <1>1, <3>1, <3>2, <3>3 DEF AllAccounted
    <2> QED  BY <2>1, <2>2
  <1>15. Copying'
    BY <1>2, <1>4 DEF Copying
  <1> QED  BY <1>5, <1>6, <1>7, <1>8, <1>9, <1>10, <1>11, <1>12, <1>13, <1>14, <1>15
  DEF IInv

\* The next file: what is older than it has been copied; its copy begins, or fails.
LEMMA StartFileKeeps ==
    ASSUME IInv, NEW j \in jobs, StartFile(j)
    PROVE  IInv'
  <1>1. /\ WorldTypes /\ SharedTypes /\ CycleTypes /\ Past /\ AllCovered /\ DeletedWasCopied
        /\ JobsKnown /\ ScanOrder /\ AllAccounted /\ Copying /\ Pending
    BY DEF IInv
  <1>2. /\ now' = now /\ ctime' = ctime /\ dir' = dir /\ deleted' = deleted
        /\ atDest' = atDest
        /\ stale' = stale /\ staleFrom' = staleFrom /\ kicks' = kicks /\ prio' = prio
        /\ todo' = todo /\ latest' = latest /\ copied' = copied
    BY DEF StartFile, source, shared, cycle
  <1> DEFINE f == j[1]
             d == j[2]
             s == dir[j[1]]
             last == latestCopied[s][d]
  <1>3. /\ f \in Files /\ s \in Sources /\ d \in DestsOf(s) /\ d \in Dests /\ j = <<f, d>>
        /\ ctime[f] \in Times \ {0} /\ ctime[f] <= latest[s] /\ latest[s] \in Times
    BY JobFacts
  <1>4. /\ at = "files" /\ j \in NextJobs /\ last # Failed
        /\ \/ cleared' = cleared /\ saved' = saved
           \/ /\ last # 0 /\ ctime[f] > last
              /\ cleared' = Put(cleared, s, d, last) /\ saved' = cleared'
        /\ \/ at' = "copying" /\ jobs' = jobs /\ latestCopied' = latestCopied
              /\ current' = {j}
           \/ /\ latestCopied' = Put(latestCopied, s, d, Failed)
              /\ jobs' = jobs \ {j} /\ at' = at
    BY DEF StartFile, ClearUpTo, Fail, Put
  <1>5. cleared \in Table(Times) /\ latestCopied \in Table(Times \cup {Failed})
        /\ last \in Times \cup {Failed} /\ last <= latest[s]
    BY <1>1, <1>3 DEF SharedTypes, CycleTypes, Table, AllAccounted
  <1>6. last # 0 /\ ctime[f] > last =>
           \A g \in Files : dir[g] = s /\ ctime[g] # 0
                 /\ ctime[g] <= last => g \in copied[d]
    <2> SUFFICES ASSUME last # 0, ctime[f] > last, NEW g \in Files, dir[g] = s, ctime[g] # 0,
                        ctime[g] <= last
                 PROVE  g \in copied[d]
      OBVIOUS
    <2>1. last \in Nat /\ latest[s] \in Nat /\ ctime[g] \in Nat /\ ctime[f] \in Nat
      BY <1>1, <1>3, <1>4, <1>5, SourcesAssumption DEF Times, WorldTypes
    <2>2. g \in copied[d] \/ <<g, d>> \in jobs
      BY <1>1, <1>3, <1>4, <1>5, <2>1 DEF AllAccounted, Accounted, Failed
    <2>3. <<g, d>> \notin jobs
      <3> SUFFICES ASSUME <<g, d>> \in jobs
                   PROVE  FALSE
        OBVIOUS
      <3>1. ctime[g] >= ctime[f]
        BY <1>1, <1>4, NextJobIsOldest
      <3> QED  BY <2>1, <3>1
    <2> QED  BY <2>2, <2>3
  <1>7. /\ cleared' \in Table(Times) /\ saved' \in Table(Times)
        /\ \A q \in Sources : \A e \in DestsOf(q) :
              cleared'[q][e] = cleared[q][e] \/ (q = s /\ e = d /\ cleared'[q][e] = last
                                                 /\ last # 0 /\ ctime[f] > last)
        /\ saved' = saved \/ saved' = cleared'
    <2>1. CASE cleared' = cleared /\ saved' = saved
      BY <1>1, <2>1 DEF SharedTypes
    <2>2. CASE last # 0 /\ ctime[f] > last /\ cleared' = Put(cleared, s, d, last)
               /\ saved' = cleared'
      <3>1. last \in Times
        BY <1>4, <1>5
      <3>2. /\ Put(cleared, s, d, last) \in Table(Times)
            /\ Put(cleared, s, d, last)[s][d] = last
            /\ \A q \in Sources : \A e \in DestsOf(q) :
                  q # s \/ e # d => Put(cleared, s, d, last)[q][e] = cleared[q][e]
        BY <1>3, <1>5, <3>1, TimesPut
      <3> QED  BY <2>2, <3>2
    <2> QED  BY <1>4, <2>1, <2>2
  <1>8. /\ latestCopied' \in Table(Times \cup {Failed})
        /\ \/ at' = "copying" /\ jobs' = jobs /\ latestCopied' = latestCopied
              /\ current' = {j}
           \/ /\ at' = "files" /\ jobs' = jobs \ {j}
              /\ latestCopied'[s][d] = Failed
              /\ \A q \in Sources : \A e \in DestsOf(q) :
                    q # s \/ e # d => latestCopied'[q][e] = latestCopied[q][e]
    <2>1. /\ Put(latestCopied, s, d, Failed) \in Table(Times \cup {Failed})
          /\ Put(latestCopied, s, d, Failed)[s][d] = Failed
          /\ \A q \in Sources : \A e \in DestsOf(q) :
                q # s \/ e # d => Put(latestCopied, s, d, Failed)[q][e] = latestCopied[q][e]
      BY <1>3, <1>5, LatestPut
    <2> QED  BY <1>4, <1>5, <2>1
  <1>9. WorldTypes'
    BY <1>1, <1>2 DEF WorldTypes
  <1>10. DeletedWasCopied'
    BY <1>1, <1>2 DEF DeletedWasCopied
  <1>11. Pending'
    BY <1>1, <1>2 DEF Pending, StaleIsPending
  <1>12. SharedTypes'
    BY <1>1, <1>2, <1>7 DEF SharedTypes
  <1>13. CycleTypes'
    BY <1>1, <1>2, <1>8 DEF CycleTypes
  <1>14. Past'
    <2>1. latest[s] < now
      BY <1>1, <1>3, JobIsPast
    <2>2. last \in Times \cup {Failed} /\ last < now
      BY <1>1, <1>3, <1>5, <2>1, SourcesAssumption DEF WorldTypes, Times, Failed
    <2>3. \A q \in Sources : \A e \in DestsOf(q) : cleared'[q][e] < now
      BY <1>1, <1>7, <2>2 DEF Past
    <2>4. \A q \in Sources : q # s /\ Untouched(q) => Untouched(q)'
      BY <1>2, <1>8, UntouchedStays
    <2> QED  BY <1>1, <1>2, <1>7, <2>1, <2>3, <2>4 DEF Past
  <1>15. AllCovered'
    <2>1. Covers(cleared)'
      <3> SUFFICES ASSUME NEW g \in Files, NEW e \in DestsOf(dir[g]), ctime[g] # 0,
                          ctime[g] <= cleared'[dir[g]][e]
                   PROVE  g \in copied[e]
        BY <1>2 DEF Covers
      <3>1. dir[g] \in Sources
        BY <1>1 DEF WorldTypes
      <3>2. CASE cleared'[dir[g]][e] = cleared[dir[g]][e]
        BY <1>1, <3>2 DEF AllCovered, Covers
      <3>3. CASE cleared'[dir[g]][e] # cleared[dir[g]][e]
        <4>1. dir[g] = s /\ e = d /\ cleared'[dir[g]][e] = last /\ last # 0
              /\ ctime[f] > last
          BY <1>7, <3>1, <3>3
        <4> QED  BY <1>6, <4>1
      <3> QED  BY <3>2, <3>3
    <2> QED  BY <1>1, <1>2, <1>7, <2>1 DEF AllCovered, Covers
  <1>16. JobsKnown'
    BY <1>1, <1>2, <1>8 DEF JobsKnown
  <1>17. ScanOrder'
    BY <1>1, <1>2, <1>4, <1>8 DEF ScanOrder
  <1>18. AllAccounted'
    <2>1. CASE at' = "copying" /\ jobs' = jobs /\ latestCopied' = latestCopied
      BY <1>1, <1>2, <2>1 DEF AllAccounted, Accounted, JobsOf
    <2>2. CASE /\ at' = "files" /\ jobs' = jobs \ {j}
               /\ latestCopied'[s][d] = Failed
               /\ \A q \in Sources : \A e \in DestsOf(q) :
                     q # s \/ e # d => latestCopied'[q][e] = latestCopied[q][e]
      <3> SUFFICES ASSUME NEW q \in Sources, NEW e \in DestsOf(q)
                   PROVE  /\ latestCopied'[q][e] <= latest[q]
                          /\ latestCopied'[q][e] \notin {0, Failed} => Accounted(q, e)'
                          /\ JobsOf(q, e)' # {} =>
                                latestCopied'[q][e] = Failed \/ Accounted(q, e)'
        BY <1>2 DEF AllAccounted
      <3>1. CASE q = s /\ e = d
        BY <1>3, <2>2, <3>1, SourcesAssumption DEF Failed, Times
      <3>2. CASE q # s \/ e # d
        <4>1. Accounted(q, e) => Accounted(q, e)'
          BY <1>2, <1>3, <2>2, <3>2, OtherAccounted
        <4>2. JobsOf(q, e)' # {} => JobsOf(q, e) # {}
          BY <1>2, <2>2 DEF JobsOf
        <4>3. latestCopied'[q][e] = latestCopied[q][e]
          BY <2>2, <3>2
        <4> QED  BY <1>1, <4>1, <4>2, <4>3 DEF AllAccounted
      <3> QED  BY <3>1, <3>2
    <2> QED  BY <1>8, <2>1, <2>2
  <1>19. Copying'
    <2>1. CASE at' = "copying" /\ jobs' = jobs /\ latestCopied' = latestCopied
          /\ current' = {j}
      <3>1. NextJobs' = NextJobs
        BY <1>2, <2>1 DEF NextJobs, Before
      <3> QED  BY <1>2, <1>4, <2>1, <3>1 DEF Copying
    <2> QED  BY <1>8, <2>1 DEF Copying
  <1> QED  BY <1>9, <1>10, <1>11, <1>12, <1>13, <1>14, <1>15, <1>16, <1>17, <1>18, <1>19
  DEF IInv

\* The copy of a file ends: complete, or given up.
LEMMA EndFileKeeps ==
    ASSUME IInv, EndFile
    PROVE  IInv'
  <1>1. /\ WorldTypes /\ SharedTypes /\ CycleTypes /\ Past /\ AllCovered /\ DeletedWasCopied
        /\ JobsKnown /\ ScanOrder /\ AllAccounted /\ Copying /\ Pending
    BY DEF IInv
  <1>2. /\ now' = now /\ ctime' = ctime /\ dir' = dir /\ deleted' = deleted
        /\ staleFrom' = staleFrom /\ kicks' = kicks /\ prio' = prio /\ todo' = todo
        /\ latest' = latest
    BY DEF EndFile, source, shared, cycle
  <1>3. at = "copying" /\ at' = "files" /\ current' = {} /\ todo = {}
    BY <1>1 DEF EndFile, ScanOrder
  <1>4. PICK j \in jobs : /\ current = {j} /\ j \in NextJobs
                          /\ latestCopied[dir[j[1]]][j[2]] # Failed
    BY <1>1, <1>3 DEF Copying
  <1> DEFINE f == j[1]
             d == j[2]
             s == dir[j[1]]
  <1>5. /\ f \in Files /\ s \in Sources /\ d \in DestsOf(s) /\ d \in Dests /\ j = <<f, d>>
        /\ ctime[f] \in Times \ {0} /\ ctime[f] <= latest[s] /\ latest[s] \in Times
    BY JobFacts
  <1>6. /\ jobs' = jobs \ {j}
        /\ \/ /\ latestCopied' = Put(latestCopied, s, d, Failed)
              /\ atDest' = atDest /\ copied' = copied
              /\ stale' = stale /\ cleared' = cleared /\ saved' = saved
           \/ /\ latestCopied' = Put(latestCopied, s, d, ctime[f])
              /\ atDest' = [atDest EXCEPT ![d] = @ \cup {f}]
              /\ copied' = [copied EXCEPT ![d] = @ \cup {f}]
              /\ \/ stale' = stale /\ cleared' = cleared /\ saved' = saved
                 \/ /\ \A i \in jobs' : ~(dir[i[1]] = s /\ i[2] = d)
                    /\ stale' \in {stale, [stale EXCEPT ![s] = "UP_TO_DATE"]}
                    /\ cleared' = Put(cleared, s, d, latest[s]) /\ saved' = cleared'
    BY <1>4, <1>5 DEF EndFile, Fail, Finished, Put
  <1>7. /\ cleared \in Table(Times) /\ saved \in Table(Times)
        /\ latestCopied \in Table(Times \cup {Failed})
    BY <1>1 DEF SharedTypes, CycleTypes
  <1>8. /\ atDest' \in [Dests -> SUBSET Files] /\ copied' \in [Dests -> SUBSET Files]
        /\ \A e \in Dests : /\ copied[e] \subseteq copied'[e]
                             /\ atDest'[e] \subseteq copied'[e]
    BY <1>1, <1>5, <1>6 DEF WorldTypes, AllCovered
  <1>9. /\ latestCopied' \in Table(Times \cup {Failed})
        /\ \/ latestCopied'[s][d] = Failed
           \/ latestCopied'[s][d] = ctime[f] /\ f \in copied'[d]
        /\ \A q \in Sources : \A e \in DestsOf(q) :
              q # s \/ e # d => latestCopied'[q][e] = latestCopied[q][e]
    <2>1. PICK v \in Times \cup {Failed} :
             /\ latestCopied' = Put(latestCopied, s, d, v)
             /\ v = Failed \/ (v = ctime[f] /\ f \in copied'[d])
      BY <1>1, <1>5, <1>6 DEF WorldTypes
    <2>2. /\ Put(latestCopied, s, d, v) \in Table(Times \cup {Failed})
          /\ Put(latestCopied, s, d, v)[s][d] = v
          /\ \A q \in Sources : \A e \in DestsOf(q) :
                q # s \/ e # d => Put(latestCopied, s, d, v)[q][e] = latestCopied[q][e]
      BY <1>5, <1>7, <2>1, LatestPut
    <2> QED  BY <2>1, <2>2
  <1>10. Accounted(s, d)
    <2>1. JobsOf(s, d) # {}
      BY DEF JobsOf
    <2> QED  BY <1>1, <1>4, <1>5, <2>1 DEF AllAccounted
  <1>11. /\ cleared' \in Table(Times) /\ saved' \in Table(Times)
         /\ saved' = saved \/ saved' = cleared'
         /\ \A q \in Sources : \A e \in DestsOf(q) :
               \/ cleared'[q][e] = cleared[q][e]
               \/ /\ q = s /\ e = d /\ cleared'[q][e] = latest[s]
                  /\ Finished(s, d, jobs', 0) /\ f \in copied'[d]
    <2>1. CASE cleared' = cleared /\ saved' = saved
      BY <1>7, <2>1
    <2>2. CASE /\ f \in copied'[d]
               /\ \A i \in jobs' : ~(dir[i[1]] = s /\ i[2] = d)
               /\ cleared' = Put(cleared, s, d, latest[s]) /\ saved' = cleared'
      <3>1. /\ Put(cleared, s, d, latest[s]) \in Table(Times)
            /\ Put(cleared, s, d, latest[s])[s][d] = latest[s]
            /\ \A q \in Sources : \A e \in DestsOf(q) :
                  q # s \/ e # d => Put(cleared, s, d, latest[s])[q][e] = cleared[q][e]
        BY <1>5, <1>7, TimesPut
      <3>2. Finished(s, d, jobs', 0)
        BY <2>2 DEF Finished, Failed
      <3> QED  BY <2>2, <3>1, <3>2
    <2>3. copied' = [copied EXCEPT ![d] = @ \cup {f}] => f \in copied'[d]
      BY <1>1, <1>5 DEF WorldTypes
    <2> QED  BY <1>6, <2>1, <2>2, <2>3
  <1>12. /\ stale' \in [Sources -> {"UP_TO_DATE", "PROCESSING", "STALE"}]
         /\ \A q \in Sources : stale'[q] = "STALE" => stale[q] = "STALE"
    BY <1>1, <1>5, <1>6 DEF SharedTypes
  <1>13. Finished(s, d, jobs', 0) /\ f \in copied'[d] =>
            \A g \in Files : dir[g] = s /\ ctime[g] # 0
                  /\ ctime[g] <= latest[s] => g \in copied'[d]
    <2> SUFFICES ASSUME Finished(s, d, jobs', 0), f \in copied'[d], NEW g \in Files,
                        dir[g] = s, ctime[g] # 0, ctime[g] <= latest[s]
                 PROVE  g \in copied'[d]
      OBVIOUS
    <2>1. g \in copied[d] \/ <<g, d>> \in jobs
      BY <1>10 DEF Accounted
    <2>2. <<g, d>> \in jobs => g \in copied'[d]
      BY <1>5, <1>6 DEF Finished
    <2> QED  BY <1>5, <1>8, <2>1, <2>2
  <1>14. WorldTypes'
    BY <1>1, <1>2, <1>8 DEF WorldTypes
  <1>15. SharedTypes'
    BY <1>1, <1>2, <1>11, <1>12 DEF SharedTypes
  <1>16. CycleTypes'
    BY <1>1, <1>2, <1>3, <1>6, <1>9 DEF CycleTypes
  <1>17. Past'
    <2>1. latest[s] < now
      BY <1>1, <1>5, JobIsPast
    <2>2. \A q \in Sources : \A e \in DestsOf(q) : cleared'[q][e] < now
      BY <1>1, <1>11, <2>1 DEF Past
    <2>3. \A q \in Sources : q # s /\ Untouched(q) => Untouched(q)'
      BY <1>2, <1>6, <1>9, UntouchedStays
    <2> QED  BY <1>1, <1>2, <1>11, <2>1, <2>2, <2>3 DEF Past
  <1>18. AllCovered'
    <2>1. Covers(saved)' \/ saved' = cleared'
      BY <1>1, <1>2, <1>8, <1>11, DestsOfType DEF AllCovered, Covers, WorldTypes
    <2>2. Covers(cleared)'
      <3> SUFFICES ASSUME NEW g \in Files, NEW e \in DestsOf(dir[g]), ctime[g] # 0,
                          ctime[g] <= cleared'[dir[g]][e]
                   PROVE  g \in copied'[e]
        BY <1>2 DEF Covers
      <3>1. dir[g] \in Sources /\ e \in Dests
        BY <1>1, DestsOfType DEF WorldTypes
      <3>2. CASE cleared'[dir[g]][e] = cleared[dir[g]][e]
        BY <1>1, <1>8, <3>1, <3>2 DEF AllCovered, Covers
      <3>3. CASE /\ dir[g] = s /\ e = d /\ cleared'[dir[g]][e] = latest[s]
                 /\ Finished(s, d, jobs', 0) /\ f \in copied'[d]
        BY <1>13, <3>3
      <3> QED  BY <1>11, <3>1, <3>2, <3>3
    <2> QED  BY <1>8, <1>2, <2>1, <2>2 DEF AllCovered, Covers
  <1>19. DeletedWasCopied'
    BY <1>1, <1>2, <1>8, DestsOfType DEF DeletedWasCopied, WorldTypes
  <1>20. JobsKnown'
    BY <1>1, <1>2, <1>6 DEF JobsKnown
  <1>21. ScanOrder'
    BY <1>2, <1>3 DEF ScanOrder
  <1>22. AllAccounted'
    <2> SUFFICES ASSUME NEW q \in Sources, NEW e \in DestsOf(q)
                 PROVE  /\ latestCopied'[q][e] <= latest[q]
                        /\ latestCopied'[q][e] \notin {0, Failed} => Accounted(q, e)'
                        /\ JobsOf(q, e)' # {} =>
                              latestCopied'[q][e] = Failed \/ Accounted(q, e)'
      BY <1>2 DEF AllAccounted
    <2>1. copied[e] \subseteq copied'[e]
      BY <1>8, DestsOfType
    <2>2. CASE q = s /\ e = d /\ latestCopied'[s][d] = Failed
      BY <1>5, <2>2, SourcesAssumption DEF Failed, Times
    <2>3. CASE q = s /\ e = d /\ latestCopied'[s][d] = ctime[f] /\ f \in copied'[d]
      <3>1. Accounted(q, e)'
        BY <1>2, <1>5, <1>6, <1>10, <2>1, <2>3, OtherAccounted
      <3> QED  BY <1>5, <2>3, <3>1
    <2>4. CASE q # s \/ e # d
      <3>1. Accounted(q, e) => Accounted(q, e)'
        BY <1>2, <1>5, <1>6, <2>1, <2>4, OtherAccounted
      <3>2. JobsOf(q, e)' # {} => JobsOf(q, e) # {}
        BY <1>2, <1>6 DEF JobsOf
      <3>3. latestCopied'[q][e] = latestCopied[q][e]
        BY <1>9, <2>4
      <3> QED  BY <1>1, <3>1, <3>2, <3>3 DEF AllAccounted
    <2> QED  BY <1>9, <2>2, <2>3, <2>4
  <1>23. Copying'
    BY <1>3 DEF Copying
  <1>24. Pending'
    BY <1>1, <1>2, <1>12 DEF Pending, StaleIsPending
  <1> QED  BY <1>14, <1>15, <1>16, <1>17, <1>18, <1>19, <1>20, <1>21, <1>22, <1>23,
      <1>24
  DEF IInv

-----------------------------------------------------------------------------
(* The whole. *)

LEMMA StutterKeeps ==
    ASSUME IInv, UNCHANGED vars
    PROVE  IInv'
  <1>1. /\ now' = now /\ ctime' = ctime /\ dir' = dir /\ deleted' = deleted
        /\ atDest' = atDest /\ copied' = copied /\ stale' = stale
        /\ staleFrom' = staleFrom /\ cleared' = cleared /\ saved' = saved
        /\ kicks' = kicks /\ at' = at /\ prio' = prio /\ todo' = todo
        /\ jobs' = jobs /\ current' = current /\ latest' = latest
        /\ latestCopied' = latestCopied
    BY DEF vars, source, shared, cycle
  <1>2. WorldTypes' /\ SharedTypes' /\ CycleTypes'
    BY <1>1 DEF IInv, WorldTypes, SharedTypes, CycleTypes
  <1>3. Past' /\ AllCovered' /\ DeletedWasCopied'
    BY <1>1 DEF IInv, Past, Untouched, JobsOf, AllCovered, Covers, DeletedWasCopied
  <1>4. JobsKnown' /\ ScanOrder'
    BY <1>1 DEF IInv, JobsKnown, ScanOrder
  <1>5. AllAccounted'
    BY <1>1 DEF IInv, AllAccounted, Accounted, JobsOf
  <1>6. Copying' /\ Pending'
    BY <1>1 DEF IInv, Copying, NextJobs, Before, Pending, StaleIsPending
  <1> QED  BY <1>2, <1>3, <1>4, <1>5, <1>6 DEF IInv

LEMMA InitInvariant == Init => IInv
  <1> SUFFICES ASSUME Init
               PROVE  IInv
    OBVIOUS
  <1>1. /\ now = 1 /\ ctime = [f \in Files |-> 0] /\ dir \in [Files -> Sources]
        /\ deleted = {} /\ atDest = [d \in Dests |-> {}] /\ copied = [d \in Dests |-> {}]
    BY DEF Init
  <1>2. /\ stale = [s \in Sources |-> "STALE"] /\ staleFrom = Min(Priorities)
        /\ cleared = ZeroTable /\ saved = ZeroTable /\ kicks = 1
    BY DEF Init, ZeroTable
  <1>3. /\ at = "wait" /\ prio = NoPriority /\ todo = {} /\ jobs = {} /\ current = {}
        /\ latest = [s \in Sources |-> 0] /\ latestCopied = ZeroTable
    BY DEF Init, ZeroTable
  <1>4. 0 \in Times /\ 1 \in Times /\ \A f \in Files : ctime[f] = 0
    BY <1>1, SourcesAssumption DEF Times
  <1>5. \A s \in Sources : /\ latest[s] = 0
                           /\ \A d \in DestsOf(s) : /\ cleared[s][d] = 0 /\ saved[s][d] = 0
                                                    /\ latestCopied[s][d] = 0
    BY <1>2, <1>3, ZeroTableFacts
  <1>6. WorldTypes
    BY <1>1, <1>4, SourcesAssumption DEF WorldTypes
  <1>7. SharedTypes
    BY <1>2, ZeroTableFacts, FirstPriority DEF SharedTypes
  <1>8. CycleTypes
    BY <1>3, <1>4, ZeroTableFacts DEF CycleTypes
  <1>9. Past
    BY <1>1, <1>4, <1>5 DEF Past
  <1>10. AllCovered /\ DeletedWasCopied
    BY <1>1, <1>4 DEF AllCovered, Covers, DeletedWasCopied
  <1>11. JobsKnown /\ ScanOrder
    BY <1>3, <1>5 DEF JobsKnown, ScanOrder
  <1>12. AllAccounted
    BY <1>3, <1>5 DEF AllAccounted, JobsOf
  <1>13. Copying /\ Pending
    BY <1>2, <1>3, FirstPriority DEF Copying, Pending, StaleIsPending
  <1> QED  BY <1>6, <1>7, <1>8, <1>9, <1>10, <1>11, <1>12, <1>13 DEF IInv

LEMMA NextKeeps == IInv /\ [Next]_vars => IInv'
  <1> SUFFICES ASSUME IInv, [Next]_vars
               PROVE  IInv'
    OBVIOUS
  <1>1. CASE UNCHANGED vars
    BY <1>1, StutterKeeps
  <1>2. CASE Tick \/ Appear \/ Remove \/ Restart
    BY <1>2, TickKeeps, AppearKeeps, RemoveKeeps, RestartKeeps
  <1>3. CASE \E s \in Sources : AddPair(s)
    BY <1>3, AddPairKeeps
  <1>4. CASE BeginCycle \/ EndScan \/ EndPriority \/ EndFile
    BY <1>4, BeginCycleKeeps, EndScanKeeps, EndPriorityKeeps, EndFileKeeps
  <1>5. CASE \E s \in Sources : ScanAgain(s) \/ ScanDir(s) \/ ScanFails(s)
    BY <1>5, ScanAgainKeeps, ScanDirKeeps, ScanFailsKeeps
  <1>6. CASE \E j \in jobs : SkipFile(j) \/ StartFile(j)
    BY <1>6, SkipFileKeeps, StartFileKeeps
  <1> QED  BY <1>1, <1>2, <1>3, <1>4, <1>5, <1>6 DEF Next, CopyingProcess

LEMMA Invariance == Spec => []IInv
  BY InitInvariant, NextKeeps, PTL DEF Spec

-----------------------------------------------------------------------------
(* Theorems. *)

\* The times, marks and jobs that the two processes share have their types in
\* every state: what is kept for a destination is kept for each destination of
\* a directory and no other.
THEOREM ServerTypes == Spec => []TypeOK
  <1>1. IInv => TypeOK
    <2> SUFFICES ASSUME IInv
                 PROVE  TypeOK
      OBVIOUS
    <2>1. WorldTypes /\ SharedTypes /\ CycleTypes
      BY DEF IInv
    <2>2. now \in Times
      BY <2>1, SourcesAssumption DEF WorldTypes, Times
    <2>3. \A s \in Sources : {cleared[s], saved[s]} \subseteq [DestsOf(s) -> Times]
      BY <2>1 DEF SharedTypes, Table
    <2> QED  BY <2>1, <2>2, <2>3 DEF TypeOK, WorldTypes, SharedTypes, CycleTypes
  <1> QED  BY <1>1, Invariance, PTL

\* No file is deleted from a source directory of which no complete copy has
\* reached every destination of the directory: the redundant files that a scan
\* deletes from a full disk have all been copied.
THEOREM DeletesOnlyCopied == Spec => []DeletedWasCopied
  <1>1. IInv => DeletedWasCopied
    BY DEF IInv
  <1> QED  BY <1>1, Invariance, PTL

\* ctimeCleared never runs ahead of the copying, in the shared memory or in the
\* paths file from which a restarted server goes on.
THEOREM ClearedIsCopied == Spec => []ClearedWasCopied
  <1>1. IInv => ClearedWasCopied
    <2> SUFFICES ASSUME IInv, NEW f \in Files, NEW d \in DestsOf(dir[f]), ctime[f] # 0,
                        ctime[f] <= Max({cleared[dir[f]][d], saved[dir[f]][d]})
                 PROVE  f \in copied[d]
      BY DEF ClearedWasCopied
    <2>1. Covers(cleared) /\ Covers(saved) /\ SharedTypes /\ dir[f] \in Sources
      BY DEF IInv, AllCovered, WorldTypes
    <2>2. cleared[dir[f]][d] \in Int /\ saved[dir[f]][d] \in Int
      BY <2>1, SourcesAssumption DEF SharedTypes, Table, Times
    <2>3. Max({cleared[dir[f]][d], saved[dir[f]][d]})
             \in {cleared[dir[f]][d], saved[dir[f]][d]}
      BY <2>2, MaxPair
    <2>4. ctime[f] <= cleared[dir[f]][d] \/ ctime[f] <= saved[dir[f]][d]
      BY <2>3
    <2> QED  BY <2>1, <2>4 DEF Covers
  <1> QED  BY <1>1, Invariance, PTL

\* A directory that a client has named is not forgotten: while it is stale a
\* cycle that will scan it is due, and the copying process is woken for it.
THEOREM StaleIsNotForgotten == Spec => []StaleIsPending
  <1>1. IInv => StaleIsPending
    BY DEF IInv, Pending
  <1> QED  BY <1>1, Invariance, PTL

\* "Because the order of copying must be maintained": a step that brings a file
\* to a destination finds all older files of its directory copied there.
THEOREM CopiesOldestFirst == Spec => OldestFirst
  <1> DEFINE Order == \A d \in Dests : \A f \in copied'[d] \ copied[d] : \A g \in Files :
                        ctime[g] # 0 /\ ctime[g] < ctime[f]
                              /\ dir[g] = dir[f] => g \in copied[d]
  <1>1. IInv /\ [Next]_vars => [Order]_vars
    <2> SUFFICES ASSUME IInv, Next
                 PROVE  Order
      OBVIOUS
    <2>1. copied' = copied \/ EndFile
      BY
      DEF Next, CopyingProcess, Tick, Appear, Remove, Restart, AddPair, BeginCycle,
          EndScan,
             EndPriority, ScanAgain, ScanDir, ScanFails, SkipFile, StartFile
    <2>2. CASE copied' = copied
      BY <2>2
    <2>3. CASE EndFile
      <3> SUFFICES ASSUME NEW d \in Dests, NEW f \in copied'[d] \ copied[d], NEW g \in Files,
                          ctime[g] # 0, ctime[g] < ctime[f], dir[g] = dir[f]
                   PROVE  g \in copied[d]
        OBVIOUS
      <3>1. WorldTypes /\ CycleTypes /\ AllAccounted /\ Copying
        BY DEF IInv
      <3>2. PICK j \in jobs : /\ current = {j} /\ j \in NextJobs
                              /\ latestCopied[dir[j[1]]][j[2]] # Failed
        BY <2>3, <3>1 DEF Copying, EndFile
      <3>3. copied' = copied \/ copied' = [copied EXCEPT ![j[2]] = @ \cup {j[1]}]
        BY <2>3, <3>2 DEF EndFile
      <3>4. j[2] = d /\ j[1] = f
        BY <3>1, <3>3 DEF WorldTypes
      <3>5. /\ f \in Files /\ dir[f] \in Sources /\ d \in DestsOf(dir[f])
            /\ ctime[f] <= latest[dir[f]] /\ ctime[f] \in Times /\ latest[dir[f]] \in Times
        BY <3>4, JobFacts
      <3>6. Accounted(dir[f], d)
        <4>1. JobsOf(dir[f], d) # {}
          BY <3>4 DEF JobsOf
        <4> QED  BY <3>1, <3>2, <3>4, <3>5, <4>1 DEF AllAccounted
      <3>7. ctime[g] \in Nat /\ ctime[f] \in Nat /\ ctime[g] <= latest[dir[f]]
        BY <3>1, <3>5, SourcesAssumption DEF WorldTypes, Times
      <3>8. g \in copied[d] \/ <<g, d>> \in jobs
        BY <3>6, <3>7 DEF Accounted
      <3>9. <<g, d>> \notin jobs
        <4> SUFFICES ASSUME <<g, d>> \in jobs
                     PROVE  FALSE
          OBVIOUS
        <4>1. ctime[g] >= ctime[f]
          BY <3>1, <3>2, <3>4, NextJobIsOldest
        <4> QED  BY <3>7, <4>1
      <3> QED  BY <3>8, <3>9
    <2> QED  BY <2>1, <2>2, <2>3
  <1> QED  BY <1>1, Invariance, PTL DEF Spec, OldestFirst

-----------------------------------------------------------------------------
(* One destination for each directory: no -e, or no directory of priority 1. *)

OneDest == \A s \in Sources : DestsOf(s) = {"main"}

\* A directory whose destination a scan could not examine has no jobs in this
\* cycle, as there is no other destination to copy its files to.
BlindHasNoJobs ==
    /\ settled = {}
    /\ \A s \in blind : s \notin todo /\ \A j \in jobs : dir[j[1]] # s

\* A step that adds neither jobs nor directories, and settles none.
LEMMA OthersKeepBlind ==
    ASSUME BlindHasNoJobs, blind' \subseteq blind, todo' \subseteq todo,
           jobs' \subseteq jobs, dir' = dir, settled' = {}
    PROVE  BlindHasNoJobs'
  BY DEF BlindHasNoJobs

\* A cycle begins, and a priority, with no directory left blind.
LEMMA NoneBlind ==
    ASSUME blind' = {}, settled' = {}
    PROVE  BlindHasNoJobs'
  BY DEF BlindHasNoJobs

LEMMA ScanDirBlind ==
    ASSUME OneDest, IInv, BlindHasNoJobs, NEW s \in Sources, ScanDir(s)
    PROVE  BlindHasNoJobs'
  <1>1. /\ ScanOrder /\ dir \in [Files -> Sources]
        /\ s \in todo /\ todo' = todo \ {s} /\ dir' = dir /\ settled' = {}
    BY DEF IInv, WorldTypes, ScanDir, BlindHasNoJobs
  <1>2. PICK bad \in SUBSET DestsOf(s) :
            /\ jobs' = jobs \cup {j \in There(s) \X (DestsOf(s) \ bad) : ~Copied(j[1], j[2])}
            /\ blind' = IF bad = {} THEN blind ELSE blind \cup {s}
    BY DEF ScanDir
  <1>3. \A j \in jobs' : j \in jobs \/ (dir[j[1]] = s /\ bad = {})
    <2> SUFFICES ASSUME NEW j \in There(s) \X (DestsOf(s) \ bad)
                 PROVE  dir[j[1]] = s /\ bad = {}
      BY <1>2
    <2>1. j[1] \in There(s) /\ j[2] \in DestsOf(s) \ bad
      OBVIOUS
    <2> QED  BY <2>1 DEF There, OneDest
  <1> SUFFICES ASSUME NEW t \in blind'
               PROVE  t \notin todo' /\ \A j \in jobs' : dir[j[1]] # t
    BY <1>1 DEF BlindHasNoJobs
  <1>4. CASE t = s
    <2>1. s \notin blind
      BY <1>1 DEF BlindHasNoJobs
    <2>2. bad # {}
      BY <1>2, <1>4, <2>1
    <2> QED  BY <1>1, <1>3, <1>4, <2>2 DEF ScanOrder
  <1>5. CASE t # s
    <2>1. t \in blind
      BY <1>2, <1>5
    <2> QED  BY <1>1, <1>3, <1>5, <2>1 DEF BlindHasNoJobs
  <1> QED  BY <1>4, <1>5

\* The file that ends belongs to a directory that is not blind.
LEMMA EndFileBlind ==
    ASSUME IInv, BlindHasNoJobs, EndFile
    PROVE  BlindHasNoJobs'
  <1>1. PICK j \in jobs : current = {j}
    BY DEF IInv, Copying, EndFile
  <1>2. /\ blind' = blind /\ todo' = todo /\ dir' = dir
        /\ jobs' = jobs \ {j}
        /\ \/ settled' = settled
           \/ settled' = IF dir[j[1]] \in blind THEN settled \cup {dir[j[1]]} ELSE settled
    BY <1>1 DEF EndFile, source
  <1>3. dir[j[1]] \notin blind
    BY <1>1 DEF BlindHasNoJobs
  <1>4. settled' = {}
    BY <1>2, <1>3 DEF BlindHasNoJobs
  <1> QED  BY <1>2, <1>4, OthersKeepBlind

LEMMA NextKeepsBlind ==
    ASSUME OneDest, IInv, BlindHasNoJobs, [Next]_vars
    PROVE  BlindHasNoJobs'
  <1>1. CASE UNCHANGED vars
    <2>1. UNCHANGED <<blind, todo, jobs, dir, settled>>
      BY <1>1 DEF vars, source, cycle
    <2> QED  BY <2>1, OthersKeepBlind DEF BlindHasNoJobs
  <1>2. CASE Tick \/ Appear \/ Remove \/ EndScan
    <2>1. UNCHANGED <<blind, jobs, dir, settled, todo>>
      BY <1>2 DEF Tick, Appear, Remove, EndScan, source, cycle
    <2> QED  BY <2>1, OthersKeepBlind DEF BlindHasNoJobs
  <1>3. CASE Restart
    BY <1>3, NoneBlind DEF Restart
  <1>4. CASE \E s \in Sources : AddPair(s)
    <2>1. UNCHANGED <<blind, jobs, dir, todo>> /\ settled' = {}
      BY <1>4 DEF AddPair, source, cycle, BlindHasNoJobs
    <2> QED  BY <2>1, OthersKeepBlind
  <1>5. CASE BeginCycle \/ EndPriority
    BY <1>5, NoneBlind DEF BeginCycle, EndPriority, ScanPriority, BlindHasNoJobs
  <1>6. CASE EndFile
    BY <1>6, EndFileBlind
  <1>7. ASSUME NEW s \in Sources, ScanAgain(s) \/ ScanDir(s) \/ ScanFails(s)
        PROVE  BlindHasNoJobs'
    <2>1. CASE ScanDir(s)
      BY <2>1, ScanDirBlind
    <2>2. CASE ScanFails(s)
      <3>1. UNCHANGED <<blind, jobs, dir, settled>> /\ todo' \subseteq todo
        BY <2>2 DEF ScanFails
      <3> QED  BY <3>1, OthersKeepBlind DEF BlindHasNoJobs
    <2>3. CASE ScanAgain(s)
      <3>1. UNCHANGED <<blind, jobs, dir, settled, todo>>
        BY <2>3 DEF ScanAgain, cycle
      <3> QED  BY <3>1, OthersKeepBlind DEF BlindHasNoJobs
    <2> QED  BY <1>7, <2>1, <2>2, <2>3
  <1>8. ASSUME NEW j \in jobs, SkipFile(j) \/ StartFile(j)
        PROVE  BlindHasNoJobs'
    <2>1. UNCHANGED <<blind, dir, settled, todo>> /\ jobs' \subseteq jobs
      BY <1>8 DEF SkipFile, StartFile, source
    <2> QED  BY <2>1, OthersKeepBlind DEF BlindHasNoJobs
  <1> QED  BY <1>1, <1>2, <1>3, <1>4, <1>5, <1>6, <1>7, <1>8 DEF Next, CopyingProcess

\* With one destination for each directory childLoop never marks a directory up
\* to date of which it could not examine the destination: only an extra
\* destination brings about the exception that AskedIsCopied makes.
THEOREM OneDestinationIsRetried ==
    ASSUME OneDest
    PROVE  Spec => [](settled = {})
  <1>1. Init => BlindHasNoJobs
    BY DEF Init, BlindHasNoJobs
  <1>2. IInv /\ BlindHasNoJobs /\ [Next]_vars => BlindHasNoJobs'
    BY OneDest, NextKeepsBlind
  <1>3. BlindHasNoJobs => settled = {}
    BY DEF BlindHasNoJobs
  <1> QED  BY <1>1, <1>2, <1>3, Invariance, PTL DEF Spec

=============================================================================
