-------------------------- MODULE ArchiveCacheProofs --------------------------
(* Theorems about ArchiveCache for any names, sessions and faults, when no    *)
(* name is used again before all have heard of the removal of the last file. *)
EXTENDS ArchiveCache, FiniteSetTheorems, SequenceTheorems, TLAPS

(* The inductive invariant, part by part.                                    *)

\* The database only grows, and sessions follow one another.
DatabaseTypes ==
    /\ dest \in Seq([name : Names, session : Sessions])
    /\ link \subseteq Dests
    /\ status \in [Sessions -> {"none", "started", "completed", "aborted"}]
    /\ disk \in [Names -> Dests \union {None}]
    /\ creating \in [Names -> Dests \union {None}]
    /\ halfRemoved \subseteq Dests

SessionOrder ==
    /\ \A d, e \in Dests : d < e =>
          /\ dest[d].session <= dest[e].session
          /\ NameOf(d) = NameOf(e) => dest[d].session < dest[e].session
    /\ \A d \in Dests : StatusOf(d) # "none"
    /\ \A s, t \in Sessions :
          s < t /\ status[t] # "none" => status[s] \in {"completed", "aborted"}
    /\ session # None => status[session] = "started"
    /\ rState = "ready" => \A s \in Sessions : status[s] # "started"

RecorderTypes ==
    /\ rState \in {"down", "watching", "starting", "ready", "recording", "finalising"}
    /\ session \in Sessions \union {None}
    /\ (session # None) = (rState \in {"recording", "finalising"})
    /\ todo \subseteq Names
    /\ rItems \in Seq(Dests) /\ IsInjective(rItems)
    /\ rCreating \in Seq(Dests) /\ IsInjective(rCreating)
    /\ ToSet(rItems) \intersect ToSet(rCreating) = {}
    /\ rEvents \in Seq([kind : {"deletion"}, name : Names])

\* The clean-up at the start: whose items are removed, and which one just now.
Cleaning ==
    /\ cleanup \in [session : Sessions \union {None}, item : Dests \union {None}]
    /\ cleanup.session # None =>
          /\ rState = "starting" /\ status[cleanup.session] = "aborted"
          /\ \A d \in Dests : dest[d].session <= cleanup.session
    /\ cleanup.item # None => cleanup.session # None /\ cleanup.item \in ItemsLeft \ link
    /\ leftBehind \subseteq {d \in Dests : StatusOf(d) = "aborted"}

ExportTypes ==
    /\ eState \in {"down", "watching", "ready"}
    /\ eItems \in Seq(CopyType)
    /\ eEvents \in Seq(EventType)
    /\ removing \subseteq ToSet(eItems)
    /\ transfer \in [state : {"none", "storing", "stored"}, names : SUBSET Names]
    /\ transfer.state = "none" => transfer.names = {}
    /\ eState = "down" => eEvents = <<>>
    /\ eState # "ready" => eItems = <<>> /\ transfer.names = {}

\* The tape export has one item of a name at most, and knows what it is.
OneItem ==
    /\ \A j, k \in DOMAIN eItems : eItems[j].name = eItems[k].name => j = k
    /\ \A i \in ToSet(eItems) :
          /\ NameOf(i.dest) = i.name
          /\ i.status = "completed" => StatusOf(i.dest) = "completed"
    /\ \A i, j \in removing : i = j

\* What is being recorded is new in every respect.
InUse(n) == n \in todo \/ \E d \in ToSet(rCreating) : NameOf(d) = n

IsRecording == rState \in {"recording", "finalising"}

BeingRecorded ==
    /\ ~IsRecording => rCreating = <<>>
    /\ rState # "recording" => todo = {}
    /\ \A n \in todo : \A d \in Dests : NameOf(d) = n => dest[d].session # session
    /\ \A d \in ToSet(rCreating) :
          /\ d \in link /\ d \notin halfRemoved /\ dest[d].session = session
          /\ creating[NameOf(d)] = d
          /\ \A e \in Dests : NameOf(e) = NameOf(d) => e <= d
    /\ rState \notin {"down", "watching"} =>
          \A n \in Names : creating[n] # None =>
             creating[n] \in ToSet(rCreating) /\ NameOf(creating[n]) = n
    /\ rState = "recording" =>
          \A d \in Dests : dest[d].session = session => d \in ToSet(rCreating)

Fresh ==
    \A n \in Names : InUse(n) =>
        /\ disk[n] = None
        /\ \A e \in ToSet(eEvents) : e.name # n
        /\ \A i \in ToSet(eItems) : i.name # n
        /\ n \notin transfer.names

\* What is on the disk is the newest of its name, and linked until its removal
\* has begun, which is for a reason.
Spared == onTape \union byHand \union leftBehind

Unlinked ==
    halfRemoved \union {i.dest : i \in removing} \union ({cleanup.item} \ {None})

OnDisk ==
    \A n \in Names : disk[n] # None =>
        /\ NameOf(disk[n]) = n
        /\ \A e \in Dests : NameOf(e) = n => e <= disk[n]
        /\ disk[n] \in link \union Unlinked
        /\ disk[n] \in halfRemoved => disk[n] \in Spared

RemovedForReason == \A i \in removing : disk[i.name] \in Spared \union {None}

\* What has been recorded is kept, that of the session going on included.
Kept ==
    \A d \in Dests :
        StatusOf(d) = "completed" \/ (session # None /\ dest[d].session = session) =>
            d \in ToSet(rCreating) \/ disk[NameOf(d)] = d \/ d \in Spared

\* What an ended session has left.
Left ==
    \A n \in Names : disk[n] # None =>
        \/ StatusOf(disk[n]) \in {"completed", "started"}
        \/ disk[n] \in halfMoved \union leftBehind \union Unlinked
        \/ dest[disk[n]].session = cleanup.session

\* The items of the tape export are what is on the disk, or it will hear of it.
ExportHears ==
    /\ \A i \in ToSet(eItems) : disk[i.name] # None \/ Deletion(i.name) \in ToSet(eEvents)
    /\ \A n \in Names : Deletion(n) \in ToSet(eEvents) => disk[n] = None
    /\ \A n \in Names :
          MovedTo(n) \in ToSet(eEvents) /\ disk[n] = None => Deletion(n) \in ToSet(eEvents)
    /\ \A j, k \in DOMAIN eEvents :
          j < k /\ eEvents[j].kind = "deletion" => eEvents[k].name # eEvents[j].name

ExportKnows ==
    /\ \A i \in ToSet(eItems) :
          \/ disk[i.name] \in {None, i.dest}
          \/ disk[i.name] \in Spared /\ disk[i.name] \notin link
    /\ eState = "ready" => \A n \in Names :
          disk[n] \in link => HasItem(n) \/ MovedTo(n) \in ToSet(eEvents)

\* What is being stored, or has been, stays until its own removal.
Transferred ==
    \A n \in transfer.names :
        /\ disk[n] # None
        /\ \E i \in ToSet(eItems) : i.name = n /\ i.status = "completed"
        /\ \A i \in removing : i.name # n
        /\ transfer.state = "stored" => disk[n] \in onTape

\* The recorder hears of a deletion for each item that is no longer on the disk.
NamedIn(events, n) == {k \in DOMAIN events : events[k].name = n}
ItemsOf(n) == {d \in ToSet(rItems) : NameOf(d) = n}
Unheard(n) == Cardinality(NamedIn(rEvents, n))
Held(n) == Cardinality(ItemsOf(n))

RecorderHears ==
    \A n \in Names :
        /\ Held(n) <= Unheard(n) + (IF disk[n] = None THEN 0 ELSE 1)
        /\ Held(n) # 0 => Unheard(n) <= Held(n)
        /\ Held(n) # 0 /\ disk[n] # None => Unheard(n) < Held(n)
        /\ InUse(n) => Unheard(n) <= Held(n)

RecorderKnows ==
    /\ \A j, k \in DOMAIN rItems :
          j < k /\ NameOf(rItems[j]) = NameOf(rItems[k]) => rItems[j] < rItems[k]
    /\ rState \notin {"down", "watching"} =>
          link \subseteq ToSet(rItems) \union ToSet(rCreating)
    /\ rState \in {"down", "watching"} => rItems = <<>>
    /\ rState = "down" => rEvents = <<>>

\* While it starts it knows what a crash has left.
Starting ==
    /\ rState \in {"watching", "starting"} =>
          \A n \in Names : disk[n] # None => Unheard(n) = 0
    /\ rState = "starting" =>
          /\ \A d, e \in ToSet(rItems) : NameOf(d) = NameOf(e) => d = e
          /\ \A d \in ToSet(rItems), e \in link : NameOf(d) = NameOf(e) => d = e
          /\ \A d \in ToSet(rItems) : disk[NameOf(d)] = d =>
                \A i \in ToSet(eItems) : i.name = NameOf(d) => i.dest = d
          /\ \A n \in Names :
                disk[n] # None /\ (\/ StatusOf(disk[n]) = "started"
                                  \/ dest[disk[n]].session = cleanup.session) =>
                disk[n] \in ToSet(rItems) \union Unlinked

IInv ==
    /\ DatabaseTypes /\ SessionOrder /\ RecorderTypes /\ Cleaning /\ ExportTypes
    /\ OneItem /\ BeingRecorded /\ Fresh
    /\ OnDisk /\ RemovedForReason /\ Kept /\ Left
    /\ ExportHears /\ ExportKnows /\ Transferred
    /\ RecorderHears /\ RecorderKnows /\ Starting
-----------------------------------------------------------------------------
(* Sequences: what the operators of the module do with them.                *)

LEMMA SequenceShape ==
    ASSUME NEW S, NEW s \in Seq(S)
    PROVE  /\ Len(s) \in Nat /\ DOMAIN s = 1 .. Len(s)
           /\ \A k \in DOMAIN s : s[k] \in S /\ s[k] \in ToSet(s)
           /\ ToSet(s) \subseteq S
           /\ \A x \in ToSet(s) : \E k \in DOMAIN s : x = s[k]
  BY LenProperties DEF ToSet

LEMMA ToSetFinite ==
    ASSUME NEW S, NEW s \in Seq(S)
    PROVE  IsFiniteSet(ToSet(s))
  <1> DEFINE f == [k \in 1 .. Len(s) |-> s[k]]
  <1>1. IsFiniteSet(1 .. Len(s))
    BY SequenceShape, FS_Interval
  <1>2. f \in Surjection(1 .. Len(s), ToSet(s))
    BY SequenceShape DEF Surjection, ToSet
  <1> QED  BY <1>1, <1>2, FS_Surjection

LEMMA EmptyShape == ToSet(<<>>) = {} /\ IsInjective(<<>>) /\ DOMAIN <<>> = {}
  BY DEF ToSet, IsInjective

LEMMA AppendShape ==
    ASSUME NEW S, NEW s \in Seq(S), NEW x \in S
    PROVE  /\ Append(s, x) \in Seq(S)
           /\ DOMAIN Append(s, x) = 1 .. Len(s) + 1
           /\ \A k \in DOMAIN s : Append(s, x)[k] = s[k]
           /\ Append(s, x)[Len(s) + 1] = x
           /\ ToSet(Append(s, x)) = ToSet(s) \union {x}
           /\ x \notin ToSet(s) /\ IsInjective(s) => IsInjective(Append(s, x))
  <1>1. /\ Append(s, x) \in Seq(S)
        /\ DOMAIN Append(s, x) = 1 .. Len(s) + 1
        /\ \A k \in 1 .. Len(s) : Append(s, x)[k] = s[k]
        /\ Append(s, x)[Len(s) + 1] = x
        /\ Len(s) \in Nat /\ DOMAIN s = 1 .. Len(s)
    BY SequenceShape, AppendProperties
  <1>2. ToSet(Append(s, x)) = ToSet(s) \union {x}
    <2>1. ToSet(Append(s, x)) \subseteq ToSet(s) \union {x}
      BY <1>1 DEF ToSet
    <2>2. ToSet(s) \subseteq ToSet(Append(s, x))
      BY <1>1 DEF ToSet
    <2>3. x \in ToSet(Append(s, x))
      BY <1>1 DEF ToSet
    <2> QED  BY <2>1, <2>2, <2>3
  <1>3. ASSUME x \notin ToSet(s), IsInjective(s)
        PROVE  IsInjective(Append(s, x))
    BY <1>1, <1>3 DEF IsInjective, ToSet
  <1> QED  BY <1>1, <1>2, <1>3

LEMMA TailShape ==
    ASSUME NEW S, NEW s \in Seq(S), s # <<>>
    PROVE  /\ Tail(s) \in Seq(S) /\ Head(s) \in ToSet(s) /\ Head(s) \in S
           /\ Len(s) \in Nat \ {0} /\ DOMAIN s = 1 .. Len(s)
           /\ DOMAIN Tail(s) = 1 .. Len(s) - 1
           /\ s[1] = Head(s)
           /\ \A k \in 1 .. Len(s) - 1 : Tail(s)[k] = s[k + 1]
           /\ ToSet(s) = ToSet(Tail(s)) \union {Head(s)}
           /\ IsInjective(s) => Head(s) \notin ToSet(Tail(s)) /\ IsInjective(Tail(s))
  <1>1. /\ Tail(s) \in Seq(S) /\ Head(s) = s[1]
        /\ Len(s) \in Nat \ {0} /\ DOMAIN s = 1 .. Len(s)
        /\ Len(Tail(s)) = Len(s) - 1 /\ DOMAIN Tail(s) = 1 .. Len(Tail(s))
        /\ \A k \in 1 .. Len(Tail(s)) : Tail(s)[k] = s[k + 1]
    BY HeadTailProperties, EmptySeq, SequenceShape
  <1>2. Head(s) \in ToSet(s) /\ Head(s) \in S
    BY <1>1, SequenceShape
  <1>3. ToSet(s) = ToSet(Tail(s)) \union {Head(s)}
    <2>1. ToSet(Tail(s)) \subseteq ToSet(s)
      BY <1>1 DEF ToSet
    <2>2. ASSUME NEW x \in ToSet(s), x # Head(s)
          PROVE  x \in ToSet(Tail(s))
      <3>1. PICK k \in DOMAIN s : x = s[k]
        BY <2>2 DEF ToSet
      <3>2. k # 1 /\ k - 1 \in 1 .. Len(s) - 1 /\ Tail(s)[k - 1] = s[k]
        BY <1>1, <2>2, <3>1
      <3> QED  BY <1>1, <3>1, <3>2 DEF ToSet
    <2> QED  BY <1>2, <2>1, <2>2
  <1>4. ASSUME IsInjective(s)
        PROVE  Head(s) \notin ToSet(Tail(s)) /\ IsInjective(Tail(s))
    <2>1. Head(s) \notin ToSet(Tail(s))
      <3> SUFFICES ASSUME NEW k \in 1 .. Len(s) - 1, Tail(s)[k] = s[1]
                   PROVE  FALSE
        BY <1>1 DEF ToSet
      <3> QED  BY <1>1, <1>4 DEF IsInjective
    <2>2. IsInjective(Tail(s))
      <3> SUFFICES ASSUME NEW j \in 1 .. Len(s) - 1, NEW k \in 1 .. Len(s) - 1,
                          Tail(s)[j] = Tail(s)[k]
                   PROVE  j = k
        BY <1>1 DEF IsInjective
      <3>1. s[j + 1] = s[k + 1]
        BY <1>1
      <3> QED  BY <1>1, <1>4, <3>1 DEF IsInjective
    <2> QED  BY <2>1, <2>2
  <1> QED  BY <1>1, <1>2, <1>3, <1>4

LEMMA ConcatShape ==
    ASSUME NEW S, NEW s \in Seq(S), NEW t \in Seq(S)
    PROVE  /\ s \o t \in Seq(S)
           /\ Len(s) \in Nat /\ Len(t) \in Nat
           /\ DOMAIN s = 1 .. Len(s) /\ DOMAIN t = 1 .. Len(t)
           /\ DOMAIN (s \o t) = 1 .. Len(s) + Len(t)
           /\ \A k \in 1 .. Len(s) : (s \o t)[k] = s[k]
           /\ \A k \in 1 .. Len(t) : (s \o t)[Len(s) + k] = t[k]
           /\ ToSet(s \o t) = ToSet(s) \union ToSet(t)
  <1>1. /\ s \o t \in Seq(S)
        /\ Len(s) \in Nat /\ Len(t) \in Nat
        /\ DOMAIN s = 1 .. Len(s) /\ DOMAIN t = 1 .. Len(t)
        /\ DOMAIN (s \o t) = 1 .. Len(s) + Len(t)
        /\ \A k \in 1 .. Len(s) + Len(t) :
              (s \o t)[k] = IF k <= Len(s) THEN s[k] ELSE t[k - Len(s)]
    BY SequenceShape, ConcatProperties
  <1>2. \A k \in 1 .. Len(s) : (s \o t)[k] = s[k]
    BY <1>1
  <1>3. \A k \in 1 .. Len(t) : (s \o t)[Len(s) + k] = t[k]
    BY <1>1
  <1>4. ToSet(s \o t) \subseteq ToSet(s) \union ToSet(t)
    <2> SUFFICES ASSUME NEW k \in 1 .. Len(s) + Len(t)
                 PROVE  (s \o t)[k] \in ToSet(s) \union ToSet(t)
      BY <1>1 DEF ToSet
    <2>1. CASE k <= Len(s)
      BY <1>1, <2>1 DEF ToSet
    <2>2. CASE k > Len(s)
      <3>1. k - Len(s) \in 1 .. Len(t) /\ (s \o t)[k] = t[k - Len(s)]
        BY <1>1, <2>2
      <3> QED  BY <1>1, <3>1 DEF ToSet
    <2> QED  BY <1>1, <2>1, <2>2
  <1>5. ToSet(s) \subseteq ToSet(s \o t)
    BY <1>1, <1>2 DEF ToSet
  <1>6. ToSet(t) \subseteq ToSet(s \o t)
    <2> SUFFICES ASSUME NEW k \in 1 .. Len(t)
                 PROVE  t[k] \in ToSet(s \o t)
      BY <1>1 DEF ToSet
    <2>1. Len(s) + k \in DOMAIN (s \o t)
      BY <1>1
    <2> QED  BY <1>3, <2>1 DEF ToSet
  <1> QED  BY <1>1, <1>2, <1>3, <1>4, <1>5, <1>6

\* A set in some order.
LEMMA SetToSeqShape ==
    ASSUME NEW S, IsFiniteSet(S)
    PROVE  /\ SetToSeq(S) \in Seq(S) /\ IsInjective(SetToSeq(S))
           /\ ToSet(SetToSeq(S)) = S
  <1> DEFINE N == Cardinality(S)
  <1>1. N \in Nat /\ ExistsBijection(1 .. N, S)
    BY FS_CardinalityType
  <1>2. PICK b \in [1 .. N -> S] : IsInjective(b)
    BY <1>1 DEF ExistsBijection, Bijection, Injection, IsInjective
  <1>3. SetToSeq(S) \in [1 .. N -> S] /\ IsInjective(SetToSeq(S))
    BY <1>2 DEF SetToSeq
  <1> DEFINE f == SetToSeq(S)
  <1> HIDE DEF f
  <1>4. f \in [1 .. N -> S] /\ IsInjective(f)
    BY <1>3 DEF f
  <1>5. f \in Seq(S)
    BY <1>1, <1>4, SeqDef
  <1>6. f \in Injection(1 .. N, S)
    BY <1>4 DEF Injection, IsInjective
  <1>7. Cardinality(1 .. N) = N
    BY <1>1, FS_Interval
  <1>8. f \in Surjection(1 .. N, S)
    BY <1>6, <1>7, FS_Injection
  <1>9. ToSet(f) = S
    BY <1>4, <1>8 DEF Surjection, ToSet
  <1> QED  BY <1>4, <1>5, <1>9 DEF f

\* There is a least element of a set of numbers.
Less == {p \in Nat \X Nat : p[1] < p[2]}

LEMMA LeastExists ==
    ASSUME NEW T, T \subseteq Nat, T # {}
    PROVE  \E x \in T : \A y \in T : x <= y
  <1>1. IsWellFoundedOn(Less, Nat)
    BY NatLessThanWellFounded, Zenon DEF OpToRel, Less
  <1>2. PICK x \in T : \A y \in T : <<y, x>> \notin Less
    BY <1>1, WFMin
  <1>3. ASSUME NEW y \in T
        PROVE  x <= y
    <2>1. <<y, x>> \in Nat \X Nat /\ <<y, x>> \notin Less
      BY <1>2
    <2>2. ~(y < x)
      BY <2>1 DEF Less
    <2> QED  BY <2>2
  <1> QED  BY <1>2, <1>3

LEMMA RemoveAtShape ==
    ASSUME NEW S, NEW items \in Seq(S), NEW i \in DOMAIN items
    PROVE  /\ RemoveAt(items, i) \in Seq(S)
           /\ Len(RemoveAt(items, i)) = Len(items) - 1
           /\ \A k \in 1 .. Len(items) - 1 :
                 RemoveAt(items, i)[k] = IF k < i THEN items[k] ELSE items[k + 1]
  <1> DEFINE N == Len(items)
             a == SubSeq(items, 1, i - 1)
             b == SubSeq(items, i + 1, N)
  <1>1. N \in Nat /\ DOMAIN items = 1 .. N /\ i \in 1 .. N
    BY SequenceShape
  <1>2. \A k \in 1 .. N : items[k] \in S
    BY <1>1, SequenceShape
  <1> HIDE DEF N
  <1>3. /\ a \in Seq(S) /\ Len(a) = i - 1
        /\ \A k \in 1 .. i - 1 : a[k] = items[k]
    <2>1. \A k \in 1 .. i - 1 : items[k] \in S
      BY <1>1, <1>2
    <2>2. 1 \in Int /\ i - 1 \in Int /\ (IF 1 <= i - 1 THEN i - 1 - 1 + 1 ELSE 0) = i - 1
          /\ i - 1 - 1 + 1 = i - 1 /\ \A k \in Int : 1 + k - 1 = k
      BY <1>1
    <2>3. /\ a \in Seq(S) /\ Len(a) = IF 1 <= i - 1 THEN i - 1 - 1 + 1 ELSE 0
          /\ \A k \in 1 .. i - 1 - 1 + 1 : a[k] = items[1 + k - 1]
      BY <2>1, <2>2, SubSeqProperties
    <2> QED  BY <2>2, <2>3
  <1>4. /\ b \in Seq(S) /\ Len(b) = N - i
        /\ \A k \in 1 .. N - i : b[k] = items[i + k]
    <2>1. \A k \in i + 1 .. N : items[k] \in S
      BY <1>1, <1>2
    <2>2. i + 1 \in Int /\ N \in Int
      BY <1>1
    <2>3. /\ b \in Seq(S)
          /\ Len(b) = IF i + 1 <= N THEN N - (i + 1) + 1 ELSE 0
          /\ \A k \in 1 .. N - (i + 1) + 1 : b[k] = items[i + 1 + k - 1]
      BY <2>1, <2>2, SubSeqProperties
    <2> QED  BY <1>1, <2>3
  <1> HIDE DEF a, b
  <1>5. /\ a \o b \in Seq(S) /\ Len(a \o b) = Len(a) + Len(b)
        /\ \A k \in 1 .. Len(a) + Len(b) :
              (a \o b)[k] = IF k <= Len(a) THEN a[k] ELSE b[k - Len(a)]
    <2>1. a \in Seq(S) /\ b \in Seq(S)
      BY <1>3, <1>4
    <2> QED  BY <2>1, ConcatProperties
  <1>6. Len(a) = i - 1 /\ Len(a) + Len(b) = N - 1
    BY <1>1, <1>3, <1>4
  <1>7. ASSUME NEW k \in 1 .. N - 1
        PROVE  (a \o b)[k] = IF k < i THEN items[k] ELSE items[k + 1]
    <2>1. CASE k < i
      BY <1>1, <1>3, <1>5, <1>6, <2>1
    <2>2. CASE ~(k < i)
      <3>1. k - (i - 1) \in 1 .. N - i /\ i + (k - (i - 1)) = k + 1
        BY <1>1, <2>2
      <3>2. (a \o b)[k] = b[k - (i - 1)]
        BY <1>1, <1>5, <1>6, <2>2
      <3>3. b[k - (i - 1)] = items[i + (k - (i - 1))]
        BY <1>4, <3>1
      <3>4. (a \o b)[k] = items[k + 1]
        BY <3>1, <3>2, <3>3, Zenon
      <3> QED  BY <2>2, <3>4
    <2> QED  BY <2>1, <2>2
  <1>8. RemoveAt(items, i) = a \o b
    BY DEF RemoveAt, a, b, N
  <1> QED  BY <1>5, <1>6, <1>7, <1>8 DEF N

\* The first item of a name is forgotten, if there is one.
FirstOf(names, n, i) ==
    i \in DOMAIN names /\ names[i] = n /\ \A j \in 1 .. i - 1 : names[j] # n

LEMMA ForgetShape ==
    ASSUME NEW S, NEW items \in Seq(S), NEW names, NEW n,
           DOMAIN names = DOMAIN items, Len(names) = Len(items)
    PROVE  \/ /\ \A k \in DOMAIN items : names[k] # n
              /\ Forget(items, names, n) = items
           \/ \E i \in DOMAIN items :
                 FirstOf(names, n, i) /\ Forget(items, names, n) = RemoveAt(items, i)
  <1> DEFINE I == {k \in 1 .. Len(names) : names[k] = n}
             i == IF I # {} THEN Min(I) ELSE 0
  <1>1. Len(items) \in Nat /\ DOMAIN items = 1 .. Len(items)
    BY SequenceShape
  <1>2. Forget(items, names, n) = IF i = 0 THEN items ELSE RemoveAt(items, i)
    BY Zenon DEF Forget, ForgetFirst, SelectInSeq
  <1>3. CASE I = {}
    BY <1>1, <1>2, <1>3
  <1>4. CASE I # {}
    <2>1. i \in I /\ \A y \in I : i <= y
      <3>1. I \subseteq Nat
        BY <1>1
      <3>2. \E x \in I : \A y \in I : x <= y
        BY <1>4, <3>1, LeastExists
      <3> QED  BY <1>4, <3>2 DEF Min
    <2> HIDE DEF i
    <2>2. i \in DOMAIN items /\ FirstOf(names, n, i)
      BY <1>1, <2>1 DEF FirstOf
    <2>3. i # 0
      BY <1>1, <2>2
    <2> QED  BY <1>2, <2>2, <2>3
  <1> QED  BY <1>3, <1>4

\* What an injective sequence is without one of its elements.
LEMMA WithoutShape ==
    ASSUME NEW S, NEW items \in Seq(S), IsInjective(items), NEW i \in DOMAIN items
    PROVE  /\ RemoveAt(items, i) \in Seq(S) /\ IsInjective(RemoveAt(items, i))
           /\ ToSet(RemoveAt(items, i)) = ToSet(items) \ {items[i]}
           /\ \A j, k \in DOMAIN RemoveAt(items, i) : j < k =>
                 \E l, m \in DOMAIN items :
                    /\ l < m
                    /\ items[l] = RemoveAt(items, i)[j] /\ items[m] = RemoveAt(items, i)[k]
  <1> DEFINE r == RemoveAt(items, i)
             N == Len(items)
             At(k) == IF k < i THEN k ELSE k + 1
  <1>1. N \in Nat /\ DOMAIN items = 1 .. N /\ i \in 1 .. N
    BY SequenceShape
  <1>2. /\ r \in Seq(S) /\ DOMAIN r = 1 .. N - 1
        /\ \A k \in 1 .. N - 1 : r[k] = IF k < i THEN items[k] ELSE items[k + 1]
    BY RemoveAtShape, SequenceShape
  <1> HIDE DEF r, N
  <1>3. ASSUME NEW k \in 1 .. N - 1
        PROVE  At(k) \in 1 .. N /\ At(k) # i /\ r[k] = items[At(k)]
    BY <1>1, <1>2
  <1>4. ASSUME NEW j \in 1 .. N - 1, NEW k \in 1 .. N - 1
        PROVE  (j < k => At(j) < At(k)) /\ (At(j) = At(k) => j = k)
    BY <1>1
  <1>5. IsInjective(r)
    <2> SUFFICES ASSUME NEW j \in 1 .. N - 1, NEW k \in 1 .. N - 1, r[j] = r[k]
                 PROVE  j = k
      BY <1>2 DEF IsInjective
    <2>1. At(j) = At(k)
      <3> HIDE DEF At
      <3> QED  BY <1>1, <1>3 DEF IsInjective
    <2> QED  BY <1>4, <2>1
  <1>6. ToSet(r) = ToSet(items) \ {items[i]}
    <2>1. ToSet(r) \subseteq ToSet(items) \ {items[i]}
      <3> SUFFICES ASSUME NEW k \in 1 .. N - 1
                   PROVE  r[k] \in ToSet(items) \ {items[i]}
        BY <1>2 DEF ToSet
      <3> HIDE DEF At
      <3> QED  BY <1>1, <1>3 DEF ToSet, IsInjective
    <2>2. ASSUME NEW m \in 1 .. N, m # i
          PROVE  items[m] \in ToSet(r)
      <3> DEFINE k == IF m < i THEN m ELSE m - 1
      <3>1. k \in 1 .. N - 1 /\ At(k) = m
        BY <1>1, <2>2
      <3> HIDE DEF k, At
      <3> QED  BY <1>2, <1>3, <3>1 DEF ToSet
    <2>3. ToSet(items) \ {items[i]} \subseteq ToSet(r)
      BY <1>1, <2>2 DEF ToSet
    <2> QED  BY <2>1, <2>3
  <1>7. ASSUME NEW j \in DOMAIN r, NEW k \in DOMAIN r, j < k
        PROVE  \E l, m \in DOMAIN items : l < m /\ items[l] = r[j] /\ items[m] = r[k]
    <2> HIDE DEF At
    <2>1. j \in 1 .. N - 1 /\ k \in 1 .. N - 1
      BY <1>2
    <2>2. At(j) \in DOMAIN items /\ At(k) \in DOMAIN items /\ At(j) < At(k)
      BY <1>1, <1>3, <1>4, <1>7, <2>1
    <2> QED  BY <1>3, <2>1, <2>2
  <1> QED  BY <1>2, <1>5, <1>6, <1>7 DEF r
-----------------------------------------------------------------------------
(* Counting events and items by name.                                       *)

LEMMA NamedInFinite ==
    ASSUME NEW S, NEW s \in Seq(S), NEW n
    PROVE  IsFiniteSet(NamedIn(s, n)) /\ Cardinality(NamedIn(s, n)) \in Nat
  <1>1. IsFiniteSet(DOMAIN s)
    BY SequenceShape, FS_Interval
  <1>2. NamedIn(s, n) \in SUBSET DOMAIN s
    BY DEF NamedIn
  <1>3. IsFiniteSet(NamedIn(s, n))
    BY <1>1, <1>2, FS_Subset
  <1> QED  BY <1>3, FS_CardinalityType

LEMMA NoneNamedIn ==
    ASSUME NEW n
    PROVE  NamedIn(<<>>, n) = {} /\ Cardinality(NamedIn(<<>>, n)) = 0
  <1>1. NamedIn(<<>>, n) = {}
    BY EmptyShape DEF NamedIn
  <1> QED  BY <1>1, FS_EmptySet

LEMMA SomeNamedIn ==
    ASSUME NEW S, NEW s \in Seq(S), NEW n
    PROVE  Cardinality(NamedIn(s, n)) = 0 <=> \A e \in ToSet(s) : e.name # n
  <1>1. Cardinality(NamedIn(s, n)) = 0 <=> NamedIn(s, n) = {}
    BY NamedInFinite, FS_EmptySet
  <1> QED  BY <1>1 DEF NamedIn, ToSet

\* The head of a sequence counts for its name.
LEMMA CountTail ==
    ASSUME NEW S, NEW s \in Seq(S), s # <<>>, NEW n
    PROVE  Cardinality(NamedIn(s, n)) =
               Cardinality(NamedIn(Tail(s), n)) + (IF Head(s).name = n THEN 1 ELSE 0)
  <1> DEFINE A == NamedIn(s, n)
             B == NamedIn(Tail(s), n)
             f == [k \in B |-> k + 1]
  <1>1. /\ Tail(s) \in Seq(S) /\ Len(s) \in Nat \ {0}
        /\ DOMAIN s = 1 .. Len(s) /\ DOMAIN Tail(s) = 1 .. Len(s) - 1
        /\ s[1] = Head(s) /\ \A k \in 1 .. Len(s) - 1 : Tail(s)[k] = s[k + 1]
    BY TailShape
  <1>2. IsFiniteSet(A) /\ IsFiniteSet(B) /\ Cardinality(A) \in Nat /\ Cardinality(B) \in Nat
    BY <1>1, NamedInFinite
  <1>3. \A k \in A \ {1} : k - 1 \in B
    BY <1>1 DEF NamedIn
  <1>4. \A k \in B : k \in Nat /\ k + 1 \in A \ {1}
    BY <1>1 DEF NamedIn
  <1>5. 1 \in A <=> Head(s).name = n
    BY <1>1 DEF NamedIn
  <1>6. \A k \in A : k \in Nat
    BY <1>1 DEF NamedIn
  <1> HIDE DEF A, B
  <1>7. f \in Bijection(B, A \ {1})
    <2>1. f \in [B -> A \ {1}]
      BY <1>4
    <2>2. \A j, k \in B : f[j] = f[k] => j = k
      BY <1>4
    <2>3. \A x \in A \ {1} : x - 1 \in B /\ f[x - 1] = x
      BY <1>3, <1>6
    <2> QED  BY <2>1, <2>2, <2>3 DEF Bijection, Injection, Surjection, IsInjective
  <1>8. Cardinality(A \ {1}) = Cardinality(B)
    BY <1>2, <1>7, FS_Bijection DEF ExistsBijection
  <1>9. Cardinality(A \ {1}) = IF 1 \in A THEN Cardinality(A) - 1 ELSE Cardinality(A)
    BY <1>2, FS_RemoveElement
  <1> QED  BY <1>2, <1>5, <1>8, <1>9 DEF A, B

\* Events that have different names count for each of them.
LEMMA CountConcat ==
    ASSUME NEW S, NEW s \in Seq(S), NEW t \in Seq(S), NEW n,
           \A j, k \in DOMAIN t : t[j].name = t[k].name => j = k
    PROVE  Cardinality(NamedIn(s \o t, n)) =
               Cardinality(NamedIn(s, n)) + (IF \E e \in ToSet(t) : e.name = n THEN 1 ELSE 0)
  <1> DEFINE A == NamedIn(s, n)
             B == NamedIn(s \o t, n)
  <1>1. /\ Len(s) \in Nat /\ Len(t) \in Nat
        /\ DOMAIN s = 1 .. Len(s) /\ DOMAIN t = 1 .. Len(t)
        /\ DOMAIN (s \o t) = 1 .. Len(s) + Len(t)
        /\ \A k \in 1 .. Len(s) : (s \o t)[k] = s[k]
        /\ \A k \in 1 .. Len(t) : (s \o t)[Len(s) + k] = t[k]
    BY ConcatShape
  <1>2. A \subseteq B /\ \A k \in B : k <= Len(s) => k \in A
    BY <1>1 DEF NamedIn
  <1>3. \A k \in B : k > Len(s) => k - Len(s) \in DOMAIN t /\ t[k - Len(s)].name = n
    <2> SUFFICES ASSUME NEW k \in B, k > Len(s)
                 PROVE  k - Len(s) \in DOMAIN t /\ t[k - Len(s)].name = n
      OBVIOUS
    <2>1. k \in 1 .. Len(s) + Len(t) /\ (s \o t)[k].name = n
      BY <1>1 DEF NamedIn
    <2>2. k - Len(s) \in 1 .. Len(t) /\ Len(s) + (k - Len(s)) = k
      BY <1>1, <2>1
    <2>3. (s \o t)[Len(s) + (k - Len(s))] = t[k - Len(s)]
      BY <1>1, <2>2
    <2> QED  BY <1>1, <2>1, <2>2, <2>3
  <1>4. \A k \in B : k \in Nat
    BY <1>1 DEF NamedIn
  <1>5. IsFiniteSet(A) /\ Cardinality(A) \in Nat
    BY NamedInFinite
  <1>6. CASE \E e \in ToSet(t) : e.name = n
    <2>1. PICK m \in DOMAIN t : t[m].name = n
      BY <1>6 DEF ToSet
    <2>2. Len(s) + m \in B
      BY <1>1, <2>1 DEF NamedIn
    <2>3. Len(s) + m \notin A
      BY <1>1 DEF NamedIn
    <2> HIDE DEF A, B
    <2>4. \A k \in B : k > Len(s) => k = Len(s) + m
      <3> SUFFICES ASSUME NEW k \in B, k > Len(s)
                   PROVE  k = Len(s) + m
        OBVIOUS
      <3>1. k - Len(s) = m
        BY <1>3, <2>1
      <3> QED  BY <1>1, <1>4, <2>1, <3>1
    <2>5. B = A \union {Len(s) + m}
      <3>1. \A k \in B : k <= Len(s) \/ k > Len(s)
        BY <1>1, <1>4
      <3> QED  BY <1>2, <2>2, <2>4, <3>1
    <2>6. Cardinality(B) = Cardinality(A) + 1
      BY <1>5, <2>3, <2>5, FS_AddElement
    <2> QED  BY <1>6, <2>6 DEF A, B
  <1>7. CASE ~\E e \in ToSet(t) : e.name = n
    <2>1. \A k \in DOMAIN t : t[k].name # n
      BY <1>7 DEF ToSet
    <2> HIDE DEF A, B
    <2>2. \A k \in B : ~(k > Len(s))
      BY <1>3, <2>1
    <2>3. \A k \in B : k <= Len(s)
      BY <1>1, <1>4, <2>2
    <2>4. B = A
      BY <1>2, <2>3
    <2> QED  BY <1>5, <1>7, <2>4 DEF A, B
  <1> QED  BY <1>6, <1>7

LEMMA DestShape ==
    ASSUME DatabaseTypes
    PROVE  /\ Len(dest) \in Nat /\ Dests = 1 .. Len(dest)
           /\ \A d \in Dests : /\ d \in Nat \ {0} /\ d # None
                               /\ NameOf(d) \in Names /\ dest[d].session \in Sessions
                               /\ dest[d].session \in Nat \ {0}
                               /\ dest[d] \in [name : Names, session : Sessions]
           /\ \A D \in SUBSET Dests : IsFiniteSet(D)
  <1>1. dest \in Seq([name : Names, session : Sessions])
    BY DEF DatabaseTypes
  <1>2. /\ Len(dest) \in Nat /\ Dests = 1 .. Len(dest)
        /\ \A d \in Dests : dest[d] \in [name : Names, session : Sessions]
    BY <1>1, SequenceShape DEF Dests
  <1>3. IsFiniteSet(Dests)
    BY <1>2, FS_Interval
  <1>4. \A D \in SUBSET Dests : IsFiniteSet(D)
    BY <1>3, FS_Subset
  <1> QED  BY <1>2, <1>4, SessionsAssumption DEF NameOf, None, Sessions

LEMMA CountShape ==
    ASSUME IInv
    PROVE  /\ \A n \in Names : Held(n) \in Nat /\ Unheard(n) \in Nat
           /\ \A n \in Names : Held(n) = 0 <=> ItemsOf(n) = {}
           /\ \A n \in Names : IsFiniteSet(ItemsOf(n))
           /\ \A n \in Names : Unheard(n) = 0 <=> \A e \in ToSet(rEvents) : e.name # n
  <1>1. rItems \in Seq(Dests) /\ rEvents \in Seq([kind : {"deletion"}, name : Names])
    BY DEF IInv, RecorderTypes
  <1>2. \A n \in Names : IsFiniteSet(ItemsOf(n))
    <2> SUFFICES ASSUME NEW n \in Names
                 PROVE  IsFiniteSet(ItemsOf(n))
      OBVIOUS
    <2>1. ItemsOf(n) \in SUBSET ToSet(rItems)
      BY DEF ItemsOf
    <2> QED  BY <1>1, <2>1, ToSetFinite, FS_Subset
  <1>3. \A n \in Names : Held(n) \in Nat /\ (Held(n) = 0 <=> ItemsOf(n) = {})
    BY <1>2, FS_CardinalityType, FS_EmptySet DEF Held
  <1>4. \A n \in Names : /\ Unheard(n) \in Nat
                         /\ Unheard(n) = 0 <=> \A e \in ToSet(rEvents) : e.name # n
    BY <1>1, NamedInFinite, SomeNamedIn DEF Unheard
  <1> QED  BY <1>2, <1>3, <1>4

\* What the watches see of files that are removed.
LEMMA FilesRemoved ==
    ASSUME DatabaseTypes, RecorderTypes, ExportTypes, ExportHears, RecorderKnows,
           NEW names \in SUBSET Names, IsFiniteSet(names), RemoveFiles(names)
    PROVE  /\ disk' = [n \in Names |-> IF n \in names THEN None ELSE disk[n]]
           /\ rEvents' \in Seq([kind : {"deletion"}, name : Names])
           /\ rState = "down" => rEvents' = <<>>
           /\ rState # "down" => \A n \in Names :
                 Unheard(n)' = Unheard(n) + (IF n \in names /\ disk[n] # None THEN 1 ELSE 0)
           /\ eEvents' \in Seq(EventType)
           /\ eState = "down" => eEvents' = <<>>
           /\ eState # "down" => ToSet(eEvents') =
                 ToSet(eEvents) \union {Deletion(n) : n \in {m \in names : disk[m] # None}}
           /\ \A j, k \in DOMAIN eEvents' :
                 j < k /\ eEvents'[j].kind = "deletion" => eEvents'[k].name # eEvents'[j].name
  <1> DEFINE M == {m \in names : disk[m] # None}
             E == {Deletion(n) : n \in M}
             t == SetToSeq(E)
             DEvents == [kind : {"deletion"}, name : Names]
  <1>1. /\ disk' = [n \in Names |-> IF n \in names THEN None ELSE disk[n]]
        /\ rEvents' = IF rState = "down" THEN <<>> ELSE rEvents \o t
        /\ eEvents' = IF eState = "down" THEN <<>> ELSE eEvents \o t
    BY DEF RemoveFiles
  <1>2. IsFiniteSet(E)
    <2>1. IsFiniteSet(M)
      <3>1. M \in SUBSET names
        OBVIOUS
      <3> HIDE DEF M
      <3> QED  BY <3>1, FS_Subset
    <2> DEFINE f == [n \in M |-> Deletion(n)]
    <2> HIDE DEF M
    <2>2. f \in Surjection(M, E)
      BY DEF Surjection
    <2> QED  BY <2>1, <2>2, FS_Surjection
  <1>3. t \in Seq(E) /\ IsInjective(t) /\ ToSet(t) = E
    BY <1>2, SetToSeqShape
  <1>4. E \subseteq DEvents /\ DEvents \subseteq EventType
    BY DEF Deletion, EventType
  <1>5. t \in Seq(DEvents) /\ t \in Seq(EventType)
    <2> HIDE DEF E, t, DEvents
    <2> QED  BY <1>3, <1>4, SeqMonotonic
  <1>6. ASSUME NEW n \in Names
        PROVE  (\E e \in E : e.name = n) <=> (n \in names /\ disk[n] # None)
    <2>1. ASSUME NEW e \in E, e.name = n
          PROVE  n \in names /\ disk[n] # None
      <3>1. PICK m \in M : e = Deletion(m)
        OBVIOUS
      <3> QED  BY <2>1, <3>1 DEF Deletion
    <2>2. ASSUME n \in names, disk[n] # None
          PROVE  \E e \in E : e.name = n
      <3>1. Deletion(n) \in E /\ Deletion(n).name = n
        BY <2>2 DEF Deletion
      <3> QED  BY <3>1
    <2> QED  BY <2>1, <2>2
  <1>7. \A k \in DOMAIN t : t[k] \in E
    BY <1>3, SequenceShape
  <1>8. \A e, g \in E : e.name = g.name => e = g
    BY DEF Deletion
  <1>9. \A j, k \in DOMAIN t : t[j].name = t[k].name => j = k
    <2> HIDE DEF t, E
    <2> QED  BY <1>3, <1>7, <1>8 DEF IsInjective
  <1>10. rEvents \in Seq(DEvents) /\ eEvents \in Seq(EventType)
    BY DEF RecorderTypes, ExportTypes
  <1> HIDE DEF M, t
  <1>11. rEvents' \in Seq(DEvents)
    <2> HIDE DEF DEvents
    <2>1. <<>> \in Seq(DEvents) /\ rEvents \o t \in Seq(DEvents)
      BY <1>5, <1>10, ConcatShape, EmptySeq
    <2> QED  BY <1>1, <2>1
  <1>12. eEvents' \in Seq(EventType)
    <2>1. <<>> \in Seq(EventType) /\ eEvents \o t \in Seq(EventType)
      BY <1>5, <1>10, ConcatShape, EmptySeq
    <2> QED  BY <1>1, <2>1
  <1>13. ASSUME rState # "down", NEW n \in Names
         PROVE  Unheard(n)' = Unheard(n) + (IF n \in names /\ disk[n] # None THEN 1 ELSE 0)
    <2> HIDE DEF E, DEvents
    <2>1. Cardinality(NamedIn(rEvents \o t, n)) =
             Cardinality(NamedIn(rEvents, n)) + (IF \E e \in ToSet(t) : e.name = n THEN 1 ELSE 0)
      BY <1>5, <1>9, <1>10, CountConcat
    <2>2. (\E e \in ToSet(t) : e.name = n) <=> (n \in names /\ disk[n] # None)
      BY <1>3, <1>6
    <2>3. Unheard(n)' = Cardinality(NamedIn(rEvents \o t, n))
      BY <1>1, <1>13 DEF Unheard, NamedIn
    <2> QED  BY <2>1, <2>2, <2>3 DEF Unheard
  <1>14. eState # "down" => ToSet(eEvents') = ToSet(eEvents) \union E
    <2> HIDE DEF E
    <2> QED  BY <1>1, <1>3, <1>5, <1>10, ConcatShape
  <1>15. ASSUME eState # "down"
         PROVE  \A j, k \in DOMAIN eEvents' :
                   j < k /\ eEvents'[j].kind = "deletion" => eEvents'[k].name # eEvents'[j].name
    <2> DEFINE s == eEvents
    <2>1. /\ Len(s) \in Nat /\ Len(t) \in Nat
          /\ DOMAIN s = 1 .. Len(s) /\ DOMAIN t = 1 .. Len(t)
          /\ DOMAIN (s \o t) = 1 .. Len(s) + Len(t)
          /\ \A k \in 1 .. Len(s) : (s \o t)[k] = s[k]
          /\ \A k \in 1 .. Len(t) : (s \o t)[Len(s) + k] = t[k]
      BY <1>5, <1>10, ConcatShape
    <2>2. SUFFICES ASSUME NEW j \in 1 .. Len(s) + Len(t), NEW k \in 1 .. Len(s) + Len(t), j < k,
                          (s \o t)[j].kind = "deletion", (s \o t)[k].name = (s \o t)[j].name
                   PROVE  FALSE
      BY <1>1, <1>15, <2>1
    <2>3. CASE k <= Len(s)
      <3>1. j \in DOMAIN s /\ k \in DOMAIN s /\ (s \o t)[j] = s[j] /\ (s \o t)[k] = s[k]
        BY <2>1, <2>2, <2>3
      <3> QED  BY <2>2, <3>1 DEF ExportHears
    <2>4. CASE k > Len(s) /\ j <= Len(s)
      <3>1. j \in DOMAIN s /\ (s \o t)[j] = s[j] /\ s[j] \in ToSet(s)
        BY <2>1, <2>2, <2>4 DEF ToSet
      <3>2. k - Len(s) \in DOMAIN t /\ (s \o t)[k] = t[k - Len(s)]
        <4>1. k - Len(s) \in 1 .. Len(t) /\ Len(s) + (k - Len(s)) = k
          BY <2>1, <2>4
        <4>2. (s \o t)[Len(s) + (k - Len(s))] = t[k - Len(s)]
          BY <2>1, <4>1
        <4> QED  BY <2>1, <4>1, <4>2
      <3>3. PICK m \in M : t[k - Len(s)] = Deletion(m)
        BY <1>7, <3>2
      <3>4. s[j] \in EventType
        BY <1>10, <3>1, SequenceShape
      <3>5. s[j] = Deletion(m)
        BY <2>2, <3>1, <3>2, <3>3, <3>4 DEF EventType, Deletion
      <3> QED  BY <3>1, <3>3, <3>5 DEF ExportHears, M
    <2>5. CASE j > Len(s)
      <3>1. j - Len(s) \in 1 .. Len(t) /\ Len(s) + (j - Len(s)) = j
            /\ k - Len(s) \in 1 .. Len(t) /\ Len(s) + (k - Len(s)) = k
            /\ j - Len(s) # k - Len(s)
        BY <2>1, <2>2, <2>5
      <3>2. (s \o t)[Len(s) + (j - Len(s))] = t[j - Len(s)]
        BY <2>1, <3>1
      <3>3. (s \o t)[Len(s) + (k - Len(s))] = t[k - Len(s)]
        BY <2>1, <3>1
      <3>4. t[j - Len(s)].name = t[k - Len(s)].name
        BY <2>2, <3>1, <3>2, <3>3
      <3> QED  BY <1>9, <2>1, <3>1, <3>4
    <2> QED  BY <2>1, <2>2, <2>3, <2>4, <2>5
  <1>16. eState = "down" => \A j, k \in DOMAIN eEvents' :
                   j < k /\ eEvents'[j].kind = "deletion" => eEvents'[k].name # eEvents'[j].name
    BY <1>1, EmptyShape
  <1> QED  BY <1>1, <1>11, <1>12, <1>13, <1>14, <1>15, <1>16 DEF M
-----------------------------------------------------------------------------
(* The parts that a step leaves alone.                                      *)

LEMMA CountsSame ==
    ASSUME UNCHANGED <<rItems, rEvents, dest>>
    PROVE  \A n : Held(n)' = Held(n) /\ Unheard(n)' = Unheard(n)
  BY DEF Held, Unheard, ItemsOf, NamedIn, NameOf

\* A step of the tape export that removes no file leaves the recorder as it was.
LEMMA RecorderUntouched ==
    ASSUME IInv, UNCHANGED <<dest, status, disk, creating, recorder>>,
           link' \subseteq link, halfRemoved' \subseteq Dests, leftBehind' = leftBehind,
           \A d \in ToSet(rCreating) : d \in link' /\ d \notin halfRemoved'
    PROVE  /\ DatabaseTypes' /\ SessionOrder' /\ RecorderTypes' /\ Cleaning'
           /\ BeingRecorded' /\ RecorderHears' /\ RecorderKnows'
  <1>1. UNCHANGED <<rState, rItems, rCreating, rEvents, session, todo, cleanup>>
    BY DEF recorder
  <1>2. DatabaseTypes' /\ SessionOrder'
    BY <1>1 DEF IInv, DatabaseTypes, SessionOrder, Dests, NameOf, StatusOf
  <1>3. RecorderTypes'
    BY <1>1 DEF IInv, RecorderTypes, Dests
  <1>4. BeingRecorded'
    BY <1>1 DEF IInv, BeingRecorded, IsRecording, Dests, NameOf
  <1>5. RecorderHears'
    BY <1>1, CountsSame DEF IInv, RecorderHears, InUse, NameOf
  <1>6. RecorderKnows'
    BY <1>1 DEF IInv, RecorderKnows, NameOf
  <1>7. Cleaning'
    BY <1>1 DEF IInv, Cleaning, ItemsLeft, Dests, StatusOf
  <1> QED  BY <1>2, <1>3, <1>4, <1>5, <1>6, <1>7

LEMMA SelectItemsKeeps ==
    ASSUME IInv, NEW names \in SUBSET Names, SelectItems(names)
    PROVE  IInv'
  <1>1. /\ UNCHANGED <<dest, link, status, disk, creating, recorder, eState, eItems, eEvents,
                       removing, onTape, byHand, halfRemoved, halfMoved, leftBehind>>
        /\ eState = "ready" /\ removing = {}
        /\ transfer' = [state |-> "storing", names |-> names]
        /\ \A n \in names : /\ \E i \in ToSet(eItems) : i.name = n /\ i.status = "completed"
                            /\ disk[n] # None /\ HasItem(n)
    BY DEF SelectItems, itemExists, database, history
  <1>2. UNCHANGED <<rState, rItems, rCreating, rEvents, session, todo, cleanup>>
    BY <1>1 DEF recorder
  <1>3. /\ DatabaseTypes' /\ SessionOrder' /\ RecorderTypes' /\ Cleaning'
        /\ BeingRecorded' /\ RecorderHears' /\ RecorderKnows'
    BY <1>1, RecorderUntouched DEF IInv, BeingRecorded, DatabaseTypes
  <1>4. ExportTypes' /\ OneItem'
    BY <1>1 DEF IInv, ExportTypes, OneItem, NameOf, StatusOf, CopyType, EventType, Dests
  <1>5. Fresh'
    BY <1>1, <1>2 DEF IInv, Fresh, InUse, NameOf
  <1>6. OnDisk' /\ RemovedForReason' /\ Kept' /\ Left'
    BY <1>1, <1>2 DEF IInv, OnDisk, RemovedForReason, Kept, Left, Spared, Unlinked,
                      NameOf, StatusOf, Dests
  <1>7. ExportHears' /\ ExportKnows'
    BY <1>1 DEF IInv, ExportHears, ExportKnows, Spared, HasItem
  <1>8. Transferred'
    BY <1>1 DEF Transferred
  <1>9. Starting'
    BY <1>1, <1>2, CountsSame DEF IInv, Starting, Unlinked, NameOf, StatusOf
  <1> QED  BY <1>3, <1>4, <1>5, <1>6, <1>7, <1>8, <1>9 DEF IInv

LEMMA StoreCompletesKeeps ==
    ASSUME IInv, StoreCompletes
    PROVE  IInv'
  <1>1. /\ UNCHANGED <<dest, link, status, disk, creating, recorder, eState, eItems, eEvents,
                       removing, byHand, halfRemoved, halfMoved,
                       leftBehind>>
        /\ eState = "ready" /\ transfer.state = "storing"
        /\ transfer' = [transfer EXCEPT !.state = "stored"]
        /\ onTape' = onTape \union {disk[n] : n \in transfer.names}
    BY DEF StoreCompletes, database
  <1>2. UNCHANGED <<rState, rItems, rCreating, rEvents, session, todo, cleanup>>
    BY <1>1 DEF recorder
  <1>3. transfer \in [state : {"none", "storing", "stored"}, names : SUBSET Names]
    BY DEF IInv, ExportTypes
  <1>4. transfer' = [state |-> "stored", names |-> transfer.names]
    BY <1>1, <1>3
  <1>5. /\ DatabaseTypes' /\ SessionOrder' /\ RecorderTypes' /\ Cleaning'
        /\ BeingRecorded' /\ RecorderHears' /\ RecorderKnows'
    BY <1>1, RecorderUntouched DEF IInv, BeingRecorded, DatabaseTypes
  <1>6. ExportTypes' /\ OneItem'
    BY <1>1, <1>3, <1>4 DEF IInv, ExportTypes, OneItem, NameOf, StatusOf, CopyType, EventType, Dests
  <1>7. Fresh'
    BY <1>1, <1>2, <1>4 DEF IInv, Fresh, InUse, NameOf
  <1>8. OnDisk' /\ RemovedForReason' /\ Kept' /\ Left'
    BY <1>1, <1>2 DEF IInv, OnDisk, RemovedForReason, Kept, Left, Spared, Unlinked, NameOf,
                      StatusOf, Dests
  <1>9. ExportHears' /\ ExportKnows'
    BY <1>1 DEF IInv, ExportHears, ExportKnows, Spared, HasItem
  <1>10. Transferred'
    BY <1>1, <1>4 DEF IInv, Transferred
  <1>11. Starting'
    BY <1>1, <1>2, CountsSame DEF IInv, Starting, Unlinked, NameOf, StatusOf
  <1> QED  BY <1>5, <1>6, <1>7, <1>8, <1>9, <1>10, <1>11 DEF IInv

LEMMA StoreFailsKeeps ==
    ASSUME IInv, StoreFails
    PROVE  IInv'
  <1>1. /\ UNCHANGED <<dest, link, status, disk, creating, recorder, eState, eItems, eEvents,
                       removing, onTape, byHand, halfRemoved, halfMoved, leftBehind>>
        /\ transfer' = [state |-> "none", names |-> {}]
    BY DEF StoreFails, database, history, NoTransfer
  <1>2. UNCHANGED <<rState, rItems, rCreating, rEvents, session, todo, cleanup>>
    BY <1>1 DEF recorder
  <1>3. /\ DatabaseTypes' /\ SessionOrder' /\ RecorderTypes' /\ Cleaning'
        /\ BeingRecorded' /\ RecorderHears' /\ RecorderKnows'
    BY <1>1, RecorderUntouched DEF IInv, BeingRecorded, DatabaseTypes
  <1>4. ExportTypes' /\ OneItem'
    BY <1>1 DEF IInv, ExportTypes, OneItem, NameOf, StatusOf, CopyType, EventType, Dests
  <1>5. Fresh'
    BY <1>1, <1>2 DEF IInv, Fresh, InUse, NameOf
  <1>6. OnDisk' /\ RemovedForReason' /\ Kept' /\ Left'
    BY <1>1, <1>2 DEF IInv, OnDisk, RemovedForReason, Kept, Left, Spared, Unlinked, NameOf,
                      StatusOf, Dests
  <1>7. ExportHears' /\ ExportKnows' /\ Transferred'
    BY <1>1 DEF IInv, ExportHears, ExportKnows, Spared, HasItem, Transferred
  <1>8. Starting'
    BY <1>1, <1>2, CountsSame DEF IInv, Starting, Unlinked, NameOf, StatusOf
  <1> QED  BY <1>3, <1>4, <1>5, <1>6, <1>7, <1>8 DEF IInv

LEMMA GreatestExists ==
    ASSUME NEW T, NEW b \in Nat, T \subseteq 0 .. b, T # {}
    PROVE  Max(T) \in T /\ \A y \in T : y <= Max(T)
  <1> DEFINE R == {b - y : y \in T}
  <1>1. R \subseteq Nat /\ R # {}
    <2>1. ASSUME NEW y \in T  PROVE  b - y \in Nat
      <3>1. y \in 0 .. b
        OBVIOUS
      <3> QED  BY <3>1
    <2>2. PICK y \in T : TRUE
      OBVIOUS
    <2>3. b - y \in R
      OBVIOUS
    <2> QED  BY <2>1, <2>3
  <1>2. PICK r \in R : \A x \in R : r <= x
    <2> HIDE DEF R
    <2> QED  BY <1>1, LeastExists
  <1>3. PICK m \in T : r = b - m
    OBVIOUS
  <1>4. \A y \in T : m >= y
    <2> SUFFICES ASSUME NEW y \in T
                 PROVE  m >= y
      OBVIOUS
    <2>1. b - y \in R
      OBVIOUS
    <2>2. b - m <= b - y
      BY <1>2, <1>3, <2>1
    <2> QED  BY <2>2
  <1>5. Max(T) \in T /\ \A y \in T : Max(T) >= y
    BY <1>4 DEF Max
  <1> QED  BY <1>5

\* The next event of the tape export's watch.
LEMMA HeadHeard ==
    ASSUME IInv, eEvents # <<>>, eEvents' = Tail(eEvents)
    PROVE  /\ Head(eEvents) \in EventType
           /\ Head(eEvents) \in ToSet(eEvents)
           /\ eEvents' \in Seq(EventType)
           /\ ToSet(eEvents) = ToSet(eEvents') \union {Head(eEvents)}
           /\ \A j, k \in DOMAIN eEvents' :
                 j < k /\ eEvents'[j].kind = "deletion" => eEvents'[k].name # eEvents'[j].name
           /\ Head(eEvents).kind = "deletion" =>
                 \A e \in ToSet(eEvents') : e.name # Head(eEvents).name
  <1>1. eEvents \in Seq(EventType)
    BY DEF IInv, ExportTypes
  <1>2. /\ Tail(eEvents) \in Seq(EventType)
        /\ Head(eEvents) \in ToSet(eEvents) /\ Head(eEvents) \in EventType
        /\ Len(eEvents) \in Nat \ {0} /\ DOMAIN eEvents = 1 .. Len(eEvents)
        /\ DOMAIN Tail(eEvents) = 1 .. Len(eEvents) - 1
        /\ eEvents[1] = Head(eEvents)
        /\ \A k \in 1 .. Len(eEvents) - 1 : Tail(eEvents)[k] = eEvents[k + 1]
        /\ ToSet(eEvents) = ToSet(Tail(eEvents)) \union {Head(eEvents)}
    BY <1>1, TailShape
  <1>3. \A j, k \in DOMAIN eEvents :
           j < k /\ eEvents[j].kind = "deletion" => eEvents[k].name # eEvents[j].name
    BY DEF IInv, ExportHears
  <1>4. ASSUME NEW j \in DOMAIN eEvents', NEW k \in DOMAIN eEvents',
               j < k, eEvents'[j].kind = "deletion"
        PROVE  eEvents'[k].name # eEvents'[j].name
    <2>1. j \in 1 .. Len(eEvents) - 1 /\ k \in 1 .. Len(eEvents) - 1
      BY <1>2
    <2>2. /\ j + 1 \in DOMAIN eEvents /\ k + 1 \in DOMAIN eEvents /\ j + 1 < k + 1
          /\ eEvents'[j] = eEvents[j + 1] /\ eEvents'[k] = eEvents[k + 1]
      BY <1>2, <1>4, <2>1
    <2> QED  BY <1>3, <1>4, <2>2
  <1>5. ASSUME Head(eEvents).kind = "deletion", NEW e \in ToSet(eEvents')
        PROVE  e.name # Head(eEvents).name
    <2>1. PICK k \in 1 .. Len(eEvents) - 1 : e = eEvents[k + 1]
      BY <1>2 DEF ToSet
    <2>2. 1 \in DOMAIN eEvents /\ k + 1 \in DOMAIN eEvents /\ 1 < k + 1
      BY <1>2
    <2> QED  BY <1>2, <1>3, <1>5, <2>1, <2>2
  <1> QED  BY <1>2, <1>4, <1>5

\* No other destination of the name of an item being removed is linked.
LEMMA NoneLinked ==
    ASSUME IInv, NEW d \in link, cleanup.item # None
    PROVE  NameOf(d) # NameOf(cleanup.item)
  <1>1. cleanup.item \in ToSet(rItems) /\ cleanup.item \notin link /\ rState = "starting"
    BY DEF IInv, Cleaning, ItemsLeft
  <1> QED  BY <1>1 DEF IInv, Starting

LEMMA ExportHearsMovedToKeeps ==
    ASSUME IInv, exportHearsMovedTo
    PROVE  IInv'
  <1> DEFINE n == Head(eEvents).name
             found == {d \in link : NameOf(d) = n}
             m == Max(found)
             Known == HasItem(n) \/ found = {}
  <1>1. /\ UNCHANGED <<dest, link, status, disk, creating, recorder, eState, removing, transfer,
                       onTape, byHand, halfRemoved, halfMoved, leftBehind>>
        /\ eState = "ready" /\ removing = {}
        /\ eEvents # <<>> /\ Head(eEvents).kind = "movedTo"
        /\ eItems' = IF Known THEN eItems ELSE Append(eItems, Copy(m))
        /\ eEvents' = Tail(eEvents)
    BY DEF exportHearsMovedTo, database, history
  <1>2. UNCHANGED <<rState, rItems, rCreating, rEvents, session, todo, cleanup>>
    BY <1>1 DEF recorder
  <1>3. /\ eEvents' \in Seq(EventType) /\ n \in Names
        /\ ToSet(eEvents) = ToSet(eEvents') \union {MovedTo(n)}
        /\ \A j, k \in DOMAIN eEvents' :
              j < k /\ eEvents'[j].kind = "deletion" => eEvents'[k].name # eEvents'[j].name
    <2>1. Head(eEvents) = MovedTo(n) /\ n \in Names
      BY <1>1, HeadHeard DEF EventType, MovedTo
    <2> QED  BY <1>1, <2>1, HeadHeard
  <1>4. /\ DatabaseTypes /\ SessionOrder /\ ExportTypes /\ OneItem /\ Fresh /\ OnDisk
        /\ ExportHears /\ ExportKnows /\ Transferred /\ Starting
    BY DEF IInv
  <1>5. ~Known => /\ m \in link /\ NameOf(m) = n
                  /\ \A d \in link : NameOf(d) = n => d <= m
    <2> SUFFICES ASSUME found # {}
                 PROVE  m \in found /\ \A d \in found : d <= m
      OBVIOUS
    <2>1. found \subseteq 0 .. Len(dest) /\ Len(dest) \in Nat
      BY <1>4, DestShape DEF DatabaseTypes
    <2> HIDE DEF found
    <2> QED  BY <2>1, GreatestExists
  <1>6. ~Known => /\ Copy(m) \in CopyType /\ Copy(m).name = n /\ Copy(m).dest = m
                  /\ Copy(m).status = StatusOf(m)
    <2> SUFFICES ASSUME ~Known
                 PROVE  /\ Copy(m) \in CopyType /\ Copy(m).name = n /\ Copy(m).dest = m
                        /\ Copy(m).status = StatusOf(m)
      OBVIOUS
    <2> HIDE DEF Known, n, m
    <2>1. m \in Dests /\ StatusOf(m) \in {"started", "completed", "aborted"}
      BY <1>4, <1>5, DestShape DEF DatabaseTypes, SessionOrder, StatusOf
    <2> QED  BY <1>3, <1>5, <2>1 DEF Copy, CopyType
  <1> HIDE DEF m, n, found
  <1>7. /\ eItems' \in Seq(CopyType)
        /\ ToSet(eItems') = ToSet(eItems) \union (IF Known THEN {} ELSE {Copy(m)})
        /\ ~Known => /\ Len(eItems) \in Nat /\ DOMAIN eItems = 1 .. Len(eItems)
                     /\ DOMAIN eItems' = 1 .. Len(eItems) + 1
                     /\ \A k \in DOMAIN eItems : eItems'[k] = eItems[k]
                     /\ eItems'[Len(eItems) + 1] = Copy(m)
    <2>1. eItems \in Seq(CopyType)
      BY <1>4 DEF ExportTypes
    <2>2. CASE Known
      BY <1>1, <2>1, <2>2
    <2>3. CASE ~Known
      <3> HIDE DEF Known
      <3> QED  BY <1>1, <1>6, <2>1, <2>3, AppendShape, SequenceShape
    <2> QED  BY <2>2, <2>3
  <1>8. ~Known => \A i \in ToSet(eItems) : i.name # n
    BY DEF HasItem
  <1>9. /\ DatabaseTypes' /\ SessionOrder' /\ RecorderTypes' /\ Cleaning'
        /\ BeingRecorded' /\ RecorderHears' /\ RecorderKnows'
    BY <1>1, RecorderUntouched DEF IInv, BeingRecorded, DatabaseTypes
  <1>10. disk[n] \in link => found # {}
    <2> SUFFICES ASSUME disk[n] \in link
                 PROVE  found # {}
      OBVIOUS
    <2>1. disk[n] # None
      BY <1>4, DestShape DEF DatabaseTypes
    <2>2. NameOf(disk[n]) = n
      BY <1>3, <1>4, <2>1 DEF OnDisk
    <2>3. disk[n] \in found
      BY <2>2 DEF found
    <2> QED  BY <2>3
  <1>11. Known /\ disk[n] \in link => HasItem(n)
    BY <1>10
  <1> HIDE DEF Known
  <1>12. ExportTypes'
    <2>1. eItems' \in Seq(CopyType)'
      BY <1>1, <1>7 DEF CopyType, Dests
    <2>2. eEvents' \in Seq(EventType)' /\ removing' \subseteq ToSet(eItems')
      BY <1>1, <1>3 DEF EventType
    <2> QED  BY <1>1, <1>4, <2>1, <2>2 DEF ExportTypes
  <1>13. OneItem'
    <2>1. \A j, k \in DOMAIN eItems' : eItems'[j].name = eItems'[k].name => j = k
      <3>1. CASE Known
        BY <1>1, <1>4, <3>1 DEF OneItem
      <3>2. CASE ~Known
        <4>1. \A k \in DOMAIN eItems : eItems[k].name # n
          BY <1>8, <3>2 DEF ToSet
        <4> QED  BY <1>4, <1>6, <1>7, <3>2, <4>1 DEF OneItem
      <3> QED  BY <3>1, <3>2
    <2>2. ASSUME NEW i \in ToSet(eItems')
          PROVE  /\ NameOf(i.dest) = i.name
                 /\ i.status = "completed" => StatusOf(i.dest) = "completed"
      BY <1>4, <1>5, <1>6, <1>7 DEF OneItem
    <2> QED  BY <1>1, <2>1, <2>2 DEF OneItem, NameOf, StatusOf
  <1>14. Fresh'
    <2>1. ~InUse(n)
      BY <1>3, <1>4 DEF Fresh, MovedTo
    <2>2. \A k : InUse(k)' = InUse(k)
      BY <1>1, <1>2 DEF InUse, NameOf
    <2> QED  BY <1>1, <1>3, <1>4, <1>6, <1>7, <2>1, <2>2 DEF Fresh
  <1>15. OnDisk' /\ RemovedForReason' /\ Kept' /\ Left'
    BY <1>1, <1>2 DEF IInv, OnDisk, RemovedForReason, Kept, Left, Spared, Unlinked, NameOf,
                      StatusOf, Dests
  <1>16. ExportHears'
    <2>1. \A k : Deletion(k) # MovedTo(n)
      BY DEF Deletion, MovedTo
    <2>2. \A i \in ToSet(eItems') : disk[i.name] # None \/ Deletion(i.name) \in ToSet(eEvents')
      BY <1>3, <1>4, <1>6, <1>7, <2>1 DEF ExportHears
    <2>3. \A k \in Names :
             /\ Deletion(k) \in ToSet(eEvents') => disk[k] = None
             /\ MovedTo(k) \in ToSet(eEvents') /\ disk[k] = None => Deletion(k) \in ToSet(eEvents')
      BY <1>3, <1>4, <2>1 DEF ExportHears
    <2> QED  BY <1>1, <1>3, <2>2, <2>3 DEF ExportHears, Deletion, MovedTo
  <1>17. ExportKnows'
    <2>1. ~Known => \/ disk[n] \in {None, m}
                    \/ disk[n] \in Spared /\ disk[n] \notin link
      <3> SUFFICES ASSUME ~Known, disk[n] # None, disk[n] \in link
                   PROVE  disk[n] = m
        <4>1. ASSUME ~Known, disk[n] # None, disk[n] \notin link  PROVE disk[n] \in Spared
          <5>1. NameOf(disk[n]) = n /\ disk[n] \in Unlinked
            BY <1>3, <1>4, <4>1 DEF OnDisk
          <5>2. disk[n] # cleanup.item
            BY <1>5, <4>1, <5>1, NoneLinked
          <5>3. disk[n] \in halfRemoved
            BY <1>1, <5>1, <5>2 DEF Unlinked
          <5> QED  BY <1>3, <1>4, <4>1, <5>3 DEF OnDisk
        <4> QED  BY <4>1
      <3>1. disk[n] <= m /\ m <= disk[n]
        BY <1>3, <1>4, <1>5 DEF OnDisk, DatabaseTypes
      <3>2. disk[n] \in Dests /\ m \in Dests
        BY <1>4, <1>5 DEF DatabaseTypes
      <3> QED  BY <1>4, <3>1, <3>2, DestShape
    <2>2. \A i \in ToSet(eItems') :
             \/ disk[i.name] \in {None, i.dest}
             \/ disk[i.name] \in Spared /\ disk[i.name] \notin link
      BY <1>4, <1>6, <1>7, <2>1 DEF ExportKnows
    <2>3. ASSUME NEW k \in Names, disk[k] \in link
          PROVE  HasItem(k)' \/ MovedTo(k) \in ToSet(eEvents')
      <3>1. CASE HasItem(k)
        BY <1>7, <3>1 DEF HasItem
      <3>2. CASE MovedTo(k) \in ToSet(eEvents) /\ k # n
        BY <1>3, <3>2 DEF MovedTo
      <3>3. CASE k = n
        <4>1. CASE Known
          BY <1>7, <1>11, <2>3, <3>3, <4>1 DEF HasItem
        <4>2. CASE ~Known
          BY <1>6, <1>7, <3>3, <4>2 DEF HasItem
        <4> QED  BY <4>1, <4>2
      <3> QED  BY <1>1, <1>4, <2>3, <3>1, <3>2, <3>3 DEF ExportKnows
    <2> QED  BY <1>1, <2>2, <2>3 DEF ExportKnows, Spared, MovedTo
  <1>18. Transferred'
    BY <1>1, <1>4, <1>7 DEF Transferred
  <1>19. Starting'
    <2>1. rState = "starting" => \A d \in ToSet(rItems) : disk[NameOf(d)] = d =>
             \A i \in ToSet(eItems') : i.name = NameOf(d) => i.dest = d
      BY <1>4, <1>5, <1>6, <1>7 DEF Starting
    <2> QED  BY <1>1, <1>2, <1>4, <2>1, CountsSame DEF Starting, Unlinked, NameOf, StatusOf
  <1> QED  BY <1>9, <1>12, <1>13, <1>14, <1>15, <1>16, <1>17, <1>18, <1>19 DEF IInv

\* The items of the tape export without that of a name.
LEMMA ExportForgets ==
    ASSUME IInv, NEW n,
           eItems' = Forget(eItems, [k \in DOMAIN eItems |-> eItems[k].name], n)
    PROVE  /\ eItems' \in Seq(CopyType)
           /\ ToSet(eItems') = {i \in ToSet(eItems) : i.name # n}
           /\ \A j, k \in DOMAIN eItems' : eItems'[j].name = eItems'[k].name => j = k
  <1> DEFINE names == [k \in DOMAIN eItems |-> eItems[k].name]
  <1>1. /\ eItems \in Seq(CopyType)
        /\ \A j, k \in DOMAIN eItems : eItems[j].name = eItems[k].name => j = k
    BY DEF IInv, ExportTypes, OneItem
  <1>2. /\ Len(eItems) \in Nat /\ DOMAIN eItems = 1 .. Len(eItems)
        /\ \A k \in DOMAIN eItems : eItems[k] \in ToSet(eItems)
        /\ \A i \in ToSet(eItems) : \E k \in DOMAIN eItems : i = eItems[k]
    BY <1>1, SequenceShape
  <1>3. DOMAIN names = DOMAIN eItems /\ Len(names) = Len(eItems)
    BY <1>2
  <1>4. \A k \in DOMAIN eItems : names[k] = eItems[k].name
    OBVIOUS
  <1> HIDE DEF names
  <1>5. \/ /\ \A k \in DOMAIN eItems : names[k] # n
           /\ eItems' = eItems
        \/ \E i \in DOMAIN eItems : names[i] = n /\ eItems' = RemoveAt(eItems, i)
    <2>1. eItems' = Forget(eItems, names, n)
      BY DEF names
    <2>2. \/ /\ \A k \in DOMAIN eItems : names[k] # n
             /\ Forget(eItems, names, n) = eItems
          \/ \E i \in DOMAIN eItems :
                FirstOf(names, n, i) /\ Forget(eItems, names, n) = RemoveAt(eItems, i)
      BY <1>1, <1>3, ForgetShape
    <2>3. \A i : FirstOf(names, n, i) => names[i] = n
      BY DEF FirstOf
    <2> QED  BY <2>1, <2>2, <2>3
  <1>6. CASE (\A k \in DOMAIN eItems : names[k] # n) /\ eItems' = eItems
    <2>1. \A i \in ToSet(eItems) : i.name # n
      BY <1>2, <1>4, <1>6
    <2>2. ToSet(eItems) = {i \in ToSet(eItems) : i.name # n}
      BY <2>1
    <2> QED  BY <1>1, <1>6, <2>2, Zenon
  <1>7. ASSUME NEW i \in DOMAIN eItems, names[i] = n, eItems' = RemoveAt(eItems, i)
        PROVE  /\ eItems' \in Seq(CopyType)
               /\ ToSet(eItems') = {e \in ToSet(eItems) : e.name # n}
               /\ \A j, k \in DOMAIN eItems' : eItems'[j].name = eItems'[k].name => j = k
    <2>1. IsInjective(eItems)
      BY <1>1 DEF IsInjective
    <2>2. /\ eItems' \in Seq(CopyType) /\ IsInjective(eItems')
          /\ ToSet(eItems') = ToSet(eItems) \ {eItems[i]}
      <3>1. /\ RemoveAt(eItems, i) \in Seq(CopyType) /\ IsInjective(RemoveAt(eItems, i))
            /\ ToSet(RemoveAt(eItems, i)) = ToSet(eItems) \ {eItems[i]}
        BY <1>1, <1>7, <2>1, WithoutShape
      <3> QED  BY <1>7, <3>1
    <2>3. \A e \in ToSet(eItems) : e.name = n => e = eItems[i]
      BY <1>1, <1>2, <1>4, <1>7
    <2>4. eItems[i].name = n
      BY <1>4, <1>7
    <2>5. \A e, g \in ToSet(eItems) : e.name = g.name => e = g
      BY <1>1, <1>2
    <2>6. \A k \in DOMAIN eItems' : eItems'[k] \in ToSet(eItems')
      BY <2>2, SequenceShape
    <2>7. \A j, k \in DOMAIN eItems' : eItems'[j].name = eItems'[k].name => j = k
      BY <2>2, <2>5, <2>6 DEF IsInjective
    <2> QED  BY <2>2, <2>3, <2>4, <2>7
  <1> QED  BY <1>5, <1>6, <1>7

LEMMA ExportHearsDeletionKeeps ==
    ASSUME IInv, exportHearsDeletion
    PROVE  IInv'
  <1> DEFINE n == Head(eEvents).name
             gone == ToSet(eItems) \ ToSet(eItems')
  <1>1. /\ UNCHANGED <<dest, status, disk, creating, recorder, eState, removing, transfer,
                       onTape, byHand, halfRemoved, halfMoved, leftBehind>>
        /\ eState = "ready" /\ removing = {}
        /\ eEvents # <<>> /\ Head(eEvents).kind = "deletion"
        /\ eItems' = Forget(eItems, [k \in DOMAIN eItems |-> eItems[k].name], n)
        /\ link' = link \ {i.dest : i \in gone}
        /\ eEvents' = Tail(eEvents)
    BY DEF exportHearsDeletion, history
  <1>2. UNCHANGED <<rState, rItems, rCreating, rEvents, session, todo, cleanup>>
    BY <1>1 DEF recorder
  <1>3. /\ eEvents' \in Seq(EventType) /\ n \in Names
        /\ ToSet(eEvents) = ToSet(eEvents') \union {Deletion(n)}
        /\ \A e \in ToSet(eEvents') : e.name # n
        /\ \A j, k \in DOMAIN eEvents' :
              j < k /\ eEvents'[j].kind = "deletion" => eEvents'[k].name # eEvents'[j].name
    <2>1. Head(eEvents) = Deletion(n) /\ n \in Names
      BY <1>1, HeadHeard DEF EventType, Deletion
    <2> QED  BY <1>1, <2>1, HeadHeard
  <1>4. /\ DatabaseTypes /\ SessionOrder /\ ExportTypes /\ OneItem /\ BeingRecorded /\ Fresh
        /\ OnDisk /\ ExportHears /\ ExportKnows /\ Transferred /\ Starting
    BY DEF IInv
  <1>5. /\ eItems' \in Seq(CopyType)
        /\ ToSet(eItems') = {i \in ToSet(eItems) : i.name # n}
        /\ \A j, k \in DOMAIN eItems' : eItems'[j].name = eItems'[k].name => j = k
    BY <1>1, ExportForgets
  <1>6. disk[n] = None /\ ~InUse(n) /\ n \notin transfer.names
    <2>1. disk[n] = None
      BY <1>3, <1>4 DEF ExportHears
    <2>2. Deletion(n) \in ToSet(eEvents) /\ Deletion(n).name = n
      BY <1>3 DEF Deletion
    <2>3. ExportTypes => transfer.names \subseteq Names
      BY DEF ExportTypes
    <2> QED  BY <1>3, <1>4, <2>1, <2>2 DEF Fresh, Transferred
  <1>7. \A i \in gone : i.name = n /\ NameOf(i.dest) = n
    BY <1>4, <1>5 DEF OneItem
  <1>8. /\ link' \subseteq link
        /\ \A d \in link : NameOf(d) # n => d \in link'
    BY <1>1, <1>7
  <1> HIDE DEF gone, n
  <1>9. /\ DatabaseTypes' /\ SessionOrder' /\ RecorderTypes' /\ Cleaning'
        /\ BeingRecorded' /\ RecorderHears' /\ RecorderKnows'
    <2>1. \A d \in ToSet(rCreating) : d \in link' /\ d \notin halfRemoved'
      BY <1>1, <1>4, <1>6, <1>8 DEF BeingRecorded, InUse
    <2> QED  BY <1>1, <1>4, <1>8, <2>1, RecorderUntouched DEF DatabaseTypes
  <1>10. ExportTypes'
    <2>1. eItems' \in Seq(CopyType)'
      BY <1>1, <1>5 DEF CopyType, Dests
    <2>2. eEvents' \in Seq(EventType)' /\ removing' \subseteq ToSet(eItems')
      BY <1>1, <1>3 DEF EventType
    <2> QED  BY <1>1, <1>4, <2>1, <2>2 DEF ExportTypes
  <1>11. OneItem'
    BY <1>1, <1>4, <1>5 DEF OneItem, NameOf, StatusOf
  <1>12. Fresh'
    <2>1. \A k : InUse(k)' = InUse(k)
      BY <1>1, <1>2 DEF InUse, NameOf
    <2> QED  BY <1>1, <1>3, <1>4, <1>5, <2>1 DEF Fresh
  <1>13. OnDisk' /\ RemovedForReason' /\ Kept' /\ Left'
    <2>1. OnDisk'
      <3>1. Unlinked' = Unlinked /\ Spared' = Spared
        BY <1>1, <1>2 DEF Unlinked, Spared
      <3>2. ASSUME NEW k \in Names, disk[k] # None
            PROVE  disk[k] \in link' \union Unlinked
        BY <1>4, <1>6, <1>8, <3>2 DEF OnDisk
      <3> QED  BY <1>1, <1>4, <3>1, <3>2 DEF OnDisk, NameOf, Dests
    <2> QED  BY <1>1, <1>2, <2>1 DEF IInv, RemovedForReason, Kept, Left, Spared,
                      Unlinked, NameOf, StatusOf, Dests
  <1>14. ExportHears'
    <2>1. \A i \in ToSet(eItems') : disk[i.name] # None \/ Deletion(i.name) \in ToSet(eEvents')
      BY <1>3, <1>4, <1>5 DEF ExportHears, Deletion
    <2>2. \A k \in Names :
             /\ Deletion(k) \in ToSet(eEvents') => disk[k] = None
             /\ MovedTo(k) \in ToSet(eEvents') /\ disk[k] = None => Deletion(k) \in ToSet(eEvents')
      BY <1>3, <1>4 DEF ExportHears, Deletion, MovedTo
    <2> QED  BY <1>1, <1>3, <2>1, <2>2 DEF ExportHears, Deletion, MovedTo
  <1>15. ExportKnows'
    <2>1. ASSUME NEW k \in Names, disk[k] \in link'
          PROVE  HasItem(k)' \/ MovedTo(k) \in ToSet(eEvents')
      <3>1. k # n
        BY <1>4, <1>6, <1>8, <2>1, DestShape DEF DatabaseTypes
      <3>2. HasItem(k) \/ MovedTo(k) \in ToSet(eEvents)
        BY <1>1, <1>4, <1>8, <2>1 DEF ExportKnows
      <3> QED  BY <1>3, <1>5, <3>1, <3>2 DEF HasItem, MovedTo, Deletion
    <2> QED  BY <1>1, <1>4, <1>5, <1>8, <2>1 DEF ExportKnows, Spared, MovedTo
  <1>16. Transferred'
    <2>1. ASSUME NEW k \in transfer.names
          PROVE  \E i \in ToSet(eItems') : i.name = k /\ i.status = "completed"
      <3>1. PICK i \in ToSet(eItems) : i.name = k /\ i.status = "completed"
        BY <1>4 DEF Transferred
      <3>2. i \in ToSet(eItems')
        BY <1>5, <1>6, <3>1
      <3> QED  BY <3>1, <3>2
    <2> QED  BY <1>1, <1>4, <2>1 DEF Transferred
  <1>17. Starting'
    <2> HIDE DEF IInv
    <2>1. rState = "starting" =>
             /\ \A d \in ToSet(rItems), e \in link' : NameOf(d) = NameOf(e) => d = e
             /\ \A d \in ToSet(rItems) : disk[NameOf(d)] = d =>
                   \A i \in ToSet(eItems') : i.name = NameOf(d) => i.dest = d
      BY <1>4, <1>5, <1>8 DEF Starting
    <2> QED  BY <1>1, <1>2, <1>4, <2>1, CountsSame DEF Starting, Unlinked, NameOf, StatusOf
  <1> QED  BY <1>9, <1>10, <1>11, <1>12, <1>13, <1>14, <1>15, <1>16, <1>17 DEF IInv

LEMMA WatchExportKeeps ==
    ASSUME IInv, watchExport
    PROVE  IInv'
  <1>1. /\ UNCHANGED <<dest, link, status, disk, creating, recorder, eItems, eEvents, removing,
                       transfer, onTape, byHand, halfRemoved, halfMoved, leftBehind>>
        /\ eState = "down" /\ eState' = "watching"
    BY DEF watchExport, database, history
  <1>2. UNCHANGED <<rState, rItems, rCreating, rEvents, session, todo, cleanup>>
    BY <1>1 DEF recorder
  <1>3. /\ DatabaseTypes' /\ SessionOrder' /\ RecorderTypes' /\ Cleaning'
        /\ BeingRecorded' /\ RecorderHears' /\ RecorderKnows'
    BY <1>1, RecorderUntouched DEF IInv, BeingRecorded, DatabaseTypes
  <1>4. ExportTypes' /\ OneItem'
    BY <1>1 DEF IInv, ExportTypes, OneItem, NameOf, StatusOf, CopyType, EventType, Dests
  <1>5. Fresh'
    BY <1>1, <1>2 DEF IInv, Fresh, InUse, NameOf
  <1>6. OnDisk' /\ RemovedForReason' /\ Kept' /\ Left'
    BY <1>1, <1>2 DEF IInv, OnDisk, RemovedForReason, Kept, Left, Spared, Unlinked, NameOf,
                      StatusOf, Dests
  <1>7. ExportHears' /\ ExportKnows' /\ Transferred'
    BY <1>1 DEF IInv, ExportHears, ExportKnows, Spared, HasItem, Transferred
  <1>8. Starting'
    BY <1>1, <1>2, CountsSame DEF IInv, Starting, Unlinked, NameOf, StatusOf
  <1> QED  BY <1>3, <1>4, <1>5, <1>6, <1>7, <1>8 DEF IInv

LEMMA ExportCrashKeeps ==
    ASSUME IInv, ExportCrash
    PROVE  IInv'
  <1>1. /\ UNCHANGED <<dest, link, status, disk, creating, recorder, onTape, byHand, halfMoved,
                       leftBehind>>
        /\ eState' = "down" /\ eItems' = <<>> /\ eEvents' = <<>> /\ removing' = {}
        /\ transfer' = [state |-> "none", names |-> {}]
        /\ halfRemoved' = halfRemoved \union {i.dest : i \in removing}
    BY DEF ExportCrash, database, NoTransfer
  <1>2. UNCHANGED <<rState, rItems, rCreating, rEvents, session, todo, cleanup>>
    BY <1>1 DEF recorder
  <1>3. \A i \in removing : i \in ToSet(eItems) /\ i.dest \in Dests /\ NameOf(i.dest) = i.name
    <2>1. \A i \in ToSet(eItems) : i \in CopyType
      BY SequenceShape DEF IInv, ExportTypes
    <2> QED  BY <2>1 DEF IInv, ExportTypes, OneItem, CopyType
  <1>4. /\ DatabaseTypes' /\ SessionOrder' /\ RecorderTypes' /\ Cleaning'
        /\ BeingRecorded' /\ RecorderHears' /\ RecorderKnows'
    <2>1. halfRemoved' \subseteq Dests
      BY <1>1, <1>3 DEF IInv, DatabaseTypes
    <2>2. ASSUME NEW d \in ToSet(rCreating)
          PROVE  d \in link' /\ d \notin halfRemoved'
      <3>1. d \in link /\ d \notin halfRemoved
        BY DEF IInv, BeingRecorded
      <3>2. InUse(NameOf(d)) /\ NameOf(d) \in Names
        <4>1. d \in Dests
          BY <3>1 DEF IInv, DatabaseTypes
        <4> QED  BY <4>1, DestShape DEF IInv, InUse
      <3>3. \A i \in ToSet(eItems) : i.name # NameOf(d)
        BY <3>2 DEF IInv, Fresh
      <3> QED  BY <1>1, <1>3, <3>1, <3>3
    <2> QED  BY <1>1, <2>1, <2>2, RecorderUntouched
  <1>5. ToSet(eItems') = {} /\ ToSet(eEvents') = {} /\ DOMAIN eItems' = {} /\ DOMAIN eEvents' = {}
    BY <1>1, EmptyShape
  <1>6. ExportTypes' /\ OneItem'
    <2>1. eItems' \in Seq(CopyType)' /\ eEvents' \in Seq(EventType)'
      BY <1>1
    <2> QED  BY <1>1, <1>5, <2>1 DEF ExportTypes, OneItem
  <1>7. Fresh'
    BY <1>1, <1>2, <1>5 DEF IInv, Fresh, InUse, NameOf
  <1>8. Unlinked' = Unlinked /\ Spared' = Spared
    BY <1>1, <1>2 DEF Unlinked, Spared
  <1>9. OnDisk' /\ RemovedForReason' /\ Kept' /\ Left'
    <2>1. ASSUME NEW n \in Names, disk[n] # None, disk[n] \in halfRemoved'
          PROVE  disk[n] \in Spared
      <3>1. CASE disk[n] \in halfRemoved
        BY <2>1, <3>1 DEF IInv, OnDisk
      <3>2. CASE \E i \in removing : i.dest = disk[n]
        <4>1. PICK i \in removing : i.dest = disk[n]
          BY <3>2
        <4>2. i.name = n
          BY <1>3, <2>1, <4>1 DEF IInv, OnDisk
        <4> QED  BY <2>1, <4>1, <4>2 DEF IInv, RemovedForReason
      <3> QED  BY <1>1, <2>1, <3>1, <3>2
    <2>2. OnDisk'
      BY <1>1, <1>8, <2>1 DEF IInv, OnDisk, NameOf, Dests
    <2>3. Kept' /\ Left'
      BY <1>1, <1>2, <1>8 DEF IInv, Kept, Left, NameOf, StatusOf, Dests
    <2> QED  BY <1>1, <2>2, <2>3 DEF RemovedForReason
  <1>10. ExportHears' /\ ExportKnows' /\ Transferred'
    BY <1>1, <1>5 DEF ExportHears, ExportKnows, Transferred, Deletion, MovedTo
  <1>11. Starting'
    BY <1>1, <1>2, <1>5, <1>8, CountsSame DEF IInv, Starting, NameOf, StatusOf
  <1> QED  BY <1>4, <1>6, <1>7, <1>9, <1>10, <1>11 DEF IInv

\* What a process takes over when it starts: what is on the disk, but for a file
\* whose removal a crash cut short.
LEMMA LoadedShape ==
    ASSUME IInv
    PROVE  /\ Loaded \subseteq link /\ IsFiniteSet(Loaded)
           /\ \A d \in Loaded : disk[NameOf(d)] # None
           /\ \A d, e \in Loaded : NameOf(d) = NameOf(e) => d = e
           /\ \A d \in Loaded : disk[NameOf(d)] = d \/ disk[NameOf(d)] \notin link
           /\ \A n \in Names : disk[n] \in link => disk[n] \in Loaded
  <1>1. DatabaseTypes /\ SessionOrder /\ OnDisk
    BY DEF IInv
  <1>2. /\ \A d \in Dests : /\ d \in Nat \ {0} /\ d # None
                            /\ NameOf(d) \in Names /\ dest[d].session \in Nat
        /\ \A D \in SUBSET Dests : IsFiniteSet(D)
    BY <1>1, DestShape
  <1>3. Loaded \subseteq link /\ link \subseteq Dests /\ IsFiniteSet(Loaded)
    BY <1>1, <1>2 DEF Loaded, DatabaseTypes
  <1>4. ASSUME NEW d \in link, NEW e \in link, NameOf(d) = NameOf(e), Newest(d)
        PROVE  e <= d
    <2>1. dest[e].session <= dest[d].session
      BY <1>4 DEF Newest
    <2>2. ~(d < e)
      BY <1>1, <1>2, <1>3, <1>4, <2>1 DEF SessionOrder
    <2> QED  BY <1>2, <1>3, <2>2
  <1>5. ASSUME NEW d \in Loaded, NEW e \in Loaded, NameOf(d) = NameOf(e)
        PROVE  d = e
    <2>1. d \in link /\ e \in link /\ Newest(d) /\ Newest(e)
      BY DEF Loaded
    <2>2. e <= d /\ d <= e
      BY <1>4, <1>5, <2>1
    <2> QED  BY <1>2, <1>3, <2>1, <2>2
  <1>6. ASSUME NEW n \in Names, disk[n] \in link
        PROVE  NameOf(disk[n]) = n /\ disk[n] \in Loaded
    <2>1. disk[n] # None /\ disk[n] \in Dests
      BY <1>2, <1>3, <1>6
    <2>2. NameOf(disk[n]) = n /\ \A e \in Dests : NameOf(e) = n => e <= disk[n]
      BY <1>1, <2>1 DEF OnDisk
    <2>3. ASSUME NEW e \in link, NameOf(e) = n
          PROVE  dest[e].session <= dest[disk[n]].session
      <3>1. e \in Dests /\ e <= disk[n]
        BY <1>3, <2>2, <2>3
      <3>2. CASE e = disk[n]
        BY <1>2, <2>1, <3>2
      <3>3. CASE e # disk[n]
        <4>1. e < disk[n]
          BY <1>2, <2>1, <3>1, <3>3
        <4> QED  BY <1>1, <2>1, <3>1, <4>1 DEF SessionOrder
      <3> QED  BY <3>2, <3>3
    <2>4. Newest(disk[n])
      BY <2>2, <2>3 DEF Newest
    <2> QED  BY <1>6, <2>1, <2>2, <2>4 DEF Loaded
  <1>7. ASSUME NEW d \in Loaded
        PROVE  disk[NameOf(d)] = d \/ disk[NameOf(d)] \notin link
    <2> SUFFICES ASSUME disk[NameOf(d)] \in link
                 PROVE  disk[NameOf(d)] = d
      OBVIOUS
    <2>1. NameOf(d) \in Names
      BY <1>2, <1>3
    <2> QED  BY <1>5, <1>6, <2>1
  <1>8. \A d \in Loaded : disk[NameOf(d)] # None
    BY DEF Loaded
  <1> QED  BY <1>3, <1>5, <1>6, <1>7, <1>8

LEMMA InitialiseExportKeeps ==
    ASSUME IInv, initialiseExport
    PROVE  IInv'
  <1> DEFINE C == {Copy(d) : d \in Loaded}
  <1>1. /\ UNCHANGED <<dest, link, status, disk, creating, recorder, eEvents, removing,
                       transfer, onTape, byHand, halfRemoved, halfMoved, leftBehind>>
        /\ eState = "watching" /\ eState' = "ready"
        /\ eItems' = SetToSeq(C)
    BY DEF initialiseExport, database, history
  <1>2. UNCHANGED <<rState, rItems, rCreating, rEvents, session, todo, cleanup>>
    BY <1>1 DEF recorder
  <1>3. /\ DatabaseTypes' /\ SessionOrder' /\ RecorderTypes' /\ Cleaning'
        /\ BeingRecorded' /\ RecorderHears' /\ RecorderKnows'
    BY <1>1, RecorderUntouched DEF IInv, BeingRecorded, DatabaseTypes
  <1>4. /\ DatabaseTypes /\ SessionOrder /\ ExportTypes /\ OneItem /\ Fresh /\ OnDisk
        /\ ExportHears /\ ExportKnows /\ Transferred /\ Starting
    BY DEF IInv
  <1>5. /\ Loaded \subseteq link /\ IsFiniteSet(Loaded)
        /\ \A d \in Loaded : disk[NameOf(d)] # None
        /\ \A d, e \in Loaded : NameOf(d) = NameOf(e) => d = e
        /\ \A d \in Loaded : disk[NameOf(d)] = d \/ disk[NameOf(d)] \notin link
        /\ \A n \in Names : disk[n] \in link => disk[n] \in Loaded
    BY LoadedShape
  <1>6. \A i \in C : \E d \in Loaded : /\ i = Copy(d) /\ i.dest = d /\ i.name = NameOf(d)
                                       /\ i.status = StatusOf(d)
    BY DEF Copy
  <1>7. IsFiniteSet(C)
    <2> DEFINE f == [d \in Loaded |-> Copy(d)]
    <2>1. f \in Surjection(Loaded, C)
      BY DEF Surjection
    <2> QED  BY <1>5, <2>1, FS_Surjection
  <1>8. C \subseteq CopyType
    <2>1. ASSUME NEW d \in Loaded  PROVE  Copy(d) \in CopyType
      <3>1. d \in Dests /\ NameOf(d) \in Names
        BY <1>4, <1>5, DestShape DEF DatabaseTypes
      <3>2. StatusOf(d) \in {"started", "completed", "aborted"}
        BY <1>4, <3>1, DestShape DEF DatabaseTypes, SessionOrder, StatusOf
      <3> QED  BY <3>1, <3>2 DEF Copy, CopyType
    <2> QED  BY <2>1
  <1>9. /\ \A d \in Loaded : Copy(d) \in C /\ Copy(d).name = NameOf(d)
        /\ removing = {} /\ transfer.names = {}
    <2>1. eItems = <<>> /\ transfer.names = {}
      BY <1>1, <1>4 DEF ExportTypes
    <2> QED  BY <1>4, <2>1, EmptyShape DEF Copy, ExportTypes
  <1> HIDE DEF C
  <1>10. /\ eItems' \in Seq(CopyType) /\ ToSet(eItems') = C
         /\ \A j, k \in DOMAIN eItems' : eItems'[j].name = eItems'[k].name => j = k
    <2>1. /\ SetToSeq(C) \in Seq(C) /\ IsInjective(SetToSeq(C)) /\ ToSet(SetToSeq(C)) = C
      BY <1>7, SetToSeqShape
    <2>2. SetToSeq(C) \in Seq(CopyType)
      BY <1>8, <2>1, SeqMonotonic
    <2>3. \A i, j \in C : i.name = j.name => i = j
      BY <1>5, <1>6
    <2>4. \A k \in DOMAIN SetToSeq(C) : SetToSeq(C)[k] \in C
      BY <2>1, SequenceShape
    <2>5. \A j, k \in DOMAIN SetToSeq(C) : SetToSeq(C)[j].name = SetToSeq(C)[k].name => j = k
      BY <2>1, <2>3, <2>4 DEF IsInjective
    <2> QED  BY <1>1, <2>1, <2>2, <2>5
  <1>11. ExportTypes'
    <2>1. eItems' \in Seq(CopyType)'
      BY <1>1, <1>10 DEF CopyType, Dests
    <2>2. eEvents' \in Seq(EventType)' /\ removing' \subseteq ToSet(eItems')
      BY <1>1, <1>4, <1>9 DEF EventType, ExportTypes
    <2> QED  BY <1>1, <1>4, <2>1, <2>2 DEF ExportTypes
  <1>12. OneItem'
    <2>1. \A i \in ToSet(eItems') : /\ NameOf(i.dest) = i.name
                                    /\ i.status = "completed" => StatusOf(i.dest) = "completed"
      BY <1>6, <1>10
    <2> QED  BY <1>1, <1>4, <1>10, <2>1 DEF OneItem, NameOf, StatusOf
  <1>13. Fresh'
    <2>1. \A k : InUse(k)' = InUse(k)
      BY <1>1, <1>2 DEF InUse, NameOf
    <2>2. \A i \in ToSet(eItems') : disk[i.name] # None
      BY <1>5, <1>6, <1>10
    <2> QED  BY <1>1, <1>4, <2>1, <2>2 DEF Fresh
  <1>14. OnDisk' /\ RemovedForReason' /\ Kept' /\ Left'
    BY <1>1, <1>2 DEF IInv, OnDisk, RemovedForReason, Kept, Left, Spared, Unlinked, NameOf,
                      StatusOf, Dests
  <1>15. ExportHears'
    <2>1. \A i \in ToSet(eItems') : disk[i.name] # None
      BY <1>5, <1>6, <1>10
    <2> QED  BY <1>1, <1>4, <2>1 DEF ExportHears, Deletion, MovedTo
  <1>16. ExportKnows'
    <2>1. ASSUME NEW i \in ToSet(eItems')
          PROVE  \/ disk[i.name] \in {None, i.dest}
                 \/ disk[i.name] \in Spared /\ disk[i.name] \notin link
      <3>1. PICK d \in Loaded : i.dest = d /\ i.name = NameOf(d)
        BY <1>6, <1>10, <2>1
      <3>2. CASE disk[i.name] = d
        BY <3>1, <3>2
      <3>3. CASE disk[i.name] \notin link
        <4>1. disk[i.name] \in Unlinked /\ i.name \in Names /\ disk[i.name] # None
          BY <1>4, <1>5, <3>1, <3>3, DestShape DEF OnDisk, DatabaseTypes
        <4>2. disk[i.name] \in halfRemoved
          <5>1. NameOf(disk[i.name]) = i.name /\ d \in link
            BY <1>4, <1>5, <3>1, <4>1 DEF OnDisk
          <5>2. disk[i.name] # cleanup.item
            BY <3>1, <4>1, <5>1, NoneLinked
          <5> QED  BY <1>9, <4>1, <5>2 DEF Unlinked
        <4> QED  BY <1>4, <3>3, <4>1, <4>2 DEF OnDisk
      <3> QED  BY <1>5, <3>1, <3>2, <3>3
    <2>2. ASSUME NEW n \in Names, disk[n] \in link
          PROVE  \E i \in ToSet(eItems') : i.name = n
      <3>1. disk[n] \in Loaded /\ disk[n] # None
        BY <1>4, <1>5, <2>2, DestShape DEF DatabaseTypes
      <3>2. NameOf(disk[n]) = n
        BY <1>4, <3>1 DEF OnDisk
      <3> QED  BY <1>9, <1>10, <3>1, <3>2
    <2>3. \A n \in Names : disk[n] \in link => HasItem(n)'
      BY <2>2 DEF HasItem
    <2> QED  BY <1>1, <2>1, <2>3 DEF ExportKnows, Spared, MovedTo
  <1>17. Transferred'
    BY <1>1, <1>9 DEF Transferred
  <1>18. Starting'
    <2>1. rState = "starting" => \A d \in ToSet(rItems) : disk[NameOf(d)] = d =>
             \A i \in ToSet(eItems') : i.name = NameOf(d) => i.dest = d
      BY <1>4, <1>5, <1>6, <1>10 DEF Starting
    <2> QED  BY <1>1, <1>2, <1>4, <2>1, CountsSame DEF Starting, Unlinked, NameOf, StatusOf
  <1> QED  BY <1>3, <1>11, <1>12, <1>13, <1>14, <1>15, <1>16, <1>17, <1>18 DEF IInv

\* The tape export begins to remove a file that is on tape or nobody wants.
LEMMA UnlinkKeeps ==
    ASSUME IInv, NEW n \in Names, Unlink(n),
           UNCHANGED <<dest, status, disk, creating, recorder, eState, eItems, eEvents,
                       halfRemoved, halfMoved,
                       leftBehind>>,
           eState = "ready", removing = {}, HasItem(n),
           onTape \subseteq onTape', byHand \subseteq byHand',
           disk[n] \in Spared' \union {None},
           transfer' \in [state : {"none", "storing", "stored"}, names : SUBSET Names],
           transfer'.names = transfer.names \ {n},
           transfer'.state = "none" => transfer'.names = {},
           transfer'.names # {} => transfer'.state = transfer.state
    PROVE  IInv'
  <1> DEFINE match == {i \in ToSet(eItems) : i.name = n}
  <1>1. link' = link \ {i.dest : i \in match} /\ removing' = match
    BY DEF Unlink
  <1>2. UNCHANGED <<rState, rItems, rCreating, rEvents, session, todo, cleanup>>
    BY DEF recorder
  <1>3. /\ DatabaseTypes /\ SessionOrder /\ ExportTypes /\ OneItem /\ BeingRecorded /\ Fresh
        /\ OnDisk /\ Kept /\ Left /\ ExportHears /\ ExportKnows /\ Transferred /\ Starting
    BY DEF IInv
  <1>4. \A i \in match : i \in ToSet(eItems) /\ i.name = n /\ NameOf(i.dest) = n
    BY <1>3 DEF OneItem
  <1>5. ~InUse(n)
    BY <1>3 DEF Fresh, HasItem
  <1>6. /\ link' \subseteq link
        /\ \A d \in link : d \in link' \/ \E i \in match : i.dest = d
    BY <1>1
  <1>7. Spared \subseteq Spared' /\ Unlinked \subseteq Unlinked'
        /\ \A i \in match : i.dest \in Unlinked'
    BY <1>1, <1>2 DEF Spared, Unlinked
  <1>8. \A i, j \in match : i = j
    <2>1. eItems \in Seq(CopyType)
      BY <1>3 DEF ExportTypes
    <2>2. \A i \in ToSet(eItems) : \E k \in DOMAIN eItems : i = eItems[k]
      BY <2>1, SequenceShape
    <2> QED  BY <1>3, <2>2 DEF OneItem
  <1> HIDE DEF match
  <1>9. /\ DatabaseTypes' /\ SessionOrder' /\ RecorderTypes' /\ Cleaning'
        /\ BeingRecorded' /\ RecorderHears' /\ RecorderKnows'
    <2>1. \A d \in ToSet(rCreating) : d \in link' /\ d \notin halfRemoved'
      BY <1>3, <1>4, <1>5, <1>6 DEF BeingRecorded, InUse
    <2> QED  BY <1>3, <1>6, <2>1, RecorderUntouched DEF DatabaseTypes
  <1>10. ExportTypes'
    <2>1. eItems' \in Seq(CopyType)' /\ eEvents' \in Seq(EventType)'
      BY <1>3 DEF CopyType, Dests, EventType, ExportTypes
    <2>2. removing' \subseteq ToSet(eItems')
      BY <1>1, <1>4
    <2> QED  BY <1>3, <2>1, <2>2 DEF ExportTypes
  <1>11. OneItem'
    BY <1>1, <1>3, <1>8 DEF OneItem, NameOf, StatusOf
  <1>12. Fresh'
    <2>1. \A k : InUse(k)' = InUse(k)
      BY <1>2 DEF InUse, NameOf
    <2> QED  BY <1>3, <2>1 DEF Fresh
  <1>13. OnDisk'
    <2>1. ASSUME NEW k \in Names, disk[k] # None
          PROVE  /\ disk[k] \in link' \union Unlinked'
                 /\ disk[k] \in halfRemoved => disk[k] \in Spared'
      BY <1>3, <1>6, <1>7, <2>1 DEF OnDisk
    <2> QED  BY <1>3, <2>1 DEF OnDisk, NameOf, Dests
  <1>14. RemovedForReason'
    BY <1>1, <1>4 DEF RemovedForReason, None
  <1>15. Kept' /\ Left'
    BY <1>2, <1>3, <1>7 DEF Kept, Left, NameOf, StatusOf, Dests
  <1>16. ExportHears'
    BY <1>3 DEF ExportHears, Deletion, MovedTo
  <1>17. ExportKnows'
    <2>1. \A i \in ToSet(eItems) :
             \/ disk[i.name] \in {None, i.dest}
             \/ disk[i.name] \in Spared' /\ disk[i.name] \notin link'
      BY <1>3, <1>6, <1>7 DEF ExportKnows
    <2>2. \A k \in Names : disk[k] \in link' => HasItem(k)' \/ MovedTo(k) \in ToSet(eEvents')
      BY <1>3, <1>6 DEF ExportKnows, HasItem
    <2> QED  BY <2>1, <2>2 DEF ExportKnows, MovedTo
  <1>18. Transferred'
    <2>1. ASSUME NEW k \in transfer'.names
          PROVE  /\ disk[k] # None
                 /\ \E i \in ToSet(eItems) : i.name = k /\ i.status = "completed"
                 /\ \A i \in removing' : i.name # k
                 /\ transfer'.state = "stored" => disk[k] \in onTape'
      <3>1. k \in transfer.names /\ k # n
        BY <2>1
      <3>2. transfer'.state = transfer.state
        BY <2>1
      <3> QED  BY <1>1, <1>3, <1>4, <3>1, <3>2 DEF Transferred
    <2> QED  BY <2>1 DEF Transferred
  <1>19. Starting'
    <2>1. rState = "starting" =>
             /\ \A d \in ToSet(rItems), e \in link' : NameOf(d) = NameOf(e) => d = e
             /\ \A k \in Names :
                   disk[k] # None /\ (\/ StatusOf(disk[k]) = "started"
                                     \/ dest[disk[k]].session = cleanup.session) =>
                   disk[k] \in ToSet(rItems) \union Unlinked'
      BY <1>3, <1>6, <1>7 DEF Starting
    <2> QED  BY <1>2, <1>3, <2>1, CountsSame DEF Starting, NameOf, StatusOf
  <1> QED  BY <1>9, <1>10, <1>11, <1>12, <1>13, <1>14, <1>15, <1>16, <1>17, <1>18, <1>19
           DEF IInv

LEMMA RemoveStoredKeeps ==
    ASSUME IInv, NEW n \in Names, removeStored(n)
    PROVE  IInv'
  <1>1. /\ Unlink(n) /\ eState = "ready" /\ removing = {}
        /\ transfer.state = "stored" /\ n \in transfer.names
        /\ transfer' = IF transfer.names = {n} THEN NoTransfer
                       ELSE [transfer EXCEPT !.names = @ \ {n}]
        /\ UNCHANGED <<dest, status, disk, creating, recorder, eState, eItems, eEvents,
                       onTape, byHand, halfRemoved, halfMoved, leftBehind>>
    BY DEF removeStored, MayBeRemoved, history
  <1>2. transfer \in [state : {"none", "storing", "stored"}, names : SUBSET Names]
    BY DEF IInv, ExportTypes
  <1>3. /\ transfer' \in [state : {"none", "storing", "stored"}, names : SUBSET Names]
        /\ transfer'.names = transfer.names \ {n}
        /\ transfer'.state = "none" => transfer'.names = {}
        /\ transfer'.names # {} => transfer'.state = transfer.state
    <2>1. CASE transfer.names = {n}
      BY <1>1, <2>1 DEF NoTransfer
    <2>2. CASE transfer.names # {n}
      <3>1. transfer' = [state |-> "stored", names |-> transfer.names \ {n}]
        BY <1>1, <1>2, <2>2
      <3> QED  BY <1>1, <1>2, <3>1
    <2> QED  BY <2>1, <2>2
  <1>4. disk[n] \in onTape /\ HasItem(n)
    BY <1>1 DEF IInv, Transferred, HasItem
  <1>5. disk[n] \in Spared' \union {None}
    BY <1>1, <1>4 DEF Spared
  <1>6. onTape \subseteq onTape' /\ byHand \subseteq byHand'
    BY <1>1
  <1> QED  BY <1>1, <1>3, <1>4, <1>5, <1>6, UnlinkKeeps

LEMMA RemoveForClientKeeps ==
    ASSUME IInv, NEW n \in Names, removeForClient(n)
    PROVE  IInv'
  <1>1. /\ Unlink(n) /\ eState = "ready" /\ removing = {} /\ n \notin transfer.names
        /\ \E i \in ToSet(eItems) : i.name = n
        /\ byHand' = byHand \union {i.dest : i \in removing'}
        /\ UNCHANGED <<dest, status, disk, creating, recorder, eState, eItems, eEvents,
                       transfer, onTape, halfRemoved, halfMoved,
                       leftBehind>>
    BY DEF removeForClient
  <1>2. /\ transfer \in [state : {"none", "storing", "stored"}, names : SUBSET Names]
        /\ transfer.state = "none" => transfer.names = {}
    BY DEF IInv, ExportTypes
  <1>3. PICK i \in ToSet(eItems) : i.name = n
    BY <1>1
  <1>4. i \in removing'
    BY <1>1, <1>3 DEF Unlink
  <1>5. disk[n] \in Spared' \union {None}
    BY <1>1, <1>3, <1>4 DEF IInv, ExportKnows, Spared
  <1>6. HasItem(n) /\ onTape \subseteq onTape' /\ byHand \subseteq byHand'
    BY <1>1 DEF HasItem
  <1>7. transfer'.names = transfer.names \ {n}
    BY <1>1
  <1> QED  BY <1>1, <1>2, <1>5, <1>6, <1>7, UnlinkKeeps

LEMMA ItemShape ==
    ASSUME IInv
    PROVE  \A i \in ToSet(eItems) : i.name \in Names /\ i.dest \in Dests
  <1>1. ToSet(eItems) \subseteq CopyType
    BY SequenceShape DEF IInv, ExportTypes
  <1> QED  BY <1>1 DEF CopyType

\* A file of the cache is removed, by the tape export or by hand.
LEMMA FileGoneKeeps ==
    ASSUME IInv, NEW n \in Names, RemoveFiles({n}), ~InUse(n), n \notin transfer.names,
           UNCHANGED <<dest, link, status, creating, rState, rItems, rCreating, session, todo,
                       cleanup, eState, transfer, halfRemoved, halfMoved, leftBehind>>,
           onTape \subseteq onTape', byHand \subseteq byHand',
           disk[n] \in Spared' \union {None},
           removing' = {}, \A i \in removing : i.name = n,
           eItems' \in Seq(CopyType), eState # "ready" => eItems' = <<>>,
           \A j, k \in DOMAIN eItems' : eItems'[j].name = eItems'[k].name => j = k,
           \A i \in ToSet(eItems') : i \in ToSet(eItems) /\ (i.name # n \/ disk[n] # None),
           \A i \in ToSet(eItems) : i.name # n => i \in ToSet(eItems')
    PROVE  IInv'
  <1>1. /\ DatabaseTypes /\ SessionOrder /\ RecorderTypes /\ Cleaning /\ ExportTypes /\ OneItem
        /\ BeingRecorded /\ Fresh /\ OnDisk /\ Kept /\ Left /\ ExportHears /\ ExportKnows
        /\ Transferred /\ RecorderHears /\ RecorderKnows /\ Starting
    BY DEF IInv
  <1>2. IsFiniteSet({n}) /\ {n} \in SUBSET Names
    BY FS_Singleton
  <1>3. /\ disk' = [k \in Names |-> IF k \in {n} THEN None ELSE disk[k]]
        /\ rEvents' \in Seq([kind : {"deletion"}, name : Names])
        /\ rState = "down" => rEvents' = <<>>
        /\ rState # "down" => \A k \in Names :
              Unheard(k)' = Unheard(k) + (IF k \in {n} /\ disk[k] # None THEN 1 ELSE 0)
        /\ eEvents' \in Seq(EventType)
        /\ eState = "down" => eEvents' = <<>>
        /\ eState # "down" => ToSet(eEvents') =
              ToSet(eEvents) \union {Deletion(k) : k \in {m \in {n} : disk[m] # None}}
        /\ \A j, k \in DOMAIN eEvents' :
              j < k /\ eEvents'[j].kind = "deletion" => eEvents'[k].name # eEvents'[j].name
    BY <1>1, <1>2, FilesRemoved
  <1>4. /\ disk'[n] = None
        /\ \A k \in Names : k # n => disk'[k] = disk[k]
        /\ disk' \in [Names -> Dests \union {None}]
    BY <1>1, <1>3 DEF DatabaseTypes
  <1>5. /\ ToSet(eEvents') \subseteq ToSet(eEvents) \union {Deletion(n)}
        /\ eState # "down" =>
              /\ ToSet(eEvents) \subseteq ToSet(eEvents')
              /\ disk[n] # None => Deletion(n) \in ToSet(eEvents')
    <2>1. CASE eState = "down"
      BY <1>3, <2>1, EmptyShape
    <2>2. CASE eState # "down"
      BY <1>3, <2>2
    <2> QED  BY <2>1, <2>2
  <1>6. /\ \A k \in Names : k # n => Unheard(k)' = Unheard(k)
        /\ rState # "down" => Unheard(n)' = Unheard(n) + (IF disk[n] # None THEN 1 ELSE 0)
        /\ rState = "down" => Unheard(n)' = Unheard(n)
    <2>1. CASE rState = "down"
      BY <1>1, <1>3, <2>1 DEF RecorderKnows, Unheard, NamedIn
    <2>2. CASE rState # "down"
      <3>1. \A k \in Names : Unheard(k) \in Nat
        BY CountShape
      <3> QED  BY <1>3, <2>2, <3>1
    <2> QED  BY <2>1, <2>2
  <1>7. Spared \subseteq Spared'
    BY DEF Spared
  <1>8. \A k : InUse(k)' = InUse(k)
    BY DEF InUse, NameOf
  <1>9. ASSUME NEW k \in Names, k # n, disk[k] # None
        PROVE  (disk[k] \in Unlinked => disk[k] \in Unlinked')
    <2>1. NameOf(disk[k]) = k
      BY <1>1, <1>9 DEF OnDisk
    <2>2. \A i \in removing : NameOf(i.dest) = n
      BY <1>1 DEF OneItem, ExportTypes
    <2>3. \A i \in removing : i.dest # disk[k]
      BY <1>9, <2>1, <2>2
    <2> QED  BY <2>3 DEF Unlinked
  <1>10. DatabaseTypes' /\ SessionOrder'
    BY <1>1, <1>4 DEF DatabaseTypes, SessionOrder, Dests, NameOf, StatusOf
  <1>11. RecorderTypes'
    BY <1>1, <1>3 DEF RecorderTypes, Dests
  <1>12. ExportTypes'
    <2>1. eItems' \in Seq(CopyType)' /\ eEvents' \in Seq(EventType)'
      BY <1>3 DEF CopyType, Dests, EventType
    <2> QED  BY <1>1, <1>3, <2>1 DEF ExportTypes
  <1>13. OneItem'
    BY <1>1 DEF OneItem, NameOf, StatusOf
  <1>14. BeingRecorded'
    BY <1>1 DEF BeingRecorded, IsRecording, Dests, NameOf
  <1>15. Fresh'
    <2>1. ASSUME NEW k \in Names, InUse(k)
          PROVE  /\ disk'[k] = None
                 /\ \A e \in ToSet(eEvents') : e.name # k
                 /\ \A i \in ToSet(eItems') : i.name # k
                 /\ k \notin transfer.names
      BY <1>1, <1>4, <1>5, <2>1 DEF Fresh, Deletion
    <2> QED  BY <1>8, <2>1 DEF Fresh
  <1>16. OnDisk'
    <2>1. ASSUME NEW k \in Names, disk'[k] # None
          PROVE  /\ NameOf(disk'[k]) = k
                 /\ \A e \in Dests : NameOf(e) = k => e <= disk'[k]
                 /\ disk'[k] \in link \union Unlinked'
                 /\ disk'[k] \in halfRemoved => disk'[k] \in Spared'
      <3>1. k # n /\ disk'[k] = disk[k]
        BY <1>4, <2>1
      <3> QED  BY <1>1, <1>7, <1>9, <2>1, <3>1 DEF OnDisk
    <2> QED  BY <2>1 DEF OnDisk, NameOf, Dests
  <1>17. RemovedForReason'
    BY DEF RemovedForReason
  <1>18. Kept'
    <2>1. ASSUME NEW d \in Dests, disk[NameOf(d)] = d
          PROVE  disk'[NameOf(d)] = d \/ d \in Spared'
      <3>1. NameOf(d) \in Names /\ d # None
        BY <1>1, DestShape
      <3> QED  BY <1>4, <2>1, <3>1
    <2> QED  BY <1>1, <1>7, <2>1 DEF Kept, NameOf, StatusOf, Dests
  <1>19. Left'
    <2>1. ASSUME NEW k \in Names, disk'[k] # None
          PROVE  \/ StatusOf(disk'[k]) \in {"completed", "started"}
                 \/ disk'[k] \in halfMoved \union leftBehind \union Unlinked'
                 \/ dest[disk'[k]].session = cleanup.session
      <3>1. k # n /\ disk'[k] = disk[k]
        BY <1>4, <2>1
      <3> QED  BY <1>1, <1>9, <2>1, <3>1 DEF Left
    <2> QED  BY <2>1 DEF Left, StatusOf
  <1>20. ExportHears'
    <2>1. ASSUME NEW i \in ToSet(eItems')
          PROVE  disk'[i.name] # None \/ Deletion(i.name) \in ToSet(eEvents')
      <3>1. i \in ToSet(eItems) /\ i.name \in Names /\ eState # "down"
        <4>1. i \in ToSet(eItems) /\ i.name \in Names
          BY ItemShape
        <4>2. eState = "ready"
          BY EmptyShape
        <4> QED  BY <4>1, <4>2
      <3>2. CASE i.name # n
        BY <1>1, <1>4, <1>5, <3>1, <3>2 DEF ExportHears
      <3>3. CASE i.name = n
        BY <1>5, <3>1, <3>3
      <3> QED  BY <3>2, <3>3
    <2>2. ASSUME NEW k \in Names
          PROVE  /\ Deletion(k) \in ToSet(eEvents') => disk'[k] = None
                 /\ MovedTo(k) \in ToSet(eEvents') /\ disk'[k] = None =>
                       Deletion(k) \in ToSet(eEvents')
      <3>1. Deletion(k) = Deletion(n) => k = n
        BY DEF Deletion
      <3>2. Deletion(k) \in ToSet(eEvents') => disk'[k] = None
        BY <1>1, <1>4, <1>5, <3>1 DEF ExportHears
      <3>3. ASSUME MovedTo(k) \in ToSet(eEvents'), disk'[k] = None
            PROVE  Deletion(k) \in ToSet(eEvents')
        <4>1. MovedTo(k) \in ToSet(eEvents) /\ eState # "down"
          BY <1>3, <1>5, <3>3, EmptyShape DEF MovedTo, Deletion
        <4>2. CASE disk[k] = None
          BY <1>1, <1>5, <4>1, <4>2 DEF ExportHears
        <4>3. CASE disk[k] # None
          BY <1>4, <1>5, <3>3, <4>1, <4>3
        <4> QED  BY <4>2, <4>3
      <3> QED  BY <3>2, <3>3
    <2> QED  BY <1>3, <2>1, <2>2 DEF ExportHears, Deletion, MovedTo
  <1>21. ExportKnows'
    <2>1. ASSUME NEW i \in ToSet(eItems')
          PROVE  \/ disk'[i.name] \in {None, i.dest}
                 \/ disk'[i.name] \in Spared' /\ disk'[i.name] \notin link
      <3>1. i \in ToSet(eItems) /\ i.name \in Names
        BY ItemShape
      <3> QED  BY <1>1, <1>4, <1>7, <3>1 DEF ExportKnows
    <2>2. ASSUME eState = "ready", NEW k \in Names, disk'[k] \in link
          PROVE  HasItem(k)' \/ MovedTo(k) \in ToSet(eEvents')
      <3>1. k # n /\ disk[k] \in link
        <4>1. disk'[k] # None
          BY <1>1, <2>2, DestShape DEF DatabaseTypes
        <4> QED  BY <1>4, <2>2, <4>1
      <3>2. HasItem(k) \/ MovedTo(k) \in ToSet(eEvents)
        BY <1>1, <2>2, <3>1 DEF ExportKnows
      <3> QED  BY <1>5, <2>2, <3>1, <3>2 DEF HasItem
    <2> QED  BY <2>1, <2>2 DEF ExportKnows, MovedTo
  <1>22. Transferred'
    <2>1. ASSUME NEW k \in transfer.names
          PROVE  /\ disk'[k] = disk[k]
                 /\ \E i \in ToSet(eItems') : i.name = k /\ i.status = "completed"
      <3>1. k \in Names /\ k # n
        BY <1>1 DEF ExportTypes
      <3>2. PICK i \in ToSet(eItems) : i.name = k /\ i.status = "completed"
        BY <1>1 DEF Transferred
      <3> QED  BY <1>4, <3>1, <3>2
    <2>2. ASSUME NEW k \in transfer.names
          PROVE  disk[k] # None /\ (transfer.state = "stored" => disk[k] \in onTape')
      BY <1>1 DEF Transferred
    <2> QED  BY <2>1, <2>2 DEF Transferred
  <1>23. RecorderHears'
    <2>1. ASSUME NEW k \in Names
          PROVE  /\ Held(k) <= Unheard(k)' + (IF disk'[k] = None THEN 0 ELSE 1)
                 /\ Held(k) # 0 => Unheard(k)' <= Held(k)
                 /\ Held(k) # 0 /\ disk'[k] # None => Unheard(k)' < Held(k)
                 /\ InUse(k) => Unheard(k)' <= Held(k)
      <3>1. Held(k) \in Nat /\ Unheard(k) \in Nat
        BY CountShape
      <3>2. /\ Held(k) <= Unheard(k) + (IF disk[k] = None THEN 0 ELSE 1)
            /\ Held(k) # 0 => Unheard(k) <= Held(k)
            /\ Held(k) # 0 /\ disk[k] # None => Unheard(k) < Held(k)
            /\ InUse(k) => Unheard(k) <= Held(k)
        BY <1>1 DEF RecorderHears
      <3>3. CASE k # n
        BY <1>4, <1>6, <3>2, <3>3
      <3>4. CASE k = n /\ rState # "down"
        BY <1>4, <1>6, <3>1, <3>2, <3>4
      <3>5. CASE k = n /\ rState = "down"
        <4>1. Held(k) = 0
          <5>1. ItemsOf(k) = {}
            BY <1>1, <3>5, EmptyShape DEF RecorderKnows, ItemsOf
          <5> QED  BY <5>1, CountShape
        <4> QED  BY <1>4, <1>6, <3>1, <3>2, <3>5, <4>1
      <3> QED  BY <3>3, <3>4, <3>5
    <2>2. \A k : Held(k)' = Held(k)
      BY DEF Held, ItemsOf, NameOf
    <2> QED  BY <1>8, <2>1, <2>2 DEF RecorderHears
  <1>24. RecorderKnows'
    BY <1>1, <1>3 DEF RecorderKnows, NameOf
  <1>25. Starting'
    <2>1. ASSUME rState \in {"watching", "starting"}, NEW k \in Names, disk'[k] # None
          PROVE  Unheard(k)' = 0
      BY <1>1, <1>4, <1>6, <2>1 DEF Starting
    <2>2. ASSUME rState = "starting", NEW d \in ToSet(rItems), disk'[NameOf(d)] = d,
                 NEW i \in ToSet(eItems'), i.name = NameOf(d)
          PROVE  i.dest = d
      <3>1. d \in Dests
        BY <1>1, SequenceShape DEF RecorderTypes
      <3>2. NameOf(d) \in Names /\ d # None
        BY <1>1, <3>1, DestShape
      <3>3. disk[NameOf(d)] = d
        BY <1>4, <2>2, <3>2
      <3> QED  BY <1>1, <2>2, <3>3 DEF Starting
    <2>3. ASSUME rState = "starting", NEW k \in Names, disk'[k] # None,
                 StatusOf(disk'[k]) = "started" \/ dest[disk'[k]].session = cleanup.session
          PROVE  disk'[k] \in ToSet(rItems) \union Unlinked'
      <3>1. k # n /\ disk'[k] = disk[k]
        BY <1>4, <2>3
      <3> QED  BY <1>1, <1>9, <2>3, <3>1 DEF Starting
    <2> QED  BY <1>1, <2>1, <2>2, <2>3 DEF Starting, NameOf, StatusOf
  <1>26. Cleaning'
    BY <1>1 DEF Cleaning, ItemsLeft, Dests, StatusOf
  <1> QED  BY <1>26, <1>10, <1>11, <1>12, <1>13, <1>14, <1>15, <1>16, <1>17, <1>18, <1>19, <1>20,
              <1>21, <1>22, <1>23, <1>24, <1>25 DEF IInv

LEMMA RemoveFileKeeps ==
    ASSUME IInv, removeFile
    PROVE  IInv'
  <1> DEFINE n == (CHOOSE i \in removing : TRUE).name
  <1>1. /\ removing # {} /\ removing' = {} /\ RemoveFiles({n})
        /\ eItems' = Forget(eItems, [k \in DOMAIN eItems |-> eItems[k].name], n)
        /\ UNCHANGED <<dest, link, status, creating, rState, rItems, rCreating, session, todo,
                       cleanup, eState, transfer, onTape, byHand, halfRemoved, halfMoved, leftBehind>>
    BY DEF removeFile, database, history
  <1>2. PICK j \in removing : n = j.name /\ j \in ToSet(eItems) /\ j.name \in Names
    <2>1. \E j \in removing : n = j.name
      BY <1>1
    <2>2. removing \subseteq ToSet(eItems) /\ \A i \in ToSet(eItems) : i \in CopyType
      BY SequenceShape DEF IInv, ExportTypes
    <2> QED  BY <2>1, <2>2 DEF CopyType
  <1>3. \A i \in removing : i.name = n
    BY <1>2 DEF IInv, OneItem
  <1> HIDE DEF n
  <1>4. eState = "ready"
    BY <1>2, EmptyShape DEF IInv, ExportTypes
  <1>5. ~InUse(n) /\ n \notin transfer.names
    BY <1>2 DEF IInv, Fresh, Transferred
  <1>6. /\ eItems' \in Seq(CopyType)
        /\ ToSet(eItems') = {i \in ToSet(eItems) : i.name # n}
        /\ \A i, k \in DOMAIN eItems' : eItems'[i].name = eItems'[k].name => i = k
    BY <1>1, ExportForgets
  <1>7. disk[n] \in Spared' \union {None}
    BY <1>1, <1>2 DEF IInv, RemovedForReason, Spared
  <1>8. /\ \A i \in ToSet(eItems') : i \in ToSet(eItems) /\ i.name # n
        /\ \A i \in ToSet(eItems) : i.name # n => i \in ToSet(eItems')
    BY <1>6
  <1> QED  BY <1>1, <1>2, <1>3, <1>4, <1>5, <1>6, <1>7, <1>8, FileGoneKeeps

LEMMA RemovedOutsideKeeps ==
    ASSUME IInv, NEW n \in Names, RemovedOutside(n)
    PROVE  IInv'
  <1>1. /\ disk[n] # None /\ n \notin transfer.names /\ removing = {} /\ RemoveFiles({n})
        /\ byHand' = byHand \union {disk[n]}
        /\ UNCHANGED <<dest, link, status, creating, rState, rItems, rCreating, session, todo,
                       cleanup, eState, eItems, removing, transfer, onTape, halfRemoved, halfMoved,
                       leftBehind>>
    BY DEF RemovedOutside, database
  <1>2. ~InUse(n)
    BY <1>1 DEF IInv, Fresh
  <1>3. disk[n] \in Spared'
    BY <1>1 DEF Spared
  <1>4. /\ eItems' \in Seq(CopyType) /\ (eState # "ready" => eItems' = <<>>)
        /\ \A j, k \in DOMAIN eItems' : eItems'[j].name = eItems'[k].name => j = k
        /\ onTape \subseteq onTape' /\ byHand \subseteq byHand'
        /\ removing' = {} /\ \A i \in removing : i.name = n
    BY <1>1 DEF IInv, ExportTypes, OneItem
  <1>5. /\ \A i \in ToSet(eItems') : i \in ToSet(eItems)
        /\ \A i \in ToSet(eItems) : i.name # n => i \in ToSet(eItems')
    BY <1>1
  <1> QED  BY <1>1, <1>2, <1>3, <1>4, <1>5, FileGoneKeeps

\* A step of the recorder that leaves the files and the tape export alone.
LEMMA ExportUntouched ==
    ASSUME IInv, UNCHANGED <<dest, disk, export, onTape, byHand>>,
           leftBehind \subseteq leftBehind', link' \subseteq link,
           \A d \in Dests : StatusOf(d) = "completed" => StatusOf(d)' = "completed"
    PROVE  /\ ExportTypes' /\ OneItem' /\ RemovedForReason' /\ ExportHears' /\ ExportKnows'
           /\ Transferred' /\ Spared \subseteq Spared'
           /\ leftBehind' = leftBehind => Spared' = Spared
           /\ UNCHANGED <<halfRemoved, cleanup>> => Unlinked' = Unlinked
  <1>1. UNCHANGED <<eState, eItems, eEvents, removing, transfer>>
    BY DEF export
  <1>2. ExportTypes'
    <2>1. eItems' \in Seq(CopyType)' /\ eEvents' \in Seq(EventType)'
      BY <1>1 DEF CopyType, Dests, EventType, IInv, ExportTypes
    <2> QED  BY <1>1, <2>1 DEF IInv, ExportTypes
  <1>3. OneItem'
    <2>1. ASSUME NEW i \in ToSet(eItems), i.status = "completed"
          PROVE  StatusOf(i.dest)' = "completed"
      <3>1. i.dest \in Dests /\ StatusOf(i.dest) = "completed"
        BY <2>1, ItemShape DEF IInv, OneItem
      <3>2. StatusOf(i.dest)' = status'[dest[i.dest].session]
        BY <1>1 DEF StatusOf
      <3>3. \A d \in Dests : StatusOf(d)' = status'[dest[d].session]
        BY DEF StatusOf
      <3> QED  BY <3>1, <3>2, <3>3
    <2>2. ASSUME NEW i \in ToSet(eItems), i.status = "completed"
          PROVE  status'[dest'[i'.dest].session] = "completed"
      BY <2>1, <2>2 DEF StatusOf
    <2> QED  BY <1>1, <2>2 DEF IInv, OneItem, NameOf, StatusOf
  <1>4. RemovedForReason'
    BY <1>1 DEF IInv, RemovedForReason, Spared
  <1>5. ExportHears' /\ Transferred'
    BY <1>1 DEF IInv, ExportHears, Transferred
  <1>6. ExportKnows'
    BY <1>1 DEF IInv, ExportKnows, Spared, HasItem
  <1>7. /\ Spared \subseteq Spared' /\ (leftBehind' = leftBehind => Spared' = Spared)
        /\ UNCHANGED <<halfRemoved, cleanup>> => Unlinked' = Unlinked
    BY <1>1 DEF Spared, Unlinked
  <1> QED  BY <1>2, <1>3, <1>4, <1>5, <1>6, <1>7

\* Nothing is cleaned up but while the recorder starts.
LEMMA NotCleaning ==
    ASSUME Cleaning, rState # "starting", UNCHANGED <<cleanup, leftBehind>>,
           Dests \subseteq Dests',
           \A d \in Dests : StatusOf(d) = "aborted" => StatusOf(d)' = "aborted"
    PROVE  Cleaning' /\ cleanup.session = None /\ cleanup.item = None
  <1>1. cleanup.session = None
    BY DEF Cleaning
  <1>2. cleanup.item = None
    BY <1>1 DEF Cleaning
  <1>3. leftBehind \subseteq {d \in Dests' : StatusOf(d)' = "aborted"}
    BY DEF Cleaning
  <1>4. cleanup' \in [session : Sessions \union {None}, item : Dests' \union {None}]
    BY DEF Cleaning
  <1> QED  BY <1>1, <1>2, <1>3, <1>4 DEF Cleaning

\* A session that has begun is the last that has.
LEMMA LastSession ==
    ASSUME IInv
    PROVE  /\ \A s, t \in Sessions : status[s] = "started" /\ status[t] # "none" => t <= s
           /\ \A d \in Dests : /\ dest[d].session \in Sessions
                               /\ StatusOf(d) \in {"started", "completed", "aborted"}
           /\ \A d, e \in Dests :
                 StatusOf(d) = "started" /\ NameOf(e) = NameOf(d) => e <= d
           /\ \A d \in ToSet(rCreating) : d \in Dests /\ StatusOf(d) = "started"
  <1>1. DatabaseTypes /\ SessionOrder /\ BeingRecorded /\ RecorderTypes
    BY DEF IInv
  <1>2. \A s \in Sessions : s \in Nat
    BY SessionsAssumption DEF Sessions
  <1>3. \A s, t \in Sessions : status[s] = "started" /\ status[t] # "none" => t <= s
    BY <1>1, <1>2 DEF SessionOrder
  <1>4. \A d \in Dests : d \in Nat /\ dest[d].session \in Sessions
    BY <1>1, DestShape
  <1>5. \A d \in Dests : StatusOf(d) \in {"started", "completed", "aborted"}
    BY <1>1, <1>4 DEF DatabaseTypes, SessionOrder, StatusOf
  <1>6. ASSUME NEW d \in Dests, NEW e \in Dests, StatusOf(d) = "started", NameOf(e) = NameOf(d)
        PROVE  e <= d
    <2>1. dest[e].session <= dest[d].session
      BY <1>3, <1>4, <1>5, <1>6 DEF StatusOf
    <2>2. ~(d < e)
      BY <1>1, <1>2, <1>4, <1>6, <2>1 DEF SessionOrder
    <2> QED  BY <1>4, <2>2
  <1>7. ASSUME NEW d \in ToSet(rCreating)
        PROVE  d \in Dests /\ StatusOf(d) = "started"
    <2>1. d \in link /\ dest[d].session = session
      BY <1>1 DEF BeingRecorded
    <2>2. rCreating # <<>>
      BY EmptyShape
    <2>3. session # None
      BY <1>1, <2>2 DEF RecorderTypes, BeingRecorded, IsRecording
    <2> QED  BY <1>1, <2>1, <2>3 DEF DatabaseTypes, SessionOrder, StatusOf
  <1> QED  BY <1>3, <1>4, <1>5, <1>6, <1>7

LEMMA StartSessionKeeps ==
    ASSUME IInv, ~LateEvents, NEW s \in Sessions, NEW items \in SUBSET Names,
           StartSession(s, items)
    PROVE  IInv'
  <1>1. /\ rState = "ready" /\ session = None /\ status[s] = "none"
        /\ \A n \in items : disk[n] = None /\ creating[n] = None
        /\ \A n \in items : Settled(n)
        /\ status' = [status EXCEPT ![s] = "started"]
        /\ session' = s /\ todo' = items /\ rState' = "recording"
        /\ UNCHANGED <<dest, link, disk, creating, rItems, rCreating, rEvents, cleanup, export,
                       onTape, byHand, halfRemoved, halfMoved, leftBehind>>
    BY DEF StartSession, checkMultiItemMXF, Available, history
  <1>2. /\ DatabaseTypes /\ SessionOrder /\ RecorderTypes /\ ExportTypes /\ BeingRecorded
        /\ Fresh /\ OnDisk /\ Kept /\ Left /\ ExportHears /\ Transferred /\ RecorderHears
        /\ RecorderKnows
    BY DEF IInv
  <1>3. UNCHANGED <<eState, eItems, eEvents, removing, transfer>>
    BY <1>1 DEF export
  <1>4. /\ \A d \in Dests : dest[d].session \in Sessions /\ dest[d].session # s
        /\ \A d \in Dests : StatusOf(d)' = StatusOf(d)
    <2>1. \A d \in Dests : dest[d].session \in Sessions /\ dest[d].session # s
      BY <1>1, LastSession DEF StatusOf
    <2> QED  BY <1>1, <1>2, <2>1 DEF DatabaseTypes, StatusOf
  <1>5. s # None /\ \A t \in Sessions : t \in Nat
    BY SessionsAssumption DEF Sessions, None
  <1>6. /\ ExportTypes' /\ OneItem' /\ RemovedForReason' /\ ExportHears' /\ ExportKnows'
        /\ Transferred' /\ Spared' = Spared /\ Unlinked' = Unlinked
    BY <1>1, <1>4, ExportUntouched
  <1>7. rCreating = <<>> /\ ToSet(rCreating) = {} /\ \A n \in Names : creating[n] = None
    <2>1. rCreating = <<>> /\ ToSet(rCreating) = {}
      BY <1>1, <1>2, EmptyShape DEF BeingRecorded, IsRecording
    <2> QED  BY <1>1, <1>2, <2>1 DEF BeingRecorded
  <1>8. \A n : InUse(n)' <=> n \in items
    BY <1>1, <1>7 DEF InUse
  <1>9. DatabaseTypes'
    BY <1>1, <1>2 DEF DatabaseTypes, Dests
  <1>10. SessionOrder'
    <2>1. ASSUME NEW a \in Sessions, NEW b \in Sessions, a < b, status'[b] # "none"
          PROVE  status'[a] \in {"completed", "aborted"}
      <3>1. a # s
        <4> SUFFICES ASSUME a = s  PROVE FALSE
          OBVIOUS
        <4>1. status[b] # "none" /\ status[a] = "none"
          BY <1>1, <1>2, <1>5, <2>1 DEF DatabaseTypes
        <4> QED  BY <1>2, <2>1, <4>1 DEF SessionOrder
      <3>2. CASE b # s
        BY <1>1, <1>2, <2>1, <3>1, <3>2 DEF SessionOrder, DatabaseTypes
      <3>3. CASE b = s
        <4>1. status[a] # "none"
          BY <2>1, <3>3 DEF StartSession
        <4>2. status[a] \in {"completed", "aborted"}
          BY <1>1, <1>2, <4>1 DEF SessionOrder, DatabaseTypes
        <4> QED  BY <1>1, <1>2, <3>1, <4>2 DEF DatabaseTypes
      <3> QED  BY <3>2, <3>3
    <2>2. \A d \in Dests : StatusOf(d)' # "none"
      BY <1>2, <1>4 DEF SessionOrder
    <2>3. status'[s] = "started"
      BY <1>1, <1>2 DEF DatabaseTypes
    <2> QED  BY <1>1, <1>2, <2>1, <2>2, <2>3 DEF SessionOrder, Dests, NameOf
  <1>11. RecorderTypes'
    BY <1>1, <1>2, <1>5 DEF RecorderTypes, Dests
  <1>12. BeingRecorded'
    BY <1>1, <1>4, <1>7 DEF BeingRecorded, IsRecording, Dests
  <1>13. Fresh'
    <2>1. ASSUME NEW n \in items
          PROVE  /\ disk[n] = None
                 /\ \A e \in ToSet(eEvents) : e.name # n
                 /\ \A i \in ToSet(eItems) : i.name # n
                 /\ n \notin transfer.names
      <3>1. disk[n] = None /\ \A e \in ToSet(eEvents) : e.name # n
        BY <1>1 DEF Settled
      <3>2. Deletion(n).name = n
        BY DEF Deletion
      <3>3. \A i \in ToSet(eItems) : i.name # n
        BY <1>2, <3>1, <3>2 DEF ExportHears
      <3>4. n \notin transfer.names
        BY <1>2, <3>1 DEF Transferred
      <3> QED  BY <3>1, <3>3, <3>4
    <2> QED  BY <1>1, <1>3, <1>8, <2>1 DEF Fresh
  <1>14. OnDisk'
    BY <1>1, <1>2, <1>6 DEF OnDisk, NameOf, Dests
  <1>15. Kept'
    BY <1>1, <1>2, <1>4, <1>6 DEF Kept, NameOf, Dests
  <1>16. Left'
    <2>1. \A n \in Names : disk[n] # None => StatusOf(disk[n])' = StatusOf(disk[n])
      BY <1>1, <1>2, <1>4 DEF DatabaseTypes, StatusOf
    <2> QED  BY <1>1, <1>2, <1>6, <2>1 DEF Left, StatusOf
  <1>17. RecorderHears'
    <2>1. ASSUME NEW n \in items  PROVE  Unheard(n) <= Held(n)
      <3>1. Settled(n) /\ n \in Names
        BY <1>1
      <3>2. CASE \E e \in ToSet(rEvents) : e.name = n
        <4>1. ItemsOf(n) # {}
          BY <3>1, <3>2 DEF Settled, ItemsOf
        <4>2. Held(n) # 0
          BY <3>1, <4>1, CountShape
        <4> QED  BY <1>2, <3>1, <4>2 DEF RecorderHears
      <3>3. CASE \A e \in ToSet(rEvents) : e.name # n
        BY <3>1, <3>3, CountShape
      <3> QED  BY <3>2, <3>3
    <2>2. \A n : Held(n)' = Held(n) /\ Unheard(n)' = Unheard(n)
      BY <1>1, CountsSame
    <2> QED  BY <1>1, <1>2, <1>8, <2>1, <2>2 DEF RecorderHears
  <1>18. RecorderKnows'
    BY <1>1, <1>2 DEF RecorderKnows, NameOf
  <1>19. Starting'
    BY <1>1 DEF Starting
  <1>50. Cleaning'
    <2>1. \A d \in Dests : StatusOf(d) = "aborted" => StatusOf(d)' = "aborted"
      BY <1>4
    <2>2. Cleaning /\ Dests' = Dests
      BY <1>1 DEF IInv, Dests
    <2> QED  BY <1>1, <2>1, <2>2, NotCleaning
  <1> QED  BY <1>50, <1>6, <1>9, <1>10, <1>11, <1>12, <1>13, <1>14, <1>15, <1>16, <1>17, <1>18, <1>19
           DEF IInv

LEMMA BeginCompleteKeeps ==
    ASSUME IInv, BeginComplete
    PROVE  IInv'
  <1>1. /\ rState = "recording" /\ todo = {} /\ rState' = "finalising"
        /\ UNCHANGED <<dest, link, status, disk, creating, rItems, rCreating, rEvents, session,
                       todo, cleanup, export, onTape, byHand, halfRemoved, halfMoved, leftBehind>>
    BY DEF BeginComplete, database, history
  <1>2. UNCHANGED <<eState, eItems, eEvents, removing, transfer>>
    BY <1>1 DEF export
  <1>3. \A d \in Dests : StatusOf(d)' = StatusOf(d)
    BY <1>1 DEF StatusOf
  <1>4. /\ ExportTypes' /\ OneItem' /\ RemovedForReason' /\ ExportHears' /\ ExportKnows'
        /\ Transferred' /\ Spared' = Spared /\ Unlinked' = Unlinked
    BY <1>1, <1>3, ExportUntouched
  <1>5. DatabaseTypes' /\ SessionOrder' /\ RecorderTypes'
    BY <1>1 DEF IInv, DatabaseTypes, SessionOrder, RecorderTypes, Dests, NameOf, StatusOf
  <1>6. BeingRecorded'
    BY <1>1 DEF IInv, BeingRecorded, IsRecording, Dests, NameOf
  <1>7. Fresh'
    BY <1>1, <1>2 DEF IInv, Fresh, InUse, NameOf
  <1>8. OnDisk' /\ Kept' /\ Left'
    BY <1>1, <1>4 DEF IInv, OnDisk, Kept, Left, NameOf, StatusOf, Dests
  <1>9. RecorderHears' /\ RecorderKnows'
    BY <1>1, CountsSame DEF IInv, RecorderHears, RecorderKnows, InUse, NameOf
  <1>10. Starting'
    BY <1>1 DEF Starting
  <1>50. Cleaning'
    <2>1. \A d \in Dests : StatusOf(d) = "aborted" => StatusOf(d)' = "aborted"
      BY <1>3
    <2>2. Cleaning /\ Dests' = Dests
      BY <1>1 DEF IInv, Dests
    <2> QED  BY <1>1, <2>1, <2>2, NotCleaning
  <1> QED  BY <1>50, <1>4, <1>5, <1>6, <1>7, <1>8, <1>9, <1>10 DEF IInv

LEMMA EndCompleteKeeps ==
    ASSUME IInv, EndComplete
    PROVE  IInv'
  <1>1. /\ rState = "finalising" /\ rCreating = <<>>
        /\ status' = [status EXCEPT ![session] = "completed"]
        /\ session' = None /\ rState' = "ready"
        /\ UNCHANGED <<dest, link, disk, creating, rItems, rCreating, rEvents,
                       todo, cleanup, export, onTape, byHand, halfRemoved, halfMoved, leftBehind>>
    BY DEF EndComplete, history
  <1>2. /\ DatabaseTypes /\ SessionOrder /\ RecorderTypes /\ BeingRecorded
        /\ Fresh /\ OnDisk /\ Kept /\ Left /\ RecorderHears /\ RecorderKnows
    BY DEF IInv
  <1>3. session \in Sessions /\ session # None /\ status[session] = "started" /\ todo = {}
    BY <1>1, <1>2 DEF RecorderTypes, SessionOrder, BeingRecorded
  <1>4. \A d \in Dests : /\ dest[d].session \in Sessions
                         /\ StatusOf(d)' = IF dest[d].session = session THEN "completed"
                                           ELSE StatusOf(d)
    BY <1>1, <1>2, <1>3, LastSession DEF DatabaseTypes, StatusOf
  <1>5. /\ ExportTypes' /\ OneItem' /\ RemovedForReason' /\ ExportHears' /\ ExportKnows'
        /\ Transferred' /\ Spared' = Spared /\ Unlinked' = Unlinked
    BY <1>1, <1>4, ExportUntouched
  <1>6. DatabaseTypes'
    BY <1>1, <1>2 DEF DatabaseTypes, Dests
  <1>7. SessionOrder'
    <2>1. \A s \in Sessions : s \in Nat
      BY SessionsAssumption DEF Sessions
    <2>2. ASSUME NEW t \in Sessions  PROVE  status'[t] # "started"
      <3>1. CASE t = session
        BY <1>1, <1>2, <3>1 DEF DatabaseTypes
      <3>2. CASE t # session
        <4>1. status'[t] = status[t]
          BY <1>1, <1>2, <3>2 DEF DatabaseTypes
        <4>2. status[t] = "started" => t <= session /\ session <= t
          BY <1>3, LastSession
        <4> QED  BY <1>3, <2>1, <3>2, <4>1, <4>2
      <3> QED  BY <3>1, <3>2
    <2>3. \A s, t \in Sessions :
             s < t /\ status'[t] # "none" => status'[s] \in {"completed", "aborted"}
      BY <1>1, <1>2, <1>3 DEF SessionOrder, DatabaseTypes
    <2>4. \A d \in Dests : StatusOf(d)' # "none"
      BY <1>2, <1>4 DEF SessionOrder
    <2> QED  BY <1>1, <1>2, <2>2, <2>3, <2>4 DEF SessionOrder, Dests, NameOf
  <1>8. RecorderTypes'
    BY <1>1, <1>2 DEF RecorderTypes, Dests
  <1>9. ToSet(rCreating) = {}
    BY <1>1, EmptyShape
  <1>10. BeingRecorded'
    BY <1>1, <1>2, <1>3, <1>9 DEF BeingRecorded, IsRecording
  <1>11. Fresh'
    BY <1>1, <1>3, <1>9 DEF Fresh, InUse
  <1>12. OnDisk'
    BY <1>1, <1>2, <1>5 DEF OnDisk, NameOf, Dests
  <1>13. Kept'
    BY <1>1, <1>2, <1>3, <1>4, <1>5 DEF Kept, NameOf, Dests
  <1>14. Left'
    <2>1. ASSUME NEW n \in Names, disk[n] # None
          PROVE  \/ StatusOf(disk[n])' \in {"completed", "started"}
                 \/ disk[n] \in halfMoved \union leftBehind \union Unlinked
                 \/ dest[disk[n]].session = cleanup.session
      <3>1. disk[n] \in Dests
        BY <1>2, <2>1 DEF DatabaseTypes
      <3>2. StatusOf(disk[n])' = status'[dest[disk[n]].session]
        BY <1>1 DEF StatusOf
      <3>3. \A d \in Dests : \/ status'[dest[d].session] = "completed"
                             \/ status'[dest[d].session] = StatusOf(d)
        BY <1>1, <1>4 DEF StatusOf
      <3> QED  BY <1>2, <2>1, <3>1, <3>2, <3>3 DEF Left
    <2> QED  BY <1>1, <1>5, <2>1 DEF Left, StatusOf
  <1>15. RecorderHears' /\ RecorderKnows'
    BY <1>1, <1>2, <1>3, <1>9, CountsSame DEF RecorderHears, RecorderKnows, InUse, NameOf
  <1>16. Starting'
    BY <1>1 DEF Starting
  <1>50. Cleaning'
    <2>1. \A d \in Dests : StatusOf(d) = "aborted" => StatusOf(d)' = "aborted"
      BY <1>1, <1>2, <1>3, <1>4 DEF StatusOf, DatabaseTypes
    <2>2. Cleaning /\ Dests' = Dests
      BY <1>1 DEF IInv, Dests
    <2> QED  BY <1>1, <2>1, <2>2, NotCleaning
  <1> QED  BY <1>50, <1>5, <1>6, <1>7, <1>8, <1>10, <1>11, <1>12, <1>13, <1>14, <1>15, <1>16 DEF IInv

\* A session is aborted: what it has moved into the cache is left there.
LEMMA AbortKeeps ==
    ASSUME IInv, IsRecording, Abort,
           UNCHANGED <<onTape, byHand, halfRemoved, leftBehind>>, halfMoved \subseteq halfMoved',
           \A n \in Names : disk[n] # None /\ dest[disk[n]].session = session =>
               disk[n] \in halfMoved'
    PROVE  IInv'
  <1>1. /\ link' = link \ ToSet(rCreating)
        /\ creating' = [n \in Names |->
                          IF creating[n] \in ToSet(rCreating) THEN None ELSE creating[n]]
        /\ rCreating' = <<>> /\ todo' = {} /\ session' = None /\ rState' = "ready"
        /\ status' = [status EXCEPT ![session] = "aborted"]
        /\ UNCHANGED <<dest, disk, rItems, rEvents, cleanup, export>>
    BY DEF Abort, RemoveCreatingItems
  <1>2. /\ DatabaseTypes /\ SessionOrder /\ RecorderTypes /\ BeingRecorded
        /\ Fresh /\ OnDisk /\ Kept /\ Left /\ RecorderHears /\ RecorderKnows
    BY DEF IInv
  <1>3. /\ session \in Sessions /\ session # None /\ status[session] = "started"
        /\ rState \notin {"down", "watching"}
    BY <1>2 DEF RecorderTypes, SessionOrder, IsRecording
  <1>4. \A d \in Dests : /\ dest[d].session \in Sessions
                         /\ StatusOf(d)' = IF dest[d].session = session THEN "aborted"
                                           ELSE StatusOf(d)
                         /\ dest[d].session = session => StatusOf(d) = "started"
    BY <1>1, <1>2, <1>3, LastSession DEF DatabaseTypes, StatusOf
  <1>5. /\ ExportTypes' /\ OneItem' /\ RemovedForReason' /\ ExportHears' /\ ExportKnows'
        /\ Transferred' /\ Spared' = Spared /\ Unlinked' = Unlinked
    <2>1. \A d \in Dests : StatusOf(d) = "completed" => StatusOf(d)' = "completed"
      BY <1>4
    <2>2. link' \subseteq link
      BY <1>1
    <2> QED  BY <1>1, <2>1, <2>2, ExportUntouched
  <1>6. \A n \in Names : creating'[n] = None
    BY <1>1, <1>2, <1>3 DEF BeingRecorded
  <1>7. DatabaseTypes'
    <2>1. link' \subseteq Dests /\ Dests' = Dests
      BY <1>1, <1>2 DEF DatabaseTypes, Dests
    <2>2. creating' \in [Names -> Dests \union {None}]
      BY <1>1, <1>2 DEF DatabaseTypes
    <2> QED  BY <1>1, <1>2, <2>1, <2>2 DEF DatabaseTypes
  <1>8. SessionOrder'
    <2>1. \A s \in Sessions : s \in Nat
      BY SessionsAssumption DEF Sessions
    <2>2. ASSUME NEW t \in Sessions  PROVE  status'[t] # "started"
      <3>1. CASE t = session
        BY <1>1, <1>2, <3>1 DEF DatabaseTypes
      <3>2. CASE t # session
        <4>1. status'[t] = status[t]
          BY <1>1, <1>2, <3>2 DEF DatabaseTypes
        <4>2. status[t] = "started" => t <= session /\ session <= t
          BY <1>3, LastSession
        <4> QED  BY <1>3, <2>1, <3>2, <4>1, <4>2
      <3> QED  BY <3>1, <3>2
    <2>3. \A s, t \in Sessions :
             s < t /\ status'[t] # "none" => status'[s] \in {"completed", "aborted"}
      BY <1>1, <1>2, <1>3 DEF SessionOrder, DatabaseTypes
    <2>4. \A d \in Dests : StatusOf(d)' # "none"
      BY <1>2, <1>4 DEF SessionOrder
    <2> QED  BY <1>1, <1>2, <2>2, <2>3, <2>4 DEF SessionOrder, Dests, NameOf
  <1>9. ToSet(rCreating') = {} /\ rCreating' \in Seq(Dests) /\ IsInjective(rCreating')
    BY <1>1, EmptyShape
  <1>10. RecorderTypes'
    BY <1>1, <1>2, <1>9 DEF RecorderTypes, Dests
  <1>11. \A n : ~InUse(n)'
    BY <1>1, <1>9 DEF InUse
  <1>12. BeingRecorded'
    BY <1>1, <1>6, <1>9 DEF BeingRecorded, IsRecording
  <1>13. Fresh'
    BY <1>11 DEF Fresh
  <1>14. OnDisk'
    <2>1. ASSUME NEW n \in Names, disk[n] # None
          PROVE  disk[n] \notin ToSet(rCreating)
      <3> SUFFICES ASSUME disk[n] \in ToSet(rCreating)  PROVE FALSE
        OBVIOUS
      <3>1. NameOf(disk[n]) = n
        BY <1>2, <2>1 DEF OnDisk
      <3> QED  BY <1>2, <2>1, <3>1 DEF Fresh, InUse
    <2> QED  BY <1>1, <1>2, <1>5, <2>1 DEF OnDisk, NameOf, Dests
  <1>15. Kept'
    <2>1. ASSUME NEW d \in Dests, StatusOf(d)' = "completed"
          PROVE  disk[NameOf(d)] = d \/ d \in Spared
      <3>1. StatusOf(d) = "completed"
        BY <1>4, <2>1
      <3>2. d \notin ToSet(rCreating)
        BY <3>1, LastSession
      <3> QED  BY <1>2, <3>1, <3>2 DEF Kept
    <2> QED  BY <1>1, <1>5, <2>1 DEF Kept, NameOf, Dests
  <1>16. Left'
    <2>1. ASSUME NEW n \in Names, disk[n] # None
          PROVE  \/ StatusOf(disk[n])' \in {"completed", "started"}
                 \/ disk[n] \in halfMoved' \union leftBehind \union Unlinked
                 \/ dest[disk[n]].session = cleanup.session
      <3>1. disk[n] \in Dests
        BY <1>2, <2>1 DEF DatabaseTypes
      <3>2. StatusOf(disk[n])' = status'[dest[disk[n]].session]
        BY <1>1 DEF StatusOf
      <3>3. \A d \in Dests : dest[d].session # session => status'[dest[d].session] = StatusOf(d)
        BY <1>1, <1>4 DEF StatusOf
      <3> QED  BY <1>2, <2>1, <3>1, <3>2, <3>3 DEF Left
    <2> QED  BY <1>1, <1>5, <2>1 DEF Left, StatusOf
  <1>17. RecorderHears'
    BY <1>1, <1>2, <1>11, CountsSame DEF RecorderHears, NameOf
  <1>18. RecorderKnows'
    BY <1>1, <1>2, <1>3 DEF RecorderKnows, NameOf
  <1>19. Starting'
    BY <1>1 DEF Starting
  <1>50. Cleaning'
    <2>1. \A d \in Dests : StatusOf(d) = "aborted" => StatusOf(d)' = "aborted"
      BY <1>4
    <2>2. Cleaning /\ Dests' = Dests
      BY <1>1 DEF IInv, Dests
    <2>3. rState # "starting"
      BY DEF IsRecording
    <2> QED  BY <1>1, <2>1, <2>2, <2>3, NotCleaning
  <1> QED  BY <1>50, <1>5, <1>7, <1>8, <1>10, <1>12, <1>13, <1>14, <1>15, <1>16, <1>17, <1>18, <1>19
           DEF IInv

LEMMA AbortSessionKeeps ==
    ASSUME IInv, AbortSession
    PROVE  IInv'
  <1>1. /\ IsRecording /\ Abort /\ rState = "recording"
        /\ UNCHANGED <<onTape, byHand, halfRemoved, halfMoved, leftBehind>>
    BY DEF AbortSession, IsRecording, history
  <1>2. ASSUME NEW n \in Names, disk[n] # None, dest[disk[n]].session = session
        PROVE  FALSE
    <2>1. disk[n] \in Dests /\ NameOf(disk[n]) = n
      BY <1>2 DEF IInv, DatabaseTypes, OnDisk
    <2>2. disk[n] \in ToSet(rCreating)
      BY <1>1, <1>2, <2>1 DEF IInv, BeingRecorded
    <2> QED  BY <1>2, <2>1, <2>2 DEF IInv, Fresh, InUse
  <1>3. halfMoved \subseteq halfMoved'
    BY <1>1
  <1>4. \A n \in Names : disk[n] # None /\ dest[disk[n]].session = session => disk[n] \in halfMoved'
    BY <1>2
  <1> QED  BY <1>1, <1>3, <1>4, AbortKeeps

LEMMA CompleteFailsKeeps ==
    ASSUME IInv, CompleteFails
    PROVE  IInv'
  <1>1. /\ IsRecording /\ Abort /\ UNCHANGED <<onTape, byHand, halfRemoved, leftBehind>>
        /\ halfMoved' = halfMoved \union {d \in Dests : dest[d].session = session}
    BY DEF CompleteFails, IsRecording
  <1>2. halfMoved \subseteq halfMoved'
    BY <1>1
  <1>3. \A n \in Names : disk[n] # None /\ dest[disk[n]].session = session => disk[n] \in halfMoved'
    BY <1>1 DEF IInv, DatabaseTypes
  <1> QED  BY <1>1, <1>2, <1>3, AbortKeeps

LEMMA RecorderCrashKeeps ==
    ASSUME IInv, RecorderCrash
    PROVE  IInv'
  <1>1. /\ rState' = "down" /\ rItems' = <<>> /\ rCreating' = <<>> /\ rEvents' = <<>>
        /\ session' = None /\ todo' = {} /\ cleanup' = [session |-> None, item |-> None]
        /\ halfRemoved' = halfRemoved \union ({cleanup.item} \ {None})
        /\ leftBehind' = leftBehind \union ItemsLeft
        /\ UNCHANGED <<dest, link, status, disk, creating, export, onTape, byHand, halfMoved>>
    BY DEF RecorderCrash, database, NoCleanup
  <1>2. \A d \in Dests : StatusOf(d)' = StatusOf(d)
    BY <1>1 DEF StatusOf
  <1>3. /\ ExportTypes' /\ OneItem' /\ RemovedForReason' /\ ExportHears' /\ ExportKnows'
        /\ Transferred' /\ Spared \subseteq Spared'
    BY <1>1, <1>2, ExportUntouched
  <1>4. /\ ToSet(rItems') = {} /\ ToSet(rCreating') = {} /\ ToSet(rEvents') = {}
        /\ DOMAIN rItems' = {} /\ IsInjective(rItems') /\ IsInjective(rCreating')
    BY <1>1, EmptyShape
  <1>5. \A n : ~InUse(n)'
    BY <1>1, <1>4 DEF InUse
  <1>6. UNCHANGED removing
    BY <1>1 DEF export
  <1>7. Unlinked' = Unlinked
    BY <1>1, <1>6 DEF Unlinked
  <1>8. \A d \in Dests : dest[d].session # None
    BY DestShape DEF IInv, None
  <1>9. /\ ItemsLeft \subseteq {d \in Dests : StatusOf(d) = "aborted"}
        /\ cleanup.item # None => cleanup.item \in ItemsLeft
    <2>1. ToSet(rItems) \subseteq Dests
      BY SequenceShape DEF IInv, RecorderTypes
    <2>2. ASSUME NEW d \in ItemsLeft  PROVE d \in Dests /\ StatusOf(d) = "aborted"
      <3>1. d \in Dests /\ dest[d].session = cleanup.session
        BY <2>1 DEF ItemsLeft
      <3> QED  BY <1>8, <3>1 DEF IInv, Cleaning, StatusOf
    <2> QED  BY <2>2 DEF IInv, Cleaning
  <1>10. DatabaseTypes' /\ SessionOrder'
    BY <1>1, <1>9 DEF IInv, DatabaseTypes, SessionOrder, Dests, NameOf, StatusOf
  <1>11. RecorderTypes'
    <2>1. rItems' \in Seq(Dests)' /\ rCreating' \in Seq(Dests)'
          /\ rEvents' \in Seq([kind : {"deletion"}, name : Names])
      BY <1>1
    <2> QED  BY <1>1, <1>4, <2>1 DEF RecorderTypes
  <1>12. Cleaning'
    <2>1. leftBehind' \subseteq {d \in Dests : StatusOf(d) = "aborted"}
      BY <1>1, <1>9 DEF IInv, Cleaning
    <2> QED  BY <1>1, <2>1 DEF Cleaning, Dests, StatusOf
  <1>13. BeingRecorded' /\ Fresh'
    BY <1>1, <1>4, <1>5 DEF BeingRecorded, IsRecording, Fresh
  <1>14. OnDisk'
    <2>1. ASSUME NEW n \in Names, disk[n] # None, disk[n] \in halfRemoved'
          PROVE  disk[n] \in Spared'
      <3>1. CASE disk[n] \in halfRemoved
        BY <1>3, <2>1, <3>1 DEF IInv, OnDisk
      <3>2. CASE disk[n] = cleanup.item
        BY <1>1, <1>9, <2>1, <3>2 DEF Spared
      <3> QED  BY <1>1, <2>1, <3>1, <3>2
    <2> QED  BY <1>1, <1>7, <2>1 DEF IInv, OnDisk, NameOf, Dests
  <1>15. Left'
    <2>1. ASSUME NEW n \in Names, disk[n] # None, dest[disk[n]].session = cleanup.session
          PROVE  disk[n] \in leftBehind' \union Unlinked
      <3>1. cleanup.session # None
        BY <1>8, <2>1 DEF IInv, DatabaseTypes
      <3>2. disk[n] \in ToSet(rItems) \union Unlinked
        BY <2>1, <3>1 DEF IInv, Cleaning, Starting
      <3> QED  BY <1>1, <2>1, <3>2 DEF ItemsLeft
    <2> QED  BY <1>1, <1>7, <2>1 DEF IInv, Left, StatusOf
  <1>16. Kept'
    <2>1. ASSUME NEW d \in Dests, StatusOf(d) = "completed"
          PROVE  disk[NameOf(d)] = d \/ d \in Spared
      BY <2>1, LastSession DEF IInv, Kept
    <2> QED  BY <1>1, <1>3, <2>1 DEF Kept, NameOf, StatusOf, Dests
  <1>17. \A n : Held(n)' = 0 /\ Unheard(n)' = 0
    <2>1. \A n : ItemsOf(n)' = {} /\ Unheard(n)' = 0
      BY <1>1, <1>4, NoneNamedIn DEF ItemsOf, Unheard
    <2> QED  BY <2>1, FS_EmptySet DEF Held
  <1>18. RecorderHears' /\ RecorderKnows' /\ Starting'
    BY <1>1, <1>4, <1>5, <1>17 DEF RecorderHears, RecorderKnows, Starting
  <1> QED  BY <1>3, <1>10, <1>11, <1>12, <1>13, <1>14, <1>15, <1>16, <1>18 DEF IInv

LEMMA WatchRecorderKeeps ==
    ASSUME IInv, watchRecorder
    PROVE  IInv'
  <1>1. /\ rState = "down" /\ rState' = "watching"
        /\ UNCHANGED <<dest, link, status, disk, creating, rItems, rCreating, rEvents, session,
                       todo, cleanup, export, onTape, byHand, halfRemoved, halfMoved, leftBehind>>
    BY DEF watchRecorder, database, history
  <1>2. \A d \in Dests : StatusOf(d)' = StatusOf(d)
    BY <1>1 DEF StatusOf
  <1>3. /\ ExportTypes' /\ OneItem' /\ RemovedForReason' /\ ExportHears' /\ ExportKnows'
        /\ Transferred' /\ Spared' = Spared /\ Unlinked' = Unlinked
    BY <1>1, <1>2, ExportUntouched
  <1>4. UNCHANGED <<eItems, eEvents, transfer>>
    BY <1>1 DEF export
  <1>5. DatabaseTypes' /\ SessionOrder' /\ RecorderTypes'
    BY <1>1 DEF IInv, DatabaseTypes, SessionOrder, RecorderTypes, Dests, NameOf, StatusOf
  <1>6. BeingRecorded'
    BY <1>1 DEF IInv, BeingRecorded, IsRecording, Dests, NameOf
  <1>7. Fresh'
    BY <1>1, <1>4 DEF IInv, Fresh, InUse, NameOf
  <1>8. OnDisk' /\ Kept' /\ Left'
    BY <1>1, <1>3 DEF IInv, OnDisk, Kept, Left, NameOf, StatusOf, Dests
  <1>9. RecorderHears' /\ RecorderKnows'
    BY <1>1, CountsSame DEF IInv, RecorderHears, RecorderKnows, InUse, NameOf
  <1>10. Starting'
    <2>1. \A n : Unheard(n)' = 0
      BY <1>1, NoneNamedIn DEF IInv, RecorderKnows, Unheard
    <2> QED  BY <1>1, <2>1 DEF Starting
  <1>50. Cleaning'
    <2>1. \A d \in Dests : StatusOf(d) = "aborted" => StatusOf(d)' = "aborted"
      BY <1>2
    <2>2. Cleaning /\ Dests' = Dests
      BY <1>1 DEF IInv, Dests
    <2> QED  BY <1>1, <2>1, <2>2, NotCleaning
  <1> QED  BY <1>50, <1>3, <1>5, <1>6, <1>7, <1>8, <1>9, <1>10 DEF IInv

LEMMA RegisterCreatingItemKeeps ==
    ASSUME IInv, NEW n \in Names, registerCreatingItem(n)
    PROVE  IInv'
  <1>0. PICK d : d = Len(dest) + 1
    OBVIOUS
  <1>1. /\ rState = "recording" /\ n \in todo
        /\ dest' = Append(dest, [name |-> n, session |-> session])
        /\ link' = link \union {d}
        /\ creating' = [creating EXCEPT ![n] = d]
        /\ rCreating' = Append(rCreating, d)
        /\ todo' = todo \ {n}
        /\ UNCHANGED <<status, disk, rState, rItems, rEvents, session, cleanup, export,
                       onTape, byHand, halfRemoved, halfMoved, leftBehind>>
    BY <1>0 DEF registerCreatingItem, history
  <1>2. /\ DatabaseTypes /\ SessionOrder /\ RecorderTypes /\ ExportTypes /\ OneItem /\ BeingRecorded
        /\ Fresh /\ OnDisk /\ RemovedForReason /\ Kept /\ Left /\ ExportHears /\ ExportKnows
        /\ Transferred /\ RecorderHears /\ RecorderKnows
    BY DEF IInv
  <1>3. UNCHANGED <<eState, eItems, eEvents, removing, transfer>>
    BY <1>1 DEF export
  <1>4. session \in Sessions /\ session # None /\ status[session] = "started"
    BY <1>1, <1>2 DEF RecorderTypes, SessionOrder
  <1>5. /\ Len(dest) \in Nat /\ Dests = 1 .. Len(dest)
        /\ \A e \in Dests : e \in Nat \ {0} /\ dest[e].session \in Sessions
    BY <1>2, DestShape
  <1>6. /\ dest' \in Seq([name : Names, session : Sessions])
        /\ Dests' = Dests \union {d} /\ d \notin Dests /\ \A e \in Dests : e < d
        /\ d # None /\ d \in Nat
        /\ \A e \in Dests : dest'[e] = dest[e]
        /\ dest'[d] = [name |-> n, session |-> session]
    <2>1. /\ dest \in Seq([name : Names, session : Sessions])
          /\ [name |-> n, session |-> session] \in [name : Names, session : Sessions]
      BY <1>2, <1>4 DEF DatabaseTypes
    <2> QED  BY <1>0, <1>1, <1>5, <2>1, AppendShape DEF Dests, None
  <1>7. /\ \A e \in Dests : NameOf(e)' = NameOf(e) /\ StatusOf(e)' = StatusOf(e)
        /\ NameOf(d)' = n /\ StatusOf(d)' = "started"
        /\ \A e \in Dests : dest'[e].session = dest[e].session /\ dest[e].session # None
        /\ dest'[d].session = session
    <2>1. None \notin Sessions
      BY DEF None, Sessions
    <2>2. \A e \in Dests : /\ dest'[e].name = dest[e].name
                          /\ dest'[e].session = dest[e].session /\ dest[e].session # None
      BY <1>5, <1>6, <2>1
    <2>3. dest'[d].name = n /\ dest'[d].session = session
      BY <1>6
    <2> QED  BY <1>1, <1>4, <2>2, <2>3 DEF NameOf, StatusOf
  <1>8. /\ rCreating' \in Seq(Dests') /\ IsInjective(rCreating')
        /\ ToSet(rCreating') = ToSet(rCreating) \union {d}
        /\ ToSet(rCreating) \subseteq Dests /\ ToSet(rItems) \subseteq Dests
        /\ rItems \in Seq(Dests')
    <2>1. rCreating \in Seq(Dests) /\ rItems \in Seq(Dests) /\ IsInjective(rCreating)
      BY <1>2 DEF RecorderTypes
    <2>2. rCreating \in Seq(Dests') /\ rItems \in Seq(Dests') /\ d \in Dests'
      BY <1>6, <2>1, SeqMonotonic
    <2>3. ToSet(rCreating) \subseteq Dests /\ ToSet(rItems) \subseteq Dests
      BY <2>1, SequenceShape
    <2>4. d \notin ToSet(rCreating)
      BY <1>6, <2>3
    <2> QED  BY <1>1, <2>1, <2>2, <2>3, <2>4, AppendShape
  <1>9. \A e \in ToSet(rCreating) : NameOf(e) # n
    BY <1>1, <1>2, <1>8 DEF BeingRecorded
  <1>10. \A k \in Names : InUse(k)' <=> InUse(k)
    <2>1. ASSUME NEW k \in Names  PROVE  InUse(k)' <=> InUse(k)
      <3>1. InUse(k)' <=> k \in todo' \/ \E e \in ToSet(rCreating') : NameOf(e)' = k
        BY DEF InUse, NameOf
      <3>2. InUse(k) <=> k \in todo \/ \E e \in ToSet(rCreating) : NameOf(e) = k
        BY DEF InUse
      <3>3. (\E e \in ToSet(rCreating') : NameOf(e)' = k) <=>
               (k = n \/ \E e \in ToSet(rCreating) : NameOf(e) = k)
        BY <1>7, <1>8 DEF NameOf
      <3> QED  BY <1>1, <3>1, <3>2, <3>3
    <2> QED  BY <2>1
  <1>11. InUse(n) /\ disk[n] = None /\ (\A i \in ToSet(eItems) : i.name # n)
         /\ n \notin transfer.names
    BY <1>1, <1>2 DEF Fresh, InUse
  <1>12. DatabaseTypes'
    <2>1. /\ link' \subseteq Dests' /\ halfRemoved' \subseteq Dests'
          /\ disk' \in [Names -> Dests' \union {None}]
          /\ creating' \in [Names -> Dests' \union {None}]
      BY <1>1, <1>2, <1>6 DEF DatabaseTypes
    <2> QED  BY <1>1, <1>2, <1>6, <2>1 DEF DatabaseTypes
  <1>13. SessionOrder'
    <2>1. ASSUME NEW a \in Dests', NEW b \in Dests', a < b
          PROVE  /\ dest'[a].session <= dest'[b].session
                 /\ NameOf(a)' = NameOf(b)' => dest'[a].session < dest'[b].session
      <3>1. a \in Dests
        BY <1>5, <1>6, <2>1
      <3>2. CASE b \in Dests
        BY <1>2, <1>7, <2>1, <3>1, <3>2 DEF SessionOrder
      <3>3. CASE b = d
        <4>1. dest[a].session <= session
          BY <1>2, <1>4, <1>5, <3>1, LastSession DEF SessionOrder, StatusOf
        <4>2. NameOf(a) = n => dest[a].session # session
          BY <1>1, <1>2, <3>1 DEF BeingRecorded
        <4>3. \A s \in Sessions : s \in Nat
          BY SessionsAssumption DEF Sessions
        <4> QED  BY <1>4, <1>5, <1>7, <3>1, <3>3, <4>1, <4>2, <4>3
      <3> QED  BY <1>6, <3>2, <3>3
    <2>2. ASSUME NEW e \in Dests'  PROVE  StatusOf(e)' # "none"
      BY <1>2, <1>6, <1>7, <2>2 DEF SessionOrder, StatusOf
    <2> QED  BY <1>1, <1>2, <2>1, <2>2 DEF SessionOrder
  <1>14. RecorderTypes'
    <2>1. ToSet(rItems') \intersect ToSet(rCreating') = {}
      BY <1>1, <1>2, <1>6, <1>8 DEF RecorderTypes
    <2> QED  BY <1>1, <1>2, <1>8, <2>1 DEF RecorderTypes
  <1>15. ExportTypes'
    <2>1. eItems' \in Seq(CopyType')
      <3>1. CopyType \subseteq CopyType'
        BY <1>6 DEF CopyType
      <3>2. eItems \in Seq(CopyType)
        BY <1>2 DEF ExportTypes
      <3> QED  BY <1>3, <3>1, <3>2, SeqMonotonic
    <2>2. eEvents' \in Seq(EventType)'
      BY <1>2, <1>3 DEF EventType, ExportTypes
    <2> QED  BY <1>2, <1>3, <2>1, <2>2 DEF ExportTypes
  <1>16. OneItem'
    <2>1. \A i \in ToSet(eItems) : /\ NameOf(i.dest)' = i.name
                                   /\ i.status = "completed" => StatusOf(i.dest)' = "completed"
      <3> SUFFICES ASSUME NEW i \in ToSet(eItems)
                   PROVE  /\ dest'[i.dest].name = i.name
                          /\ i.status = "completed" => status'[dest'[i.dest].session] = "completed"
        BY <1>3 DEF NameOf, StatusOf
      <3>1. i.dest \in Dests
        BY ItemShape
      <3> QED  BY <1>1, <1>2, <1>6, <3>1 DEF OneItem, NameOf, StatusOf
    <2> QED  BY <1>2, <1>3, <2>1 DEF OneItem, NameOf, StatusOf
  <1>17. BeingRecorded'
    <2>1. ASSUME NEW m \in todo', NEW e \in Dests', NameOf(e)' = m
          PROVE  dest'[e].session # session
      <3>1. m # n /\ m \in todo
        BY <1>1
      <3>2. e \in Dests /\ NameOf(e) = m
        BY <1>6, <1>7, <2>1, <3>1 DEF NameOf
      <3> QED  BY <1>2, <1>7, <3>1, <3>2 DEF BeingRecorded
    <2>2. ASSUME NEW g \in ToSet(rCreating')
          PROVE  /\ g \in link' /\ g \notin halfRemoved /\ dest'[g].session = session
                 /\ creating'[NameOf(g)'] = g
                 /\ \A e \in Dests' : NameOf(e)' = NameOf(g)' => e <= g
      <3>1. CASE g = d
        <4>1. d \in link' /\ d \notin halfRemoved
          BY <1>1, <1>2, <1>6 DEF DatabaseTypes
        <4>2. creating'[n] = d
          BY <1>1, <1>2 DEF DatabaseTypes
        <4>3. \A e \in Dests' : e <= d
          BY <1>5, <1>6
        <4> QED  BY <1>7, <3>1, <4>1, <4>2, <4>3 DEF NameOf
      <3>2. CASE g \in ToSet(rCreating)
        <4>1. g \in Dests /\ NameOf(g)' = NameOf(g) /\ NameOf(g) # n
          BY <1>7, <1>8, <1>9, <3>2 DEF NameOf
        <4>2. /\ g \in link /\ g \notin halfRemoved /\ dest[g].session = session
              /\ creating[NameOf(g)] = g
              /\ \A e \in Dests : NameOf(e) = NameOf(g) => e <= g
          BY <1>2, <3>2 DEF BeingRecorded
        <4>3. creating'[NameOf(g)] = g
          BY <1>1, <4>1, <4>2
        <4>4. ASSUME NEW e \in Dests', NameOf(e)' = NameOf(g)  PROVE  e <= g
          BY <1>6, <1>7, <4>1, <4>2, <4>4 DEF NameOf
        <4> QED  BY <1>1, <1>7, <4>1, <4>2, <4>3, <4>4
      <3> QED  BY <1>8, <3>1, <3>2
    <2>3. ASSUME NEW k \in Names, creating'[k] # None
          PROVE  creating'[k] \in ToSet(rCreating') /\ dest'[creating'[k]].name = k
      <3>1. CASE k = n
        <4>1. creating'[k] = d
          BY <1>1, <1>2, <3>1 DEF DatabaseTypes
        <4>2. dest'[creating'[k]].name = n
          BY <1>6, <4>1
        <4> QED  BY <1>8, <3>1, <4>1, <4>2 DEF NameOf
      <3>2. CASE k # n
        <4>1. creating'[k] = creating[k]
          BY <1>1, <1>2, <3>2 DEF DatabaseTypes
        <4>2. creating[k] \in ToSet(rCreating) /\ NameOf(creating[k]) = k
          BY <1>1, <1>2, <2>3, <4>1 DEF BeingRecorded
        <4>3. dest'[creating'[k]].name = k
          BY <1>6, <1>8, <4>1, <4>2 DEF NameOf
        <4> QED  BY <1>8, <4>1, <4>2, <4>3 DEF NameOf
      <3> QED  BY <3>1, <3>2
    <2>4. ASSUME NEW e \in Dests', dest'[e].session = session
          PROVE  e \in ToSet(rCreating')
      BY <1>1, <1>2, <1>6, <1>7, <1>8, <2>4 DEF BeingRecorded
    <2>5. \A m \in todo' : \A e \in Dests' : NameOf(e)' = m => dest'[e].session # session'
      BY <1>1, <2>1
    <2>6. \A g \in ToSet(rCreating') :
             /\ g \in link' /\ g \notin halfRemoved' /\ dest'[g].session = session'
             /\ creating'[NameOf(g)'] = g
             /\ \A e \in Dests' : NameOf(e)' = NameOf(g)' => e <= g
      BY <1>1, <2>2
    <2>7. \A k \in Names : creating'[k] # None =>
             creating'[k] \in ToSet(rCreating') /\ dest'[creating'[k]].name = k
      BY <2>3
    <2>8. \A e \in Dests' : dest'[e].session = session' => e \in ToSet(rCreating')
      BY <1>1, <2>4
    <2>9. rState' = "recording"
      BY <1>1
    <2> QED  BY <2>5, <2>6, <2>7, <2>8, <2>9 DEF BeingRecorded, IsRecording, NameOf
  <1>18. Fresh'
    BY <1>1, <1>2, <1>3, <1>10 DEF Fresh
  <1>19. Spared' = Spared /\ Unlinked' = Unlinked
    BY <1>1, <1>3 DEF Spared, Unlinked
  <1>20. OnDisk'
    <2>1. ASSUME NEW k \in Names, disk[k] # None
          PROVE  /\ NameOf(disk[k])' = k
                 /\ \A e \in Dests' : NameOf(e)' = k => e <= disk[k]
                 /\ disk[k] \in link' \union Unlinked
                 /\ disk[k] \in halfRemoved => disk[k] \in Spared
      <3>1. disk[k] \in Dests /\ k # n
        BY <1>2, <1>11, <2>1 DEF DatabaseTypes
      <3>2. dest'[disk[k]] = dest[disk[k]]
        BY <1>6, <3>1
      <3>3. NameOf(disk[k])' = k
        BY <1>1, <1>2, <2>1, <3>2 DEF OnDisk, NameOf
      <3>4. ASSUME NEW e \in Dests', NameOf(e)' = k  PROVE  e <= disk[k]
        BY <1>2, <1>6, <1>7, <2>1, <3>1, <3>4 DEF OnDisk, NameOf
      <3> QED  BY <1>1, <1>2, <2>1, <3>3, <3>4 DEF OnDisk
    <2>2. \A k \in Names : disk[k] # None => dest'[disk[k]].name = k
      BY <1>1, <2>1 DEF NameOf
    <2> QED  BY <1>1, <1>19, <2>1, <2>2 DEF OnDisk, NameOf
  <1>21. RemovedForReason'
    BY <1>1, <1>2, <1>3, <1>19 DEF RemovedForReason
  <1>22. Kept'
    <2>1. ASSUME NEW e \in Dests',
                 StatusOf(e)' = "completed" \/ (session # None /\ dest'[e].session = session)
          PROVE  e \in ToSet(rCreating') \/ disk[NameOf(e)'] = e \/ e \in Spared
      <3>1. CASE e = d
        BY <1>8, <3>1
      <3>2. CASE e \in Dests
        <4>1. /\ NameOf(e)' = NameOf(e) /\ StatusOf(e)' = StatusOf(e)
              /\ dest'[e].session = dest[e].session
          BY <1>7, <3>2
        <4> QED  BY <1>2, <1>8, <2>1, <3>2, <4>1 DEF Kept
      <3> QED  BY <1>6, <3>1, <3>2
    <2> QED  BY <1>1, <1>19, <2>1 DEF Kept
  <1>23. Left'
    <2>1. ASSUME NEW k \in Names, disk[k] # None
          PROVE  dest'[disk[k]] = dest[disk[k]]
      BY <1>2, <1>6, <2>1 DEF DatabaseTypes
    <2> QED  BY <1>1, <1>2, <1>19, <2>1 DEF Left, StatusOf
  <1>24. ExportHears' /\ Transferred'
    BY <1>1, <1>2, <1>3 DEF ExportHears, Transferred
  <1>25. ExportKnows'
    <2>1. \A k \in Names : disk[k] \in link' => disk[k] \in link
      BY <1>1, <1>2, <1>6 DEF DatabaseTypes
    <2>2. \A i \in ToSet(eItems) : i.name \in Names
      BY ItemShape
    <2> QED  BY <1>1, <1>2, <1>3, <1>19, <2>1, <2>2 DEF ExportKnows, HasItem
  <1>26. RecorderHears'
    <2>1. \A k : Held(k)' = Held(k) /\ Unheard(k)' = Unheard(k)
      <3>1. \A e \in ToSet(rItems) : dest'[e].name = dest[e].name
        BY <1>6, <1>8
      <3>2. \A k : ItemsOf(k)' = ItemsOf(k)
        BY <1>1, <3>1 DEF ItemsOf, NameOf
      <3> QED  BY <1>1, <3>2 DEF Held, Unheard, NamedIn
    <2> QED  BY <1>1, <1>2, <1>10, <2>1 DEF RecorderHears
  <1>27. RecorderKnows'
    <2>1. \A j \in DOMAIN rItems : dest'[rItems[j]].name = dest[rItems[j]].name
      <3>1. \A j \in DOMAIN rItems : rItems[j] \in Dests
        BY <1>2, SequenceShape DEF RecorderTypes
      <3> QED  BY <1>6, <3>1
    <2>2. \A j, k \in DOMAIN rItems :
             j < k /\ dest'[rItems[j]].name = dest'[rItems[k]].name => rItems[j] < rItems[k]
      BY <1>2, <2>1 DEF RecorderKnows, NameOf
    <2>3. link' \subseteq ToSet(rItems') \union ToSet(rCreating')
      BY <1>1, <1>2, <1>8 DEF RecorderKnows
    <2> QED  BY <1>1, <2>2, <2>3 DEF RecorderKnows, NameOf
  <1>28. Starting'
    BY <1>1 DEF Starting
  <1>50. Cleaning'
    <2>1. \A e \in Dests : StatusOf(e) = "aborted" => StatusOf(e)' = "aborted"
      BY <1>7
    <2>2. Cleaning /\ Dests \subseteq Dests'
      BY <1>6 DEF IInv
    <2> QED  BY <1>1, <2>1, <2>2, NotCleaning
  <1> QED  BY <1>50, <1>12, <1>13, <1>14, <1>15, <1>16, <1>17, <1>18, <1>20, <1>21, <1>22, <1>23,
              <1>24, <1>25, <1>26, <1>27, <1>28 DEF IInv

LEMMA FinaliseCreatingItemKeeps ==
    ASSUME IInv, finaliseCreatingItem
    PROVE  IInv'
  <1>0. PICK d, n : d = Head(rCreating) /\ n = NameOf(d)
    OBVIOUS
  <1>1. /\ rState = "finalising" /\ rCreating # <<>>
        /\ disk' = [disk EXCEPT ![n] = d]
        /\ creating' = [creating EXCEPT ![n] = None]
        /\ rItems' = Append(rItems, d)
        /\ FileMovedTo(n)
        /\ rCreating' = Tail(rCreating)
        /\ UNCHANGED <<dest, link, status, rState, session, todo, cleanup, eState, eItems, removing,
                       transfer, onTape, byHand, halfRemoved, halfMoved, leftBehind>>
    BY <1>0 DEF finaliseCreatingItem, database, history
  <1>2. /\ DatabaseTypes /\ SessionOrder /\ RecorderTypes /\ ExportTypes /\ OneItem /\ BeingRecorded
        /\ Fresh /\ OnDisk /\ RemovedForReason /\ Kept /\ Left /\ ExportHears /\ ExportKnows
        /\ Transferred /\ RecorderHears /\ RecorderKnows
    BY DEF IInv
  <1>3. /\ rEvents' = rEvents
        /\ eEvents' = IF eState = "down" THEN <<>> ELSE Append(eEvents, MovedTo(n))
    BY <1>1 DEF FileMovedTo
  <1>4. /\ d \in ToSet(rCreating) /\ d \in Dests
        /\ rCreating' \in Seq(Dests) /\ IsInjective(rCreating')
        /\ ToSet(rCreating) = ToSet(rCreating') \union {d}
        /\ d \notin ToSet(rCreating')
    <2>1. rCreating \in Seq(Dests) /\ IsInjective(rCreating)
      BY <1>2 DEF RecorderTypes
    <2> QED  BY <1>0, <1>1, <2>1, TailShape
  <1>5. /\ d \in link /\ d \notin halfRemoved /\ dest[d].session = session
        /\ creating[n] = d /\ (\A e \in Dests : NameOf(e) = n => e <= d)
        /\ StatusOf(d) = "started"
    BY <1>0, <1>2, <1>4, LastSession DEF BeingRecorded
  <1>6. n \in Names /\ d # None /\ d \in Nat
    BY <1>0, <1>2, <1>4, DestShape
  <1>7. /\ InUse(n) /\ disk[n] = None
        /\ \A e \in ToSet(eEvents) : e.name # n
        /\ \A i \in ToSet(eItems) : i.name # n
        /\ n \notin transfer.names
    BY <1>0, <1>2, <1>4, <1>6 DEF Fresh, InUse
  <1>8. \A e \in ToSet(rCreating') : NameOf(e) # n
    <2>1. ASSUME NEW e \in ToSet(rCreating'), NameOf(e) = n  PROVE FALSE
      <3>1. e \in ToSet(rCreating) /\ e # d
        BY <1>4
      <3>2. e \in Dests /\ creating[NameOf(e)] = e
        BY <1>2, <3>1 DEF BeingRecorded, DatabaseTypes
      <3> QED  BY <1>5, <2>1, <3>1, <3>2
    <2> QED  BY <2>1
  <1>9. todo = {} /\ todo' = {}
    BY <1>1, <1>2 DEF BeingRecorded
  <1>10. \A k : InUse(k)' => InUse(k) /\ k # n
    BY <1>1, <1>4, <1>8, <1>9 DEF InUse, NameOf
  <1>11. /\ disk'[n] = d /\ disk' \in [Names -> Dests \union {None}]
         /\ \A k \in Names : k # n => disk'[k] = disk[k]
         /\ creating'[n] = None /\ creating' \in [Names -> Dests \union {None}]
         /\ \A k \in Names : k # n => creating'[k] = creating[k]
    BY <1>1, <1>2, <1>4, <1>6 DEF DatabaseTypes
  <1>12. /\ rItems' \in Seq(Dests) /\ IsInjective(rItems')
         /\ ToSet(rItems') = ToSet(rItems) \union {d}
         /\ d \notin ToSet(rItems)
         /\ Len(rItems) \in Nat /\ DOMAIN rItems = 1 .. Len(rItems)
         /\ DOMAIN rItems' = 1 .. Len(rItems) + 1
         /\ \A k \in DOMAIN rItems : rItems'[k] = rItems[k] /\ rItems[k] \in ToSet(rItems)
         /\ rItems'[Len(rItems) + 1] = d
         /\ ToSet(rItems) \subseteq Dests
    <2>1. rItems \in Seq(Dests) /\ IsInjective(rItems) /\ d \notin ToSet(rItems)
      BY <1>2, <1>4 DEF RecorderTypes
    <2>2. /\ Append(rItems, d) \in Seq(Dests) /\ IsInjective(Append(rItems, d))
          /\ ToSet(Append(rItems, d)) = ToSet(rItems) \union {d}
          /\ DOMAIN Append(rItems, d) = 1 .. Len(rItems) + 1
          /\ \A k \in DOMAIN rItems : Append(rItems, d)[k] = rItems[k]
          /\ Append(rItems, d)[Len(rItems) + 1] = d
      BY <1>4, <2>1, AppendShape
    <2>3. Len(rItems) \in Nat /\ DOMAIN rItems = 1 .. Len(rItems)
          /\ (\A k \in DOMAIN rItems : rItems[k] \in ToSet(rItems)) /\ ToSet(rItems) \subseteq Dests
      BY <2>1, SequenceShape
    <2> QED  BY <1>1, <2>1, <2>2, <2>3
  <1>13. Spared' = Spared /\ Unlinked' = Unlinked
    BY <1>1 DEF Spared, Unlinked
  <1>14. /\ eEvents' \in Seq(EventType)
         /\ ToSet(eEvents') \subseteq ToSet(eEvents) \union {MovedTo(n)}
         /\ eState # "down" => ToSet(eEvents') = ToSet(eEvents) \union {MovedTo(n)}
         /\ eState = "down" => eEvents' = <<>> /\ eEvents = <<>>
         /\ \A j, k \in DOMAIN eEvents' :
               j < k /\ eEvents'[j].kind = "deletion" => eEvents'[k].name # eEvents'[j].name
    <2>1. eEvents \in Seq(EventType) /\ (eState = "down" => eEvents = <<>>)
      BY <1>2 DEF ExportTypes
    <2>2. CASE eState = "down"
      BY <1>3, <2>1, <2>2, EmptyShape
    <2>3. CASE eState # "down"
      <3>1. MovedTo(n) \in EventType /\ MovedTo(n).name = n /\ MovedTo(n).kind = "movedTo"
        BY <1>6 DEF MovedTo, EventType
      <3>2. /\ Append(eEvents, MovedTo(n)) \in Seq(EventType)
            /\ DOMAIN Append(eEvents, MovedTo(n)) = 1 .. Len(eEvents) + 1
            /\ \A k \in DOMAIN eEvents : Append(eEvents, MovedTo(n))[k] = eEvents[k]
            /\ Append(eEvents, MovedTo(n))[Len(eEvents) + 1] = MovedTo(n)
            /\ ToSet(Append(eEvents, MovedTo(n))) = ToSet(eEvents) \union {MovedTo(n)}
        BY <2>1, <3>1, AppendShape
      <3>3. Len(eEvents) \in Nat /\ DOMAIN eEvents = 1 .. Len(eEvents)
            /\ \A k \in DOMAIN eEvents : eEvents[k] \in ToSet(eEvents)
        BY <2>1, SequenceShape
      <3>4. eEvents' = Append(eEvents, MovedTo(n))
        BY <1>3, <2>3
      <3>5. ASSUME NEW j \in 1 .. Len(eEvents) + 1, NEW k \in 1 .. Len(eEvents) + 1, j < k,
                   eEvents'[j].kind = "deletion"
            PROVE  eEvents'[k].name # eEvents'[j].name
        <4>1. j \in DOMAIN eEvents /\ eEvents'[j] = eEvents[j]
          BY <3>2, <3>3, <3>4, <3>5
        <4>2. CASE k = Len(eEvents) + 1
          BY <1>7, <3>1, <3>2, <3>3, <3>4, <4>1, <4>2
        <4>3. CASE k # Len(eEvents) + 1
          <5>1. k \in DOMAIN eEvents /\ eEvents'[k] = eEvents[k]
            BY <3>2, <3>3, <3>4, <4>3
          <5> QED  BY <1>2, <3>5, <4>1, <5>1 DEF ExportHears
        <4> QED  BY <4>2, <4>3
      <3> QED  BY <2>3, <3>2, <3>4, <3>5
    <2> QED  BY <2>2, <2>3
  <1>15. DatabaseTypes' /\ SessionOrder'
    BY <1>1, <1>2, <1>11 DEF DatabaseTypes, SessionOrder, Dests, NameOf, StatusOf
  <1>16. RecorderTypes'
    <2>1. ToSet(rItems') \intersect ToSet(rCreating') = {}
      BY <1>2, <1>4, <1>12 DEF RecorderTypes
    <2> QED  BY <1>1, <1>2, <1>3, <1>4, <1>12, <2>1 DEF RecorderTypes, Dests
  <1>17. ExportTypes' /\ OneItem'
    <2>1. eItems' \in Seq(CopyType)' /\ eEvents' \in Seq(EventType)'
      BY <1>1, <1>2, <1>14 DEF CopyType, Dests, EventType, ExportTypes
    <2>2. eState' = "down" => eEvents' = <<>>
      BY <1>1, <1>14
    <2> QED  BY <1>1, <1>2, <2>1, <2>2 DEF ExportTypes, OneItem, NameOf, StatusOf
  <1>18. BeingRecorded'
    <2>1. ASSUME NEW g \in ToSet(rCreating')
          PROVE  /\ g \in link /\ g \notin halfRemoved /\ dest[g].session = session
                 /\ creating'[NameOf(g)] = g
                 /\ \A e \in Dests : NameOf(e) = NameOf(g) => e <= g
      <3>1. g \in ToSet(rCreating) /\ NameOf(g) # n
        BY <1>4, <1>8
      <3>2. /\ g \in link /\ g \notin halfRemoved /\ dest[g].session = session
            /\ creating[NameOf(g)] = g
            /\ \A e \in Dests : NameOf(e) = NameOf(g) => e <= g
        BY <1>2, <3>1 DEF BeingRecorded
      <3>3. creating'[NameOf(g)] = creating[NameOf(g)]
        BY <1>1, <3>1
      <3> QED  BY <3>2, <3>3
    <2>2. ASSUME NEW k \in Names, creating'[k] # None
          PROVE  creating'[k] \in ToSet(rCreating') /\ NameOf(creating'[k]) = k
      <3>1. k # n /\ creating'[k] = creating[k]
        BY <1>11, <2>2
      <3>2. creating[k] \in ToSet(rCreating) /\ NameOf(creating[k]) = k
        BY <1>1, <1>2, <2>2, <3>1 DEF BeingRecorded
      <3> QED  BY <1>0, <1>4, <3>1, <3>2
    <2> QED  BY <1>1, <1>9, <2>1, <2>2 DEF BeingRecorded, IsRecording, NameOf, Dests
  <1>19. Fresh'
    <2>1. ASSUME NEW k \in Names, InUse(k), k # n
          PROVE  /\ disk'[k] = None
                 /\ \A e \in ToSet(eEvents') : e.name # k
                 /\ \A i \in ToSet(eItems) : i.name # k
                 /\ k \notin transfer.names
      BY <1>2, <1>11, <1>14, <2>1 DEF Fresh, MovedTo
    <2> QED  BY <1>1, <1>10, <2>1 DEF Fresh
  <1>20. OnDisk'
    <2>1. ASSUME NEW k \in Names, disk'[k] # None
          PROVE  /\ NameOf(disk'[k]) = k
                 /\ \A e \in Dests : NameOf(e) = k => e <= disk'[k]
                 /\ disk'[k] \in link \union Unlinked
                 /\ disk'[k] \in halfRemoved => disk'[k] \in Spared
      <3>1. CASE k = n
        BY <1>0, <1>5, <1>11, <3>1
      <3>2. CASE k # n
        BY <1>2, <1>11, <2>1, <3>2 DEF OnDisk
      <3> QED  BY <3>1, <3>2
    <2> QED  BY <1>1, <1>13, <2>1 DEF OnDisk, NameOf, Dests
  <1>21. RemovedForReason'
    <2>1. \A i \in removing : i \in ToSet(eItems) /\ i.name \in Names /\ i.name # n
      BY <1>2, <1>7, ItemShape DEF ExportTypes
    <2> QED  BY <1>1, <1>2, <1>11, <1>13, <2>1 DEF RemovedForReason
  <1>22. Kept'
    <2>1. ASSUME NEW e \in Dests,
                 e \in ToSet(rCreating) \/ disk[NameOf(e)] = e \/ e \in Spared
          PROVE  e \in ToSet(rCreating') \/ disk'[NameOf(e)] = e \/ e \in Spared
      <3>1. CASE e = d
        BY <1>0, <1>11, <3>1
      <3>2. CASE e # d /\ disk[NameOf(e)] = e
        <4>1. e # None /\ NameOf(e) \in Names
          BY <1>2, DestShape
        <4> QED  BY <1>7, <1>11, <3>2, <4>1
      <3> QED  BY <1>4, <2>1, <3>1, <3>2
    <2> QED  BY <1>1, <1>2, <1>13, <2>1 DEF Kept, NameOf, StatusOf, Dests
  <1>23. Left'
    <2>1. ASSUME NEW k \in Names, disk'[k] # None
          PROVE  \/ StatusOf(disk'[k]) \in {"completed", "started"}
                 \/ disk'[k] \in halfMoved \union leftBehind \union Unlinked
                 \/ dest[disk'[k]].session = cleanup.session
      BY <1>2, <1>5, <1>11, <2>1 DEF Left
    <2> QED  BY <1>1, <1>13, <2>1 DEF Left, StatusOf
  <1>24. ExportHears'
    <2>1. ASSUME NEW i \in ToSet(eItems)
          PROVE  disk'[i.name] # None \/ Deletion(i.name) \in ToSet(eEvents')
      <3>1. i.name \in Names /\ i.name # n
        BY <1>7, ItemShape
      <3>2. disk[i.name] # None \/ Deletion(i.name) \in ToSet(eEvents)
        BY <1>2 DEF ExportHears
      <3>3. ToSet(eEvents) \subseteq ToSet(eEvents')
        BY <1>14
      <3> QED  BY <1>11, <3>1, <3>2, <3>3
    <2>2. ASSUME NEW k \in Names
          PROVE  /\ Deletion(k) \in ToSet(eEvents') => disk'[k] = None
                 /\ MovedTo(k) \in ToSet(eEvents') /\ disk'[k] = None =>
                       Deletion(k) \in ToSet(eEvents')
      <3>1. /\ Deletion(k) # MovedTo(n) /\ Deletion(k).name = k
            /\ MovedTo(k) = MovedTo(n) => k = n
        BY DEF Deletion, MovedTo
      <3>2. Deletion(k) \in ToSet(eEvents') => disk'[k] = None
        BY <1>2, <1>7, <1>11, <1>14, <3>1 DEF ExportHears
      <3>3. ASSUME MovedTo(k) \in ToSet(eEvents'), disk'[k] = None
            PROVE  Deletion(k) \in ToSet(eEvents')
        <4>1. k # n /\ disk[k] = None
          BY <1>6, <1>11, <3>3
        <4>2. MovedTo(k) \in ToSet(eEvents)
          BY <1>14, <3>1, <3>3, <4>1
        <4>3. ToSet(eEvents) \subseteq ToSet(eEvents')
          BY <1>14
        <4> QED  BY <1>2, <4>1, <4>2, <4>3 DEF ExportHears
      <3> QED  BY <3>2, <3>3
    <2> QED  BY <1>1, <1>14, <2>1, <2>2 DEF ExportHears, Deletion, MovedTo
  <1>25. ExportKnows'
    <2>1. ASSUME NEW i \in ToSet(eItems)
          PROVE  \/ disk'[i.name] \in {None, i.dest}
                 \/ disk'[i.name] \in Spared /\ disk'[i.name] \notin link
      <3>1. i.name \in Names /\ i.name # n
        BY <1>7, ItemShape
      <3> QED  BY <1>2, <1>11, <3>1 DEF ExportKnows
    <2>2. ASSUME eState = "ready", NEW k \in Names, disk'[k] \in link
          PROVE  HasItem(k) \/ MovedTo(k) \in ToSet(eEvents')
      <3>1. CASE k = n
        BY <1>14, <2>2, <3>1
      <3>2. CASE k # n
        <4>1. HasItem(k) \/ MovedTo(k) \in ToSet(eEvents)
          BY <1>2, <1>11, <2>2, <3>2 DEF ExportKnows
        <4> QED  BY <1>14, <2>2, <4>1
      <3> QED  BY <3>1, <3>2
    <2> QED  BY <1>1, <1>13, <2>1, <2>2 DEF ExportKnows, HasItem, MovedTo
  <1>26. Transferred'
    <2>1. \A k \in transfer.names : disk'[k] = disk[k]
      BY <1>1, <1>7
    <2> QED  BY <1>1, <1>2, <2>1 DEF Transferred
  <1>27. RecorderHears'
    <2>1. /\ \A k \in Names : k # n => Held(k)' = Held(k)
          /\ Held(n)' = Held(n) + 1
          /\ \A k : Unheard(k)' = Unheard(k)
      <3>1. \A k \in Names : k # n => ItemsOf(k)' = ItemsOf(k)
        BY <1>0, <1>1, <1>12 DEF ItemsOf, NameOf
      <3>2. ItemsOf(n)' = ItemsOf(n) \union {d} /\ d \notin ItemsOf(n)
        BY <1>0, <1>1, <1>12 DEF ItemsOf, NameOf
      <3>3. IsFiniteSet(ItemsOf(n))
        BY <1>6, CountShape
      <3>4. Cardinality(ItemsOf(n)') = Cardinality(ItemsOf(n)) + 1
        BY <3>2, <3>3, FS_AddElement
      <3> QED  BY <1>3, <3>1, <3>4 DEF Held, Unheard, NamedIn
    <2>2. ASSUME NEW k \in Names
          PROVE  /\ Held(k)' <= Unheard(k) + (IF disk'[k] = None THEN 0 ELSE 1)
                 /\ Held(k)' # 0 => Unheard(k) <= Held(k)'
                 /\ Held(k)' # 0 /\ disk'[k] # None => Unheard(k) < Held(k)'
                 /\ InUse(k)' => Unheard(k) <= Held(k)'
      <3>1. Held(k) \in Nat /\ Unheard(k) \in Nat
        BY CountShape
      <3>2. /\ Held(k) <= Unheard(k) + (IF disk[k] = None THEN 0 ELSE 1)
            /\ Held(k) # 0 => Unheard(k) <= Held(k)
            /\ Held(k) # 0 /\ disk[k] # None => Unheard(k) < Held(k)
            /\ InUse(k) => Unheard(k) <= Held(k)
        BY <1>2 DEF RecorderHears
      <3>3. CASE k # n
        BY <1>10, <1>11, <2>1, <3>2, <3>3
      <3>4. CASE k = n
        BY <1>6, <1>7, <1>10, <1>11, <2>1, <3>1, <3>2, <3>4
      <3> QED  BY <3>3, <3>4
    <2> QED  BY <2>1, <2>2 DEF RecorderHears
  <1>28. RecorderKnows'
    <2>1. ASSUME NEW j \in DOMAIN rItems', NEW k \in DOMAIN rItems', j < k,
                 NameOf(rItems'[j]) = NameOf(rItems'[k])
          PROVE  rItems'[j] < rItems'[k]
      <3>1. j \in DOMAIN rItems /\ rItems'[j] = rItems[j] /\ rItems[j] \in ToSet(rItems)
        BY <1>12, <2>1
      <3>2. CASE k \in DOMAIN rItems
        BY <1>2, <1>12, <2>1, <3>1, <3>2 DEF RecorderKnows
      <3>3. CASE k = Len(rItems) + 1
        <4>1. rItems'[k] = d /\ rItems[j] \in Dests /\ rItems[j] # d
          BY <1>12, <3>1, <3>3
        <4>2. rItems[j] <= d /\ rItems[j] \in Nat
          BY <1>0, <1>2, <1>5, <2>1, <3>1, <4>1, DestShape
        <4> QED  BY <1>6, <3>1, <4>1, <4>2
      <3> QED  BY <1>12, <3>2, <3>3
    <2>2. link \subseteq ToSet(rItems') \union ToSet(rCreating')
      BY <1>1, <1>2, <1>4, <1>12 DEF RecorderKnows
    <2> QED  BY <1>1, <2>1, <2>2 DEF RecorderKnows, NameOf
  <1>29. Starting'
    BY <1>1 DEF Starting
  <1>50. Cleaning'
    <2>1. \A e \in Dests : StatusOf(e) = "aborted" => StatusOf(e)' = "aborted"
      BY <1>1 DEF StatusOf
    <2>2. Cleaning /\ Dests' = Dests
      BY <1>1 DEF IInv, Dests
    <2> QED  BY <1>1, <2>1, <2>2, NotCleaning
  <1> QED  BY <1>50, <1>15, <1>16, <1>17, <1>18, <1>19, <1>20, <1>21, <1>22, <1>23, <1>24, <1>25,
              <1>26, <1>27, <1>28, <1>29 DEF IInv

LEMMA InitialiseRecorderKeeps ==
    ASSUME IInv, initialiseRecorder
    PROVE  IInv'
  <1>1. /\ rState = "watching" /\ rState' = "starting"
        /\ creating' = [n \in Names |-> None]
        /\ link' = Loaded /\ rItems' = SetToSeq(Loaded)
        /\ UNCHANGED <<dest, status, disk, rCreating, rEvents, session, todo, cleanup, export,
                       onTape, byHand, halfRemoved, halfMoved, leftBehind>>
    BY DEF initialiseRecorder, history
  <1>2. /\ DatabaseTypes /\ SessionOrder /\ RecorderTypes /\ ExportTypes /\ BeingRecorded
        /\ OnDisk /\ Kept /\ Left /\ ExportKnows /\ RecorderHears /\ RecorderKnows /\ Starting
    BY DEF IInv
  <1>3. UNCHANGED <<eState, eItems, eEvents, removing, transfer>>
    BY <1>1 DEF export
  <1>4. /\ Loaded \subseteq link /\ Loaded \subseteq Dests
        /\ \A d \in Loaded : disk[NameOf(d)] # None
        /\ \A d, e \in Loaded : NameOf(d) = NameOf(e) => d = e
        /\ \A n \in Names : disk[n] \in link => disk[n] \in Loaded
    BY <1>2, LoadedShape DEF DatabaseTypes
  <1>5. /\ rItems' \in Seq(Dests) /\ IsInjective(rItems') /\ ToSet(rItems') = Loaded
        /\ \A k \in DOMAIN rItems' : rItems'[k] \in Loaded
    <2>1. /\ SetToSeq(Loaded) \in Seq(Loaded) /\ IsInjective(SetToSeq(Loaded))
          /\ ToSet(SetToSeq(Loaded)) = Loaded
      BY LoadedShape, SetToSeqShape
    <2>2. /\ SetToSeq(Loaded) \in Seq(Dests)
          /\ \A k \in DOMAIN SetToSeq(Loaded) : SetToSeq(Loaded)[k] \in Loaded
      BY <1>4, <2>1, SeqMonotonic, SequenceShape
    <2> QED  BY <1>1, <2>1, <2>2
  <1>6. /\ ExportTypes' /\ OneItem' /\ RemovedForReason' /\ ExportHears' /\ ExportKnows'
        /\ Transferred' /\ Spared' = Spared /\ Unlinked' = Unlinked
    <2>1. \A d \in Dests : StatusOf(d)' = StatusOf(d)
      BY <1>1 DEF StatusOf
    <2>2. link' \subseteq link
      BY <1>1, <1>4
    <2> QED  BY <1>1, <2>1, <2>2, ExportUntouched
  <1>7. rCreating = <<>> /\ ToSet(rCreating) = {} /\ todo = {} /\ session = None
    BY <1>1, <1>2, EmptyShape DEF BeingRecorded, RecorderTypes, IsRecording
  <1>8. \A n : ~InUse(n)'
    BY <1>1, <1>7 DEF InUse
  <1>9. DatabaseTypes'
    <2>1. link' \subseteq Dests /\ creating' \in [Names -> Dests \union {None}]
      BY <1>1, <1>4
    <2> QED  BY <1>1, <1>2, <2>1 DEF DatabaseTypes, Dests
  <1>10. SessionOrder'
    BY <1>1, <1>2, <1>7 DEF SessionOrder, Dests, NameOf, StatusOf
  <1>11. RecorderTypes'
    <2>1. ToSet(rItems') \intersect ToSet(rCreating') = {}
      BY <1>1, <1>7
    <2> QED  BY <1>1, <1>2, <1>5, <1>7, <2>1 DEF RecorderTypes, Dests
  <1>12. BeingRecorded' /\ Fresh'
    BY <1>1, <1>7, <1>8 DEF BeingRecorded, IsRecording, Fresh
  <1>13. OnDisk'
    BY <1>1, <1>2, <1>4, <1>6 DEF OnDisk, NameOf, Dests
  <1>14. Kept' /\ Left'
    BY <1>1, <1>2, <1>6 DEF Kept, Left, NameOf, StatusOf, Dests
  <1>15. RecorderHears'
    <2>1. ASSUME NEW n \in Names
          PROVE  /\ Unheard(n)' = Unheard(n)
                 /\ Held(n)' = 0 \/ (Held(n)' = 1 /\ disk[n] # None /\ Unheard(n) = 0)
      <3>1. ItemsOf(n)' = {d \in Loaded : NameOf(d) = n}
        BY <1>1, <1>5 DEF ItemsOf, NameOf
      <3>2. Unheard(n)' = Unheard(n)
        BY <1>1 DEF Unheard, NamedIn
      <3>3. CASE {d \in Loaded : NameOf(d) = n} = {}
        BY <3>1, <3>2, <3>3, FS_EmptySet DEF Held
      <3>4. CASE {d \in Loaded : NameOf(d) = n} # {}
        <4>1. PICK d \in Loaded : NameOf(d) = n
          BY <3>4
        <4>2. ItemsOf(n)' = {d}
          BY <1>4, <3>1, <4>1
        <4>3. Held(n)' = 1
          BY <4>2, FS_Singleton DEF Held
        <4>4. disk[n] # None
          BY <1>4, <4>1
        <4>5. Unheard(n) = 0
          BY <1>1, <1>2, <4>4 DEF Starting
        <4> QED  BY <3>2, <4>3, <4>4, <4>5
      <3> QED  BY <3>3, <3>4
    <2>2. ASSUME NEW n \in Names
          PROVE  /\ Held(n)' <= Unheard(n)' + (IF disk[n] = None THEN 0 ELSE 1)
                 /\ Held(n)' # 0 => Unheard(n)' <= Held(n)'
                 /\ Held(n)' # 0 /\ disk[n] # None => Unheard(n)' < Held(n)'
      <3>1. Unheard(n) \in Nat
        BY CountShape
      <3> QED  BY <2>1, <3>1
    <2> QED  BY <1>1, <1>8, <2>2 DEF RecorderHears
  <1>16. RecorderKnows'
    <2>1. ASSUME NEW j \in DOMAIN rItems', NEW k \in DOMAIN rItems', j < k,
                 NameOf(rItems'[j]) = NameOf(rItems'[k])
          PROVE  FALSE
      <3>1. rItems'[j] = rItems'[k]
        BY <1>4, <1>5, <2>1
      <3>2. j = k
        BY <1>5, <3>1 DEF IsInjective
      <3>3. j \in Nat
        BY <1>5, SequenceShape
      <3> QED  BY <2>1, <3>2, <3>3
    <2> QED  BY <1>1, <1>5, <2>1 DEF RecorderKnows, NameOf
  <1>17. Starting'
    <2>1. \A n \in Names : disk[n] # None => Unheard(n)' = 0
      BY <1>1, <1>2 DEF Starting, Unheard, NamedIn
    <2>2. ASSUME NEW d \in Loaded, disk[NameOf(d)] = d, NEW i \in ToSet(eItems),
                 i.name = NameOf(d)
          PROVE  i.dest = d
      <3>1. d \in link /\ d # None
        BY <1>2, <1>4, DestShape
      <3> QED  BY <1>2, <2>2, <3>1 DEF ExportKnows
    <2>3. \A n \in Names : disk[n] # None => disk[n] \in Loaded \union Unlinked
      BY <1>2, <1>4 DEF OnDisk
    <2> QED  BY <1>1, <1>3, <1>4, <1>5, <1>6, <2>1, <2>2, <2>3 DEF Starting, NameOf
  <1>50. Cleaning'
    <2>1. \A d \in Dests : StatusOf(d) = "aborted" => StatusOf(d)' = "aborted"
      BY <1>1 DEF StatusOf
    <2>2. Cleaning /\ Dests' = Dests
      BY <1>1 DEF IInv, Dests
    <2> QED  BY <1>1, <2>1, <2>2, NotCleaning
  <1> QED  BY <1>50, <1>6, <1>9, <1>10, <1>11, <1>12, <1>13, <1>14, <1>15, <1>16, <1>17 DEF IInv

\* A session left started is aborted in the database; its items are still there.
LEMMA AbortStartedSessionKeeps ==
    ASSUME IInv, NEW s \in Sessions, abortStartedSession(s)
    PROVE  IInv'
  <1>1. /\ rState = "starting" /\ cleanup = [session |-> None, item |-> None]
        /\ status[s] = "started" /\ status' = [status EXCEPT ![s] = "aborted"]
        /\ cleanup' = [session |-> s, item |-> None]
        /\ UNCHANGED <<dest, link, disk, creating, rState, rItems, rCreating, rEvents, session,
                       todo, export, onTape, byHand, halfRemoved, halfMoved, leftBehind>>
    BY DEF abortStartedSession, Interrupted, NoCleanup, history
  <1>2. /\ DatabaseTypes /\ SessionOrder /\ RecorderTypes /\ Cleaning /\ BeingRecorded
        /\ Fresh /\ OnDisk /\ Kept /\ Left /\ RecorderHears /\ RecorderKnows /\ Starting
    BY DEF IInv
  <1>3. \A d \in Dests : /\ dest[d].session \in Sessions
                         /\ dest[d].session # None
                         /\ StatusOf(d)' = IF dest[d].session = s THEN "aborted"
                                           ELSE StatusOf(d)
                         /\ dest[d].session = s <=> StatusOf(d) = "started"
                         /\ dest[d].session <= s
    <2>1. \A t \in Sessions : t \in Nat \ {0}
      BY SessionsAssumption DEF Sessions
    <2>2. \A d \in Dests : dest[d].session \in Sessions /\ dest[d].session # None
      BY <1>2, <2>1, DestShape DEF None
    <2>3. \A t \in Sessions : status[t] # "none" => t <= s
      BY <1>1, LastSession
    <2>4. \A t \in Sessions : status[t] = "started" => t = s
      BY <1>1, <2>1, <2>3, LastSession
    <2> QED  BY <1>1, <1>2, <2>2, <2>3, <2>4 DEF DatabaseTypes, SessionOrder, StatusOf
  <1>4. /\ ExportTypes' /\ OneItem' /\ RemovedForReason' /\ ExportHears' /\ ExportKnows'
        /\ Transferred' /\ Spared' = Spared
    <2>1. \A d \in Dests : StatusOf(d) = "completed" => StatusOf(d)' = "completed"
      BY <1>3
    <2> QED  BY <1>1, <2>1, ExportUntouched
  <1>5. Unlinked' = Unlinked /\ UNCHANGED <<eItems, eEvents, transfer>>
    BY <1>1 DEF Unlinked, export
  <1>6. DatabaseTypes'
    BY <1>1, <1>2 DEF DatabaseTypes, Dests
  <1>7. session = None /\ rCreating = <<>> /\ todo = {} /\ \A n : ~InUse(n)'
    <2>1. session = None /\ rCreating = <<>> /\ todo = {}
      BY <1>1, <1>2 DEF BeingRecorded, RecorderTypes, IsRecording
    <2> QED  BY <1>1, <2>1, EmptyShape DEF InUse
  <1>8. SessionOrder'
    <2>1. \A d \in Dests : StatusOf(d)' # "none"
      BY <1>2, <1>3 DEF SessionOrder
    <2>2. \A t, u \in Sessions :
             t < u /\ status'[u] # "none" => status'[t] \in {"completed", "aborted"}
      BY <1>1, <1>2 DEF DatabaseTypes, SessionOrder
    <2> QED  BY <1>1, <1>2, <1>7, <2>1, <2>2 DEF SessionOrder, Dests, NameOf
  <1>9. RecorderTypes'
    BY <1>1, <1>2 DEF RecorderTypes, Dests
  <1>10. Cleaning'
    <2>1. s # None /\ status'[s] = "aborted"
      BY <1>1, <1>2, SessionsAssumption DEF DatabaseTypes, None, Sessions
    <2>2. leftBehind \subseteq {d \in Dests : StatusOf(d)' = "aborted"}
      BY <1>2, <1>3 DEF Cleaning
    <2> QED  BY <1>1, <1>3, <2>1, <2>2 DEF Cleaning, Dests
  <1>11. BeingRecorded' /\ Fresh'
    BY <1>1, <1>2, <1>7, EmptyShape DEF BeingRecorded, IsRecording, Fresh
  <1>12. OnDisk'
    BY <1>1, <1>2, <1>4, <1>5 DEF OnDisk, NameOf, Dests
  <1>13. Kept'
    <2>1. \A d \in Dests : StatusOf(d)' = "completed" => StatusOf(d) = "completed"
      BY <1>3
    <2> QED  BY <1>1, <1>2, <1>4, <1>7, <2>1 DEF Kept, NameOf, Dests
  <1>14. Left'
    <2>1. ASSUME NEW n \in Names, disk[n] # None
          PROVE  \/ StatusOf(disk[n])' \in {"completed", "started"}
                 \/ disk[n] \in halfMoved \union leftBehind \union Unlinked
                 \/ dest[disk[n]].session = s
      <3>1. disk[n] \in Dests
        BY <1>2, <2>1 DEF DatabaseTypes
      <3>2. \/ StatusOf(disk[n])' \in {"completed", "started"}
            \/ StatusOf(disk[n]) \notin {"completed", "started"}
            \/ dest[disk[n]].session = s
        <4>1. StatusOf(disk[n])' = status'[dest[disk[n]].session]
          BY <1>1 DEF StatusOf
        <4>2. \A d \in Dests : \/ dest[d].session = s
                               \/ status'[dest[d].session] = StatusOf(d)
          BY <1>1, <1>3 DEF StatusOf
        <4> QED  BY <3>1, <4>1, <4>2
      <3>3. dest[disk[n]].session # cleanup.session
        BY <1>1, <1>3, <3>1
      <3> QED  BY <1>2, <2>1, <3>2, <3>3 DEF Left
    <2> QED  BY <1>1, <1>5, <2>1 DEF Left, StatusOf
  <1>15. RecorderHears' /\ RecorderKnows'
    BY <1>1, <1>2, <1>7, CountsSame DEF RecorderHears, RecorderKnows, NameOf
  <1>16. Starting'
    <2>1. ASSUME NEW n \in Names, disk[n] # None, dest[disk[n]].session = s
          PROVE  disk[n] \in ToSet(rItems) \union Unlinked
      <3>1. disk[n] \in Dests
        BY <1>2, <2>1 DEF DatabaseTypes
      <3> QED  BY <1>1, <1>2, <1>3, <2>1, <3>1 DEF Starting
    <2>2. ASSUME NEW n \in Names, disk[n] # None, status'[dest[disk[n]].session] = "started"
          PROVE  disk[n] \in ToSet(rItems) \union Unlinked
      <3>1. disk[n] \in Dests
        BY <1>2, <2>2 DEF DatabaseTypes
      <3>2. StatusOf(disk[n]) = "started"
        BY <1>1, <1>2, <1>3, <2>2, <3>1 DEF StatusOf, DatabaseTypes
      <3> QED  BY <1>1, <1>2, <2>2, <3>2 DEF Starting
    <2> QED  BY <1>1, <1>2, <1>5, <2>1, <2>2, CountsSame DEF Starting, NameOf, StatusOf
  <1> QED  BY <1>4, <1>6, <1>8, <1>9, <1>10, <1>11, <1>12, <1>13, <1>14, <1>15, <1>16 DEF IInv

\* The link of an item goes first.
LEMMA UnlinkItemKeeps ==
    ASSUME IInv, NEW d \in Dests, unlinkItem(d)
    PROVE  IInv'
  <1>1. /\ cleanup.session # None /\ cleanup.item = None /\ d \in ItemsLeft
        /\ link' = link \ {d} /\ cleanup' = [cleanup EXCEPT !.item = d]
        /\ UNCHANGED <<dest, status, disk, creating, rState, rItems, rCreating, rEvents, session,
                       todo, export, onTape, byHand, halfRemoved, halfMoved, leftBehind>>
    BY DEF unlinkItem, history
  <1>2. /\ DatabaseTypes /\ SessionOrder /\ RecorderTypes /\ Cleaning /\ BeingRecorded
        /\ Fresh /\ OnDisk /\ Kept /\ Left /\ RecorderHears /\ RecorderKnows /\ Starting
    BY DEF IInv
  <1>3. rState = "starting" /\ cleanup' = [session |-> cleanup.session, item |-> d] /\ d # None
    BY <1>1, <1>2, DestShape DEF Cleaning
  <1>4. /\ ExportTypes' /\ OneItem' /\ RemovedForReason' /\ ExportHears' /\ ExportKnows'
        /\ Transferred' /\ Spared' = Spared
    <2>1. \A e \in Dests : StatusOf(e)' = StatusOf(e)
      BY <1>1 DEF StatusOf
    <2> QED  BY <1>1, <2>1, ExportUntouched
  <1>5. Unlinked' = Unlinked \union {d} /\ UNCHANGED <<eItems, eEvents, transfer>>
    BY <1>1, <1>3 DEF Unlinked, export
  <1>6. DatabaseTypes' /\ SessionOrder' /\ RecorderTypes'
    BY <1>1, <1>2 DEF DatabaseTypes, SessionOrder, RecorderTypes, Dests, NameOf, StatusOf
  <1>7. Cleaning'
    BY <1>1, <1>2, <1>3 DEF Cleaning, ItemsLeft, Dests, StatusOf
  <1>8. rCreating = <<>> /\ todo = {} /\ \A n : ~InUse(n)'
    <2>1. rCreating = <<>> /\ todo = {}
      BY <1>2, <1>3 DEF BeingRecorded, IsRecording
    <2> QED  BY <1>1, <2>1, EmptyShape DEF InUse
  <1>9. BeingRecorded' /\ Fresh'
    BY <1>1, <1>2, <1>3, <1>8, EmptyShape DEF BeingRecorded, IsRecording, Fresh
  <1>10. OnDisk'
    BY <1>1, <1>2, <1>4, <1>5 DEF OnDisk, NameOf, Dests
  <1>11. Kept' /\ Left'
    BY <1>1, <1>2, <1>3, <1>4, <1>5 DEF Kept, Left, NameOf, StatusOf, Dests
  <1>12. RecorderHears' /\ RecorderKnows'
    BY <1>1, <1>2, <1>8, CountsSame DEF RecorderHears, RecorderKnows, NameOf
  <1>13. Starting'
    BY <1>1, <1>2, <1>3, <1>5, CountsSame DEF Starting, NameOf, StatusOf
  <1> QED  BY <1>4, <1>6, <1>7, <1>9, <1>10, <1>11, <1>12, <1>13 DEF IInv

\* Then the file and the item.
LEMMA RemoveItemFileKeeps ==
    ASSUME IInv, removeItemFile
    PROVE  IInv'
  <1> DEFINE d == cleanup.item
             n == NameOf(d)
  <1>1. /\ d # None /\ RemoveFiles({n}) /\ rItems' = Forget(rItems, rItems, d)
        /\ cleanup' = [cleanup EXCEPT !.item = None]
        /\ UNCHANGED <<dest, link, status, creating, rState, rCreating, session, todo, eState,
                       eItems, removing, transfer, onTape, byHand, halfRemoved, halfMoved, leftBehind>>
    BY DEF removeItemFile, database, history
  <1>2. /\ DatabaseTypes /\ SessionOrder /\ RecorderTypes /\ Cleaning /\ ExportTypes /\ OneItem
        /\ BeingRecorded /\ Fresh /\ OnDisk /\ RemovedForReason /\ Kept /\ Left /\ ExportHears
        /\ ExportKnows /\ Transferred /\ RecorderHears /\ RecorderKnows /\ Starting
    BY DEF IInv
  <1>3. /\ d \in ToSet(rItems) /\ d \notin link /\ dest[d].session = cleanup.session
        /\ d \in Dests /\ n \in Names /\ cleanup.session # None /\ rState = "starting"
        /\ StatusOf(d) = "aborted"
        /\ \A e \in Dests : dest[e].session <= dest[d].session
    <2>1. d \in ToSet(rItems) /\ d \notin link /\ dest[d].session = cleanup.session
      BY <1>1, <1>2 DEF Cleaning, ItemsLeft
    <2>2. d \in Dests
      BY <1>2, <2>1, SequenceShape DEF RecorderTypes
    <2>3. n \in Names /\ cleanup.session # None
      BY <1>2, <2>1, <2>2, DestShape DEF None
    <2> QED  BY <1>2, <2>1, <2>2, <2>3 DEF Cleaning, StatusOf
  <1>4. /\ rItems' \in Seq(Dests) /\ IsInjective(rItems')
        /\ ToSet(rItems') = ToSet(rItems) \ {d}
        /\ \A j, k \in DOMAIN rItems' : j < k =>
              \E l, m \in DOMAIN rItems :
                 l < m /\ rItems[l] = rItems'[j] /\ rItems[m] = rItems'[k]
    <2>1. rItems \in Seq(Dests) /\ IsInjective(rItems)
      BY <1>2 DEF RecorderTypes
    <2>2. PICK k \in DOMAIN rItems : rItems[k] = d
      BY <1>3, <2>1, SequenceShape
    <2>3. PICK i \in DOMAIN rItems :
             FirstOf(rItems, d, i) /\ Forget(rItems, rItems, d) = RemoveAt(rItems, i)
      BY <2>1, <2>2, ForgetShape
    <2>4. rItems[i] = d
      BY <2>3 DEF FirstOf
    <2> QED  BY <1>1, <2>1, <2>3, <2>4, WithoutShape
  <1> DEFINE e == disk[n]
  <1>5. e \in {None, d}
    <2> SUFFICES ASSUME e # None, e # d  PROVE FALSE
      OBVIOUS
    <2>1. e \in Dests /\ NameOf(e) = n /\ d <= e
      BY <1>2, <1>3 DEF DatabaseTypes, OnDisk
    <2>2. dest[d].session < dest[e].session
      BY <1>2, <1>3, <2>1, DestShape DEF SessionOrder
    <2>3. dest[e].session <= dest[d].session
      BY <1>3, <2>1
    <2> QED  BY <1>2, <1>3, <2>1, <2>2, <2>3, DestShape
  <1>6. /\ session = None /\ rCreating = <<>> /\ ToSet(rCreating) = {} /\ todo = {}
        /\ \A k : ~InUse(k) /\ ~InUse(k)'
    <2>1. session = None /\ rCreating = <<>> /\ ToSet(rCreating) = {} /\ todo = {}
      BY <1>2, <1>3, EmptyShape DEF BeingRecorded, RecorderTypes, IsRecording
    <2> QED  BY <1>1, <2>1 DEF InUse
  <1>7. n \notin transfer.names
    <2> SUFFICES ASSUME n \in transfer.names  PROVE FALSE
      OBVIOUS
    <2>1. PICK i \in ToSet(eItems) : i.name = n /\ i.status = "completed"
      BY <1>2 DEF Transferred
    <2>2. disk[n] # None
      BY <1>2 DEF Transferred
    <2>3. disk[n] = d
      BY <1>5, <2>2
    <2>4. i.dest = d
      BY <1>2, <1>3, <2>1, <2>3 DEF Starting
    <2> QED  BY <1>2, <1>3, <2>1, <2>4 DEF OneItem
  <1>8. IsFiniteSet({n}) /\ {n} \in SUBSET Names
    BY <1>3, FS_Singleton
  <1> HIDE DEF d, n, e
  <1>9. /\ disk' = [k \in Names |-> IF k \in {n} THEN None ELSE disk[k]]
        /\ rEvents' \in Seq([kind : {"deletion"}, name : Names])
        /\ \A k \in Names :
              Unheard(k)' = Unheard(k) + (IF k \in {n} /\ disk[k] # None THEN 1 ELSE 0)
        /\ eEvents' \in Seq(EventType)
        /\ eState = "down" => eEvents' = <<>>
        /\ eState # "down" => ToSet(eEvents') =
              ToSet(eEvents) \union {Deletion(k) : k \in {m \in {n} : disk[m] # None}}
        /\ \A j, k \in DOMAIN eEvents' :
              j < k /\ eEvents'[j].kind = "deletion" => eEvents'[k].name # eEvents'[j].name
    BY <1>1, <1>2, <1>3, <1>8, FilesRemoved
  <1>10. /\ disk'[n] = None
         /\ \A k \in Names : k # n => disk'[k] = disk[k]
         /\ disk' \in [Names -> Dests \union {None}]
         /\ \A k \in Names : disk'[k] # None => k # n /\ disk'[k] = disk[k] /\ disk[k] # d
    <2>1. /\ disk'[n] = None
          /\ \A k \in Names : k # n => disk'[k] = disk[k]
          /\ disk' \in [Names -> Dests \union {None}]
      BY <1>2, <1>3, <1>9 DEF DatabaseTypes
    <2>2. ASSUME NEW k \in Names, k # n, disk[k] # None  PROVE disk[k] # d
      BY <1>2, <2>2 DEF OnDisk, n
    <2> QED  BY <2>1, <2>2
  <1>11. /\ \A f \in ToSet(eEvents') : f \in ToSet(eEvents) \/ f = Deletion(n)
         /\ eState # "down" =>
               /\ ToSet(eEvents) \subseteq ToSet(eEvents')
               /\ disk[n] # None => Deletion(n) \in ToSet(eEvents')
    <2>1. CASE eState = "down"
      BY <1>9, <2>1, EmptyShape
    <2>2. CASE eState # "down"
      BY <1>9, <2>2
    <2> QED  BY <2>1, <2>2
  <1>12. /\ Spared' = Spared /\ Unlinked \ {d} \subseteq Unlinked'
         /\ cleanup'.session = cleanup.session /\ cleanup'.item = None
    BY <1>1, <1>2 DEF Spared, Unlinked, Cleaning, d
  <1>13. DatabaseTypes' /\ SessionOrder'
    BY <1>1, <1>2, <1>10 DEF DatabaseTypes, SessionOrder, Dests, NameOf, StatusOf
  <1>14. RecorderTypes'
    <2>1. ToSet(rItems') \intersect ToSet(rCreating') = {}
      BY <1>1, <1>6
    <2> QED  BY <1>1, <1>2, <1>4, <1>9, <2>1 DEF RecorderTypes, Dests
  <1>15. Cleaning'
    BY <1>1, <1>2, <1>12 DEF Cleaning, Dests, StatusOf
  <1>16. ExportTypes' /\ OneItem'
    <2>1. eItems' \in Seq(CopyType)' /\ eEvents' \in Seq(EventType)'
      BY <1>1, <1>2, <1>9 DEF CopyType, Dests, EventType, ExportTypes
    <2>2. ExportTypes'
      BY <1>1, <1>2, <1>9, <2>1 DEF ExportTypes
    <2>3. OneItem'
      BY <1>1, <1>2 DEF OneItem, NameOf, StatusOf
    <2> QED  BY <2>2, <2>3
  <1>17. BeingRecorded' /\ Fresh'
    <2>1. Fresh'
      BY <1>6 DEF Fresh
    <2>2. BeingRecorded'
      BY <1>1, <1>2, <1>3, <1>6 DEF BeingRecorded, IsRecording, NameOf, Dests
    <2> QED  BY <2>1, <2>2
  <1>18. OnDisk'
    <2>1. ASSUME NEW k \in Names, disk'[k] # None
          PROVE  /\ NameOf(disk'[k]) = k
                 /\ \A f \in Dests : NameOf(f) = k => f <= disk'[k]
                 /\ disk'[k] \in link \union Unlinked'
                 /\ disk'[k] \in halfRemoved => disk'[k] \in Spared
      BY <1>2, <1>10, <1>12, <2>1 DEF OnDisk
    <2> QED  BY <1>1, <1>12, <2>1 DEF OnDisk, NameOf, Dests
  <1>19. RemovedForReason'
    <2>1. \A i \in removing : i.name \in Names
      BY <1>2, ItemShape DEF ExportTypes
    <2>2. \A k \in Names : disk'[k] \in {disk[k], None}
      BY <1>10
    <2> QED  BY <1>1, <1>2, <1>12, <2>1, <2>2 DEF RemovedForReason
  <1>20. Kept'
    <2>1. ASSUME NEW f \in Dests, StatusOf(f) = "completed"
          PROVE  disk'[NameOf(f)] = f \/ f \in Spared
      <3>1. CASE disk[NameOf(f)] = f
        <4>1. NameOf(f) \in Names /\ f # None
          BY <1>2, DestShape
        <4>2. NameOf(f) # n
          BY <1>3, <1>5, <2>1, <3>1, <4>1 DEF e
        <4> QED  BY <1>10, <3>1, <4>1, <4>2
      <3> QED  BY <1>2, <1>6, <2>1, <3>1 DEF Kept
    <2> QED  BY <1>1, <1>6, <1>12, <2>1 DEF Kept, NameOf, StatusOf, Dests
  <1>21. Left'
    <2>1. ASSUME NEW k \in Names, disk'[k] # None
          PROVE  \/ StatusOf(disk'[k]) \in {"completed", "started"}
                 \/ disk'[k] \in halfMoved \union leftBehind \union Unlinked'
                 \/ dest[disk'[k]].session = cleanup.session
      BY <1>2, <1>10, <1>12, <2>1 DEF Left
    <2> QED  BY <1>1, <1>12, <2>1 DEF Left, StatusOf
  <1>22. ExportHears'
    <2>1. ASSUME NEW i \in ToSet(eItems)
          PROVE  disk'[i.name] # None \/ Deletion(i.name) \in ToSet(eEvents')
      <3>1. i.name \in Names /\ eState # "down"
        BY <1>2, ItemShape, EmptyShape DEF ExportTypes
      <3>2. CASE i.name # n
        BY <1>2, <1>10, <1>11, <3>1, <3>2 DEF ExportHears
      <3>3. CASE i.name = n
        BY <1>2, <1>11, <3>1, <3>3 DEF ExportHears
      <3> QED  BY <3>2, <3>3
    <2>2. ASSUME NEW k \in Names
          PROVE  /\ Deletion(k) \in ToSet(eEvents') => disk'[k] = None
                 /\ MovedTo(k) \in ToSet(eEvents') /\ disk'[k] = None =>
                       Deletion(k) \in ToSet(eEvents')
      <3>1. ASSUME Deletion(k) \in ToSet(eEvents')  PROVE disk'[k] = None
        <4>1. Deletion(k) \in ToSet(eEvents) \/ k = n
          BY <1>11, <3>1 DEF Deletion
        <4>2. Deletion(k) \in ToSet(eEvents) => disk[k] = None
          BY <1>2 DEF ExportHears
        <4> QED  BY <1>10, <4>1, <4>2
      <3>2. ASSUME MovedTo(k) \in ToSet(eEvents'), disk'[k] = None
            PROVE  Deletion(k) \in ToSet(eEvents')
        <4>1. MovedTo(k) \in ToSet(eEvents) /\ eState # "down"
          BY <1>9, <1>11, <3>2, EmptyShape DEF MovedTo, Deletion
        <4>2. CASE disk[k] = None
          BY <1>2, <1>11, <4>1, <4>2 DEF ExportHears
        <4>3. CASE disk[k] # None
          BY <1>10, <1>11, <3>2, <4>1, <4>3
        <4> QED  BY <4>2, <4>3
      <3> QED  BY <3>1, <3>2
    <2> QED  BY <1>1, <1>9, <2>1, <2>2 DEF ExportHears, Deletion, MovedTo
  <1>23. ExportKnows'
    <2>1. ASSUME NEW i \in ToSet(eItems)
          PROVE  \/ disk'[i.name] \in {None, i.dest}
                 \/ disk'[i.name] \in Spared /\ disk'[i.name] \notin link
      <3>1. i.name \in Names
        BY <1>2, ItemShape DEF ExportTypes
      <3> QED  BY <1>2, <1>10, <3>1 DEF ExportKnows
    <2>2. ASSUME eState = "ready", NEW k \in Names, disk'[k] \in link
          PROVE  HasItem(k) \/ MovedTo(k) \in ToSet(eEvents')
      <3>1. disk'[k] # None
        BY <1>2, <2>2, DestShape DEF DatabaseTypes
      <3>2. disk[k] \in link
        BY <1>10, <2>2, <3>1
      <3>3. HasItem(k) \/ MovedTo(k) \in ToSet(eEvents)
        BY <1>2, <2>2, <3>2 DEF ExportKnows
      <3> QED  BY <1>11, <2>2, <3>3
    <2> QED  BY <1>1, <1>12, <2>1, <2>2 DEF ExportKnows, HasItem, MovedTo
  <1>24. Transferred'
    <2>1. \A k \in transfer.names : disk'[k] = disk[k]
      BY <1>2, <1>7, <1>10 DEF ExportTypes, n
    <2> QED  BY <1>1, <1>2, <2>1 DEF Transferred
  <1>25. RecorderHears'
    <2>1. ASSUME NEW k \in Names
          PROVE  /\ Held(k)' <= Unheard(k)' + (IF disk'[k] = None THEN 0 ELSE 1)
                 /\ Held(k)' # 0 => Unheard(k)' <= Held(k)'
                 /\ Held(k)' # 0 /\ disk'[k] # None => Unheard(k)' < Held(k)'
      <3>1. Held(k) \in Nat /\ Unheard(k) \in Nat
        BY <1>2, CountShape
      <3>2. CASE k = n
        <4>1. ItemsOf(k)' = {}
          <5>1. \A f \in ToSet(rItems) : NameOf(f) = k => f = d
            BY <1>2, <1>3, <3>2 DEF Starting, n
          <5> QED  BY <1>1, <1>4, <5>1 DEF ItemsOf, NameOf
        <4>2. Held(k)' = 0
          BY <4>1, FS_EmptySet DEF Held
        <4>3. Unheard(k)' \in Nat /\ disk'[k] = None
          BY <1>9, <1>10, <3>1, <3>2
        <4> QED  BY <4>2, <4>3
      <3>3. CASE k # n
        <4>1. ItemsOf(k)' = ItemsOf(k)
          BY <1>1, <1>4, <3>3 DEF ItemsOf, NameOf, n
        <4>2. Held(k)' = Held(k) /\ Unheard(k)' = Unheard(k) /\ disk'[k] = disk[k]
          BY <1>9, <1>10, <3>1, <3>3, <4>1 DEF Held
        <4> QED  BY <1>2, <4>2 DEF RecorderHears
      <3> QED  BY <3>2, <3>3
    <2> QED  BY <1>6, <2>1 DEF RecorderHears
  <1>26. RecorderKnows'
    <2>1. ASSUME NEW j \in DOMAIN rItems', NEW k \in DOMAIN rItems', j < k,
                 NameOf(rItems'[j]) = NameOf(rItems'[k])
          PROVE  rItems'[j] < rItems'[k]
      <3>1. PICK l \in DOMAIN rItems, m \in DOMAIN rItems :
               l < m /\ rItems[l] = rItems'[j] /\ rItems[m] = rItems'[k]
        BY <1>4, <2>1
      <3> QED  BY <1>2, <2>1, <3>1 DEF RecorderKnows
    <2>2. link' \subseteq ToSet(rItems') \union ToSet(rCreating')
      BY <1>1, <1>2, <1>3, <1>4 DEF RecorderKnows
    <2> QED  BY <1>1, <1>3, <2>1, <2>2 DEF RecorderKnows, NameOf
  <1>27. Starting'
    <2>1. ASSUME NEW k \in Names, disk'[k] # None  PROVE Unheard(k)' = 0
      <3>1. k # n /\ disk[k] # None /\ Unheard(k) = 0
        BY <1>2, <1>3, <1>10, <2>1 DEF Starting
      <3> QED  BY <1>9, <3>1
    <2>2. ASSUME NEW f \in ToSet(rItems'), disk'[NameOf(f)] = f,
                 NEW i \in ToSet(eItems), i.name = NameOf(f)
          PROVE  i.dest = f
      <3>1. f \in ToSet(rItems) /\ f \in Dests
        BY <1>2, <1>4, <2>2, SequenceShape DEF RecorderTypes
      <3>2. NameOf(f) \in Names /\ f # None
        BY <1>2, <3>1, DestShape
      <3>3. disk[NameOf(f)] = f
        BY <1>10, <2>2, <3>2
      <3> QED  BY <1>2, <1>3, <2>2, <3>1, <3>3 DEF Starting
    <2>3. ASSUME NEW k \in Names, disk'[k] # None,
                 StatusOf(disk'[k]) = "started" \/ dest[disk'[k]].session = cleanup.session
          PROVE  disk'[k] \in ToSet(rItems') \union Unlinked'
      <3>1. k # n /\ disk'[k] = disk[k] /\ disk[k] # d
        BY <1>10, <2>3
      <3>2. disk[k] \in ToSet(rItems) \union Unlinked
        BY <1>2, <1>3, <2>3, <3>1 DEF Starting
      <3> QED  BY <1>4, <1>12, <3>1, <3>2
    <2>4. \A f \in ToSet(rItems') : f \in ToSet(rItems)
      BY <1>4
    <2> QED  BY <1>1, <1>2, <1>3, <1>12, <2>1, <2>2, <2>3, <2>4 DEF Starting, NameOf, StatusOf
  <1> QED  BY <1>13, <1>14, <1>15, <1>16, <1>17, <1>18, <1>19, <1>20, <1>21, <1>22, <1>23,
              <1>24, <1>25, <1>26, <1>27 DEF IInv

\* Nothing is left of the session in the cache but what is unlinked.
LEMMA SessionCleanedKeeps ==
    ASSUME IInv, SessionCleaned
    PROVE  IInv'
  <1>1. /\ cleanup.session # None /\ cleanup.item = None /\ ItemsLeft = {}
        /\ cleanup' = [session |-> None, item |-> None]
        /\ UNCHANGED <<dest, link, status, disk, creating, rState, rItems, rCreating, rEvents,
                       session, todo, export, onTape, byHand, halfRemoved, halfMoved, leftBehind>>
    BY DEF SessionCleaned, NoCleanup, database, history
  <1>2. /\ DatabaseTypes /\ SessionOrder /\ RecorderTypes /\ Cleaning /\ BeingRecorded
        /\ Fresh /\ OnDisk /\ Kept /\ Left /\ RecorderHears /\ RecorderKnows /\ Starting
    BY DEF IInv
  <1>3. /\ ExportTypes' /\ OneItem' /\ RemovedForReason' /\ ExportHears' /\ ExportKnows'
        /\ Transferred' /\ Spared' = Spared
    <2>1. \A d \in Dests : StatusOf(d)' = StatusOf(d)
      BY <1>1 DEF StatusOf
    <2> QED  BY <1>1, <2>1, ExportUntouched
  <1>4. Unlinked' = Unlinked /\ UNCHANGED <<eItems, eEvents, transfer>>
    BY <1>1 DEF Unlinked, export
  <1>5. ASSUME NEW n \in Names, disk[n] # None
        PROVE  /\ dest[disk[n]].session # None
               /\ dest[disk[n]].session = cleanup.session => disk[n] \in Unlinked
    <2>1. dest[disk[n]].session # None
      BY <1>2, <1>5, DestShape DEF DatabaseTypes, None
    <2>2. ASSUME dest[disk[n]].session = cleanup.session  PROVE disk[n] \in Unlinked
      <3>1. disk[n] \notin ToSet(rItems)
        BY <1>1, <2>2 DEF ItemsLeft
      <3> QED  BY <1>1, <1>2, <1>5, <2>2, <3>1 DEF Cleaning, Starting
    <2> QED  BY <2>1, <2>2
  <1>6. \A n : InUse(n)' = InUse(n)
    BY <1>1 DEF InUse, NameOf
  <1>7. DatabaseTypes' /\ SessionOrder' /\ RecorderTypes'
    BY <1>1, <1>2 DEF DatabaseTypes, SessionOrder, RecorderTypes, Dests, NameOf, StatusOf
  <1>8. Cleaning'
    BY <1>1, <1>2 DEF Cleaning, Dests, StatusOf
  <1>9. BeingRecorded' /\ Fresh'
    BY <1>1, <1>2, <1>4, <1>6 DEF BeingRecorded, IsRecording, Fresh, NameOf, Dests
  <1>10. OnDisk' /\ Kept'
    BY <1>1, <1>2, <1>3, <1>4 DEF OnDisk, Kept, NameOf, StatusOf, Dests
  <1>11. Left'
    BY <1>1, <1>2, <1>4, <1>5 DEF Left, StatusOf
  <1>12. RecorderHears' /\ RecorderKnows'
    BY <1>1, <1>2, <1>6, CountsSame DEF RecorderHears, RecorderKnows, NameOf
  <1>13. Starting'
    BY <1>1, <1>2, <1>4, <1>5, CountsSame DEF Starting, NameOf, StatusOf
  <1> QED  BY <1>3, <1>7, <1>8, <1>9, <1>10, <1>11, <1>12, <1>13 DEF IInv

\* No session was left started any more.
LEMMA RecorderStartedKeeps ==
    ASSUME IInv, RecorderStarted
    PROVE  IInv'
  <1>1. /\ rState = "starting" /\ rState' = "ready" /\ Interrupted = {}
        /\ cleanup = [session |-> None, item |-> None]
        /\ UNCHANGED <<dest, link, status, disk, creating, rItems, rCreating, rEvents,
                       session, todo, cleanup, export, onTape, byHand, halfRemoved, halfMoved, leftBehind>>
    BY DEF RecorderStarted, NoCleanup, database, history
  <1>2. /\ DatabaseTypes /\ SessionOrder /\ RecorderTypes /\ Cleaning /\ BeingRecorded
        /\ Fresh /\ OnDisk /\ Kept /\ Left /\ RecorderHears /\ RecorderKnows /\ Starting
    BY DEF IInv
  <1>3. /\ ExportTypes' /\ OneItem' /\ RemovedForReason' /\ ExportHears' /\ ExportKnows'
        /\ Transferred' /\ Spared' = Spared
    <2>1. \A d \in Dests : StatusOf(d)' = StatusOf(d)
      BY <1>1 DEF StatusOf
    <2> QED  BY <1>1, <2>1, ExportUntouched
  <1>4. Unlinked' = Unlinked /\ UNCHANGED <<eItems, eEvents, transfer>>
    BY <1>1 DEF Unlinked, export
  <1>5. \A n : InUse(n)' = InUse(n)
    BY <1>1 DEF InUse, NameOf
  <1>6. SessionOrder'
    <2>1. \A s \in Sessions : status[s] # "started"
      BY <1>1 DEF Interrupted
    <2> QED  BY <1>1, <1>2, <2>1 DEF SessionOrder, Dests, NameOf, StatusOf
  <1>7. DatabaseTypes' /\ RecorderTypes' /\ Cleaning'
    BY <1>1, <1>2 DEF DatabaseTypes, RecorderTypes, Cleaning, Dests, StatusOf
  <1>8. BeingRecorded' /\ Fresh'
    BY <1>1, <1>2, <1>4, <1>5 DEF BeingRecorded, IsRecording, Fresh, NameOf, Dests
  <1>9. OnDisk' /\ Kept' /\ Left'
    BY <1>1, <1>2, <1>3, <1>4 DEF OnDisk, Kept, Left, NameOf, StatusOf, Dests
  <1>10. RecorderHears' /\ RecorderKnows'
    BY <1>1, <1>2, <1>5, CountsSame DEF RecorderHears, RecorderKnows, NameOf
  <1>11. Starting'
    BY <1>1 DEF Starting
  <1> QED  BY <1>3, <1>6, <1>7, <1>8, <1>9, <1>10, <1>11 DEF IInv

\* The recorder forgets the oldest of its items of a name.
LEMMA RecorderForgets ==
    ASSUME IInv, NEW n \in Names,
           rItems' = Forget(rItems, [k \in DOMAIN rItems |-> NameOf(rItems[k])], n)
    PROVE  \/ ItemsOf(n) = {} /\ rItems' = rItems
           \/ \E g \in ItemsOf(n) :
                 /\ rItems' \in Seq(Dests) /\ IsInjective(rItems')
                 /\ ToSet(rItems') = ToSet(rItems) \ {g}
                 /\ \A h \in ItemsOf(n) : h # g => g < h
                 /\ \A j, k \in DOMAIN rItems' :
                       j < k /\ NameOf(rItems'[j]) = NameOf(rItems'[k]) => rItems'[j] < rItems'[k]
  <1> DEFINE names == [k \in DOMAIN rItems |-> NameOf(rItems[k])]
  <1>1. /\ rItems \in Seq(Dests) /\ IsInjective(rItems)
        /\ \A j, k \in DOMAIN rItems :
              j < k /\ NameOf(rItems[j]) = NameOf(rItems[k]) => rItems[j] < rItems[k]
    BY DEF IInv, RecorderTypes, RecorderKnows
  <1>2. /\ Len(rItems) \in Nat /\ DOMAIN rItems = 1 .. Len(rItems)
        /\ \A k \in DOMAIN rItems : rItems[k] \in ToSet(rItems)
        /\ \A i \in ToSet(rItems) : \E k \in DOMAIN rItems : i = rItems[k]
    BY <1>1, SequenceShape
  <1>3. DOMAIN names = DOMAIN rItems /\ Len(names) = Len(rItems)
    BY <1>2
  <1>4. \A k \in DOMAIN rItems : names[k] = NameOf(rItems[k])
    OBVIOUS
  <1> HIDE DEF names
  <1>5. rItems' = Forget(rItems, names, n)
    BY DEF names
  <1>6. \/ /\ \A k \in DOMAIN rItems : names[k] # n
           /\ Forget(rItems, names, n) = rItems
        \/ \E i \in DOMAIN rItems :
              FirstOf(names, n, i) /\ Forget(rItems, names, n) = RemoveAt(rItems, i)
    BY <1>1, <1>3, ForgetShape
  <1>7. CASE (\A k \in DOMAIN rItems : names[k] # n) /\ Forget(rItems, names, n) = rItems
    <2>1. \A i \in ToSet(rItems) : NameOf(i) # n
      BY <1>2, <1>4, <1>7
    <2> QED  BY <1>5, <1>7, <2>1 DEF ItemsOf
  <1>8. CASE \E i \in DOMAIN rItems :
                FirstOf(names, n, i) /\ Forget(rItems, names, n) = RemoveAt(rItems, i)
    <2>1. PICK i \in DOMAIN rItems :
             FirstOf(names, n, i) /\ Forget(rItems, names, n) = RemoveAt(rItems, i)
      BY <1>8
    <2>2. /\ RemoveAt(rItems, i) \in Seq(Dests) /\ IsInjective(RemoveAt(rItems, i))
          /\ ToSet(RemoveAt(rItems, i)) = ToSet(rItems) \ {rItems[i]}
          /\ \A j, k \in DOMAIN RemoveAt(rItems, i) : j < k =>
                \E l, m \in DOMAIN rItems :
                   /\ l < m
                   /\ rItems[l] = RemoveAt(rItems, i)[j] /\ rItems[m] = RemoveAt(rItems, i)[k]
      BY <1>1, WithoutShape
    <2>3. rItems' = RemoveAt(rItems, i)
      BY <1>5, <2>1
    <2>4. rItems[i] \in ItemsOf(n)
      BY <1>2, <1>4, <2>1 DEF FirstOf, ItemsOf
    <2>5. ASSUME NEW h \in ItemsOf(n), h # rItems[i]  PROVE  rItems[i] < h
      <3>1. PICK k \in DOMAIN rItems : h = rItems[k]
        BY <1>2 DEF ItemsOf
      <3>2. names[k] = n /\ k # i
        BY <1>4, <2>5, <3>1 DEF ItemsOf
      <3>3. ~(k < i)
        BY <1>2, <2>1, <3>1, <3>2 DEF FirstOf
      <3>4. i < k
        BY <1>2, <3>1, <3>2, <3>3
      <3>5. NameOf(rItems[i]) = NameOf(rItems[k])
        BY <1>4, <2>4, <3>1 DEF ItemsOf
      <3> QED  BY <1>1, <3>1, <3>4, <3>5
    <2>6. ASSUME NEW j \in DOMAIN rItems', NEW k \in DOMAIN rItems', j < k,
                 NameOf(rItems'[j]) = NameOf(rItems'[k])
          PROVE  rItems'[j] < rItems'[k]
      <3>1. PICK l, m \in DOMAIN rItems :
               l < m /\ rItems[l] = rItems'[j] /\ rItems[m] = rItems'[k]
        <4>1. /\ j \in DOMAIN RemoveAt(rItems, i) /\ k \in DOMAIN RemoveAt(rItems, i)
              /\ rItems'[j] = RemoveAt(rItems, i)[j] /\ rItems'[k] = RemoveAt(rItems, i)[k]
          BY <2>3
        <4>2. \E l, m \in DOMAIN rItems :
                 /\ l < m
                 /\ rItems[l] = RemoveAt(rItems, i)[j] /\ rItems[m] = RemoveAt(rItems, i)[k]
          BY <2>2, <2>6, <4>1, Zenon
        <4> QED  BY <4>1, <4>2, Zenon
      <3> QED  BY <1>1, <2>6, <3>1
    <2> QED  BY <2>2, <2>3, <2>4, <2>5, <2>6
  <1> QED  BY <1>6, <1>7, <1>8

LEMMA RecorderHearsDeletionKeeps ==
    ASSUME IInv, recorderHearsDeletion
    PROVE  IInv'
  <1>0. PICK n : n = Head(rEvents).name
    OBVIOUS
  <1>1. /\ rState \in {"starting", "ready", "recording", "finalising"} /\ rEvents # <<>>
        /\ cleanup.item = None
        /\ rItems' = Forget(rItems, [k \in DOMAIN rItems |-> NameOf(rItems[k])], n)
        /\ link' = link \ (ToSet(rItems) \ ToSet(rItems'))
        /\ rEvents' = Tail(rEvents)
        /\ UNCHANGED <<dest, status, disk, creating, rState, rCreating, session, todo, cleanup,
                       export, onTape, byHand, halfRemoved, halfMoved, leftBehind>>
    BY <1>0 DEF recorderHearsDeletion, history
  <1>2. /\ DatabaseTypes /\ SessionOrder /\ RecorderTypes /\ ExportTypes /\ BeingRecorded
        /\ Fresh /\ OnDisk /\ Kept /\ Left /\ RecorderHears /\ RecorderKnows /\ Cleaning /\ Starting
    BY DEF IInv
  <1>3. UNCHANGED <<eState, eItems, eEvents, removing, transfer>>
    BY <1>1 DEF export
  <1>4. /\ rEvents \in Seq([kind : {"deletion"}, name : Names])
        /\ rEvents' \in Seq([kind : {"deletion"}, name : Names]) /\ n \in Names
        /\ \A k : Unheard(k) = Unheard(k)' + (IF k = n THEN 1 ELSE 0)
    <2>1. rEvents \in Seq([kind : {"deletion"}, name : Names])
      BY <1>2 DEF RecorderTypes
    <2>2. /\ Tail(rEvents) \in Seq([kind : {"deletion"}, name : Names])
          /\ Head(rEvents) \in [kind : {"deletion"}, name : Names]
      BY <1>1, <2>1, TailShape
    <2>3. \A k : Cardinality(NamedIn(rEvents, k)) =
                    Cardinality(NamedIn(Tail(rEvents), k))
                      + (IF Head(rEvents).name = k THEN 1 ELSE 0)
      BY <1>1, <2>1, CountTail
    <2>4. \A k : Unheard(k)' = Cardinality(NamedIn(Tail(rEvents), k))
      BY <1>1 DEF Unheard, NamedIn
    <2> QED  BY <1>0, <1>1, <2>1, <2>2, <2>3, <2>4 DEF Unheard
  <1>5. /\ \A k \in Names : Held(k) \in Nat /\ Unheard(k) \in Nat /\ Unheard(k)' \in Nat
        /\ \A k \in Names : Held(k) = 0 <=> ItemsOf(k) = {}
        /\ \A k \in Names : IsFiniteSet(ItemsOf(k))
        /\ Unheard(n) >= 1
    <2>1. \A k : Unheard(k)' \in Nat
      BY <1>4, NamedInFinite DEF Unheard, NamedIn
    <2> QED  BY <1>4, <2>1, CountShape
  <1>6. /\ ToSet(rItems') \subseteq ToSet(rItems)
        /\ rItems' \in Seq(Dests) /\ IsInjective(rItems')
        /\ \A j, k \in DOMAIN rItems' :
              j < k /\ NameOf(rItems'[j]) = NameOf(rItems'[k]) => rItems'[j] < rItems'[k]
        /\ \A g \in ToSet(rItems) : g \notin ToSet(rItems') =>
              /\ NameOf(g) = n /\ \A h \in ItemsOf(n) : h # g => g < h
              /\ ToSet(rItems') = ToSet(rItems) \ {g}
        /\ ItemsOf(n) # {} => \E g \in ItemsOf(n) : ToSet(rItems') = ToSet(rItems) \ {g}
    <2>1. CASE ItemsOf(n) = {} /\ rItems' = rItems
      BY <1>2, <2>1 DEF RecorderTypes, RecorderKnows
    <2>2. CASE \E g \in ItemsOf(n) :
                 /\ rItems' \in Seq(Dests) /\ IsInjective(rItems')
                 /\ ToSet(rItems') = ToSet(rItems) \ {g}
                 /\ \A h \in ItemsOf(n) : h # g => g < h
                 /\ \A j, k \in DOMAIN rItems' :
                       j < k /\ NameOf(rItems'[j]) = NameOf(rItems'[k]) => rItems'[j] < rItems'[k]
      BY <2>2 DEF ItemsOf
    <2> QED  BY <1>1, <1>4, <2>1, <2>2, RecorderForgets
  <1>7. /\ link' \subseteq link
        /\ \A d \in link : d \in link' \/ (d \in ToSet(rItems) /\ d \notin ToSet(rItems'))
    BY <1>1
  <1>8. \A d \in Dests : StatusOf(d)' = StatusOf(d)
    BY <1>1 DEF StatusOf
  <1>9. /\ ExportTypes' /\ OneItem' /\ RemovedForReason' /\ ExportHears' /\ ExportKnows'
        /\ Transferred' /\ Spared' = Spared /\ Unlinked' = Unlinked
    BY <1>1, <1>7, <1>8, ExportUntouched
  <1>10. \A k : InUse(k)' = InUse(k)
    BY <1>1 DEF InUse, NameOf
  <1>11. DatabaseTypes' /\ SessionOrder'
    <2>1. link' \subseteq Dests
      BY <1>2, <1>7 DEF DatabaseTypes
    <2> QED  BY <1>1, <1>2, <2>1 DEF DatabaseTypes, SessionOrder, Dests, NameOf, StatusOf
  <1>12. RecorderTypes'
    <2>1. ToSet(rItems') \intersect ToSet(rCreating) = {}
      BY <1>2, <1>6 DEF RecorderTypes
    <2> QED  BY <1>1, <1>2, <1>4, <1>6, <2>1 DEF RecorderTypes, Dests
  <1>13. BeingRecorded'
    <2>1. \A d \in ToSet(rCreating) : d \in link'
      BY <1>2, <1>7 DEF BeingRecorded, RecorderTypes
    <2> QED  BY <1>1, <1>2, <2>1 DEF BeingRecorded, IsRecording, Dests, NameOf
  <1>14. Fresh'
    BY <1>1, <1>2, <1>3, <1>10 DEF Fresh
  <1>15. OnDisk'
    <2>1. ASSUME NEW k \in Names, disk[k] # None, disk[k] \in link
          PROVE  disk[k] \in link'
      <3> SUFFICES ASSUME disk[k] \in ToSet(rItems), disk[k] \notin ToSet(rItems')
                   PROVE  FALSE
        BY <1>7, <2>1
      <3>1. NameOf(disk[k]) = k /\ \A e \in Dests : NameOf(e) = k => e <= disk[k]
        BY <1>2, <2>1 DEF OnDisk
      <3>2. k = n /\ \A h \in ItemsOf(n) : h # disk[k] => disk[k] < h
        BY <1>6, <3>1
      <3>3. \A h \in ItemsOf(n) : h \in Dests /\ NameOf(h) = n /\ h \in Nat
        <4>1. ToSet(rItems) \subseteq Dests
          BY <1>2, SequenceShape DEF RecorderTypes
        <4> QED  BY <1>2, <4>1, DestShape DEF ItemsOf
      <3>4. disk[k] \in Nat
        BY <1>2, <2>1, DestShape DEF DatabaseTypes
      <3>5. \A h \in ItemsOf(n) : h = disk[k]
        BY <3>1, <3>2, <3>3, <3>4
      <3>6. disk[k] \in ItemsOf(n)
        BY <3>1, <3>2 DEF ItemsOf
      <3>7. ItemsOf(n) = {disk[k]}
        BY <3>5, <3>6
      <3>8. Held(n) = 1
        BY <3>7, FS_Singleton DEF Held
      <3> QED  BY <1>2, <1>4, <1>5, <2>1, <3>2, <3>8 DEF RecorderHears
    <2> QED  BY <1>1, <1>2, <1>9, <2>1 DEF OnDisk, NameOf, Dests
  <1>16. Kept' /\ Left'
    BY <1>1, <1>2, <1>9 DEF Kept, Left, NameOf, StatusOf, Dests
  <1>17. RecorderHears'
    <2>1. ASSUME NEW k \in Names
          PROVE  /\ Held(k)' <= Unheard(k)' + (IF disk[k] = None THEN 0 ELSE 1)
                 /\ Held(k)' # 0 => Unheard(k)' <= Held(k)'
                 /\ Held(k)' # 0 /\ disk[k] # None => Unheard(k)' < Held(k)'
                 /\ InUse(k) => Unheard(k)' <= Held(k)'
      <3>1. /\ Held(k) <= Unheard(k) + (IF disk[k] = None THEN 0 ELSE 1)
            /\ Held(k) # 0 => Unheard(k) <= Held(k)
            /\ Held(k) # 0 /\ disk[k] # None => Unheard(k) < Held(k)
            /\ InUse(k) => Unheard(k) <= Held(k)
        BY <1>2 DEF RecorderHears
      <3>2. CASE k # n
        <4>1. ItemsOf(k)' = ItemsOf(k)
          <5>1. \A g \in ToSet(rItems) : NameOf(g) = k => g \in ToSet(rItems')
            BY <1>6, <3>2
          <5> QED  BY <1>1, <1>6, <5>1 DEF ItemsOf, NameOf
        <4>2. Held(k)' = Held(k) /\ Unheard(k)' = Unheard(k)
          BY <1>4, <1>5, <3>2, <4>1 DEF Held
        <4> QED  BY <3>1, <4>2
      <3>3. CASE k = n /\ ItemsOf(n) = {}
        <4>1. ItemsOf(k)' = {}
          BY <1>1, <1>6, <3>3 DEF ItemsOf, NameOf
        <4>2. Held(k)' = 0 /\ Held(k) = 0
          BY <1>5, <3>3, <4>1, FS_EmptySet DEF Held
        <4> QED  BY <1>5, <3>1, <3>3, <4>2
      <3>4. CASE k = n /\ ItemsOf(n) # {}
        <4>1. PICK g \in ItemsOf(n) : ToSet(rItems') = ToSet(rItems) \ {g}
          BY <1>6, <3>4
        <4>2. ItemsOf(k)' = ItemsOf(k) \ {g}
          BY <1>1, <3>4, <4>1 DEF ItemsOf, NameOf
        <4>3. Cardinality(ItemsOf(k)') = Cardinality(ItemsOf(k)) - 1
          BY <1>5, <3>4, <4>1, <4>2, FS_RemoveElement
        <4>4. Held(k)' = Held(k) - 1 /\ Held(k) # 0 /\ Unheard(k)' = Unheard(k) - 1
          BY <1>4, <1>5, <3>4, <4>3 DEF Held
        <4> QED  BY <1>5, <3>1, <4>4
      <3> QED  BY <3>2, <3>3, <3>4
    <2> QED  BY <1>1, <1>10, <2>1 DEF RecorderHears
  <1>18. RecorderKnows'
    <2>1. link' \subseteq ToSet(rItems') \union ToSet(rCreating)
      BY <1>1, <1>2 DEF RecorderKnows
    <2>2. rState \notin {"down", "watching"}
      BY <1>1
    <2> QED  BY <1>1, <1>6, <2>1, <2>2 DEF RecorderKnows, NameOf
  <1>19. Starting'
    <2>1. \A k \in Names : disk[k] # None /\ Unheard(k) = 0 => Unheard(k)' = 0 /\ k # n
      BY <1>4, <1>5
    <2>2. ASSUME NEW k \in Names, k # n, disk[k] \in ToSet(rItems), disk[k] # None
          PROVE  disk[k] \in ToSet(rItems')
      BY <1>2, <1>6, <2>2 DEF OnDisk
    <2>3. ASSUME rState \in {"watching", "starting"}, NEW k \in Names, disk[k] # None
          PROVE  Unheard(k)' = 0 /\ k # n
      BY <1>2, <2>1, <2>3 DEF Starting
    <2>4. ASSUME rState = "starting", NEW k \in Names, disk[k] # None,
                 StatusOf(disk[k]) = "started" \/ dest[disk[k]].session = cleanup.session
          PROVE  disk[k] \in ToSet(rItems') \union Unlinked
      <3>1. disk[k] \in ToSet(rItems) \union Unlinked
        BY <1>2, <2>4 DEF Starting
      <3> QED  BY <2>2, <2>3, <2>4, <3>1
    <2>5. rState = "starting" =>
             /\ \A d, e \in ToSet(rItems') : NameOf(d) = NameOf(e) => d = e
             /\ \A d \in ToSet(rItems'), e \in link' : NameOf(d) = NameOf(e) => d = e
             /\ \A d \in ToSet(rItems') : disk[NameOf(d)] = d =>
                   \A i \in ToSet(eItems) : i.name = NameOf(d) => i.dest = d
      BY <1>2, <1>6, <1>7 DEF Starting
    <2> QED  BY <1>1, <1>3, <1>9, <2>3, <2>4, <2>5 DEF Starting, NameOf, StatusOf
  <1>20. Cleaning'
    BY <1>1, <1>2 DEF Cleaning, Dests, StatusOf
  <1> QED  BY <1>20, <1>9, <1>11, <1>12, <1>13, <1>14, <1>15, <1>16, <1>17, <1>18, <1>19 DEF IInv

-----------------------------------------------------------------------------
LEMMA InitHolds ==
    ASSUME Init
    PROVE  IInv
  <1>1. /\ dest = <<>> /\ link = {} /\ status = [s \in Sessions |-> "none"]
        /\ disk = [n \in Names |-> None] /\ creating = [n \in Names |-> None]
        /\ rState = "ready" /\ rItems = <<>> /\ rCreating = <<>> /\ rEvents = <<>>
        /\ session = None /\ todo = {} /\ cleanup = [session |-> None, item |-> None]
        /\ eState = "ready" /\ eItems = <<>> /\ eEvents = <<>> /\ removing = {}
        /\ transfer = [state |-> "none", names |-> {}]
        /\ onTape = {} /\ byHand = {} /\ halfRemoved = {} /\ halfMoved = {}
        /\ leftBehind = {}
    BY DEF Init, NoTransfer, NoCleanup
  <1>2. /\ ToSet(rItems) = {} /\ ToSet(rCreating) = {} /\ ToSet(rEvents) = {}
        /\ ToSet(eItems) = {} /\ ToSet(eEvents) = {} /\ DOMAIN dest = {}
        /\ DOMAIN rItems = {} /\ DOMAIN eItems = {} /\ DOMAIN eEvents = {}
        /\ IsInjective(rItems) /\ IsInjective(rCreating)
    BY <1>1, EmptyShape
  <1>3. DatabaseTypes /\ SessionOrder
    BY <1>1, <1>2 DEF DatabaseTypes, SessionOrder, Dests, StatusOf
  <1>4. RecorderTypes /\ Cleaning /\ ExportTypes /\ OneItem
    BY <1>1, <1>2 DEF RecorderTypes, Cleaning, ExportTypes, OneItem
  <1>5. BeingRecorded /\ Fresh /\ OnDisk /\ RemovedForReason
    BY <1>1, <1>2 DEF BeingRecorded, IsRecording, Fresh, InUse, OnDisk, RemovedForReason
  <1>6. Kept /\ Left
    BY <1>1, <1>2 DEF Kept, Left, Dests
  <1>7. ExportHears /\ ExportKnows /\ Transferred
    <2>1. \A n \in Names : disk[n] = None
      BY <1>1
    <2> QED  BY <1>1, <1>2, <2>1 DEF ExportHears, ExportKnows, Transferred
  <1>8. \A n : Held(n) = 0 /\ Unheard(n) = 0
    <2>1. \A n : ItemsOf(n) = {} /\ Unheard(n) = 0
      BY <1>1, <1>2, NoneNamedIn DEF ItemsOf, Unheard
    <2> QED  BY <2>1, FS_EmptySet DEF Held
  <1>9. RecorderHears /\ RecorderKnows /\ Starting
    BY <1>1, <1>2, <1>8 DEF RecorderHears, RecorderKnows, Starting
  <1> QED  BY <1>3, <1>4, <1>5, <1>6, <1>7, <1>9 DEF IInv

LEMMA StutterKeeps ==
    ASSUME IInv, UNCHANGED vars
    PROVE  IInv'
  <1>1. UNCHANGED <<dest, link, status, disk, creating, rState, rItems, rCreating, rEvents,
                    session, todo, cleanup, eState, eItems, eEvents, removing, transfer,
                    onTape, byHand, halfRemoved, halfMoved, leftBehind>>
    BY DEF vars, database, recorder, export, history
  <1>2. DatabaseTypes' /\ SessionOrder' /\ RecorderTypes' /\ Cleaning' /\ ExportTypes'
        /\ OneItem'
    BY <1>1 DEF IInv, DatabaseTypes, SessionOrder, RecorderTypes, Cleaning, ItemsLeft,
                ExportTypes, OneItem, NameOf, StatusOf, Dests, CopyType, EventType
  <1>3. BeingRecorded' /\ Fresh' /\ OnDisk' /\ RemovedForReason' /\ Kept' /\ Left'
    BY <1>1 DEF IInv, BeingRecorded, IsRecording, Fresh, InUse, OnDisk, RemovedForReason, Kept,
                Left, Spared, Unlinked, NameOf, StatusOf, Dests
  <1>4. ExportHears' /\ ExportKnows' /\ Transferred'
    BY <1>1 DEF IInv, ExportHears, ExportKnows, HasItem, Spared, Transferred
  <1>5. RecorderHears' /\ RecorderKnows' /\ Starting'
    BY <1>1, CountsSame DEF IInv, RecorderHears, RecorderKnows, Starting, InUse, Unlinked,
                NameOf, StatusOf
  <1> QED  BY <1>2, <1>3, <1>4, <1>5 DEF IInv

LEMMA NextKeeps ==
    ASSUME ~LateEvents, IInv, [Next]_vars
    PROVE  IInv'
  <1>1. CASE UNCHANGED vars
    BY <1>1, StutterKeeps
  <1>2. ASSUME NEW s \in Sessions, NEW items \in SUBSET Names, StartSession(s, items)
        PROVE  IInv'
    BY <1>2, StartSessionKeeps
  <1>3. ASSUME NEW n \in Names, registerCreatingItem(n)  PROVE IInv'
    BY <1>3, RegisterCreatingItemKeeps
  <1>4. CASE BeginComplete         BY <1>4, BeginCompleteKeeps
  <1>5. CASE finaliseCreatingItem  BY <1>5, FinaliseCreatingItemKeeps
  <1>6. CASE EndComplete           BY <1>6, EndCompleteKeeps
  <1>7. CASE AbortSession          BY <1>7, AbortSessionKeeps
  <1>8. CASE CompleteFails         BY <1>8, CompleteFailsKeeps
  <1>9. CASE RecorderCrash         BY <1>9, RecorderCrashKeeps
  <1>10. CASE watchRecorder        BY <1>10, WatchRecorderKeeps
  <1>11. CASE initialiseRecorder   BY <1>11, InitialiseRecorderKeeps
  <1>12. ASSUME NEW s \in Sessions, abortStartedSession(s)  PROVE IInv'
    BY <1>12, AbortStartedSessionKeeps
  <1>25. ASSUME NEW d \in Dests, unlinkItem(d)  PROVE IInv'
    BY <1>25, UnlinkItemKeeps
  <1>26. CASE removeItemFile       BY <1>26, RemoveItemFileKeeps
  <1>27. CASE SessionCleaned       BY <1>27, SessionCleanedKeeps
  <1>28. CASE RecorderStarted      BY <1>28, RecorderStartedKeeps
  <1>13. CASE recorderHearsDeletion  BY <1>13, RecorderHearsDeletionKeeps
  <1>14. CASE exportHearsDeletion  BY <1>14, ExportHearsDeletionKeeps
  <1>15. CASE exportHearsMovedTo   BY <1>15, ExportHearsMovedToKeeps
  <1>16. ASSUME NEW names \in SUBSET Names, SelectItems(names)  PROVE IInv'
    BY <1>16, SelectItemsKeeps
  <1>17. CASE StoreCompletes       BY <1>17, StoreCompletesKeeps
  <1>18. CASE StoreFails           BY <1>18, StoreFailsKeeps
  <1>19. ASSUME NEW n \in Names, removeStored(n) \/ removeForClient(n)  PROVE IInv'
    BY <1>19, RemoveStoredKeeps, RemoveForClientKeeps
  <1>20. CASE removeFile           BY <1>20, RemoveFileKeeps
  <1>21. CASE ExportCrash          BY <1>21, ExportCrashKeeps
  <1>22. CASE watchExport          BY <1>22, WatchExportKeeps
  <1>23. CASE initialiseExport     BY <1>23, InitialiseExportKeeps
  <1>24. ASSUME NEW n \in Names, RemovedOutside(n)  PROVE IInv'
    BY <1>24, RemovedOutsideKeeps
  <1> QED  BY <1>1, <1>2, <1>3, <1>4, <1>5, <1>6, <1>7, <1>8, <1>9, <1>10, <1>11, <1>12, <1>13,
              <1>14, <1>15, <1>16, <1>17, <1>18, <1>19, <1>20, <1>21, <1>22, <1>23, <1>24,
              <1>25, <1>26, <1>27, <1>28 DEF Next

LEMMA Inductive == ~LateEvents => (Spec => []IInv)
  <1> SUFFICES ASSUME ~LateEvents  PROVE Spec => []IInv
    OBVIOUS
  <1>1. Init => IInv
    BY InitHolds
  <1>2. IInv /\ [Next]_vars => IInv'
    BY NextKeeps
  <1> QED  BY <1>1, <1>2, PTL DEF Spec

\* What each process has listed stays in shape: no destination twice, and
\* nothing that the database does not know.
THEOREM CacheTypesHold == ~LateEvents => (Spec => []TypeOK)
  <1>1. ASSUME IInv  PROVE TypeOK
    <2>1. DatabaseTypes /\ RecorderTypes /\ Cleaning /\ ExportTypes /\ OneItem
      BY <1>1 DEF IInv
    <2>2. rEvents \in Seq(EventType)
      <3>1. [kind : {"deletion"}, name : Names] \subseteq EventType
        BY DEF EventType
      <3>2. rEvents \in Seq([kind : {"deletion"}, name : Names])
        BY <2>1 DEF RecorderTypes
      <3> QED  BY <3>1, <3>2, SeqMonotonic
    <2>3. IsInjective([k \in DOMAIN eItems |-> eItems[k].dest])
      <3>1. \A k \in DOMAIN eItems : eItems[k] \in ToSet(eItems)
        BY <2>1, SequenceShape DEF ExportTypes
      <3>2. \A k \in DOMAIN eItems : NameOf(eItems[k].dest) = eItems[k].name
        BY <2>1, <3>1 DEF OneItem
      <3>3. \A j, k \in DOMAIN eItems : eItems[j].dest = eItems[k].dest => j = k
        BY <2>1, <3>2 DEF OneItem
      <3> QED  BY <3>3 DEF IsInjective
    <2>4. Cardinality(removing) <= 1
      <3>1. CASE removing = {}
        BY <3>1, FS_EmptySet
      <3>2. CASE removing # {}
        <4>1. PICK i \in removing : TRUE
          BY <3>2
        <4>2. removing = {i}
          BY <2>1, <4>1 DEF OneItem
        <4>3. Cardinality(removing) = 1
          BY <4>2, FS_Singleton
        <4> QED  BY <4>3
      <3> QED  BY <3>1, <3>2
    <2> QED  BY <2>1, <2>2, <2>3, <2>4 DEF TypeOK, DatabaseTypes, RecorderTypes, Cleaning,
              ExportTypes
  <1> QED  BY <1>1, Inductive, PTL

\* The file of a completed session stays until it is on tape or an operator
\* removed it, whatever crashes and whatever the processes heard late.
THEOREM NothingRecordedIsLost == ~LateEvents => (Spec => []RemovedOnlyWhenOnTape)
  <1>1. ASSUME IInv  PROVE RemovedOnlyWhenOnTape
    <2>1. ASSUME NEW d \in Dests, StatusOf(d) = "completed"
          PROVE  disk[NameOf(d)] = d \/ d \in onTape \union byHand
      <3>1. d \notin ToSet(rCreating)
        BY <1>1, <2>1, LastSession
      <3>2. d \notin leftBehind
        BY <1>1, <2>1 DEF IInv, Cleaning
      <3> QED  BY <1>1, <2>1, <3>1, <3>2 DEF IInv, Kept, Spared
    <2> QED  BY <2>1 DEF RemovedOnlyWhenOnTape
  <1> QED  BY <1>1, Inductive, PTL

\* Between sessions the cache holds completed recordings only, but for what failures
\* and crashes have left: in the midst of a completion, a removal or a clean-up.
THEOREM CacheHoldsNoLeftovers == ~LateEvents => (Spec => []NoLeftovers)
  <1>1. ASSUME IInv  PROVE NoLeftovers
    <2> SUFFICES ASSUME rState = "ready"
                 PROVE  /\ \A n \in Names : creating[n] = None
                        /\ \A n \in Names : disk[n] # None =>
                              \/ StatusOf(disk[n]) = "completed"
                              \/ disk[n] \in halfMoved \union halfRemoved \union leftBehind
                              \/ \E i \in removing : i.dest = disk[n]
      BY DEF NoLeftovers, OnlyCompleted
    <2>1. rCreating = <<>> /\ ToSet(rCreating) = {}
      BY <1>1, EmptyShape DEF IInv, BeingRecorded, IsRecording
    <2>2. \A n \in Names : creating[n] = None
      BY <1>1, <2>1 DEF IInv, BeingRecorded
    <2>3. ASSUME NEW n \in Names, disk[n] # None  PROVE StatusOf(disk[n]) # "started"
      <3>1. disk[n] \in Dests
        BY <1>1, <2>3 DEF IInv, DatabaseTypes
      <3>2. dest[disk[n]].session \in Sessions
        BY <1>1, <3>1, LastSession
      <3> QED  BY <1>1, <3>2 DEF IInv, SessionOrder, StatusOf
    <2>4. cleanup.session = None /\ cleanup.item = None
      BY <1>1 DEF IInv, Cleaning
    <2>5. ASSUME NEW n \in Names, disk[n] # None  PROVE dest[disk[n]].session # None
      BY <1>1, <2>5, DestShape DEF IInv, DatabaseTypes, None
    <2> QED  BY <1>1, <2>2, <2>3, <2>4, <2>5 DEF IInv, Left, Unlinked
  <1> QED  BY <1>1, Inductive, PTL

\* When all has been heard the database, both processes and the disk agree.
THEOREM CacheAgrees == ~LateEvents => (Spec => []InStep)
  <1>1. ASSUME IInv  PROVE InStep
    <2> SUFFICES ASSUME rState = "ready", eState = "ready", rEvents = <<>>, eEvents = <<>>,
                        removing = {}
                 PROVE  LET Sound(ds) == {d \in ds : disk[NameOf(d)] \notin halfRemoved}
                        IN  /\ Sound(link) = Sound({disk[n] : n \in Names} \ {None})
                            /\ Sound(ToSet(rItems)) = Sound(link)
                            /\ Sound({i.dest : i \in ToSet(eItems)}) = Sound(link)
      BY DEF InStep
    <2> DEFINE Sound(ds) == {d \in ds : disk[NameOf(d)] \notin halfRemoved}
               Files == {disk[n] : n \in Names} \ {None}
               Copied == {i.dest : i \in ToSet(eItems)}
    <2>1. /\ DatabaseTypes /\ OneItem /\ OnDisk /\ ExportHears /\ ExportKnows /\ RecorderHears
          /\ RecorderKnows /\ RecorderTypes /\ cleanup.item = None
      BY <1>1 DEF IInv, Cleaning
    <2>2. ToSet(eEvents) = {} /\ ToSet(rEvents) = {} /\ ToSet(rCreating) = {}
      BY <1>1, EmptyShape DEF IInv, BeingRecorded, IsRecording
    <2>3. \A d \in Dests : NameOf(d) \in Names /\ d # None
      BY <2>1, DestShape
    <2>4. link \subseteq ToSet(rItems) /\ ToSet(rItems) \subseteq Dests /\ link \subseteq Dests
      BY <2>1, <2>2, SequenceShape DEF RecorderKnows, RecorderTypes, DatabaseTypes
    <2>5. ASSUME NEW n \in Names, disk[n] # None, disk[n] \notin halfRemoved
          PROVE  disk[n] \in link /\ NameOf(disk[n]) = n
      BY <2>1, <2>5 DEF OnDisk, Unlinked
    <2>6. ASSUME NEW d \in ToSet(rItems), disk[NameOf(d)] \notin halfRemoved
          PROVE  disk[NameOf(d)] = d /\ d \in link
      <3>1. PICK n \in Names : n = NameOf(d)
        BY <2>3, <2>4
      <3>2. Unheard(n) = 0 /\ Held(n) \in Nat
        BY <1>1, CountShape, NoneNamedIn DEF Unheard
      <3>3. d \in ItemsOf(n)
        BY <3>1 DEF ItemsOf
      <3>4. Held(n) # 0 /\ IsFiniteSet(ItemsOf(n))
        BY <1>1, <3>3, CountShape
      <3>5. disk[n] # None /\ Held(n) = 1
        <4>1. Held(n) <= Unheard(n) + (IF disk[n] = None THEN 0 ELSE 1)
          BY <2>1 DEF RecorderHears
        <4> QED  BY <3>2, <3>4, <4>1
      <3>6. disk[n] \in link /\ NameOf(disk[n]) = n
        BY <2>5, <2>6, <3>1, <3>5
      <3>7. disk[n] \in ItemsOf(n)
        BY <2>4, <3>6 DEF ItemsOf
      <3>8. PICK m : ItemsOf(n) = {m}
        BY <3>4, <3>5, FS_Singleton DEF Held
      <3>9. disk[n] = d
        BY <3>3, <3>7, <3>8
      <3> QED  BY <3>1, <3>6, <3>9
    <2>7. ASSUME NEW i \in ToSet(eItems), disk[NameOf(i.dest)] \notin halfRemoved
          PROVE  disk[NameOf(i.dest)] = i.dest /\ i.dest \in link
      <3>1. i.name \in Names /\ NameOf(i.dest) = i.name
        BY <1>1, <2>1, ItemShape DEF OneItem
      <3>2. disk[i.name] # None
        BY <2>1, <2>2 DEF ExportHears
      <3>3. disk[i.name] \in link
        BY <2>5, <2>7, <3>1, <3>2
      <3> QED  BY <2>1, <3>1, <3>2, <3>3 DEF ExportKnows
    <2>8. ASSUME NEW n \in Names, disk[n] \in link
          PROVE  \E i \in ToSet(eItems) : i.dest = disk[n]
      <3>1. disk[n] # None
        BY <2>3, <2>4, <2>8
      <3>2. PICK i \in ToSet(eItems) : i.name = n
        BY <2>1, <2>2, <2>8 DEF ExportKnows, HasItem
      <3> QED  BY <2>1, <2>8, <3>1, <3>2 DEF ExportKnows
    <2>9. \A d \in link : disk[NameOf(d)] \notin halfRemoved => disk[NameOf(d)] = d
      BY <2>4, <2>6
    <2>10. Sound(link) = Sound(Files)
      <3>1. \A d \in Sound(link) : d \in Sound(Files)
        BY <2>3, <2>4, <2>9
      <3>2. ASSUME NEW d \in Sound(Files)  PROVE d \in Sound(link)
        <4>1. PICK n \in Names : d = disk[n] /\ d # None
          OBVIOUS
        <4>2. NameOf(d) = n
          BY <2>1, <4>1 DEF OnDisk
        <4> QED  BY <2>5, <4>1, <4>2
      <3> QED  BY <3>1, <3>2
    <2>11. Sound(ToSet(rItems)) = Sound(link)
      BY <2>4, <2>6
    <2>12. Sound(Copied) = Sound(link)
      <3>1. ASSUME NEW d \in Sound(Copied)  PROVE d \in Sound(link)
        <4>1. PICK i \in ToSet(eItems) : d = i.dest
          OBVIOUS
        <4> QED  BY <2>7, <4>1
      <3>2. ASSUME NEW d \in Sound(link)  PROVE d \in Sound(Copied)
        <4>1. NameOf(d) \in Names /\ disk[NameOf(d)] = d /\ d \in link
          BY <2>3, <2>4, <2>9
        <4>2. \E i \in ToSet(eItems) : i.dest = d
          BY <2>8, <4>1
        <4> QED  BY <4>2
      <3> QED  BY <3>1, <3>2
    <2> QED  BY <2>10, <2>11, <2>12
  <1> QED  BY <1>1, Inductive, PTL
=============================================================================
