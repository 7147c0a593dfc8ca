----------------------- MODULE LatestConnectedProofs -----------------------
(***************************************************************************)
(* Machine-checked proofs about LatestConnected, for every finite sequence  *)
(* of devices and every limit.                                              *)
(***************************************************************************)
EXTENDS LatestConnected, FiniteSetTheorems, SequenceTheorems, TLAPS

\* No connection is later than now, and none was seen that is later than the
\* one that the router shows.
Ages ==
  \A m \in Macs :
    /\ since[m] # NoTime => since[m] <= clock
    /\ seen[m] # NoTime => seen[m] <= clock
    /\ since[m] # NoTime /\ seen[m] # NoTime => seen[m] <= since[m]

ListInv == NewestKept /\ Ages

-----------------------------------------------------------------------------
(***************************************************************************)
(* What the list is put together from.                                     *)
(***************************************************************************)

LEMMA OrderFacts ==
  /\ Len(Order) \in Nat /\ DOMAIN Order = 1 .. Len(Order)
  /\ \A i \in DOMAIN Order : Order[i] \in Macs
  /\ \A i, j \in DOMAIN Order : Order[i] = Order[j] => i = j
  /\ \A m \in Macs : \E i \in DOMAIN Order : Order[i] = m
  <1>1. Len(Order) \in Nat /\ DOMAIN Order = 1 .. Len(Order)
    BY LatestAssumption, LenProperties
  <1>2. /\ \A i \in DOMAIN Order : Order[i] \in Macs
        /\ \A m \in Macs : \E i \in DOMAIN Order : Order[i] = m
    BY DEF Macs, Range
  <1>3. \A i, j \in DOMAIN Order : Order[i] = Order[j] => i = j
    BY LatestAssumption DEF IsInjective
  <1> QED BY <1>1, <1>2, <1>3

LEMMA TimeFacts == Time \subseteq Nat /\ NoTime \notin Time
  BY LatestAssumption DEF Time

LEMMA ListFacts ==
  ASSUME ListInv
  PROVE  /\ latest \in Seq(Entry)
         /\ Len(latest) \in Nat /\ DOMAIN latest = 1 .. Len(latest)
         /\ Len(latest) <= Limit /\ Limit \in Nat
         /\ \A i \in DOMAIN latest :
              /\ latest[i] \in Entry
              /\ latest[i].mac \in Macs /\ latest[i].at \in Time
              /\ latest[i].at = seen[latest[i].mac]
         /\ \A i, j \in DOMAIN latest : latest[i].mac = latest[j].mac => i = j
         /\ since \in [Macs -> Time \cup {NoTime}]
         /\ seen \in [Macs -> Time \cup {NoTime}]
  <1>1. /\ latest \in Seq(Entry) /\ Len(latest) <= Limit
        /\ since \in [Macs -> Time \cup {NoTime}]
        /\ seen \in [Macs -> Time \cup {NoTime}]
        /\ \A i \in DOMAIN latest : latest[i].at = seen[latest[i].mac]
        /\ \A i, j \in DOMAIN latest : latest[i].mac = latest[j].mac => i = j
    BY DEF ListInv, NewestKept, TypeOK, EachOnce
  <1>2. Len(latest) \in Nat /\ DOMAIN latest = 1 .. Len(latest)
    BY <1>1, LenProperties
  <1>3. \A i \in DOMAIN latest : latest[i] \in Entry
    BY <1>1, <1>2, ElementOfSeq
  <1> QED BY <1>1, <1>2, <1>3, LatestAssumption DEF Entry

\* A candidate is a current client or an entry whose device is not connected.
LEMMA CandidateKinds ==
  ASSUME ListInv, NEW c \in Candidates
  PROVE  /\ EntryOf(c) \in Entry
         /\ EntryOf(c).mac \in Macs /\ EntryOf(c).at \in Time
         /\ \/ /\ c = <<0, c[2]>> /\ c[2] \in DOMAIN Order
               /\ EntryOf(c).mac = Order[c[2]]
               /\ EntryOf(c).at = since[Order[c[2]]]
               /\ since[EntryOf(c).mac] # NoTime
            \/ /\ c = <<1, c[2]>> /\ c[2] \in DOMAIN latest
               /\ EntryOf(c) = latest[c[2]]
               /\ since[EntryOf(c).mac] = NoTime
  <1>1. CASE c \in {0} \X Current
    <2>1. PICK i \in Current : c = <<0, i>>
      BY <1>1
    <2>2. i \in DOMAIN Order /\ Order[i] \in Macs /\ since[Order[i]] \in Time
      BY OrderFacts, ListFacts DEF Current
    <2>3. EntryOf(c) = [mac |-> Order[i], at |-> since[Order[i]]]
      BY <2>1 DEF EntryOf
    <2> QED BY <2>1, <2>2, <2>3, TimeFacts DEF Entry
  <1>2. CASE c \in {1} \X Missing
    <2>1. PICK i \in Missing : c = <<1, i>>
      BY <1>2
    <2>2. i \in DOMAIN latest /\ since[latest[i].mac] = NoTime
      BY DEF Missing
    <2>3. EntryOf(c) = latest[i]
      BY <2>1 DEF EntryOf
    <2> QED BY <2>1, <2>2, <2>3, ListFacts
  <1> QED BY <1>1, <1>2 DEF Candidates

LEMMA CandidateOf ==
  ASSUME ListInv
  PROVE  /\ \A m \in Macs : since[m] # NoTime =>
              \E c \in Candidates : EntryOf(c) = [mac |-> m, at |-> since[m]]
         /\ \A i \in DOMAIN latest : since[latest[i].mac] = NoTime =>
              \E c \in Candidates : EntryOf(c) = latest[i]
  <1>1. ASSUME NEW m \in Macs, since[m] # NoTime
        PROVE  \E c \in Candidates : EntryOf(c) = [mac |-> m, at |-> since[m]]
    <2>1. PICK i \in DOMAIN Order : Order[i] = m
      BY OrderFacts
    <2>2. <<0, i>> \in Candidates
      BY <1>1, <2>1 DEF Candidates, Current
    <2>3. EntryOf(<<0, i>>) = [mac |-> m, at |-> since[m]]
      BY <2>1 DEF EntryOf
    <2> QED BY <2>2, <2>3
  <1>2. ASSUME NEW i \in DOMAIN latest, since[latest[i].mac] = NoTime
        PROVE  \E c \in Candidates : EntryOf(c) = latest[i]
    <2>1. <<1, i>> \in Candidates
      BY <1>2 DEF Candidates, Missing
    <2>2. EntryOf(<<1, i>>) = latest[i]
      BY DEF EntryOf
    <2> QED BY <2>1, <2>2
  <1> QED BY <1>1, <1>2

LEMMA CandidatesFinite ==
  ASSUME ListInv
  PROVE  IsFiniteSet(Candidates) /\ Cardinality(Candidates) \in Nat
  <1>1. IsFiniteSet(1 .. Len(Order)) /\ IsFiniteSet(1 .. Len(latest))
    BY OrderFacts, ListFacts, FS_Interval
  <1>2. Current \subseteq 1 .. Len(Order) /\ Missing \subseteq 1 .. Len(latest)
    BY OrderFacts, ListFacts DEF Current, Missing
  <1>3. IsFiniteSet(Current) /\ IsFiniteSet(Missing)
    BY <1>1, <1>2, FS_Subset
  <1>4. IsFiniteSet({0}) /\ IsFiniteSet({1})
    BY FS_Singleton
  <1>5. IsFiniteSet({0} \X Current) /\ IsFiniteSet({1} \X Missing)
    BY <1>3, <1>4, FS_Product
  <1>6. IsFiniteSet(Candidates)
    BY <1>5, FS_Union DEF Candidates
  <1> QED BY <1>6, FS_CardinalityType

\* Candidates are of different devices.
LEMMA CandidatesDiffer ==
  ASSUME ListInv, NEW c \in Candidates, NEW d \in Candidates,
         EntryOf(c).mac = EntryOf(d).mac
  PROVE  c = d
  <1>1. CASE since[EntryOf(c).mac] # NoTime
    <2>1. /\ c = <<0, c[2]>> /\ c[2] \in DOMAIN Order /\ EntryOf(c).mac = Order[c[2]]
          /\ d = <<0, d[2]>> /\ d[2] \in DOMAIN Order /\ EntryOf(d).mac = Order[d[2]]
      BY <1>1, CandidateKinds
    <2>2. c[2] = d[2]
      <3>1. Order[c[2]] = Order[d[2]]
        BY <2>1
      <3>2. \A i, j \in DOMAIN Order : Order[i] = Order[j] => i = j
        BY OrderFacts
      <3> QED BY <2>1, <3>1, <3>2
    <2> QED BY <2>1, <2>2
  <1>2. CASE since[EntryOf(c).mac] = NoTime
    <2>1. /\ c = <<1, c[2]>> /\ c[2] \in DOMAIN latest /\ EntryOf(c) = latest[c[2]]
          /\ d = <<1, d[2]>> /\ d[2] \in DOMAIN latest /\ EntryOf(d) = latest[d[2]]
      BY <1>2, CandidateKinds
    <2>2. c[2] = d[2]
      BY <2>1, ListFacts
    <2> QED BY <2>1, <2>2
  <1> QED BY <1>1, <1>2

-----------------------------------------------------------------------------
(***************************************************************************)
(* Ranks.                                                                  *)
(***************************************************************************)

\* The order of the sort is total on candidates.
LEMMA BeforeTotal ==
  ASSUME ListInv, NEW c \in Candidates, NEW d \in Candidates
  PROVE  /\ ~Before(c, c)
         /\ ~(Before(c, d) /\ Before(d, c))
         /\ c # d => Before(c, d) \/ Before(d, c)
         /\ \A e \in Candidates : Before(c, d) /\ Before(d, e) => Before(c, e)
  <1>1. \A e \in Candidates :
          EntryOf(e).at \in Nat /\ e = <<e[1], e[2]>> /\ e[1] \in Nat /\ e[2] \in Nat
    BY CandidateKinds, TimeFacts, OrderFacts, ListFacts
  <1>2. \A e \in Candidates : \A f \in Candidates :
          e[1] = f[1] /\ e[2] = f[2] => e = f
    BY <1>1
  <1> HIDE DEF Candidates
  <1> QED BY <1>1, <1>2 DEF Before, Ahead

Below(c) == {d \in Candidates : Before(d, c)}

LEMMA RankFacts ==
  ASSUME ListInv, NEW c \in Candidates
  PROVE  /\ IsFiniteSet(Below(c)) /\ Cardinality(Below(c)) \in Nat
         /\ Rank(c) = Cardinality(Below(c)) + 1
         /\ Rank(c) \in 1 .. Cardinality(Candidates)
  <1>1. Below(c) \subseteq Candidates \ {c}
    BY BeforeTotal DEF Below
  <1>2. /\ IsFiniteSet(Candidates \ {c})
        /\ Cardinality(Candidates \ {c}) = Cardinality(Candidates) - 1
    BY CandidatesFinite, FS_RemoveElement
  <1>3. IsFiniteSet(Below(c)) /\ Cardinality(Below(c)) <= Cardinality(Candidates) - 1
    BY <1>1, <1>2, FS_Subset
  <1>4. Cardinality(Below(c)) \in Nat
    BY <1>3, FS_CardinalityType
  <1>5. Rank(c) = Cardinality(Below(c)) + 1
    BY DEF Rank, Below
  <1> QED BY <1>3, <1>4, <1>5, CandidatesFinite

LEMMA RankGrows ==
  ASSUME ListInv, NEW c \in Candidates, NEW d \in Candidates, Before(c, d)
  PROVE  Rank(c) < Rank(d)
  <1>1. Below(c) \subseteq Below(d) /\ c \in Below(d) /\ c \notin Below(c)
    BY BeforeTotal DEF Below
  <1>2. /\ Cardinality(Below(c)) <= Cardinality(Below(d))
        /\ Cardinality(Below(c)) # Cardinality(Below(d))
    BY <1>1, RankFacts, FS_Subset
  <1> QED BY <1>2, RankFacts

\* Ranks order the candidates as the sort does, and differ.
LEMMA RankOrder ==
  ASSUME ListInv, NEW c \in Candidates, NEW d \in Candidates
  PROVE  /\ Rank(c) < Rank(d) <=> Before(c, d)
         /\ Rank(c) = Rank(d) <=> c = d
  <1>1. Rank(c) \in Nat /\ Rank(d) \in Nat
    BY RankFacts
  <1> QED BY <1>1, RankGrows, BeforeTotal

\* Every place of the sorted list is taken.
LEMMA EveryRank ==
  ASSUME ListInv, NEW k \in 1 .. Cardinality(Candidates)
  PROVE  Ranked(k) \in Candidates /\ Rank(Ranked(k)) = k
  <1> DEFINE f == [c \in Candidates |-> Rank(c)]
             places == 1 .. Cardinality(Candidates)
  <1>1. f \in Injection(Candidates, places)
    <2>1. f \in [Candidates -> places]
      BY RankFacts
    <2>2. IsInjective(f)
      BY RankOrder DEF IsInjective
    <2> QED BY <2>1, <2>2 DEF Injection
  <1>2. IsFiniteSet(places) /\ Cardinality(places) = Cardinality(Candidates)
    BY CandidatesFinite, FS_Interval
  <1>3. f \in Surjection(Candidates, places)
    <2> HIDE DEF f, places
    <2> QED BY <1>1, <1>2, FS_Injection
  <1>4. PICK c \in Candidates : f[c] = k
    BY <1>3 DEF Surjection
  <1> QED BY <1>4 DEF Ranked

LEMMA RankLater ==
  ASSUME ListInv, NEW c \in Candidates, NEW d \in Candidates, Rank(c) <= Rank(d)
  PROVE  EntryOf(c).at <= EntryOf(d).at
  <1>1. Rank(c) \in Nat /\ Rank(d) \in Nat
    BY RankFacts
  <1>2. c = d \/ Before(c, d)
    BY <1>1, RankOrder
  <1>3. EntryOf(c).at \in Nat /\ EntryOf(d).at \in Nat
    BY CandidateKinds, TimeFacts
  <1> QED BY <1>2, <1>3 DEF Before

-----------------------------------------------------------------------------
(***************************************************************************)
(* The sorted and trimmed list.                                            *)
(***************************************************************************)

List == Trim(ByTime)

\* How many entries are trimmed.
Dropped == Cardinality(Candidates) - Len(List)

LEMMA TrimFacts ==
  ASSUME NEW s \in Seq(Entry)
  PROVE  /\ Trim(s) \in Seq(Entry)
         /\ Len(Trim(s)) = IF Len(s) <= Limit THEN Len(s) ELSE Limit
         /\ \A i \in 1 .. Len(Trim(s)) : Trim(s)[i] = s[i + (Len(s) - Len(Trim(s)))]
  <1>1. Len(s) \in Nat /\ Limit \in Nat
    BY LatestAssumption, LenProperties
  <1>2. CASE Len(s) <= Limit
    BY <1>1, <1>2, ElementOfSeq DEF Trim
  <1>3. CASE ~(Len(s) <= Limit)
    <2> DEFINE first == Len(s) - Limit + 1
    <2>1. first \in Int /\ first >= 1 /\ \A i \in first .. Len(s) : s[i] \in Entry
      BY <1>1, <1>3, ElementOfSeq
    <2>2. Trim(s) = SubSeq(s, first, Len(s))
      BY <1>3 DEF Trim
    <2> HIDE DEF first
    <2>3. /\ SubSeq(s, first, Len(s)) \in Seq(Entry)
          /\ Len(SubSeq(s, first, Len(s))) = IF first <= Len(s) THEN Len(s) - first + 1 ELSE 0
          /\ \A i \in 1 .. Len(s) - first + 1 :
               SubSeq(s, first, Len(s))[i] = s[first + i - 1]
      BY <1>1, <2>1, SubSeqProperties
    <2>4. Len(Trim(s)) = Limit
      BY <1>1, <1>3, <2>2, <2>3 DEF first
    <2>5. ASSUME NEW i \in 1 .. Limit PROVE Trim(s)[i] = s[i + (Len(s) - Limit)]
      <3>1. /\ i \in 1 .. Len(s) - first + 1
            /\ first + i - 1 = i + (Len(s) - Limit)
        BY <1>1, <1>3 DEF first
      <3> QED BY <2>2, <2>3, <3>1
    <2> QED BY <1>3, <2>2, <2>3, <2>4, <2>5
  <1> QED BY <1>2, <1>3

LEMMA ByTimeFacts ==
  ASSUME ListInv
  PROVE  /\ ByTime \in Seq(Entry) /\ Len(ByTime) = Cardinality(Candidates)
         /\ \A k \in 1 .. Cardinality(Candidates) : ByTime[k] = EntryOf(Ranked(k))
  <1>1. \A k \in 1 .. Cardinality(Candidates) : EntryOf(Ranked(k)) \in Entry
    BY EveryRank, CandidateKinds
  <1>2. /\ ByTime \in [1 .. Cardinality(Candidates) -> Entry]
        /\ \A k \in 1 .. Cardinality(Candidates) : ByTime[k] = EntryOf(Ranked(k))
    BY <1>1 DEF ByTime
  <1>3. Cardinality(Candidates) \in Nat
    BY CandidatesFinite
  <1> QED BY <1>2, <1>3, SeqDef, LenProperties

\* The entries of the list are those of the candidates of the highest ranks.
LEMMA ListPlaces ==
  ASSUME ListInv
  PROVE  /\ List \in Seq(Entry) /\ Len(List) \in Nat /\ Len(List) <= Limit
         /\ Dropped \in Nat /\ Cardinality(Candidates) = Len(List) + Dropped
         /\ Len(List) < Limit => Dropped = 0
         /\ \A i \in 1 .. Len(List) :
              /\ Ranked(i + Dropped) \in Candidates
              /\ Rank(Ranked(i + Dropped)) = i + Dropped
              /\ List[i] = EntryOf(Ranked(i + Dropped))
         /\ \A c \in Candidates : Rank(c) > Dropped =>
              \E i \in 1 .. Len(List) : List[i] = EntryOf(c)
  <1> DEFINE n == Cardinality(Candidates)
  <1>1. /\ List \in Seq(Entry) /\ Len(List) = IF n <= Limit THEN n ELSE Limit
        /\ \A i \in 1 .. Len(List) : List[i] = ByTime[i + Dropped]
    BY ByTimeFacts, TrimFacts DEF List, Dropped
  <1>2. n \in Nat /\ Limit \in Nat
    BY CandidatesFinite, LatestAssumption
  <1>3. Dropped = n - Len(List)
    BY DEF Dropped
  <1> HIDE DEF n
  <1>4. /\ Len(List) \in Nat /\ Len(List) <= Limit /\ Dropped \in Nat
        /\ n = Len(List) + Dropped /\ (Len(List) < Limit => Dropped = 0)
    BY <1>1, <1>2, <1>3
  <1>5. ASSUME NEW i \in 1 .. Len(List)
        PROVE  /\ Ranked(i + Dropped) \in Candidates
               /\ Rank(Ranked(i + Dropped)) = i + Dropped
               /\ List[i] = EntryOf(Ranked(i + Dropped))
    <2>1. i + Dropped \in 1 .. n
      BY <1>4
    <2> QED BY <1>1, <2>1, EveryRank, ByTimeFacts DEF n
  <1>6. ASSUME NEW c \in Candidates, Rank(c) > Dropped
        PROVE  \E i \in 1 .. Len(List) : List[i] = EntryOf(c)
    <2>1. Rank(c) \in 1 .. n
      BY RankFacts DEF n
    <2>2. Rank(c) - Dropped \in 1 .. Len(List) /\ (Rank(c) - Dropped) + Dropped = Rank(c)
      BY <1>4, <1>6, <2>1
    <2>3. Ranked(Rank(c)) = c
      BY <2>1, EveryRank, RankOrder DEF n
    <2> QED BY <1>5, <2>2, <2>3
  <1> QED BY <1>1, <1>4, <1>5, <1>6 DEF n

-----------------------------------------------------------------------------
(***************************************************************************)
(* What becomes of the entries that the list had.                          *)
(***************************************************************************)

\* The candidates of the devices on the list.
Again == {c \in Candidates : \E i \in DOMAIN latest : EntryOf(c).mac = latest[i].mac}

\* Every entry is kept, or followed by a later connection of its device.
LEMMA Follows ==
  ASSUME ListInv, NEW i \in DOMAIN latest
  PROVE  \E c \in Again : /\ EntryOf(c).mac = latest[i].mac
                          /\ latest[i].at <= EntryOf(c).at
  <1>1. /\ latest[i].mac \in Macs /\ latest[i].at \in Time
        /\ latest[i].at = seen[latest[i].mac]
    BY ListFacts
  <1>2. CASE since[latest[i].mac] # NoTime
    <2>1. PICK c \in Candidates :
            EntryOf(c) = [mac |-> latest[i].mac, at |-> since[latest[i].mac]]
      BY <1>1, <1>2, CandidateOf
    <2>2. latest[i].at <= since[latest[i].mac]
      BY <1>1, <1>2, TimeFacts DEF ListInv, Ages
    <2> QED BY <2>1, <2>2 DEF Again
  <1>3. CASE since[latest[i].mac] = NoTime
    <2>1. PICK c \in Candidates : EntryOf(c) = latest[i]
      BY <1>3, CandidateOf
    <2>2. latest[i].at <= latest[i].at
      <3>1. latest[i].at \in Nat
        BY <1>1, TimeFacts
      <3> QED BY <3>1
    <2>3. c \in Again
      BY <2>1 DEF Again
    <2> QED BY <2>1, <2>2, <2>3
  <1> QED BY <1>2, <1>3

LEMMA AgainFacts ==
  ASSUME ListInv
  PROVE  /\ IsFiniteSet(Again) /\ Len(latest) <= Cardinality(Again)
         /\ Cardinality(Again) <= Cardinality(Candidates)
         /\ Cardinality(Again) \in Nat
         /\ \A c \in Again : \E i \in DOMAIN latest : latest[i].at <= EntryOf(c).at
  <1>1. /\ IsFiniteSet(Again) /\ Cardinality(Again) <= Cardinality(Candidates)
        /\ Cardinality(Again) \in Nat
    BY CandidatesFinite, FS_Subset, FS_CardinalityType DEF Again
  <1>2. Len(latest) <= Cardinality(Again)
    <2> DEFINE f == [i \in 1 .. Len(latest) |->
                       CHOOSE c \in Again : EntryOf(c).mac = latest[i].mac]
    <2>1. \A i \in 1 .. Len(latest) : f[i] \in Again /\ EntryOf(f[i]).mac = latest[i].mac
      BY Follows, ListFacts
    <2>2. f \in [1 .. Len(latest) -> Again]
      BY <2>1
    <2>3. f \in Injection(1 .. Len(latest), Again)
      <3> HIDE DEF f
      <3>1. ASSUME NEW i \in 1 .. Len(latest), NEW j \in 1 .. Len(latest), f[i] = f[j]
            PROVE  i = j
        BY <2>1, <3>1, ListFacts
      <3> QED BY <2>2, <3>1 DEF Injection, IsInjective
    <2> HIDE DEF f
    <2>4. Cardinality(1 .. Len(latest)) = Len(latest)
      <3>1. 1 \in Int /\ Len(latest) \in Int /\ Len(latest) \in Nat
        BY ListFacts
      <3>2. Cardinality(1 .. Len(latest)) =
              IF 1 > Len(latest) THEN 0 ELSE Len(latest) - 1 + 1
        BY <3>1, FS_Interval
      <3> QED BY <3>1, <3>2
    <2> QED BY <1>1, <2>3, <2>4, FS_Injection
  <1>3. ASSUME NEW c \in Again PROVE \E i \in DOMAIN latest : latest[i].at <= EntryOf(c).at
    <2>1. PICK i \in DOMAIN latest : EntryOf(c).mac = latest[i].mac
      BY DEF Again
    <2>2. PICK d \in Again : EntryOf(d).mac = latest[i].mac /\ latest[i].at <= EntryOf(d).at
      BY Follows
    <2>3. c = d
      BY <2>1, <2>2, CandidatesDiffer DEF Again
    <2> QED BY <2>2, <2>3
  <1> QED BY <1>1, <1>2, <1>3

\* An entry of the new list is at least as late as the oldest one of a full old
\* list: not fewer than Limit candidates are.
LEMMA NoneOlder ==
  ASSUME ListInv, Len(latest) = Limit, NEW i \in 1 .. Len(List)
  PROVE  \E j \in DOMAIN latest : latest[j].at <= List[i].at
  <1> DEFINE c == Ranked(i + Dropped)
             n == Cardinality(Candidates)
  <1>1. c \in Candidates /\ Rank(c) = i + Dropped /\ List[i] = EntryOf(c)
    BY ListPlaces
  <1>2. /\ n \in Nat /\ Rank(c) \in 1 .. n /\ Limit \in Nat
        /\ Len(List) \in Nat /\ Dropped \in Nat /\ n = Len(List) + Dropped
        /\ Len(List) <= Limit /\ Limit <= Cardinality(Again) /\ Cardinality(Again) \in Nat
    BY <1>1, ListPlaces, RankFacts, AgainFacts, LatestAssumption, CandidatesFinite
  <1> HIDE DEF c, n
  <1>3. PICK d \in Again : Rank(d) <= Rank(c)
    <2>1. SUFFICES ASSUME \A d \in Again : ~(Rank(d) <= Rank(c)) PROVE FALSE
      OBVIOUS
    <2> DEFINE f == [d \in Again |-> Rank(d)]
               above == Rank(c) + 1 .. n
    <2>2. \A d \in Again : Rank(d) \in above
      BY <1>2, <2>1, RankFacts DEF Again, n
    <2>3. \A d, e \in Again : Rank(d) = Rank(e) => d = e
      BY RankOrder DEF Again
    <2>4. f \in Injection(Again, above)
      BY <2>2, <2>3 DEF Injection, IsInjective
    <2>5. /\ IsFiniteSet(above)
          /\ Cardinality(above) = IF Rank(c) + 1 > n THEN 0 ELSE n - (Rank(c) + 1) + 1
      <3>1. Rank(c) + 1 \in Int /\ n \in Int
        BY <1>2
      <3> QED BY <3>1, FS_Interval
    <2>6. Cardinality(Again) <= Cardinality(above)
      <3> HIDE DEF f, above
      <3> QED BY <2>4, <2>5, FS_Injection
    <2>7. Cardinality(above) < Limit
      BY <1>1, <1>2, <2>5
    <2> QED BY <1>2, <2>5, <2>6, <2>7
  <1>4. EntryOf(d).at <= EntryOf(c).at
    BY <1>1, <1>3, RankLater DEF Again
  <1>5. PICK j \in DOMAIN latest : latest[j].at <= EntryOf(d).at
    BY AgainFacts
  <1>6. latest[j].at \in Nat /\ EntryOf(d).at \in Nat /\ EntryOf(c).at \in Nat
    BY <1>1, ListFacts, CandidateKinds, TimeFacts DEF Again
  <1>7. latest[j].at <= List[i].at
    BY <1>1, <1>4, <1>5, <1>6
  <1> QED BY <1>7

-----------------------------------------------------------------------------
(***************************************************************************)
(* One update.                                                             *)
(***************************************************************************)

LEMMA UpdateLists ==
  ASSUME ListInv, UpdateLatest
  PROVE  /\ latest' = List
         /\ newest' = IF List = <<>> THEN NoTime ELSE List[Len(List)].at
         /\ seen' = [m \in Macs |-> IF since[m] # NoTime THEN since[m] ELSE seen[m]]
         /\ UNCHANGED <<clock, since>>
  <1>1. /\ IF List # <<>>
           THEN latest' = List /\ newest' = List[Len(List)].at
           ELSE UNCHANGED <<latest, newest>>
        /\ seen' = [m \in Macs |-> IF since[m] # NoTime THEN since[m] ELSE seen[m]]
        /\ UNCHANGED <<clock, since>>
    BY DEF UpdateLatest, List
  <1>2. ASSUME List = <<>> PROVE latest = <<>>
    <2>1. Len(List) = 0
      BY <1>2
    <2>2. Cardinality(Candidates) = 0 \/ Limit = 0
      BY <2>1, ListPlaces, CandidatesFinite, LatestAssumption
    <2>3. CASE Limit = 0
      BY <2>3, ListFacts, EmptySeq
    <2>4. CASE Cardinality(Candidates) = 0
      <3>1. Candidates = {}
        BY <2>4, CandidatesFinite, FS_EmptySet
      <3>2. DOMAIN latest = {}
        BY <3>1, Follows DEF Again
      <3> QED BY <3>2, ListFacts, EmptySeq
    <2> QED BY <2>2, <2>3, <2>4
  <1>3. newest = Newest
    BY DEF ListInv, NewestKept
  <1> QED BY <1>1, <1>2, <1>3 DEF Newest

\* The history and the ages after an update.
LEMMA UpdateSeen ==
  ASSUME ListInv, UpdateLatest
  PROVE  /\ \A c \in Candidates : seen'[EntryOf(c).mac] = EntryOf(c).at
         /\ seen' \in [Macs -> Time \cup {NoTime}]
         /\ Ages'
  <1>1. /\ seen' = [m \in Macs |-> IF since[m] # NoTime THEN since[m] ELSE seen[m]]
        /\ UNCHANGED <<clock, since>>
    BY UpdateLists
  <1>2. ASSUME NEW c \in Candidates PROVE seen'[EntryOf(c).mac] = EntryOf(c).at
    <2>1. CASE since[EntryOf(c).mac] # NoTime
      BY <1>1, <2>1, CandidateKinds
    <2>2. CASE since[EntryOf(c).mac] = NoTime
      <3>1. c[2] \in DOMAIN latest /\ EntryOf(c) = latest[c[2]]
        BY <2>2, CandidateKinds
      <3> QED BY <1>1, <2>2, <3>1, ListFacts
    <2> QED BY <2>1, <2>2
  <1>3. seen' \in [Macs -> Time \cup {NoTime}]
    BY <1>1, ListFacts
  <1>4. Ages'
    <2>1. ASSUME NEW m \in Macs
          PROVE  /\ since'[m] = since[m] /\ clock' = clock
                 /\ seen'[m] = IF since[m] # NoTime THEN since[m] ELSE seen[m]
                 /\ since[m] \in Nat \cup {NoTime}
      BY <1>1, ListFacts, TimeFacts
    <2> QED BY <2>1 DEF ListInv, Ages
  <1> QED BY <1>2, <1>3, <1>4

\* Two entries of the list are of two devices, the older one first.
LEMMA ListOrder ==
  ASSUME ListInv, NEW i \in 1 .. Len(List), NEW j \in 1 .. Len(List)
  PROVE  /\ List[i].mac = List[j].mac => i = j
         /\ i < j => List[i].at <= List[j].at
  <1> DEFINE c == Ranked(i + Dropped)
             d == Ranked(j + Dropped)
  <1>1. /\ c \in Candidates /\ Rank(c) = i + Dropped /\ List[i] = EntryOf(c)
        /\ d \in Candidates /\ Rank(d) = j + Dropped /\ List[j] = EntryOf(d)
        /\ Dropped \in Nat
    BY ListPlaces
  <1> HIDE DEF c, d
  <1>2. ASSUME List[i].mac = List[j].mac PROVE i = j
    <2>1. Rank(c) = Rank(d)
      BY <1>1, <1>2, CandidatesDiffer
    <2> QED BY <1>1, <2>1
  <1>3. ASSUME i < j PROVE List[i].at <= List[j].at
    <2>1. Rank(c) <= Rank(d)
      BY <1>1, <1>3
    <2> QED BY <1>1, <2>1, RankLater
  <1> QED BY <1>2, <1>3

\* The devices that a list without trimming has, and that any list has.
LEMMA ListMacs ==
  ASSUME ListInv
  PROVE  /\ \A i \in 1 .. Len(List) :
              \E c \in Candidates : Rank(c) > Dropped /\ List[i] = EntryOf(c)
         /\ Dropped = 0 => \A c \in Candidates :
              \E i \in 1 .. Len(List) : List[i] = EntryOf(c)
  <1>1. ASSUME NEW i \in 1 .. Len(List)
        PROVE  \E c \in Candidates : Rank(c) > Dropped /\ List[i] = EntryOf(c)
    <2>1. /\ Ranked(i + Dropped) \in Candidates
          /\ Rank(Ranked(i + Dropped)) = i + Dropped
          /\ List[i] = EntryOf(Ranked(i + Dropped))
          /\ Dropped \in Nat /\ Len(List) \in Nat
      BY ListPlaces
    <2>2. i + Dropped > Dropped
      BY <2>1
    <2> QED BY <2>1, <2>2
  <1>2. ASSUME Dropped = 0, NEW c \in Candidates
        PROVE  \E i \in 1 .. Len(List) : List[i] = EntryOf(c)
    <2>1. Rank(c) > Dropped
      BY <1>2, RankFacts, CandidatesFinite
    <2> QED BY <2>1, ListPlaces
  <1> QED BY <1>1, <1>2

\* Below its limit the list has every device that was ever seen connected.
LEMMA ListComplete ==
  ASSUME ListInv, Len(List) < Limit, NEW m \in Macs,
         since[m] # NoTime \/ seen[m] # NoTime
  PROVE  \E i \in 1 .. Len(List) : List[i].mac = m
  <1>1. Dropped = 0
    BY ListPlaces
  <1>2. CASE since[m] # NoTime
    <2>1. PICK c \in Candidates : EntryOf(c) = [mac |-> m, at |-> since[m]]
      BY <1>2, CandidateOf
    <2> QED BY <1>1, <2>1, ListMacs
  <1>3. CASE since[m] = NoTime
    <2>1. Len(latest) < Limit
      <3>1. /\ Cardinality(Candidates) = Len(List) + 0
            /\ Len(List) \in Nat /\ Limit \in Nat /\ Len(latest) \in Nat
        BY <1>1, ListPlaces, ListFacts
      <3>2. /\ Len(latest) <= Cardinality(Again) /\ Cardinality(Again) \in Nat
            /\ Cardinality(Again) <= Cardinality(Candidates)
        BY AgainFacts
      <3> QED BY <3>1, <3>2
    <2>2. PICK i \in DOMAIN latest : latest[i].mac = m
      BY <1>3, <2>1 DEF ListInv, NewestKept, Listed, Seen
    <2>3. PICK c \in Candidates : EntryOf(c) = latest[i]
      BY <1>3, <2>2, CandidateOf
    <2> QED BY <1>1, <2>2, <2>3, ListMacs
  <1> QED BY <1>2, <1>3

\* A device that is not on the new list has no later connection than those on it.
LEMMA ListNewest ==
  ASSUME ListInv, UpdateLatest, NEW m \in Macs, seen'[m] # NoTime,
         \A j \in 1 .. Len(List) : List[j].mac # m, NEW i \in 1 .. Len(List)
  PROVE  seen'[m] <= List[i].at
  <1>1. /\ seen'[m] = IF since[m] # NoTime THEN since[m] ELSE seen[m]
        /\ \A c \in Candidates : seen'[EntryOf(c).mac] = EntryOf(c).at
    BY UpdateLists, UpdateSeen
  <1>2. PICK d \in Candidates : Rank(d) > Dropped /\ List[i] = EntryOf(d)
    BY ListMacs
  <1>3. CASE \E c \in Candidates : EntryOf(c).mac = m
    <2>1. PICK c \in Candidates : EntryOf(c).mac = m
      BY <1>3
    <2>2. ~(Rank(c) > Dropped)
      BY <2>1, ListPlaces
    <2>3. Rank(c) <= Rank(d)
      <3>1. Rank(c) \in Nat /\ Rank(d) \in Nat /\ Dropped \in Nat
        BY RankFacts, ListPlaces
      <3> QED BY <1>2, <2>2, <3>1
    <2> QED BY <1>1, <1>2, <2>1, <2>3, RankLater
  <1>4. CASE ~ \E c \in Candidates : EntryOf(c).mac = m
    <2>1. since[m] = NoTime
      <3>1. SUFFICES ASSUME since[m] # NoTime PROVE FALSE
        OBVIOUS
      <3>2. PICK c \in Candidates : EntryOf(c) = [mac |-> m, at |-> since[m]]
        BY <3>1, CandidateOf
      <3> QED BY <1>4, <3>2
    <2>2. m \in Seen \ Listed
      <3>1. m \in Seen
        BY <1>1, <2>1 DEF Seen
      <3>2. ASSUME NEW j \in DOMAIN latest PROVE latest[j].mac # m
        BY <1>4, <2>1, CandidateOf
      <3> QED BY <3>1, <3>2 DEF Listed
    <2>3. Len(latest) = Limit
      <3>1. ~(Len(latest) < Limit)
        BY <2>2 DEF ListInv, NewestKept
      <3> QED BY <3>1, ListFacts
    <2>4. PICK j \in DOMAIN latest : latest[j].at <= List[i].at
      BY <2>3, NoneOlder
    <2>5. seen[m] <= latest[j].at
      BY <2>2 DEF ListInv, NewestKept
    <2>6. seen[m] \in Nat /\ latest[j].at \in Nat /\ List[i].at \in Nat
      <3>1. seen[m] \in Time
        BY <2>2, ListFacts DEF Seen
      <3>2. EntryOf(d).at \in Time /\ latest[j].at \in Time
        BY CandidateKinds, ListFacts
      <3> QED BY <1>2, <3>1, <3>2, TimeFacts
    <2>7. seen[m] <= List[i].at
      BY <2>4, <2>5, <2>6
    <2> QED BY <1>1, <2>1, <2>7
  <1> QED BY <1>3, <1>4

LEMMA UpdateKeeps ==
  ASSUME ListInv, UpdateLatest
  PROVE  ListInv'
  <1>1. /\ latest' = List /\ UNCHANGED <<clock, since>>
        /\ newest' = IF List = <<>> THEN NoTime ELSE List[Len(List)].at
        /\ seen' = [m \in Macs |-> IF since[m] # NoTime THEN since[m] ELSE seen[m]]
    BY UpdateLists
  <1>2. /\ List \in Seq(Entry) /\ Len(List) \in Nat /\ Len(List) <= Limit
        /\ DOMAIN List = 1 .. Len(List)
    BY ListPlaces, LenProperties
  <1>3. \A i \in 1 .. Len(List) : List[i] \in Entry
    BY <1>2, ElementOfSeq
  <1>4. TypeOK'
    <2>1. newest' \in Time \cup {NoTime}
      <3>1. CASE List = <<>>
        BY <1>1, <3>1
      <3>2. CASE List # <<>>
        <4>1. Len(List) \in 1 .. Len(List)
          BY <1>2, <3>2, EmptySeq
        <4> QED BY <1>1, <1>3, <3>2, <4>1 DEF Entry
      <3> QED BY <3>1, <3>2
    <2>2. clock \in Time /\ since \in [Macs -> Time \cup {NoTime}]
      BY DEF ListInv, NewestKept, TypeOK
    <2> QED BY <1>1, <1>2, <2>1, <2>2, UpdateSeen DEF TypeOK
  <1>5. EachOnce' /\ Sorted'
    BY <1>1, <1>2, ListOrder DEF EachOnce, Sorted
  <1>6. \A i \in DOMAIN latest' : latest'[i].at = seen'[latest'[i].mac]
    BY <1>1, <1>2, ListMacs, UpdateSeen
  <1>7. Listed' = {List[i].mac : i \in 1 .. Len(List)}
    BY <1>1, <1>2 DEF Listed
  <1>8. Seen' = {m \in Macs : seen'[m] # NoTime}
    BY DEF Seen
  <1>9. Len(latest') < Limit => Listed' = Seen'
    <2>1. SUFFICES ASSUME Len(List) < Limit PROVE Listed' = Seen'
      BY <1>1
    <2>2. ASSUME NEW i \in 1 .. Len(List) PROVE List[i].mac \in Seen'
      <3>1. List[i].mac \in Macs /\ List[i].at \in Time
        BY <1>3 DEF Entry
      <3>2. seen'[List[i].mac] = List[i].at
        BY <1>1, <1>2, <1>6
      <3> QED BY <1>8, <3>1, <3>2, TimeFacts
    <2>3. ASSUME NEW m \in Seen' PROVE m \in Listed'
      <3>1. m \in Macs /\ (since[m] # NoTime \/ seen[m] # NoTime)
        BY <1>1, <1>8, <2>3
      <3> QED BY <1>7, <2>1, <3>1, ListComplete
    <2> QED BY <1>7, <2>2, <2>3
  <1>10. \A m \in Seen' \ Listed', i \in DOMAIN latest' : seen'[m] <= latest'[i].at
    <2>1. ASSUME NEW m \in Seen' \ Listed', NEW i \in 1 .. Len(List)
          PROVE  seen'[m] <= List[i].at
      BY <1>7, <1>8, <2>1, ListNewest
    <2> QED BY <1>1, <1>2, <2>1
  <1>11. newest' = Newest'
    BY <1>1 DEF Newest
  <1>12. NewestKept'
    BY <1>4, <1>5, <1>6, <1>9, <1>10, <1>11 DEF NewestKept
  <1> QED BY <1>12, UpdateSeen DEF ListInv

-----------------------------------------------------------------------------
(***************************************************************************)
(* The theorem.                                                            *)
(***************************************************************************)

\* Between updates time passes and devices come and go.
LEMMA QuietKeeps ==
  ASSUME ListInv, UNCHANGED <<latest, newest, seen>>,
         clock' \in Time, clock <= clock',
         since' \in [Macs -> Time \cup {NoTime}],
         \A m \in Macs : since'[m] \in {since[m], clock', NoTime}
  PROVE  ListInv'
  <1>1. TypeOK'
    BY DEF ListInv, NewestKept, TypeOK
  <1>2. NewestKept'
    BY <1>1
    DEF ListInv, NewestKept, EachOnce, Sorted, Seen, Listed, Newest
  <1>3. Ages'
    <2>1. /\ clock \in Nat /\ clock' \in Nat
          /\ seen \in [Macs -> Nat \cup {NoTime}] /\ seen' = seen
          /\ since \in [Macs -> Nat \cup {NoTime}]
      BY TimeFacts DEF ListInv, NewestKept, TypeOK
    <2>2. ASSUME NEW m \in Macs
          PROVE  /\ since'[m] # NoTime => since'[m] <= clock'
                 /\ seen[m] # NoTime => seen[m] <= clock'
                 /\ since'[m] # NoTime /\ seen[m] # NoTime => seen[m] <= since'[m]
      BY <2>1 DEF ListInv, Ages
    <2> QED BY <2>1, <2>2 DEF Ages
  <1> QED BY <1>2, <1>3 DEF ListInv

\* However devices connect, reconnect and leave between updates, the list holds
\* the newest connections ever seen, each device once and the oldest first, and
\* the sensor of the latest connection shows the last of them: for any number of
\* devices and any limit.
THEOREM NewestAlwaysKept == Spec => []NewestKept
  <1>1. Init => ListInv
    <2> SUFFICES ASSUME Init PROVE ListInv
      OBVIOUS
    <2>1. /\ latest = <<>> /\ clock = 0 /\ newest = NoTime
          /\ since = [m \in Macs |-> NoTime] /\ seen = [m \in Macs |-> NoTime]
          /\ 0 \in Time /\ Limit \in Nat
      BY LatestAssumption DEF Init, Time
    <2>2. TypeOK
      BY <2>1, EmptySeq DEF TypeOK
    <2>3. DOMAIN latest = {} /\ Seen = {} /\ Listed = {} /\ Newest = NoTime
      BY <2>1, EmptySeq DEF Seen, Listed, Newest
    <2>4. NewestKept
      BY <2>1, <2>2, <2>3 DEF NewestKept, EachOnce, Sorted
    <2> QED BY <2>1, <2>4 DEF ListInv, Ages
  <1>2. ListInv /\ [Next]_vars => ListInv'
    <2> SUFFICES ASSUME ListInv, [Next]_vars PROVE ListInv'
      OBVIOUS
    <2>1. /\ clock \in Time /\ clock \in Nat
          /\ since \in [Macs -> Time \cup {NoTime}]
      BY TimeFacts DEF ListInv, NewestKept, TypeOK
    <2>2. CASE Tick
      <3>1. clock' \in Time /\ clock <= clock'
        BY <2>1, <2>2, LatestAssumption DEF Tick, Time
      <3> QED BY <2>1, <2>2, <3>1, QuietKeeps DEF Tick
    <2>3. ASSUME NEW m \in Macs, Connect(m) \/ Leave(m) PROVE ListInv'
      <3>1. /\ \E t \in {clock, NoTime} : since' = [since EXCEPT ![m] = t]
            /\ UNCHANGED <<clock, latest, newest, seen>>
        BY <2>3 DEF Connect, Leave
      <3>2. /\ since' \in [Macs -> Time \cup {NoTime}]
            /\ \A n \in Macs : since'[n] \in {since[n], clock, NoTime}
        BY <2>1, <3>1
      <3> QED BY <2>1, <3>1, <3>2, QuietKeeps
    <2>4. CASE UNCHANGED vars
      BY <2>1, <2>4, QuietKeeps DEF vars
    <2> QED BY <2>2, <2>3, <2>4, UpdateKeeps DEF Next
  <1>3. ListInv => NewestKept
    BY DEF ListInv
  <1> QED BY <1>1, <1>2, <1>3, PTL DEF Spec
=============================================================================
