------------------------- MODULE InvoiceIndexProofs -------------------------
(***************************************************************************)
(* Theorems about InvoiceIndex: what the checkpoint says of the index is   *)
(* true and what a lookup calls complete is complete, for any number of    *)
(* maintenance runs and lookups, any page size and any invoices issued and *)
(* deleted while pages are read.                                           *)
(***************************************************************************)
EXTENDS InvoiceIndex, FiniteSetTheorems, NaturalsInduction, WellFoundedInduction, TLAPS

Checkpoint == [generation : Nat, scanned : Nat, last : Nat, total : Int, asOf : Int]
Progress == [current : BOOLEAN, asOf : Int, scanned : Nat]

TypeOK ==
  /\ env \in Environments
  /\ issued \in Nat /\ deleted \in Nat /\ remote \subseteq 1..issued
  /\ st \in Checkpoint /\ indexed \subseteq Nat
  /\ rpc \in [Refreshes -> {"idle", "clock", "request", "page", "search", "done"}]
  /\ mine \in [Refreshes -> Checkpoint] /\ clock \in [Refreshes -> Nat]
  /\ page \in [Refreshes -> [ids : SUBSET Nat, total : Nat]]
  /\ span \in [Refreshes -> [low : Nat, high : Nat, below : Nat]]
  /\ result \in [Refreshes -> Progress]
  /\ sharedAt \in Nat
  /\ lpc \in [Lookups -> {"idle", "index", "floor", "indexed", "scanned", "unproven"}]
  /\ since \in [Lookups -> Nat] /\ known \in [Lookups -> Checkpoint]
  /\ cand \in [Lookups -> SUBSET Nat] /\ existed \in [Lookups -> SUBSET Nat]
  /\ join \in [Lookups -> {"none", "now", "next", "got"}] /\ progress \in [Lookups -> Progress]
  /\ tried \in [Lookups -> SUBSET {"index", "floor"}]
  /\ scan \in [Lookups -> [offset : Nat, last : Nat, pages : Nat]]

(* While nothing was deleted, the list is 1, 2, ..., issued.               *)
Gapless == deleted = 0 => remote = 1..issued

Covered(n) == \A i \in remote : i <= n => i \in indexed

(* A checkpoint read at any time stays true of the index: what a run still *)
(* remembers while others move on, and what was confirmed.                 *)
Sound(s) ==
  /\ s.last <= issued /\ s.asOf <= issued
  /\ Covered(s.last) /\ Covered(s.asOf)
  /\ s.scanned = 0 <=> s.last = None
  /\ deleted = 0 => s.last = s.scanned
Reliable(p) == p.current => p.asOf <= issued /\ Covered(p.asOf) /\ (deleted = 0 => p.asOf <= p.scanned)

(* Between the request and the save the page that follows the checkpoint   *)
(* has no gap, and leaves nothing behind it that was there at the clock.   *)
From(r) == mine[r].scanned - Overlap(mine[r]) + 1
To(r) == IF mine[r].scanned - Overlap(mine[r]) + PageSize < page[r].total
           THEN mine[r].scanned - Overlap(mine[r]) + PageSize
           ELSE page[r].total
NoGap(r) == \A i \in remote, k \in page[r].ids : mine[r].last < i /\ i <= k => i \in page[r].ids
NoRest(r) == \A i \in remote : mine[r].last < i /\ i <= clock[r] => i \in page[r].ids
PageHolds(r) ==
  rpc[r] = "page" =>
    /\ page[r].ids \subseteq 1..issued
    /\ OverlapHolds(r) => NoGap(r)
    /\ OverlapHolds(r) /\ Scanned(r) >= page[r].total => NoRest(r)
    /\ deleted = 0 => page[r].ids = From(r)..To(r) /\ clock[r] <= page[r].total

(* The search for the position goes no further than the checkpoint.        *)
SearchHolds(r) ==
  rpc[r] = "search" =>
    /\ span[r].below <= mine[r].last
    /\ span[r].low = 0 <=> span[r].below = None
    /\ deleted = 0 => span[r].low = span[r].below

RefreshHolds(r) ==
  /\ Sound(mine[r]) /\ clock[r] <= issued
  /\ PageHolds(r) /\ SearchHolds(r) /\ Reliable(result[r])

(* What a lookup holds of the invoices that existed when it began.         *)
KnownHolds(l) ==
  /\ existed[l] \subseteq 1..since[l] /\ since[l] <= issued
  /\ \A i \in existed[l] : i <= known[l].last \/ i <= known[l].asOf => i \in cand[l]
  /\ deleted = 0 => known[l].last = known[l].scanned
  /\ Reliable(progress[l])
ScanHas(l) ==
  /\ scan[l].last = None <=> scan[l].offset = 0
  /\ lpc[l] = "idle" => scan[l].last = None
  /\ \A i \in existed[l] \cap remote : i > env.floor /\ scan[l].last # None /\ scan[l].last <= i => i \in cand[l]
ProofHolds(l) ==
  /\ lpc[l] = "indexed" /\ deleted = 0 => KnowsAll(l)
  /\ lpc[l] = "scanned" => KnowsAll(l)
LookupHolds(l) == KnownHolds(l) /\ ScanHas(l) /\ ProofHolds(l)

IndexInv ==
  /\ TypeOK /\ Gapless /\ Sound(st)
  /\ \A r \in Refreshes : RefreshHolds(r)
  /\ \A l \in Lookups : LookupHolds(l)
-----------------------------------------------------------------------------
(* Sets of numbers have a least member, and bounded ones a greatest.       *)
LEMMA Least == \A S \in SUBSET Nat : S # {} => \E m \in S : \A q \in S : m <= q
<1> DEFINE R == {ss \in Nat \X Nat : ss[1] < ss[2]}
<1>1. IsWellFoundedOn(R, Nat) BY NatLessThanWellFounded DEF OpToRel
<1>2. \A x, y \in Nat : <<y, x>> \in R <=> y < x OBVIOUS
<1> SUFFICES ASSUME NEW S \in SUBSET Nat, S # {} PROVE \E m \in S : \A q \in S : m <= q OBVIOUS
<1> HIDE DEF R
<1>3. \A T : T \subseteq Nat /\ T # {} => \E x \in T : \A y \in T : ~ (<<y, x>> \in R)
  BY <1>1, WFMin, Zenon
<1>4. PICK m \in S : \A y \in S : ~(<<y, m>> \in R) BY <1>3
<1>5. \A q \in S : q \in Nat /\ m \in Nat /\ ~(q < m) BY <1>2, <1>4
<1> QED BY <1>5

LEMMA MinIsLeast ==
  ASSUME NEW S \in SUBSET Nat, S # {}
  PROVE  Min(S) \in S /\ \A i \in S : Min(S) <= i
BY Least DEF Min

LEMMA MaxIsGreatest ==
  ASSUME NEW S \in SUBSET Nat, S # {}, NEW n \in Nat, \A i \in S : i <= n
  PROVE  Max(S) \in S /\ \A i \in S : i <= Max(S)
<1> DEFINE T == {q \in Nat : n - q \in S}
<1>1. PICK x \in S : TRUE OBVIOUS
<1>2. n - (n - x) = x /\ n - x \in Nat BY <1>1
<1>3. T # {} BY <1>2
<1>4. PICK m \in T : \A q \in T : m <= q BY <1>3, Least
<1>5. n - m \in S /\ m \in Nat BY <1>4
<1>6. ASSUME NEW i \in S PROVE i <= n - m
  <2>1. i \in Nat /\ i <= n /\ n - (n - i) = i /\ n - i \in Nat BY <1>6
  <2>2. n - i \in T BY <2>1
  <2>3. m <= n - i BY <2>2, <1>4
  <2> QED BY <2>1, <2>3, <1>5
<1>7. \E x_1 \in S : \A y \in S : x_1 >= y BY <1>5, <1>6
<1>8. Max(S) \in S /\ \A y \in S : Max(S) >= y BY <1>7 DEF Max
<1> QED BY <1>8
-----------------------------------------------------------------------------
(* Positions in the list: what one page holds, oldest first.               *)
LEMMA Finite ==
  ASSUME TypeOK
  PROVE  /\ issued \in Nat /\ IsFiniteSet(remote) /\ Cardinality(remote) \in Nat /\ remote \subseteq Nat
         /\ \A S \in SUBSET (1..issued) : IsFiniteSet(S) /\ Cardinality(S) \in Nat
<1>1. issued \in Nat /\ remote \in SUBSET (1..issued) /\ 1..issued \subseteq Nat BY DEF TypeOK
<1>2. IsFiniteSet(1..issued) BY <1>1, FS_Interval
<1>3. \A S \in SUBSET (1..issued) : IsFiniteSet(S) BY <1>2, FS_Subset
<1>4. \A S \in SUBSET (1..issued) : Cardinality(S) \in Nat BY <1>3, FS_CardinalityType
<1> QED BY <1>1, <1>3, <1>4

LEMMA SmallerSubset ==
  ASSUME TypeOK, NEW S \in SUBSET remote, NEW x \in S, NEW T, T \subseteq S, x \notin T
  PROVE  Cardinality(T) \in Nat /\ Cardinality(S) \in Nat /\ Cardinality(T) < Cardinality(S)
<1>1. IsFiniteSet(S) /\ IsFiniteSet(T) /\ {Cardinality(S), Cardinality(T)} \subseteq Nat BY Finite DEF TypeOK
<1>2. T \cup {x} \in SUBSET S OBVIOUS
<1>3. Cardinality(T \cup {x}) = Cardinality(T) + 1 BY <1>1, FS_AddElement
<1>4. Cardinality(T \cup {x}) <= Cardinality(S) BY <1>1, <1>2, FS_Subset
<1> QED BY <1>1, <1>3, <1>4

LEMMA OlderIsOrder ==
  ASSUME TypeOK
  PROVE  /\ \A i \in remote : Older(i) \in Nat /\ Older(i) < Cardinality(remote)
         /\ \A i, k \in remote : i < k => Older(i) < Older(k)
<1>1. ASSUME NEW i \in remote PROVE Older(i) \in Nat /\ Older(i) < Cardinality(remote)
  <2>1. i \notin {j \in remote : j < i} BY Finite
  <2>2. {j \in remote : j < i} \subseteq remote OBVIOUS
  <2> QED BY <2>1, <2>2, SmallerSubset DEF Older
<1>2. ASSUME NEW i \in remote, NEW k \in remote, i < k PROVE Older(i) < Older(k)
  <2>1. i \in {j \in remote : j < k} /\ i \notin {j \in remote : j < i} BY <1>2, Finite
  <2>2. \A j \in remote : j < i => j < k BY <1>2, Finite
  <2>3. {j \in remote : j < i} \subseteq {j \in remote : j < k} BY <2>2
  <2>4. {j \in remote : j < k} \in SUBSET remote OBVIOUS
  <2> QED BY <2>1, <2>3, <2>4, SmallerSubset DEF Older
<1> QED BY <1>1, <1>2

LEMMA NewerIsOrder ==
  ASSUME TypeOK
  PROVE  /\ \A i \in remote : Newer(i) \in Nat /\ Newer(i) < Cardinality(remote)
         /\ \A i, k \in remote : i < k => Newer(k) < Newer(i)
<1>1. ASSUME NEW i \in remote PROVE Newer(i) \in Nat /\ Newer(i) < Cardinality(remote)
  <2>1. i \notin {j \in remote : i < j} BY Finite
  <2>2. {j \in remote : i < j} \subseteq remote OBVIOUS
  <2> QED BY <2>1, <2>2, SmallerSubset DEF Newer
<1>2. ASSUME NEW i \in remote, NEW k \in remote, i < k PROVE Newer(k) < Newer(i)
  <2>1. k \in {j \in remote : i < j} /\ k \notin {j \in remote : k < j} BY <1>2, Finite
  <2>2. \A j \in remote : k < j => i < j BY <1>2, Finite
  <2>3. {j \in remote : k < j} \subseteq {j \in remote : i < j} BY <2>2
  <2>4. {j \in remote : i < j} \in SUBSET remote OBVIOUS
  <2> QED BY <2>1, <2>3, <2>4, SmallerSubset DEF Newer
<1> QED BY <1>1, <1>2

(* A page has at most PageSize members.                                    *)
LEMMA PageIsBounded ==
  ASSUME NEW S, NEW p \in Nat, NEW f \in [S -> On(p)], \A i, k \in S : i # k => f[i] # f[k]
  PROVE  Cardinality(S) \in Nat /\ Cardinality(S) <= PageSize
<1>1. PageSize \in Nat /\ PageSize > 1 BY IndexAssumption
<1>2. IsFiniteSet(On(p)) /\ Cardinality(On(p)) = PageSize BY <1>1, FS_Interval DEF On
<1>3. f \in Injection(S, On(p)) BY DEF Injection, IsInjective
<1>4. IsFiniteSet(S) /\ Cardinality(S) <= Cardinality(On(p)) BY <1>2, <1>3, FS_Injection
<1> QED BY <1>2, <1>4, FS_CardinalityType

(* While nothing was deleted, the position of an invoice is its number.    *)
LEMMA OlderCounts ==
  ASSUME TypeOK, Gapless, deleted = 0
  PROVE  Cardinality(remote) = issued /\ \A i \in remote : Older(i) = i - 1
<1>1. remote = 1..issued /\ issued \in Nat BY DEF Gapless, TypeOK
<1>2. Cardinality(remote) = issued BY <1>1, FS_Interval
<1>3. ASSUME NEW i \in remote PROVE Older(i) = i - 1
  <2>1. {j \in remote : j < i} = 1..(i - 1) BY <1>1
  <2>2. i \in Nat /\ i - 1 \in Int /\ i >= 1 BY <1>1
  <2>3. Cardinality(1..(i - 1)) = IF 1 > i - 1 THEN 0 ELSE (i - 1) - 1 + 1 BY <2>2, FS_Interval
  <2>4. Cardinality(1..(i - 1)) = i - 1 BY <2>2, <2>3
  <2> QED BY <2>1, <2>4 DEF Older
<1> QED BY <1>2, <1>3

LEMMA AscendingPage ==
  ASSUME TypeOK, NEW p \in Nat
  PROVE  /\ Ascending(p) \subseteq remote
         /\ Cardinality(Ascending(p)) \in Nat
         /\ \A i \in remote : i \in Ascending(p) => p <= Older(i)
         /\ \A i \in remote, k \in Ascending(p) : i <= k /\ p <= Older(i) => i \in Ascending(p)
         /\ p + Cardinality(Ascending(p)) >= Cardinality(remote)
              => \A i \in remote : p <= Older(i) => i \in Ascending(p)
<1> DEFINE f == [i \in Ascending(p) |-> Older(i)]
<1>1. PageSize \in Nat /\ PageSize > 1 BY IndexAssumption
<1>2. Ascending(p) \subseteq remote BY DEF Ascending
<1>3. \A i \in remote : i \in Nat BY Finite
<1>4. \A i, k \in remote : i # k => Older(i) # Older(k) BY <1>3, OlderIsOrder
<1>5. f \in [Ascending(p) -> On(p)] BY DEF Ascending
<1>6. Cardinality(Ascending(p)) \in Nat /\ Cardinality(Ascending(p)) <= PageSize
  <2>1. \A i, k \in Ascending(p) : i # k => f[i] # f[k] BY <1>2, <1>4
  <2> QED BY <1>5, <2>1, PageIsBounded
<1>7. \A i \in remote : i \in Ascending(p) <=> p <= Older(i) /\ Older(i) < p + PageSize
  BY <1>1, OlderIsOrder DEF Ascending, On
<1>8. ASSUME NEW i \in remote, NEW k \in Ascending(p), i <= k, p <= Older(i) PROVE i \in Ascending(p)
  <2>1. Older(i) <= Older(k) BY <1>2, <1>3, <1>8, OlderIsOrder
  <2> QED BY <2>1, <1>1, <1>2, <1>7, <1>8, OlderIsOrder
<1>9. ASSUME p + Cardinality(Ascending(p)) >= Cardinality(remote), NEW i \in remote, p <= Older(i) PROVE i \in Ascending(p)
  BY <1>1, <1>6, <1>7, <1>9, OlderIsOrder, Finite
<1> HIDE DEF f
<1> QED BY <1>2, <1>6, <1>7, <1>8, <1>9

LEMMA DescendingPage ==
  ASSUME TypeOK, NEW p \in Nat
  PROVE  /\ Descending(p) \subseteq remote
         /\ Cardinality(Descending(p)) \in Nat /\ IsFiniteSet(Descending(p))
         /\ \A i \in remote : i \in Descending(p) => p <= Newer(i)
         /\ \A i \in remote, k \in Descending(p) : k <= i /\ p <= Newer(i) => i \in Descending(p)
         /\ p + Cardinality(Descending(p)) >= Cardinality(remote)
              => \A i \in remote : p <= Newer(i) => i \in Descending(p)
<1> DEFINE f == [i \in Descending(p) |-> Newer(i)]
<1>1. PageSize \in Nat /\ PageSize > 1 BY IndexAssumption
<1>2. Descending(p) \subseteq remote BY DEF Descending
<1>3. \A i \in remote : i \in Nat BY Finite
<1>4. \A i, k \in remote : i # k => Newer(i) # Newer(k) BY <1>3, NewerIsOrder
<1>5. f \in [Descending(p) -> On(p)] BY DEF Descending
<1>6. Cardinality(Descending(p)) \in Nat /\ Cardinality(Descending(p)) <= PageSize
  <2>1. \A i, k \in Descending(p) : i # k => f[i] # f[k] BY <1>2, <1>4
  <2> QED BY <1>5, <2>1, PageIsBounded
<1>7. \A i \in remote : i \in Descending(p) <=> p <= Newer(i) /\ Newer(i) < p + PageSize
  BY <1>1, NewerIsOrder DEF Descending, On
<1>8. ASSUME NEW i \in remote, NEW k \in Descending(p), k <= i, p <= Newer(i) PROVE i \in Descending(p)
  <2>1. Newer(i) <= Newer(k) BY <1>2, <1>3, <1>8, NewerIsOrder
  <2> QED BY <2>1, <1>1, <1>2, <1>7, <1>8, NewerIsOrder
<1>9. ASSUME p + Cardinality(Descending(p)) >= Cardinality(remote), NEW i \in remote, p <= Newer(i) PROVE i \in Descending(p)
  BY <1>1, <1>6, <1>7, <1>9, NewerIsOrder, Finite
<1>10. IsFiniteSet(Descending(p)) BY <1>2, Finite DEF TypeOK
<1> HIDE DEF f
<1> QED BY <1>2, <1>6, <1>7, <1>8, <1>9, <1>10
-----------------------------------------------------------------------------
(* What any step does to the list and the index: ids are issued above all  *)
(* others, and the index loses no invoice that still exists.               *)
World ==
  /\ issued <= issued' /\ deleted <= deleted'
  /\ \A i \in remote' : i <= issued => i \in remote /\ (i \in indexed => i \in indexed')
  /\ Gapless'

LEMMA SoundStays ==
  ASSUME TypeOK, TypeOK', World
  PROVE  /\ Sound(st) /\ st' = st => Sound(st)'
         /\ \A r \in Refreshes : Sound(mine[r]) /\ mine'[r] = mine[r] => Sound(mine[r])'
         /\ \A r \in Refreshes : Sound(st) /\ mine'[r] = st => Sound(mine[r])'
         /\ \A r \in Refreshes : Reliable(result[r]) /\ result'[r] = result[r] => Reliable(result[r])'
         /\ \A l \in Lookups : Reliable(progress[l]) /\ progress'[l] = progress[l] => Reliable(progress[l])'
         /\ \A r \in Refreshes, l \in Lookups : Reliable(result[r]) /\ progress'[l] = result[r] => Reliable(progress[l])'
<1>1. \A n \in Int : n <= issued /\ Covered(n) => n <= issued' /\ \A i \in remote' : i <= n => i \in indexed'
  BY DEF Covered, World, TypeOK
<1>2. deleted' = 0 => deleted = 0 BY DEF World, TypeOK
<1>3. st \in Checkpoint /\ (\A r \in Refreshes : mine[r] \in Checkpoint /\ result[r] \in Progress)
      /\ \A l \in Lookups : progress[l] \in Progress
  BY DEF TypeOK
<1>4. \A s \in Checkpoint : s.last \in Int /\ s.asOf \in Int BY DEF Checkpoint
<1>5. \A p \in Progress : p.asOf \in Int BY DEF Progress
<1>6. Sound(st) /\ st' = st => Sound(st)' BY <1>1, <1>2, <1>3, <1>4 DEF Sound, Covered
<1>7. ASSUME NEW r \in Refreshes, Sound(mine[r]), mine'[r] = mine[r] PROVE Sound(mine[r])'
  BY <1>1, <1>2, <1>3, <1>4, <1>7 DEF Sound, Covered
<1>8. ASSUME NEW r \in Refreshes, Sound(st), mine'[r] = st PROVE Sound(mine[r])'
  BY <1>1, <1>2, <1>3, <1>4, <1>8 DEF Sound, Covered
<1>9. ASSUME NEW r \in Refreshes, Reliable(result[r]), result'[r] = result[r] PROVE Reliable(result[r])'
  BY <1>1, <1>2, <1>3, <1>5, <1>9 DEF Reliable, Covered
<1>10. ASSUME NEW l \in Lookups, Reliable(progress[l]), progress'[l] = progress[l] PROVE Reliable(progress[l])'
  BY <1>1, <1>2, <1>3, <1>5, <1>10 DEF Reliable, Covered
<1>11. ASSUME NEW r \in Refreshes, NEW l \in Lookups, Reliable(result[r]), progress'[l] = result[r] PROVE Reliable(progress[l])'
  BY <1>1, <1>2, <1>3, <1>5, <1>11 DEF Reliable, Covered
<1> QED BY <1>6, <1>7, <1>8, <1>9, <1>10, <1>11

Still(r) == /\ rpc'[r] = rpc[r] /\ mine'[r] = mine[r] /\ clock'[r] = clock[r]
            /\ page'[r] = page[r] /\ span'[r] = span[r] /\ result'[r] = result[r]
Kept(l) == /\ lpc'[l] = lpc[l] /\ since'[l] = since[l] /\ known'[l] = known[l] /\ cand'[l] = cand[l]
           /\ existed'[l] = existed[l] /\ scan'[l] = scan[l]
Waiting(l) == Kept(l) /\ progress'[l] = progress[l]

LEMMA RefreshStays ==
  ASSUME TypeOK, TypeOK', World, NEW r \in Refreshes, RefreshHolds(r), Still(r)
  PROVE  RefreshHolds(r)'
<1>1. Sound(mine[r])' /\ Reliable(result[r])' BY SoundStays DEF RefreshHolds, Still
<1>2. /\ (OverlapHolds(r))' = OverlapHolds(r) /\ (Scanned(r))' = Scanned(r)
      /\ (From(r))' = From(r) /\ (To(r))' = To(r)
  BY DEF Still, OverlapHolds, Scanned, Fresh, From, To, Overlap
<1>3. \A i \in remote' : i \in Nat /\ (i <= issued => i \in remote) BY DEF World, TypeOK
<1>4. clock[r] \in Nat /\ issued \in Nat /\ issued' \in Nat BY DEF TypeOK
<1>5. PageHolds(r)'
  <2> SUFFICES ASSUME rpc[r] = "page"
               PROVE  /\ page'[r].ids \subseteq 1..(issued')
                      /\ OverlapHolds(r)' => NoGap(r)'
                      /\ OverlapHolds(r)' /\ (Scanned(r))' >= page'[r].total => NoRest(r)'
                      /\ deleted' = 0 => page'[r].ids = (From(r))'..(To(r))' /\ clock'[r] <= page'[r].total
    BY DEF PageHolds, Still
  <2>1. PageHolds(r) /\ clock[r] <= issued BY DEF RefreshHolds
  <2>2. page[r].ids \subseteq 1..(issued') BY <2>1, <1>4 DEF PageHolds, World
  <2>3. NoGap(r) => NoGap(r)'
    <3> SUFFICES ASSUME NoGap(r), NEW i \in remote', NEW k \in page[r].ids, mine[r].last < i, i <= k
                 PROVE  i \in page[r].ids
      BY DEF NoGap, Still
    <3>1. i <= issued BY <2>1, <1>3, <1>4 DEF PageHolds
    <3> QED BY <3>1, <1>3 DEF NoGap
  <2>4. NoRest(r) => NoRest(r)'
    <3> SUFFICES ASSUME NoRest(r), NEW i \in remote', mine[r].last < i, i <= clock[r]
                 PROVE  i \in page[r].ids
      BY DEF NoRest, Still
    <3>1. i <= issued BY <2>1, <1>3, <1>4
    <3> QED BY <3>1, <1>3 DEF NoRest
  <2>5. deleted' = 0 => deleted = 0 BY DEF World, TypeOK
  <2> QED BY <1>2, <2>1, <2>2, <2>3, <2>4, <2>5 DEF PageHolds, Still
<1>6. SearchHolds(r)' BY DEF RefreshHolds, SearchHolds, Still, World, TypeOK
<1>7. clock'[r] <= issued' BY <1>4 DEF RefreshHolds, World, Still
<1> QED BY <1>1, <1>5, <1>6, <1>7 DEF RefreshHolds

LEMMA LookupKept ==
  ASSUME TypeOK, TypeOK', World, env' = env, NEW l \in Lookups, LookupHolds(l), Kept(l), Reliable(progress[l])'
  PROVE  LookupHolds(l)'
<1>1. \A i \in existed[l] : i \in Nat /\ i <= issued
  BY DEF TypeOK, LookupHolds, KnownHolds
<1>2. \A i \in existed[l] \cap remote' : i \in remote BY <1>1 DEF World
<1>3. KnownHolds(l)' BY DEF LookupHolds, KnownHolds, Kept, World, TypeOK
<1>4. ScanHas(l)' BY <1>2 DEF LookupHolds, ScanHas, Kept
<1>5. KnowsAll(l) => KnowsAll(l)' BY <1>2 DEF KnowsAll, Kept
<1>6. deleted' = 0 => deleted = 0 BY DEF World, TypeOK
<1>7. ProofHolds(l)' BY <1>5, <1>6 DEF LookupHolds, ProofHolds, Kept
<1> QED BY <1>3, <1>4, <1>7 DEF LookupHolds

LEMMA LookupStays ==
  ASSUME TypeOK, TypeOK', World, env' = env, NEW l \in Lookups, LookupHolds(l), Waiting(l)
  PROVE  LookupHolds(l)'
<1>1. Reliable(progress[l])' BY SoundStays DEF LookupHolds, KnownHolds, Waiting
<1> QED BY <1>1, LookupKept DEF Waiting

(* A step of one refresh, a step of one lookup, and a step of neither.     *)
LEMMA NothingMoves ==
  ASSUME IndexInv, TypeOK', World, env' = env, st' = st, \A r \in Refreshes : Still(r), \A l \in Lookups : Waiting(l)
  PROVE  IndexInv'
<1>1. \A r \in Refreshes : RefreshHolds(r)' BY RefreshStays DEF IndexInv
<1>2. \A l \in Lookups : LookupHolds(l)' BY LookupStays DEF IndexInv
<1>3. Sound(st)' BY SoundStays DEF IndexInv
<1> QED BY <1>1, <1>2, <1>3 DEF IndexInv, World

LEMMA OneRefresh ==
  ASSUME IndexInv, TypeOK', World, env' = env, NEW r \in Refreshes, \A q \in Refreshes \ {r} : Still(q),
         \A l \in Lookups : Waiting(l), Sound(st)', RefreshHolds(r)'
  PROVE  IndexInv'
<1>1. \A q \in Refreshes : RefreshHolds(q)' BY RefreshStays DEF IndexInv
<1>2. \A l \in Lookups : LookupHolds(l)' BY LookupStays DEF IndexInv
<1> QED BY <1>1, <1>2 DEF IndexInv, World

LEMMA OneLookup ==
  ASSUME IndexInv, TypeOK', World, env' = env, st' = st, NEW l \in Lookups, \A k \in Lookups \ {l} : Waiting(k),
         \A r \in Refreshes : Still(r), LookupHolds(l)'
  PROVE  IndexInv'
<1>1. \A r \in Refreshes : RefreshHolds(r)' BY RefreshStays DEF IndexInv
<1>2. \A k \in Lookups : LookupHolds(k)' BY LookupStays DEF IndexInv
<1>3. Sound(st)' BY SoundStays DEF IndexInv
<1> QED BY <1>1, <1>2, <1>3 DEF IndexInv, World
-----------------------------------------------------------------------------
(* Types.                                                                  *)
LEMMA Environment ==
  ASSUME TypeOK
  PROVE  /\ env.runners \subseteq Runners /\ env.lookups \subseteq Lookups /\ env.floor \in Nat
         /\ Shared \in Refreshes /\ Runners \subseteq Refreshes
BY IndexAssumption DEF TypeOK, Refreshes

LEMMA InitTyped == Init => TypeOK
BY IndexAssumption DEF Init, TypeOK, Empty, NoPage, NoSpan, NoResult, NoScan, Checkpoint, Progress, Unread, Never, None

LEMMA FinishTyped ==
  ASSUME TypeOK, NEW r \in Refreshes, NEW outcome \in Progress, Finish(r, outcome)
  PROVE  /\ rpc' \in [Refreshes -> {"idle", "clock", "request", "page", "search", "done"}]
         /\ mine' \in [Refreshes -> Checkpoint] /\ clock' \in [Refreshes -> Nat]
         /\ page' \in [Refreshes -> [ids : SUBSET Nat, total : Nat]]
         /\ span' \in [Refreshes -> [low : Nat, high : Nat, below : Nat]]
         /\ result' \in [Refreshes -> Progress]
<1>1. NoPage \in [ids : SUBSET Nat, total : Nat] /\ NoSpan \in [low : Nat, high : Nat, below : Nat] /\ Empty(0) \in Checkpoint
  BY DEF NoPage, NoSpan, None, Empty, Checkpoint, Unread, Never
<1> QED BY <1>1 DEF TypeOK, Finish

(* What a page adds to the index, and the checkpoint behind it.            *)
LEMMA FreshIsFinite ==
  ASSUME TypeOK, NEW r \in Refreshes, RefreshHolds(r), rpc[r] = "page"
  PROVE  /\ Fresh(r) \subseteq page[r].ids /\ page[r].ids \subseteq 1..issued
         /\ Cardinality(Fresh(r)) \in Nat /\ (Fresh(r) = {} <=> Cardinality(Fresh(r)) = 0)
         /\ Scanned(r) \in Nat /\ NewLast(r) \in Nat
         /\ Fresh(r) = {} => NewLast(r) = mine[r].last
         /\ Fresh(r) # {} => NewLast(r) \in Fresh(r) /\ \A i \in Fresh(r) : i <= NewLast(r)
<1>1. Fresh(r) \subseteq page[r].ids /\ page[r].ids \subseteq 1..issued BY DEF Fresh, RefreshHolds, PageHolds
<1>2. issued \in Nat /\ 1..issued \subseteq Nat /\ \A i \in Fresh(r) : i <= issued BY <1>1, Finite
<1>3. IsFiniteSet(Fresh(r)) /\ Cardinality(Fresh(r)) \in Nat BY <1>1, Finite
<1>4. mine[r].scanned \in Nat /\ mine[r].last \in Nat BY DEF TypeOK, Checkpoint
<1>5. Fresh(r) # {} => Max(Fresh(r)) \in Fresh(r) /\ \A i \in Fresh(r) : i <= Max(Fresh(r))
  <2>1. Fresh(r) \in SUBSET Nat BY <1>1, <1>2
  <2> QED BY <2>1, <1>2, MaxIsGreatest
<1>6. Scanned(r) \in Nat BY <1>3, <1>4 DEF Scanned
<1> QED BY <1>1, <1>2, <1>3, <1>4, <1>5, <1>6, FS_EmptySet DEF NewLast

(* What a page of the newest-first scan adds.                              *)
ScanPage(l) == Descending(scan[l].offset - ScanOverlap(l))
ScanFresh(l) == {i \in ScanPage(l) : ScanOverlap(l) = 1 => \E j \in ScanPage(l) : i < j}

LEMMA ScanIsFinite ==
  ASSUME TypeOK, NEW l \in Lookups, ScanHas(l)
  PROVE  /\ scan[l].offset - ScanOverlap(l) \in Nat /\ ScanOverlap(l) \in {0, 1} /\ scan[l].offset \in Nat
         /\ ScanOverlap(l) = 0 => scan[l].offset = 0
         /\ ScanFresh(l) \subseteq ScanPage(l) /\ ScanPage(l) \subseteq remote
         /\ Cardinality(ScanFresh(l)) \in Nat /\ Cardinality(ScanPage(l)) \in Nat
         /\ ScanFresh(l) # {} => Min(ScanFresh(l)) \in ScanFresh(l) /\ \A i \in ScanFresh(l) : Min(ScanFresh(l)) <= i
<1>1. scan[l].offset - ScanOverlap(l) \in Nat /\ scan[l].offset \in Nat /\ (ScanOverlap(l) = 0 => scan[l].offset = 0)
      /\ ScanOverlap(l) \in {0, 1}
  BY DEF TypeOK, ScanHas, ScanOverlap, None
<1>2. ScanFresh(l) \subseteq ScanPage(l) BY DEF ScanFresh
<1>3. ScanPage(l) \subseteq remote BY <1>1, DescendingPage DEF ScanPage
<1>4. ScanFresh(l) \in SUBSET Nat /\ ScanFresh(l) \in SUBSET (1..issued) /\ ScanPage(l) \in SUBSET (1..issued)
  BY <1>2, <1>3, Finite DEF TypeOK
<1>5. Cardinality(ScanFresh(l)) \in Nat /\ Cardinality(ScanPage(l)) \in Nat BY <1>4, Finite
<1>6. ScanFresh(l) # {} => Min(ScanFresh(l)) \in ScanFresh(l) /\ \A i \in ScanFresh(l) : Min(ScanFresh(l)) <= i
  BY <1>4, MinIsLeast
<1> QED BY <1>1, <1>2, <1>3, <1>5, <1>6

LEMMA ScanSteps ==
  ASSUME NEW l \in Lookups, Scan(l)
  PROVE  /\ lpc[l] = "floor"
         /\ \/ /\ ScanHolds(l, ScanPage(l))
               /\ cand' = [cand EXCEPT ![l] = @ \cup {i \in ScanFresh(l) : i > env.floor}]
               /\ \/ /\ \/ \E i \in ScanFresh(l) : ~(i > env.floor)
                        \/ scan[l].offset + Cardinality(ScanFresh(l)) >= Cardinality(remote)
                     /\ Path(l, "scanned") /\ UNCHANGED <<scan, tried>>
                  \/ /\ ScanFresh(l) # {}
                     /\ scan' = [scan EXCEPT ![l] = [offset |-> scan[l].offset + Cardinality(ScanFresh(l)),
                                                      last |-> Min(ScanFresh(l)), pages |-> scan[l].pages + 1]]
                     /\ UNCHANGED <<lpc, tried>>
            \/ Fails(l, "floor") /\ UNCHANGED <<cand, scan>>
         /\ UNCHANGED <<since, known, existed, join, progress>> /\ OnlyLookup
<1> DEFINE list  == Descending(scan[l].offset - ScanOverlap(l))
           fresh == {i \in list : ScanOverlap(l) = 1 => \E j \in list : i < j}
           above == {i \in fresh : i > env.floor}
<1>1. list = ScanPage(l) /\ fresh = ScanFresh(l) BY DEF ScanPage, ScanFresh
<1>2. above # fresh => \E i \in fresh : ~(i > env.floor) OBVIOUS
<1> QED BY <1>1, <1>2 DEF Scan

LEMMA FailsTyped ==
  ASSUME TypeOK, NEW l \in Lookups, NEW path \in {"index", "floor"}, Fails(l, path)
  PROVE  /\ lpc' \in [Lookups -> {"idle", "index", "floor", "indexed", "scanned", "unproven"}]
         /\ tried' \in [Lookups -> SUBSET {"index", "floor"}]
         /\ \A k \in Lookups \ {l} : lpc'[k] = lpc[k]
         /\ lpc'[l] \in {"index", "floor", "unproven"}
<1> DEFINE other == IF path = "index" THEN "floor" ELSE "index"
           next == IF other \in tried[l] \/ (other = "floor" /\ env.floor = 0) THEN "unproven" ELSE other
<1>1. next \in {"index", "floor", "unproven"} OBVIOUS
<1>2. tried' = [tried EXCEPT ![l] = @ \cup {path}] /\ lpc' = [lpc EXCEPT ![l] = next] BY DEF Fails, Path
<1> HIDE DEF next
<1> QED BY <1>1, <1>2 DEF TypeOK

LEMMA TypeStays == IndexInv /\ Next => TypeOK'
<1> SUFFICES ASSUME IndexInv, Next PROVE TypeOK' OBVIOUS
<1> TypeOK /\ (\A r \in Refreshes : RefreshHolds(r)) /\ \A l \in Lookups : LookupHolds(l) BY DEF IndexInv
<1>1. NoPage \in [ids : SUBSET Nat, total : Nat] /\ NoSpan \in [low : Nat, high : Nat, below : Nat]
      /\ NoResult \in Progress /\ NoScan \in [offset : Nat, last : Nat, pages : Nat]
      /\ \A g \in Nat : Empty(g) \in Checkpoint
  BY DEF NoPage, NoSpan, NoResult, NoScan, None, Empty, Checkpoint, Progress, Unread, Never
<1>2. CASE Issue BY <1>2 DEF TypeOK, Next, Issue, indexVars, refreshVars, lookupVars
<1>3. CASE Delete BY <1>3 DEF TypeOK, Next, Delete, indexVars, refreshVars, lookupVars
<1>4. CASE LeaseExpires BY <1>4 DEF TypeOK, Next, LeaseExpires, remoteVars, indexVars, refreshVars, lookupVars
<1>5. CASE Deliver
  <2>1. progress' \in [Lookups -> Progress] BY <1>5, Environment DEF TypeOK, Deliver
  <2>2. join' \in [Lookups -> {"none", "now", "next", "got"}] BY <1>5 DEF TypeOK, Deliver
  <2>3. result' \in [Refreshes -> Progress] BY <1>1, <1>5 DEF TypeOK, Deliver
  <2>4. rpc' \in [Refreshes -> {"idle", "clock", "request", "page", "search", "done"}] /\ mine' \in [Refreshes -> Checkpoint]
        /\ sharedAt' \in Nat
    <3>1. CASE StartRefresh BY <3>1 DEF TypeOK, StartRefresh
    <3>2. CASE rpc' = [rpc EXCEPT ![Shared] = "idle"] /\ UNCHANGED <<mine, sharedAt>> BY <3>2 DEF TypeOK
    <3> QED BY <1>5, <3>1, <3>2 DEF Deliver
  <2> QED BY <1>5, <2>1, <2>2, <2>3, <2>4 DEF TypeOK, Next, Deliver, remoteVars, indexVars
<1>6. ASSUME NEW r \in Runners, Acquire(r) PROVE TypeOK'
  BY <1>1, <1>6, Environment DEF TypeOK, Next, Acquire, remoteVars, indexVars, refreshVars, lookupVars
<1>7. ASSUME NEW r \in Runners, Release(r) PROVE TypeOK'
  BY <1>1, <1>7, Environment DEF TypeOK, Next, Release, remoteVars, indexVars, refreshVars, lookupVars
<1>8. ASSUME NEW r \in Refreshes, Advance(r) PROVE TypeOK'
  <2>1. CASE TakeClock(r)
    BY <2>1 DEF TypeOK, Next, TakeClock, OnlyRefresh, remoteVars, indexVars, lookupVars
  <2>2. CASE ReadPage(r)
    <3>1. \A p \in Int : Ascending(p) \in SUBSET Nat BY Finite DEF Ascending
    <3>2. mine[r].scanned - Overlap(mine[r]) \in Int BY DEF TypeOK, Checkpoint, Overlap
    <3> DEFINE new == [ids |-> Ascending(mine[r].scanned - Overlap(mine[r])), total |-> Cardinality(remote)]
    <3>3. new \in [ids : SUBSET Nat, total : Nat] BY <3>1, <3>2, Finite
    <3>4. page' = [page EXCEPT ![r] = new] BY <2>2 DEF ReadPage
    <3> HIDE DEF new
    <3> QED BY <2>2, <3>3, <3>4 DEF TypeOK, Next, ReadPage, OnlyRefresh, remoteVars, indexVars, lookupVars
  <2>3. CASE Save(r)
    <3>1. Fresh(r) \subseteq Nat /\ Scanned(r) \in Nat /\ NewLast(r) \in Nat /\ page[r].total \in Nat /\ clock[r] \in Nat
      BY <1>8, <2>3, FreshIsFinite DEF Save, TypeOK
    <3>2. CASE Unmoved(r)
      <4> DEFINE asOf == IF Scanned(r) >= page[r].total THEN clock[r] ELSE st.asOf
      <4>1. st' = [st EXCEPT !.scanned = Scanned(r), !.last = NewLast(r), !.total = page[r].total, !.asOf = asOf]
            /\ indexed' = indexed \cup Fresh(r)
        BY <2>3, <3>2 DEF Save, SavePage
      <4>2. st' \in Checkpoint /\ indexed' \subseteq Nat
        <5>1. asOf \in Int /\ page[r].total \in Int BY <3>1 DEF TypeOK, Checkpoint
        <5> HIDE DEF asOf
        <5> QED BY <3>1, <4>1, <5>1 DEF TypeOK, Checkpoint
      <4>3. CASE Scanned(r) >= page[r].total
        <5>1. [current |-> TRUE, asOf |-> clock[r], scanned |-> Scanned(r)] \in Progress BY <3>1 DEF Progress
        <5>2. Finish(r, [current |-> TRUE, asOf |-> clock[r], scanned |-> Scanned(r)]) BY <2>3, <3>2, <4>3 DEF Save
        <5> QED BY <2>3, <4>2, <5>1, <5>2, FinishTyped DEF TypeOK, Next, Save, remoteVars, lookupVars
      <4>4. CASE ~(Scanned(r) >= page[r].total)
        <5>1. mine' = [mine EXCEPT ![r] = st'] /\ rpc' = [rpc EXCEPT ![r] = "clock"] /\ page' = [page EXCEPT ![r] = NoPage]
              /\ UNCHANGED <<clock, span, result>> /\ UNCHANGED <<remoteVars, lease, lookupVars>> /\ env' = env
          BY <2>3, <3>2, <4>4 DEF Save, Next
        <5> QED BY <1>1, <4>2, <5>1 DEF TypeOK, remoteVars, lookupVars
      <4> QED BY <4>3, <4>4
    <3>3. CASE ~Unmoved(r)
      <4>1. mine' = [mine EXCEPT ![r] = st] /\ rpc' = [rpc EXCEPT ![r] = "clock"] /\ page' = [page EXCEPT ![r] = NoPage]
            /\ UNCHANGED <<indexVars, clock, span, result>> /\ UNCHANGED <<remoteVars, lease, lookupVars>> /\ env' = env
        BY <2>3, <3>3 DEF Save, Next
      <4> QED BY <1>1, <4>1 DEF TypeOK, remoteVars, indexVars, lookupVars
    <3> QED BY <3>2, <3>3
  <2>4. CASE NoProgress(r)
    BY <1>1, <2>4, FinishTyped DEF TypeOK, Next, NoProgress, OnlyRefresh, remoteVars, indexVars, lookupVars
  <2>5. CASE ResetIndex(r)
    <3>1. st.generation + 1 \in Nat BY DEF TypeOK, Checkpoint
    <3>2. st' \in Checkpoint BY <1>1, <2>5, <3>1 DEF TypeOK, ResetIndex
    <3> QED BY <1>1, <2>5, <3>2, FinishTyped DEF TypeOK, Next, ResetIndex, remoteVars, lookupVars
  <2>6. CASE Mismatch(r)
    BY <2>6 DEF TypeOK, Next, Mismatch, OnlyRefresh, remoteVars, indexVars, lookupVars, None
  <2>7. CASE Probe(r)
    <3>1. PICK i \in remote : span' = [span EXCEPT ![r] = IF i <= mine[r].last
              THEN [@ EXCEPT !.low = (span[r].low + span[r].high) \div 2 + 1, !.below = i]
              ELSE [@ EXCEPT !.high = (span[r].low + span[r].high) \div 2]]
      BY <2>7 DEF Probe
    <3>2. span[r].low \in Nat /\ span[r].high \in Nat /\ i \in Nat BY Finite DEF TypeOK
    <3>3. (span[r].low + span[r].high) \div 2 \in Nat BY <3>2
    <3>4. span' \in [Refreshes -> [low : Nat, high : Nat, below : Nat]]
      <4> DEFINE middle == (span[r].low + span[r].high) \div 2
      <4>1. middle + 1 \in Nat /\ middle \in Nat BY <3>3
      <4>2. span' = [span EXCEPT ![r] = IF i <= mine[r].last THEN [@ EXCEPT !.low = middle + 1, !.below = i]
                                                            ELSE [@ EXCEPT !.high = middle]]
        BY <3>1
      <4> HIDE DEF middle
      <4> DEFINE found == [span[r] EXCEPT !.low = middle + 1, !.below = i]
                 passed == [span[r] EXCEPT !.high = middle]
      <4>3. found \in [low : Nat, high : Nat, below : Nat] /\ passed \in [low : Nat, high : Nat, below : Nat]
        <5>1. span[r] \in [low : Nat, high : Nat, below : Nat] BY <1>8 DEF TypeOK
        <5>2. \A q \in [low : Nat, high : Nat, below : Nat], m, n \in Nat :
                /\ [q EXCEPT !.low = m, !.below = n] \in [low : Nat, high : Nat, below : Nat]
                /\ [q EXCEPT !.high = m] \in [low : Nat, high : Nat, below : Nat]
          OBVIOUS
        <5> QED BY <3>2, <4>1, <5>1, <5>2
      <4>4. span' = [span EXCEPT ![r] = found] \/ span' = [span EXCEPT ![r] = passed] BY <4>2
      <4> HIDE DEF found, passed
      <4> QED BY <4>3, <4>4 DEF TypeOK
    <3> QED BY <2>7, <3>4 DEF TypeOK, Next, Probe, OnlyRefresh, remoteVars, indexVars, lookupVars
  <2>8. CASE Reposition(r)
    <3>1. span[r].low \in Nat /\ span[r].below \in Nat /\ page[r].total \in Nat BY DEF TypeOK
    <3>2. st' \in Checkpoint
      <4>1. CASE Unmoved(r)
        <5>1. st' = [st EXCEPT !.scanned = span[r].low, !.last = span[r].below, !.total = page[r].total]
          BY <2>8, <4>1 DEF Reposition
        <5>2. page[r].total \in Int BY <3>1
        <5> QED BY <3>1, <5>1, <5>2 DEF TypeOK, Checkpoint
      <4>2. CASE ~Unmoved(r) BY <2>8, <4>2 DEF TypeOK, Reposition
      <4> QED BY <4>1, <4>2
    <3> QED BY <1>1, <2>8, <3>2 DEF TypeOK, Next, Reposition, remoteVars, lookupVars
  <2>9. CASE GiveUp(r)
    BY <1>1, <2>9, FinishTyped DEF TypeOK, Next, GiveUp, OnlyRefresh, remoteVars, indexVars, lookupVars
  <2> QED BY <1>8, <2>1, <2>2, <2>3, <2>4, <2>5, <2>6, <2>7, <2>8, <2>9 DEF Advance
<1>9. ASSUME NEW l \in Lookups, Lookup(l) PROVE TypeOK'
  <2>1. CASE Snapshot(l)
    BY <2>1, Finite DEF TypeOK, Next, Snapshot, Path, OnlyLookup, remoteVars, indexVars, refreshVars, lookupVars
  <2>2. CASE Reuse(l)
    BY <2>2 DEF TypeOK, Next, Reuse, Path, OnlyLookup, remoteVars, indexVars, refreshVars, lookupVars
  <2>3. CASE Join(l)
    BY <2>3 DEF TypeOK, Next, Join, Joins, OnlyLookup, remoteVars, indexVars, refreshVars, lookupVars
  <2>4. CASE Queue(l)
    BY <2>4 DEF TypeOK, Next, Queue, Joins, OnlyLookup, remoteVars, indexVars, refreshVars, lookupVars
  <2>5. CASE Fetch(l)
    BY <2>5, Environment DEF TypeOK, Next, Fetch, StartRefresh, Joins, remoteVars, indexVars, refreshVars, lookupVars
  <2>6. CASE Judge(l)
    <3>1. Candidates(l) \subseteq Nat BY <1>9 DEF TypeOK, Candidates
    <3>2. cand' \in [Lookups -> SUBSET Nat] BY <2>6, <3>1 DEF TypeOK, Judge
    <3>3. lpc' \in [Lookups -> {"idle", "index", "floor", "indexed", "scanned", "unproven"}]
          /\ tried' \in [Lookups -> SUBSET {"index", "floor"}]
      <4>1. CASE Confirms(l) BY <2>6, <4>1 DEF TypeOK, Judge, Path
      <4>2. CASE ~Confirms(l)
        <5>1. Fails(l, "index") BY <2>6, <4>2 DEF Judge
        <5> QED BY <5>1, FailsTyped
      <4> QED BY <4>1, <4>2
    <3>4. join' \in [Lookups -> {"none", "now", "next", "got"}] /\ progress' \in [Lookups -> Progress]
      BY <1>1, <2>6 DEF TypeOK, Judge, Joins
    <3> QED BY <2>6, <3>2, <3>3, <3>4 DEF TypeOK, Next, Judge, OnlyLookup, remoteVars, indexVars, refreshVars
  <2>7. CASE Scan(l)
    <3>1. ScanHas(l) BY <1>9 DEF LookupHolds
    <3>2. ScanFresh(l) \subseteq Nat /\ Cardinality(ScanFresh(l)) \in Nat /\ (ScanFresh(l) # {} => Min(ScanFresh(l)) \in Nat)
      BY <1>9, <3>1, ScanIsFinite, Finite
    <3>3. cand' \in [Lookups -> SUBSET Nat] BY <1>9, <2>7, <3>2, ScanSteps DEF TypeOK
    <3>4. lpc' \in [Lookups -> {"idle", "index", "floor", "indexed", "scanned", "unproven"}]
          /\ tried' \in [Lookups -> SUBSET {"index", "floor"}]
      <4>1. CASE Fails(l, "floor") BY <4>1, FailsTyped
      <4>2. CASE ~Fails(l, "floor") BY <1>9, <2>7, <4>2, ScanSteps DEF TypeOK, Path
      <4> QED BY <4>1, <4>2
    <3>5. scan' \in [Lookups -> [offset : Nat, last : Nat, pages : Nat]]
      <4>1. scan[l].offset \in Nat /\ scan[l].pages \in Nat BY <1>9 DEF TypeOK
      <4> DEFINE new == [offset |-> scan[l].offset + Cardinality(ScanFresh(l)), last |-> Min(ScanFresh(l)), pages |-> scan[l].pages + 1]
      <4>2. scan' = scan \/ (ScanFresh(l) # {} /\ scan' = [scan EXCEPT ![l] = new]) BY <1>9, <2>7, ScanSteps
      <4>3. ScanFresh(l) # {} => new \in [offset : Nat, last : Nat, pages : Nat] BY <3>2, <4>1
      <4> HIDE DEF new
      <4> QED BY <4>2, <4>3 DEF TypeOK
    <3>6. UNCHANGED <<since, known, existed, join, progress>> /\ OnlyLookup BY <1>9, <2>7, ScanSteps
    <3> QED BY <3>3, <3>4, <3>5, <3>6 DEF TypeOK, Next, OnlyLookup, remoteVars, indexVars, refreshVars
  <2>8. CASE Reread(l)
    BY <1>1, <2>8 DEF TypeOK, Next, Reread, remoteVars, indexVars, refreshVars, lookupVars
  <2> QED BY <1>9, <2>1, <2>2, <2>3, <2>4, <2>5, <2>6, <2>7, <2>8 DEF Lookup
<1> QED BY <1>2, <1>3, <1>4, <1>5, <1>6, <1>7, <1>8, <1>9 DEF Next, Step
-----------------------------------------------------------------------------
(* The steps, one lemma each.                                              *)
LEMMA InitIndex == Init => IndexInv
<1> SUFFICES ASSUME Init PROVE IndexInv OBVIOUS
<1>1. TypeOK BY InitTyped
<1>2. issued \in Nat /\ remote = 1..issued BY <1>1 DEF Init, TypeOK
<1>3. \A n \in {0, -1} : n <= issued /\ Covered(n) BY <1>2 DEF Covered
<1>4. Sound(st) /\ \A r \in Refreshes : Sound(mine[r])
  BY <1>2, <1>3 DEF Init, Sound, Empty, None, Never
<1>5. \A r \in Refreshes : RefreshHolds(r)
  BY <1>2, <1>4 DEF Init, RefreshHolds, PageHolds, SearchHolds, Reliable, NoResult
<1>6. \A l \in Lookups : LookupHolds(l)
  BY <1>2 DEF Init, LookupHolds, KnownHolds, ScanHas, ProofHolds, Reliable, NoResult, NoScan, Empty, None
<1> QED BY <1>1, <1>2, <1>4, <1>5, <1>6 DEF IndexInv, Gapless

LEMMA Calm ==
  ASSUME IndexInv, UNCHANGED <<remote, issued, deleted>>, \A i \in remote : i \in indexed => i \in indexed'
  PROVE  World
BY DEF IndexInv, TypeOK, World, Gapless

LEMMA EmptyIsSound ==
  ASSUME TypeOK'
  PROVE  /\ \A r \in Refreshes : mine'[r] = Empty(0) => Sound(mine[r])'
         /\ \A g \in Nat : st' = Empty(g) => Sound(st)'
<1>1. \A n \in {0, -1} : n <= issued' /\ \A i \in remote' : i <= n => i \in indexed' BY DEF TypeOK
<1> QED BY <1>1 DEF Sound, Covered, Empty, None, Never

LEMMA FinishHolds ==
  ASSUME TypeOK, TypeOK', NEW r \in Refreshes, NEW outcome, Finish(r, outcome), Reliable(result[r])'
  PROVE  RefreshHolds(r)' /\ \A q \in Refreshes \ {r} : Still(q)
<1>1. mine'[r] = Empty(0) /\ clock'[r] = 0 /\ rpc'[r] = "done" BY DEF Finish, TypeOK
<1>2. Sound(mine[r])' BY <1>1, EmptyIsSound
<1>3. issued' \in Nat BY DEF TypeOK
<1> QED BY <1>1, <1>2, <1>3 DEF RefreshHolds, PageHolds, SearchHolds, Finish, Still, TypeOK

LEMMA NoResultReliable == ASSUME NEW r \in Refreshes, TypeOK, NEW outcome, Finish(r, outcome), ~outcome.current
                          PROVE  Reliable(result[r])'
BY DEF Finish, Reliable, TypeOK

LEMMA ListChanges == ASSUME IndexInv, TypeOK', env' = env, Issue \/ Delete PROVE IndexInv'
<1>1. World
  <2>1. CASE Issue
    <3>1. issued \in Nat /\ deleted' = deleted /\ issued' = issued + 1 /\ remote' = remote \cup {issued + 1} /\ indexed' = indexed
      BY <2>1 DEF Issue, IndexInv, TypeOK, indexVars
    <3>2. Gapless' BY <3>1 DEF IndexInv, Gapless
    <3> QED BY <3>1, <3>2 DEF IndexInv, TypeOK, World
  <2>2. CASE Delete
    <3>1. deleted \in Nat /\ deleted' = deleted + 1 /\ issued' = issued /\ remote' \subseteq remote /\ indexed' = indexed
      BY <2>2 DEF Delete, IndexInv, TypeOK, indexVars
    <3>2. Gapless' BY <3>1 DEF Gapless
    <3> QED BY <3>1, <3>2 DEF IndexInv, TypeOK, World
  <2> QED BY <2>1, <2>2
<1>2. \A r \in Refreshes : Still(r) BY DEF Issue, Delete, refreshVars, Still
<1>3. \A l \in Lookups : Waiting(l) BY DEF Issue, Delete, lookupVars, Waiting, Kept
<1>4. st' = st BY DEF Issue, Delete, indexVars
<1> QED BY <1>1, <1>2, <1>3, <1>4, NothingMoves

LEMMA LeaseSteps ==
  ASSUME IndexInv, TypeOK', env' = env, LeaseExpires \/ \E r \in Runners : Acquire(r) \/ Release(r)
  PROVE  IndexInv'
<1>1. World BY Calm DEF LeaseExpires, Acquire, Release, remoteVars, indexVars
<1>2. \A l \in Lookups : Waiting(l) BY DEF LeaseExpires, Acquire, Release, lookupVars, Waiting, Kept
<1>3. st' = st BY DEF LeaseExpires, Acquire, Release, indexVars
<1>4. Sound(st)' BY <1>1, <1>3, SoundStays DEF IndexInv
<1>5. CASE LeaseExpires
  <2>1. \A r \in Refreshes : Still(r) BY <1>5 DEF LeaseExpires, refreshVars, Still
  <2> QED BY <1>1, <1>2, <1>3, <2>1, NothingMoves
<1>6. ASSUME NEW r \in Runners, Acquire(r) PROVE IndexInv'
  <2>1. r \in Refreshes BY DEF Refreshes
  <2>2. \A q \in Refreshes \ {r} : Still(q) BY <1>6 DEF Acquire, Still, IndexInv, TypeOK
  <2>3. mine'[r] = st /\ rpc'[r] = "clock" /\ clock' = clock /\ result' = result BY <1>6, <2>1 DEF Acquire, IndexInv, TypeOK
  <2>4. Sound(mine[r])' /\ Reliable(result[r])' BY <1>1, <2>1, <2>3, SoundStays DEF IndexInv, RefreshHolds
  <2>5. clock'[r] <= issued' BY <1>6, <2>1 DEF Acquire, remoteVars, IndexInv, RefreshHolds
  <2>6. RefreshHolds(r)' BY <2>3, <2>4, <2>5 DEF RefreshHolds, PageHolds, SearchHolds
  <2> QED BY <1>1, <1>2, <1>4, <2>1, <2>2, <2>6, OneRefresh
<1>7. ASSUME NEW r \in Runners, Release(r) PROVE IndexInv'
  <2>1. r \in Refreshes BY DEF Refreshes
  <2>2. \A q \in Refreshes \ {r} : Still(q) BY <1>7 DEF Release, Still, IndexInv, TypeOK
  <2>3. result'[r] = NoResult /\ rpc'[r] = "idle" /\ clock' = clock /\ mine' = mine BY <1>7, <2>1 DEF Release, IndexInv, TypeOK
  <2>4. Sound(mine[r])' /\ Reliable(result[r])' BY <1>1, <2>1, <2>3, SoundStays DEF IndexInv, RefreshHolds, Reliable, NoResult
  <2>5. clock'[r] <= issued' BY <1>7, <2>1 DEF Release, remoteVars, IndexInv, RefreshHolds
  <2>6. RefreshHolds(r)' BY <2>3, <2>4, <2>5 DEF RefreshHolds, PageHolds, SearchHolds
  <2> QED BY <1>1, <1>2, <1>4, <2>1, <2>2, <2>6, OneRefresh
<1> QED BY <1>5, <1>6, <1>7

(* Steps of a refresh that write nothing.                                  *)
LEMMA RefreshReads ==
  ASSUME IndexInv, TypeOK', env' = env, NEW r \in Refreshes, OnlyRefresh, \A q \in Refreshes \ {r} : Still(q), RefreshHolds(r)'
  PROVE  IndexInv'
<1>1. World BY Calm DEF OnlyRefresh, remoteVars, indexVars
<1>2. \A l \in Lookups : Waiting(l) BY DEF OnlyRefresh, lookupVars, Waiting, Kept
<1>3. Sound(st)' BY <1>1, SoundStays DEF IndexInv, OnlyRefresh, indexVars
<1> QED BY <1>1, <1>2, <1>3, OneRefresh

LEMMA TakeClockKeeps ==
  ASSUME IndexInv, TypeOK', env' = env, NEW r \in Refreshes, TakeClock(r) PROVE IndexInv'
<1>1. World BY Calm DEF TakeClock, OnlyRefresh, remoteVars, indexVars
<1>2. \A q \in Refreshes \ {r} : Still(q) BY DEF TakeClock, Still, IndexInv, TypeOK
<1>3. mine' = mine /\ result' = result /\ rpc'[r] = "request" /\ clock'[r] = issued /\ issued' = issued
  BY DEF TakeClock, OnlyRefresh, remoteVars, IndexInv, TypeOK
<1>4. Sound(mine[r])' /\ Reliable(result[r])' BY <1>1, <1>3, SoundStays DEF IndexInv, RefreshHolds
<1>5. clock'[r] <= issued' BY <1>3 DEF TypeOK
<1>6. RefreshHolds(r)' BY <1>3, <1>4, <1>5 DEF RefreshHolds, PageHolds, SearchHolds
<1> QED BY <1>2, <1>6, RefreshReads DEF TakeClock

LEMMA EndsEmpty ==
  ASSUME IndexInv, TypeOK', env' = env, NEW r \in Refreshes, GiveUp(r) \/ NoProgress(r) PROVE IndexInv'
<1>1. Finish(r, NoResult) /\ OnlyRefresh BY DEF GiveUp, NoProgress
<1>2. Reliable(result[r])' BY <1>1, NoResultReliable DEF NoResult, IndexInv
<1>3. RefreshHolds(r)' /\ \A q \in Refreshes \ {r} : Still(q) BY <1>1, <1>2, FinishHolds DEF IndexInv
<1> QED BY <1>1, <1>3, RefreshReads

LEMMA ResetKeeps ==
  ASSUME IndexInv, TypeOK', env' = env, NEW r \in Refreshes, ResetIndex(r) PROVE IndexInv'
<1>1. World BY Calm DEF ResetIndex, remoteVars
<1>2. Finish(r, NoResult) BY DEF ResetIndex
<1>3. Reliable(result[r])' BY <1>2, NoResultReliable DEF NoResult, IndexInv
<1>4. RefreshHolds(r)' /\ \A q \in Refreshes \ {r} : Still(q) BY <1>2, <1>3, FinishHolds DEF IndexInv
<1>5. \A l \in Lookups : Waiting(l) BY DEF ResetIndex, lookupVars, Waiting, Kept
<1>6. st.generation + 1 \in Nat BY DEF IndexInv, TypeOK, Checkpoint
<1>7. Sound(st)' BY <1>1, <1>6, EmptyIsSound, SoundStays DEF ResetIndex, IndexInv
<1> QED BY <1>1, <1>4, <1>5, <1>7, OneRefresh

LEMMA MismatchKeeps ==
  ASSUME IndexInv, TypeOK', env' = env, NEW r \in Refreshes, Mismatch(r) PROVE IndexInv'
<1>1. World BY Calm DEF Mismatch, OnlyRefresh, remoteVars, indexVars
<1>2. \A q \in Refreshes \ {r} : Still(q) BY DEF Mismatch, Still, IndexInv, TypeOK
<1>3. mine' = mine /\ result' = result /\ clock' = clock /\ rpc'[r] = "search" /\ issued' = issued
      /\ span'[r].low = 0 /\ span'[r].below = 0
  BY DEF Mismatch, OnlyRefresh, remoteVars, IndexInv, TypeOK, None
<1>4. Sound(mine[r])' /\ Reliable(result[r])' BY <1>1, <1>3, SoundStays DEF IndexInv, RefreshHolds
<1>5. mine[r].last \in Nat BY DEF IndexInv, TypeOK, Checkpoint
<1>6. SearchHolds(r)' BY <1>3, <1>5 DEF SearchHolds, None
<1>7. RefreshHolds(r)' BY <1>3, <1>4, <1>6 DEF RefreshHolds, PageHolds, IndexInv
<1> QED BY <1>2, <1>7, RefreshReads DEF Mismatch

LEMMA RepositionKeeps ==
  ASSUME IndexInv, TypeOK', env' = env, NEW r \in Refreshes, Reposition(r) PROVE IndexInv'
<1>1. World BY Calm DEF Reposition, remoteVars
<1>2. \A q \in Refreshes \ {r} : Still(q) BY DEF Reposition, Still, IndexInv, TypeOK
<1>3. \A l \in Lookups : Waiting(l) BY DEF Reposition, lookupVars, Waiting, Kept
<1>4. mine'[r] = st' /\ result' = result /\ clock' = clock /\ rpc'[r] = "clock"
      /\ UNCHANGED <<remote, issued, deleted, indexed>>
  BY DEF Reposition, remoteVars, IndexInv, TypeOK
<1>5. Sound(st)'
  <2>1. CASE ~Unmoved(r) BY <1>1, <2>1, SoundStays DEF Reposition, IndexInv
  <2>2. CASE Unmoved(r)
    <3>1. st' = [st EXCEPT !.scanned = span[r].low, !.last = span[r].below, !.total = page[r].total]
      BY <2>2 DEF Reposition
    <3>2. st'.scanned = span[r].low /\ st'.last = span[r].below /\ st'.asOf = st.asOf
      BY <3>1 DEF IndexInv, TypeOK, Checkpoint
    <3>3. /\ span[r].below <= mine[r].last /\ (span[r].low = 0 <=> span[r].below = None)
          /\ deleted = 0 => span[r].low = span[r].below
      BY DEF Reposition, IndexInv, RefreshHolds, SearchHolds
    <3>4. mine[r].last <= issued /\ Covered(mine[r].last) BY DEF IndexInv, RefreshHolds, Sound
    <3>5. {span[r].below, mine[r].last, issued} \subseteq Nat /\ \A i \in remote : i \in Nat
      BY Finite DEF IndexInv, TypeOK, Checkpoint
    <3>6. span[r].below <= issued /\ Covered(span[r].below) BY <3>3, <3>4, <3>5 DEF Covered
    <3>7. st.asOf <= issued /\ Covered(st.asOf) BY DEF IndexInv, Sound
    <3> QED BY <1>4, <3>2, <3>3, <3>6, <3>7 DEF Sound, Covered
  <2> QED BY <2>1, <2>2
<1>6. Sound(mine[r])' BY <1>4, <1>5 DEF Sound, Covered
<1>7. Reliable(result[r])' BY <1>1, <1>4, SoundStays DEF IndexInv, RefreshHolds
<1>8. RefreshHolds(r)' BY <1>4, <1>6, <1>7 DEF RefreshHolds, PageHolds, SearchHolds, IndexInv
<1> QED BY <1>1, <1>2, <1>3, <1>5, <1>8, OneRefresh

LEMMA ProbeKeeps ==
  ASSUME IndexInv, TypeOK', env' = env, NEW r \in Refreshes, Probe(r) PROVE IndexInv'
<1>1. World BY Calm DEF Probe, OnlyRefresh, remoteVars, indexVars
<1>2. \A q \in Refreshes \ {r} : Still(q) BY DEF Probe, Still, IndexInv, TypeOK
<1>3. mine' = mine /\ result' = result /\ clock' = clock /\ rpc' = rpc /\ rpc[r] = "search" /\ issued' = issued /\ deleted' = deleted
  BY DEF Probe, OnlyRefresh, remoteVars
<1>4. Sound(mine[r])' /\ Reliable(result[r])' BY <1>1, <1>3, SoundStays DEF IndexInv, RefreshHolds
<1> DEFINE middle == (span[r].low + span[r].high) \div 2
<1>5. PICK i \in remote : Older(i) = middle /\
        span' = [span EXCEPT ![r] = IF i <= mine[r].last THEN [@ EXCEPT !.low = middle + 1, !.below = i]
                                                        ELSE [@ EXCEPT !.high = middle]]
  BY DEF Probe
<1>6. i \in Nat \ {0} /\ Older(i) \in Nat /\ (deleted = 0 => Older(i) = i - 1)
  BY OlderIsOrder, OlderCounts DEF IndexInv, TypeOK
<1>7. middle \in Nat /\ (deleted = 0 => middle + 1 = i) BY <1>5, <1>6
<1>8. span[r] \in [low : Nat, high : Nat, below : Nat] BY DEF IndexInv, TypeOK
<1>9. SearchHolds(r) BY DEF IndexInv, RefreshHolds
<1> HIDE DEF middle
<1>10. CASE i <= mine[r].last
  <2>1. span'[r] = [span[r] EXCEPT !.low = middle + 1, !.below = i] BY <1>5, <1>10 DEF IndexInv, TypeOK
  <2>2. span'[r].low = middle + 1 /\ span'[r].below = i BY <1>8, <2>1
  <2>3. SearchHolds(r)' BY <1>3, <1>6, <1>7, <1>10, <2>2 DEF SearchHolds, None
  <2>4. RefreshHolds(r)' BY <1>3, <1>4, <2>3 DEF RefreshHolds, PageHolds, IndexInv
  <2> QED BY <1>2, <2>4, RefreshReads DEF Probe
<1>11. CASE ~(i <= mine[r].last)
  <2>1. span'[r] = [span[r] EXCEPT !.high = middle] BY <1>5, <1>11 DEF IndexInv, TypeOK
  <2>2. span'[r].low = span[r].low /\ span'[r].below = span[r].below BY <1>8, <2>1
  <2>3. SearchHolds(r)' BY <1>3, <1>9, <2>2 DEF SearchHolds
  <2>4. RefreshHolds(r)' BY <1>3, <1>4, <2>3 DEF RefreshHolds, PageHolds, IndexInv
  <2> QED BY <1>2, <2>4, RefreshReads DEF Probe
<1> QED BY <1>10, <1>11

(* The request: what a page tells of the list it was read from.            *)
LEMMA Overlaps ==
  ASSUME IndexInv, NEW r \in Refreshes
  PROVE  /\ mine[r].scanned \in Nat /\ mine[r].last \in Nat
         /\ Overlap(mine[r]) \in {0, 1} /\ mine[r].scanned - Overlap(mine[r]) \in Nat
         /\ Overlap(mine[r]) = 0 => mine[r].scanned = 0 /\ mine[r].last = 0
BY DEF IndexInv, TypeOK, Checkpoint, RefreshHolds, Sound, Overlap, None

LEMMA ReadPageKeeps ==
  ASSUME IndexInv, TypeOK', env' = env, NEW r \in Refreshes, ReadPage(r) PROVE IndexInv'
<1> DEFINE p == mine[r].scanned - Overlap(mine[r])
           ids == Ascending(p)
           last == mine[r].last
<1>1. World BY Calm DEF ReadPage, OnlyRefresh, remoteVars, indexVars
<1>2. \A q \in Refreshes \ {r} : Still(q) BY DEF ReadPage, Still, IndexInv, TypeOK
<1>3. mine' = mine /\ result' = result /\ clock' = clock /\ rpc'[r] = "page"
      /\ UNCHANGED <<remote, issued, deleted>> /\ page'[r] = [ids |-> ids, total |-> Cardinality(remote)]
  BY DEF ReadPage, OnlyRefresh, remoteVars, IndexInv, TypeOK
<1>4. Sound(mine[r])' /\ Reliable(result[r])' BY <1>1, <1>3, SoundStays DEF IndexInv, RefreshHolds
<1>5. p \in Nat /\ Overlap(mine[r]) \in {0, 1} /\ (Overlap(mine[r]) = 0 => p = 0 /\ last = 0)
      /\ last \in Nat /\ mine[r].scanned \in Nat /\ mine[r].scanned = p + Overlap(mine[r])
  BY Overlaps
<1>6. TypeOK /\ Gapless /\ issued \in Nat /\ remote \subseteq 1..issued /\ clock[r] <= issued BY DEF IndexInv, TypeOK, RefreshHolds
<1> HIDE DEF p
<1>7. /\ ids \subseteq remote /\ Cardinality(ids) \in Nat
      /\ \A i \in remote : i \in ids => p <= Older(i)
      /\ \A i \in remote, k \in ids : i <= k /\ p <= Older(i) => i \in ids
      /\ p + Cardinality(ids) >= Cardinality(remote) => \A i \in remote : p <= Older(i) => i \in ids
  BY <1>5, <1>6, AscendingPage
<1>8. ids \subseteq 1..issued /\ IsFiniteSet(ids) /\ ids \subseteq Nat BY <1>6, <1>7, Finite
<1> HIDE DEF ids, last
<1>9. mine'[r].last = last /\ page'[r].ids = ids /\ page'[r].total = Cardinality(remote)
      /\ (OverlapHolds(r)' <=> (Overlap(mine[r]) = 1 => last \in ids /\ \A i \in ids : last <= i))
      /\ Fresh(r)' = {i \in ids : Overlap(mine[r]) = 1 => \E j \in ids : j < i}
  BY <1>3 DEF OverlapHolds, Fresh, last
<1>10. ASSUME OverlapHolds(r)', NEW i \in remote, last < i PROVE p <= Older(i)
  <2>1. Older(i) \in Nat BY <1>6, OlderIsOrder
  <2>2. CASE Overlap(mine[r]) = 0 BY <1>5, <2>1, <2>2
  <2>3. CASE Overlap(mine[r]) = 1
    <3>1. last \in remote BY <1>7, <1>9, <1>10, <2>3
    <3>2. p <= Older(last) /\ Older(last) < Older(i) /\ Older(last) \in Nat
      BY <1>6, <1>7, <1>9, <1>10, <2>3, <3>1, OlderIsOrder
    <3> QED BY <1>5, <2>1, <3>2
  <2> QED BY <1>5, <2>2, <2>3
<1>11. OverlapHolds(r)' => NoGap(r)'
  <2> SUFFICES ASSUME OverlapHolds(r)', NEW i \in remote, NEW k \in ids, last < i, i <= k PROVE i \in ids
    BY <1>3, <1>9 DEF NoGap
  <2> QED BY <1>7, <1>10
<1>12. ASSUME OverlapHolds(r)', (Scanned(r))' >= page'[r].total PROVE NoRest(r)'
  <2>1. (Scanned(r))' = mine[r].scanned + Cardinality(Fresh(r)') BY <1>3 DEF Scanned
  <2>2. (Scanned(r))' = p + Cardinality(ids)
    <3>1. CASE Overlap(mine[r]) = 0
      <4>1. Fresh(r)' = ids BY <1>9, <3>1
      <4> QED BY <1>5, <1>7, <2>1, <3>1, <4>1
    <3>2. CASE Overlap(mine[r]) = 1
      <4>1. last \in ids /\ \A i \in ids : last <= i BY <1>9, <1>12, <3>2
      <4>2. \A i \in ids : i # last => last < i BY <1>5, <1>8, <4>1
      <4>3. Fresh(r)' = ids \ {last}
        <5>1. \A i \in ids : (\E j \in ids : j < i) <=> i # last BY <1>5, <1>8, <4>1, <4>2
        <5> QED BY <1>9, <3>2, <5>1
      <4>4. Cardinality(ids \ {last}) = Cardinality(ids) - 1 BY <1>8, <4>1, FS_RemoveElement
      <4> QED BY <1>5, <1>7, <2>1, <3>2, <4>3, <4>4
    <3> QED BY <1>5, <3>1, <3>2
  <2>3. \A i \in remote : p <= Older(i) => i \in ids BY <1>7, <1>9, <1>12, <2>2
  <2> QED BY <1>3, <1>9, <1>10, <1>12, <2>3 DEF NoRest
<1>13. ASSUME deleted = 0 PROVE page'[r].ids = (From(r))'..(To(r))' /\ clock'[r] <= page'[r].total
  <2>1. remote = 1..issued /\ Cardinality(remote) = issued /\ \A i \in remote : Older(i) = i - 1
    BY <1>6, <1>13, OlderCounts DEF Gapless
  <2>2. PageSize \in Nat BY IndexAssumption
  <2>3. ids = {i \in 1..issued : i - 1 \in p..(p + PageSize - 1)} BY <2>1 DEF ids, Ascending, On
  <2>4. (From(r))' = p + 1 /\ (To(r))' = IF p + PageSize < issued THEN p + PageSize ELSE issued
    BY <1>3, <1>9, <2>1 DEF From, To, p, Overlap
  <2>5. ids = (p + 1)..(IF p + PageSize < issued THEN p + PageSize ELSE issued) BY <1>5, <1>6, <2>2, <2>3
  <2> QED BY <1>3, <1>6, <1>9, <2>1, <2>4, <2>5
<1>14. PageHolds(r)' BY <1>3, <1>8, <1>9, <1>11, <1>12, <1>13 DEF PageHolds
<1>15. RefreshHolds(r)' BY <1>3, <1>4, <1>6, <1>14 DEF RefreshHolds, SearchHolds
<1> QED BY <1>2, <1>15, RefreshReads DEF ReadPage

(* The save: whichever run advances first, the checkpoint it writes is true *)
(* of the index it leaves.                                                  *)
LEMMA FreshIsRest ==
  ASSUME IndexInv, NEW r \in Refreshes, rpc[r] = "page", OverlapHolds(r)
  PROVE  \A i \in page[r].ids : i <= mine[r].last \/ i \in Fresh(r)
<1>1. page[r].ids \subseteq Nat BY DEF IndexInv, TypeOK
<1>2. SUFFICES ASSUME NEW i \in page[r].ids, ~(i <= mine[r].last) PROVE i \in Fresh(r) OBVIOUS
<1>3. mine[r].last < i BY <1>1, <1>2, Overlaps
<1> QED BY <1>3 DEF Fresh, OverlapHolds

LEMMA FreshCounts ==
  ASSUME IndexInv, NEW r \in Refreshes, rpc[r] = "page", OverlapHolds(r), deleted = 0, Fresh(r) # {}
  PROVE  NewLast(r) = Scanned(r)
<1> DEFINE s == mine[r].scanned
           p == s - Overlap(mine[r])
<1>1. s \in Nat /\ p \in Nat /\ s = mine[r].last /\ Overlap(mine[r]) \in {0, 1} /\ (Overlap(mine[r]) = 0 => s = 0)
  BY Overlaps DEF IndexInv, RefreshHolds, Sound
<1>2. page[r].ids = (p + 1)..To(r) BY DEF IndexInv, RefreshHolds, PageHolds, From
<1>3. To(r) \in Int
  <2>1. page[r].total \in Nat /\ PageSize \in Nat BY IndexAssumption DEF IndexInv, TypeOK
  <2> QED BY <1>1, <2>1 DEF To
<1>4. Overlap(mine[r]) = 1 => s \in page[r].ids /\ \A i \in page[r].ids : s <= i BY <1>1 DEF OverlapHolds
<1>5. Fresh(r) = (s + 1)..To(r)
  <2>1. CASE Overlap(mine[r]) = 0
    <3>1. Fresh(r) = page[r].ids BY <2>1 DEF Fresh
    <3> QED BY <1>1, <1>2, <2>1, <3>1
  <2>2. CASE Overlap(mine[r]) = 1
    <3>1. page[r].ids = s..To(r) BY <1>1, <1>2, <2>2
    <3>2. s <= To(r) BY <1>1, <1>3, <1>4, <2>2, <3>1
    <3>3. Fresh(r) = {i \in s..To(r) : \E j \in s..To(r) : j < i} BY <2>2, <3>1 DEF Fresh
    <3>4. \A i \in s..To(r) : (\E j \in s..To(r) : j < i) <=> s < i BY <1>1, <1>3, <3>2
    <3>5. Fresh(r) = {i \in s..To(r) : s < i} BY <3>3, <3>4
    <3> QED BY <1>1, <1>3, <3>5
  <2> QED BY <1>1, <2>1, <2>2
<1> HIDE DEF s, p
<1>6. s + 1 <= To(r) /\ \A i \in Fresh(r) : i <= To(r) BY <1>1, <1>3, <1>5
<1>7. Cardinality(Fresh(r)) = To(r) - s
  <2>1. s + 1 \in Int BY <1>1
  <2>2. Cardinality((s + 1)..To(r)) = IF s + 1 > To(r) THEN 0 ELSE To(r) - (s + 1) + 1 BY <1>3, <2>1, FS_Interval
  <2> QED BY <1>1, <1>3, <1>5, <1>6, <2>2
<1>8. NewLast(r) \in Fresh(r) /\ \A i \in Fresh(r) : i <= NewLast(r) BY FreshIsFinite DEF IndexInv
<1>9. To(r) \in Fresh(r) BY <1>1, <1>3, <1>5, <1>6
<1>10. NewLast(r) = To(r) BY <1>1, <1>3, <1>5, <1>6, <1>8, <1>9
<1>11. Scanned(r) = s + Cardinality(Fresh(r)) BY DEF Scanned, s
<1> QED BY <1>1, <1>3, <1>7, <1>10, <1>11

LEMMA SaveSound ==
  ASSUME IndexInv, TypeOK', NEW r \in Refreshes, rpc[r] = "page", OverlapHolds(r), SavePage(r), World,
         UNCHANGED <<remote, issued, deleted>>
  PROVE  /\ Sound(st)'
         /\ Scanned(r) >= page[r].total => \A i \in remote : i <= clock[r] => i \in indexed'
<1> DEFINE asOf == IF Scanned(r) >= page[r].total THEN clock[r] ELSE st.asOf
<1>1. st' = [st EXCEPT !.scanned = Scanned(r), !.last = NewLast(r), !.total = page[r].total, !.asOf = asOf]
      /\ indexed' = indexed \cup Fresh(r)
  BY DEF SavePage
<1>2. TypeOK /\ RefreshHolds(r) /\ Sound(mine[r]) /\ Sound(st) BY DEF IndexInv, RefreshHolds
<1>3. st \in Checkpoint BY <1>2 DEF TypeOK
<1> HIDE DEF asOf
<1>4. st'.scanned = Scanned(r) /\ st'.last = NewLast(r) /\ st'.asOf = asOf BY <1>1, <1>3 DEF Checkpoint
<1>5. issued \in Nat /\ clock[r] \in Nat /\ clock[r] <= issued /\ \A i \in remote : i \in Nat
  BY <1>2, Finite DEF TypeOK, RefreshHolds
<1>6. /\ Fresh(r) \subseteq page[r].ids /\ page[r].ids \subseteq 1..issued
      /\ Cardinality(Fresh(r)) \in Nat /\ (Fresh(r) = {} <=> Cardinality(Fresh(r)) = 0)
      /\ Scanned(r) \in Nat /\ NewLast(r) \in Nat
      /\ Fresh(r) = {} => NewLast(r) = mine[r].last
      /\ Fresh(r) # {} => NewLast(r) \in Fresh(r) /\ \A i \in Fresh(r) : i <= NewLast(r)
  BY <1>2, FreshIsFinite
<1>7. mine[r].last \in Nat /\ mine[r].scanned \in Nat /\ mine[r].last <= issued /\ Covered(mine[r].last)
      /\ (mine[r].scanned = 0 <=> mine[r].last = 0)
  BY <1>2, Overlaps DEF Sound, None
<1>8. \A i \in page[r].ids : i <= mine[r].last \/ i \in indexed' BY <1>1, FreshIsRest
<1>9. NewLast(r) <= issued /\ \A i \in remote : i <= NewLast(r) => i \in indexed'
  <2>1. CASE Fresh(r) = {} BY <1>1, <1>6, <1>7, <2>1 DEF Covered
  <2>2. CASE Fresh(r) # {}
    <3>1. NewLast(r) \in page[r].ids /\ NewLast(r) <= issued BY <1>5, <1>6, <2>2
    <3>2. NoGap(r) BY <1>2 DEF RefreshHolds, PageHolds
    <3>3. ASSUME NEW i \in remote, i <= NewLast(r), ~(i <= mine[r].last) PROVE i \in indexed'
      <4>1. mine[r].last < i BY <1>5, <1>7, <3>3
      <4>2. i \in page[r].ids BY <3>1, <3>2, <3>3, <4>1 DEF NoGap
      <4> QED BY <1>8, <3>3, <4>2
    <3> QED BY <1>1, <1>7, <3>1, <3>3 DEF Covered
  <2> QED BY <2>1, <2>2
<1>10. Scanned(r) >= page[r].total => \A i \in remote : i <= clock[r] => i \in indexed'
  <2> SUFFICES ASSUME Scanned(r) >= page[r].total, NEW i \in remote, i <= clock[r], ~(i <= mine[r].last) PROVE i \in indexed'
    BY <1>1, <1>7 DEF Covered
  <2>1. NoRest(r) BY <1>2 DEF RefreshHolds, PageHolds
  <2>2. mine[r].last < i BY <1>5, <1>7
  <2> QED BY <1>8, <2>1, <2>2 DEF NoRest
<1>11. asOf <= issued /\ \A i \in remote : i <= asOf => i \in indexed'
  <2>1. CASE Scanned(r) >= page[r].total BY <1>5, <1>10, <2>1 DEF asOf
  <2>2. CASE ~(Scanned(r) >= page[r].total) BY <1>1, <1>2, <2>2 DEF asOf, Sound, Covered
  <2> QED BY <2>1, <2>2
<1>12. Scanned(r) = 0 <=> NewLast(r) = None
  <2>1. Scanned(r) = mine[r].scanned + Cardinality(Fresh(r)) BY DEF Scanned
  <2>2. CASE Fresh(r) = {} BY <1>6, <1>7, <2>1, <2>2 DEF None
  <2>3. CASE Fresh(r) # {}
    <3>1. NewLast(r) \in 1..issued BY <1>6, <2>3
    <3> QED BY <1>5, <1>6, <1>7, <2>1, <2>3, <3>1 DEF None
  <2> QED BY <2>2, <2>3
<1>13. deleted = 0 => NewLast(r) = Scanned(r)
  <2>1. CASE Fresh(r) = {}
    <3>1. Scanned(r) = mine[r].scanned + Cardinality(Fresh(r)) BY DEF Scanned
    <3> QED BY <1>2, <1>6, <1>7, <2>1, <3>1 DEF Sound
  <2>2. CASE Fresh(r) # {} BY <2>2, FreshCounts
  <2> QED BY <2>1, <2>2
<1> QED BY <1>4, <1>9, <1>10, <1>11, <1>12, <1>13 DEF Sound, Covered

LEMMA SaveKeeps ==
  ASSUME IndexInv, TypeOK', env' = env, NEW r \in Refreshes, Save(r) PROVE IndexInv'
<1>1. rpc[r] = "page" /\ OverlapHolds(r) /\ UNCHANGED <<remote, issued, deleted>> BY DEF Save, remoteVars
<1>2. \A l \in Lookups : Waiting(l) BY DEF Save, lookupVars, Waiting, Kept
<1>3. TypeOK /\ RefreshHolds(r) BY DEF IndexInv
<1>4. World
  <2>1. indexed \subseteq indexed' BY DEF Save, SavePage, indexVars
  <2> QED BY <1>1, <2>1, Calm
<1>5. CASE Unmoved(r)
  <2>1. SavePage(r) BY <1>5 DEF Save
  <2>2. Sound(st)' /\ (Scanned(r) >= page[r].total => \A i \in remote : i <= clock[r] => i \in indexed')
    BY <1>1, <1>4, <2>1, SaveSound
  <2>3. CASE Scanned(r) >= page[r].total
    <3> DEFINE outcome == [current |-> TRUE, asOf |-> clock[r], scanned |-> Scanned(r)]
    <3>1. Finish(r, outcome) BY <1>5, <2>3 DEF Save
    <3>2. clock[r] \in Nat /\ Scanned(r) \in Nat /\ page[r].total \in Nat BY <1>1, <1>3, FreshIsFinite DEF TypeOK
    <3>3. deleted = 0 => clock[r] <= Scanned(r) BY <1>1, <1>3, <2>3, <3>2 DEF RefreshHolds, PageHolds
    <3>4. result'[r] = outcome BY <1>3, <3>1 DEF Finish, TypeOK
    <3>5. Reliable(result[r])' BY <1>1, <1>3, <2>2, <2>3, <3>3, <3>4 DEF Reliable, Covered, RefreshHolds
    <3>6. RefreshHolds(r)' /\ \A q \in Refreshes \ {r} : Still(q) BY <1>3, <3>1, <3>5, FinishHolds
    <3> QED BY <1>2, <1>4, <2>2, <3>6, OneRefresh
  <2>4. CASE ~(Scanned(r) >= page[r].total)
    <3>1. mine' = [mine EXCEPT ![r] = st'] /\ rpc' = [rpc EXCEPT ![r] = "clock"] /\ page' = [page EXCEPT ![r] = NoPage]
          /\ UNCHANGED <<clock, span, result>>
      BY <1>5, <2>4 DEF Save
    <3>2. \A q \in Refreshes \ {r} : Still(q) BY <1>3, <3>1 DEF Still, TypeOK
    <3>3. mine'[r] = st' /\ rpc'[r] = "clock" BY <1>3, <3>1 DEF TypeOK
    <3>4. Sound(mine[r])' BY <2>2, <3>3 DEF Sound, Covered
    <3>5. Reliable(result[r])' BY <1>3, <1>4, <3>1, SoundStays DEF RefreshHolds
    <3>6. RefreshHolds(r)' BY <1>1, <1>3, <3>1, <3>3, <3>4, <3>5 DEF RefreshHolds, PageHolds, SearchHolds
    <3> QED BY <1>2, <1>4, <2>2, <3>2, <3>6, OneRefresh
  <2> QED BY <2>3, <2>4
<1>6. CASE ~Unmoved(r)
  <2>1. mine' = [mine EXCEPT ![r] = st] /\ rpc' = [rpc EXCEPT ![r] = "clock"] /\ page' = [page EXCEPT ![r] = NoPage]
        /\ UNCHANGED <<indexVars, clock, span, result>>
    BY <1>6 DEF Save
  <2>2. \A q \in Refreshes \ {r} : Still(q) BY <1>3, <2>1 DEF Still, TypeOK
  <2>3. mine'[r] = st /\ rpc'[r] = "clock" BY <1>3, <2>1 DEF TypeOK
  <2>4. Sound(mine[r])' /\ Sound(st)' BY <1>3, <1>4, <2>1, <2>3, SoundStays DEF indexVars, IndexInv
  <2>5. Reliable(result[r])' BY <1>3, <1>4, <2>1, SoundStays DEF RefreshHolds
  <2>6. RefreshHolds(r)' BY <1>1, <1>3, <2>1, <2>3, <2>4, <2>5 DEF RefreshHolds, PageHolds, SearchHolds
  <2> QED BY <1>2, <1>4, <2>2, <2>4, <2>6, OneRefresh
<1> QED BY <1>5, <1>6

(* Lookups.  What one knows only grows until it has read its candidates.   *)
LEMMA LookupReads ==
  ASSUME IndexInv, TypeOK', env' = env, NEW l \in Lookups, OnlyLookup, \A k \in Lookups \ {l} : Waiting(k), LookupHolds(l)'
  PROVE  IndexInv'
<1>1. World BY Calm DEF OnlyLookup, remoteVars, indexVars
<1>2. \A r \in Refreshes : Still(r) BY DEF OnlyLookup, refreshVars, Still
<1> QED BY <1>1, <1>2, OneLookup DEF OnlyLookup, indexVars

LEMMA SnapshotKeeps ==
  ASSUME IndexInv, TypeOK', env' = env, NEW l \in Lookups, Snapshot(l) PROVE IndexInv'
<1>1. \A k \in Lookups \ {l} : Waiting(k) BY DEF Snapshot, Path, Waiting, Kept, IndexInv, TypeOK
<1>2. /\ since'[l] = issued /\ known'[l] = st /\ cand'[l] = indexed /\ existed'[l] = remote /\ lpc'[l] \in {"index", "floor"}
      /\ scan'[l] = scan[l] /\ progress'[l] = progress[l] /\ lpc[l] = "idle"
      /\ UNCHANGED <<remote, issued, deleted, indexed>>
  BY DEF Snapshot, Path, OnlyLookup, remoteVars, indexVars, IndexInv, TypeOK
<1>3. World BY Calm DEF Snapshot, OnlyLookup, remoteVars, indexVars
<1>4. Reliable(progress[l])' BY <1>2, <1>3, SoundStays DEF IndexInv, LookupHolds, KnownHolds
<1>5. Sound(st) /\ remote \subseteq 1..issued /\ issued \in Nat BY DEF IndexInv, TypeOK
<1>6. KnownHolds(l)'
  <2>1. existed'[l] \subseteq 1..(since'[l]) /\ since'[l] <= issued' BY <1>2, <1>5
  <2>2. \A i \in existed'[l] : i <= known'[l].last \/ i <= known'[l].asOf => i \in cand'[l]
    BY <1>2, <1>5 DEF Sound, Covered
  <2>3. deleted' = 0 => known'[l].last = known'[l].scanned BY <1>2, <1>5 DEF Sound
  <2> QED BY <1>4, <2>1, <2>2, <2>3 DEF KnownHolds
<1>7. ScanHas(l)' BY <1>2 DEF IndexInv, LookupHolds, ScanHas
<1>8. ProofHolds(l)' BY <1>2 DEF ProofHolds
<1> QED BY <1>1, <1>6, <1>7, <1>8, LookupReads DEF Snapshot, LookupHolds

LEMMA ReuseKeeps ==
  ASSUME IndexInv, TypeOK', env' = env, NEW l \in Lookups, Reuse(l) PROVE IndexInv'
<1>1. \A k \in Lookups \ {l} : Waiting(k) BY DEF Reuse, Path, Waiting, Kept, IndexInv, TypeOK
<1>2. /\ UNCHANGED <<since, known, cand, existed, progress, scan>> /\ lpc'[l] = "indexed" /\ env' = env
      /\ UNCHANGED <<remote, issued, deleted, indexed>>
  BY DEF Reuse, Path, OnlyLookup, remoteVars, indexVars, IndexInv, TypeOK
<1>3. World BY Calm DEF Reuse, OnlyLookup, remoteVars, indexVars
<1>4. Reliable(progress[l])' BY <1>2, <1>3, SoundStays DEF IndexInv, LookupHolds, KnownHolds
<1>5. KnownHolds(l) /\ ScanHas(l) BY DEF IndexInv, LookupHolds
<1>6. \A i \in existed[l] : i \in cand[l]
  <2>1. known[l].asOf >= since[l] /\ known[l].asOf \in Int /\ since[l] \in Nat
    BY DEF Reuse, Reusable, IndexInv, TypeOK, Checkpoint
  <2>2. \A i \in existed[l] : i \in Nat /\ i <= since[l] BY <1>5, <2>1 DEF KnownHolds
  <2> QED BY <1>5, <2>1, <2>2 DEF KnownHolds
<1>7. KnownHolds(l)' BY <1>2, <1>4, <1>5 DEF KnownHolds
<1>8. ScanHas(l)' /\ ProofHolds(l)' BY <1>2, <1>5, <1>6 DEF ScanHas, ProofHolds, KnowsAll
<1> QED BY <1>1, <1>7, <1>8, LookupReads DEF Reuse, LookupHolds

LEMMA JoinsKeep ==
  ASSUME IndexInv, TypeOK', env' = env, NEW l \in Lookups, Join(l) \/ Queue(l) PROVE IndexInv'
<1>1. World BY Calm DEF Join, Queue, OnlyLookup, remoteVars, indexVars
<1>2. \A k \in Lookups : Waiting(k) BY DEF Join, Queue, Waiting, Kept
<1>3. \A r \in Refreshes : Still(r) BY DEF Join, Queue, OnlyLookup, refreshVars, Still
<1>4. st' = st BY DEF Join, Queue, OnlyLookup, indexVars
<1> QED BY <1>1, <1>2, <1>3, <1>4, NothingMoves

(* The shared refresh starts from the checkpoint as it is.                 *)
LEMMA StartHolds ==
  ASSUME IndexInv, TypeOK', World, StartRefresh, UNCHANGED <<clock, page, span, issued>>, Reliable(result[Shared])'
  PROVE  RefreshHolds(Shared)'
<1>1. Shared \in Refreshes BY Environment DEF IndexInv
<1>2. mine'[Shared] = st /\ rpc'[Shared] = "clock" BY <1>1 DEF StartRefresh, IndexInv, TypeOK
<1>3. Sound(mine[Shared])' BY <1>1, <1>2, SoundStays DEF IndexInv
<1>4. clock[Shared] <= issued BY <1>1 DEF IndexInv, RefreshHolds
<1> QED BY <1>2, <1>3, <1>4 DEF RefreshHolds, PageHolds, SearchHolds

LEMMA FetchKeeps ==
  ASSUME IndexInv, TypeOK', env' = env, NEW l \in Lookups, Fetch(l) PROVE IndexInv'
<1>1. World BY Calm DEF Fetch, remoteVars, indexVars
<1>2. \A k \in Lookups : Waiting(k) BY DEF Fetch, Waiting, Kept
<1>3. \A q \in Refreshes \ {Shared} : Still(q) BY DEF Fetch, StartRefresh, Still, IndexInv, TypeOK
<1>4. Shared \in Refreshes BY Environment DEF IndexInv
<1>5. Reliable(result[Shared])' BY <1>1, <1>4, SoundStays DEF Fetch, IndexInv, RefreshHolds
<1>6. RefreshHolds(Shared)' BY <1>1, <1>5, StartHolds DEF Fetch, remoteVars
<1>7. Sound(st)' BY <1>1, SoundStays DEF Fetch, indexVars, IndexInv
<1> QED BY <1>1, <1>2, <1>3, <1>4, <1>6, <1>7, OneRefresh

LEMMA DeliverKeeps == ASSUME IndexInv, TypeOK', env' = env, Deliver PROVE IndexInv'
<1>1. World BY Calm DEF Deliver, remoteVars, indexVars
<1>2. \A l \in Lookups : Kept(l) BY DEF Deliver, Kept
<1>3. Shared \in Refreshes BY Environment DEF IndexInv
<1>4. \A q \in Refreshes \ {Shared} : Still(q) BY DEF Deliver, StartRefresh, Still, IndexInv, TypeOK
<1>5. result'[Shared] = NoResult BY <1>3 DEF Deliver, IndexInv, TypeOK
<1>6. Reliable(result[Shared])' BY <1>5 DEF Reliable, NoResult
<1>7. RefreshHolds(Shared)'
  <2>1. CASE StartRefresh BY <1>1, <1>6, <2>1, StartHolds DEF Deliver, remoteVars
  <2>2. CASE rpc' = [rpc EXCEPT ![Shared] = "idle"] /\ UNCHANGED <<mine, sharedAt>>
    <3>1. rpc'[Shared] = "idle" BY <1>3, <2>2 DEF IndexInv, TypeOK
    <3>2. Sound(mine[Shared])' BY <1>1, <1>3, <2>2, SoundStays DEF IndexInv, RefreshHolds
    <3>3. clock'[Shared] <= issued' BY <1>3 DEF Deliver, remoteVars, IndexInv, RefreshHolds
    <3> QED BY <1>6, <3>1, <3>2, <3>3 DEF RefreshHolds, PageHolds, SearchHolds
  <2> QED BY <2>1, <2>2 DEF Deliver
<1>8. ASSUME NEW l \in Lookups PROVE LookupHolds(l)'
  <2>1. progress'[l] = result[Shared] \/ progress'[l] = progress[l] BY <1>8 DEF Deliver
  <2>2. Reliable(progress[l])' BY <1>1, <1>3, <2>1, SoundStays DEF IndexInv, RefreshHolds, LookupHolds, KnownHolds
  <2> QED BY <1>1, <1>2, <2>2, LookupKept DEF IndexInv
<1>9. \A q \in Refreshes : RefreshHolds(q)' BY <1>1, <1>4, <1>7, RefreshStays DEF IndexInv
<1>10. Sound(st)' BY <1>1, SoundStays DEF Deliver, indexVars, IndexInv
<1> QED BY <1>1, <1>8, <1>9, <1>10 DEF IndexInv, World

LEMMA JudgeKeeps ==
  ASSUME IndexInv, TypeOK', env' = env, NEW l \in Lookups, Judge(l) PROVE IndexInv'
<1>1. \A k \in Lookups \ {l} : Waiting(k)
  <2>1. \A k \in Lookups \ {l} : lpc'[k] = lpc[k] /\ cand'[k] = cand[k]
    <3>1. CASE Confirms(l) BY <3>1 DEF Judge, Path, IndexInv, TypeOK
    <3>2. CASE ~Confirms(l)
      <4>1. Fails(l, "index") /\ cand' = cand BY <3>2 DEF Judge
      <4> QED BY <4>1, FailsTyped DEF IndexInv
    <3> QED BY <3>1, <3>2
  <2>2. \A k \in Lookups \ {l} : progress'[k] = progress[k] BY DEF Judge, IndexInv, TypeOK
  <2> QED BY <2>1, <2>2 DEF Judge, Waiting, Kept
<1>2. /\ UNCHANGED <<since, known, existed, scan>> /\ progress'[l] = NoResult /\ lpc[l] = "index"
      /\ UNCHANGED <<remote, issued, deleted, indexed>>
  BY DEF Judge, OnlyLookup, remoteVars, indexVars, IndexInv, TypeOK
<1>3. Reliable(progress[l])' BY <1>2 DEF Reliable, NoResult
<1>4. KnownHolds(l) /\ ScanHas(l) BY DEF IndexInv, LookupHolds
<1>5. CASE Confirms(l)
  <2>1. cand'[l] = Candidates(l) /\ lpc'[l] = "indexed" BY <1>5 DEF Judge, Path, IndexInv, TypeOK
  <2>2. cand[l] \subseteq Candidates(l) BY DEF Candidates
  <2>3. progress[l] \in Progress /\ known[l] \in Checkpoint /\ since[l] \in Nat BY DEF IndexInv, TypeOK
  <2>4. progress[l].current /\ progress[l].asOf >= since[l] BY <1>5 DEF Confirms
  <2>5. Covered(progress[l].asOf) /\ (deleted = 0 => progress[l].asOf <= progress[l].scanned)
    BY <1>4, <2>4 DEF KnownHolds, Reliable
  <2>6. \A i \in existed[l] : i \in Nat /\ i <= since[l] BY <1>4, <2>3 DEF KnownHolds
  <2>7. ASSUME deleted = 0, NEW i \in existed[l], i \in remote PROVE i \in Candidates(l)
    <3>1. i <= progress[l].asOf /\ i <= progress[l].scanned BY <2>3, <2>4, <2>5, <2>6, <2>7 DEF Progress
    <3>2. CASE progress[l].scanned > known[l].scanned
      <4>1. i \in indexed BY <2>5, <2>7, <3>1 DEF Covered
      <4> QED BY <3>2, <4>1 DEF Candidates
    <3>3. CASE ~(progress[l].scanned > known[l].scanned)
      <4>1. progress[l].scanned <= known[l].scanned BY <2>3, <3>3 DEF Progress, Checkpoint
      <4>2. i <= known[l].scanned BY <2>3, <2>6, <2>7, <3>1, <4>1 DEF Progress, Checkpoint
      <4>3. i <= known[l].last BY <1>4, <2>7, <4>2 DEF KnownHolds
      <4> QED BY <1>4, <2>2, <2>7, <4>3 DEF KnownHolds
    <3> QED BY <3>2, <3>3
  <2>8. KnownHolds(l)' BY <1>2, <1>3, <1>4, <2>1, <2>2 DEF KnownHolds
  <2>9. ScanHas(l)' BY <1>2, <1>4, <2>1, <2>2 DEF ScanHas
  <2>10. ProofHolds(l)' BY <1>2, <2>1, <2>7 DEF ProofHolds, KnowsAll
  <2> QED BY <1>1, <2>8, <2>9, <2>10, LookupReads DEF Judge, LookupHolds
<1>6. CASE ~Confirms(l)
  <2>1. Fails(l, "index") /\ cand' = cand BY <1>6 DEF Judge
  <2>2. lpc'[l] \in {"index", "floor", "unproven"} BY <2>1, FailsTyped DEF IndexInv
  <2>3. KnownHolds(l)' BY <1>2, <1>3, <1>4, <2>1 DEF KnownHolds
  <2>4. ScanHas(l)' /\ ProofHolds(l)' BY <1>2, <1>4, <2>1, <2>2 DEF ScanHas, ProofHolds
  <2> QED BY <1>1, <2>3, <2>4, LookupReads DEF Judge, LookupHolds
<1> QED BY <1>5, <1>6

LEMMA RereadKeeps ==
  ASSUME IndexInv, TypeOK', env' = env, NEW l \in Lookups, Reread(l) PROVE IndexInv'
<1>1. World
  <2>1. \A i \in remote : i \in indexed => i \in indexed' BY DEF Reread
  <2> QED BY <2>1, Calm DEF Reread, remoteVars
<1>2. \A k \in Lookups \ {l} : Waiting(k) BY DEF Reread, Waiting, Kept, IndexInv, TypeOK
<1>3. \A r \in Refreshes : Still(r) BY DEF Reread, refreshVars, Still
<1>4. /\ lpc'[l] = "idle" /\ cand'[l] = {} /\ since'[l] = 0 /\ known'[l] = Empty(0) /\ existed'[l] = {} /\ scan'[l] = NoScan
      /\ progress' = progress /\ st' = st
  BY DEF Reread, IndexInv, TypeOK
<1>5. Reliable(progress[l])' BY <1>1, <1>4, SoundStays DEF IndexInv, LookupHolds, KnownHolds
<1>6. issued' \in Nat BY DEF TypeOK
<1>7. KnownHolds(l)' BY <1>4, <1>5, <1>6 DEF KnownHolds, Empty, None
<1>8. ScanHas(l)' /\ ProofHolds(l)' BY <1>4 DEF ScanHas, ProofHolds, NoScan, None
<1>9. LookupHolds(l)' BY <1>7, <1>8 DEF LookupHolds
<1> QED BY <1>1, <1>2, <1>3, <1>4, <1>9, OneLookup

(* The newest-first scan: a page that begins with the last invoice read    *)
(* has no gap below it, and a page that reaches the end has all the rest.  *)
LEMMA ScanReads ==
  ASSUME IndexInv, NEW l \in Lookups, ScanHolds(l, ScanPage(l)), NEW i \in existed[l] \cap remote, i > env.floor,
         \/ \E k \in ScanPage(l) : k <= i
         \/ scan[l].offset + Cardinality(ScanFresh(l)) >= Cardinality(remote)
  PROVE  i \in cand[l] \/ i \in ScanFresh(l)
<1> DEFINE p == scan[l].offset - ScanOverlap(l)
           last == scan[l].last
<1>1. TypeOK /\ ScanHas(l) BY DEF IndexInv, LookupHolds
<1>2. p \in Nat /\ ScanOverlap(l) \in {0, 1} /\ scan[l].offset = p + ScanOverlap(l) /\ (ScanOverlap(l) = 0 => p = 0)
      /\ Cardinality(ScanFresh(l)) \in Nat /\ Cardinality(ScanPage(l)) \in Nat
  BY <1>1, ScanIsFinite
<1>3. i \in Nat /\ last \in Nat /\ ScanPage(l) \subseteq remote /\ \A j \in remote : j \in Nat
  BY <1>1, ScanIsFinite, Finite DEF TypeOK
<1> HIDE DEF p, last
<1>4. /\ \A j \in remote : j \in ScanPage(l) => p <= Newer(j)
      /\ \A j \in remote, k \in ScanPage(l) : k <= j /\ p <= Newer(j) => j \in ScanPage(l)
      /\ p + Cardinality(ScanPage(l)) >= Cardinality(remote) => \A j \in remote : p <= Newer(j) => j \in ScanPage(l)
      /\ IsFiniteSet(ScanPage(l))
  BY <1>1, <1>2, DescendingPage DEF ScanPage, p
<1>5. ScanOverlap(l) = 1 => last \in ScanPage(l) /\ \A j \in ScanPage(l) : j <= last BY DEF ScanHolds, last
<1>6. SUFFICES ASSUME i \notin cand[l] PROVE i \in ScanFresh(l) OBVIOUS
<1>7. ScanOverlap(l) = 1 => i < last
  <2> SUFFICES ASSUME ScanOverlap(l) = 1, ~(i < last) PROVE FALSE OBVIOUS
  <2>1. scan[l].last # None BY DEF ScanOverlap
  <2>2. scan[l].last <= i BY <1>3 DEF last
  <2> QED BY <1>1, <1>6, <2>1, <2>2 DEF ScanHas
<1>8. p <= Newer(i)
  <2>1. Newer(i) \in Nat BY <1>1, NewerIsOrder
  <2>2. CASE ScanOverlap(l) = 0 BY <1>2, <2>1, <2>2
  <2>3. CASE ScanOverlap(l) = 1
    <3>1. last \in remote /\ p <= Newer(last) BY <1>3, <1>4, <1>5, <2>3
    <3>2. Newer(last) < Newer(i) /\ Newer(last) \in Nat BY <1>1, <1>7, <2>3, <3>1, NewerIsOrder
    <3> QED BY <1>2, <2>1, <3>1, <3>2
  <2> QED BY <1>2, <2>2, <2>3
<1>9. i \in ScanPage(l)
  <2>1. CASE \E k \in ScanPage(l) : k <= i BY <1>4, <1>8, <2>1
  <2>2. CASE scan[l].offset + Cardinality(ScanFresh(l)) >= Cardinality(remote)
    <3>1. scan[l].offset + Cardinality(ScanFresh(l)) = p + Cardinality(ScanPage(l))
      <4>1. CASE ScanOverlap(l) = 0
        <5>1. ScanFresh(l) = ScanPage(l) BY <4>1 DEF ScanFresh
        <5> QED BY <1>2, <4>1, <5>1
      <4>2. CASE ScanOverlap(l) = 1
        <5>1. \A j \in ScanPage(l) : j \in Nat /\ j <= last BY <1>3, <1>5, <4>2
        <5>2. \A j \in ScanPage(l) : (\E k \in ScanPage(l) : j < k) <=> j # last BY <1>3, <1>5, <4>2, <5>1
        <5>3. ScanFresh(l) = ScanPage(l) \ {last} BY <4>2, <5>2 DEF ScanFresh
        <5>4. Cardinality(ScanPage(l) \ {last}) = Cardinality(ScanPage(l)) - 1 BY <1>4, <1>5, <4>2, FS_RemoveElement
        <5> QED BY <1>2, <4>2, <5>3, <5>4
      <4> QED BY <1>2, <4>1, <4>2
    <3> QED BY <1>4, <1>8, <2>2, <3>1
  <2> QED BY <2>1, <2>2
<1> QED BY <1>5, <1>7, <1>9 DEF ScanFresh

LEMMA ScanKeeps ==
  ASSUME IndexInv, TypeOK', env' = env, NEW l \in Lookups, Scan(l) PROVE IndexInv'
<1>1. /\ lpc[l] = "floor" /\ UNCHANGED <<since, known, existed, join, progress>> /\ OnlyLookup
      /\ UNCHANGED <<remote, issued, deleted, indexed>>
  BY ScanSteps DEF OnlyLookup, remoteVars, indexVars
<1>2. TypeOK /\ KnownHolds(l) /\ ScanHas(l) BY DEF IndexInv, LookupHolds
<1>3. World BY <1>1, Calm
<1>4. Reliable(progress[l])' BY <1>1, <1>2, <1>3, SoundStays DEF KnownHolds
<1>5. CASE Fails(l, "floor") /\ UNCHANGED <<cand, scan>>
  <2>1. lpc'[l] \in {"index", "floor", "unproven"} /\ \A k \in Lookups \ {l} : lpc'[k] = lpc[k] BY <1>2, <1>5, FailsTyped
  <2>2. \A k \in Lookups \ {l} : Waiting(k) BY <1>1, <1>5, <2>1 DEF Waiting, Kept
  <2>3. KnownHolds(l)' BY <1>1, <1>2, <1>4, <1>5 DEF KnownHolds
  <2>4. ScanHas(l)' /\ ProofHolds(l)' BY <1>1, <1>2, <1>5, <2>1 DEF ScanHas, ProofHolds
  <2> QED BY <1>1, <2>2, <2>3, <2>4, LookupReads DEF LookupHolds
<1>6. CASE ~(Fails(l, "floor") /\ UNCHANGED <<cand, scan>>)
  <2>1. ScanHolds(l, ScanPage(l)) /\ cand' = [cand EXCEPT ![l] = @ \cup {i \in ScanFresh(l) : i > env.floor}]
    BY <1>6, ScanSteps
  <2>2. cand'[l] = cand[l] \cup {i \in ScanFresh(l) : i > env.floor} /\ \A k \in Lookups \ {l} : cand'[k] = cand[k]
    BY <1>2, <2>1 DEF TypeOK
  <2>3. KnownHolds(l)' BY <1>1, <1>2, <1>4, <2>2 DEF KnownHolds
  <2>4. ScanFresh(l) \subseteq ScanPage(l) /\ ScanPage(l) \subseteq remote /\ env.floor \in Nat /\ \A i \in remote : i \in Nat
    BY <1>2, ScanIsFinite, Environment, Finite
  <2>5. CASE /\ \/ \E i \in ScanFresh(l) : ~(i > env.floor)
                \/ scan[l].offset + Cardinality(ScanFresh(l)) >= Cardinality(remote)
             /\ Path(l, "scanned") /\ UNCHANGED <<scan, tried>>
    <3>1. lpc'[l] = "scanned" /\ scan' = scan /\ \A k \in Lookups \ {l} : lpc'[k] = lpc[k] BY <1>2, <2>5 DEF Path, TypeOK
    <3>2. ASSUME NEW i \in existed[l] \cap remote, i > env.floor PROVE i \in cand'[l]
      <4>1. (\E k \in ScanFresh(l) : ~(k > env.floor)) => \E k \in ScanPage(l) : k <= i
        <5> SUFFICES ASSUME NEW k \in ScanFresh(l), ~(k > env.floor) PROVE k \in ScanPage(l) /\ k <= i OBVIOUS
        <5> QED BY <2>4, <3>2
      <4>2. i \in cand[l] \/ i \in ScanFresh(l) BY <2>1, <2>5, <3>2, <4>1, ScanReads
      <4> QED BY <2>2, <3>2, <4>2
    <3>3. ScanHas(l)' /\ ProofHolds(l)' BY <1>1, <1>2, <2>2, <3>1, <3>2 DEF ScanHas, ProofHolds, KnowsAll
    <3>4. \A k \in Lookups \ {l} : Waiting(k) BY <1>1, <2>2, <3>1 DEF Waiting, Kept
    <3> QED BY <1>1, <2>3, <3>3, <3>4, LookupReads DEF LookupHolds
  <2>6. CASE /\ ScanFresh(l) # {}
             /\ scan' = [scan EXCEPT ![l] = [offset |-> scan[l].offset + Cardinality(ScanFresh(l)),
                                              last |-> Min(ScanFresh(l)), pages |-> scan[l].pages + 1]]
             /\ UNCHANGED <<lpc, tried>>
    <3> DEFINE m == Min(ScanFresh(l))
    <3>1. scan'[l].offset = scan[l].offset + Cardinality(ScanFresh(l)) /\ scan'[l].last = m /\ \A k \in Lookups \ {l} : scan'[k] = scan[k]
      BY <1>2, <2>6 DEF TypeOK
    <3>2. m \in ScanFresh(l) /\ scan[l].offset \in Nat /\ Cardinality(ScanFresh(l)) \in Nat
      BY <1>2, <2>6, ScanIsFinite
    <3>3. m # 0 /\ m \in Nat /\ Cardinality(ScanFresh(l)) # 0
      <4>1. m \in 1..issued /\ issued \in Nat BY <1>2, <2>4, <3>2 DEF TypeOK
      <4>2. ScanFresh(l) \in SUBSET (1..issued) BY <1>2, <2>4 DEF TypeOK
      <4>3. IsFiniteSet(ScanFresh(l)) BY <1>2, <4>2, Finite
      <4>4. Cardinality(ScanFresh(l)) # 0 BY <2>6, <4>3, FS_EmptySet
      <4> QED BY <4>1, <4>4
    <3> HIDE DEF m
    <3>4. ASSUME NEW i \in existed[l] \cap remote, i > env.floor, m <= i PROVE i \in cand'[l]
      <4>1. \E k \in ScanPage(l) : k <= i BY <2>4, <3>2, <3>4
      <4>2. i \in cand[l] \/ i \in ScanFresh(l) BY <2>1, <3>4, <4>1, ScanReads
      <4> QED BY <2>2, <3>4, <4>2
    <3>5. ScanHas(l)' BY <1>1, <3>1, <3>2, <3>3, <3>4, <2>6 DEF ScanHas, None
    <3>6. ProofHolds(l)' BY <1>1, <2>6 DEF ProofHolds
    <3>7. \A k \in Lookups \ {l} : Waiting(k) BY <1>1, <2>2, <2>6, <3>1 DEF Waiting, Kept
    <3> QED BY <1>1, <2>3, <3>5, <3>6, <3>7, LookupReads DEF LookupHolds
  <2> QED BY <1>6, <2>5, <2>6, ScanSteps
<1> QED BY <1>5, <1>6

LEMMA NextKeeps == IndexInv /\ [Next]_vars => IndexInv'
<1> SUFFICES ASSUME IndexInv, [Next]_vars PROVE IndexInv' OBVIOUS
<1>1. CASE UNCHANGED vars
  <2>1. UNCHANGED <<env, remoteVars, indexVars, refreshVars, lookupVars>> BY <1>1 DEF vars, state
  <2>2. TypeOK' BY <2>1 DEF IndexInv, TypeOK, remoteVars, indexVars, refreshVars, lookupVars
  <2>3. World BY <2>1, Calm DEF remoteVars, indexVars
  <2>4. (\A r \in Refreshes : Still(r)) /\ \A l \in Lookups : Waiting(l) BY <2>1 DEF refreshVars, lookupVars, Still, Waiting, Kept
  <2>5. st' = st /\ env' = env BY <2>1 DEF indexVars
  <2> QED BY <2>2, <2>3, <2>4, <2>5, NothingMoves
<1>2. CASE Next
  <2>1. TypeOK' /\ env' = env BY <1>2, TypeStays DEF Next
  <2>2. CASE Issue \/ Delete BY <2>1, <2>2, ListChanges
  <2>3. CASE LeaseExpires \/ \E r \in Runners : Acquire(r) \/ Release(r) BY <2>1, <2>3, LeaseSteps
  <2>4. CASE Deliver BY <2>1, <2>4, DeliverKeeps
  <2>5. ASSUME NEW r \in Refreshes, Advance(r) PROVE IndexInv'
    BY <2>1, <2>5, TakeClockKeeps, ReadPageKeeps, SaveKeeps, EndsEmpty, ResetKeeps, MismatchKeeps, ProbeKeeps, RepositionKeeps
    DEF Advance
  <2>6. ASSUME NEW l \in Lookups, Lookup(l) PROVE IndexInv'
    BY <2>1, <2>6, SnapshotKeeps, ReuseKeeps, JoinsKeep, FetchKeeps, JudgeKeeps, ScanKeeps, RereadKeeps DEF Lookup
  <2> QED BY <1>2, <2>2, <2>3, <2>4, <2>5, <2>6 DEF Next, Step
<1> QED BY <1>1, <1>2

(***************************************************************************)
(* A checkpoint, a page, a position searched for and a candidate list stay *)
(* true of the list they were read from while it grows and shrinks.        *)
(***************************************************************************)
THEOREM IndexIsSafe == Spec => []IndexInv
<1>1. Init => IndexInv BY InitIndex
<1>2. IndexInv /\ [Next]_vars => IndexInv' BY NextKeeps
<1> QED BY <1>1, <1>2, PTL DEF Spec

(***************************************************************************)
(* Nothing below the checkpoint is missing in the index, and nothing that  *)
(* existed at the confirmed time: no page is stepped over, whoever saves.  *)
(***************************************************************************)
THEOREM IndexStaysTrue == Spec => []IndexIsTrue
<1>1. IndexInv => IndexIsTrue
  BY DEF IndexInv, Sound, Covered, IndexIsTrue, NothingSkipped, ConfirmedIsIndexed
<1> QED BY <1>1, IndexIsSafe, PTL

(***************************************************************************)
(* A lookup that reports completeness has seen every invoice that existed  *)
(* when it began and still exists: by the index while nothing is deleted,  *)
(* by the newest-first scan always.                                        *)
(***************************************************************************)
THEOREM AbsenceIsProven == Spec => []AbsenceIsProof
<1>1. IndexInv => AbsenceIsProof
  BY DEF IndexInv, LookupHolds, ProofHolds, AbsenceIsProof, CompleteIsProof, ScanIsProof
<1> QED BY <1>1, IndexIsSafe, PTL
=============================================================================
