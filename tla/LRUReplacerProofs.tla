------------------------- MODULE LRUReplacerProofs -------------------------
(***************************************************************************)
(* For any set of frames and any capacity, the replacer's hash map always  *)
(* matches its list, and the list is ordered by recency.                   *)
(*                                                                         *)
(* Neither invariant is inductive alone: pin() consults the hash and edits *)
(* the list, so ordering needs the match, and a new front entry is newest  *)
(* only because no recorded time lies in the future.                       *)
(***************************************************************************)
EXTENDS LRUReplacer, LRUListProofs

NoFutureTimes == \A f \in Frames : since[f] <= now

IInv == TypeOK /\ HashMatchesList /\ VictimIsLeastRecent /\ NoFutureTimes

LEMMA InitIInv == Init => IInv
<1> SUFFICES ASSUME Init PROVE IInv
  OBVIOUS
<1>1. TypeOK /\ NoFutureTimes
  BY ReplacerAssumption DEF Init, TypeOK, NoFutureTimes
<1>2. HashMatchesList
  <2>1. Range(<<>>) = {}
    BY DEF Range
  <2>2. IsInjective(<<>>)
    BY DEF IsInjective
  <2> QED BY <2>1, <2>2 DEF Init, HashMatchesList
<1>3. VictimIsLeastRecent
  BY DEF Init, VictimIsLeastRecent
<1> QED BY <1>1, <1>2, <1>3 DEF IInv

\* A list that only loses entries stays ordered by recency.
LEMMA OrderKept ==
  ASSUME TypeOK, VictimIsLeastRecent, LRUlist_' \in Seq(Frames),
         KeepsOrder(LRUlist_', LRUlist_), since' = since
  PROVE  VictimIsLeastRecent'
<1> SUFFICES ASSUME NEW i \in 1..Len(LRUlist_'), NEW j \in 1..Len(LRUlist_'), i < j
             PROVE  since[LRUlist_'[i]] > since[LRUlist_'[j]]
  BY DEF VictimIsLeastRecent
<1>1. PICK a, b \in 1..Len(LRUlist_) :
        a < b /\ LRUlist_'[i] = LRUlist_[a] /\ LRUlist_'[j] = LRUlist_[b]
  BY DEF KeepsOrder
<1> QED BY <1>1 DEF VictimIsLeastRecent

LEMMA NextIInv == IInv /\ [Next]_vars => IInv'
<1> SUFFICES ASSUME IInv, [Next]_vars PROVE IInv'
  OBVIOUS
<1> USE DEF IInv
<1>t. /\ LRUlist_ \in Seq(Frames) /\ LRUhash_ \subseteq Frames
      /\ now \in Nat /\ MaxOps \in Nat /\ now <= MaxOps
      /\ since \in [Frames -> 0..MaxOps]
      /\ Range(LRUlist_) = LRUhash_ /\ IsInjective(LRUlist_)
  BY ReplacerAssumption DEF TypeOK, HashMatchesList
<1>n. ASSUME Tick, UNCHANGED since PROVE now' \in 0..MaxOps /\ NoFutureTimes'
  BY <1>t, <1>n DEF Tick, NoFutureTimes
<1>1. CASE victim
  <2>1. /\ AfterVictim(LRUlist_) \in Seq(Frames)
        /\ IsInjective(AfterVictim(LRUlist_))
        /\ Range(AfterVictim(LRUlist_)) = Range(LRUlist_) \ {VictimFrame(LRUlist_)}
        /\ KeepsOrder(AfterVictim(LRUlist_), LRUlist_)
    BY <1>1, <1>t, AfterVictimProperties DEF victim
  <2>2. TypeOK' /\ HashMatchesList' /\ NoFutureTimes'
    BY <1>1, <1>t, <1>n, <2>1 DEF victim, TypeOK, HashMatchesList
  <2>3. VictimIsLeastRecent'
    BY <1>1, <2>1, OrderKept DEF victim
  <2> QED BY <2>2, <2>3
<1>2. ASSUME NEW f \in Frames, pin(f) PROVE IInv'
  <2>1. /\ TypeOK' /\ NoFutureTimes' /\ HashMatchesList'
        /\ VictimIsLeastRecent'
    <3>1. CASE f \in LRUhash_
      <4>1. /\ AfterPin(LRUlist_, f) \in Seq(Frames)
            /\ IsInjective(AfterPin(LRUlist_, f))
            /\ Range(AfterPin(LRUlist_, f)) = Range(LRUlist_) \ {f}
            /\ KeepsOrder(AfterPin(LRUlist_, f), LRUlist_)
        BY <1>t, AfterPinProperties
      <4>2. TypeOK' /\ HashMatchesList' /\ NoFutureTimes'
        BY ZenonT(30), <1>2, <1>t, <1>n, <3>1, <4>1 DEF pin, TypeOK,
           HashMatchesList
      <4>3. VictimIsLeastRecent'
        BY <1>2, <3>1, <4>1, OrderKept DEF pin
      <4> QED BY <4>2, <4>3
    <3>2. CASE f \notin LRUhash_
      BY <1>2, <1>t, <1>n, <3>2 DEF pin, TypeOK, HashMatchesList,
         VictimIsLeastRecent
    <3> QED BY <3>1, <3>2
  <2> QED BY <2>1
<1>3. ASSUME NEW f \in Frames, unpin(f) PROVE IInv'
  <2>1. CASE f \in LRUhash_ \/ Len(LRUlist_) >= max_size_
    BY <1>3, <1>t, <1>n, <2>1 DEF unpin, TypeOK, HashMatchesList,
       VictimIsLeastRecent
  <2>2. CASE ~(f \in LRUhash_ \/ Len(LRUlist_) >= max_size_)
    <3> DEFINE r == PushFront(f, LRUlist_)
    <3>1. /\ r \in Seq(Frames) /\ IsInjective(r)
          /\ Range(r) = Range(LRUlist_) \cup {f}
          /\ Len(r) = Len(LRUlist_) + 1 /\ r[1] = f
          /\ \A j \in 1..Len(LRUlist_) : r[j + 1] = LRUlist_[j]
      BY <1>t, <2>2, PushFrontProperties
    <3>2. /\ LRUlist_' = r /\ LRUhash_' = LRUhash_ \cup {f}
          /\ since' = [since EXCEPT ![f] = now + 1] /\ Tick
      BY <1>3, <1>t, <2>2 DEF unpin, AfterUnpin
    <3> HIDE DEF r
    <3>3. TypeOK' /\ HashMatchesList'
      BY <1>t, <3>1, <3>2 DEF TypeOK, HashMatchesList, Tick
    <3>4. NoFutureTimes'
      BY <1>t, <3>2 DEF NoFutureTimes, Tick
    <3>5. VictimIsLeastRecent'
      <4> SUFFICES ASSUME NEW i \in 1..Len(r), NEW j \in 1..Len(r), i < j
                   PROVE  since'[r[i]] > since'[r[j]]
        BY <3>2 DEF VictimIsLeastRecent
      <4> DEFINE a == i - 1
                 b == j - 1
      <4>1. b \in 1..Len(LRUlist_) /\ r[j] = LRUlist_[b]
        <5>1. b \in 1..Len(LRUlist_) /\ b + 1 = j
          BY <3>1
        <5> QED BY <5>1, <3>1
      <4>2. LRUlist_[b] \in LRUhash_ /\ LRUlist_[b] \in Frames
        BY <1>t, <4>1, SeqValues
      <4>3. since'[r[j]] = since[LRUlist_[b]]
        BY <1>t, <2>2, <3>2, <4>1, <4>2
      <4>4. CASE i = 1
        <5>1. since'[r[i]] = now + 1
          BY <1>t, <3>1, <3>2, <4>4
        <5>2. since[LRUlist_[b]] <= now /\ since[LRUlist_[b]] \in Nat
          BY <1>t, <4>2 DEF NoFutureTimes
        <5> QED BY <1>t, <4>3, <5>1, <5>2
      <4>5. CASE i # 1
        <5>1. a \in 1..Len(LRUlist_) /\ r[i] = LRUlist_[a] /\ a < b
          <6>1. a \in 1..Len(LRUlist_) /\ a + 1 = i /\ a < b
            BY <3>1, <4>5
          <6> QED BY <6>1, <3>1
        <5>2. LRUlist_[a] \in LRUhash_ /\ LRUlist_[a] \in Frames
          BY <1>t, <5>1, SeqValues
        <5>3. since'[r[i]] = since[LRUlist_[a]]
          BY SMTT(30), <1>t, <2>2, <3>2, <5>1, <5>2
        <5> HIDE DEF a, b
        <5> QED BY <4>1, <4>3, <5>1, <5>3 DEF VictimIsLeastRecent
      <4> QED BY <4>4, <4>5
    <3> QED BY <3>3, <3>4, <3>5
  <2> QED BY <2>1, <2>2
<1>4. CASE UNCHANGED vars
  BY <1>4 DEF vars, TypeOK, HashMatchesList, VictimIsLeastRecent, NoFutureTimes
<1> QED BY <1>1, <1>2, <1>3, <1>4 DEF Next

\* The hash map of the replacer knows exactly the listed frames, each once:
\* pin() and unpin() never follow a stale iterator and never list a frame twice.
THEOREM HashAlwaysMatches == Spec => []HashMatchesList
<1>1. IInv => HashMatchesList
  BY DEF IInv
<1> QED BY InitIInv, NextIInv, <1>1, PTL DEF Spec

\* victim() always returns the frame that has been evictable longest.
THEOREM EvictionIsLRU == Spec => []VictimIsLeastRecent
<1>1. IInv => VictimIsLeastRecent
  BY DEF IInv
<1> QED BY InitIInv, NextIInv, <1>1, PTL DEF Spec
=============================================================================
