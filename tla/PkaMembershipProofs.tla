------------------------- MODULE PkaMembershipProofs -------------------------
(***************************************************************************)
(* Proofs about PkaMembership, for any number of subscriptions, sources    *)
(* and channels, and any bounds: the types, that what is held is alive,    *)
(* that what a subscription lists is so, and that it follows its channels. *)
(***************************************************************************)
EXTENDS PkaMembership, FiniteSetTheorems, TLAPS

-----------------------------------------------------------------------------
(* Counting.                                                               *)

\* A set whose elements are numbered by those of another has as many.
LEMMA Counted ==
  ASSUME NEW S, NEW T, IsFiniteSet(S), NEW f \in [S -> T],
         \A x, y \in S : f[x] = f[y] => x = y,
         \A z \in T : \E x \in S : z = f[x]
  PROVE  IsFiniteSet(T) /\ Cardinality(T) = Cardinality(S)
<1>1. f \in Injection(S, T)
  BY DEF Injection, IsInjective
<1>2. f \in Surjection(S, T)
  BY DEF Surjection
<1> QED
  BY <1>1, <1>2, FS_Surjection

\* Two sets that share nothing.
LEMMA CountsAdd ==
  ASSUME NEW S, NEW T, IsFiniteSet(S), IsFiniteSet(T), S \cap T = {}
  PROVE  /\ IsFiniteSet(S \cup T)
         /\ Cardinality(S \cup T) = Cardinality(S) + Cardinality(T)
<1>1. Cardinality(S) \in Nat /\ Cardinality(T) \in Nat /\ Cardinality(S \cap T) = 0
  BY FS_CardinalityType, FS_EmptySet
<1>2. /\ IsFiniteSet(S \cup T)
      /\ Cardinality(S \cup T)
           = Cardinality(S) + Cardinality(T) - Cardinality(S \cap T)
  BY FS_Union
<1> QED
  BY <1>1, <1>2

-----------------------------------------------------------------------------
(* The invariant.                                                          *)

Places == Sources \X (1 .. MaxEntries)

\* A number that has not been given to a subscription is of nothing.
Untouched ==
  \A s \in Subscriptions \ created :
    /\ refs[s] = 0 /\ observed[s] = {} /\ followed[s] = {}
    /\ \A c \in Channels : connected[c][s] = 0

MembershipInv ==
  /\ TypeOK
  /\ Untouched
  /\ HeldIsAlive
  /\ ListedIsObserved
  /\ ListedChannelTells
  /\ FollowsChannel

LEMMA EntriesAreFinite ==
  ASSUME NEW s
  PROVE  /\ IsFiniteSet(Entries(s)) /\ Cardinality(Entries(s)) \in Nat
         /\ IsFiniteSet(Entries(s)') /\ Cardinality(Entries(s)') \in Nat
<1>1. IsFiniteSet(Places)
  <2>1. IsFiniteSet(1 .. MaxEntries)
    BY FS_Interval, MembershipAssumption
  <2> QED
    BY <2>1, FS_Product, MembershipAssumption DEF Places
<1>2. Entries(s) \in SUBSET Places /\ Entries(s)' \in SUBSET Places
  BY DEF Entries, Places
<1> QED
  BY <1>1, <1>2, FS_Subset, FS_CardinalityType

LEMMA InitInv == Init => MembershipInv
<1> SUFFICES ASSUME Init PROVE MembershipInv
  OBVIOUS
<1>1. MaxEntries \in Nat /\ NoChannel \notin Channels
  BY MembershipAssumption
<1>2. TypeOK
  BY <1>1 DEF Init, TypeOK
<1>3. HeldIsAlive
  <2> SUFFICES ASSUME NEW s \in Subscriptions PROVE refs[s] >= Holders(s)
    BY DEF HeldIsAlive
  <2>1. Entries(s) = {}
    BY <1>1 DEF Entries, Init
  <2>2. Cardinality(Entries(s)) = 0
    BY <2>1, FS_EmptySet
  <2> QED
    BY <2>2 DEF Holders, One, Init
<1> QED
  BY <1>1, <1>2, <1>3 DEF MembershipInv, Untouched, ListedIsObserved,
     ListedChannelTells, FollowsChannel, Init, Alive

-----------------------------------------------------------------------------
(* What becomes of entries, references and nodes.                          *)

\* One reference goes with one entry, for every subscription.
Matched ==
  \A t \in Subscriptions :
    refs'[t] - refs[t] = Cardinality(Entries(t)') - Cardinality(Entries(t))

LEMMA SameEntries ==
  ASSUME NEW t, \A r \in Sources : entries'[r][t] = entries[r][t]
  PROVE  Entries(t)' = Entries(t)
  BY DEF Entries

LEMMA ObserveEffect ==
  ASSUME TypeOK, NEW s \in Subscriptions, NEW adds \in SUBSET Sources,
         Observe(s, adds)
  PROVE  /\ refs' \in [Subscriptions -> Nat]
         /\ observed' \in [Subscriptions -> SUBSET Sources]
         /\ entries' \in [Sources -> [Subscriptions -> 0 .. MaxEntries]]
         /\ Matched
         /\ refs'[s] >= refs[s]
         /\ \A t \in Subscriptions \ {s} :
              refs'[t] = refs[t] /\ observed'[t] = observed[t]
         /\ observed'[s] = observed[s] \cup adds
         /\ \A r \in Sources, t \in Subscriptions :
              entries'[r][t] = IF t = s /\ r \in adds THEN entries[r][t] + 1
                               ELSE entries[r][t]
<1> DEFINE n == Cardinality(adds)
<1>1. /\ refs \in [Subscriptions -> Nat]
      /\ observed \in [Subscriptions -> SUBSET Sources]
      /\ entries \in [Sources -> [Subscriptions -> 0 .. MaxEntries]]
      /\ MaxEntries \in Nat
  BY MembershipAssumption DEF TypeOK
<1>2. IsFiniteSet(adds) /\ n \in Nat
  BY MembershipAssumption, FS_Subset, FS_CardinalityType
<1>3. /\ observed' = [observed EXCEPT ![s] = observed[s] \cup adds]
      /\ refs' = [refs EXCEPT ![s] = refs[s] + n]
      /\ \A r \in adds : entries[r][s] < MaxEntries
      /\ entries' = [r \in Sources |->
                       [entries[r] EXCEPT ![s] = entries[r][s] + One(r \in adds)]]
  BY DEF Observe
<1>4. ASSUME NEW r \in Sources, NEW t \in Subscriptions
      PROVE  entries'[r][t] = IF t = s /\ r \in adds THEN entries[r][t] + 1
                              ELSE entries[r][t]
  <2>1. entries'[r] = [entries[r] EXCEPT ![s] = entries[r][s] + One(r \in adds)]
    BY <1>3
  <2>2. entries[r] \in [Subscriptions -> 0 .. MaxEntries] /\ entries[r][t] \in Nat
    BY <1>1
  <2> QED
    BY <2>1, <2>2 DEF One
<1>5. entries' \in [Sources -> [Subscriptions -> 0 .. MaxEntries]]
  <2>1. ASSUME NEW r \in Sources
        PROVE  [entries[r] EXCEPT ![s] = entries[r][s] + One(r \in adds)]
                 \in [Subscriptions -> 0 .. MaxEntries]
    <3>1. entries[r] \in [Subscriptions -> 0 .. MaxEntries]
      BY <1>1
    <3>2. entries[r][s] + One(r \in adds) \in 0 .. MaxEntries
      <4>1. entries[r][s] \in 0 .. MaxEntries
        BY <3>1
      <4>2. CASE r \in adds
        <5>1. entries[r][s] < MaxEntries
          BY <1>3, <4>2
        <5> QED
          BY <1>1, <4>1, <4>2, <5>1 DEF One
      <4>3. CASE r \notin adds
        BY <1>1, <4>1, <4>3 DEF One
      <4> QED
        BY <4>2, <4>3
    <3> QED
      BY <3>1, <3>2
  <2> QED
    BY <1>3, <2>1
<1>6. Matched
  <2> SUFFICES ASSUME NEW t \in Subscriptions
               PROVE  refs'[t] - refs[t]
                        = Cardinality(Entries(t)') - Cardinality(Entries(t))
    BY DEF Matched
  <2>1. CASE t # s
    <3>1. Entries(t)' = Entries(t) /\ refs'[t] = refs[t] /\ refs[t] \in Nat
      BY <1>1, <1>3, <1>4, <2>1, SameEntries
    <3> QED
      BY <3>1, EntriesAreFinite
  <2>2. CASE t = s
    <3> DEFINE new == {e \in Places : e[1] \in adds /\ e[2] = entries[e[1]][s] + 1}
               f == [r \in adds |-> <<r, entries[r][s] + 1>>]
    <3>1. \A r \in adds : entries[r][s] + 1 \in 1 .. MaxEntries /\ r \in Sources
      BY <1>1, <1>3
    <3>2. f \in [adds -> new]
      BY <3>1 DEF Places
    <3>3. \A z \in new : \E r \in adds : z = f[r]
      BY DEF Places
    <3>4. \A r, q \in adds : f[r] = f[q] => r = q
      OBVIOUS
    <3>5. IsFiniteSet(new) /\ Cardinality(new) = n
      BY <1>2, <3>2, <3>3, <3>4, Counted
    <3>6. Entries(s)' = Entries(s) \cup new
      <4>1. ASSUME NEW e \in Places
            PROVE  e[2] <= entries'[e[1]][s] <=>
                     e[2] <= entries[e[1]][s] \/ e \in new
        <5>1. e[1] \in Sources /\ e[2] \in Nat /\ entries[e[1]][s] \in Nat
          BY <1>1 DEF Places
        <5> QED
          BY <1>4, <5>1
      <4> QED
        BY <4>1 DEF Entries, Places
    <3>7. Entries(s) \cap new = {}
      <4>1. ASSUME NEW e \in new, e \in Entries(s) PROVE FALSE
        <5>1. /\ e[2] = entries[e[1]][s] + 1 /\ e[2] <= entries[e[1]][s]
              /\ entries[e[1]][s] \in Nat
          BY <1>1, <4>1 DEF Places, Entries
        <5> QED
          BY <5>1
      <4> QED
        BY <4>1
    <3> HIDE DEF new
    <3>8. Cardinality(Entries(s)') = Cardinality(Entries(s)) + n
      BY <3>5, <3>6, <3>7, CountsAdd, EntriesAreFinite
    <3>9. refs'[s] = refs[s] + n /\ refs[s] \in Nat
      BY <1>1, <1>3
    <3> QED
      BY <1>2, <2>2, <3>8, <3>9, EntriesAreFinite
  <2> QED
    BY <2>1, <2>2
<1>7. refs' \in [Subscriptions -> Nat] /\ refs'[s] >= refs[s]
  BY <1>1, <1>2, <1>3
<1> QED
  BY <1>1, <1>3, <1>4, <1>5, <1>6, <1>7

LEMMA ForgetEffect ==
  ASSUME TypeOK, HeldIsAlive, NEW s \in Subscriptions,
         NEW takes \in SUBSET Sources, Forget(s, takes)
  PROVE  /\ refs' \in [Subscriptions -> Nat]
         /\ observed' \in [Subscriptions -> SUBSET Sources]
         /\ entries' \in [Sources -> [Subscriptions -> 0 .. MaxEntries]]
         /\ Matched
         /\ refs'[s] <= refs[s]
         /\ \A t \in Subscriptions \ {s} :
              refs'[t] = refs[t] /\ observed'[t] = observed[t]
         /\ observed'[s] = observed[s] \ takes
         /\ \A r \in Sources, t \in Subscriptions :
              t # s \/ r \notin takes => entries'[r][t] = entries[r][t]
<1> DEFINE met == {r \in takes : entries[r][s] > 0}
           n == Cardinality(met)
<1>1. /\ refs \in [Subscriptions -> Nat]
      /\ observed \in [Subscriptions -> SUBSET Sources]
      /\ entries \in [Sources -> [Subscriptions -> 0 .. MaxEntries]]
      /\ MaxEntries \in Nat
  BY MembershipAssumption DEF TypeOK
<1>2. IsFiniteSet(met) /\ n \in Nat
  <2>1. met \in SUBSET Sources
    OBVIOUS
  <2> QED
    BY <2>1, MembershipAssumption, FS_Subset, FS_CardinalityType
<1>3. /\ observed' = [observed EXCEPT ![s] = observed[s] \ takes]
      /\ refs' = [refs EXCEPT ![s] = refs[s] - n]
      /\ entries' = [r \in Sources |->
                       [entries[r] EXCEPT ![s] = entries[r][s] - One(r \in met)]]
  BY DEF Forget, WithoutNodes, Unrefs
<1> HIDE DEF n
<1>4. ASSUME NEW r \in Sources, NEW t \in Subscriptions
      PROVE  entries'[r][t] = IF t = s /\ r \in met THEN entries[r][t] - 1
                              ELSE entries[r][t]
  <2>1. entries'[r] = [entries[r] EXCEPT ![s] = entries[r][s] - One(r \in met)]
    BY <1>3
  <2>2. entries[r] \in [Subscriptions -> 0 .. MaxEntries] /\ entries[r][t] \in Nat
    BY <1>1
  <2> HIDE DEF met
  <2> QED
    BY <2>1, <2>2 DEF One
<1>5. entries' \in [Sources -> [Subscriptions -> 0 .. MaxEntries]]
  <2>1. ASSUME NEW r \in Sources
        PROVE  [entries[r] EXCEPT ![s] = entries[r][s] - One(r \in met)]
                 \in [Subscriptions -> 0 .. MaxEntries]
    <3>1. entries[r] \in [Subscriptions -> 0 .. MaxEntries]
      BY <1>1
    <3>2. entries[r][s] - One(r \in met) \in 0 .. MaxEntries
      BY <1>1, <3>1 DEF One
    <3> QED
      BY <3>1, <3>2
  <2> QED
    BY <1>3, <2>1
<1>6. Cardinality(Entries(s)) = Cardinality(Entries(s)') + n
  <2> DEFINE old == {e \in Places : e[1] \in met /\ e[2] = entries[e[1]][s]}
             f == [r \in met |-> <<r, entries[r][s]>>]
  <2>1. \A r \in met : entries[r][s] \in 1 .. MaxEntries /\ r \in Sources
    BY <1>1
  <2>2. f \in [met -> old]
    BY <2>1 DEF Places
  <2>3. \A z \in old : \E r \in met : z = f[r]
    BY DEF Places
  <2>4. \A r, q \in met : f[r] = f[q] => r = q
    OBVIOUS
  <2>5. IsFiniteSet(old) /\ Cardinality(old) = n
    BY <1>2, <2>2, <2>3, <2>4, Counted DEF n
  <2>6. ASSUME NEW e \in Places
        PROVE  /\ e[2] <= entries[e[1]][s] <=>
                    e[2] <= entries'[e[1]][s] \/ e \in old
               /\ ~(e[2] <= entries'[e[1]][s] /\ e \in old)
    <3>1. e[1] \in Sources /\ e[2] \in Nat /\ e[2] >= 1 /\ entries[e[1]][s] \in Nat
      BY <1>1 DEF Places
    <3>2. entries'[e[1]][s] = IF e[1] \in met THEN entries[e[1]][s] - 1
                              ELSE entries[e[1]][s]
      BY <1>4, <3>1
    <3>3. CASE e[1] \in met
      BY <3>1, <3>2, <3>3
    <3>4. CASE e[1] \notin met
      <4>1. e \notin old
        BY <3>4
      <4> QED
        BY <3>1, <3>2, <3>4, <4>1
    <3> QED
      BY <3>3, <3>4
  <2>7. Entries(s) = Entries(s)' \cup old /\ Entries(s)' \cap old = {}
    BY <2>6 DEF Entries, Places
  <2> HIDE DEF old
  <2> QED
    BY <2>5, <2>7, CountsAdd, EntriesAreFinite
<1>7. refs'[s] = refs[s] - n /\ refs[s] \in Nat
  BY <1>1, <1>3
<1>8. refs[s] >= Cardinality(Entries(s))
  BY <1>7, EntriesAreFinite DEF HeldIsAlive, Holders, One
<1>9. refs'[s] \in Nat /\ refs'[s] <= refs[s]
  BY <1>2, <1>6, <1>7, <1>8, EntriesAreFinite
<1>10. refs' \in [Subscriptions -> Nat]
  BY <1>1, <1>3, <1>9
<1>11. ASSUME NEW t \in Subscriptions
       PROVE  refs'[t] - refs[t]
                = Cardinality(Entries(t)') - Cardinality(Entries(t))
  <2>1. CASE t # s
    <3>1. Entries(t)' = Entries(t) /\ refs'[t] = refs[t] /\ refs[t] \in Nat
      BY <1>1, <1>3, <1>4, <2>1, SameEntries
    <3> QED
      BY <3>1, EntriesAreFinite
  <2>2. CASE t = s
    BY <1>2, <1>6, <1>7, <2>2, EntriesAreFinite
  <2> QED
    BY <2>1, <2>2
<1>12. \A r \in Sources, t \in Subscriptions :
         t # s \/ r \notin takes => entries'[r][t] = entries[r][t]
  BY <1>4
<1> QED
  BY <1>1, <1>3, <1>5, <1>9, <1>10, <1>11, <1>12 DEF Matched

\* Finalizing a source takes entries away.
LEMMA FinalizeEffect ==
  ASSUME TypeOK, Finalize(entries)
  PROVE  /\ entries' \in [Sources -> [Subscriptions -> 0 .. MaxEntries]]
         /\ \A r \in Sources : Kept(r) => entries'[r] = entries[r]
         /\ \A s \in Subscriptions :
              Cardinality(Entries(s)') <= Cardinality(Entries(s))
<1>1. /\ entries \in [Sources -> [Subscriptions -> 0 .. MaxEntries]]
      /\ MaxEntries \in Nat
  BY MembershipAssumption DEF TypeOK
<1>2. entries' = [r \in Sources |-> IF Kept(r) THEN entries[r]
                                    ELSE [s \in Subscriptions |-> 0]]
  BY DEF Finalize
<1> HIDE DEF Kept
<1>3. entries' \in [Sources -> [Subscriptions -> 0 .. MaxEntries]]
  BY <1>1, <1>2
<1>4. ASSUME NEW s \in Subscriptions
      PROVE  Cardinality(Entries(s)') <= Cardinality(Entries(s))
  <2>1. \A r \in Sources : entries'[r][s] <= entries[r][s]
    BY <1>1, <1>2
  <2>2. \A e \in Places : e[1] \in Sources /\ e[2] \in Nat
                          /\ entries'[e[1]][s] \in Nat /\ entries[e[1]][s] \in Nat
    BY <1>1, <1>3 DEF Places
  <2>3. Entries(s)' \in SUBSET Entries(s)
    BY <2>1, <2>2 DEF Entries, Places
  <2> QED
    BY <2>3, EntriesAreFinite, FS_Subset
<1> QED
  BY <1>2, <1>3, <1>4

\* Every handler of source-added makes an entry of its own.
LEMMA AddedEffect ==
  ASSUME TypeOK, NEW c \in Channels, NEW r \in Sources, ChannelAddSource(c, r)
  PROVE  /\ refs' \in [Subscriptions -> Nat]
         /\ observed' \in [Subscriptions -> SUBSET Sources]
         /\ entries' \in [Sources -> [Subscriptions -> 0 .. MaxEntries]]
         /\ Matched
         /\ \A s \in Subscriptions : refs'[s] > 0 => refs[s] > 0
         /\ \A s \in Subscriptions :
              IF connected[c][s] > 0 /\ Alive(s)
              THEN observed'[s] = observed[s] \cup {r} /\ entries'[r][s] > 0
              ELSE observed'[s] = observed[s] /\ refs'[s] = refs[s]
         /\ \A s \in Subscriptions, q \in Sources :
              /\ entries'[q][s] >= entries[q][s]
              /\ q # r => (<<s, q>> \in left' <=> <<s, q>> \in left)
<1> DEFINE told == {s \in Subscriptions : connected[c][s] > 0 /\ Alive(s)}
           more == [s \in Subscriptions |->
                      IF s \in told THEN connected[c][s] ELSE 0]
<1>1. /\ refs \in [Subscriptions -> Nat]
      /\ observed \in [Subscriptions -> SUBSET Sources]
      /\ entries \in [Sources -> [Subscriptions -> 0 .. MaxEntries]]
      /\ connected \in [Channels -> [Subscriptions -> Nat]]
      /\ MaxEntries \in Nat
  BY MembershipAssumption DEF TypeOK
<1>2. /\ observed' = [s \in Subscriptions |->
                        observed[s] \cup (IF s \in told THEN {r} ELSE {})]
      /\ entries' = [entries EXCEPT ![r] =
                       [s \in Subscriptions |-> entries[r][s] + more[s]]]
      /\ refs' = [s \in Subscriptions |-> refs[s] + more[s]]
      /\ left' = left \ (told \X {r})
      /\ \A s \in Subscriptions : entries'[r][s] <= MaxEntries
  BY DEF ChannelAddSource
<1>3. \A s \in Subscriptions :
        /\ more[s] \in Nat
        /\ s \in told => more[s] = connected[c][s] /\ more[s] > 0 /\ refs[s] > 0
        /\ s \notin told => more[s] = 0
  BY <1>1 DEF Alive
<1>4. \A s \in Subscriptions : s \in told <=> connected[c][s] > 0 /\ Alive(s)
  OBVIOUS
<1> HIDE DEF more, told
<1>5. ASSUME NEW s \in Subscriptions
      PROVE  /\ refs'[s] = refs[s] + more[s] /\ refs'[s] \in Nat /\ refs[s] \in Nat
             /\ entries'[r][s] = entries[r][s] + more[s]
             /\ entries[r][s] \in Nat /\ entries'[r][s] \in 0 .. MaxEntries
             /\ \A q \in Sources \ {r} : entries'[q][s] = entries[q][s]
  BY <1>1, <1>2, <1>3
<1>6. entries' \in [Sources -> [Subscriptions -> 0 .. MaxEntries]]
  <2>1. [s \in Subscriptions |-> entries[r][s] + more[s]]
          \in [Subscriptions -> 0 .. MaxEntries]
    BY <1>1, <1>2, <1>5
  <2> QED
    BY <1>1, <1>2, <2>1
<1>7. ASSUME NEW s \in Subscriptions
      PROVE  refs'[s] - refs[s]
               = Cardinality(Entries(s)') - Cardinality(Entries(s))
  <2> DEFINE k == more[s]
             new == {e \in Places : e[1] = r /\ e[2] > entries[r][s]
                                   /\ e[2] <= entries[r][s] + k}
             f == [i \in 1 .. k |-> <<r, entries[r][s] + i>>]
  <2>1. k \in Nat /\ k \in Int /\ 1 \in Int
    BY <1>3
  <2>2. IsFiniteSet(1 .. k) /\ Cardinality(1 .. k) = k
    BY <2>1, FS_Interval
  <2>3. f \in [1 .. k -> new]
    <3>1. ASSUME NEW i \in 1 .. k PROVE <<r, entries[r][s] + i>> \in new
      BY <1>1, <1>5, <2>1 DEF Places
    <3> QED
      BY <3>1
  <2>4. \A i, j \in 1 .. k : f[i] = f[j] => i = j
    BY <1>5, <2>1
  <2>5. ASSUME NEW z \in new PROVE \E i \in 1 .. k : z = f[i]
    <3>1. z[2] \in Nat /\ z = <<r, z[2]>> /\ z[2] > entries[r][s]
          /\ z[2] <= entries[r][s] + k
      BY DEF Places
    <3>2. z[2] - entries[r][s] \in 1 .. k
          /\ entries[r][s] + (z[2] - entries[r][s]) = z[2]
      BY <1>5, <2>1, <3>1
    <3>3. f[z[2] - entries[r][s]] = <<r, z[2]>>
      BY <3>2
    <3> QED
      BY <3>1, <3>2, <3>3
  <2>6. IsFiniteSet(new) /\ Cardinality(new) = k
    <3> HIDE DEF f, new, k
    <3> QED
      BY <2>2, <2>3, <2>4, <2>5, Counted
  <2>7. ASSUME NEW e \in Places
        PROVE  /\ e[2] <= entries'[e[1]][s] <=>
                    e[2] <= entries[e[1]][s] \/ e \in new
               /\ ~(e[2] <= entries[e[1]][s] /\ e \in new)
    <3>1. e[1] \in Sources /\ e[2] \in Nat /\ entries[e[1]][s] \in Nat
      BY <1>1 DEF Places
    <3>2. CASE e[1] = r
      BY <1>5, <2>1, <3>1, <3>2
    <3>3. CASE e[1] # r
      <4>1. entries'[e[1]][s] = entries[e[1]][s] /\ e \notin new
        BY <1>5, <3>1, <3>3
      <4> QED
        BY <4>1
    <3> QED
      BY <3>2, <3>3
  <2>8. Entries(s)' = Entries(s) \cup new /\ Entries(s) \cap new = {}
    BY <2>7 DEF Entries, Places
  <2> HIDE DEF new
  <2>9. Cardinality(Entries(s)') = Cardinality(Entries(s)) + k
    BY <2>6, <2>8, CountsAdd, EntriesAreFinite
  <2> QED
    BY <1>5, <2>1, <2>9, EntriesAreFinite
<1>8. \A s \in Subscriptions, q \in Sources :
        /\ entries'[q][s] >= entries[q][s]
        /\ q # r => (<<s, q>> \in left' <=> <<s, q>> \in left)
  <2>1. ASSUME NEW s \in Subscriptions, NEW q \in Sources
        PROVE  entries'[q][s] >= entries[q][s]
    <3>1. entries[q][s] \in Nat
      BY <1>1
    <3> QED
      BY <1>3, <1>5, <3>1
  <2> QED
    BY <1>2, <2>1
<1>9. ASSUME NEW s \in Subscriptions
      PROVE  IF connected[c][s] > 0 /\ Alive(s)
             THEN observed'[s] = observed[s] \cup {r} /\ entries'[r][s] > 0
             ELSE observed'[s] = observed[s] /\ refs'[s] = refs[s]
  BY <1>2, <1>3, <1>4, <1>5
<1>10. observed' \in [Subscriptions -> SUBSET Sources]
  BY <1>1, <1>2
<1>11. refs' \in [Subscriptions -> Nat]
  BY <1>2, <1>5
<1>12. \A s \in Subscriptions : refs'[s] > 0 => refs[s] > 0
  BY <1>3, <1>5
<1> QED
  BY <1>6, <1>7, <1>8, <1>9, <1>10, <1>11, <1>12 DEF Matched

-----------------------------------------------------------------------------
(* The steps.                                                              *)

LEMMA HeldStill ==
  ASSUME TypeOK, refs' \in [Subscriptions -> Nat], HeldIsAlive, Matched,
         registered' = registered
  PROVE  HeldIsAlive'
<1> SUFFICES ASSUME NEW s \in Subscriptions PROVE refs'[s] >= Holders(s)'
  BY DEF HeldIsAlive
<1>1. refs'[s] - refs[s] = Cardinality(Entries(s)') - Cardinality(Entries(s))
  BY DEF Matched
<1>2. refs[s] >= One(s \in registered) + Cardinality(Entries(s))
  BY DEF HeldIsAlive, Holders
<1>3. refs[s] \in Nat /\ refs'[s] \in Nat /\ One(s \in registered) \in Nat
  BY DEF TypeOK, One
<1>4. refs'[s] >= One(s \in registered) + Cardinality(Entries(s)')
  BY <1>1, <1>2, <1>3, EntriesAreFinite
<1> QED
  BY <1>4 DEF Holders, One

\* The registry's own reference.
LEMMA RegisteredIsAlive ==
  ASSUME TypeOK, HeldIsAlive, NEW s \in registered
  PROVE  s \in Subscriptions /\ refs[s] > 0
<1>1. s \in Subscriptions /\ refs[s] \in Nat
  BY DEF TypeOK
<1>2. refs[s] >= One(s \in registered) + Cardinality(Entries(s))
  BY <1>1 DEF HeldIsAlive, Holders
<1> QED
  BY <1>1, <1>2, EntriesAreFinite DEF One

LEMMA AddSubscriptionInv ==
  ASSUME MembershipInv, NEW s \in Subscriptions, ManagerAddSubscription(s)
  PROVE  MembershipInv'
<1> USE DEF ManagerAddSubscription, sourceVars
<1>1. TypeOK /\ Untouched /\ refs[s] = 0 /\ followed[s] = {}
      /\ \A c \in Channels : connected[c][s] = 0
  BY DEF MembershipInv, Untouched
<1>2. TypeOK'
  BY <1>1 DEF TypeOK
<1>3. /\ refs'[s] = 1 /\ \A t \in Subscriptions \ {s} : refs'[t] = refs[t]
  BY <1>1 DEF TypeOK
<1>4. HeldIsAlive'
  <2> SUFFICES ASSUME NEW t \in Subscriptions PROVE refs'[t] >= Holders(t)'
    BY DEF HeldIsAlive
  <2>1. Entries(t)' = Entries(t) /\ Cardinality(Entries(t)) \in Nat
    BY EntriesAreFinite DEF Entries
  <2>2. refs[t] >= One(t \in registered) + Cardinality(Entries(t)) /\ refs[t] \in Nat
    BY <1>1 DEF MembershipInv, HeldIsAlive, Holders, TypeOK
  <2>3. CASE t = s
    <3>1. Cardinality(Entries(s)) = 0
      BY <1>1, <2>1, <2>2, <2>3 DEF One
    <3> QED
      BY <1>3, <2>1, <2>3, <3>1 DEF Holders, One
  <2>4. CASE t # s
    BY <1>3, <2>1, <2>2, <2>4 DEF Holders, One
  <2> QED
    BY <2>3, <2>4
<1>5. Untouched'
  BY <1>1, <1>3 DEF Untouched
<1>6. ListedIsObserved'
  BY DEF MembershipInv, ListedIsObserved
<1>7. ListedChannelTells'
  BY <1>1, <1>3 DEF MembershipInv, ListedChannelTells, Alive
<1>8. FollowsChannel'
  BY <1>1, <1>3 DEF MembershipInv, FollowsChannel, Alive
<1> QED
  BY <1>2, <1>4, <1>5, <1>6, <1>7, <1>8 DEF MembershipInv

LEMMA RemoveSubscriptionInv ==
  ASSUME MembershipInv, NEW s \in Subscriptions, ManagerRemoveSubscription(s)
  PROVE  MembershipInv'
<1> USE DEF ManagerRemoveSubscription, sourceVars
<1>1. TypeOK /\ s \in registered /\ refs[s] > 0 /\ refs[s] \in Nat
  BY RegisteredIsAlive DEF MembershipInv, TypeOK
<1>2. /\ refs' = [refs EXCEPT ![s] = refs[s] - 1]
      /\ refs'[s] = refs[s] - 1 /\ \A t \in Subscriptions \ {s} : refs'[t] = refs[t]
      /\ refs' \in [Subscriptions -> Nat]
  BY <1>1 DEF TypeOK
<1>3. /\ entries' \in [Sources -> [Subscriptions -> 0 .. MaxEntries]]
      /\ \A r \in Sources : Kept(r) => entries'[r] = entries[r]
      /\ \A t \in Subscriptions :
           Cardinality(Entries(t)') <= Cardinality(Entries(t))
  BY <1>1, FinalizeEffect
<1>4. \A t \in Subscriptions :
        /\ observed'[t] \subseteq observed[t]
        /\ followed'[t] \subseteq followed[t]
        /\ refs'[t] > 0 => followed'[t] = followed[t] /\ refs[t] > 0
  BY <1>1, <1>2 DEF TypeOK
<1>5. TypeOK'
  <2>1. /\ observed' \in [Subscriptions -> SUBSET Sources]
        /\ followed' \in [Subscriptions -> SUBSET Channels]
    BY <1>1 DEF TypeOK
  <2> QED
    BY <1>1, <1>2, <1>3, <2>1 DEF TypeOK
<1>6. HeldIsAlive'
  <2> SUFFICES ASSUME NEW t \in Subscriptions PROVE refs'[t] >= Holders(t)'
    BY DEF HeldIsAlive
  <2>1. refs[t] >= One(t \in registered) + Cardinality(Entries(t)) /\ refs[t] \in Nat
    BY <1>1 DEF MembershipInv, HeldIsAlive, Holders, TypeOK
  <2>2. Cardinality(Entries(t)') <= Cardinality(Entries(t))
    BY <1>3
  <2>3. /\ t = s => One(t \in registered) = 1 /\ One(t \in registered') = 0
        /\ t # s => One(t \in registered') = One(t \in registered)
        /\ One(t \in registered) \in Nat
    BY <1>1 DEF One
  <2>4. refs'[t] >= One(t \in registered') + Cardinality(Entries(t)')
    BY <1>2, <2>1, <2>2, <2>3, EntriesAreFinite
  <2> QED
    BY <2>4 DEF Holders, One
<1>7. Untouched'
  <2>1. s \in created
    BY <1>1 DEF TypeOK
  <2> QED
    BY <1>2, <1>4, <2>1 DEF MembershipInv, Untouched
<1>8. ListedIsObserved'
  <2> SUFFICES ASSUME NEW t \in Subscriptions, NEW r \in observed'[t]
               PROVE  entries'[r][t] > 0
    BY DEF ListedIsObserved
  <2>1. r \in Sources /\ r \in observed[t] /\ Kept(r)
    BY <1>4, <1>5 DEF TypeOK, Kept
  <2> QED
    BY <1>3, <2>1 DEF MembershipInv, ListedIsObserved
<1>9. ListedChannelTells'
  BY <1>4 DEF MembershipInv, ListedChannelTells, Alive
<1>10. FollowsChannel'
  <2> SUFFICES ASSUME NEW t \in Subscriptions, NEW r \in Sources, refs'[t] > 0,
                      home[r] \in followed'[t], <<t, r>> \notin left
               PROVE  entries'[r][t] > 0
    BY DEF FollowsChannel, Alive
  <2>1. home[r] \in Channels /\ home[r] # NoChannel
    BY <1>5, MembershipAssumption DEF TypeOK
  <2>2. Kept(r)
    BY <2>1 DEF Kept
  <2> QED
    BY <1>3, <1>4, <2>2 DEF MembershipInv, FollowsChannel, Alive
<1> QED
  BY <1>5, <1>6, <1>7, <1>8, <1>9, <1>10 DEF MembershipInv

LEMMA AddSourceInv ==
  ASSUME MembershipInv, NEW s \in Subscriptions, NEW r \in Sources,
         SubscriptionAddSource(s, r)
  PROVE  MembershipInv'
<1> USE DEF SubscriptionAddSource, sourceVars
<1>1. /\ TypeOK /\ HeldIsAlive /\ s \in created /\ refs[s] > 0
      /\ Observe(s, {r})
  BY RegisteredIsAlive DEF MembershipInv, TypeOK
<1>2. /\ refs' \in [Subscriptions -> Nat]
      /\ observed' \in [Subscriptions -> SUBSET Sources]
      /\ entries' \in [Sources -> [Subscriptions -> 0 .. MaxEntries]]
      /\ Matched
      /\ \A t \in Subscriptions \ {s} :
           refs'[t] = refs[t] /\ observed'[t] = observed[t]
      /\ observed'[s] = observed[s] \cup {r}
      /\ \A q \in Sources, t \in Subscriptions :
           entries'[q][t] = IF t = s /\ q \in {r} THEN entries[q][t] + 1
                            ELSE entries[q][t]
  BY <1>1, ObserveEffect
<1>3. \A q \in Sources, t \in Subscriptions : entries[q][t] \in Nat
  BY <1>1 DEF TypeOK
<1>4. TypeOK'
  BY <1>1, <1>2 DEF TypeOK
<1>5. HeldIsAlive'
  BY <1>1, <1>2, HeldStill
<1>6. Untouched'
  BY <1>1, <1>2 DEF MembershipInv, Untouched
<1>7. ListedIsObserved'
  BY <1>2, <1>3, <1>4 DEF MembershipInv, ListedIsObserved, TypeOK
<1>8. ListedChannelTells'
  BY <1>1, <1>2 DEF MembershipInv, ListedChannelTells, Alive
<1>9. FollowsChannel'
  BY <1>1, <1>2, <1>3 DEF MembershipInv, FollowsChannel, Alive
<1> QED
  BY <1>4, <1>5, <1>6, <1>7, <1>8, <1>9 DEF MembershipInv

LEMMA RemoveSourceInv ==
  ASSUME MembershipInv, NEW s \in Subscriptions, NEW r \in Sources,
         SubscriptionRemoveSource(s, r)
  PROVE  MembershipInv'
<1> USE DEF SubscriptionRemoveSource, sourceVars
<1>1. /\ TypeOK /\ HeldIsAlive /\ s \in created /\ refs[s] > 0
      /\ Forget(s, {r})
  BY RegisteredIsAlive DEF MembershipInv, TypeOK
<1>2. /\ refs' \in [Subscriptions -> Nat]
      /\ observed' \in [Subscriptions -> SUBSET Sources]
      /\ entries' \in [Sources -> [Subscriptions -> 0 .. MaxEntries]]
      /\ Matched
      /\ \A t \in Subscriptions \ {s} :
           refs'[t] = refs[t] /\ observed'[t] = observed[t]
      /\ observed'[s] = observed[s] \ {r}
      /\ \A q \in Sources, t \in Subscriptions :
           t # s \/ q \notin {r} => entries'[q][t] = entries[q][t]
  BY <1>1, ForgetEffect
<1>3. TypeOK'
  BY <1>1, <1>2 DEF TypeOK
<1>4. HeldIsAlive'
  BY <1>1, <1>2, HeldStill
<1>5. Untouched'
  BY <1>1, <1>2 DEF MembershipInv, Untouched
<1>6. ListedIsObserved'
  BY <1>2, <1>3 DEF MembershipInv, ListedIsObserved, TypeOK
<1>7. ListedChannelTells'
  BY <1>1, <1>2 DEF MembershipInv, ListedChannelTells, Alive
<1>8. FollowsChannel'
  BY <1>1, <1>2 DEF MembershipInv, FollowsChannel, Alive
<1> QED
  BY <1>3, <1>4, <1>5, <1>6, <1>7, <1>8 DEF MembershipInv

LEMMA AddChannelInv ==
  ASSUME MembershipInv, NEW s \in Subscriptions, NEW c \in Channels,
         SubscriptionAddChannel(s, c)
  PROVE  MembershipInv'
<1> USE DEF SubscriptionAddChannel, sourceVars
<1> DEFINE joins == Joins(s, c)
<1>1. /\ TypeOK /\ HeldIsAlive /\ s \in created /\ refs[s] > 0
      /\ joins \in SUBSET Sources /\ joins = {r \in Sources : home[r] = c}
      /\ Observe(s, joins)
  BY RegisteredIsAlive DEF MembershipInv, TypeOK, Joins, Member
<1>2. /\ followed' = [followed EXCEPT ![s] = followed[s] \cup {c}]
      /\ connected' = [connected EXCEPT ![c][s] = connected[c][s] + 1]
      /\ left' = left \ ({s} \X joins) /\ registered' = registered
      /\ UNCHANGED <<created, made, published, home>>
  BY DEF Joins
<1>3. connected[c][s] \in Nat
  BY <1>1 DEF TypeOK
<1> HIDE DEF joins
<1>4. /\ refs' \in [Subscriptions -> Nat]
      /\ observed' \in [Subscriptions -> SUBSET Sources]
      /\ entries' \in [Sources -> [Subscriptions -> 0 .. MaxEntries]]
      /\ Matched
      /\ \A t \in Subscriptions \ {s} :
           refs'[t] = refs[t] /\ observed'[t] = observed[t]
      /\ observed'[s] = observed[s] \cup joins
      /\ \A q \in Sources, t \in Subscriptions :
           entries'[q][t] = IF t = s /\ q \in joins THEN entries[q][t] + 1
                            ELSE entries[q][t]
  BY <1>1, ObserveEffect
<1>5. \A q \in Sources, t \in Subscriptions : entries[q][t] \in Nat
  BY <1>1 DEF TypeOK
<1>6. /\ followed' \in [Subscriptions -> SUBSET Channels]
      /\ connected' \in [Channels -> [Subscriptions -> Nat]]
      /\ followed'[s] = followed[s] \cup {c}
      /\ \A t \in Subscriptions \ {s} : followed'[t] = followed[t]
      /\ connected'[c][s] > 0
      /\ \A d \in Channels, t \in Subscriptions :
           d # c \/ t # s => connected'[d][t] = connected[d][t]
  BY <1>1, <1>2, <1>3 DEF TypeOK
<1>7. TypeOK'
  BY <1>1, <1>2, <1>4, <1>6 DEF TypeOK
<1>8. HeldIsAlive'
  BY <1>1, <1>2, <1>4, HeldStill
<1>9. Untouched'
  BY <1>1, <1>2, <1>4, <1>6 DEF MembershipInv, Untouched
<1>10. ListedIsObserved'
  BY <1>4, <1>5, <1>7 DEF MembershipInv, ListedIsObserved, TypeOK
<1>11. ListedChannelTells'
  BY <1>1, <1>4, <1>6 DEF MembershipInv, ListedChannelTells, Alive
<1>12. FollowsChannel'
  <2> SUFFICES ASSUME NEW t \in Subscriptions, NEW r \in Sources, refs'[t] > 0,
                      home[r] \in followed'[t], <<t, r>> \notin left'
               PROVE  entries'[r][t] > 0
    BY <1>2 DEF FollowsChannel, Alive
  <2>1. CASE t = s /\ r \in joins
    BY <1>4, <1>5, <2>1
  <2>2. CASE t = s /\ r \notin joins
    <3>1. home[r] \in followed[s] /\ <<s, r>> \notin left
      BY <1>1, <1>2, <1>6, <2>2
    <3> QED
      BY <1>1, <1>4, <2>2, <3>1 DEF MembershipInv, FollowsChannel, Alive
  <2>3. CASE t # s
    BY <1>2, <1>4, <1>6, <2>3 DEF MembershipInv, FollowsChannel, Alive
  <2> QED
    BY <2>1, <2>2, <2>3
<1> QED
  BY <1>7, <1>8, <1>9, <1>10, <1>11, <1>12 DEF MembershipInv

LEMMA RemoveChannelInv ==
  ASSUME MembershipInv, NEW s \in Subscriptions, NEW c \in Channels,
         SubscriptionRemoveChannel(s, c)
  PROVE  MembershipInv'
<1> USE DEF SubscriptionRemoveChannel, sourceVars
<1> DEFINE takes == Member(c)
<1>1. /\ TypeOK /\ HeldIsAlive /\ s \in created /\ refs[s] > 0
      /\ takes \in SUBSET Sources /\ takes = {r \in Sources : home[r] = c}
      /\ Forget(s, takes)
  BY RegisteredIsAlive DEF MembershipInv, TypeOK, Member
<1>2. /\ followed' = [followed EXCEPT ![s] = followed[s] \ {c}]
      /\ connected' = [connected EXCEPT ![c][s] = 0]
      /\ left' = left \cup ({s} \X takes) /\ registered' = registered
      /\ UNCHANGED <<created, made, published, home>>
  BY DEF Disconnects
<1> HIDE DEF takes
<1>3. /\ refs' \in [Subscriptions -> Nat]
      /\ observed' \in [Subscriptions -> SUBSET Sources]
      /\ entries' \in [Sources -> [Subscriptions -> 0 .. MaxEntries]]
      /\ Matched /\ refs'[s] <= refs[s]
      /\ \A t \in Subscriptions \ {s} :
           refs'[t] = refs[t] /\ observed'[t] = observed[t]
      /\ observed'[s] = observed[s] \ takes
      /\ \A q \in Sources, t \in Subscriptions :
           t # s \/ q \notin takes => entries'[q][t] = entries[q][t]
  BY <1>1, ForgetEffect
<1>4. /\ followed' \in [Subscriptions -> SUBSET Channels]
      /\ connected' \in [Channels -> [Subscriptions -> Nat]]
      /\ followed'[s] = followed[s] \ {c}
      /\ \A t \in Subscriptions \ {s} : followed'[t] = followed[t]
      /\ connected'[c][s] = 0
      /\ \A d \in Channels, t \in Subscriptions :
           d # c \/ t # s => connected'[d][t] = connected[d][t]
  BY <1>1, <1>2 DEF TypeOK
<1>5. TypeOK'
  <2>1. left' \subseteq Subscriptions \X Sources
    BY <1>1, <1>2 DEF TypeOK
  <2> QED
    BY <1>1, <1>2, <1>3, <1>4, <2>1 DEF TypeOK
<1>6. HeldIsAlive'
  BY <1>1, <1>2, <1>3, HeldStill
<1>7. Untouched'
  BY <1>1, <1>2, <1>3, <1>4 DEF MembershipInv, Untouched
<1>8. ListedIsObserved'
  BY <1>3, <1>5 DEF MembershipInv, ListedIsObserved, TypeOK
<1>9. ListedChannelTells'
  BY <1>1, <1>3, <1>4 DEF MembershipInv, ListedChannelTells, Alive
<1>10. FollowsChannel'
  <2> SUFFICES ASSUME NEW t \in Subscriptions, NEW r \in Sources, refs'[t] > 0,
                      home[r] \in followed'[t], <<t, r>> \notin left'
               PROVE  entries'[r][t] > 0
    BY <1>2 DEF FollowsChannel, Alive
  <2>1. refs[t] > 0
    BY <1>1, <1>3
  <2>2. home[r] \in followed[t] /\ <<t, r>> \notin left
    BY <1>2, <1>4
  <2>3. t # s \/ r \notin takes
    BY <1>2
  <2> QED
    BY <1>3, <2>1, <2>2, <2>3 DEF MembershipInv, FollowsChannel, Alive
<1> QED
  BY <1>5, <1>6, <1>7, <1>8, <1>9, <1>10 DEF MembershipInv

LEMMA SetHandlerRefusedInv ==
  ASSUME MembershipInv, NEW s \in Subscriptions, SetHandlerRefused(s)
  PROVE  MembershipInv'
<1> USE DEF SetHandlerRefused, sourceVars
<1>1. /\ TypeOK /\ s \in created /\ refs[s] > 0 /\ refs[s] \in Nat
  BY RegisteredIsAlive DEF MembershipInv, TypeOK
<1>2. /\ refs' \in [Subscriptions -> Nat] /\ refs'[s] = refs[s] + 1
      /\ \A t \in Subscriptions \ {s} : refs'[t] = refs[t]
  BY <1>1 DEF TypeOK
<1>3. TypeOK'
  BY <1>1, <1>2 DEF TypeOK
<1>4. HeldIsAlive'
  <2> SUFFICES ASSUME NEW t \in Subscriptions PROVE refs'[t] >= Holders(t)'
    BY DEF HeldIsAlive
  <2>1. Holders(t)' = Holders(t)
    BY DEF Holders, Entries, One
  <2>2. Holders(t) \in Nat /\ refs[t] >= Holders(t) /\ refs[t] \in Nat
    BY <1>1, EntriesAreFinite DEF Holders, One, MembershipInv, HeldIsAlive, TypeOK
  <2>3. refs'[t] = refs[t] \/ refs'[t] = refs[t] + 1
    BY <1>2
  <2> QED
    BY <2>1, <2>2, <2>3
<1>5. Untouched'
  BY <1>1, <1>2 DEF MembershipInv, Untouched
<1>6. ListedIsObserved' /\ ListedChannelTells' /\ FollowsChannel'
  BY <1>1, <1>2 DEF MembershipInv, ListedIsObserved, ListedChannelTells,
     FollowsChannel, Alive
<1> QED
  BY <1>3, <1>4, <1>5, <1>6 DEF MembershipInv

LEMMA RemoveRegisteredSourceInv ==
  ASSUME MembershipInv, NEW r \in Sources, ManagerRemoveSource(r)
  PROVE  MembershipInv'
<1> USE DEF ManagerRemoveSource, subscriptionVars
<1>1. TypeOK /\ HeldIsAlive /\ Untouched
  BY DEF MembershipInv
<1>2. /\ entries' \in [Sources -> [Subscriptions -> 0 .. MaxEntries]]
      /\ \A q \in Sources : Kept(q) => entries'[q] = entries[q]
      /\ \A t \in Subscriptions :
           Cardinality(Entries(t)') <= Cardinality(Entries(t))
  BY <1>1, FinalizeEffect
<1>3. TypeOK'
  BY <1>1, <1>2 DEF TypeOK
<1>4. HeldIsAlive'
  <2> SUFFICES ASSUME NEW t \in Subscriptions PROVE refs'[t] >= Holders(t)'
    BY DEF HeldIsAlive
  <2>1. refs[t] >= One(t \in registered) + Cardinality(Entries(t)) /\ refs[t] \in Nat
    BY <1>1 DEF HeldIsAlive, Holders, TypeOK
  <2>2. Cardinality(Entries(t)') <= Cardinality(Entries(t))
    BY <1>2
  <2>3. One(t \in registered) \in Nat
    BY DEF One
  <2>4. refs[t] >= One(t \in registered) + Cardinality(Entries(t)')
    BY <2>1, <2>2, <2>3, EntriesAreFinite
  <2> QED
    BY <2>4 DEF Holders, One
<1>5. Untouched'
  BY <1>1 DEF Untouched
<1>6. ListedIsObserved'
  <2> SUFFICES ASSUME NEW t \in Subscriptions, NEW q \in observed[t]
               PROVE  entries'[q][t] > 0
    BY DEF ListedIsObserved
  <2>1. q \in Sources /\ Kept(q)
    BY <1>1 DEF TypeOK, Kept
  <2> QED
    BY <1>2, <2>1 DEF MembershipInv, ListedIsObserved
<1>7. ListedChannelTells'
  BY DEF MembershipInv, ListedChannelTells, Alive
<1>8. FollowsChannel'
  <2> SUFFICES ASSUME NEW t \in Subscriptions, NEW q \in Sources, refs[t] > 0,
                      home[q] \in followed[t], <<t, q>> \notin left
               PROVE  entries'[q][t] > 0
    BY DEF FollowsChannel, Alive
  <2>1. home[q] # NoChannel
    BY <1>1, MembershipAssumption DEF TypeOK
  <2>2. Kept(q)
    BY <2>1 DEF Kept
  <2> QED
    BY <1>2, <2>2 DEF MembershipInv, FollowsChannel, Alive
<1> QED
  BY <1>3, <1>4, <1>5, <1>6, <1>7, <1>8 DEF MembershipInv

LEMMA ChannelAddSourceInv ==
  ASSUME MembershipInv, NEW c \in Channels, NEW r \in Sources,
         ChannelAddSource(c, r)
  PROVE  MembershipInv'
<1>1. /\ TypeOK /\ HeldIsAlive /\ Untouched /\ NoChannel \notin Channels
      /\ home \in [Sources -> Channels \cup {NoChannel}]
      /\ \A q \in Sources, t \in Subscriptions : entries[q][t] \in Nat
  BY MembershipAssumption DEF MembershipInv, TypeOK
<1>2. /\ home' = [home EXCEPT ![r] = c] /\ left' \subseteq left
      /\ UNCHANGED <<created, registered, followed, made, published, connected>>
  BY DEF ChannelAddSource
<1>3. /\ refs' \in [Subscriptions -> Nat]
      /\ observed' \in [Subscriptions -> SUBSET Sources]
      /\ entries' \in [Sources -> [Subscriptions -> 0 .. MaxEntries]]
      /\ Matched
      /\ \A s \in Subscriptions : refs'[s] > 0 => refs[s] > 0
      /\ \A s \in Subscriptions :
           IF connected[c][s] > 0 /\ Alive(s)
           THEN observed'[s] = observed[s] \cup {r} /\ entries'[r][s] > 0
           ELSE observed'[s] = observed[s] /\ refs'[s] = refs[s]
      /\ \A s \in Subscriptions, q \in Sources :
           /\ entries'[q][s] >= entries[q][s]
           /\ q # r => (<<s, q>> \in left' <=> <<s, q>> \in left)
  BY <1>1, AddedEffect
<1>4. home'[r] = c /\ \A q \in Sources \ {r} : home'[q] = home[q]
  BY <1>1, <1>2
<1>5. \A q \in Sources, t \in Subscriptions :
        entries'[q][t] \in Nat /\ (entries[q][t] > 0 => entries'[q][t] > 0)
  <2> TAKE q \in Sources, t \in Subscriptions
  <2>1. entries'[q][t] \in 0 .. MaxEntries /\ MaxEntries \in Nat
    BY <1>3, MembershipAssumption
  <2>2. entries'[q][t] >= entries[q][t] /\ entries[q][t] \in Nat
    BY <1>1, <1>3
  <2> QED
    BY <2>1, <2>2
<1>6. TypeOK'
  BY <1>1, <1>2, <1>3 DEF TypeOK
<1>7. HeldIsAlive'
  BY <1>1, <1>2, <1>3, HeldStill
<1>8. Untouched'
  BY <1>1, <1>2, <1>3 DEF Untouched, Alive
<1>9. ListedIsObserved'
  <2> SUFFICES ASSUME NEW t \in Subscriptions, NEW q \in observed'[t]
               PROVE  entries'[q][t] > 0
    BY DEF ListedIsObserved
  <2>1. q \in Sources
    BY <1>3
  <2>2. q \in observed[t] \/ (q = r /\ entries'[r][t] > 0)
    BY <1>3
  <2> QED
    BY <1>5, <2>1, <2>2 DEF MembershipInv, ListedIsObserved
<1>10. ListedChannelTells'
  BY <1>2, <1>3 DEF MembershipInv, ListedChannelTells, Alive
<1>11. FollowsChannel'
  <2> SUFFICES ASSUME NEW t \in Subscriptions, NEW q \in Sources, refs'[t] > 0,
                      home'[q] \in followed[t], <<t, q>> \notin left'
               PROVE  entries'[q][t] > 0
    BY <1>2 DEF FollowsChannel, Alive
  <2>1. refs[t] > 0
    BY <1>3
  <2>2. CASE q = r
    <3>1. connected[c][t] > 0
      BY <1>4, <2>1, <2>2 DEF MembershipInv, ListedChannelTells, Alive
    <3> QED
      BY <1>3, <2>1, <2>2, <3>1 DEF Alive
  <2>3. CASE q # r
    BY <1>3, <1>4, <1>5, <2>1, <2>3 DEF MembershipInv, FollowsChannel, Alive
  <2> QED
    BY <2>2, <2>3
<1> QED
  BY <1>6, <1>7, <1>8, <1>9, <1>10, <1>11 DEF MembershipInv

\* Neither the registry of sources nor a stutter touches a membership.
LEMMA MembershipUnchanged ==
  ASSUME MembershipInv, published' \subseteq made', made' \subseteq Sources,
         UNCHANGED <<subscriptionVars, home, entries, connected, left>>
  PROVE  MembershipInv'
<1> USE DEF subscriptionVars
<1>1. TypeOK'
  BY DEF MembershipInv, TypeOK
<1>2. HeldIsAlive'
  BY DEF MembershipInv, HeldIsAlive, Holders, Entries, One
<1>3. Untouched' /\ ListedIsObserved' /\ ListedChannelTells' /\ FollowsChannel'
  BY DEF MembershipInv, Untouched, ListedIsObserved, ListedChannelTells,
     FollowsChannel, Alive
<1> QED
  BY <1>1, <1>2, <1>3 DEF MembershipInv

LEMMA NextInv ==
  ASSUME MembershipInv, [Next]_mvars
  PROVE  MembershipInv'
<1>1. CASE UNCHANGED mvars
  BY <1>1, MembershipUnchanged DEF MembershipInv, TypeOK, mvars, sourceVars
<1>2. ASSUME NEW r \in Sources, ManagerAddSource(r)
      PROVE  MembershipInv'
  BY <1>2, MembershipUnchanged DEF ManagerAddSource, MembershipInv, TypeOK
<1> QED
  BY <1>1, <1>2, AddSubscriptionInv, RemoveSubscriptionInv, AddSourceInv,
     RemoveSourceInv, AddChannelInv, RemoveChannelInv, SetHandlerRefusedInv,
     RemoveRegisteredSourceInv, ChannelAddSourceInv DEF Next

-----------------------------------------------------------------------------
(* The theorems.                                                           *)

(* What holds of every membership after any sequence of calls              *)
(* (pka-subscription.c:250-455, pka-manager.c:427-1125).                   *)
THEOREM MembershipInvariant == Spec => []MembershipInv
<1> QED
  BY InitInv, NextInv, PTL DEF Spec

(* The type invariant; that a count of references is never less than none  *)
(* (pka-subscription.c:889) takes the rest of the invariant.               *)
THEOREM MembershipTypes == Spec => []TypeOK
<1>1. MembershipInv => TypeOK
  BY DEF MembershipInv
<1> QED
  BY <1>1, MembershipInvariant, PTL

(* What the registry or a source holds is alive (pka-source.c:469-541).    *)
THEOREM MembersAreAlive == Spec => []HeldIsAlive
<1>1. MembershipInv => HeldIsAlive
  BY DEF MembershipInv
<1> QED
  BY <1>1, MembershipInvariant, PTL

(* What a subscription answers of its sources is so                        *)
(* (pka-subscription.c:375-455).                                           *)
THEOREM ListedSourcesObserve == Spec => []ListedIsObserved
<1>1. MembershipInv => ListedIsObserved
  BY DEF MembershipInv
<1> QED
  BY <1>1, MembershipInvariant, PTL

(* The channels it lists are the channels that tell it                     *)
(* (pka-subscription.c:250-360).                                           *)
THEOREM ListedChannelsTell == Spec => []ListedChannelTells
<1>1. MembershipInv => ListedChannelTells
  BY DEF MembershipInv
<1> QED
  BY <1>1, MembershipInvariant, PTL

(* A channel's sources are observed by who follows it, whichever came      *)
(* first (pka-subscription.c:277-292, pka-channel.c:537-571).              *)
THEOREM ChannelsAreFollowed == Spec => []FollowsChannel
<1>1. MembershipInv => FollowsChannel
  BY DEF MembershipInv
<1> QED
  BY <1>1, MembershipInvariant, PTL
=============================================================================
