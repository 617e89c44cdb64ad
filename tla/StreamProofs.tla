---------------------------- MODULE StreamProofs -----------------------------
(***************************************************************************)
(* What the parts of the market stream promise, for any processes, symbols, *)
(* minutes and bounds: the leader lock, the minute candles of a symbol, the *)
(* pool of subscriptions, and then the specification that composes them.   *)
(* For each: what its property rests on, a lemma per step, the theorems.   *)
(***************************************************************************)
EXTENDS MCStream, FiniteSetTheorems, WellFoundedInduction, TLAPS

-----------------------------------------------------------------------------
(* The leader lock                                                         *)

(* The variables keep their types.  (leader_lock.py)                       *)
THEOREM LeaderTyping == LeaderSpec => []LeaderTypeOK
<1>1. LeaderInit => LeaderTypeOK
  BY LeadershipAssumption DEF LeaderInit, LeaderTypeOK, NoLock
<1>2. LeaderTypeOK /\ [LeaderNext]_leaderVars => LeaderTypeOK'
  <2> SUFFICES ASSUME LeaderTypeOK, [LeaderNext]_leaderVars PROVE LeaderTypeOK'
    OBVIOUS
  <2> USE LeadershipAssumption DEF LeaderTypeOK
  <2>1. CASE ClockTicks
    BY <2>1 DEF ClockTicks
  <2>2. ASSUME NEW p \in Streamers, Acquire(p) PROVE LeaderTypeOK'
    BY <2>2 DEF Acquire
  <2>3. ASSUME NEW p \in Streamers, Renew(p) PROVE LeaderTypeOK'
    <3>1. CASE Mine(p)
      <4>1. clock + Ttl \in Nat
        OBVIOUS
      <4>2. leaderKey' = [token |-> leaderKey.token, until |-> clock + Ttl]
        BY <2>3, <3>1 DEF Renew
      <4>3. QED
        BY <2>3, <3>1, <4>1, <4>2 DEF Renew
    <3>2. CASE ~Mine(p)
      BY <2>3, <3>2 DEF Renew
    <3>3. QED
      BY <3>1, <3>2
  <2>4. ASSUME NEW p \in Streamers, StopLeading(p) PROVE LeaderTypeOK'
    BY <2>4 DEF StopLeading
  <2>5. ASSUME NEW p \in Streamers, ReleaseLock(p) PROVE LeaderTypeOK'
    BY <2>5 DEF ReleaseLock, NoLock
  <2>6. ASSUME NEW p \in Streamers, Dies(p) PROVE LeaderTypeOK'
    BY <2>6 DEF Dies
  <2>7. CASE UNCHANGED leaderVars
    BY <2>7 DEF leaderVars
  <2>8. QED
    BY <2>1, <2>2, <2>3, <2>4, <2>5, <2>6, <2>7 DEF LeaderNext
<1>3. QED
  BY <1>1, <1>2, PTL DEF LeaderSpec

(* A process that is up and not overdue has the key: it is live, carries   *)
(* no other token, and lives for the whole Ttl from the last renewal.      *)
Holds(p) ==
    phase[p] # "off" /\ clock < renewed[p] + Ttl =>
      leaderKey.token = {p} /\ leaderKey.until = renewed[p] + Ttl

(* A key carries at most one token.                                        *)
OneToken == \A p, r \in leaderKey.token : p = r

LeaderInv == LeaderTypeOK /\ OneToken /\ \A p \in Streamers : Holds(p)

LEMMA LeaderInvInit == LeaderInit => LeaderInv
  BY LeadershipAssumption DEF LeaderInit, LeaderInv, LeaderTypeOK, OneToken, Holds, NoLock

LEMMA OneTokenNext == OneToken /\ LeaderTypeOK /\ [LeaderNext]_leaderVars => OneToken'
  BY DEF OneToken, LeaderTypeOK, LeaderNext, leaderVars, ClockTicks, Acquire, Renew, StopLeading,
         ReleaseLock, Dies, NoLock

LEMMA LeaderInvNext == LeaderInv /\ LeaderTypeOK' /\ [LeaderNext]_leaderVars => LeaderInv'
<1> SUFFICES ASSUME LeaderInv, LeaderTypeOK', [LeaderNext]_leaderVars, NEW q \in Streamers
             PROVE  Holds(q)'
  BY OneTokenNext DEF LeaderInv
<1> Holds(q)
  BY DEF LeaderInv
<1> USE LeadershipAssumption DEF LeaderInv, LeaderTypeOK
<1>1. CASE ClockTicks
  BY <1>1 DEF ClockTicks, Holds
<1>2. ASSUME NEW p \in Streamers, Acquire(p) PROVE Holds(q)'
  (* An acquisition finds no live key: every other process is overdue. *)
  BY <1>2 DEF Acquire, Holds, LockLive
<1>3. ASSUME NEW p \in Streamers, Renew(p) PROVE Holds(q)'
  <2>1. CASE Mine(p)
    <3>1. leaderKey.token = {p}
      BY <2>1 DEF Mine, OneToken
    <3>2. leaderKey' = [token |-> {p}, until |-> clock + Ttl]
      BY <1>3, <2>1, <3>1 DEF Renew
    <3>3. CASE q = p
      BY <1>3, <2>1, <3>2, <3>3 DEF Renew, Holds
    <3>4. CASE q # p
      <4>1. phase'[q] = phase[q] /\ renewed'[q] = renewed[q] /\ clock' = clock
        BY <1>3, <2>1, <3>4 DEF Renew
      <4>2. leaderKey.token # {q}
        BY <3>1, <3>4
      <4>3. QED
        BY <4>1, <4>2 DEF Holds
    <3>5. QED
      BY <3>3, <3>4
  <2>2. CASE ~Mine(p)
    BY <1>3, <2>2 DEF Renew, Holds
  <2>3. QED
    BY <2>1, <2>2
<1>4. ASSUME NEW p \in Streamers, StopLeading(p) PROVE Holds(q)'
  BY <1>4 DEF StopLeading, Holds
<1>5. ASSUME NEW p \in Streamers, ReleaseLock(p) PROVE Holds(q)'
  (* Only the key of the process itself is deleted. *)
  BY <1>5 DEF ReleaseLock, Holds, Mine, LockLive
<1>6. ASSUME NEW p \in Streamers, Dies(p) PROVE Holds(q)'
  BY <1>6 DEF Dies, Holds
<1>7. CASE UNCHANGED leaderVars
  BY <1>7 DEF leaderVars, Holds
<1>8. QED
  BY <1>1, <1>2, <1>3, <1>4, <1>5, <1>6, <1>7 DEF LeaderNext

(* Two processes write together only while one of them has not renewed for *)
(* the whole life of the key.  (LeaderLock.acquire, renew, release)        *)
THEOREM OverlapNeedsDelay == LeaderSpec => []OverlapIsOverdue
<1>1. LeaderInv => OverlapIsOverdue
  BY LeadershipAssumption DEF LeaderInv, Holds, OverlapIsOverdue, LeaderTypeOK
<1>2. QED
  BY <1>1, LeaderTyping, LeaderInvInit, LeaderInvNext, PTL DEF LeaderSpec

-----------------------------------------------------------------------------
(* The minute candles                                                      *)

LEMMA LeastOne ==
    ASSUME NEW S \in SUBSET Nat, S # {}
    PROVE  \E x \in S : \A y \in S : x <= y
  <1> DEFINE R == {ss \in Nat \X Nat : ss[1] < ss[2]}
  <1>1. IsWellFoundedOn(R, Nat)
        BY NatLessThanWellFounded DEF OpToRel
  <1>2. \A x, y \in Nat : <<y, x>> \in R <=> y < x
        OBVIOUS
  <1> HIDE DEF R
  <1>3. PICK x \in S : \A y \in S : ~ (<<y, x>> \in R)
        BY <1>1, WFMin
  <1>4. \A y \in S : x <= y
    <2> TAKE y \in S
    <2>1. x \in Nat /\ y \in Nat
          OBVIOUS
    <2>2. ~ (<<y, x>> \in R)
          BY <1>3
    <2>3. ~ (y < x)
          BY <1>2, <2>1, <2>2
    <2> QED BY <2>1, <2>3
  <1> QED BY <1>4

(* The minutes of a set after m, and the ones that Trim leaves.            *)
Above(M, m) == {n \in M : n > m}
Crowded(M, m) == Cardinality(Above(M, m)) >= BarLimit
Trimmed(M)      == {n \in M : Cardinality(Above(M, n)) < BarLimit}

LEMMA MinutesAre == Minutes \subseteq Nat \ {0} /\ IsFiniteSet(Minutes)
  <1>1. LastMinute \in Nat
        BY StoreAssumption
  <1>2. 1 \in Int /\ LastMinute \in Int
        BY <1>1
  <1>3. IsFiniteSet(1 .. LastMinute)
        BY <1>2, FS_Interval
  <1> QED BY <1>1, <1>3 DEF Minutes

LEMMA AboveIs ==
    ASSUME NEW M \in SUBSET Minutes, NEW m
    PROVE  IsFiniteSet(M) /\ IsFiniteSet(Above(M, m)) /\ Cardinality(Above(M, m)) \in Nat
  <1>1. IsFiniteSet(M)
        BY MinutesAre, FS_Subset
  <1>2. Above(M, m) \in SUBSET M
        BY DEF Above
  <1>3. IsFiniteSet(Above(M, m))
        BY <1>1, <1>2, FS_Subset
  <1> QED BY <1>1, <1>3, FS_CardinalityType

LEMMA GreatestOne ==
    ASSUME NEW M \in SUBSET Minutes, M # {}
    PROVE  \E x \in M : \A y \in M : y <= x
  <1> DEFINE T == {n \in Nat : LastMinute - n \in M}
  <1>1. LastMinute \in Nat /\ \A m \in M : m \in Nat /\ m <= LastMinute
        BY StoreAssumption DEF Minutes
  <1>2. \A m \in M : LastMinute - m \in T
        BY <1>1
  <1>3. T \in SUBSET Nat /\ T # {}
        BY <1>2
  <1>4. PICK n \in T : \A k \in T : n <= k
        BY <1>3, LeastOne
  <1>5. \A y \in M : y <= LastMinute - n
    <2> TAKE y \in M
    <2>1. n <= LastMinute - y
          BY <1>2, <1>4
    <2> QED BY <1>1, <2>1
  <1> QED BY <1>4, <1>5

LEMMA MoreCrowded ==
    ASSUME NEW X \in SUBSET Minutes, NEW Y \in SUBSET Minutes, NEW m \in Minutes, NEW n \in Minutes,
           Above(X, m) \subseteq Above(Y, n), Crowded(X, m)
    PROVE  Crowded(Y, n)
  <1>1. IsFiniteSet(Above(Y, n)) /\ Cardinality(Above(Y, n)) \in Nat /\ Cardinality(Above(X, m)) \in Nat
        BY AboveIs
  <1>2. Cardinality(Above(X, m)) <= Cardinality(Above(Y, n))
        BY <1>1, FS_Subset
  <1>3. BarLimit \in Nat
        BY StoreAssumption
  <1> QED BY <1>1, <1>2, <1>3 DEF Crowded

(* What is crowded stays so when the set is trimmed.                       *)
LEMMA TrimmedCrowds ==
    ASSUME NEW M \in SUBSET Minutes, NEW m \in Minutes, Crowded(M, m)
    PROVE  Crowded(Trimmed(M), m)
  <1>1. Trimmed(M) \in SUBSET Minutes
        BY DEF Trimmed
  <1> DEFINE D == Above(M, m) \ Trimmed(M)
  <1>2. CASE D = {}
    <2>1. Above(M, m) \subseteq Above(Trimmed(M), m)
          BY <1>2 DEF Above
    <2> QED BY <1>1, <2>1, MoreCrowded
  <1>3. CASE D # {}
    <2>1. D \in SUBSET Minutes
          BY DEF Above
    <2>2. PICK n \in D : \A k \in D : k <= n
          BY <1>3, <2>1, GreatestOne
    <2>3. n \in Minutes /\ n \in M /\ n > m /\ n \in Nat /\ m \in Nat
          BY <2>1, MinutesAre DEF Above
    <2>4. Crowded(M, n)
      <3>1. ~(Cardinality(Above(M, n)) < BarLimit) /\ Cardinality(Above(M, n)) \in Nat /\ BarLimit \in Nat
            BY <2>3, AboveIs, StoreAssumption DEF Trimmed
      <3> QED BY <3>1 DEF Crowded
    <2>5. Above(M, n) \subseteq Above(Trimmed(M), m)
      <3> SUFFICES ASSUME NEW k \in M, k > n PROVE k \in Trimmed(M) /\ k > m
          BY DEF Above
      <3>1. k \in Nat
            BY MinutesAre
      <3>2. k > m
            BY <2>3, <3>1
      <3>3. k \notin D
            BY <2>2, <2>3, <3>1
      <3> QED BY <3>2, <3>3 DEF Above
    <2> QED BY <1>1, <2>3, <2>4, <2>5, MoreCrowded
  <1> QED BY <1>2, <1>3

LEMMA StillCrowded ==
    ASSUME NEW X \in SUBSET Minutes, NEW Y \in SUBSET Minutes, NEW m \in Minutes, Crowded(X \cup Y, m)
    PROVE  Crowded(Trimmed(X) \cup Y, m)
  <1>1. Trimmed(X) \in SUBSET Minutes /\ X \cup Y \in SUBSET Minutes /\ Trimmed(X) \cup Y \in SUBSET Minutes
        BY DEF Trimmed
  <1>2. CASE \E n \in Above(X, m) : n \notin Trimmed(X)
    <2> PICK n \in Above(X, m) : n \notin Trimmed(X)
        BY <1>2
    <2>1. n \in X /\ n > m /\ n \in Minutes /\ n \in Nat /\ m \in Nat
          BY MinutesAre DEF Above
    <2>2. Crowded(X, n)
      <3>1. ~(Cardinality(Above(X, n)) < BarLimit) /\ Cardinality(Above(X, n)) \in Nat /\ BarLimit \in Nat
            BY <2>1, AboveIs, StoreAssumption DEF Trimmed
      <3> QED BY <3>1 DEF Crowded
    <2>3. Crowded(Trimmed(X), n)
          BY <2>1, <2>2, TrimmedCrowds
    <2>4. Above(Trimmed(X), n) \subseteq Above(Trimmed(X) \cup Y, m)
      <3> SUFFICES ASSUME NEW k \in Trimmed(X), k > n PROVE k > m
          BY DEF Above
      <3>1. k \in Nat
            BY <1>1, MinutesAre
      <3> QED BY <2>1, <3>1
    <2> QED BY <1>1, <2>1, <2>3, <2>4, MoreCrowded
  <1>3. CASE \A n \in Above(X, m) : n \in Trimmed(X)
    <2>1. Above(X \cup Y, m) \subseteq Above(Trimmed(X) \cup Y, m)
          BY <1>3 DEF Above
    <2> QED BY <1>1, <2>1, MoreCrowded
  <1> QED BY <1>2, <1>3

(* A minute that is trimmed away is crowded by what is left.               *)
LEMMA DroppedIsCrowded ==
    ASSUME NEW M \in SUBSET Minutes, NEW m \in M, m \notin Trimmed(M)
    PROVE  Crowded(Trimmed(M), m)
  <1>1. ~(Cardinality(Above(M, m)) < BarLimit) /\ Cardinality(Above(M, m)) \in Nat /\ BarLimit \in Nat
        BY AboveIs, StoreAssumption DEF Trimmed
  <1> QED BY <1>1, TrimmedCrowds DEF Crowded

LEMMA TrimmedIsShort ==
    ASSUME NEW M \in SUBSET Minutes
    PROVE  IsFiniteSet(Trimmed(M)) /\ Cardinality(Trimmed(M)) \in Nat /\ Cardinality(Trimmed(M)) <= BarLimit
  <1>1. Trimmed(M) \in SUBSET Minutes /\ IsFiniteSet(Trimmed(M)) /\ BarLimit \in Nat
        BY AboveIs, FS_Subset, StoreAssumption DEF Trimmed
  <1>2. Cardinality(Trimmed(M)) \in Nat
        BY <1>1, FS_CardinalityType
  <1>3. CASE Trimmed(M) = {}
        BY <1>1, <1>2, <1>3, FS_EmptySet
  <1>4. CASE Trimmed(M) # {}
    <2>1. Trimmed(M) \in SUBSET Nat
          BY <1>1, MinutesAre
    <2>2. PICK x \in Trimmed(M) : \A y \in Trimmed(M) : x <= y
          BY <1>4, <2>1, LeastOne
    <2>3. Trimmed(M) \ {x} \subseteq Above(M, x)
      <3> SUFFICES ASSUME NEW y \in Trimmed(M), y # x PROVE y \in M /\ y > x
          BY DEF Above
      <3>1. x \in Nat /\ y \in Nat /\ x <= y
            BY <2>1, <2>2
      <3> QED BY <3>1 DEF Trimmed
    <2>4. IsFiniteSet(Above(M, x)) /\ Cardinality(Above(M, x)) \in Nat /\ Cardinality(Above(M, x)) < BarLimit
          BY AboveIs DEF Trimmed
    <2>5. Cardinality(Trimmed(M) \ {x}) <= Cardinality(Above(M, x))
          BY <2>3, <2>4, FS_Subset
    <2>6. Cardinality(Trimmed(M) \ {x}) = Cardinality(Trimmed(M)) - 1
          BY <1>1, FS_RemoveElement
    <2> QED BY <1>1, <1>2, <2>4, <2>5, <2>6
  <1> QED BY <1>3, <1>4

(* The newest minute is never trimmed away.                                *)
LEMMA NewestStays ==
    ASSUME NEW M \in SUBSET Minutes, NEW n \in M, \A k \in M : k <= n
    PROVE  n \in Trimmed(M)
  <1>1. Above(M, n) = {}
    <2> SUFFICES ASSUME NEW k \in M, k > n PROVE FALSE
        BY DEF Above
    <2>1. k \in Nat /\ n \in Nat /\ k <= n
          BY MinutesAre
    <2> QED BY <2>1
  <1>2. Cardinality(Above(M, n)) = 0
        BY <1>1, FS_EmptySet
  <1> QED BY <1>2, StoreAssumption DEF Trimmed

(* A later minute is of no earlier day.                                    *)
LEMMA DaysFollow ==
    ASSUME NEW m \in Minutes, NEW n \in Minutes
    PROVE  /\ DayOf(m) \in Nat \ {0} /\ DayOf(n) \in Nat \ {0}
           /\ m <= n => DayOf(m) <= DayOf(n)
           /\ DayOf(m) < DayOf(n) => m < n
           /\ DayOf(m) <= DayOf(LastMinute) /\ DayOf(LastMinute) \in Nat
  <1>1. DayLength \in Nat \ {0} /\ LastMinute \in Nat \ {0} /\ LastMinute \in Minutes
        BY StoreAssumption DEF Minutes
  <1>2. ASSUME NEW x \in Nat, NEW y \in Nat, x <= y
        PROVE  /\ x \div DayLength \in Nat /\ y \div DayLength \in Nat
               /\ x \div DayLength <= y \div DayLength
    <2> DEFINE p == x \div DayLength  q == y \div DayLength
    <2>1. p \in Int /\ q \in Int
          BY <1>1
    <2>2. /\ DayLength * p <= x /\ x < DayLength * p + DayLength
          /\ DayLength * q <= y /\ y < DayLength * q + DayLength
          BY <1>1
    <2> HIDE DEF p, q
    <2>3. p <= q
      <3> SUFFICES ASSUME q + 1 <= p PROVE FALSE
          BY <2>1
      <3>1. DayLength * (q + 1) <= DayLength * p
            BY <1>1, <2>1
      <3>2. DayLength * (q + 1) = DayLength * q + DayLength
            BY <1>1, <2>1
      <3> QED BY <1>1, <1>2, <2>1, <2>2, <3>1, <3>2
    <2>4. p \in Nat /\ q \in Nat
      <3> SUFFICES ASSUME NEW z \in Int, NEW w \in Nat, w < DayLength * z + DayLength, z <= 0 - 1 PROVE FALSE
          BY <1>1, <2>1, <2>2
      <3>1. DayLength * (z + 1) <= 0
            BY <1>1
      <3>2. DayLength * (z + 1) = DayLength * z + DayLength
            BY <1>1
      <3> QED BY <1>1, <3>1, <3>2
    <2> QED BY <2>3, <2>4 DEF p, q
  <1>3. ASSUME NEW x \in Minutes, NEW y \in Minutes, x <= y
        PROVE  DayOf(x) \in Nat \ {0} /\ DayOf(y) \in Nat \ {0} /\ DayOf(x) <= DayOf(y)
    <2>1. x - 1 \in Nat /\ y - 1 \in Nat /\ x - 1 <= y - 1
          BY <1>3, MinutesAre
    <2> DEFINE p == (x - 1) \div DayLength  q == (y - 1) \div DayLength
    <2>2. p \in Nat /\ q \in Nat /\ p <= q
          BY <1>2, <2>1
    <2>3. DayOf(x) = 1 + p /\ DayOf(y) = 1 + q
          BY DEF DayOf
    <2> HIDE DEF p, q
    <2> QED BY <2>2, <2>3
  <1>4. m \in Nat /\ n \in Nat /\ m <= LastMinute
        BY <1>1 DEF Minutes
  <1>5. m <= m /\ n <= n
        BY <1>4
  <1>6. DayOf(m) \in Nat \ {0} /\ DayOf(n) \in Nat \ {0} /\ DayOf(m) <= DayOf(LastMinute) /\ DayOf(LastMinute) \in Nat
        BY <1>1, <1>3, <1>4, <1>5
  <1>7. m <= n => DayOf(m) <= DayOf(n)
        BY <1>3
  <1>8. n <= m => DayOf(n) <= DayOf(m)
        BY <1>3
  <1> QED BY <1>4, <1>6, <1>7, <1>8

---------------------------------------------------------------------------
(* Sets of candles.                                                        *)

OneEach(S) == \A x, y \in S : x.m = y.m => x = y

LEMMA CandlesAre ==
    ASSUME NEW S \in SUBSET Candles
    PROVE  /\ Ms(S) \in SUBSET Minutes
           /\ \A x \in S : x.m \in Minutes /\ x.m \in Ms(S) /\ x.confirmed \in BOOLEAN /\ x.at \in 0 .. MaxPushes
           /\ \A n \in Ms(S) : \E x \in S : x.m = n
  BY DEF Candles, Ms

LEMMA TrimIs ==
    ASSUME NEW S \in SUBSET Candles
    PROVE  /\ Trim(S) \in SUBSET S /\ Ms(Trim(S)) = Trimmed(Ms(S))
           /\ OneEach(S) => OneEach(Trim(S)) /\ Cardinality(Trim(S)) <= BarLimit
  <1>1. Trim(S) = {x \in S : x.m \in Trimmed(Ms(S))}
        BY DEF Trim, Trimmed, Above, Ms
  <1>2. Trim(S) \in SUBSET S
        BY <1>1
  <1>3. Ms(Trim(S)) = Trimmed(Ms(S))
    <2>1. \A n \in Trimmed(Ms(S)) : n \in Ms(S)
          BY DEF Trimmed
    <2> QED BY <1>1, <2>1 DEF Ms
  <1>4. ASSUME OneEach(S) PROVE OneEach(Trim(S)) /\ Cardinality(Trim(S)) <= BarLimit
    <2>1. OneEach(Trim(S))
          BY <1>2, <1>4 DEF OneEach
    <2> DEFINE f == [x \in Trim(S) |-> x.m]  T == Trimmed(Ms(S))
    <2>2. IsFiniteSet(T) /\ Cardinality(T) \in Nat /\ Cardinality(T) <= BarLimit
          BY CandlesAre, TrimmedIsShort
    <2>3. f \in [Trim(S) -> T] /\ \A x, y \in Trim(S) : f[x] = f[y] => x = y
          BY <1>1, <2>1 DEF OneEach
    <2>4. f \in Injection(Trim(S), T)
          BY <2>3 DEF Injection, IsInjective
    <2> HIDE DEF f, T
    <2>5. IsFiniteSet(Trim(S)) /\ Cardinality(Trim(S)) <= Cardinality(T)
          BY <2>2, <2>4, FS_Injection
    <2>6. Cardinality(Trim(S)) \in Nat
          BY <2>5, FS_CardinalityType
    <2> QED BY <2>1, <2>2, <2>5, <2>6, StoreAssumption
  <1> QED BY <1>2, <1>3, <1>4

LEMMA PutIs ==
    ASSUME NEW S \in SUBSET Candles, NEW c \in Candles
    PROVE  /\ Put(S, c) \in SUBSET Candles /\ Put(S, c) \subseteq S \cup {c} /\ c \in Put(S, c)
           /\ \A x \in S : x.m # c.m => x \in Put(S, c)
           /\ Ms(Put(S, c)) = Ms(S) \cup {c.m}
           /\ OneEach(S) => OneEach(Put(S, c))
  BY DEF Put, Ms, OneEach

LEMMA NewestIs ==
    ASSUME NEW S \in SUBSET Candles
    PROVE  Newest(S) \in SUBSET S /\ (OneEach(S) => OneEach(Newest(S)))
  BY DEF Newest, OneEach

(* A window is full when it has BarLimit candles, and a subset is no       *)
(* longer.                                                                 *)
LEMMA SubsetIsShort ==
    ASSUME NEW S \in SUBSET Candles, OneEach(S), Cardinality(S) <= BarLimit, NEW T \in SUBSET S,
           IsFiniteSet(S)
    PROVE  IsFiniteSet(T) /\ Cardinality(T) <= BarLimit
  <1>1. IsFiniteSet(T) /\ Cardinality(T) <= Cardinality(S)
        BY FS_Subset
  <1>2. Cardinality(T) \in Nat /\ Cardinality(S) \in Nat /\ BarLimit \in Nat
        BY <1>1, FS_CardinalityType, StoreAssumption
  <1> QED BY <1>1, <1>2

LEMMA OneEachIsFinite ==
    ASSUME NEW S \in SUBSET Candles, OneEach(S)
    PROVE  IsFiniteSet(S)
  <1> DEFINE f == [x \in S |-> x.m]
  <1>1. f \in [S -> Minutes] /\ \A x, y \in S : f[x] = f[y] => x = y
        BY CandlesAre DEF OneEach
  <1>2. f \in Injection(S, Minutes)
        BY <1>1 DEF Injection, IsInjective
  <1> HIDE DEF f
  <1> QED BY <1>2, MinutesAre, FS_Injection

(* What goes back to the pending ones: their minutes and the new ones',    *)
(* trimmed.                                                                *)
LEMMA PendingIs ==
    ASSUME NEW P \in SUBSET Candles, NEW N \in SUBSET Candles, OneEach(P), OneEach(N),
           \A x \in N : x.confirmed
    PROVE  /\ PendingBars(P, N) \in SUBSET Candles /\ OneEach(PendingBars(P, N))
           /\ \A x \in PendingBars(P, N) : x \in P \cup N
           /\ Ms(PendingBars(P, N)) = Trimmed(Ms(P) \cup Ms(N))
  <1> DEFINE kept == {c \in ClosedBars(N) : \A x \in At(P, c.m) : ~Older(c, x)}
             all  == {x \in P : x.m \notin Ms(kept)} \cup kept
  <1>1. kept \in SUBSET N /\ all \in SUBSET Candles /\ PendingBars(P, N) = Trim(all)
        BY DEF PendingBars, ClosedBars
  <1>2. OneEach(all)
        BY <1>1 DEF OneEach, Ms
  <1>3. Ms(all) = Ms(P) \cup Ms(N)
    <2>1. \A n : n \in Ms(all) => n \in Ms(P) \cup Ms(N)
          BY <1>1 DEF Ms
    <2>2. ASSUME NEW x \in P PROVE x.m \in Ms(all)
          BY DEF Ms
    <2>3. ASSUME NEW x \in N PROVE x.m \in Ms(all)
      <3>1. CASE x \in kept
            BY <3>1 DEF Ms
      <3>2. CASE x \notin kept
        <4>1. \E y \in P : y.m = x.m
              BY <3>2 DEF ClosedBars, At
        <4> QED BY <2>2, <4>1
      <3> QED BY <3>1, <3>2
    <2>4. \A n : n \in Ms(P) \cup Ms(N) => n \in Ms(all)
          BY <2>2, <2>3 DEF Ms
    <2> QED BY <2>1, <2>4
  <1>4. \A x \in all : x \in P \cup N
        BY <1>1
  <1> HIDE DEF all, kept
  <1>5. Trim(all) \in SUBSET all /\ Ms(Trim(all)) = Trimmed(Ms(all)) /\ OneEach(Trim(all))
        BY <1>1, <1>2, TrimIs
  <1> QED BY <1>1, <1>3, <1>4, <1>5

(* merge_warmup_bars: the candle of a minute.                              *)
Chosen(H, L, m, x) ==
    IF m = Max(Ms(H \cup L)) /\ At(L, m) # {} THEN x \in L ELSE \A y \in At(H \cup L, m) : ~Older(x, y)
Best(H, L, m) == CHOOSE x \in At(H \cup L, m) : Chosen(H, L, m, x)

LEMMA BestIs ==
    ASSUME NEW H \in SUBSET Candles, NEW L \in SUBSET Candles, OneEach(H), OneEach(L), NEW m \in Ms(H \cup L)
    PROVE  /\ Best(H, L, m) \in H \cup L /\ Best(H, L, m).m = m
           /\ \A x \in L : x.m = m /\ x.confirmed => Best(H, L, m).confirmed
  <1>1. PICK z \in H \cup L : z.m = m
        BY DEF Ms
  <1>2. \A x, y \in H \cup L : ~Older(x, x) /\ (Older(x, y) => ~Older(y, x))
    <2> SUFFICES ASSUME NEW x \in H \cup L, NEW y \in H \cup L
                 PROVE  ~Older(x, x) /\ (Older(x, y) => ~Older(y, x))
        OBVIOUS
    <2>1. x.confirmed \in BOOLEAN /\ y.confirmed \in BOOLEAN /\ x.at \in Int /\ y.at \in Int
          BY CandlesAre DEF Candles
    <2> QED BY <2>1 DEF Older
  <1>3. \E x \in At(H \cup L, m) : \A y \in At(H \cup L, m) : ~Older(x, y)
    <2>1. CASE \E h \in H, l \in L : h.m = m /\ l.m = m
      <3> PICK h \in H, l \in L : h.m = m /\ l.m = m
          BY <2>1
      <3>1. \A y \in At(H \cup L, m) : y = h \/ y = l
            BY DEF At, OneEach
      <3>2. h \in At(H \cup L, m) /\ l \in At(H \cup L, m)
            BY DEF At
      <3>3. CASE Older(h, l)
            BY <1>2, <3>1, <3>2, <3>3
      <3>4. CASE ~Older(h, l)
            BY <1>2, <3>1, <3>2, <3>4
      <3> QED BY <3>3, <3>4
    <2>2. CASE ~ \E h \in H, l \in L : h.m = m /\ l.m = m
      <3>1. \A y \in At(H \cup L, m) : y = z
            BY <1>1, <2>2 DEF At, OneEach
      <3>2. z \in At(H \cup L, m)
            BY <1>1 DEF At
      <3> QED BY <1>2, <3>1, <3>2
    <2> QED BY <2>1, <2>2
  <1>4. \E x \in At(H \cup L, m) : Chosen(H, L, m, x)
    <2>1. CASE m = Max(Ms(H \cup L)) /\ At(L, m) # {}
          BY <2>1 DEF Chosen, At
    <2>2. CASE ~(m = Max(Ms(H \cup L)) /\ At(L, m) # {})
          BY <1>3, <2>2 DEF Chosen
    <2> QED BY <2>1, <2>2
  <1>5. PICK x : x = Best(H, L, m)
        OBVIOUS
  <1>6. x \in At(H \cup L, m) /\ Chosen(H, L, m, x)
        BY <1>4, <1>5 DEF Best
  <1>7. ASSUME NEW l \in L, l.m = m, l.confirmed PROVE x.confirmed
    <2>1. l \in At(H \cup L, m) /\ At(L, m) # {}
          BY <1>7 DEF At
    <2>2. CASE m = Max(Ms(H \cup L))
      <3>1. x \in L /\ x.m = m
            BY <1>6, <2>1, <2>2 DEF Chosen, At
      <3> QED BY <1>7, <3>1 DEF OneEach
    <2>3. CASE m # Max(Ms(H \cup L))
      <3>1. ~Older(x, l)
            BY <1>6, <2>1, <2>3 DEF Chosen
      <3>2. x.confirmed \in BOOLEAN
            BY <1>6 DEF At, Candles
      <3> QED BY <1>7, <3>1, <3>2 DEF Older
    <2> QED BY <2>2, <2>3
  <1> QED BY <1>5, <1>6, <1>7 DEF At

LEMMA MergedIs ==
    ASSUME NEW H \in SUBSET Candles, NEW L \in SUBSET Candles, OneEach(H), OneEach(L)
    PROVE  /\ Merged(H, L) \in SUBSET Candles /\ OneEach(Merged(H, L))
           /\ \A x \in L : x.confirmed => \E y \in Merged(H, L) : y.m = x.m /\ y.confirmed
  <1>1. Merged(H, L) = {Best(H, L, m) : m \in Ms(H \cup L)}
        BY DEF Merged, Best, Chosen
  <1>2. \A x \in Merged(H, L) : x \in H \cup L /\ x = Best(H, L, x.m)
        BY <1>1, BestIs
  <1>3. ASSUME NEW x \in L, x.confirmed
        PROVE  \E y \in Merged(H, L) : y.m = x.m /\ y.confirmed
    <2>1. x.m \in Ms(H \cup L)
          BY DEF Ms
    <2> QED BY <1>1, <1>3, <2>1, BestIs
  <1> QED BY <1>2, <1>3 DEF OneEach

---------------------------------------------------------------------------
(* What Redis has, or has given up for later minutes or a later day, and   *)
(* what is due besides.                                                    *)

Covered(R, D, m) ==
    \/ m \in R \cup D
    \/ Crowded(R \cup D, m)
    \/ \E n \in R : DayOf(n) > DayOf(m)

LEMMA CrowdedBySome ==
    ASSUME NEW M \in SUBSET Minutes, NEW m \in Minutes, Crowded(M, m)
    PROVE  \E n \in M : n > m
  <1>1. BarLimit \in Nat \ {0} /\ Cardinality({}) = 0
        BY StoreAssumption, FS_EmptySet
  <1> QED BY <1>1 DEF Crowded, Above

(* More that is due covers no less.                                        *)
LEMMA MoreCovers ==
    ASSUME NEW R \in SUBSET Minutes, NEW D \in SUBSET Minutes, NEW E \in SUBSET Minutes, NEW m \in Minutes,
           D \subseteq E, Covered(R, D, m)
    PROVE  Covered(R, E, m)
  <1>1. R \cup D \in SUBSET Minutes /\ R \cup E \in SUBSET Minutes
        OBVIOUS
  <1>2. ASSUME Crowded(R \cup D, m) PROVE Crowded(R \cup E, m)
    <2>1. Above(R \cup D, m) \subseteq Above(R \cup E, m)
          BY DEF Above
    <2> QED BY <1>1, <1>2, <2>1, MoreCrowded
  <1> QED BY <1>2 DEF Covered

(* What Redis covers by itself need not be due.                            *)
LEMMA SavedIsNotDue ==
    ASSUME NEW R \in SUBSET Minutes, NEW D \in SUBSET Minutes, NEW E \in SUBSET Minutes, NEW m \in Minutes,
           \A n \in D \ E : Covered(R, {}, n), Covered(R, D, m)
    PROVE  Covered(R, E, m)
  <1>1. R \cup D \in SUBSET Minutes /\ R \cup E \in SUBSET Minutes /\ m \in Nat
        BY MinutesAre
  <1>2. ASSUME NEW n \in D \ E PROVE Covered(R, E, n)
    <2>1. Covered(R, {}, n) /\ {} \in SUBSET Minutes
          BY <1>2
    <2> QED BY <2>1, MoreCovers
  <1>3. CASE \E n \in D \ E : n > m /\ n \notin R
    <2> PICK n \in D \ E : n > m /\ n \notin R
        BY <1>3
    <2>1. Covered(R, {}, n) /\ n \in Nat /\ n \in Minutes /\ R \cup {} = R
          BY MinutesAre
    <2>2. CASE Crowded(R, n)
      <3>1. Above(R, n) \subseteq Above(R \cup E, m)
        <4> SUFFICES ASSUME NEW k \in R, k > n PROVE k > m
            BY DEF Above
        <4>1. k \in Nat
              BY MinutesAre
        <4> QED BY <1>1, <1>3, <2>1, <4>1
      <3> QED BY <1>1, <2>1, <2>2, <3>1, MoreCrowded DEF Covered
    <2>3. CASE \E k \in R : DayOf(k) > DayOf(n)
      <3> PICK k \in R : DayOf(k) > DayOf(n)
          BY <2>3
      <3>1. DayOf(m) <= DayOf(n) /\ DayOf(m) \in Nat /\ DayOf(n) \in Nat
            BY <1>1, <2>1, DaysFollow
      <3>2. DayOf(k) \in Nat
            BY DaysFollow
      <3> QED BY <3>1, <3>2 DEF Covered
    <2> QED BY <2>1, <2>2, <2>3 DEF Covered
  <1>4. CASE ~ \E n \in D \ E : n > m /\ n \notin R
    <2>1. Crowded(R \cup D, m) => Crowded(R \cup E, m)
      <3>1. Above(R \cup D, m) \subseteq Above(R \cup E, m)
            BY <1>4 DEF Above
      <3> QED BY <1>1, <3>1, MoreCrowded
    <2>2. m \in D \ E => Covered(R, E, m)
          BY <1>2
    <2> QED BY <2>1, <2>2 DEF Covered
  <1> QED BY <1>3, <1>4

(* The minutes of Redis after a write, before they are trimmed.            *)
Written(R, B, O, d) ==
    {n \in R : n \notin O /\ ~(n \in B /\ DayOf(n) = d)} \cup {n \in B : DayOf(n) = d}

(* A write of the minutes B: those of an earlier day than the newest one,  *)
(* d, are left out, the ones of the days O are deleted, the rest is        *)
(* trimmed.  Whatever was covered still is, with B written; so a minute of *)
(* B that waits besides need not wait any longer.                          *)
LEMMA WriteCovers ==
    ASSUME NEW R \in SUBSET Minutes, NEW B \in SUBSET Minutes, NEW O \in SUBSET Minutes, NEW d \in Nat,
           NEW D \in SUBSET Minutes, NEW E \in SUBSET Minutes, D \subseteq E \cup B,
           \A n \in O : DayOf(n) < d,
           \A n \in B : DayOf(n) <= d,
           \E n \in R \cup B : DayOf(n) >= d
    PROVE  /\ \A m \in Minutes : Covered(R, D \cup B, m) => Covered(Trimmed(Written(R, B, O, d)), E, m)
           /\ \A n \in R : \E k \in Trimmed(Written(R, B, O, d)) : DayOf(k) >= DayOf(n)
  <1> DEFINE N == {n \in B : DayOf(n) = d}  P == Written(R, B, O, d)
  <1>0. \A n : n \in P <=> (n \in R /\ n \notin N \cup O) \/ n \in N
        BY DEF Written
  <1>1. /\ N \in SUBSET Minutes /\ P \in SUBSET Minutes /\ Trimmed(P) \in SUBSET Minutes
        /\ \A n \in Minutes : DayOf(n) \in Nat /\ n \in Nat
        BY <1>0, DaysFollow, MinutesAre DEF Trimmed
  <1> HIDE DEF P
  <1>2. \E n \in P : DayOf(n) >= d
    <2> PICK n \in R \cup B : DayOf(n) >= d
        OBVIOUS
    <2>1. n \in Minutes /\ DayOf(n) \in Nat
          BY <1>1
    <2>2. CASE n \in B
          BY <1>0, <2>1, <2>2
    <2>3. CASE n \in R /\ n \notin N
          BY <1>0, <2>1, <2>3
    <2>4. CASE n \in N
          BY <1>0, <2>4
    <2> QED BY <2>2, <2>3, <2>4
  <1>3. PICK g \in P : \A k \in P : k <= g
        BY <1>1, <1>2, GreatestOne
  <1>4. g \in Trimmed(P) /\ g \in Minutes /\ \A k \in P : DayOf(k) <= DayOf(g)
        BY <1>1, <1>3, NewestStays, DaysFollow
  <1>5. DayOf(g) >= d
        BY <1>1, <1>2, <1>4
  <1>6. \A n \in R : DayOf(n) <= DayOf(g)
    <2> TAKE n \in R
    <2>1. DayOf(n) \in Nat /\ DayOf(g) \in Nat
          BY <1>1, <1>4
    <2>2. CASE n \in O
          BY <1>5, <2>1, <2>2
    <2>3. CASE n \notin O
          BY <1>0, <1>4, <2>3
    <2> QED BY <2>2, <2>3
  <1>7. ASSUME NEW m \in Minutes, Covered(R, D \cup B, m) PROVE Covered(Trimmed(P), E, m)
    <2>1. m \in Nat /\ DayOf(m) \in Nat /\ DayOf(g) \in Nat
          BY <1>1, <1>4
    <2>2. CASE DayOf(g) > DayOf(m)
          BY <1>4, <2>2 DEF Covered
    <2>3. CASE DayOf(g) <= DayOf(m)
      <3>1. ASSUME NEW n \in R \cup B, DayOf(m) <= DayOf(n) PROVE n \in P
        <4>1. n \in Minutes /\ DayOf(n) \in Nat /\ DayOf(n) >= d
              BY <1>1, <1>5, <2>1, <2>3, <3>1
        <4>2. CASE n \in B
              BY <1>0, <4>1, <4>2
        <4>3. CASE n \in R
              BY <1>0, <4>1, <4>3
        <4> QED BY <4>2, <4>3
      <3>2. Crowded(P \cup E, m) => Crowded(Trimmed(P) \cup E, m)
            BY <1>1, StillCrowded
      <3>3. CASE m \in R \cup B
        <4>1. m \in P
              BY <2>1, <3>1, <3>3
        <4>2. CASE m \in Trimmed(P)
              BY <4>2 DEF Covered
        <4>3. CASE m \notin Trimmed(P)
          <5>1. Crowded(Trimmed(P), m)
                BY <1>1, <4>1, <4>3, DroppedIsCrowded
          <5>2. Above(Trimmed(P), m) \subseteq Above(Trimmed(P) \cup E, m) /\ Trimmed(P) \cup E \in SUBSET Minutes
                BY <1>1 DEF Above
          <5> QED BY <1>1, <5>1, <5>2, MoreCrowded DEF Covered
        <4> QED BY <4>2, <4>3
      <3>4. CASE m \in D /\ m \notin B
            BY <3>4 DEF Covered
      <3>5. CASE Crowded(R \cup (D \cup B), m)
        <4>1. Above(R \cup (D \cup B), m) \subseteq Above(P \cup E, m)
          <5> SUFFICES ASSUME NEW n \in R \cup (D \cup B), n > m PROVE n \in P \cup E
              BY DEF Above
          <5>1. n \in Minutes /\ n \in Nat /\ m <= n
                BY <1>1, <2>1
          <5>2. DayOf(m) <= DayOf(n)
                BY <5>1, DaysFollow
          <5> QED BY <3>1, <5>2
        <4>2. R \cup (D \cup B) \in SUBSET Minutes /\ P \cup E \in SUBSET Minutes
              BY <1>1
        <4> QED BY <3>2, <3>5, <4>1, <4>2, MoreCrowded DEF Covered
      <3>6. ~ \E n \in R : DayOf(n) > DayOf(m)
            BY <1>1, <1>6, <2>1, <2>3
      <3> QED BY <1>7, <3>3, <3>4, <3>5, <3>6 DEF Covered
    <2> QED BY <2>1, <2>2, <2>3
  <1> QED BY <1>4, <1>6, <1>7 DEF P

LEMMA MaxIs ==
    ASSUME NEW M \in SUBSET Minutes, M # {}
    PROVE  Max(M) \in M /\ \A k \in M : k <= Max(M)
  <1>1. PICK x \in M : \A k \in M : k <= x
        BY GreatestOne
  <1>2. \A k \in M : x >= k
        BY <1>1, MinutesAre
  <1>3. Max(M) \in M /\ \A k \in M : Max(M) >= k
        BY <1>2 DEF Max
  <1> QED BY <1>3, MinutesAre

---------------------------------------------------------------------------
(* The invariant.                                                          *)

Window(S) == S \subseteq Candles /\ OneEach(S)

Scalars ==
    /\ minute \in Minutes /\ pushed \in 0 .. MaxPushes /\ connection \in Nat /\ changes \in 0 .. MaxUpsets
    /\ life \in {"pending", "warming", "live", "removing", "forgotten", "removed"}
    /\ day \in 0 .. DayOf(LastMinute) /\ lasting \subseteq {"bars", "current"} /\ heard \subseteq Minutes
    /\ storeFaults \in 0 .. MaxUpsets

Windows ==
    /\ Window(buffer) /\ Window(bars) /\ Window(pendBars) /\ Window(pendCur)
    /\ Window(redisBars) /\ Window(redisCur)
    /\ Cardinality(bars) <= BarLimit /\ Cardinality(redisBars) <= BarLimit
    /\ \A x \in pendBars : x.confirmed
    /\ load \in [step : {"none", "cache", "fetch", "ready"}, bars : SUBSET Candles] /\ OneEach(load.bars)

(* The queue of the callback: a closed minute is past, and nothing that is *)
(* still to come of it is unconfirmed or counts as newer.                  *)
PushedBy(c, t, p) == c.m <= t /\ (c.confirmed => c.m < t) /\ c.at <= p
Queue ==
    /\ waiting = {} \/ \E e \in Events : waiting = {e}
    /\ events \in Seq(Events) /\ Len(events) <= QueueSize
    /\ \A i \in 1 .. Len(events) : PushedBy(events[i].candle, minute, pushed)
    /\ \A e \in waiting : PushedBy(e.candle, minute, pushed) /\ ~e.candle.confirmed
    /\ \A x \in buffer : PushedBy(x, minute, pushed)
    /\ \A i, j \in 1 .. Len(events) :
         events[i].candle.m = events[j].candle.m /\ events[j].candle.confirmed /\ ~events[i].candle.confirmed =>
           i < j /\ events[i].candle.at <= events[j].candle.at
    /\ \A x \in buffer, j \in 1 .. Len(events) :
         x.m = events[j].candle.m =>
           /\ x.confirmed => events[j].candle.confirmed
           /\ ~x.confirmed /\ events[j].candle.confirmed => x.at <= events[j].candle.at
    /\ \A e \in waiting :
         /\ \A j \in 1 .. Len(events) : events[j].candle.m = e.candle.m => ~events[j].candle.confirmed
         /\ \A x \in buffer : x.m = e.candle.m => ~x.confirmed

(* A write: what it has read of R, the minutes in Redis, still holds, and  *)
(* what the worker wrote before the current candle is covered.             *)
OpType == [step : {"idle", "read", "put", "current"}, bars : SUBSET Candles, cur : SUBSET Candles,
           obsolete : SUBSET Minutes, day : 0 .. DayOf(LastMinute)]
OpAgrees(o, w, R) ==
    /\ o \in OpType /\ Window(o.bars) /\ Window(o.cur) /\ \A x \in o.bars : x.confirmed
    /\ o.step = "idle" => o = Idle
    /\ o.step \in {"read", "put"} => o.bars # {}
    /\ w = "live" => o.step # "current"
    /\ o.step = "put" => /\ \A n \in o.obsolete : DayOf(n) < o.day
                         /\ \A n \in Ms(o.bars) : DayOf(n) <= o.day
                         /\ \E n \in R \cup Ms(o.bars) : DayOf(n) >= o.day
    /\ w = "worker" /\ o.step = "current" => \A n \in Ms(o.bars) : Covered(R, {}, n)
OpsAgree ==
    /\ op \in [Writers -> OpType] /\ \A w \in Writers : OpAgrees(op[w], w, Ms(redisBars))
    /\ life # "live" => op["worker"] = Idle

(* What the writes under way and the pending ones will still bring.        *)
Owed(o, w) == IF w = "worker" /\ o.step = "current" THEN {} ELSE Ms(o.bars)
Due(O, P)  == Ms(P) \cup UNION {Owed(O[w], w) : w \in Writers}

WindowSaved ==
    life = "live" => \A x \in ClosedBars(bars) : Covered(Ms(redisBars), Due(op, pendBars), x.m)

HeardKept ==
    /\ heard # {} => Subscribed
    /\ life = "live" => \A x \in bars : DayOf(x.m) = day
    /\ ClosedMinutesAreKept

CandleInv == Scalars /\ Windows /\ Queue /\ OpsAgree /\ WindowSaved /\ HeardKept

---------------------------------------------------------------------------
(* The writes.                                                             *)

LEMMA IdleAgrees ==
    ASSUME NEW w, NEW R
    PROVE  OpAgrees(Idle, w, R) /\ Owed(Idle, w) = {} /\ Idle.bars = {} /\ Idle.step = "idle"
  <1>1. Idle \in OpType /\ Idle.bars = {} /\ Idle.cur = {} /\ Idle.step = "idle"
    <2>1. DayOf(LastMinute) \in Nat /\ 0 \in 0 .. DayOf(LastMinute)
      <3>1. LastMinute \in Minutes
            BY StoreAssumption DEF Minutes
      <3> QED BY <3>1, DaysFollow
    <2> QED BY <2>1 DEF Idle, OpType
  <1> QED BY <1>1 DEF OpAgrees, Window, OneEach, Owed, Ms

(* Redis has gone from the minutes R to the minutes T.                     *)
Grows(R, T) ==
    /\ \A m \in Minutes : Covered(R, {}, m) => Covered(T, {}, m)
    /\ \A n \in R : \E k \in T : DayOf(k) >= DayOf(n)

LEMMA OpAgreesStays ==
    ASSUME NEW R \in SUBSET Minutes, NEW T \in SUBSET Minutes, Grows(R, T),
           NEW o, NEW w, OpAgrees(o, w, R)
    PROVE  OpAgrees(o, w, T)
  <1>1. Ms(o.bars) \in SUBSET Minutes /\ o.day \in Nat
    <2>1. o.bars \subseteq Candles /\ o.day \in 0 .. DayOf(LastMinute)
          BY DEF OpAgrees, OpType
    <2> QED BY <2>1, CandlesAre
  <1>2. ASSUME NEW n \in R \cup Ms(o.bars), DayOf(n) >= o.day
        PROVE  \E k \in T \cup Ms(o.bars) : DayOf(k) >= o.day
    <2>1. CASE n \in R
      <3> PICK k \in T : DayOf(k) >= DayOf(n)
          BY <2>1 DEF Grows
      <3>1. k \in Minutes /\ DayOf(k) \in Nat /\ DayOf(n) \in Nat
            BY <1>1, DaysFollow
      <3> QED BY <1>1, <1>2, <3>1
    <2>2. CASE n \in Ms(o.bars)
          BY <1>2, <2>2
    <2> QED BY <2>1, <2>2
  <1>3. \A n \in Ms(o.bars) : Covered(R, {}, n) => Covered(T, {}, n)
        BY <1>1 DEF Grows
  <1> QED BY <1>2, <1>3 DEF OpAgrees

(* A writer's next state leaves the others' alone.                         *)
LEMMA OthersAgree ==
    ASSUME OpsAgree, NEW w \in Writers, NEW o, op' = [op EXCEPT ![w] = o],
           Ms(redisBars) \in SUBSET Minutes, Ms(redisBars') \in SUBSET Minutes, Grows(Ms(redisBars), Ms(redisBars')),
           OpAgrees(o, w, Ms(redisBars')), life' # "live" => (IF w = "worker" THEN o ELSE op["worker"]) = Idle
    PROVE  OpsAgree'
  <1>1. op \in [Writers -> OpType] /\ o \in OpType /\ "worker" \in Writers
        BY DEF OpsAgree, OpAgrees, Writers
  <1>2. op' \in [Writers -> OpType] /\ op'[w] = o /\ \A v \in Writers \ {w} : op'[v] = op[v]
        BY <1>1
  <1>3. \A v \in Writers \ {w} : OpAgrees(op[v], v, Ms(redisBars'))
        BY OpAgreesStays DEF OpsAgree
  <1>4. \A v \in Writers : OpAgrees(op'[v], v, Ms(redisBars'))
        BY <1>2, <1>3
  <1>5. life' # "live" => op'["worker"] = Idle
        BY <1>1, <1>2
  <1> QED BY <1>2, <1>4, <1>5 DEF OpsAgree

LEMMA DueIs ==
    ASSUME OpsAgree, Windows, NEW w \in Writers
    PROVE  \E E \in SUBSET Minutes :
             /\ Due(op, pendBars) = Ms(pendBars) \cup E \cup Owed(op[w], w)
             /\ Owed(op[w], w) \in SUBSET Minutes /\ Ms(pendBars) \in SUBSET Minutes
             /\ Ms(op[w].bars) \in SUBSET Minutes /\ Ms(redisBars) \in SUBSET Minutes
             /\ \A P, o, Q : Q = [op EXCEPT ![w] = o] => Due(Q, P) = Ms(P) \cup E \cup Owed(o, w)
  <1>1. \A v \in Writers : op[v].bars \subseteq Candles
        BY DEF OpsAgree, OpAgrees, OpType
  <1>2. \A v \in Writers : Owed(op[v], v) \in SUBSET Minutes /\ Ms(op[v].bars) \in SUBSET Minutes
        BY <1>1, CandlesAre DEF Owed
  <1> DEFINE E == UNION {Owed(op[v], v) : v \in Writers \ {w}}
  <1>3. E \in SUBSET Minutes
        BY <1>2
  <1>4. Due(op, pendBars) = Ms(pendBars) \cup E \cup Owed(op[w], w)
        BY DEF Due
  <1>5. ASSUME NEW P, NEW o, NEW Q, Q = [op EXCEPT ![w] = o]
        PROVE  Due(Q, P) = Ms(P) \cup E \cup Owed(o, w)
    <2>1. Q[w] = o /\ \A v \in Writers \ {w} : Q[v] = op[v]
          BY <1>5 DEF OpsAgree
    <2> QED BY <2>1 DEF Due
  <1>6. Ms(pendBars) \in SUBSET Minutes /\ Ms(redisBars) \in SUBSET Minutes
        BY CandlesAre DEF Windows, Window
  <1> QED BY <1>2, <1>3, <1>4, <1>5, <1>6

(* A write that reached Redis.                                             *)
LEMMA UpsertedIs ==
    ASSUME OpsAgree, Windows, NEW w \in Writers, op[w].step = "put",
           NEW R, R = Ms(redisBars), NEW B, B = Ms(op[w].bars), NEW T, T = Ms(Upserted(w))
    PROVE  /\ Window(Upserted(w)) /\ Cardinality(Upserted(w)) <= BarLimit /\ T \in SUBSET Minutes
           /\ \A D, E \in SUBSET Minutes : D \subseteq E \cup B =>
                \A m \in Minutes : Covered(R, D \cup B, m) => Covered(T, E, m)
           /\ Grows(R, T)
  <1>1. /\ OpAgrees(op[w], w, R) /\ op[w] \in OpType /\ op[w].bars \in SUBSET Candles /\ op[w].obsolete \in SUBSET Minutes
        /\ redisBars \in SUBSET Candles /\ OneEach(redisBars) /\ OneEach(op[w].bars)
        BY DEF OpsAgree, OpAgrees, OpType, Windows, Window
  <1>2. PICK d : d = op[w].day
        OBVIOUS
  <1>3. d \in Nat
    <2>1. op[w].day \in 0 .. DayOf(LastMinute)
          BY <1>1 DEF OpType
    <2> QED BY <1>2, <2>1
  <1>4. R \in SUBSET Minutes /\ B \in SUBSET Minutes
        BY <1>1, CandlesAre
  <1>5. PICK O : O = op[w].obsolete
        OBVIOUS
  <1>6. /\ O \in SUBSET Minutes /\ \A n \in O : DayOf(n) < d
        /\ \A n \in B : DayOf(n) <= d
        /\ \E n \in R \cup B : DayOf(n) >= d
    <2>1. op[w].step = "put" /\ OpAgrees(op[w], w, R)
          BY <1>1
    <2> QED BY <1>1, <1>2, <1>5, <2>1 DEF OpAgrees
  <1> DEFINE new == {x \in op[w].bars : DayOf(x.m) = d}
             all == {x \in redisBars : x.m \notin Ms(new) \cup O} \cup new
             P   == Written(R, B, O, d)
  <1>7. Upserted(w) = Trim(all)
        BY <1>2, <1>5 DEF Upserted
  <1>8. Ms(new) = {n \in B : DayOf(n) = d}
        BY DEF Ms
  <1>9. all \in SUBSET Candles /\ OneEach(all)
        BY <1>1 DEF OneEach, Ms
  <1>10. Ms(all) = P
    <2>1. \A n : n \in Ms(all) => n \in P
          BY <1>8 DEF Ms, Written
    <2>2. \A n : n \in P => n \in Ms(all)
          BY <1>8 DEF Ms, Written
    <2> QED BY <2>1, <2>2
  <1> HIDE DEF new, all
  <1>11. /\ Window(Upserted(w)) /\ Cardinality(Upserted(w)) <= BarLimit /\ T = Trimmed(P) /\ T \in SUBSET Minutes
    <2>1. Trim(all) \in SUBSET all /\ Ms(Trim(all)) = Trimmed(Ms(all)) /\ OneEach(Trim(all)) /\ Cardinality(Trim(all)) <= BarLimit
          BY <1>9, TrimIs
    <2>2. Trim(all) \in SUBSET Candles
          BY <1>9, <2>1
    <2> QED BY <1>7, <1>10, <2>1, <2>2, CandlesAre DEF Window
  <1> HIDE DEF P
  <1>12. ASSUME NEW D \in SUBSET Minutes, NEW E \in SUBSET Minutes, D \subseteq E \cup B
         PROVE  /\ \A m \in Minutes : Covered(R, D \cup B, m) => Covered(Trimmed(P), E, m)
                /\ \A n \in R : \E k \in Trimmed(P) : DayOf(k) >= DayOf(n)
    <2>1. /\ \A n \in O : DayOf(n) < d
          /\ \A n \in B : DayOf(n) <= d
          /\ \E n \in R \cup B : DayOf(n) >= d
          BY <1>6
    <2> QED BY <1>3, <1>4, <1>6, <1>12, <2>1, WriteCovers DEF P
  <1>13. Grows(R, T)
    <2>1. {} \in SUBSET Minutes /\ {} \subseteq {} \cup B
          OBVIOUS
    <2>2. /\ \A m \in Minutes : Covered(R, {} \cup B, m) => Covered(T, {}, m)
          /\ \A n \in R : \E k \in T : DayOf(k) >= DayOf(n)
          BY <1>11, <1>12, <2>1
    <2>3. \A m \in Minutes : Covered(R, {}, m) => Covered(R, {} \cup B, m)
          BY <1>4, <2>1, MoreCovers
    <2> QED BY <2>2, <2>3 DEF Grows
  <1> QED BY <1>11, <1>12, <1>13

---------------------------------------------------------------------------
(* The queue.                                                              *)

LEMMA TakenEvent ==
    ASSUME NEW q \in Seq(Events), q # <<>>
    PROVE  /\ Tail(q) \in Seq(Events) /\ Head(q) \in Events /\ Len(q) \in Nat \ {0}
           /\ Len(Tail(q)) = Len(q) - 1 /\ Head(q) = q[1]
           /\ \A i \in 1 .. Len(Tail(q)) : i + 1 \in 1 .. Len(q) /\ Tail(q)[i] = q[i + 1]
  OBVIOUS

LEMMA EventsAre ==
    ASSUME NEW e \in Events
    PROVE  e.candle \in Candles /\ e.candle.m \in Nat /\ e.candle.at \in Nat /\ e.candle.confirmed \in BOOLEAN
           /\ e.candle.m \in Minutes /\ e.gen \in Nat
  <1>1. e.candle \in Candles /\ e.gen \in Nat
        BY DEF Events
  <1>2. e.candle.m \in Minutes /\ e.candle.at \in 0 .. MaxPushes /\ e.candle.confirmed \in BOOLEAN
        BY <1>1 DEF Candles
  <1>3. e.candle.at \in Nat
        BY <1>2, StoreAssumption
  <1>4. e.candle.m \in Nat
        BY <1>2, MinutesAre
  <1> QED BY <1>1, <1>2, <1>3, <1>4

LEMMA QueueShrinks ==
    ASSUME Queue, Scalars, Windows, waiting' \in {waiting, {}},
           \A x \in buffer' : \/ x \in buffer
                              \/ events # <<>> /\ events' = Tail(events) /\ x = Head(events).candle,
           \/ events' = events
           \/ events # <<>> /\ events' = Tail(events),
           minute' \in Nat, minute <= minute', pushed' = pushed
    PROVE  Queue'
  <1>1. minute \in Nat /\ QueueSize \in Nat /\ pushed \in Nat
        BY MinutesAre, StoreAssumption DEF Scalars
  <1>2. events \in Seq(Events) /\ Len(events) \in Nat /\ Len(events) <= QueueSize
        BY DEF Queue
  <1>3. \A i \in 1 .. Len(events) : events[i] \in Events /\ events[i].candle.m \in Nat
        BY <1>2, EventsAre
  <1>4. \E k \in {0, 1} : /\ Len(events') = Len(events) - k /\ events' \in Seq(Events)
                          /\ \A i \in 1 .. Len(events') : i + k \in 1 .. Len(events) /\ events'[i] = events[i + k]
    <2>1. CASE events' = events
      <3>1. \A i \in 1 .. Len(events') : i + 0 \in 1 .. Len(events) /\ events'[i] = events[i + 0]
            BY <2>1
      <3> QED BY <1>2, <2>1, <3>1
    <2>2. CASE events # <<>> /\ events' = Tail(events)
          BY <1>2, <2>2, TakenEvent
    <2> QED BY <2>1, <2>2
  <1>5. PICK k \in {0, 1} : /\ Len(events') = Len(events) - k /\ events' \in Seq(Events)
                            /\ \A i \in 1 .. Len(events') : i + k \in 1 .. Len(events) /\ events'[i] = events[i + k]
        BY <1>4
  <1>6. ASSUME NEW c, c.m \in Nat, PushedBy(c, minute, pushed) PROVE PushedBy(c, minute', pushed')
        BY <1>1, <1>6 DEF PushedBy
  <1>7. Len(events') <= QueueSize
        BY <1>1, <1>2, <1>5
  <1>8. \A i \in 1 .. Len(events') : PushedBy(events'[i].candle, minute', pushed')
    <2> TAKE i \in 1 .. Len(events')
    <2> PICK x : x = events'[i].candle
        OBVIOUS
    <2>1. i + k \in 1 .. Len(events) /\ x = events[i + k].candle
          BY <1>5
    <2>2. x.m \in Nat /\ PushedBy(x, minute, pushed)
          BY <1>3, <2>1 DEF Queue
    <2> QED BY <1>6, <2>2
  <1>9. \A i, j \in 1 .. Len(events') :
          events'[i].candle.m = events'[j].candle.m /\ events'[j].candle.confirmed /\ ~events'[i].candle.confirmed =>
            i < j /\ events'[i].candle.at <= events'[j].candle.at
    <2> TAKE i, j \in 1 .. Len(events')
    <2>1. i + k \in 1 .. Len(events) /\ j + k \in 1 .. Len(events)
          BY <1>5
    <2>2. events'[i] = events[i + k] /\ events'[j] = events[j + k]
          BY <1>5
    <2>3. events[i + k].candle.m = events[j + k].candle.m /\ events[j + k].candle.confirmed /\ ~events[i + k].candle.confirmed =>
            i + k < j + k /\ events[i + k].candle.at <= events[j + k].candle.at
          BY <2>1 DEF Queue
    <2>4. i + k < j + k => i < j
          OBVIOUS
    <2> QED BY <2>2, <2>3, <2>4
  <1>10. waiting' = {} \/ \E e \in Events : waiting' = {e}
        BY DEF Queue
  <1>0. ASSUME NEW x \in buffer', x \notin buffer
        PROVE  /\ 1 \in 1 .. Len(events) /\ x = events[1].candle
               /\ \A j \in 1 .. Len(events') : j + 1 \in 1 .. Len(events) /\ events'[j] = events[j + 1]
        BY SMTT(60), <1>0, <1>2, TakenEvent
  <1>11. \A x \in buffer' : PushedBy(x, minute', pushed')
    <2> TAKE x \in buffer'
    <2>1. CASE x \in buffer
      <3>1. x.m \in Nat
            BY <2>1, MinutesAre DEF Windows, Window, Candles
      <3> QED BY <1>6, <2>1, <3>1 DEF Queue
    <2>2. CASE x \notin buffer
      <3>1. x.m \in Nat /\ PushedBy(x, minute, pushed)
            BY <1>0, <1>3, <2>2 DEF Queue
      <3> QED BY <1>6, <3>1
    <2> QED BY <2>1, <2>2
  <1>12. \A e \in waiting' : PushedBy(e.candle, minute', pushed') /\ ~e.candle.confirmed
    <2> TAKE e \in waiting'
    <2>1. e \in waiting /\ e \in Events
          BY DEF Queue
    <2>2. e.candle.m \in Nat /\ PushedBy(e.candle, minute, pushed) /\ ~e.candle.confirmed
          BY <2>1, EventsAre DEF Queue
    <2> QED BY <1>6, <2>2
  <1>13. \A x \in buffer', j \in 1 .. Len(events') :
           x.m = events'[j].candle.m =>
             /\ x.confirmed => events'[j].candle.confirmed
             /\ ~x.confirmed /\ events'[j].candle.confirmed => x.at <= events'[j].candle.at
    <2> TAKE x \in buffer', j \in 1 .. Len(events')
    <2>1. CASE x \in buffer
      <3>1. j + k \in 1 .. Len(events) /\ events'[j] = events[j + k]
            BY <1>5
      <3> QED BY <2>1, <3>1 DEF Queue
    <2>2. CASE x \notin buffer
      <3>1. /\ 1 \in 1 .. Len(events) /\ x = events[1].candle
            /\ j + 1 \in 1 .. Len(events) /\ events'[j] = events[j + 1]
            BY <1>0, <2>2
      <3>2. ~(j + 1 < 1) /\ 1 < j + 1
            OBVIOUS
      <3> QED BY <3>1, <3>2 DEF Queue
    <2> QED BY <2>1, <2>2
  <1>14. \A e \in waiting' :
           /\ \A j \in 1 .. Len(events') : events'[j].candle.m = e.candle.m => ~events'[j].candle.confirmed
           /\ \A x \in buffer' : x.m = e.candle.m => ~x.confirmed
    <2> TAKE e \in waiting'
    <2>1. e \in waiting
          OBVIOUS
    <2>2. ASSUME NEW j \in 1 .. Len(events'), events'[j].candle.m = e.candle.m
          PROVE  ~events'[j].candle.confirmed
      <3>1. j + k \in 1 .. Len(events) /\ events'[j] = events[j + k]
            BY <1>5
      <3> QED BY <2>1, <2>2, <3>1 DEF Queue
    <2>3. ASSUME NEW x \in buffer', x.m = e.candle.m PROVE ~x.confirmed
      <3>1. CASE x \in buffer
            BY <2>1, <2>3, <3>1 DEF Queue
      <3>2. CASE x \notin buffer
        <4>1. 1 \in 1 .. Len(events) /\ x = events[1].candle
              BY <1>0, <3>2
        <4> QED BY <2>1, <2>3, <4>1 DEF Queue
      <3> QED BY <3>1, <3>2
    <2> QED BY <2>2, <2>3
  <1> QED BY <1>5, <1>7, <1>8, <1>9, <1>10, <1>11, <1>12, <1>13, <1>14 DEF Queue

(* An event joins the queue, if there is room.                             *)
LEMMA PutKeeps ==
    ASSUME Queue, Scalars, Windows, minute' = minute, buffer' = buffer,
           pushed' \in Nat, pushed <= pushed',
           NEW e \in Events, PushedBy(e.candle, minute, pushed'), events' = PutNowait(e),
           waiting' \in {waiting, {}},
           e.candle.confirmed => e.candle.at = pushed' /\ \A w \in waiting' : w.candle.m # e.candle.m,
           ~e.candle.confirmed => e \in waiting /\ waiting' = {}
    PROVE  Queue'
  <1>1. /\ minute \in Nat /\ QueueSize \in Nat /\ pushed \in Nat /\ events \in Seq(Events)
        /\ Len(events) \in Nat /\ Len(events) <= QueueSize
        BY MinutesAre, StoreAssumption DEF Scalars, Queue
  <1>2. ASSUME NEW c, PushedBy(c, minute, pushed), c.at \in Nat PROVE PushedBy(c, minute', pushed')
        BY <1>1, <1>2 DEF PushedBy
  <1>3. \A i \in 1 .. Len(events) : events[i].candle.at \in Nat /\ PushedBy(events[i].candle, minute, pushed)
        BY <1>1, EventsAre DEF Queue
  <1>4. \A x \in buffer : x.at \in Nat /\ PushedBy(x, minute, pushed)
    <2>1. \A x \in buffer : x.at \in 0 .. MaxPushes
          BY DEF Windows, Window, Candles
    <2> QED BY <2>1, StoreAssumption DEF Queue
  <1>5. \A w \in waiting : w \in Events /\ w.candle.at \in Nat /\ PushedBy(w.candle, minute, pushed) /\ ~w.candle.confirmed
    <2>1. \A w \in waiting : w \in Events
          BY DEF Queue
    <2> QED BY <2>1, EventsAre DEF Queue
  <1>6. /\ \A x \in buffer' : PushedBy(x, minute', pushed')
        /\ \A w \in waiting' : PushedBy(w.candle, minute', pushed') /\ ~w.candle.confirmed
        /\ waiting' = {} \/ \E w \in Events : waiting' = {w}
    <2>1. \A x \in buffer' : PushedBy(x, minute', pushed')
          BY <1>2, <1>4
    <2>2. \A w \in waiting' : PushedBy(w.candle, minute', pushed') /\ ~w.candle.confirmed
          BY <1>2, <1>5
    <2> QED BY <2>1, <2>2 DEF Queue
  <1>7. CASE events' = events
    <2>1. \A i \in 1 .. Len(events') : PushedBy(events'[i].candle, minute', pushed')
      <3> TAKE i \in 1 .. Len(events')
      <3> PICK c : c = events'[i].candle
          OBVIOUS
      <3>1. c.at \in Nat /\ PushedBy(c, minute, pushed)
            BY <1>3, <1>7
      <3> QED BY <1>2, <3>1
    <2> QED BY <1>1, <1>6, <1>7, <2>1 DEF Queue
  <1>8. CASE Len(events) < QueueSize /\ events' = Append(events, e)
    <2> DEFINE n == Len(events) + 1
    <2>1. /\ events' \in Seq(Events) /\ Len(events') = n /\ events'[n] = e /\ n \in Nat /\ n <= QueueSize
          /\ \A i \in 1 .. Len(events) : events'[i] = events[i] /\ i < n
          /\ \A i \in 1 .. n : i = n \/ i \in 1 .. Len(events)
          BY <1>1, <1>8
    <2> HIDE DEF n
    <2>2. \A i \in 1 .. n : PushedBy(events'[i].candle, minute', pushed')
      <3> TAKE i \in 1 .. n
      <3> PICK c : c = events'[i].candle
          OBVIOUS
      <3>1. CASE i = n
            BY <2>1, <3>1
      <3>2. CASE i # n
        <4>1. c.at \in Nat /\ PushedBy(c, minute, pushed)
              BY <1>3, <2>1, <3>2
        <4> QED BY <1>2, <4>1
      <3> QED BY <3>1, <3>2
    <2>3. \A i, j \in 1 .. n :
            events'[i].candle.m = events'[j].candle.m /\ events'[j].candle.confirmed /\ ~events'[i].candle.confirmed =>
              i < j /\ events'[i].candle.at <= events'[j].candle.at
      <3> TAKE i, j \in 1 .. n
      <3>1. CASE i # n /\ j # n
            BY <2>1, <3>1 DEF Queue
      <3>2. CASE i # n /\ j = n
        <4>1. events'[i].candle.at <= pushed /\ events'[i].candle.at \in Nat
              BY <1>3, <2>1, <3>2 DEF PushedBy
        <4> QED BY <1>1, <2>1, <3>2, <4>1
      <3>3. CASE i = n /\ j # n
            BY <2>1, <3>3 DEF Queue
      <3>4. CASE i = n /\ j = n
            BY <3>4
      <3> QED BY <3>1, <3>2, <3>3, <3>4
    <2>4. \A x \in buffer', j \in 1 .. n :
            x.m = events'[j].candle.m =>
              /\ x.confirmed => events'[j].candle.confirmed
              /\ ~x.confirmed /\ events'[j].candle.confirmed => x.at <= events'[j].candle.at
      <3> TAKE x \in buffer', j \in 1 .. n
      <3>1. CASE j # n
            BY <2>1, <3>1 DEF Queue
      <3>2. CASE j = n
        <4>1. x.at <= pushed /\ x.at \in Nat
              BY <1>4 DEF PushedBy
        <4> QED BY <1>1, <2>1, <3>2, <4>1 DEF Queue
      <3> QED BY <3>1, <3>2
    <2>5. \A w \in waiting' :
            /\ \A j \in 1 .. n : events'[j].candle.m = w.candle.m => ~events'[j].candle.confirmed
            /\ \A x \in buffer' : x.m = w.candle.m => ~x.confirmed
      <3> TAKE w \in waiting'
      <3>1. w \in waiting /\ e.candle.confirmed /\ w.candle.m # e.candle.m
            OBVIOUS
      <3>2. ASSUME NEW j \in 1 .. n, events'[j].candle.m = w.candle.m PROVE ~events'[j].candle.confirmed
            BY <2>1, <3>1, <3>2 DEF Queue
      <3> QED BY <3>1, <3>2 DEF Queue
    <2> QED BY <1>6, <2>1, <2>2, <2>3, <2>4, <2>5 DEF Queue
  <1> QED BY <1>7, <1>8 DEF PutNowait

---------------------------------------------------------------------------
(* What stays.                                                             *)

Coming(q, g, m) == \E i \in 1 .. Len(q) : q[i].gen = g /\ q[i].candle.m = m /\ q[i].candle.confirmed

LEMMA ComingIs ==
    ASSUME NEW q \in Seq(Events), NEW g, NEW m
    PROVE  (\E e \in Range(q) : e.gen = g /\ e.candle.m = m /\ e.candle.confirmed) <=> Coming(q, g, m)
  BY DEF Range, Coming

(* A closed minute that the window has, or had.                            *)
InWindow(m) ==
    \/ m \in Ms(ClosedBars(IF life = "warming" THEN buffer ELSE bars))
    \/ life = "live" /\ (DayOf(m) < day \/ Crowded(Ms(bars), m))

LEMMA KeptIs ==
    ASSUME events \in Seq(Events)
    PROVE  ClosedMinutesAreKept <=> \A m \in heard : Coming(events, connection, m) \/ InWindow(m)
  <1>1. \A m : (\E e \in Range(events) : e.gen = connection /\ e.candle.m = m /\ e.candle.confirmed)
                 <=> Coming(events, connection, m)
        BY ComingIs
  <1>2. \A m : {n \in Ms(bars) : n > m} = Above(Ms(bars), m)
        BY DEF Above
  <1> QED BY <1>1, <1>2 DEF ClosedMinutesAreKept, InWindow, Crowded

LEMMA NextKeptIs ==
    ASSUME events' \in Seq(Events)
    PROVE  ClosedMinutesAreKept' <=> \A m \in heard' : Coming(events', connection', m) \/ InWindow(m)'
  <1>1. \A m : (\E e \in Range(events') : e.gen = connection' /\ e.candle.m = m /\ e.candle.confirmed)
                 <=> Coming(events', connection', m)
        BY ComingIs
  <1>2. \A m : {n \in Ms(bars') : n > m} = Above(Ms(bars'), m)
        BY DEF Above
  <1> QED BY <1>1, <1>2 DEF ClosedMinutesAreKept, InWindow, Crowded

LEMMA HeardGoesOn ==
    ASSUME CandleInv, Queue', UNCHANGED <<life, bars, day, buffer, connection>>,
           heard' # {} => Subscribed,
           \A m \in heard' : \/ Coming(events', connection, m)
                             \/ m \in heard /\ (Coming(events, connection, m) => Coming(events', connection, m))
    PROVE  HeardKept'
  <1>1. events \in Seq(Events) /\ events' \in Seq(Events) /\ HeardKept
        BY DEF CandleInv, Queue
  <1>2. \A m \in heard : Coming(events, connection, m) \/ InWindow(m)
        BY <1>1, KeptIs DEF HeardKept
  <1>3. \A m : InWindow(m)' <=> InWindow(m)
        BY DEF InWindow
  <1>4. ClosedMinutesAreKept'
        BY <1>1, <1>2, <1>3, NextKeptIs
  <1> QED BY <1>1, <1>4 DEF HeardKept, Subscribed

LEMMA NothingHeard ==
    ASSUME heard' = {}, life' = "live" => bars' = {}
    PROVE  HeardKept'
  BY DEF HeardKept, ClosedMinutesAreKept

LEMMA HeardStays ==
    ASSUME HeardKept, UNCHANGED <<life, bars, day, buffer, connection, events, heard>>
    PROVE  HeardKept'
  BY DEF HeardKept, ClosedMinutesAreKept, Subscribed

LEMMA OpsStay ==
    ASSUME OpsAgree, UNCHANGED <<op, redisBars>>, life' = "live" => life = "live" \/ op["worker"] = Idle,
           life' # "live" => op["worker"] = Idle
    PROVE  OpsAgree'
  BY DEF OpsAgree

LEMMA SavedStays ==
    ASSUME WindowSaved, UNCHANGED <<op, redisBars, pendBars>>, life' = "live" => life = "live" /\ bars' = bars
    PROVE  WindowSaved'
  BY DEF WindowSaved

LEMMA WindowsStay ==
    ASSUME Windows, UNCHANGED <<pendBars, redisBars, redisCur>>, pendCur' \in {pendCur, {}},
           buffer' \in {buffer, {}}, bars' \in {bars, {}, ClosedBars(bars)},
           load' \in {load, [step |-> "none", bars |-> {}], [step |-> "cache", bars |-> {}]}
    PROVE  Windows'
  <1>1. Window({}) /\ IsFiniteSet({}) /\ Cardinality({}) = 0
        BY FS_EmptySet DEF Window, OneEach
  <1>2. Window(buffer') /\ Window(pendCur') /\ Window(bars')
        BY <1>1 DEF Windows, Window, OneEach, ClosedBars
  <1>3. Cardinality(bars') <= BarLimit
    <2>1. CASE bars' = {}
          BY <1>1, <2>1, StoreAssumption
    <2>2. CASE bars' \in {bars, ClosedBars(bars)}
      <3>1. bars \in SUBSET Candles /\ OneEach(bars) /\ IsFiniteSet(bars) /\ bars' \in SUBSET bars
            /\ Cardinality(bars) <= BarLimit
            BY <2>2, OneEachIsFinite DEF Windows, Window, ClosedBars
      <3> QED BY <3>1, SubsetIsShort
    <2> QED BY <2>1, <2>2
  <1>4. load' \in [step : {"none", "cache", "fetch", "ready"}, bars : SUBSET Candles] /\ OneEach(load'.bars)
    <2>1. CASE load' = load
          BY <2>1 DEF Windows
    <2>2. CASE load' \in {[step |-> "none", bars |-> {}], [step |-> "cache", bars |-> {}]}
      <3>1. load'.bars = {}
            BY <2>2
      <3> QED BY <2>2, <3>1 DEF OneEach
    <2> QED BY <2>1, <2>2
  <1> QED BY <1>2, <1>3, <1>4 DEF Windows

(* Reconnects, removals and failures stay within their bound.              *)
LEMMA UpsetsStay ==
    ASSUME Scalars
    PROVE  /\ StoreFault => storeFaults' \in 0 .. MaxUpsets
           /\ NoFault => storeFaults' \in 0 .. MaxUpsets
           /\ MoreUpsets => changes + 1 \in 0 .. MaxUpsets
  <1>1. changes \in 0 .. MaxUpsets /\ storeFaults \in 0 .. MaxUpsets /\ MaxUpsets \in Nat
        BY StoreAssumption DEF Scalars
  <1> QED BY <1>1 DEF StoreFault, NoFault, MoreUpsets

---------------------------------------------------------------------------
(* The callback and the consumer.                                          *)

LEMMA MinuteEndsKeeps == ASSUME CandleInv, MinuteEnds PROVE CandleInv'
  <1>1. /\ UNCHANGED <<pushed, connection, changes, life, day, load, waiting, events, buffer, bars, pendBars,
                       pendCur, op, redisBars, redisCur, lasting, heard, storeFaults>>
        /\ minute' = minute + 1 /\ minute < LastMinute
        BY DEF MinuteEnds
  <1>2. minute' \in Minutes /\ minute \in Nat /\ minute' \in Nat /\ minute <= minute'
    <2>1. minute \in Nat \ {0} /\ LastMinute \in Nat
          BY MinutesAre, StoreAssumption DEF CandleInv, Scalars
    <2> QED BY <1>1, <2>1 DEF Minutes
  <1>3. Scalars'
        BY <1>1, <1>2 DEF CandleInv, Scalars
  <1>4. Queue'
        BY <1>1, <1>2, QueueShrinks DEF CandleInv
  <1>5. Windows' /\ OpsAgree' /\ WindowSaved' /\ HeardKept'
        BY <1>1, WindowsStay, SavedStays, HeardStays DEF CandleInv, OpsAgree
  <1> QED BY <1>3, <1>4, <1>5 DEF CandleInv

LEMMA PushKeeps ==
    ASSUME CandleInv, NEW m \in Minutes, NEW confirmed \in BOOLEAN, Push(m, confirmed)
    PROVE  CandleInv'
  <1>1. /\ UNCHANGED <<minute, connection, changes, life, day, load, buffer, bars, pendBars, pendCur, op,
                       redisBars, redisCur, lasting, storeFaults>>
        /\ Subscribed /\ pushed < MaxPushes /\ pushed' = pushed + 1
        /\ confirmed => m < minute
        /\ ~confirmed => m = minute
        BY DEF Push
  <1>2. pushed \in Nat /\ pushed' \in Nat /\ pushed' \in 0 .. MaxPushes /\ pushed <= pushed' /\ minute \in Nat /\ m \in Nat
    <2>1. pushed \in 0 .. MaxPushes /\ MaxPushes \in Nat
          BY StoreAssumption DEF CandleInv, Scalars
    <2> QED BY <1>1, <2>1, MinutesAre DEF CandleInv, Scalars
  <1>3. PICK c : c = [m |-> m, confirmed |-> confirmed, at |-> pushed']
        OBVIOUS
  <1>4. PICK e : e = [candle |-> c, gen |-> connection]
        OBVIOUS
  <1>5. c \in Candles /\ c.m = m /\ c.confirmed = confirmed /\ c.at = pushed'
        BY <1>2, <1>3 DEF Candles
  <1>6. e \in Events /\ e.candle = c /\ e.gen = connection
        BY <1>4, <1>5 DEF Events, CandleInv, Scalars
  <1>7. PushedBy(c, minute, pushed')
        BY <1>1, <1>2, <1>5 DEF PushedBy
  <1>8. Windows' /\ OpsAgree' /\ WindowSaved'
        BY <1>1, WindowsStay, SavedStays DEF CandleInv, OpsAgree
  <1>9. events \in Seq(Events) /\ Len(events) \in Nat /\ Queue /\ Scalars /\ Windows
        BY DEF CandleInv, Queue
  <1>10. CASE confirmed
    <2>1. /\ waiting' = {w \in waiting : w.candle.m > m}
          /\ events' = PutNowait(e)
          /\ heard' = IF Len(events) < QueueSize THEN heard \cup {m} ELSE heard
          BY <1>3, <1>4, <1>10 DEF Push
    <2>2. waiting' \in {waiting, {}} /\ \A w \in waiting' : w.candle.m # m
      <3>1. waiting = {} \/ \E w \in Events : waiting = {w}
            BY <1>9 DEF Queue
      <3>2. \A w \in waiting : w.candle.m \in Nat
            BY <3>1, EventsAre
      <3> QED BY <1>2, <2>1, <3>1, <3>2
    <2>3. Queue'
          BY <1>1, <1>2, <1>5, <1>6, <1>7, <1>9, <1>10, <2>1, <2>2, PutKeeps
    <2>4. Scalars'
          BY <1>1, <1>2, <2>1 DEF CandleInv, Scalars
    <2>5. \A n \in heard' : \/ Coming(events', connection, n)
                            \/ n \in heard /\ (Coming(events, connection, n) => Coming(events', connection, n))
      <3>1. CASE Len(events) < QueueSize
        <4>1. events' = Append(events, e)
              BY <2>1, <3>1 DEF PutNowait
        <4>2. /\ Len(events') = Len(events) + 1 /\ events'[Len(events) + 1] = e
              /\ \A i \in 1 .. Len(events) : events'[i] = events[i]
              BY <1>6, <1>9, <4>1
        <4>3. Coming(events', connection, m)
          <5>1. Len(events) + 1 \in 1 .. Len(events')
                BY <1>9, <4>2
          <5>2. e.gen = connection /\ e.candle.m = m /\ e.candle.confirmed
                BY <1>5, <1>6, <1>10
          <5> QED BY <4>2, <5>1, <5>2 DEF Coming
        <4>4. \A n : Coming(events, connection, n) => Coming(events', connection, n)
              BY <1>9, <4>2 DEF Coming
        <4> QED BY <2>1, <4>3, <4>4
      <3>2. CASE ~(Len(events) < QueueSize)
            BY <2>1, <3>2 DEF PutNowait
      <3> QED BY <3>1, <3>2
    <2>6. HeardKept'
          BY <1>1, <2>3, <2>5, HeardGoesOn
    <2> QED BY <1>8, <2>3, <2>4, <2>6 DEF CandleInv
  <1>11. CASE ~confirmed
    <2>1. waiting' = {e} /\ events' = events /\ heard' = heard
          BY <1>3, <1>4, <1>11 DEF Push
    <2>2. \A i \in 1 .. Len(events) :
            /\ events[i].candle.at \in Nat /\ PushedBy(events[i].candle, minute, pushed)
            /\ events[i].candle.m = m => ~events[i].candle.confirmed
      <3>1. \A i \in 1 .. Len(events) : events[i].candle.at \in Nat /\ PushedBy(events[i].candle, minute, pushed)
            BY <1>9, EventsAre DEF Queue
      <3> QED BY <1>1, <1>2, <1>11, <3>1 DEF PushedBy
    <2>3. \A x \in buffer :
            /\ x.at \in Nat /\ PushedBy(x, minute, pushed)
            /\ x.m = m => ~x.confirmed
      <3>1. \A x \in buffer : x.at \in 0 .. MaxPushes /\ PushedBy(x, minute, pushed)
            BY <1>9 DEF Queue, Windows, Window, Candles
      <3> QED BY <1>1, <1>2, <1>11, <3>1, StoreAssumption DEF PushedBy
    <2>4. ASSUME NEW x, PushedBy(x, minute, pushed), x.at \in Nat PROVE PushedBy(x, minute', pushed')
          BY <1>1, <1>2, <2>4 DEF PushedBy
    <2>5. /\ \A i \in 1 .. Len(events') : PushedBy(events'[i].candle, minute', pushed')
          /\ \A x \in buffer' : PushedBy(x, minute', pushed')
          BY <1>1, <2>1, <2>2, <2>3, <2>4
    <2>6. \A w \in waiting' : w.candle.m = m /\ PushedBy(w.candle, minute', pushed') /\ ~w.candle.confirmed
          BY <1>1, <1>5, <1>6, <1>7, <1>11, <2>1
    <2>7. \A w \in waiting' :
            /\ \A j \in 1 .. Len(events') : events'[j].candle.m = w.candle.m => ~events'[j].candle.confirmed
            /\ \A x \in buffer' : x.m = w.candle.m => ~x.confirmed
          BY <1>1, <2>1, <2>2, <2>3, <2>6
    <2>8. /\ waiting' = {} \/ \E w \in Events : waiting' = {w}
          /\ events' = events /\ buffer' = buffer
          BY <1>1, <1>6, <2>1
    <2>9. Queue'
          BY <1>9, <2>5, <2>6, <2>7, <2>8 DEF Queue
    <2>10. Scalars'
          BY <1>1, <1>2, <2>1 DEF CandleInv, Scalars
    <2>11. HeardKept'
          BY <1>1, <2>1, HeardStays DEF CandleInv
    <2> QED BY <1>8, <2>9, <2>10, <2>11 DEF CandleInv
  <1> QED BY <1>10, <1>11

LEMMA FlushUnconfirmedKeeps == ASSUME CandleInv, FlushUnconfirmed PROVE CandleInv'
  <1>1. /\ UNCHANGED <<minute, pushed, connection, changes, life, day, load, buffer, bars, pendBars, pendCur,
                       op, redisBars, redisCur, lasting, heard, storeFaults>>
        /\ waiting' = {}
        BY DEF FlushUnconfirmed
  <1>2. PICK e \in waiting : events' = PutNowait(e)
        BY DEF FlushUnconfirmed
  <1>3. Queue /\ Scalars /\ Windows /\ events \in Seq(Events) /\ Len(events) \in Nat
        BY DEF CandleInv, Queue
  <1>4. e \in Events /\ PushedBy(e.candle, minute, pushed) /\ ~e.candle.confirmed
        BY <1>3 DEF Queue
  <1>5. pushed' \in Nat /\ pushed <= pushed'
        BY <1>1, <1>3, StoreAssumption DEF Scalars
  <1>6. Queue'
        BY <1>1, <1>2, <1>3, <1>4, <1>5, PutKeeps
  <1>7. \A n : Coming(events, connection, n) => Coming(events', connection, n)
    <2>1. CASE events' = Append(events, e)
      <3>1. /\ Len(events') = Len(events) + 1
            /\ \A i \in 1 .. Len(events) : events'[i] = events[i]
            BY <1>3, <1>4, <2>1
      <3> QED BY <1>3, <3>1 DEF Coming
    <2> QED BY <1>2, <2>1 DEF PutNowait
  <1>8. heard' # {} => Subscribed
        BY <1>1 DEF CandleInv, HeardKept
  <1>9. HeardKept'
        BY <1>1, <1>6, <1>7, <1>8, HeardGoesOn
  <1>10. Scalars'
        BY <1>1, <1>3 DEF Scalars
  <1>11. Windows' /\ OpsAgree' /\ WindowSaved'
        BY <1>1, WindowsStay, SavedStays DEF CandleInv, OpsAgree
  <1> QED BY <1>6, <1>9, <1>10, <1>11 DEF CandleInv

(* An event is the queue's first.                                          *)
LEMMA TakesFirst ==
    ASSUME events \in Seq(Events), NEW e, TakeEvent(e)
    PROVE  /\ events # <<>> /\ events' = Tail(events) /\ e = Head(events) /\ e \in Events
           /\ op["live"] = Idle /\ 1 \in 1 .. Len(events) /\ events[1] = e
           /\ \A i \in 1 .. Len(events) : i = 1 \/ (i - 1 \in 1 .. Len(events') /\ events'[i - 1] = events[i])
  <1>1. events # <<>> /\ events' = Tail(events) /\ e = Head(events) /\ op["live"] = Idle
        BY DEF TakeEvent
  <1>2. Len(events) \in Nat \ {0} /\ e \in Events /\ events[1] = e /\ Len(events') = Len(events) - 1
        /\ \A i \in 1 .. Len(events') : events'[i] = events[i + 1]
        BY <1>1, TakenEvent
  <1>3. \A i \in 1 .. Len(events) : i = 1 \/ (i - 1 \in 1 .. Len(events') /\ events'[i - 1] = events[i])
    <2> TAKE i \in 1 .. Len(events)
    <2>1. CASE i # 1
      <3>1. i - 1 \in 1 .. Len(events') /\ (i - 1) + 1 = i
            BY <1>2, <2>1
      <3> QED BY <1>2, <3>1
    <2> QED BY <2>1
  <1> QED BY <1>1, <1>2, <1>3

(* What was coming still is, or has just come.                             *)
LEMMA ComesOrCame ==
    ASSUME events \in Seq(Events), NEW e, TakeEvent(e), NEW m, Coming(events, connection, m)
    PROVE  \/ Coming(events', connection, m)
           \/ e.gen = connection /\ e.candle.m = m /\ e.candle.confirmed
  <1>1. PICK i \in 1 .. Len(events) : events[i].gen = connection /\ events[i].candle.m = m /\ events[i].candle.confirmed
        BY DEF Coming
  <1>2. events[1] = e /\ (i = 1 \/ (i - 1 \in 1 .. Len(events') /\ events'[i - 1] = events[i]))
        BY TakesFirst
  <1> QED BY <1>1, <1>2 DEF Coming

LEMMA IgnoreEventKeeps == ASSUME CandleInv, IgnoreEvent PROVE CandleInv'
  <1>1. UNCHANGED <<minute, pushed, connection, changes, life, day, load, waiting, buffer, bars, pendBars,
                    pendCur, op, redisBars, redisCur, lasting, heard, storeFaults>>
        BY DEF IgnoreEvent
  <1>2. PICK e : TakeEvent(e) /\ Ignored(e)
        BY DEF IgnoreEvent
  <1>3. Queue /\ Scalars /\ Windows /\ events \in Seq(Events) /\ minute \in Nat
        BY MinutesAre DEF CandleInv, Queue, Scalars
  <1>4. events # <<>> /\ events' = Tail(events)
        BY <1>2, <1>3, TakesFirst
  <1>5. minute' \in Nat /\ minute <= minute'
        BY <1>1, <1>3
  <1>6. Queue'
        BY <1>1, <1>3, <1>4, <1>5, QueueShrinks
  <1>7. heard' # {} => Subscribed
        BY <1>1 DEF CandleInv, HeardKept
  <1>8. \A n \in heard' : Coming(events, connection, n) => Coming(events', connection, n)
        BY <1>2, <1>3, <1>7, ComesOrCame DEF Ignored
  <1>9. HeardKept'
        BY <1>1, <1>6, <1>7, <1>8, HeardGoesOn
  <1>10. Scalars'
        BY <1>1, <1>3 DEF Scalars
  <1>11. Windows' /\ OpsAgree' /\ WindowSaved'
        BY <1>1, WindowsStay, SavedStays DEF CandleInv, OpsAgree
  <1> QED BY <1>6, <1>9, <1>10, <1>11 DEF CandleInv

(* A closed candle that is trimmed away is crowded out.                    *)
LEMMA ClosedStays ==
    ASSUME NEW S \in SUBSET Candles, OneEach(S), NEW y \in S, y.confirmed
    PROVE  y.m \in Ms(ClosedBars(Trim(S))) \/ Crowded(Ms(Trim(S)), y.m)
  <1>1. Ms(S) \in SUBSET Minutes /\ y.m \in Ms(S)
        BY CandlesAre
  <1>2. Trim(S) \in SUBSET S /\ Ms(Trim(S)) = Trimmed(Ms(S))
        BY TrimIs
  <1>3. CASE y.m \in Trimmed(Ms(S))
    <2>1. PICK z \in Trim(S) : z.m = y.m
          BY <1>2, <1>3 DEF Ms
    <2>2. y \in ClosedBars(Trim(S))
          BY <1>2, <2>1 DEF OneEach, ClosedBars
    <2> QED BY <2>2 DEF Ms
  <1>4. CASE y.m \notin Trimmed(Ms(S))
        BY <1>1, <1>2, <1>4, DroppedIsCrowded
  <1> QED BY <1>3, <1>4

LEMMA OpStarts ==
    ASSUME NEW w, NEW R, NEW s \in {"read", "current"}, NEW B, NEW C, Window(B), Window(C),
           \A x \in B : x.confirmed, s = "read" => B # {}, w = "live" => s = "read",
           w = "worker" /\ s = "current" => B = {},
           NEW o, o = [step |-> s, bars |-> B, cur |-> C, obsolete |-> {}, day |-> 0]
    PROVE  OpAgrees(o, w, R) /\ Owed(o, w) = Ms(B) /\ o \in OpType
  <1>1. o.step = s /\ o.bars = B /\ o.cur = C /\ o.obsolete = {} /\ o.day = 0
        OBVIOUS
  <1>2. o \in OpType
    <2>1. Idle \in OpType /\ Idle.day = 0
          BY IdleAgrees DEF OpAgrees, Idle
    <2>2. 0 \in 0 .. DayOf(LastMinute)
          BY <2>1 DEF OpType
    <2> QED BY <2>2 DEF OpType, Window
  <1>3. Ms({}) = {}
        BY DEF Ms
  <1>4. w = "worker" /\ s = "current" => Ms(B) = {}
        BY <1>3
  <1>5. Owed(o, w) = Ms(B)
        BY <1>1, <1>4 DEF Owed
  <1>6. /\ o.step # "idle" /\ o.step # "put"
        /\ w = "worker" /\ o.step = "current" => \A n \in Ms(o.bars) : Covered(R, {}, n)
        BY <1>1, <1>4
  <1>7. /\ Window(o.bars) /\ Window(o.cur) /\ \A x \in o.bars : x.confirmed
        /\ o.step \in {"read", "put"} => o.bars # {}
        /\ w = "live" => o.step # "current"
        BY <1>1
  <1> QED BY <1>2, <1>5, <1>6, <1>7 DEF OpAgrees

LEMMA BufferEventKeeps == ASSUME CandleInv, BufferEvent PROVE CandleInv'
  <1>1. /\ UNCHANGED <<minute, pushed, connection, changes, life, day, load, waiting, bars, pendBars,
                       pendCur, op, redisBars, redisCur, lasting, heard, storeFaults>>
        /\ life = "warming"
        BY DEF BufferEvent
  <1>2. PICK e : /\ TakeEvent(e) /\ ~Ignored(e)
                 /\ buffer' = IF \A x \in At(buffer, e.candle.m) : e.candle.at >= x.at
                              THEN Put(buffer, e.candle) ELSE buffer
        BY DEF BufferEvent
  <1>3. Queue /\ Scalars /\ Windows /\ events \in Seq(Events) /\ minute \in Nat
        BY MinutesAre DEF CandleInv, Queue, Scalars
  <1>4. events # <<>> /\ events' = Tail(events) /\ e = Head(events) /\ 1 \in 1 .. Len(events) /\ events[1] = e /\ e \in Events
        BY <1>2, <1>3, TakesFirst
  <1> PICK c : c = e.candle
      OBVIOUS
  <1>5. c \in Candles /\ c.at \in Nat /\ c.m \in Nat
        BY <1>4, EventsAre
  <1>6. buffer \in SUBSET Candles /\ OneEach(buffer)
        BY <1>3 DEF Windows, Window
  <1>7. buffer' \in SUBSET Candles /\ OneEach(buffer') /\ buffer' \subseteq buffer \cup {c}
        BY <1>2, <1>5, <1>6, PutIs
  <1>8. Queue'
    <2>1. \A x \in buffer' : \/ x \in buffer
                             \/ events # <<>> /\ events' = Tail(events) /\ x = Head(events).candle
          BY <1>4, <1>7
    <2>2. minute' \in Nat /\ minute <= minute'
          BY <1>1, <1>3
    <2> QED BY <1>1, <1>3, <1>4, <2>1, <2>2, QueueShrinks
  <1>9. \A x \in buffer : x.m = c.m =>
          /\ x.at \in Nat
          /\ x.confirmed => c.confirmed
          /\ ~x.confirmed /\ c.confirmed => x.at <= c.at
    <2>1. \A x \in buffer : x.at \in 0 .. MaxPushes
          BY <1>6 DEF Candles
    <2>2. \A x \in buffer : x.m = events[1].candle.m =>
            /\ x.confirmed => events[1].candle.confirmed
            /\ ~x.confirmed /\ events[1].candle.confirmed => x.at <= events[1].candle.at
          BY <1>3, <1>4 DEF Queue
    <2> QED BY <1>4, <2>1, <2>2, StoreAssumption
  <1>10. ASSUME NEW x \in buffer, x.confirmed PROVE x.m \in Ms(ClosedBars(buffer'))
    <2>1. CASE buffer' = Put(buffer, c) /\ x.m = c.m
      <3>1. c \in ClosedBars(buffer')
            BY <1>5, <1>6, <1>9, <1>10, <2>1, PutIs DEF ClosedBars
      <3> QED BY <2>1, <3>1 DEF Ms
    <2>2. CASE buffer' = Put(buffer, c) /\ x.m # c.m
      <3>1. x \in ClosedBars(buffer')
            BY <1>5, <1>6, <1>10, <2>2, PutIs DEF ClosedBars
      <3> QED BY <3>1 DEF Ms
    <2>3. CASE buffer' = buffer
          BY <1>10, <2>3 DEF ClosedBars, Ms
    <2> QED BY <1>2, <2>1, <2>2, <2>3
  <1>11. ASSUME c.confirmed PROVE c.m \in Ms(ClosedBars(buffer'))
    <2>1. CASE buffer' = Put(buffer, c)
      <3>1. c \in ClosedBars(buffer')
            BY <1>5, <1>6, <1>11, <2>1, PutIs DEF ClosedBars
      <3> QED BY <3>1 DEF Ms
    <2>2. CASE ~(\A x \in At(buffer, c.m) : c.at >= x.at)
      <3> PICK x \in buffer : x.m = c.m /\ ~(c.at >= x.at)
          BY <2>2 DEF At
      <3>1. x.confirmed
            BY <1>5, <1>9, <1>11
      <3> QED BY <1>10, <3>1
    <2> QED BY <1>2, <2>1, <2>2
  <1>12. \A n \in heard' : Coming(events', connection', n) \/ InWindow(n)'
    <2> TAKE n \in heard'
    <2>1. Coming(events, connection, n) \/ InWindow(n)
          BY <1>1, <1>3, KeptIs DEF CandleInv, HeardKept
    <2>2. CASE Coming(events, connection, n)
      <3>1. CASE e.gen = connection /\ e.candle.m = n /\ e.candle.confirmed
            BY <1>1, <1>11, <3>1 DEF InWindow
      <3> QED BY <1>1, <1>2, <1>3, <2>2, <3>1, ComesOrCame
    <2>3. CASE InWindow(n)
      <3>1. n \in Ms(ClosedBars(buffer))
            BY <1>1, <2>3 DEF InWindow
      <3>2. PICK x \in buffer : x.confirmed /\ x.m = n
            BY <3>1 DEF Ms, ClosedBars
      <3> QED BY <1>1, <1>10, <3>2 DEF InWindow
    <2> QED BY <2>1, <2>2, <2>3
  <1>13. HeardKept'
    <2>1. ClosedMinutesAreKept'
          BY <1>8, <1>12, NextKeptIs DEF Queue
    <2> QED BY <1>1, <2>1 DEF CandleInv, HeardKept, Subscribed
  <1>14. Scalars'
        BY <1>1, <1>3 DEF Scalars
  <1>15. Windows'
        BY <1>1, <1>3, <1>7 DEF Windows, Window
  <1>16. OpsAgree' /\ WindowSaved'
        BY <1>1, SavedStays DEF CandleInv, OpsAgree
  <1> QED BY <1>8, <1>13, <1>14, <1>15, <1>16 DEF CandleInv

(* The pending writes and Redis stay, and an idle writer starts on B.      *)
LEMMA WriterStarts ==
    ASSUME OpsAgree, Windows, NEW w \in Writers, op[w] = Idle,
           NEW o, op' = [op EXCEPT ![w] = o], OpAgrees(o, w, Ms(redisBars)),
           UNCHANGED redisBars, life' # "live" => (IF w = "worker" THEN o ELSE op["worker"]) = Idle,
           Ms(pendBars) \subseteq Ms(pendBars') \cup Owed(o, w), Ms(pendBars') \in SUBSET Minutes
    PROVE  /\ OpsAgree'
           /\ Due(op, pendBars) \subseteq Due(op', pendBars') /\ Owed(o, w) \subseteq Due(op', pendBars')
           /\ Due(op, pendBars) \in SUBSET Minutes /\ Due(op', pendBars') \in SUBSET Minutes
  <1>1. Ms(redisBars) \in SUBSET Minutes /\ Ms(redisBars') \in SUBSET Minutes
        BY CandlesAre DEF Windows, Window
  <1>2. Grows(Ms(redisBars), Ms(redisBars'))
    <2>1. \A n \in Minutes : DayOf(n) \in Nat
          BY DaysFollow
    <2>2. \A n \in Ms(redisBars) : DayOf(n) >= DayOf(n)
          BY <1>1, <2>1
    <2> QED BY <2>2 DEF Grows
  <1>3. OpAgrees(o, w, Ms(redisBars'))
        OBVIOUS
  <1>4. OpsAgree'
        BY <1>1, <1>2, <1>3, OthersAgree
  <1>5. PICK E \in SUBSET Minutes :
          /\ Due(op, pendBars) = Ms(pendBars) \cup E \cup Owed(op[w], w)
          /\ Ms(pendBars) \in SUBSET Minutes
          /\ \A P, p, Q : Q = [op EXCEPT ![w] = p] => Due(Q, P) = Ms(P) \cup E \cup Owed(p, w)
        BY DueIs
  <1>6. Owed(op[w], w) = {} /\ Due(op', pendBars') = Ms(pendBars') \cup E \cup Owed(o, w)
        BY <1>5, IdleAgrees
  <1>7. Owed(o, w) \in SUBSET Minutes
    <2>1. o.bars \in SUBSET Candles
          BY DEF OpAgrees, OpType
    <2> QED BY <2>1, CandlesAre DEF Owed
  <1> QED BY <1>4, <1>5, <1>6, <1>7

LEMMA ReadsOne ==
    ASSUME NEW c
    PROVE  [Idle EXCEPT !.step = "read", !.bars = {c}]
             = [step |-> "read", bars |-> {c}, cur |-> {}, obsolete |-> {}, day |-> 0]
  <1>1. PICK i : i = [Idle EXCEPT !.step = "read"]
        OBVIOUS
  <1>2. i = [step |-> "read", bars |-> {}, cur |-> {}, obsolete |-> {}, day |-> 0]
        BY <1>1 DEF Idle
  <1>3. [i EXCEPT !.bars = {c}] = [step |-> "read", bars |-> {c}, cur |-> {}, obsolete |-> {}, day |-> 0]
        BY <1>2
  <1>4. [Idle EXCEPT !.step = "read", !.bars = {c}] = [i EXCEPT !.bars = {c}]
        BY <1>1
  <1> QED BY <1>3, <1>4

LEMMA ReadsThree ==
    ASSUME NEW s, NEW B, NEW C
    PROVE  [Idle EXCEPT !.step = s, !.bars = B, !.cur = C]
             = [step |-> s, bars |-> B, cur |-> C, obsolete |-> {}, day |-> 0]
  <1>1. PICK i : i = [Idle EXCEPT !.step = s]
        OBVIOUS
  <1>2. i = [step |-> s, bars |-> {}, cur |-> {}, obsolete |-> {}, day |-> 0]
        BY <1>1 DEF Idle
  <1>3. PICK j : j = [i EXCEPT !.bars = B]
        OBVIOUS
  <1>4. j = [step |-> s, bars |-> B, cur |-> {}, obsolete |-> {}, day |-> 0]
        BY <1>2, <1>3
  <1>5. [j EXCEPT !.cur = C] = [step |-> s, bars |-> B, cur |-> C, obsolete |-> {}, day |-> 0]
        BY <1>4
  <1>6. [Idle EXCEPT !.step = s, !.bars = B, !.cur = C] = [j EXCEPT !.cur = C]
        BY <1>1, <1>3
  <1> QED BY <1>5, <1>6

LEMMA HandleCandleKeeps == ASSUME CandleInv, HandleCandle PROVE CandleInv'
  <1>1. /\ UNCHANGED <<minute, pushed, connection, changes, life, load, waiting, buffer, pendBars, redisBars,
                       redisCur, lasting, heard, storeFaults>>
        /\ life = "live"
        BY DEF HandleCandle
  <1>2. PICK e \in Range(events) :
          LET d == e.candle
              window == IF day # 0 /\ DayOf(d.m) > day THEN {} ELSE bars
          IN
          /\ TakeEvent(e) /\ ~Ignored(e)
          /\ IF DayOf(d.m) < day \/ \E x \in At(window, d.m) : Older(d, x)
             THEN UNCHANGED <<day, bars, pendCur, op>>
             ELSE /\ day' = DayOf(d.m)
                  /\ bars' = Trim(Put(window, d))
                  /\ pendCur' = Newest(bars')
                  /\ op' = IF d.confirmed THEN [op EXCEPT !["live"] = [Idle EXCEPT !.step = "read", !.bars = {d}]]
                           ELSE op
        BY DEF HandleCandle
  <1> PICK c : c = e.candle
      OBVIOUS
  <1> PICK W : W = IF day # 0 /\ DayOf(c.m) > day THEN {} ELSE bars
      OBVIOUS
  <1>3. /\ TakeEvent(e) /\ ~Ignored(e)
        /\ IF DayOf(c.m) < day \/ \E x \in At(W, c.m) : Older(c, x)
           THEN UNCHANGED <<day, bars, pendCur, op>>
           ELSE /\ day' = DayOf(c.m)
                /\ bars' = Trim(Put(W, c))
                /\ pendCur' = Newest(bars')
                /\ op' = IF c.confirmed THEN [op EXCEPT !["live"] = [Idle EXCEPT !.step = "read", !.bars = {c}]]
                         ELSE op
        BY <1>2
  <1>4. Queue /\ Scalars /\ Windows /\ OpsAgree /\ WindowSaved /\ HeardKept /\ events \in Seq(Events) /\ minute \in Nat
        BY MinutesAre DEF CandleInv, Queue, Scalars
  <1>5. events # <<>> /\ events' = Tail(events) /\ e \in Events /\ op["live"] = Idle
        BY <1>3, <1>4, TakesFirst
  <1>6. c \in Candles /\ c.at \in Nat /\ c.m \in Minutes /\ c.m \in Nat /\ c.confirmed \in BOOLEAN
        BY <1>5, EventsAre
  <1>7. /\ bars \in SUBSET Candles /\ OneEach(bars) /\ W \in SUBSET Candles /\ OneEach(W) /\ W \subseteq bars
        /\ Ms(bars) \in SUBSET Minutes
    <2>1. bars \in SUBSET Candles /\ OneEach(bars)
          BY <1>4 DEF Windows, Window
    <2> QED BY <2>1, CandlesAre DEF OneEach
  <1>8. \A n \in Minutes : DayOf(n) \in Nat \ {0} /\ DayOf(n) <= DayOf(LastMinute) /\ DayOf(LastMinute) \in Nat
        BY DaysFollow
  <1>9. day \in Nat /\ \A x \in bars : DayOf(x.m) = day /\ x.m \in Minutes /\ x.confirmed \in BOOLEAN /\ x.at \in Int
    <2>1. day \in 0 .. DayOf(LastMinute) /\ \A x \in bars : DayOf(x.m) = day
          BY <1>1, <1>4 DEF Scalars, HeardKept
    <2>2. \A x \in bars : x.m \in Minutes /\ x.confirmed \in BOOLEAN /\ x.at \in Int
          BY <1>7, CandlesAre DEF Candles
    <2> QED BY <2>1, <2>2
  <1>10. Queue'
    <2>1. \A x \in buffer' : x \in buffer
          BY <1>1
    <2>2. minute' \in Nat /\ minute <= minute'
          BY <1>1, <1>4
    <2> QED BY <1>1, <1>4, <1>5, <2>1, <2>2, QueueShrinks
  <1>11. \A n \in heard : Coming(events, connection, n) \/ InWindow(n)
        BY <1>4, KeptIs DEF HeardKept
  <1>12. ASSUME \A n \in heard :
                  InWindow(n) \/ (e.candle.m = n /\ e.candle.confirmed) => InWindow(n)',
                \A x \in bars' : DayOf(x.m) = day'
         PROVE  HeardKept'
    <2>1. \A n \in heard' : Coming(events', connection', n) \/ InWindow(n)'
          BY <1>1, <1>3, <1>4, <1>11, <1>12, ComesOrCame
    <2>2. ClosedMinutesAreKept'
          BY <1>10, <2>1, NextKeptIs DEF Queue
    <2> QED BY <1>1, <1>4, <1>12, <2>2 DEF HeardKept, Subscribed
  <1>13. CASE DayOf(c.m) < day \/ \E x \in At(W, c.m) : Older(c, x)
    <2>1. UNCHANGED <<day, bars, pendCur, op>>
          BY <1>3, <1>13
    <2>2. \A n : InWindow(n) => InWindow(n)'
          BY <1>1, <2>1 DEF InWindow
    <2>3. ASSUME c.confirmed PROVE InWindow(c.m)'
      <3>1. CASE DayOf(c.m) < day
            BY <1>1, <2>1, <3>1 DEF InWindow
      <3>2. CASE \E x \in At(W, c.m) : Older(c, x)
        <4> PICK x \in W : x.m = c.m /\ Older(c, x)
            BY <3>2 DEF At
        <4>1. x \in ClosedBars(bars)
              BY <1>6, <1>7, <1>9, <2>3 DEF Older, ClosedBars
        <4>2. c.m \in Ms(ClosedBars(bars))
              BY <4>1 DEF Ms
        <4> QED BY <1>1, <2>1, <4>2 DEF InWindow
      <3> QED BY <1>13, <3>1, <3>2
    <2>4. HeardKept'
          BY <1>9, <1>12, <2>1, <2>2, <2>3
    <2>5. Scalars'
          BY <1>1, <1>4, <2>1 DEF Scalars
    <2>6. Windows' /\ OpsAgree' /\ WindowSaved'
          BY <1>1, <1>4, <2>1, WindowsStay, SavedStays DEF OpsAgree
    <2> QED BY <1>10, <2>4, <2>5, <2>6 DEF CandleInv
  <1>14. CASE ~(DayOf(c.m) < day \/ \E x \in At(W, c.m) : Older(c, x))
    <2>1. /\ day' = DayOf(c.m) /\ bars' = Trim(Put(W, c)) /\ pendCur' = Newest(bars')
          /\ op' = IF c.confirmed THEN [op EXCEPT !["live"] = [Idle EXCEPT !.step = "read", !.bars = {c}]]
                   ELSE op
          BY <1>3, <1>14
    <2> PICK S : S = Put(W, c)
        OBVIOUS
    <2>2. S \in SUBSET Candles /\ OneEach(S) /\ c \in S /\ S \subseteq W \cup {c}
          /\ Ms(S) = Ms(W) \cup {c.m} /\ Ms(S) \in SUBSET Minutes
          /\ \A x \in W : x.m # c.m => x \in S
          BY <1>6, <1>7, PutIs, CandlesAre
    <2>3. /\ bars' \in SUBSET S /\ OneEach(bars') /\ Cardinality(bars') <= BarLimit /\ Ms(bars') = Trimmed(Ms(S))
          /\ bars' \in SUBSET Candles
          BY <2>1, <2>2, TrimIs
    <2>4. pendCur' \in SUBSET Candles /\ OneEach(pendCur')
          BY <2>1, <2>3, NewestIs
    <2>5. Windows'
          BY <1>1, <1>4, <2>3, <2>4 DEF Windows, Window
    <2>6. Scalars'
      <3>1. day' \in 0 .. DayOf(LastMinute)
            BY <1>6, <1>8, <2>1
      <3> QED BY <1>1, <1>4, <3>1 DEF Scalars
    <2>7. \/ W = {} /\ day < day' /\ day # 0
          \/ W = bars /\ day' = day
          \/ W = bars /\ bars = {} /\ day = 0 /\ day < day'
      <3>1. day' \in Nat \ {0} /\ ~(day' < day) /\ W = IF day # 0 /\ day' > day THEN {} ELSE bars
            BY <1>6, <1>8, <1>14, <2>1
      <3>2. day = 0 => bars = {}
            BY <1>8, <1>9
      <3> QED BY <1>9, <3>1, <3>2
    <2>8. \A x \in bars' : DayOf(x.m) = day'
          BY <1>9, <2>1, <2>2, <2>3, <2>7
    <2>9. ASSUME NEW y \in S, y.confirmed PROVE InWindow(y.m)'
      <3>1. y.m \in Ms(ClosedBars(bars')) \/ Crowded(Ms(bars'), y.m)
            BY <2>1, <2>2, <2>9, ClosedStays
      <3> QED BY <1>1, <3>1 DEF InWindow
    <2>10. ASSUME NEW n \in heard, InWindow(n) PROVE InWindow(n)'
      <3>1. n \in Minutes /\ DayOf(n) \in Nat
            BY <1>4, <1>8 DEF Scalars
      <3>2. CASE n \in Ms(ClosedBars(bars))
        <4>1. PICK x \in bars : x.m = n /\ x.confirmed
              BY <3>2 DEF Ms, ClosedBars
        <4>2. CASE W = bars /\ n = c.m
          <5>1. ~Older(c, x)
                BY <1>14, <4>1, <4>2 DEF At
          <5>2. c.confirmed
                BY <1>6, <4>1, <5>1 DEF Older
          <5> QED BY <2>2, <2>9, <4>2, <5>2
        <4>3. CASE W = bars /\ n # c.m
              BY <2>2, <2>9, <4>1, <4>3
        <4>4. CASE day < day'
          <5>1. DayOf(n) = day /\ day' \in Nat
                BY <1>6, <1>8, <1>9, <2>1, <4>1
          <5> QED BY <1>1, <4>4, <5>1 DEF InWindow
        <4> QED BY <2>7, <4>2, <4>3, <4>4
      <3>3. CASE DayOf(n) < day
        <4>1. day <= day' /\ day' \in Nat
              BY <1>6, <1>8, <1>9, <2>1, <2>7
        <4>2. DayOf(n) < day'
              BY <1>9, <3>1, <3>3, <4>1
        <4> QED BY <1>1, <4>2 DEF InWindow
      <3>4. CASE Crowded(Ms(bars), n)
        <4>1. PICK k \in Ms(bars) : k > n
              BY <1>7, <3>1, <3>4, CrowdedBySome
        <4>2. DayOf(k) = day /\ k \in Minutes
              BY <1>7, <1>9 DEF Ms
        <4>3. CASE day < day'
          <5>1. n <= k
                BY <3>1, <4>1, <4>2, MinutesAre
          <5>2. DayOf(n) <= day
                BY <3>1, <4>2, <5>1, DaysFollow
          <5>3. day' \in Nat
                BY <1>6, <1>8, <2>1
          <5>4. DayOf(n) < day'
                BY <1>9, <3>1, <4>3, <5>2, <5>3
          <5> QED BY <1>1, <5>4 DEF InWindow
        <4>4. CASE W = bars
          <5>1. Above(Ms(bars), n) \subseteq Above(Ms(S), n)
                BY <2>2, <4>4 DEF Above
          <5>2. Crowded(Ms(S), n)
                BY <1>7, <2>2, <3>1, <3>4, <5>1, MoreCrowded
          <5>3. Crowded(Ms(bars'), n)
                BY <2>2, <2>3, <3>1, <5>2, TrimmedCrowds
          <5> QED BY <1>1, <5>3 DEF InWindow
        <4> QED BY <2>7, <4>3, <4>4
      <3> QED BY <1>1, <2>10, <3>2, <3>3, <3>4 DEF InWindow
    <2>11. HeardKept'
          BY <1>12, <2>2, <2>8, <2>9, <2>10
    <2>12. PICK D : D = Due(op, pendBars)
          OBVIOUS
    <2>13. /\ OpsAgree' /\ D \subseteq Due(op', pendBars')
           /\ c.confirmed => c.m \in Due(op', pendBars')
           /\ D \in SUBSET Minutes /\ Due(op', pendBars') \in SUBSET Minutes
      <3>1. "live" \in Writers /\ Ms(pendBars') = Ms(pendBars) /\ Ms(pendBars') \in SUBSET Minutes
            BY <1>1, <1>4, CandlesAre DEF Writers, Windows, Window
      <3>2. CASE c.confirmed
        <4> PICK o : o = [step |-> "read", bars |-> {c}, cur |-> {}, obsolete |-> {}, day |-> 0]
            OBVIOUS
        <4>1. op' = [op EXCEPT !["live"] = o]
          <5>1. o = [Idle EXCEPT !.step = "read", !.bars = {c}]
                BY ReadsOne
          <5> QED BY <2>1, <3>2, <5>1
        <4>2. Window({c}) /\ Window({}) /\ {c} # {} /\ \A x \in {c} : x.confirmed
              BY <1>6, <3>2 DEF Window, OneEach
        <4>3. OpAgrees(o, "live", Ms(redisBars)) /\ Owed(o, "live") = Ms({c})
              BY ZenonT(60), <4>2, OpStarts
        <4>4. OpsAgree' /\ Due(op, pendBars) \subseteq Due(op', pendBars') /\ Owed(o, "live") \subseteq Due(op', pendBars')
              /\ Due(op, pendBars) \in SUBSET Minutes /\ Due(op', pendBars') \in SUBSET Minutes
              BY <1>1, <1>4, <1>5, <3>1, <4>1, <4>3, WriterStarts
        <4>5. c.m \in Ms({c})
              BY DEF Ms
        <4> QED BY <2>12, <4>3, <4>4, <4>5
      <3>3. CASE ~c.confirmed
        <4>1. op' = op
              BY <2>1, <3>3
        <4>2. D \in SUBSET Minutes
          <5>1. PICK E \in SUBSET Minutes :
                  /\ Due(op, pendBars) = Ms(pendBars) \cup E \cup Owed(op["live"], "live")
                  /\ Owed(op["live"], "live") \in SUBSET Minutes
                BY <1>4, <3>1, DueIs
          <5> QED BY <2>12, <3>1, <5>1
        <4> QED BY <1>1, <1>4, <2>12, <3>3, <4>1, <4>2 DEF OpsAgree
      <3> QED BY <1>6, <3>2, <3>3
    <2>14. WindowSaved'
      <3>1. Ms(redisBars) \in SUBSET Minutes
            BY <1>4, CandlesAre DEF Windows, Window
      <3>2. ASSUME NEW x \in ClosedBars(bars') PROVE Covered(Ms(redisBars), Due(op', pendBars'), x.m)
        <4>1. x \in W \cup {c} /\ x.confirmed
              BY <2>2, <2>3 DEF ClosedBars
        <4>2. CASE x = c
              BY <2>13, <4>1, <4>2 DEF Covered
        <4>3. CASE x \in W
          <5>1. Covered(Ms(redisBars), D, x.m) /\ x.m \in Minutes
                BY <1>1, <1>4, <1>7, <1>9, <2>12, <4>1, <4>3 DEF WindowSaved, ClosedBars
          <5> QED BY <2>13, <3>1, <5>1, MoreCovers
        <4> QED BY <4>1, <4>2, <4>3
      <3> QED BY <1>1, <3>2 DEF WindowSaved
    <2> QED BY <1>10, <2>5, <2>6, <2>11, <2>13, <2>14 DEF CandleInv
  <1> QED BY <1>13, <1>14

---------------------------------------------------------------------------
(* The flush and the writes.                                               *)

LEMMA QueueStays ==
    ASSUME Queue, UNCHANGED <<minute, pushed, waiting, events, buffer>>
    PROVE  Queue'
  BY DEF Queue

LEMMA WindowStaysSaved ==
    ASSUME WindowSaved, Windows, UNCHANGED <<life, bars>>,
           \A m \in Minutes : Covered(Ms(redisBars), Due(op, pendBars), m)
                 => Covered(Ms(redisBars'), Due(op', pendBars'), m)
    PROVE  WindowSaved'
  <1>1. \A x \in ClosedBars(bars) : x.m \in Minutes
        BY CandlesAre DEF Windows, Window, ClosedBars
  <1> QED BY <1>1 DEF WindowSaved

LEMMA GrowsToItself ==
    ASSUME NEW R \in SUBSET Minutes PROVE Grows(R, R)
  <1>1. \A n \in R : DayOf(n) \in Nat
        BY DaysFollow
  <1>2. \A n \in R : DayOf(n) >= DayOf(n)
        BY <1>1
  <1> QED BY <1>2 DEF Grows

LEMMA WriteStepKeeps ==
    ASSUME CandleInv, NEW w \in Writers, op[w] # Idle, NEW o, op' = [op EXCEPT ![w] = o], UNCHANGED memory,
           Window(pendBars'), \A x \in pendBars' : x.confirmed, Window(pendCur'),
           Window(redisBars'), Cardinality(redisBars') <= BarLimit, Window(redisCur'),
           lasting' \subseteq {"bars", "current"}, storeFaults' \in 0 .. MaxUpsets,
           Grows(Ms(redisBars), Ms(redisBars')), OpAgrees(o, w, Ms(redisBars')),
           \A m \in Minutes : Covered(Ms(redisBars), Due(op, pendBars), m)
                 => Covered(Ms(redisBars'), Due(op', pendBars'), m)
    PROVE  CandleInv'
  <1>1. UNCHANGED <<minute, pushed, connection, changes, life, day, load, waiting, events, buffer, bars, heard>>
        BY DEF memory
  <1>2. Scalars /\ Windows /\ Queue /\ OpsAgree /\ WindowSaved /\ HeardKept
        BY DEF CandleInv
  <1>3. Scalars'
        BY <1>1, <1>2 DEF Scalars
  <1>4. Windows'
        BY <1>1, <1>2 DEF Windows
  <1>5. Queue' /\ WindowSaved' /\ HeardKept'
        BY <1>1, <1>2, QueueStays, WindowStaysSaved, HeardStays
  <1>6. life' # "live" => (IF w = "worker" THEN o ELSE op["worker"]) = Idle
        BY <1>1, <1>2 DEF OpsAgree
  <1>7. Ms(redisBars) \in SUBSET Minutes /\ Ms(redisBars') \in SUBSET Minutes
        BY <1>2, CandlesAre DEF Windows, Window
  <1>8. OpsAgree'
        BY <1>2, <1>6, <1>7, OthersAgree
  <1> QED BY <1>3, <1>4, <1>5, <1>8 DEF CandleInv

(* A writer's other step: nothing of it goes to Redis.                     *)
LEMMA SameStepAgrees ==
    ASSUME NEW w \in Writers, NEW R \in SUBSET Minutes, NEW q, OpAgrees(q, w, R), NEW s \in {"read", "put",
           "current"}, NEW o,
           o = [q EXCEPT !.step = s]
    PROVE  /\ o \in OpType /\ o.step = s /\ o.bars = q.bars /\ o.cur = q.cur
           /\ o.obsolete = q.obsolete /\ o.day = q.day
           /\ s # "put" /\ (s = "read" => q.bars # {}) /\ (s = "current" => w # "live")
                /\ (w = "worker" /\ s = "current" => \A n \in Ms(q.bars) : Covered(R, {}, n)) => OpAgrees(o, w, R)
  <1>1. q \in OpType
        BY DEF OpAgrees
  <1>2. o \in OpType /\ o.step = s /\ o.bars = q.bars /\ o.cur = q.cur /\ o.obsolete = q.obsolete /\ o.day = q.day
        BY <1>1 DEF OpType
  <1> QED BY <1>2 DEF OpAgrees

LEMMA StartFlushKeeps == ASSUME CandleInv, StartFlush PROVE CandleInv'
  <1>1. /\ UNCHANGED <<minute, pushed, connection, changes, life, day, load, waiting, events, buffer, bars,
                       redisBars, redisCur, lasting, heard, storeFaults>>
        /\ op["flush"] = Idle /\ pendBars' = {} /\ pendCur' = {}
        /\ op' = [op EXCEPT !["flush"] = [Idle EXCEPT !.step = "current", !.bars = pendBars, !.cur = pendCur]]
        BY DEF StartFlush
  <1>2. Scalars /\ Windows /\ Queue /\ OpsAgree /\ WindowSaved /\ HeardKept
        BY DEF CandleInv
  <1> PICK o : o = [step |-> "current", bars |-> pendBars, cur |-> pendCur, obsolete |-> {}, day |-> 0]
      OBVIOUS
  <1>3. op' = [op EXCEPT !["flush"] = o]
    <2>1. o = [Idle EXCEPT !.step = "current", !.bars = pendBars, !.cur = pendCur]
          BY ReadsThree
    <2> QED BY <1>1, <2>1
  <1>4. OpAgrees(o, "flush", Ms(redisBars)) /\ Owed(o, "flush") = Ms(pendBars)
    <2>1. Window(pendBars) /\ Window(pendCur) /\ \A x \in pendBars : x.confirmed
          BY <1>2 DEF Windows
    <2> QED BY <2>1, OpStarts
  <1>5. Ms(pendBars') = {} /\ Window({})
        BY <1>1 DEF Ms, Window, OneEach
  <1>6. /\ OpsAgree' /\ Due(op, pendBars) \subseteq Due(op', pendBars')
        /\ Due(op, pendBars) \in SUBSET Minutes /\ Due(op', pendBars') \in SUBSET Minutes
    <2>2. "flush" \in Writers
          BY DEF Writers
    <2>3. Ms(pendBars) \subseteq Ms(pendBars') \cup Owed(o, "flush") /\ Ms(pendBars') \in SUBSET Minutes
          BY <1>4, <1>5
    <2>4. life' # "live" => (IF "flush" = "worker" THEN o ELSE op["worker"]) = Idle
          BY <1>1, <1>2 DEF OpsAgree
    <2> QED BY <1>1, <1>2, <1>3, <1>4, <2>2, <2>3, <2>4, WriterStarts
  <1>7. Ms(redisBars) \in SUBSET Minutes
        BY <1>2, CandlesAre DEF Windows, Window
  <1>8. \A m \in Minutes : Covered(Ms(redisBars), Due(op, pendBars), m)
              => Covered(Ms(redisBars'), Due(op', pendBars'), m)
        BY <1>1, <1>6, <1>7, MoreCovers
  <1>9. WindowSaved'
        BY <1>1, <1>2, <1>8, WindowStaysSaved
  <1>10. Queue' /\ HeardKept'
        BY <1>1, <1>2, QueueStays, HeardStays
  <1>11. Scalars'
        BY <1>1, <1>2 DEF Scalars
  <1>12. Windows'
        BY <1>1, <1>2, <1>5 DEF Windows
  <1> QED BY <1>6, <1>9, <1>10, <1>11, <1>12 DEF CandleInv

LEMMA WriteCurrentKeeps == ASSUME CandleInv, NEW w \in Writers, WriteCurrent(w) PROVE CandleInv'
  <1>1. /\ op[w].step = "current" /\ Advance(w, "current")
        /\ IF op[w].cur = {} THEN UNCHANGED <<redisCur, lasting>>
           ELSE redisCur' = op[w].cur /\ lasting' = lasting \cup {"current"}
        /\ UNCHANGED <<memory, pendCur, redisBars>> /\ storeFaults' = storeFaults
        BY DEF WriteCurrent, NoFault
  <1>2. Scalars /\ Windows /\ OpsAgree
        BY DEF CandleInv
  <1>3. PICK R : R = Ms(redisBars)
        OBVIOUS
  <1>4. R \in SUBSET Minutes /\ OpAgrees(op[w], w, R) /\ w # "live" /\ op[w] # Idle
        BY <1>1, <1>2, <1>3, CandlesAre, IdleAgrees DEF Windows, Window, OpsAgree, OpAgrees
  <1>5. PICK E \in SUBSET Minutes :
          /\ Due(op, pendBars) = Ms(pendBars) \cup E \cup Owed(op[w], w)
          /\ Owed(op[w], w) \in SUBSET Minutes /\ Ms(pendBars) \in SUBSET Minutes
          /\ \A P, p, Q : Q = [op EXCEPT ![w] = p] => Due(Q, P) = Ms(P) \cup E \cup Owed(p, w)
        BY <1>2, DueIs
  <1>6. \E o : /\ op' = [op EXCEPT ![w] = o] /\ OpAgrees(o, w, R)
               /\ pendBars' \in {pendBars, {x \in pendBars : x.m \notin Ms(op[w].bars)}}
               /\ \A m \in Minutes : Covered(R, Due(op, pendBars), m)
                        => Covered(R, Ms(pendBars') \cup E \cup Owed(o, w), m)
    <2>1. CASE w = "flush" /\ op[w].bars # {}
      <3> PICK o : o = [op[w] EXCEPT !.step = "read"]
          OBVIOUS
      <3>1. op' = [op EXCEPT ![w] = o] /\ pendBars' = pendBars
            BY <1>1, <2>1 DEF Advance, After
      <3>2. OpAgrees(o, w, R) /\ o.bars = op[w].bars
            BY <1>4, <2>1, SameStepAgrees
      <3>3. Owed(o, w) = Owed(op[w], w)
            BY <2>1, <3>2 DEF Owed
      <3> QED BY ZenonT(60), <1>5, <3>1, <3>2, <3>3
    <2>2. CASE w = "flush" /\ op[w].bars = {}
      <3>1. op' = [op EXCEPT ![w] = Idle] /\ pendBars' = pendBars
            BY <1>1, <2>2 DEF Advance, After
      <3>2. Owed(op[w], w) = {}
            BY <2>2 DEF Owed, Ms
      <3>3. OpAgrees(Idle, w, R) /\ Owed(Idle, w) = {}
            BY IdleAgrees
      <3>4. Due(op, pendBars) = Ms(pendBars') \cup E \cup Owed(Idle, w)
            BY <1>5, <3>1, <3>2, <3>3
      <3> QED BY <3>1, <3>3, <3>4
    <2>3. CASE w = "worker"
      <3>1. op' = [op EXCEPT ![w] = Idle] /\ pendBars' = {x \in pendBars : x.m \notin Ms(op[w].bars)}
            BY <1>1, <2>3 DEF Advance, After
      <3>2. Owed(op[w], w) = {} /\ \A n \in Ms(op[w].bars) : Covered(R, {}, n)
            BY <1>1, <1>4, <2>3 DEF Owed, OpAgrees
      <3> PICK D : D = Ms(pendBars) \cup E
          OBVIOUS
      <3> PICK F : F = Ms(pendBars') \cup E
          OBVIOUS
      <3>3. D \in SUBSET Minutes /\ F \in SUBSET Minutes /\ \A n \in D \ F : n \in Ms(op[w].bars)
            BY <1>5, <3>1 DEF Ms
      <3>4. \A m \in Minutes : Covered(R, D, m) => Covered(R, F, m)
            BY <1>4, <3>2, <3>3, SavedIsNotDue
      <3>5. OpAgrees(Idle, w, R) /\ Owed(Idle, w) = {}
            BY IdleAgrees
      <3>6. Due(op, pendBars) = D /\ Ms(pendBars') \cup E \cup Owed(Idle, w) = F
            BY <1>5, <3>2, <3>5
      <3>7. /\ pendBars' \in {pendBars, {x \in pendBars : x.m \notin Ms(op[w].bars)}}
            /\ \A m \in Minutes : Covered(R, Due(op, pendBars), m)
                     => Covered(R, Ms(pendBars') \cup E \cup Owed(Idle, w), m)
            BY <3>1, <3>4, <3>6
      <3> QED BY <3>1, <3>5, <3>7
    <2> QED BY <1>4, <2>1, <2>2, <2>3 DEF Writers
  <1>7. PICK o : /\ op' = [op EXCEPT ![w] = o] /\ OpAgrees(o, w, R)
                 /\ pendBars' \in {pendBars, {x \in pendBars : x.m \notin Ms(op[w].bars)}}
                 /\ \A m \in Minutes : Covered(R, Due(op, pendBars), m)
                          => Covered(R, Ms(pendBars') \cup E \cup Owed(o, w), m)
        BY <1>6
  <1>8. Window(pendBars') /\ (\A x \in pendBars' : x.confirmed) /\ Window(redisCur') /\ lasting' \subseteq {"bars", "current"}
    <2>1. Window(op[w].cur) /\ Window(redisCur) /\ Window(pendBars) /\ \A x \in pendBars : x.confirmed
          BY <1>2, <1>4 DEF Windows, OpAgrees
    <2> QED BY <1>1, <1>2, <1>7, <2>1 DEF Window, OneEach, Scalars
  <1>9. /\ Window(pendCur') /\ Window(redisBars') /\ Cardinality(redisBars') <= BarLimit
        /\ storeFaults' \in 0 .. MaxUpsets /\ Ms(redisBars') = R
        BY <1>1, <1>2, <1>3 DEF Windows, Scalars
  <1>10. \A m \in Minutes : Covered(Ms(redisBars), Due(op, pendBars), m)
               => Covered(Ms(redisBars'), Due(op', pendBars'), m)
        BY <1>3, <1>5, <1>7, <1>9
  <1>11. Grows(Ms(redisBars), Ms(redisBars')) /\ OpAgrees(o, w, Ms(redisBars'))
        BY <1>3, <1>4, <1>7, <1>9, GrowsToItself
  <1>12. UNCHANGED memory
        BY <1>1
  <1> QED BY <1>4, <1>7, <1>8, <1>9, <1>10, <1>11, <1>12, WriteStepKeeps

LEMMA ReadRedisKeeps == ASSUME CandleInv, NEW w \in Writers, ReadRedis(w) PROVE CandleInv'
  <1>1. Scalars /\ Windows /\ OpsAgree
        BY DEF CandleInv
  <1> PICK M : M = Ms(redisBars \cup op[w].bars)
      OBVIOUS
  <1> PICK d : d = DayOf(Max(M))
      OBVIOUS
  <1>2. /\ op[w].step = "read"
        /\ op' = [op EXCEPT ![w].step = "put", ![w].day = d,
                            ![w].obsolete = {m \in Ms(redisBars) : DayOf(m) < d}]
        /\ UNCHANGED <<memory, pendBars, pendCur, redisBars, redisCur, lasting>> /\ storeFaults' = storeFaults
        BY DEF ReadRedis, NoFault
  <1>3. PICK R : R = Ms(redisBars)
        OBVIOUS
  <1>4. PICK q : q = op[w]
        OBVIOUS
  <1>5. /\ R \in SUBSET Minutes /\ OpAgrees(q, w, R) /\ q \in OpType /\ q # Idle /\ q.bars # {}
        /\ Ms(q.bars) \in SUBSET Minutes /\ q.bars \in SUBSET Candles
        /\ op \in [Writers -> OpType] /\ redisBars \in SUBSET Candles
    <2>1. /\ OpAgrees(q, w, R) /\ op \in [Writers -> OpType] /\ redisBars \in SUBSET Candles
          /\ R \in SUBSET Minutes
          BY <1>1, <1>3, <1>4, CandlesAre DEF OpsAgree, Windows, Window
    <2>2. q.bars # {} /\ q.bars \in SUBSET Candles /\ q \in OpType
          BY <1>2, <1>4, <2>1 DEF OpAgrees, OpType
    <2> QED BY <1>2, <1>4, <2>1, <2>2, CandlesAre, IdleAgrees
  <1>6. /\ M \in SUBSET Minutes /\ M # {} /\ M = R \cup Ms(q.bars)
    <2>1. M = R \cup Ms(q.bars)
          BY <1>3, <1>4 DEF Ms
    <2>2. Ms(q.bars) # {}
          BY <1>5 DEF Ms
    <2> QED BY <1>5, <2>1, <2>2
  <1>7. /\ d \in 0 .. DayOf(LastMinute) /\ \A n \in M : DayOf(n) <= d
        /\ \E n \in M : DayOf(n) >= d
    <2>1. Max(M) \in M /\ \A k \in M : k <= Max(M)
          BY <1>6, MaxIs
    <2>2. \A n \in M : DayOf(n) <= d /\ d \in Nat /\ d <= DayOf(LastMinute) /\ DayOf(LastMinute) \in Nat
          BY <1>6, <2>1, DaysFollow
    <2> QED BY <2>1, <2>2
  <1>a. PICK O : O = {m \in R : DayOf(m) < d}
      OBVIOUS
  <1>b. PICK q1 : q1 = [q EXCEPT !.step = "put"]
      OBVIOUS
  <1>c. PICK q2 : q2 = [q1 EXCEPT !.day = d]
      OBVIOUS
  <1>e. PICK o : o = [q2 EXCEPT !.obsolete = O]
      OBVIOUS
  <1>8. op' = [op EXCEPT ![w] = o]
        BY <1>2, <1>3, <1>4, <1>5, <1>a, <1>b, <1>c, <1>e
  <1>9. /\ o \in OpType /\ o.step = "put" /\ o.bars = q.bars /\ o.cur = q.cur /\ o.day = d /\ o.obsolete = O
    <2>1. q1 \in OpType /\ q1.step = "put" /\ q1.bars = q.bars /\ q1.cur = q.cur
          BY <1>5, <1>b DEF OpType
    <2>2. q2 \in OpType /\ q2.step = "put" /\ q2.bars = q.bars /\ q2.cur = q.cur /\ q2.day = d
          BY <1>7, <1>c, <2>1 DEF OpType
    <2>3. O \in SUBSET Minutes
          BY <1>5, <1>a
    <2> QED BY <1>e, <2>2, <2>3 DEF OpType
  <1>10. OpAgrees(o, w, R)
    <2>1. /\ \A n \in o.obsolete : DayOf(n) < o.day
          /\ \A n \in Ms(o.bars) : DayOf(n) <= o.day
          /\ \E n \in R \cup Ms(o.bars) : DayOf(n) >= o.day
          BY <1>6, <1>7, <1>9, <1>a
    <2> QED BY <1>5, <1>9, <2>1 DEF OpAgrees
  <1>11. \A m \in Minutes : Covered(Ms(redisBars), Due(op, pendBars), m)
               => Covered(Ms(redisBars'), Due(op', pendBars'), m)
    <2>1. PICK E \in SUBSET Minutes :
            /\ Due(op, pendBars) = Ms(pendBars) \cup E \cup Owed(op[w], w)
            /\ \A P, p, Q : Q = [op EXCEPT ![w] = p] => Due(Q, P) = Ms(P) \cup E \cup Owed(p, w)
          BY <1>1, DueIs
    <2>2. Owed(o, w) = Owed(op[w], w)
          BY <1>2, <1>4, <1>9 DEF Owed
    <2> PICK F : F = op'
        OBVIOUS
    <2>3. Due(F, pendBars) = Ms(pendBars) \cup E \cup Owed(o, w)
          BY <1>8, <2>1
    <2>4. Due(op', pendBars) = Due(op, pendBars)
          BY <2>1, <2>2, <2>3
    <2> QED BY <1>2, <2>4
  <1>12. /\ Window(pendBars') /\ (\A x \in pendBars' : x.confirmed) /\ Window(pendCur') /\ Window(redisBars')
         /\ Cardinality(redisBars') <= BarLimit /\ Window(redisCur') /\ lasting' \subseteq {"bars", "current"}
         /\ storeFaults' \in 0 .. MaxUpsets
        BY <1>1, <1>2 DEF Windows, Scalars
  <1>13. Grows(Ms(redisBars), Ms(redisBars')) /\ OpAgrees(o, w, Ms(redisBars')) /\ op[w] # Idle /\ UNCHANGED memory
        BY <1>2, <1>3, <1>4, <1>5, <1>10, GrowsToItself
  <1> QED BY <1>8, <1>11, <1>12, <1>13, WriteStepKeeps

(* A set of pending minutes that is trimmed covers what it did.            *)
LEMMA TrimmedCovers ==
    ASSUME NEW R \in SUBSET Minutes, NEW X \in SUBSET Minutes, NEW Y \in SUBSET Minutes, NEW m \in Minutes,
           Covered(R, X \cup Y, m)
    PROVE  Covered(R, Trimmed(X) \cup Y, m)
  <1>1. Trimmed(X) \in SUBSET Minutes /\ R \cup Y \in SUBSET Minutes
        BY DEF Trimmed
  <1>2. CASE m \in X /\ m \notin Trimmed(X)
    <2>1. Crowded(Trimmed(X), m)
          BY <1>2, DroppedIsCrowded
    <2>2. Above(Trimmed(X), m) \subseteq Above(R \cup (Trimmed(X) \cup Y), m)
          /\ R \cup (Trimmed(X) \cup Y) \in SUBSET Minutes
          BY <1>1 DEF Above
    <2> QED BY <1>1, <2>1, <2>2, MoreCrowded DEF Covered
  <1>3. CASE Crowded(R \cup (X \cup Y), m)
    <2>1. R \cup (X \cup Y) = X \cup (R \cup Y) /\ R \cup (Trimmed(X) \cup Y) = Trimmed(X) \cup (R \cup Y)
          OBVIOUS
    <2>2. Crowded(Trimmed(X) \cup (R \cup Y), m)
          BY <1>1, <1>3, <2>1, StillCrowded
    <2> QED BY <2>1, <2>2 DEF Covered
  <1> QED BY <1>2, <1>3 DEF Covered

LEMMA WriteBarsKeeps == ASSUME CandleInv, NEW w \in Writers, WriteBars(w) PROVE CandleInv'
  <1>1. /\ op[w].step = "put" /\ Advance(w, "put")
        /\ redisBars' = Upserted(w) /\ lasting' = lasting \cup {"bars"}
        /\ UNCHANGED <<memory, pendCur, redisCur>> /\ storeFaults' = storeFaults
        BY DEF WriteBars, NoFault
  <1>2. Scalars /\ Windows /\ OpsAgree
        BY DEF CandleInv
  <1>3. PICK R : R = Ms(redisBars)
        OBVIOUS
  <1>4. PICK B : B = Ms(op[w].bars)
        OBVIOUS
  <1>5. PICK T : T = Ms(Upserted(w))
        OBVIOUS
  <1>6. R \in SUBSET Minutes /\ OpAgrees(op[w], w, R) /\ op[w] # Idle /\ B \in SUBSET Minutes /\ T = Ms(redisBars')
    <2>1. R \in SUBSET Minutes /\ OpAgrees(op[w], w, R) /\ op[w] # Idle
          BY <1>1, <1>2, <1>3, CandlesAre, IdleAgrees DEF Windows, Window, OpsAgree
    <2>2. op[w].bars \in SUBSET Candles
          BY <2>1 DEF OpAgrees, OpType
    <2> QED BY <1>1, <1>4, <1>5, <2>1, <2>2, CandlesAre
  <1>7. /\ Window(Upserted(w)) /\ Cardinality(Upserted(w)) <= BarLimit /\ T \in SUBSET Minutes
        /\ \A D, E \in SUBSET Minutes : D \subseteq E \cup B =>
             \A m \in Minutes : Covered(R, D \cup B, m) => Covered(T, E, m)
        /\ Grows(R, T)
        BY ZenonT(60), <1>1, <1>2, <1>3, <1>4, <1>5, UpsertedIs
  <1>8. PICK E \in SUBSET Minutes :
          /\ Due(op, pendBars) = Ms(pendBars) \cup E \cup Owed(op[w], w)
          /\ Ms(pendBars) \in SUBSET Minutes
          /\ \A P, p, Q : Q = [op EXCEPT ![w] = p] => Due(Q, P) = Ms(P) \cup E \cup Owed(p, w)
        BY <1>2, DueIs
  <1>9. PICK D : D = Ms(pendBars) \cup E
        OBVIOUS
  <1>10. Due(op, pendBars) = D \cup B /\ D \in SUBSET Minutes
        BY <1>1, <1>4, <1>8, <1>9 DEF Owed
  <1>11. \E o : /\ op' = [op EXCEPT ![w] = o] /\ OpAgrees(o, w, T)
                /\ pendBars' \in {pendBars, {x \in pendBars : x.m \notin B}}
                /\ Owed(o, w) = {}
    <2>1. CASE w = "worker" /\ op[w].cur # {}
      <3>1. PICK o : o = [op[w] EXCEPT !.step = "current"]
            OBVIOUS
      <3>2. op' = [op EXCEPT ![w] = o] /\ pendBars' = pendBars
            BY <1>1, <2>1, <3>1 DEF Advance, After
      <3>3. \A n \in B : Covered(T, {}, n)
        <4>1. {} \in SUBSET Minutes /\ {} \subseteq {} \cup B
              OBVIOUS
        <4>2. \A m \in Minutes : Covered(R, {} \cup B, m) => Covered(T, {}, m)
              BY <1>7, <4>1
        <4>3. \A n \in B : n \in Minutes /\ Covered(R, {} \cup B, n)
              BY <1>6 DEF Covered
        <4> QED BY <4>2, <4>3
      <3>4. OpAgrees(op[w], w, T)
            BY <1>6, <1>7, OpAgreesStays
      <3>5. OpAgrees(o, w, T) /\ o.step = "current"
            BY <1>4, <1>7, <2>1, <3>1, <3>3, <3>4, SameStepAgrees
      <3>6. Owed(o, w) = {}
            BY <2>1, <3>5 DEF Owed
      <3> QED BY <3>2, <3>5, <3>6
    <2>2. CASE ~(w = "worker" /\ op[w].cur # {})
      <3>1. op' = [op EXCEPT ![w] = Idle] /\ pendBars' \in {pendBars, {x \in pendBars : x.m \notin B}}
            BY <1>1, <1>4, <2>2 DEF Advance, After
      <3>2. OpAgrees(Idle, w, T) /\ Owed(Idle, w) = {}
            BY IdleAgrees
      <3> QED BY <3>1, <3>2
    <2> QED BY <2>1, <2>2
  <1>12. PICK o : /\ op' = [op EXCEPT ![w] = o] /\ OpAgrees(o, w, T)
                  /\ pendBars' \in {pendBars, {x \in pendBars : x.m \notin B}}
                  /\ Owed(o, w) = {}
        BY <1>11
  <1>13. PICK F : F = Ms(pendBars') \cup E
        OBVIOUS
  <1>14. Due(op', pendBars') = F
    <2>1. op' = [op EXCEPT ![w] = o]
          BY <1>12
    <2>2. Due(op', pendBars') = Ms(pendBars') \cup E \cup Owed(o, w)
          BY <1>8, <2>1
    <2> QED BY <1>12, <1>13, <2>2
  <1>15. F \in SUBSET Minutes /\ D \subseteq F \cup B
        BY <1>8, <1>9, <1>12, <1>13 DEF Ms
  <1>16. \A m \in Minutes : Covered(R, D \cup B, m) => Covered(T, F, m)
        BY <1>7, <1>10, <1>15
  <1>17. \A m \in Minutes : Covered(Ms(redisBars), Due(op, pendBars), m)
               => Covered(Ms(redisBars'), Due(op', pendBars'), m)
        BY <1>3, <1>6, <1>10, <1>14, <1>16
  <1>18. Window(pendBars') /\ (\A x \in pendBars' : x.confirmed) /\ lasting' \subseteq {"bars", "current"}
    <2>1. Window(pendBars) /\ \A x \in pendBars : x.confirmed
          BY <1>2 DEF Windows
    <2> QED BY <1>1, <1>2, <1>12, <2>1 DEF Window, OneEach, Scalars
  <1>19. /\ Window(pendCur') /\ Window(redisCur') /\ storeFaults' \in 0 .. MaxUpsets
         /\ Window(redisBars') /\ Cardinality(redisBars') <= BarLimit
        BY <1>1, <1>2, <1>7 DEF Windows, Scalars
  <1>20. Grows(Ms(redisBars), Ms(redisBars')) /\ OpAgrees(o, w, Ms(redisBars')) /\ UNCHANGED memory
        BY <1>1, <1>3, <1>6, <1>7, <1>12
  <1> QED BY <1>6, <1>12, <1>17, <1>18, <1>19, <1>20, WriteStepKeeps

LEMMA WriteRaisesKeeps == ASSUME CandleInv, NEW w \in Writers, WriteRaises(w) PROVE CandleInv'
  <1>1. /\ op[w].step # "idle" /\ StoreFault
        /\ op' = [op EXCEPT ![w] = Idle]
        /\ pendBars' = PendingBars(pendBars, op[w].bars)
        /\ pendCur' = IF w = "flush" /\ pendCur = {} THEN op[w].cur ELSE pendCur
        /\ UNCHANGED memory
        BY DEF WriteRaises
  <1>0. /\ redisBars' = redisBars \/ (op[w].step = "put" /\ redisBars' = Upserted(w))
        /\ redisCur' \in {redisCur, op[w].cur}
        /\ lasting' \in {lasting, lasting \cup {"bars"}, lasting \cup {"current"}}
    <2>1. \/ UNCHANGED <<redisBars, redisCur, lasting>>
          \/ /\ op[w].step = "put"
             /\ redisBars' = Upserted(w) /\ lasting' = lasting \cup {"bars"} /\ UNCHANGED redisCur
          \/ /\ op[w].step = "current" /\ op[w].cur # {}
             /\ redisCur' = op[w].cur /\ lasting' = lasting \cup {"current"} /\ UNCHANGED redisBars
          BY DEF WriteRaises
    <2> QED BY <2>1
  <1>2. Scalars /\ Windows /\ OpsAgree
        BY DEF CandleInv
  <1>3. PICK R : R = Ms(redisBars)
        OBVIOUS
  <1>4. PICK B : B = Ms(op[w].bars)
        OBVIOUS
  <1>5. PICK T : T = Ms(redisBars')
        OBVIOUS
  <1>6. PICK X : X = Ms(pendBars) \cup B
        OBVIOUS
  <1>7. /\ R \in SUBSET Minutes /\ OpAgrees(op[w], w, R) /\ op[w] # Idle
        /\ op[w].bars \in SUBSET Candles /\ OneEach(op[w].bars) /\ \A x \in op[w].bars : x.confirmed
        BY <1>1, <1>2, <1>3, CandlesAre, IdleAgrees DEF Windows, Window, OpsAgree, OpAgrees
  <1>8. /\ pendBars \in SUBSET Candles /\ OneEach(pendBars) /\ \A x \in pendBars : x.confirmed
        BY <1>2 DEF Windows, Window
  <1>9. /\ pendBars' \in SUBSET Candles /\ OneEach(pendBars') /\ \A x \in pendBars' : x \in pendBars \cup op[w].bars
        /\ Ms(pendBars') = Trimmed(X)
    <2>1. PICK N : N = op[w].bars
          OBVIOUS
    <2>2. PICK P : P = pendBars
          OBVIOUS
    <2>3. P \in SUBSET Candles /\ N \in SUBSET Candles /\ OneEach(P) /\ OneEach(N) /\ \A x \in N : x.confirmed
          BY <1>7, <1>8, <2>1, <2>2
    <2>4. /\ PendingBars(P, N) \in SUBSET Candles /\ OneEach(PendingBars(P, N))
          /\ \A x \in PendingBars(P, N) : x \in P \cup N
          /\ Ms(PendingBars(P, N)) = Trimmed(Ms(P) \cup Ms(N))
          BY <2>3, PendingIs
    <2>5. pendBars' = PendingBars(P, N) /\ X = Ms(P) \cup Ms(N)
          BY <1>1, <1>4, <1>6, <2>1, <2>2
    <2> QED BY <2>1, <2>2, <2>4, <2>5
  <1>10. Window(pendBars') /\ \A x \in pendBars' : x.confirmed
        BY <1>7, <1>8, <1>9 DEF Window
  <1>11. B \in SUBSET Minutes /\ X \in SUBSET Minutes
        BY <1>4, <1>6, <1>7, <1>8, CandlesAre
  <1>12. PICK E \in SUBSET Minutes :
          /\ Due(op, pendBars) = Ms(pendBars) \cup E \cup Owed(op[w], w)
          /\ Owed(op[w], w) \in SUBSET Minutes /\ Ms(pendBars) \in SUBSET Minutes
          /\ \A P, p, Q : Q = [op EXCEPT ![w] = p] => Due(Q, P) = Ms(P) \cup E \cup Owed(p, w)
        BY <1>2, DueIs
  <1>13. Due(op', pendBars') = Trimmed(X) \cup E
    <2>1. op' = [op EXCEPT ![w] = Idle] /\ Owed(Idle, w) = {}
          BY <1>1, IdleAgrees
    <2>2. Due(op', pendBars') = Ms(pendBars') \cup E \cup Owed(Idle, w)
          BY <1>12, <2>1
    <2> QED BY <1>9, <2>1, <2>2
  <1>14. \A m \in Minutes : Covered(R, Due(op, pendBars), m) => Covered(R, X \cup E, m)
    <2>1. Owed(op[w], w) \subseteq B
          BY <1>4 DEF Owed
    <2>2. Due(op, pendBars) \subseteq X \cup E /\ Due(op, pendBars) \in SUBSET Minutes /\ X \cup E \in SUBSET Minutes
          BY <1>6, <1>11, <1>12, <2>1
    <2> QED BY <1>7, <2>2, MoreCovers
  <1>15. /\ Window(redisBars') /\ Cardinality(redisBars') <= BarLimit /\ T \in SUBSET Minutes /\ Grows(R, T)
         /\ \A m \in Minutes : Covered(R, X \cup E, m) => Covered(T, X \cup E, m)
    <2>1. CASE redisBars' = redisBars
          BY <1>2, <1>3, <1>5, <1>7, <2>1, GrowsToItself DEF Windows
    <2>2. CASE op[w].step = "put" /\ redisBars' = Upserted(w)
      <3>1. /\ Window(Upserted(w)) /\ Cardinality(Upserted(w)) <= BarLimit /\ T \in SUBSET Minutes
            /\ \A D, F \in SUBSET Minutes : D \subseteq F \cup B =>
                 \A m \in Minutes : Covered(R, D \cup B, m) => Covered(T, F, m)
            /\ Grows(R, T)
            BY ZenonT(60), <1>2, <1>3, <1>4, <1>5, <2>2, UpsertedIs
      <3>2. X \cup E \in SUBSET Minutes /\ X \cup E \subseteq (X \cup E) \cup B /\ (X \cup E) \cup B = X \cup E
            BY <1>6, <1>11
      <3>3. \A m \in Minutes : Covered(R, (X \cup E) \cup B, m) => Covered(T, X \cup E, m)
            BY <3>1, <3>2
      <3> QED BY <2>2, <3>1, <3>2, <3>3
    <2> QED BY <1>0, <2>1, <2>2
  <1>16. \A m \in Minutes : Covered(T, X \cup E, m) => Covered(T, Trimmed(X) \cup E, m)
        BY <1>11, <1>15, TrimmedCovers
  <1>17. \A m \in Minutes : Covered(Ms(redisBars), Due(op, pendBars), m)
               => Covered(Ms(redisBars'), Due(op', pendBars'), m)
        BY <1>3, <1>5, <1>13, <1>14, <1>15, <1>16
  <1>18. /\ Window(pendCur') /\ Window(redisCur') /\ lasting' \subseteq {"bars", "current"}
         /\ storeFaults' \in 0 .. MaxUpsets
    <2>1. Window(op[w].cur) /\ Window(pendCur) /\ Window(redisCur) /\ lasting \subseteq {"bars", "current"}
          BY <1>2, <1>7 DEF OpAgrees, Windows, Scalars
    <2>2. storeFaults' \in 0 .. MaxUpsets
          BY <1>1, <1>2, UpsetsStay
    <2> QED BY <1>0, <1>1, <2>1, <2>2
  <1>19. Grows(Ms(redisBars), Ms(redisBars')) /\ OpAgrees(Idle, w, Ms(redisBars')) /\ UNCHANGED memory
        BY <1>1, <1>3, <1>5, <1>15, IdleAgrees
  <1> QED BY <1>1, <1>7, <1>10, <1>15, <1>17, <1>18, <1>19, WriteStepKeeps

---------------------------------------------------------------------------
(* The worker.                                                             *)

LEMMA NoCandles == Window({}) /\ IsFiniteSet({}) /\ Cardinality({}) = 0 /\ Ms({}) = {} /\ Cardinality({}) <= BarLimit
  BY FS_EmptySet, StoreAssumption DEF Window, OneEach, Ms

(* The worker has nothing under way in a life that is not live.            *)
LEMMA SubscribeKeeps == ASSUME CandleInv, Subscribe PROVE CandleInv'
  <1>1. /\ UNCHANGED <<minute, pushed, connection, changes, day, waiting, events, buffer, bars, pendBars, pendCur,
                       op, redisBars, redisCur, lasting, heard, storeFaults>>
        /\ op["worker"] = Idle /\ life \in {"pending", "removed"} /\ life' = "warming"
        /\ load' = [step |-> "cache", bars |-> {}]
        BY DEF Subscribe, WorkerFree
  <1>2. Scalars /\ Windows /\ Queue /\ OpsAgree /\ WindowSaved /\ HeardKept
        BY DEF CandleInv
  <1>3. heard = {}
        BY <1>1, <1>2 DEF HeardKept, Subscribed
  <1>4. Scalars' /\ Queue' /\ OpsAgree' /\ WindowSaved' /\ HeardKept'
        BY <1>1, <1>2, <1>3, QueueStays, OpsStay, SavedStays, NothingHeard DEF Scalars
  <1>5. Windows'
        BY <1>1, <1>2, WindowsStay
  <1> QED BY <1>4, <1>5 DEF CandleInv

LEMMA LoadKeeps ==
    ASSUME CandleInv, UNCHANGED <<minute, pushed, connection, changes, life, day, waiting, events, buffer,
           bars, pendBars,
                                  pendCur, op, redisBars, redisCur, lasting, heard>>,
           storeFaults' \in 0 .. MaxUpsets, NEW s \in {"ready", "fetch"}, NEW S, Window(S), load' = [step |-> s, bars |-> S]
    PROVE  CandleInv'
  <1>1. Scalars /\ Windows /\ Queue /\ OpsAgree /\ WindowSaved /\ HeardKept
        BY DEF CandleInv
  <1>2. life' # "live" => op["worker"] = Idle
        BY <1>1 DEF OpsAgree
  <1>3. Scalars' /\ Queue' /\ OpsAgree' /\ WindowSaved' /\ HeardKept'
        BY <1>1, <1>2, QueueStays, OpsStay, SavedStays, HeardStays DEF Scalars
  <1>4. load' \in [step : {"none", "cache", "fetch", "ready"}, bars : SUBSET Candles] /\ OneEach(load'.bars)
        BY DEF Window
  <1>5. Windows'
        BY <1>1, <1>4 DEF Windows
  <1> QED BY <1>3, <1>5 DEF CandleInv

LEMMA LoadCacheKeeps == ASSUME CandleInv, LoadCache PROVE CandleInv'
  <1>1. UNCHANGED <<minute, pushed, connection, changes, life, day, waiting, events, buffer, bars, pendBars,
                    pendCur, op, redisBars, redisCur, lasting, heard>>
        BY DEF LoadCache
  <1>2. Window(redisBars) /\ Scalars
        BY DEF CandleInv, Windows
  <1>3. CASE load' = [step |-> IF CacheIsCurrent(redisBars) THEN "ready" ELSE "fetch", bars |-> redisBars] /\ NoFault
    <2> PICK s : s = IF CacheIsCurrent(redisBars) THEN "ready" ELSE "fetch"
        OBVIOUS
    <2>1. s \in {"ready", "fetch"} /\ load' = [step |-> s, bars |-> redisBars] /\ storeFaults' \in 0 .. MaxUpsets
          BY <1>2, <1>3, UpsetsStay
    <2> QED BY <1>1, <1>2, <2>1, LoadKeeps
  <1>4. CASE load' = [step |-> "fetch", bars |-> {}] /\ StoreFault
    <2>1. storeFaults' \in 0 .. MaxUpsets
          BY <1>2, <1>4, UpsetsStay
    <2> QED BY <1>1, <1>4, <2>1, NoCandles, LoadKeeps
  <1> QED BY <1>3, <1>4 DEF LoadCache

LEMMA LoadHistoryKeeps == ASSUME CandleInv, LoadHistory PROVE CandleInv'
  <1>1. UNCHANGED <<minute, pushed, connection, changes, life, day, waiting, events, buffer, bars, pendBars,
                    pendCur, op, redisBars, redisCur, lasting, heard>>
        BY DEF LoadHistory
  <1>2. Scalars /\ minute \in Minutes /\ pushed \in 0 .. MaxPushes /\ minute \in Nat
        /\ load.bars \in SUBSET Candles /\ OneEach(load.bars)
        BY MinutesAre DEF CandleInv, Windows, Scalars
  <1> PICK done : done = {[m |-> m, confirmed |-> TRUE, at |-> pushed] :
                            m \in {n \in Minutes : n < minute /\ DayOf(n) = DayOf(minute)}}
      OBVIOUS
  <1> PICK open : open = {[m |-> minute, confirmed |-> FALSE, at |-> pushed]}
      OBVIOUS
  <1>3. CASE \E history \in {done, done \cup open} :
               load' = [step |-> "ready", bars |-> history \cup {x \in load.bars : x.m \notin Ms(history)}] /\ NoFault
    <2> PICK history \in {done, done \cup open} :
               load' = [step |-> "ready", bars |-> history \cup {x \in load.bars : x.m \notin Ms(history)}] /\ NoFault
        BY <1>3
    <2>1. ASSUME NEW x \in done
          PROVE  x \in Candles /\ x.m < minute /\ x = [m |-> x.m, confirmed |-> TRUE, at |-> pushed]
      <3>1. PICK n \in Minutes : n < minute /\ x = [m |-> n, confirmed |-> TRUE, at |-> pushed]
            OBVIOUS
      <3>2. x.m = n
            BY <3>1
      <3>3. x \in Candles
            BY <1>2, <3>1 DEF Candles
      <3> QED BY <3>1, <3>2, <3>3
    <2>2. ASSUME NEW x \in open
          PROVE  x \in Candles /\ x.m = minute /\ x = [m |-> minute, confirmed |-> FALSE, at |-> pushed]
      <3>1. x = [m |-> minute, confirmed |-> FALSE, at |-> pushed]
            OBVIOUS
      <3>2. x \in Candles
            BY <1>2, <3>1 DEF Candles
      <3> QED BY <3>1, <3>2
    <2>3. ASSUME NEW x \in history, NEW y \in history, x.m = y.m PROVE x = y /\ x \in Candles
      <3>1. CASE x \in done /\ y \in done
            BY <2>1, <2>3, <3>1
      <3>2. CASE x \in open /\ y \in open
            BY <2>2, <3>2
      <3>3. CASE x \in done /\ y \in open
            BY <1>2, <2>1, <2>2, <2>3, <3>3
      <3>4. CASE x \in open /\ y \in done
            BY <1>2, <2>1, <2>2, <2>3, <3>4
      <3> QED BY <3>1, <3>2, <3>3, <3>4
    <2> PICK S : S = history \cup {x \in load.bars : x.m \notin Ms(history)}
        OBVIOUS
    <2>4. Window(S)
      <3>1. S \subseteq Candles
            BY <1>2, <2>3
      <3>2. OneEach(S)
            BY <1>2, <2>3 DEF OneEach, Ms
      <3> QED BY <3>1, <3>2 DEF Window
    <2>5. load' = [step |-> "ready", bars |-> S] /\ storeFaults' \in 0 .. MaxUpsets
          BY <1>2, UpsetsStay
    <2> QED BY <1>1, <2>4, <2>5, LoadKeeps
  <1>4. CASE load' = [step |-> "ready", bars |-> {}] /\ StoreFault
    <2>1. storeFaults' \in 0 .. MaxUpsets
          BY <1>2, <1>4, UpsetsStay
    <2> QED BY <1>1, <1>4, <2>1, NoCandles, LoadKeeps
  <1> QED BY <1>3, <1>4 DEF LoadHistory

LEMMA ReconnectKeeps == ASSUME CandleInv, Reconnect PROVE CandleInv'
  <1>1. /\ UNCHANGED <<minute, pushed, events, pendBars, op, redisBars, redisCur, lasting, storeFaults>>
        /\ op["worker"] = Idle /\ MoreUpsets /\ connection' = connection + 1 /\ changes' = changes + 1
        /\ life' = "pending" /\ day' = 0 /\ load' = [step |-> "none", bars |-> {}]
        /\ waiting' = {} /\ buffer' = {} /\ bars' = ClosedBars(bars) /\ pendCur' = {} /\ heard' = {}
        BY DEF Reconnect, WorkerFree
  <1>2. Scalars /\ Windows /\ Queue /\ OpsAgree /\ WindowSaved
        BY DEF CandleInv
  <1>3. Scalars'
    <2>1. changes' \in 0 .. MaxUpsets
          BY <1>1, <1>2, UpsetsStay
    <2>2. day' \in 0 .. DayOf(LastMinute) /\ connection' \in Nat
      <3>1. DayOf(LastMinute) \in Nat
        <4>1. minute \in Minutes
              BY <1>2 DEF Scalars
        <4> QED BY <4>1, DaysFollow
      <3> QED BY <1>1, <1>2, <3>1 DEF Scalars
    <2> QED BY <1>1, <1>2, <2>1, <2>2 DEF Scalars
  <1>4. Queue'
    <2>1. minute' \in Nat /\ minute <= minute'
          BY <1>1, <1>2, MinutesAre DEF Scalars
    <2>2. \A x \in buffer' : x \in buffer
          BY <1>1
    <2> QED BY <1>1, <1>2, <2>1, <2>2, QueueShrinks
  <1>5. OpsAgree' /\ WindowSaved' /\ HeardKept'
        BY <1>1, <1>2, OpsStay, SavedStays, NothingHeard
  <1>6. Windows'
        BY <1>1, <1>2, WindowsStay
  <1> QED BY <1>3, <1>4, <1>5, <1>6 DEF CandleInv

LEMMA StartRemovalKeeps == ASSUME CandleInv, StartRemoval PROVE CandleInv'
  <1>1. /\ UNCHANGED <<minute, pushed, connection, day, waiting, events, buffer, bars, pendBars, pendCur, op,
                       redisBars, redisCur, lasting, storeFaults>>
        /\ op["worker"] = Idle /\ MoreUpsets /\ changes' = changes + 1
        /\ life' = "removing" /\ load' = [step |-> "none", bars |-> {}] /\ heard' = {}
        BY DEF StartRemoval, WorkerFree
  <1>2. Scalars /\ Windows /\ Queue /\ OpsAgree /\ WindowSaved
        BY DEF CandleInv
  <1>3. Scalars'
    <2>1. changes' \in 0 .. MaxUpsets
          BY <1>1, <1>2, UpsetsStay
    <2> QED BY <1>1, <1>2, <2>1 DEF Scalars
  <1>4. Queue' /\ OpsAgree' /\ WindowSaved' /\ HeardKept'
        BY <1>1, <1>2, QueueStays, OpsStay, SavedStays, NothingHeard
  <1>5. Windows'
        BY <1>1, <1>2, WindowsStay
  <1> QED BY <1>3, <1>4, <1>5 DEF CandleInv

LEMMA ForgetKeeps == ASSUME CandleInv, Forget PROVE CandleInv'
  <1>1. /\ UNCHANGED <<minute, pushed, connection, changes, day, load, events, op, redisBars, redisCur, lasting,
                       heard, storeFaults>>
        /\ life = "removing" /\ life' = "forgotten"
        /\ waiting' = {} /\ buffer' = {} /\ bars' = {} /\ pendBars' = {} /\ pendCur' = {}
        BY DEF Forget
  <1>2. Scalars /\ Windows /\ Queue /\ OpsAgree /\ WindowSaved /\ HeardKept
        BY DEF CandleInv
  <1>3. heard = {} /\ op["worker"] = Idle
        BY <1>1, <1>2 DEF HeardKept, Subscribed, OpsAgree
  <1>4. Scalars' /\ OpsAgree' /\ HeardKept' /\ WindowSaved'
        BY <1>1, <1>2, <1>3, OpsStay, NothingHeard DEF Scalars, WindowSaved
  <1>5. Queue'
    <2>1. minute' \in Nat /\ minute <= minute'
          BY <1>1, <1>2, MinutesAre DEF Scalars
    <2>2. \A x \in buffer' : x \in buffer
          BY <1>1
    <2> QED BY <1>1, <1>2, <2>1, <2>2, QueueShrinks
  <1>6. Windows'
        BY <1>1, <1>2, NoCandles DEF Windows
  <1> QED BY <1>4, <1>5, <1>6 DEF CandleInv

LEMMA ExpireCacheKeeps == ASSUME CandleInv, ExpireCache PROVE CandleInv'
  <1>1. /\ UNCHANGED <<minute, pushed, connection, changes, day, load, waiting, events, buffer, bars, pendBars,
                       pendCur, op, redisBars, redisCur, heard>>
        /\ life = "forgotten" /\ life' = "removed" /\ lasting' \in {{}, lasting}
        /\ NoFault \/ StoreFault
        BY DEF ExpireCache
  <1>2. Scalars /\ Windows /\ Queue /\ OpsAgree /\ WindowSaved /\ HeardKept
        BY DEF CandleInv
  <1>3. heard = {} /\ op["worker"] = Idle
        BY <1>1, <1>2 DEF HeardKept, Subscribed, OpsAgree
  <1>4. storeFaults' \in 0 .. MaxUpsets
        BY <1>1, <1>2, UpsetsStay
  <1>5. Scalars' /\ Queue' /\ OpsAgree' /\ HeardKept' /\ WindowSaved'
        BY <1>1, <1>2, <1>3, <1>4, OpsStay, QueueStays, NothingHeard DEF Scalars, WindowSaved
  <1>6. Windows'
        BY <1>1, <1>2, WindowsStay
  <1> QED BY <1>5, <1>6 DEF CandleInv

LEMMA CacheExpiresKeeps == ASSUME CandleInv, CacheExpires PROVE CandleInv'
  <1>1. /\ UNCHANGED <<minute, pushed, connection, changes, life, day, load, waiting, events, buffer, bars, heard,
                       pendBars, pendCur, op, lasting, storeFaults>>
        /\ life = "removed" /\ redisBars' = {} /\ redisCur' = {} /\ \A w \in Writers : op[w] = Idle
        BY DEF CacheExpires, memory
  <1>2. Scalars /\ Windows /\ Queue /\ OpsAgree /\ HeardKept
        BY DEF CandleInv
  <1>3. heard = {}
        BY <1>1, <1>2 DEF HeardKept, Subscribed
  <1>4. Scalars' /\ Queue' /\ HeardKept' /\ WindowSaved'
        BY <1>1, <1>2, <1>3, QueueStays, NothingHeard DEF Scalars, WindowSaved
  <1>5. Windows'
        BY <1>1, <1>2, NoCandles DEF Windows
  <1>6. OpsAgree'
    <2>1. \A w \in Writers : OpAgrees(op'[w], w, Ms(redisBars'))
          BY <1>1, IdleAgrees
    <2>2. op' \in [Writers -> OpType] /\ op'["worker"] = Idle
          BY <1>1, <1>2 DEF OpsAgree, Writers
    <2> QED BY <2>1, <2>2 DEF OpsAgree
  <1> QED BY <1>4, <1>5, <1>6 DEF CandleInv

LEMMA ApplyWarmupKeeps == ASSUME CandleInv, ApplyWarmup PROVE CandleInv'
  <1>1. /\ UNCHANGED <<minute, pushed, connection, changes, waiting, events, pendBars, redisBars, redisCur,
                       lasting, heard, storeFaults>>
        /\ op["worker"] = Idle /\ life = "warming" /\ life' = "live"
        /\ load' = [step |-> "none", bars |-> {}] /\ buffer' = {}
        BY DEF ApplyWarmup, WorkerFree
  <1>2. PICK S : S = Merged(load.bars, buffer)
        OBVIOUS
  <1>3. PICK merged : merged = Trim(S)
        OBVIOUS
  <1>4. PICK last : last = IF merged = {} THEN DayOf(minute) ELSE DayOf(Max(Ms(merged)))
        OBVIOUS
  <1>5. PICK now : now = {x \in merged : DayOf(x.m) = last}
        OBVIOUS
  <1>6. PICK o : o = IF now = {} THEN Idle
                     ELSE [Idle EXCEPT !.step = IF ClosedBars(now) = {} THEN "current" ELSE "read",
                                       !.bars = ClosedBars(now), !.cur = Newest(now)]
        OBVIOUS
  <1>7. /\ day' = last /\ bars' = now /\ pendCur' = Newest(now)
        /\ op' = [op EXCEPT !["worker"] = o]
        BY <1>2, <1>3, <1>4, <1>5, <1>6 DEF ApplyWarmup
  <1>8. Scalars /\ Windows /\ Queue /\ OpsAgree /\ HeardKept
        BY DEF CandleInv
  <1>9. /\ load.bars \in SUBSET Candles /\ OneEach(load.bars) /\ buffer \in SUBSET Candles /\ OneEach(buffer)
        /\ minute \in Minutes /\ heard \in SUBSET Minutes
        BY <1>8 DEF Windows, Window, Scalars
  <1>10. /\ S \in SUBSET Candles /\ OneEach(S)
         /\ \A x \in buffer : x.confirmed => \E y \in S : y.m = x.m /\ y.confirmed
        BY <1>2, <1>9, MergedIs
  <1>11. /\ merged \in SUBSET S /\ OneEach(merged) /\ Cardinality(merged) <= BarLimit
         /\ merged \in SUBSET Candles /\ IsFiniteSet(merged) /\ Ms(merged) \in SUBSET Minutes
    <2>1. merged \in SUBSET S /\ OneEach(merged) /\ Cardinality(merged) <= BarLimit
          BY <1>3, <1>10, TrimIs
    <2> QED BY <1>10, <2>1, OneEachIsFinite, CandlesAre
  <1>12. last \in 0 .. DayOf(LastMinute) /\ last \in Nat /\ \A n \in Ms(merged) : n \in Minutes /\ DayOf(n) \in Nat /\ DayOf(n) <= last
    <2>1. CASE merged = {}
      <3>1. Ms(merged) = {}
            BY <2>1 DEF Ms
      <3>2. DayOf(minute) \in Nat /\ DayOf(minute) <= DayOf(LastMinute) /\ DayOf(LastMinute) \in Nat
            BY <1>9, DaysFollow
      <3> QED BY <1>4, <2>1, <3>1, <3>2
    <2>2. CASE merged # {}
      <3>1. Ms(merged) # {}
            BY <2>2 DEF Ms
      <3> PICK t : t = Max(Ms(merged))
          OBVIOUS
      <3>2. t \in Ms(merged) /\ t \in Minutes /\ \A k \in Ms(merged) : k <= t
            BY <1>11, <3>1, MaxIs
      <3>3. last = DayOf(t)
            BY <1>4, <2>2
      <3>4. \A n \in Ms(merged) : n \in Minutes /\ DayOf(n) \in Nat /\ DayOf(n) <= last
            BY <1>11, <3>2, <3>3, DaysFollow
      <3>5. last \in Nat /\ last <= DayOf(LastMinute) /\ DayOf(LastMinute) \in Nat
            BY <3>2, <3>3, DaysFollow
      <3> QED BY <3>4, <3>5
    <2> QED BY <2>1, <2>2
  <1>13. /\ now \in SUBSET merged /\ OneEach(now) /\ Cardinality(now) <= BarLimit /\ now \in SUBSET Candles
         /\ \A x \in now : DayOf(x.m) = last
         /\ ClosedBars(now) \in SUBSET Candles /\ OneEach(ClosedBars(now)) /\ \A x \in ClosedBars(now) : x.confirmed
    <2>1. now \in SUBSET merged /\ \A x \in now : DayOf(x.m) = last
          BY <1>5
    <2>2. OneEach(now) /\ now \in SUBSET Candles
          BY <1>11, <2>1 DEF OneEach
    <2>3. Cardinality(now) <= BarLimit
          BY <1>11, <2>1, SubsetIsShort
    <2> QED BY <2>1, <2>2, <2>3 DEF ClosedBars, OneEach
  <1>14. Newest(now) \in SUBSET Candles /\ OneEach(Newest(now))
        BY <1>13, NewestIs
  <1>15. OpAgrees(o, "worker", Ms(redisBars)) /\ Ms(ClosedBars(now)) \subseteq Owed(o, "worker")
    <2>1. CASE now = {}
      <3>1. o = Idle /\ Ms(ClosedBars(now)) = {}
            BY <1>6, <2>1 DEF ClosedBars, Ms
      <3> QED BY <3>1, IdleAgrees
    <2>2. CASE now # {}
      <3>1. PICK B : B = ClosedBars(now)
            OBVIOUS
      <3>2. PICK C : C = Newest(now)
            OBVIOUS
      <3>3. Window(B) /\ Window(C) /\ \A x \in B : x.confirmed
            BY <1>13, <1>14, <3>1, <3>2 DEF Window
      <3>4. CASE B = {}
        <4>1. o = [Idle EXCEPT !.step = "current", !.bars = B, !.cur = C]
              BY <1>6, <2>2, <3>1, <3>2, <3>4
        <4>2. o = [step |-> "current", bars |-> B, cur |-> C, obsolete |-> {}, day |-> 0]
              BY <4>1, ReadsThree
        <4>3. OpAgrees(o, "worker", Ms(redisBars)) /\ Owed(o, "worker") = Ms(B)
              BY <3>3, <3>4, <4>2, OpStarts
        <4> QED BY <3>1, <4>3
      <3>5. CASE B # {}
        <4>1. o = [Idle EXCEPT !.step = "read", !.bars = B, !.cur = C]
              BY <1>6, <2>2, <3>1, <3>2, <3>5
        <4>2. o = [step |-> "read", bars |-> B, cur |-> C, obsolete |-> {}, day |-> 0]
              BY <4>1, ReadsThree
        <4>3. OpAgrees(o, "worker", Ms(redisBars)) /\ Owed(o, "worker") = Ms(B)
              BY <3>3, <3>5, <4>2, OpStarts
        <4> QED BY <3>1, <4>3
      <3> QED BY <3>4, <3>5
    <2> QED BY <2>1, <2>2
  <1>16. /\ OpsAgree' /\ Owed(o, "worker") \subseteq Due(op', pendBars')
    <2>1. "worker" \in Writers /\ Ms(pendBars') = Ms(pendBars) /\ Ms(pendBars') \in SUBSET Minutes
          BY <1>1, <1>8, CandlesAre DEF Writers, Windows, Window
    <2>2. life' # "live" => (IF "worker" = "worker" THEN o ELSE op["worker"]) = Idle
          BY <1>1
    <2>3. Ms(pendBars) \subseteq Ms(pendBars') \cup Owed(o, "worker")
          BY <2>1
    <2> QED BY <1>1, <1>7, <1>8, <1>15, <2>1, <2>2, <2>3, WriterStarts
  <1>17. WindowSaved'
    <2>1. \A x \in ClosedBars(now) : x.m \in Due(op', pendBars')
          BY <1>15, <1>16 DEF Ms
    <2> QED BY <1>7, <2>1 DEF WindowSaved, Covered
  <1>18. ASSUME NEW x \in buffer, x.confirmed, x.m \in heard PROVE InWindow(x.m)'
    <2>1. PICK y \in S : y.m = x.m /\ y.confirmed
          BY <1>10, <1>18
    <2>2. y.m \in Minutes /\ DayOf(y.m) \in Nat
          BY <1>9, <1>18, <2>1, DaysFollow
    <2>3. CASE DayOf(y.m) < last
          BY <1>1, <1>7, <2>1, <2>3 DEF InWindow
    <2>4. CASE ~(DayOf(y.m) < last)
      <3>1. y.m \in Ms(ClosedBars(merged)) \/ Crowded(Ms(merged), y.m)
            BY <1>3, <1>10, <2>1, ClosedStays
      <3>2. CASE y.m \in Ms(ClosedBars(merged))
        <4>1. PICK z \in merged : z.m = y.m /\ z.confirmed
              BY <3>2 DEF Ms, ClosedBars
        <4>2. z.m \in Ms(merged)
              BY DEF Ms
        <4>3. DayOf(z.m) = last
              BY <1>12, <2>2, <2>4, <4>1, <4>2
        <4>4. z \in ClosedBars(now)
              BY <1>5, <4>1, <4>3 DEF ClosedBars
        <4>5. x.m \in Ms(ClosedBars(now))
              BY <2>1, <4>1, <4>4 DEF Ms
        <4> QED BY <1>1, <1>7, <4>5 DEF InWindow
      <3>3. CASE Crowded(Ms(merged), y.m)
        <4>1. Above(Ms(merged), y.m) \subseteq Above(Ms(now), y.m)
          <5> SUFFICES ASSUME NEW n \in Ms(merged), n > y.m PROVE n \in Ms(now)
              BY DEF Above
          <5>1. n \in Minutes /\ y.m <= n
            <6>1. n \in Minutes
                  BY <1>12
            <6>2. n \in Nat /\ y.m \in Nat
                  BY <2>2, <6>1, MinutesAre
            <6> QED BY <6>1, <6>2
          <5>2. DayOf(y.m) <= DayOf(n) /\ DayOf(n) <= last /\ DayOf(n) \in Nat
                BY <1>12, <2>2, <5>1, DaysFollow
          <5>3. DayOf(n) = last
                BY <1>12, <2>2, <2>4, <5>2
          <5>4. PICK z \in merged : z.m = n
                BY DEF Ms
          <5>5. z \in now
                BY <1>5, <5>3, <5>4
          <5> QED BY <5>4, <5>5 DEF Ms
        <4>2. Ms(now) \in SUBSET Minutes
              BY <1>13, CandlesAre
        <4>3. Crowded(Ms(now), y.m)
              BY <1>11, <2>2, <3>3, <4>1, <4>2, MoreCrowded
        <4> QED BY <1>1, <1>7, <2>1, <4>3 DEF InWindow
      <3> QED BY <3>1, <3>2, <3>3
    <2> QED BY <2>3, <2>4
  <1>19. Queue'
    <2>1. minute' \in Nat /\ minute <= minute'
          BY <1>1, <1>9, MinutesAre
    <2>2. \A x \in buffer' : x \in buffer
          BY <1>1
    <2> QED BY <1>1, <1>8, <2>1, <2>2, QueueShrinks
  <1>20. HeardKept'
    <2>1. \A n \in heard : Coming(events, connection, n) \/ InWindow(n)
          BY <1>8, KeptIs DEF HeardKept, Queue
    <2>2. \A n \in heard' : Coming(events', connection', n) \/ InWindow(n)'
      <3> TAKE n \in heard'
      <3>1. CASE Coming(events, connection, n)
            BY <1>1, <3>1
      <3>2. CASE InWindow(n)
        <4>1. PICK x \in buffer : x.m = n /\ x.confirmed
              BY <1>1, <3>2 DEF InWindow, Ms, ClosedBars
        <4> QED BY <1>1, <1>18, <4>1
      <3> QED BY <1>1, <2>1, <3>1, <3>2
    <2>3. ClosedMinutesAreKept'
          BY <1>19, <2>2, NextKeptIs DEF Queue
    <2>4. \A x \in bars' : DayOf(x.m) = day'
          BY <1>7, <1>13
    <2> QED BY <1>1, <2>3, <2>4 DEF HeardKept, Subscribed
  <1>21. Scalars'
        BY <1>1, <1>7, <1>8, <1>12 DEF Scalars
  <1>22. Windows'
    <2>1. load' \in [step : {"none", "cache", "fetch", "ready"}, bars : SUBSET Candles] /\ OneEach(load'.bars)
      <3>1. load'.bars = {}
            BY <1>1
      <3> QED BY <1>1, <3>1 DEF OneEach
    <2>2. Window(buffer') /\ Window(bars') /\ Window(pendCur') /\ Cardinality(bars') <= BarLimit
          BY <1>1, <1>7, <1>13, <1>14, NoCandles DEF Window
    <2> QED BY <1>1, <1>8, <2>1, <2>2 DEF Windows
  <1> QED BY <1>16, <1>17, <1>19, <1>20, <1>21, <1>22 DEF CandleInv

---------------------------------------------------------------------------
(* The specification.                                                      *)

LEMMA StoreStarts == StoreInit => CandleInv
  <1> SUFFICES ASSUME StoreInit PROVE CandleInv
      OBVIOUS
  <1>1. /\ minute = 1 /\ pushed = 0 /\ connection = 1 /\ changes = 0 /\ life = "pending" /\ day = 0
        /\ load = [step |-> "none", bars |-> {}]
        /\ waiting = {} /\ events = <<>> /\ buffer = {} /\ bars = {} /\ pendBars = {} /\ pendCur = {}
        /\ op = [w \in Writers |-> Idle]
        /\ redisBars = {} /\ redisCur = {} /\ lasting = {} /\ heard = {} /\ storeFaults = 0
        BY DEF StoreInit
  <1>2. minute \in Minutes
        BY <1>1, StoreAssumption DEF Minutes
  <1>3. Scalars
    <2>1. DayOf(LastMinute) \in Nat
          BY <1>2, DaysFollow
    <2> QED BY <1>1, <1>2, <2>1, StoreAssumption DEF Scalars
  <1>4. Windows
    <2>1. load.bars = {} /\ OneEach({})
          BY <1>1 DEF OneEach
    <2> QED BY <1>1, <2>1, NoCandles DEF Windows
  <1>5. Queue
    <2>1. events \in Seq(Events) /\ Len(events) = 0 /\ QueueSize \in Nat
          BY <1>1, StoreAssumption
    <2> QED BY <1>1, <2>1 DEF Queue
  <1>6. OpsAgree
    <2>1. \A w \in Writers : op[w] = Idle /\ OpAgrees(op[w], w, Ms(redisBars)) /\ op[w] \in OpType
          BY <1>1, IdleAgrees DEF OpAgrees
    <2>2. "worker" \in Writers
          BY DEF Writers
    <2>3. op \in [Writers -> OpType]
          BY <1>1, <2>1
    <2> QED BY <2>1, <2>2, <2>3 DEF OpsAgree
  <1>7. WindowSaved /\ HeardKept
        BY <1>1 DEF WindowSaved, HeardKept, ClosedMinutesAreKept
  <1> QED BY <1>3, <1>4, <1>5, <1>6, <1>7 DEF CandleInv

LEMMA StoreStepKeeps == CandleInv /\ [StoreNext]_storeVars => CandleInv'
  <1> SUFFICES ASSUME CandleInv, [StoreNext]_storeVars PROVE CandleInv'
      OBVIOUS
  <1>1. CASE MinuteEnds
        BY <1>1, MinuteEndsKeeps
  <1>2. CASE FlushUnconfirmed
        BY <1>2, FlushUnconfirmedKeeps
  <1>3. CASE IgnoreEvent
        BY <1>3, IgnoreEventKeeps
  <1>4. CASE BufferEvent
        BY <1>4, BufferEventKeeps
  <1>5. CASE HandleCandle
        BY <1>5, HandleCandleKeeps
  <1>6. CASE StartFlush
        BY <1>6, StartFlushKeeps
  <1>7. CASE \E m \in Minutes, confirmed \in BOOLEAN : Push(m, confirmed)
        BY <1>7, PushKeeps
  <1>8. CASE \E w \in Writers : WriteCurrent(w) \/ ReadRedis(w) \/ WriteBars(w) \/ WriteRaises(w)
    <2> PICK w \in Writers : WriteCurrent(w) \/ ReadRedis(w) \/ WriteBars(w) \/ WriteRaises(w)
        BY <1>8
    <2>1. CASE WriteCurrent(w)
          BY <2>1, WriteCurrentKeeps
    <2>2. CASE ReadRedis(w)
          BY <2>2, ReadRedisKeeps
    <2>3. CASE WriteBars(w)
          BY <2>3, WriteBarsKeeps
    <2>4. CASE WriteRaises(w)
          BY <2>4, WriteRaisesKeeps
    <2> QED BY <2>1, <2>2, <2>3, <2>4
  <1>9. CASE Subscribe
        BY <1>9, SubscribeKeeps
  <1>10. CASE LoadCache
        BY <1>10, LoadCacheKeeps
  <1>11. CASE LoadHistory
        BY <1>11, LoadHistoryKeeps
  <1>12. CASE ApplyWarmup
        BY <1>12, ApplyWarmupKeeps
  <1>13. CASE Reconnect
        BY <1>13, ReconnectKeeps
  <1>14. CASE StartRemoval
        BY <1>14, StartRemovalKeeps
  <1>15. CASE Forget
        BY <1>15, ForgetKeeps
  <1>16. CASE ExpireCache
        BY <1>16, ExpireCacheKeeps
  <1>17. CASE CacheExpires
        BY <1>17, CacheExpiresKeeps
  <1>18. CASE UNCHANGED storeVars
    <2>1. UNCHANGED <<minute, pushed, connection, changes, life, day, load, waiting, events, buffer, bars,
                      pendBars, pendCur, op, redisBars, redisCur, lasting, heard, storeFaults>>
          BY <1>18 DEF storeVars
    <2>2. life' # "live" => op["worker"] = Idle
          BY <2>1 DEF CandleInv, OpsAgree
    <2>3. Scalars' /\ Windows' /\ Queue' /\ OpsAgree' /\ WindowSaved' /\ HeardKept'
          BY <2>1, <2>2, WindowsStay, QueueStays, OpsStay, SavedStays, HeardStays DEF CandleInv, Scalars
    <2> QED BY <2>3 DEF CandleInv
  <1> QED BY <1>1, <1>2, <1>3, <1>4, <1>5, <1>6, <1>7, <1>8, <1>9, <1>10, <1>11, <1>12, <1>13, <1>14, <1>15,
             <1>16, <1>17, <1>18 DEF StoreNext

LEMMA CandlesInv == StoreSpec => []CandleInv
  BY StoreStarts, StoreStepKeeps, PTL DEF StoreSpec

LEMMA CandleTypes == CandleInv => StoreTypeOK
  <1> SUFFICES ASSUME CandleInv PROVE StoreTypeOK
      OBVIOUS
  <1>1. waiting \subseteq Events /\ Cardinality(waiting) <= 1
    <2>1. waiting = {} \/ \E e \in Events : waiting = {e}
          BY DEF CandleInv, Queue
    <2>2. CASE waiting = {}
          BY <2>2, FS_EmptySet
    <2>3. CASE \E e \in Events : waiting = {e}
      <3> PICK e \in Events : waiting = {e}
          BY <2>3
      <3>1. Cardinality({e}) = 1
            BY FS_Singleton
      <3> QED BY <3>1
    <2> QED BY <2>1, <2>2, <2>3
  <1>2. /\ events \in Seq(Events) /\ Len(events) <= QueueSize
        /\ op \in [Writers -> OpType]
        BY DEF CandleInv, Queue, OpsAgree
  <1>3. \A s \in {buffer, bars, pendBars, pendCur, redisBars, redisCur} :
          s \subseteq Candles /\ \A x, y \in s : x.m = y.m => x = y
        BY DEF CandleInv, Windows, Window, OneEach
  <1>4. Cardinality(bars) <= BarLimit /\ Cardinality(redisBars) <= BarLimit
        /\ load \in [step : {"none", "cache", "fetch", "ready"}, bars : SUBSET Candles]
        BY DEF CandleInv, Windows
  <1> QED BY <1>1, <1>2, <1>3, <1>4 DEF StoreTypeOK, CandleInv, Scalars, OpType

LEMMA CandlesKept == CandleInv => ClosedCandlesAreKept
  <1> SUFFICES ASSUME CandleInv, life = "live", NEW x \in ClosedBars(bars)
               PROVE  \/ x.m \in Ms(Storing)
                      \/ Cardinality({m \in Ms(Storing) : m > x.m}) >= BarLimit
                      \/ \E m \in Ms(redisBars) : DayOf(m) > DayOf(x.m)
      BY DEF ClosedCandlesAreKept, ClosedBarsAreSaved, CandleInv, HeardKept
  <1> PICK R : R = Ms(redisBars)
      OBVIOUS
  <1> PICK T : T = Ms(Storing)
      OBVIOUS
  <1>1. /\ Windows /\ OpsAgree /\ bars \subseteq Candles /\ R \in SUBSET Minutes
        /\ Covered(R, Due(op, pendBars), x.m)
        BY CandlesAre DEF CandleInv, Windows, Window, WindowSaved
  <1>2. Storing \in SUBSET Candles
    <2>1. \A w \in Writers : op[w].bars \subseteq Candles
          BY <1>1 DEF OpsAgree, OpAgrees, OpType
    <2> QED BY <1>1, <2>1 DEF Storing, Windows, Window
  <1>3. R \cup Due(op, pendBars) \subseteq T
    <2>1. R \subseteq T /\ Ms(pendBars) \subseteq T
          BY DEF Storing, Ms
    <2>2. \A w \in Writers : Owed(op[w], w) \subseteq T
          BY DEF Storing, Ms, Owed
    <2> QED BY <2>1, <2>2 DEF Due
  <1>4. x.m \in Minutes /\ T \in SUBSET Minutes
        BY <1>1, <1>2, CandlesAre DEF ClosedBars
  <1>5. CASE Crowded(R \cup Due(op, pendBars), x.m)
    <2>1. Above(R \cup Due(op, pendBars), x.m) \subseteq Above(T, x.m) /\ R \cup Due(op, pendBars) \in SUBSET Minutes
          BY <1>3, <1>4 DEF Above
    <2>2. Crowded(T, x.m)
          BY <1>4, <1>5, <2>1, MoreCrowded
    <2> QED BY <2>2 DEF Crowded, Above
  <1> QED BY <1>1, <1>3, <1>5 DEF Covered

(* candle_handler.py, persistence.py, warmup.py: every set of candles has  *)
(* one per minute, the windows in memory and in Redis stay within          *)
(* bar_limit, the queue and the unconfirmed candle within their bounds.    *)
THEOREM StoreTyping == StoreSpec => []StoreTypeOK
  BY CandlesInv, CandleTypes, PTL

(* candle_handler.py, persistence.py, redis_store.py, warmup.py: no closed *)
(* minute that got into the queue is lost on its way to the window, and no *)
(* closed bar of the window on its way to Redis, whichever writes fail and *)
(* whichever task overtakes another.                                       *)
THEOREM ClosedMinutesStay == StoreSpec => []ClosedCandlesAreKept
  BY CandlesInv, CandlesKept, PTL

-----------------------------------------------------------------------------
(* The pool of subscriptions                                               *)

Places == {"idle", "reset", "open", "prepare", "join", "remove", "ready", "add", "stopped"}

(* The places in a queue of the answer to a load of a symbol, with the     *)
(* symbol's generation and the connection's.                               *)
Answering(q, s, g, c) ==
    {i \in 1 .. Len(q) : q[i].act = "warmup" /\ q[i].s = s /\ q[i].gen = g /\ q[i].conn = c}

Loading(L, s) == \E l \in L : l.s = s

(* What is to come for s: a load or its answer while it is warming, and    *)
(* nothing otherwise.                                                      *)
Expects(W, L, q, s, g, c) ==
    /\ s \in W => \/ Loading(L, s) /\ Answering(q, s, g, c) = {}
                  \/ ~Loading(L, s) /\ \E i : Answering(q, s, g, c) = {i}
    /\ s \notin W => ~Loading(L, s) /\ Answering(q, s, g, c) = {}

PoolTypes == TypeOK /\ queue \in Seq(Command) /\ IsFiniteSet(loads)

LoadsAreNew == \A l \in loads : l.gen = gen[l.s] /\ l.conn = conn

(* What is warming is subscribed and wanted, or to be removed; what is     *)
(* active and no answer has made it so is subscribed.                      *)
PoolAgrees ==
    /\ warming \subseteq subs /\ warming \subseteq desired \cup removals
    /\ \A s \in warming : status[s] = "warming"
    /\ enough \subseteq subs /\ \A s \in active : status[s] # "active" => s \in subs
    /\ adds \cap active = {}

(* Where the worker is says what the connection can have by then.          *)
WorkerAgrees ==
    /\ at \in {"open", "prepare"} => warming = {}
    /\ at \in {"open", "prepare", "join"} => active = {} /\ enough = {} /\ subs \subseteq warming
    /\ at = "join" => joins \subseteq desired /\ joins \cap warming = {}
    /\ at # "join" => joins = {}
    /\ at = "idle" => cmd = "none"
    /\ at \in {"remove", "ready", "add"} => cmd = "reconcile"
    /\ cmd # "reconcile" => removals = {} /\ adds = {}
    /\ at \in {"ready", "add"} => removals = {}

Running ==
    /\ \A s \in Symbols : Expects(warming, loads, queue, s, gen[s], conn)
    /\ LoadsAreNew /\ PoolAgrees /\ WorkerAgrees

PoolInv == PoolTypes /\ (at # "stopped" => Running)

---------------------------------------------------------------------------
(* Generations.                                                            *)

LEMMA LeastIs ==
    ASSUME NEW S \in SUBSET Nat, S # {}
    PROVE  Least(S) \in S
  BY LeastOne DEF Least

LEMMA FreshIsNew ==
    ASSUME NEW used, IsFiniteSet(used)
    PROVE  Fresh(used) \in Nat /\ Fresh(used) \notin used
  <1>1. PICK n \in Nat : n = Cardinality(used)
        BY FS_CardinalityType
  <1>2. (0 .. n) \ used # {}
    <2> SUFFICES ASSUME 0 .. n \subseteq used PROVE FALSE
        OBVIOUS
    <2>1. Cardinality(0 .. n) <= n
          BY <1>1, FS_Subset
    <2>2. Cardinality(0 .. n) = n + 1
      <3>1. 0 \in Int /\ n \in Int /\ 0 <= n
            OBVIOUS
      <3>2. Cardinality(0 .. n) = IF 0 > n THEN 0 ELSE n - 0 + 1
            BY <3>1, FS_Interval
      <3> QED BY <3>1, <3>2
    <2> QED BY <2>1, <2>2
  <1>3. (0 .. n) \ used \in SUBSET Nat
        OBVIOUS
  <1> QED BY <1>1, <1>2, <1>3, LeastIs DEF Fresh

(* A function's values are finitely many when its arguments are.           *)
LEMMA ValuesAreFinite ==
    ASSUME NEW S, IsFiniteSet(S), NEW f, f = [x \in S |-> f[x]]
    PROVE  IsFiniteSet({f[x] : x \in S})
  <1> DEFINE T == {f[x] : x \in S}
  <1>1. f \in [S -> T] /\ \A t \in T : \E x \in S : f[x] = t
        OBVIOUS
  <1>2. f \in Surjection(S, T)
        BY <1>1 DEF Surjection
  <1> QED BY <1>2, FS_Surjection

LEMMA AnswersAreFinite ==
    ASSUME PoolTypes, NEW e
    PROVE  IsFiniteSet(Queued(e)) /\ IsFiniteSet(Answers)
  <1>1. Len(queue) \in Nat /\ DOMAIN queue = 1 .. Len(queue)
        BY DEF PoolTypes
  <1>2. IsFiniteSet(1 .. Len(queue))
    <2>1. 1 \in Int /\ Len(queue) \in Int
          BY <1>1
    <2> QED BY <2>1, FS_Interval
  <1>3. \A d : IsFiniteSet(Queued(d))
    <2> TAKE d
    <2> DEFINE J == {j \in DOMAIN queue : queue[j].act = d}
               f == [j \in J |-> queue[j]]
    <2>1. J \subseteq 1 .. Len(queue)
          BY <1>1
    <2>2. IsFiniteSet(J)
          BY <1>2, <2>1, FS_Subset
    <2>3. Queued(d) = {f[j] : j \in J} /\ f = [j \in J |-> f[j]]
          BY DEF Queued
    <2> HIDE DEF f, J
    <2> QED BY <2>2, <2>3, ValuesAreFinite
  <1> QED BY <1>3, FS_Union DEF Answers, PoolTypes

LEMMA FieldsAreFinite ==
    ASSUME NEW S, IsFiniteSet(S), NEW n
    PROVE  IsFiniteSet({n} \cup {c.conn : c \in S}) /\ IsFiniteSet({n} \cup {c.gen : c \in S})
  <1> DEFINE f == [c \in S |-> c.conn]  g == [c \in S |-> c.gen]
  <1>1. /\ {c.conn : c \in S} = {f[c] : c \in S} /\ f = [c \in S |-> f[c]]
        /\ {c.gen : c \in S} = {g[c] : c \in S} /\ g = [c \in S |-> g[c]]
        OBVIOUS
  <1> HIDE DEF f, g
  <1>2. IsFiniteSet({f[c] : c \in S}) /\ IsFiniteSet({g[c] : c \in S})
        BY <1>1, ValuesAreFinite
  <1> QED BY <1>1, <1>2, FS_Singleton, FS_Union

(* A new connection is one no load and no answer knows.                    *)
LEMMA NewConnIsNew ==
    ASSUME PoolTypes
    PROVE  /\ NewConn \in Nat /\ NewConn # conn
           /\ \A s, g : Answering(queue, s, g, NewConn) = {}
  <1>1. IsFiniteSet({conn} \cup {l.conn : l \in Answers})
        BY AnswersAreFinite, FieldsAreFinite
  <1>2. NewConn \in Nat /\ NewConn \notin {conn} \cup {l.conn : l \in Answers}
        BY <1>1, FreshIsNew DEF NewConn
  <1>3. \A i \in 1 .. Len(queue) : queue[i].act = "warmup" => queue[i] \in Answers
        BY DEF PoolTypes, Answers, Queued
  <1> QED BY <1>2, <1>3 DEF Answering

(* A renewed generation is one no answer for its symbol knows.             *)
LEMMA RenewedIsNew ==
    ASSUME PoolTypes, NEW S
    PROVE  /\ Renewed(S) \in [Symbols -> Nat]
           /\ \A s \in Symbols \ S : Renewed(S)[s] = gen[s]
           /\ \A s \in Symbols \cap S : \A c : Answering(queue, s, Renewed(S)[s], c) = {}
  <1>1. \A s \in Symbols : IsFiniteSet({gen[s]} \cup {c.gen : c \in About(s)})
    <2> TAKE s \in Symbols
    <2>1. IsFiniteSet(About(s))
          BY AnswersAreFinite, FS_Union, FS_Subset DEF About
    <2> QED BY <2>1, FieldsAreFinite
  <1>2. \A s \in Symbols : /\ Fresh({gen[s]} \cup {c.gen : c \in About(s)}) \in Nat
                           /\ Fresh({gen[s]} \cup {c.gen : c \in About(s)}) \notin {c.gen : c \in About(s)}
        BY <1>1, FreshIsNew
  <1>3. Renewed(S) \in [Symbols -> Nat] /\ \A s \in Symbols \ S : Renewed(S)[s] = gen[s]
        BY <1>2 DEF Renewed, PoolTypes, TypeOK
  <1>4. ASSUME NEW s \in Symbols \cap S, NEW i \in 1 .. Len(queue), queue[i].act = "warmup",
               queue[i].s = s
        PROVE  queue[i].gen # Renewed(S)[s]
    <2>1. queue[i] \in About(s)
          BY <1>4 DEF PoolTypes, About, Answers, Queued
    <2>2. Renewed(S)[s] = Fresh({gen[s]} \cup {c.gen : c \in About(s)})
          BY DEF Renewed
    <2> QED BY <1>2, <2>1, <2>2
  <1> QED BY <1>3, <1>4 DEF Answering

---------------------------------------------------------------------------
(* The queue.                                                              *)

LEMMA SentOther ==
    ASSUME NEW q \in Seq(Command), NEW x \in Command, x.act # "warmup", NEW s, NEW g, NEW c
    PROVE  Answering(Append(q, x), s, g, c) = Answering(q, s, g, c)
  <1>1. Len(Append(q, x)) = Len(q) + 1 /\ Len(q) \in Nat
        OBVIOUS
  <1>2. \A i \in 1 .. Len(q) : Append(q, x)[i] = q[i]
        OBVIOUS
  <1>3. Append(q, x)[Len(q) + 1] = x
        OBVIOUS
  <1>4. \A i : i \in 1 .. Len(q) + 1 <=> i \in 1 .. Len(q) \/ i = Len(q) + 1
        BY <1>1
  <1> QED BY <1>1, <1>2, <1>3, <1>4 DEF Answering

LEMMA SentAnswer ==
    ASSUME NEW q \in Seq(Command), NEW x \in Command, x.act = "warmup", NEW s, NEW g, NEW c
    PROVE  /\ x.s = s /\ x.gen = g /\ x.conn = c =>
                Answering(Append(q, x), s, g, c) = Answering(q, s, g, c) \cup {Len(q) + 1}
           /\ ~(x.s = s /\ x.gen = g /\ x.conn = c) =>
                Answering(Append(q, x), s, g, c) = Answering(q, s, g, c)
  <1>1. Len(Append(q, x)) = Len(q) + 1 /\ Len(q) \in Nat
        OBVIOUS
  <1>2. \A i \in 1 .. Len(q) : Append(q, x)[i] = q[i]
        OBVIOUS
  <1>3. Append(q, x)[Len(q) + 1] = x
        OBVIOUS
  <1>4. \A i : i \in 1 .. Len(q) + 1 <=> i \in 1 .. Len(q) \/ i = Len(q) + 1
        BY <1>1
  <1> QED BY <1>1, <1>2, <1>3, <1>4 DEF Answering

(* Taking the first command moves the others one place ahead.              *)
LEMMA TakenFirst ==
    ASSUME NEW q \in Seq(Command), q # <<>>, NEW s, NEW g, NEW c
    PROVE  /\ Tail(q) \in Seq(Command) /\ Head(q) \in Command
           /\ Answering(q, s, g, c) = {} => Answering(Tail(q), s, g, c) = {}
           /\ 1 \in Answering(q, s, g, c) <=>
                Head(q).act = "warmup" /\ Head(q).s = s /\ Head(q).gen = g /\ Head(q).conn = c
           /\ Answering(q, s, g, c) = {1} => Answering(Tail(q), s, g, c) = {}
           /\ \A i : Answering(q, s, g, c) = {i} /\ i # 1 => Answering(Tail(q), s, g, c) = {i - 1}
  <1>1. /\ Len(q) \in Nat \ {0} /\ Len(Tail(q)) = Len(q) - 1 /\ Tail(q) \in Seq(Command)
        /\ Head(q) = q[1] /\ Head(q) \in Command
        OBVIOUS
  <1>2. \A i \in 1 .. Len(Tail(q)) : Tail(q)[i] = q[i + 1]
        OBVIOUS
  <1>3. \A i : i \in Answering(Tail(q), s, g, c) <=> i \in Nat \ {0} /\ i + 1 \in Answering(q, s, g, c)
        BY <1>1, <1>2 DEF Answering
  <1>4. 1 \in Answering(q, s, g, c) <=>
          Head(q).act = "warmup" /\ Head(q).s = s /\ Head(q).gen = g /\ Head(q).conn = c
        BY <1>1 DEF Answering
  <1>5. \A i : i \in Answering(q, s, g, c) => i \in Nat \ {0}
        BY <1>1 DEF Answering
  <1>6. Answering(q, s, g, c) = {} => Answering(Tail(q), s, g, c) = {}
        BY <1>3
  <1>7. Answering(q, s, g, c) = {1} => Answering(Tail(q), s, g, c) = {}
        BY <1>3
  <1>8. ASSUME NEW i, Answering(q, s, g, c) = {i}, i # 1
        PROVE  Answering(Tail(q), s, g, c) = {i - 1}
    <2>1. i \in Nat \ {0, 1}
          BY <1>5, <1>8
    <2>2. \A j : j \in Answering(Tail(q), s, g, c) <=> j \in Nat \ {0} /\ j + 1 = i
          BY <1>3, <1>8
    <2>3. \A j : j \in Nat \ {0} /\ j + 1 = i <=> j = i - 1
          BY <2>1
    <2> QED BY <2>2, <2>3
  <1> QED BY <1>1, <1>4, <1>6, <1>7, <1>8

---------------------------------------------------------------------------
(* Steps that several actions take.                                        *)

LEMMA PoolStarts == Init => PoolInv
  <1> SUFFICES ASSUME Init PROVE PoolInv
      OBVIOUS
  <1>1. queue = <<[act |-> "connect"]>> /\ [act |-> "connect"] \in Command
        BY DEF Init, Command
  <1>2. queue \in Seq(Command) /\ Len(queue) = 1 /\ queue[1].act = "connect"
        BY <1>1
  <1>3. \A s, g, c : Answering(queue, s, g, c) = {}
        BY <1>2 DEF Answering
  <1>4. PoolTypes
    <2>1. IsFiniteSet(loads)
          BY FS_EmptySet DEF Init
    <2>2. \A i \in DOMAIN queue : queue[i] \in Command
          BY SMTT(60), <1>2
    <2>3. TypeOK
      <3>1. status \in [Symbols -> Statuses] /\ gen \in [Symbols -> Nat] /\ trouble \in 0 .. MaxTrouble
            BY BoundsAssumption DEF Init, Statuses
      <3>2. watch \subseteq Symbols /\ desired \subseteq Symbols /\ refused \subseteq Doubtful
            BY DEF Init
      <3>3. /\ active \subseteq Symbols /\ warming \subseteq Symbols \ active /\ loads \subseteq Load
            /\ conn \in Nat /\ link \in {"none", "good", "broken"} /\ stopping \in BOOLEAN
            /\ subs \subseteq Symbols /\ enough \subseteq Symbols /\ handling \subseteq Symbols
            /\ joins \subseteq Symbols /\ removals \subseteq Symbols /\ adds \subseteq Symbols
            BY DEF Init
      <3>4. at = "idle" /\ cmd = "none"
            BY DEF Init
      <3> QED BY <2>2, <3>1, <3>2, <3>3, <3>4 DEF TypeOK
    <2> QED BY <1>2, <2>1, <2>3 DEF PoolTypes
  <1>5. Running
        BY <1>3 DEF Init, Running, Expects, Loading, LoadsAreNew, PoolAgrees, WorkerAgrees
  <1> QED BY <1>4, <1>5 DEF PoolInv

(* On a new connection nothing is expected of the old one.                 *)
LEMMA NothingExpected ==
    ASSUME PoolTypes, conn' = NewConn, queue' = queue, warming' = {}, loads' = {}
    PROVE  /\ conn' \in Nat /\ LoadsAreNew' /\ IsFiniteSet(loads')
           /\ \A s : Expects(warming', loads', queue', s, gen'[s], conn')
  BY NewConnIsNew, FS_EmptySet DEF Expects, Loading, LoadsAreNew

LEMMA BackoffKeeps ==
    ASSUME PoolTypes, Running, at \in {"open", "prepare", "join"},
           NEW targets \in SUBSET Symbols, Backoff(targets), trouble' \in 0 .. MaxTrouble
    PROVE  PoolInv'
  <1>1. loads' = {} /\ queue' = queue
        BY DEF Running, LoadsAreNew, Backoff
  <1>2. /\ conn' \in Nat /\ LoadsAreNew' /\ IsFiniteSet(loads')
        /\ \A s : Expects(warming', loads', queue', s, gen'[s], conn')
        BY <1>1, NothingExpected DEF Backoff, TakeDown
  <1>3. gen' \in [Symbols -> Nat] /\ status' \in [Symbols -> Statuses]
        BY RenewedIsNew DEF Backoff, Mark, PoolTypes, TypeOK, Statuses
  <1>4. PoolTypes'
        BY <1>1, <1>2, <1>3 DEF PoolTypes, TypeOK, Backoff, TakeDown, service
  <1>5. PoolAgrees'
        BY DEF Running, WorkerAgrees, PoolAgrees, Backoff, TakeDown
  <1>6. WorkerAgrees'
        BY DEF Running, WorkerAgrees, Backoff, TakeDown
  <1> QED BY <1>2, <1>4, <1>5, <1>6 DEF PoolInv, Running

(* A symbol that is not warming is renewed.                                *)
LEMMA RenewalKeeps ==
    ASSUME PoolTypes, Running, NEW s \in Symbols, gen' = Renewed({s}), conn' = conn
    PROVE  /\ gen' \in [Symbols -> Nat] /\ \A o \in Symbols \ {s} : gen'[o] = gen[o]
           /\ Answering(queue, s, gen'[s], conn) = {}
           /\ \A o \in Symbols \ {s} : Expects(warming, loads, queue, o, gen'[o], conn)
  BY RenewedIsNew DEF Running

LEMMA AddTargetKeeps ==
    ASSUME PoolTypes, Running, NEW s \in Symbols, s \notin warming, AddTarget(s), queue' = queue
    PROVE  /\ gen' \in [Symbols -> Nat] /\ status' \in [Symbols -> Statuses]
           /\ loads' \in SUBSET Load /\ IsFiniteSet(loads') /\ LoadsAreNew'
           /\ \A o \in Symbols : Expects(warming', loads', queue', o, gen'[o], conn')
  <1>1. /\ gen' = Renewed({s}) /\ conn' = conn /\ conn \in Nat
        /\ warming' = warming \cup {s} /\ status' = Mark({s}, "warming")
        BY DEF AddTarget, PoolTypes, TypeOK
  <1>2. /\ gen' \in [Symbols -> Nat] /\ \A o \in Symbols \ {s} : gen'[o] = gen[o]
        /\ Answering(queue, s, gen'[s], conn) = {}
        /\ \A o \in Symbols \ {s} : Expects(warming, loads, queue, o, gen'[o], conn)
        BY <1>1, RenewalKeeps
  <1>3. PICK l : l = [s |-> s, gen |-> gen'[s], conn |-> conn]
        OBVIOUS
  <1>4. l \in Load /\ l.s = s /\ l.gen = gen'[s] /\ l.conn = conn /\ loads' = loads \cup {l}
        BY <1>1, <1>2, <1>3 DEF Load, AddTarget
  <1>5. ~Loading(loads, s)
        BY DEF Running, Expects
  <1>6. LoadsAreNew'
    <2>1. \A k \in loads : k.s \in Symbols \ {s} /\ k.gen = gen[k.s] /\ k.conn = conn
          BY <1>5 DEF Running, LoadsAreNew, Loading, PoolTypes, TypeOK, Load
    <2> QED BY <1>1, <1>2, <1>4, <2>1 DEF LoadsAreNew
  <1>7. Expects(warming', loads', queue', s, gen'[s], conn')
        BY <1>1, <1>2, <1>4 DEF Expects, Loading
  <1>8. ASSUME NEW o \in Symbols \ {s}
        PROVE  Expects(warming', loads', queue', o, gen'[o], conn')
    <2>1. Loading(loads', o) <=> Loading(loads, o)
          BY <1>4 DEF Loading
    <2>2. o \in warming' <=> o \in warming
          BY <1>1
    <2> QED BY <1>1, <1>2, <2>1, <2>2 DEF Expects
  <1>9. loads' \in SUBSET Load /\ IsFiniteSet(loads')
        BY <1>4, FS_AddElement DEF PoolTypes, TypeOK
  <1>10. status' \in [Symbols -> Statuses]
        BY <1>1 DEF Mark, PoolTypes, TypeOK, Statuses
  <1> QED BY <1>2, <1>6, <1>7, <1>8, <1>9, <1>10

(* Nothing that is expected changes when these variables stay.             *)
LEMMA ExpectationsStay ==
    ASSUME Running, UNCHANGED <<warming, loads, queue, gen, conn>>
    PROVE  LoadsAreNew' /\ \A s \in Symbols : Expects(warming', loads', queue', s, gen'[s], conn')
  BY DEF Running, LoadsAreNew

(* A command that is no answer is sent, or taken.                          *)
LEMMA OthersComeAndGo ==
    ASSUME PoolTypes, Running, UNCHANGED <<warming, loads, gen, conn>>,
           \/ \E x \in Command : x.act # "warmup" /\ Send(x)
           \/ queue # <<>> /\ Head(queue).act # "warmup" /\ queue' = Tail(queue)
    PROVE  /\ queue' \in Seq(Command) /\ LoadsAreNew'
           /\ \A s \in Symbols : Expects(warming', loads', queue', s, gen'[s], conn')
  <1>1. CASE \E x \in Command : x.act # "warmup" /\ Send(x)
    <2> PICK x \in Command : x.act # "warmup" /\ Send(x)
        BY <1>1
    <2>1. queue \in Seq(Command) /\ queue' = Append(queue, x) /\ queue' \in Seq(Command)
          BY DEF PoolTypes, Send
    <2>2. \A s \in Symbols : Answering(queue', s, gen[s], conn) = Answering(queue, s, gen[s], conn)
          BY <2>1, SentOther
    <2> QED BY <2>1, <2>2 DEF Expects, Running, LoadsAreNew
  <1>2. CASE queue # <<>> /\ Head(queue).act # "warmup" /\ queue' = Tail(queue)
    <2>1. queue \in Seq(Command) /\ Tail(queue) \in Seq(Command)
          BY <1>2 DEF PoolTypes
    <2> DEFINE A(s) == Answering(queue, s, gen[s], conn)  B(s) == Answering(queue', s, gen[s], conn)
    <2>2. ASSUME NEW s \in Symbols
          PROVE  A(s) = {} => B(s) = {}
          BY <1>2, <2>1, TakenFirst
    <2>3. ASSUME NEW s \in Symbols, NEW i, A(s) = {i}
          PROVE  B(s) = {i - 1}
      <3>1. i # 1
            BY <1>2, <2>1, <2>3, TakenFirst
      <3> QED BY <1>2, <2>1, <2>3, <3>1, TakenFirst
    <2>4. \A s \in Symbols : (\E i : A(s) = {i}) => \E i : B(s) = {i}
          BY <2>3
    <2>5. \A s \in Symbols : Expects(warming, loads, queue, s, gen[s], conn)
          BY DEF Running
    <2>6. \A s \in Symbols : Expects(warming', loads', queue', s, gen'[s], conn')
          BY <2>2, <2>4, <2>5 DEF Expects
    <2> QED BY <1>2, <2>1, <2>6 DEF Running, LoadsAreNew
  <1> QED BY <1>1, <1>2

---------------------------------------------------------------------------
(* The worker connects.                                                    *)

LEMMA ConnectKeeps == ASSUME PoolInv, Connect PROVE PoolInv'
  <1>1. PoolTypes /\ Running
        BY DEF PoolInv, Connect, Take
  <1>2. /\ queue' \in Seq(Command) /\ LoadsAreNew'
        /\ \A s \in Symbols : Expects(warming', loads', queue', s, gen'[s], conn')
        BY <1>1, OthersComeAndGo DEF Connect, Take, client, symbols
  <1>3. PoolTypes'
        BY <1>1, <1>2 DEF PoolTypes, TypeOK, Connect, service, client, symbols
  <1>4. PoolAgrees' /\ WorkerAgrees'
        BY <1>1 DEF Running, PoolAgrees, WorkerAgrees, Connect, Take, client, symbols
  <1> QED BY <1>2, <1>3, <1>4 DEF PoolInv, Running

LEMMA ResetKeeps == ASSUME PoolInv, Reset PROVE PoolInv'
  <1>1. PoolTypes /\ Running
        BY DEF PoolInv, Reset
  <1>2. /\ conn' \in Nat /\ LoadsAreNew' /\ IsFiniteSet(loads')
        /\ \A s : Expects(warming', loads', queue', s, gen'[s], conn')
        BY <1>1, NothingExpected DEF Reset, TakeDown
  <1>3. gen' \in [Symbols -> Nat] /\ status' \in [Symbols -> Statuses]
    <2>1. status \in [Symbols -> Statuses]
          BY <1>1 DEF PoolTypes, TypeOK
    <2>2. status' \in [Symbols -> Statuses]
          BY <2>1 DEF Reset, Statuses
    <2>3. gen' \in [Symbols -> Nat]
          BY <1>1, RenewedIsNew DEF Reset
    <2> QED BY <2>2, <2>3
  <1>4. desired' \subseteq Symbols /\ trouble' \in 0 .. MaxTrouble
    <2>1. desired \subseteq Symbols /\ watch \subseteq Symbols /\ trouble \in 0 .. MaxTrouble
          BY <1>1 DEF PoolTypes, TypeOK
    <2> QED BY <2>1, BoundsAssumption DEF Reset, Reload, Trouble
  <1>5. TypeOK'
    <2>1. TypeOK /\ (\A i \in DOMAIN queue : queue[i] \in Command)
          BY <1>1 DEF PoolTypes, TypeOK
    <2> QED BY <2>1, <1>2, <1>3, <1>4 DEF TypeOK, Reset, TakeDown, service, plan
  <1>6. PoolAgrees' /\ WorkerAgrees'
        BY <1>1 DEF Running, PoolAgrees, WorkerAgrees, Reset, TakeDown, plan
  <1>7. queue' = queue
        BY DEF Reset
  <1> QED BY <1>1, <1>2, <1>5, <1>6, <1>7 DEF PoolInv, PoolTypes, Running

LEMMA OpenKeeps == ASSUME PoolInv, Open PROVE PoolInv'
  <1>1. PoolTypes /\ Running /\ at = "open"
        BY DEF PoolInv, Open, KeepsTrying
  <1>2. warming = {}
        BY <1>1 DEF Running, WorkerAgrees
  <1>3. loads = {}
    <2>1. \A s \in Symbols : ~Loading(loads, s)
          BY <1>1, <1>2 DEF Running, Expects
    <2>2. \A l \in loads : l.s \in Symbols
          BY <1>1 DEF PoolTypes, TypeOK, Load
    <2> QED BY <2>1, <2>2 DEF Loading
  <1>4. /\ conn' \in Nat /\ LoadsAreNew' /\ IsFiniteSet(loads')
        /\ \A s : Expects(warming', loads', queue', s, gen'[s], conn')
        BY <1>1, <1>2, <1>3, NothingExpected DEF Open, symbols
  <1>5. PoolTypes'
        BY <1>1, <1>4 DEF PoolTypes, TypeOK, Open, service, symbols, plan
  <1>6. PoolAgrees' /\ WorkerAgrees'
        BY <1>1 DEF Running, PoolAgrees, WorkerAgrees, Open, symbols, plan
  <1> QED BY <1>4, <1>5, <1>6 DEF PoolInv, Running

(* A failed attempt is taken down.                                         *)
LEMMA FailuresKeep == ASSUME PoolInv, OpenFails \/ PrepareFails \/ JoinFails PROVE PoolInv'
  <1>1. PoolTypes /\ Running /\ at \in {"open", "prepare", "join"}
        BY DEF PoolInv, OpenFails, PrepareFails, JoinFails, KeepsTrying
  <1>2. trouble' \in 0 .. MaxTrouble
    <2>1. trouble \in 0 .. MaxTrouble /\ MaxTrouble \in Nat
          BY <1>1, BoundsAssumption DEF PoolTypes, TypeOK
    <2> QED BY <2>1 DEF OpenFails, PrepareFails, JoinFails, Refuses, Fails, Trouble
  <1>3. PICK targets \in SUBSET Symbols : Backoff(targets)
    <2>1. desired \subseteq Symbols /\ Known \subseteq Symbols
          BY <1>1 DEF PoolTypes, TypeOK, Known
    <2> QED BY <2>1 DEF OpenFails, PrepareFails, JoinFails
  <1> QED BY <1>1, <1>2, <1>3, BackoffKeeps

LEMMA PrepareKeeps == ASSUME PoolInv, Prepare PROVE PoolInv'
  <1>1. PoolTypes /\ Running
        BY DEF PoolInv, Prepare
  <1>2. LoadsAreNew' /\ \A s \in Symbols : Expects(warming', loads', queue', s, gen'[s], conn')
        BY <1>1, ExpectationsStay DEF Prepare, client
  <1>3. status' \in [Symbols -> Statuses] /\ trouble' \in 0 .. MaxTrouble
    <2>1. status \in [Symbols -> Statuses] /\ trouble \in 0 .. MaxTrouble
          BY <1>1 DEF PoolTypes, TypeOK
    <2> QED BY <2>1 DEF Prepare, Works, Mark, Statuses
  <1>4. PoolTypes'
        BY <1>1, <1>3 DEF PoolTypes, TypeOK, Prepare, service, client
  <1>5. PoolAgrees' /\ WorkerAgrees'
        BY <1>1 DEF Running, PoolAgrees, WorkerAgrees, Prepare, client
  <1> QED BY <1>2, <1>4, <1>5 DEF PoolInv, Running

LEMMA JoinKeeps == ASSUME PoolInv, Join PROVE PoolInv'
  <1>1. PoolTypes /\ Running /\ at = "join"
        BY DEF PoolInv, Join
  <1>2. joins \in SUBSET Nat /\ joins # {} /\ joins \subseteq Symbols
        BY <1>1, SymbolsAssumption DEF PoolTypes, TypeOK, Join
  <1>3. PICK s \in joins : s = Least(joins)
        BY <1>2, LeastIs
  <1>4. AddTarget(s) /\ s \in Symbols /\ s \in desired /\ s \notin warming /\ s \notin active
        BY <1>1, <1>2, <1>3 DEF Join, Running, WorkerAgrees
  <1>5. /\ gen' \in [Symbols -> Nat] /\ status' \in [Symbols -> Statuses]
        /\ loads' \in SUBSET Load /\ IsFiniteSet(loads') /\ LoadsAreNew'
        /\ \A o \in Symbols : Expects(warming', loads', queue', o, gen'[o], conn')
        BY <1>1, <1>4, AddTargetKeeps DEF Join
  <1>6. /\ warming' = warming \cup {s} /\ subs' = subs \cup {s} /\ status' = Mark({s}, "warming")
        /\ joins' = joins \ {s}
        /\ UNCHANGED <<service, trouble, desired, active, enough, conn, link, queue, at, cmd, removals, adds>>
        BY <1>3, <1>4 DEF Join, AddTarget, Works
  <1>7. PoolTypes'
        BY <1>1, <1>2, <1>4, <1>5, <1>6 DEF PoolTypes, TypeOK, service
  <1>8. PoolAgrees' /\ WorkerAgrees'
        BY <1>1, <1>4, <1>6 DEF Running, PoolAgrees, WorkerAgrees, Mark, PoolTypes, TypeOK
  <1> QED BY <1>5, <1>7, <1>8 DEF PoolInv, Running

(* The ways out of _connect, and the ends of a step that changes nothing.  *)
LEMMA TurnsKeep ==
    ASSUME PoolInv, GiveUp \/ Joined \/ Removed \/ Added
    PROVE  PoolInv'
  <1>1. PoolTypes /\ Running
        BY DEF PoolInv, GiveUp, Joined, Removed, Added
  <1>2. /\ UNCHANGED <<service, trouble, symbols, client, queue, joins, removals, adds>>
        /\ at' \in {"idle", "remove", "ready"} /\ cmd' \in {cmd, "none"}
        BY DEF GiveUp, Joined, Removed, Added, Connected, Finish, plan
  <1>3. LoadsAreNew' /\ \A s \in Symbols : Expects(warming', loads', queue', s, gen'[s], conn')
        BY <1>1, <1>2, ExpectationsStay DEF symbols, client
  <1>4. PoolTypes'
        BY <1>1, <1>2 DEF PoolTypes, TypeOK, service, symbols, client
  <1>5. PoolAgrees'
        BY <1>1, <1>2 DEF Running, PoolAgrees, symbols, client
  <1>6. WorkerAgrees'
        BY <1>1, <1>2 DEF Running, WorkerAgrees, GiveUp, KeepsTrying, Joined, Removed, Added, Connected,
           Finish, plan, symbols
  <1> QED BY <1>3, <1>4, <1>5, <1>6 DEF PoolInv, Running

---------------------------------------------------------------------------
(* The worker reconciles.                                                  *)

LEMMA ReconcileKeeps == ASSUME PoolInv, Reconcile PROVE PoolInv'
  <1>1. PoolTypes /\ Running /\ at = "idle"
        BY DEF PoolInv, Reconcile, Take
  <1>2. /\ queue' \in Seq(Command) /\ LoadsAreNew'
        /\ \A s \in Symbols : Expects(warming', loads', queue', s, gen'[s], conn')
        BY <1>1, OthersComeAndGo DEF Reconcile, Take, client
  <1>3. PICK targets : targets = Head(queue).targets
        OBVIOUS
  <1>4. targets \subseteq Symbols
    <2>1. queue \in Seq(Command) /\ queue # <<>> /\ Head(queue).act = "reconcile"
          BY <1>1 DEF PoolTypes, Reconcile, Take
    <2>2. Head(queue) \in Command
          BY <2>1
    <2> QED BY <1>3, <2>1, <2>2 DEF Command
  <1>5. /\ desired' = targets /\ removals' = (active \cup warming) \ targets
        /\ adds' = targets \ (active \cup warming) /\ at' = "remove" /\ cmd' = "reconcile"
        /\ UNCHANGED <<service, trouble, active, warming, status, gen, subs, enough, client, joins>>
        BY <1>3 DEF Reconcile
  <1>6. PoolTypes'
        BY <1>1, <1>2, <1>4, <1>5 DEF PoolTypes, TypeOK, service, client
  <1>7. PoolAgrees' /\ WorkerAgrees'
        BY <1>1, <1>5 DEF Running, PoolAgrees, WorkerAgrees
  <1> QED BY <1>2, <1>6, <1>7 DEF PoolInv, Running

(* _remove_symbol takes the symbol's load and its answer's match away.     *)
LEMMA RemoveKeeps == ASSUME PoolInv, Remove PROVE PoolInv'
  <1>1. PoolTypes /\ Running /\ at = "remove"
        BY DEF PoolInv, Remove
  <1>2. removals \in SUBSET Nat /\ removals # {} /\ removals \subseteq Symbols
        BY <1>1, SymbolsAssumption DEF PoolTypes, TypeOK, Remove
  <1>3. PICK s \in removals : s = Least(removals)
        BY <1>2, LeastIs
  <1>4. /\ removals' = removals \ {s} /\ s \in Symbols
        /\ UNCHANGED <<service, desired, conn, link, queue, cmd, joins, adds>>
        BY <1>2, <1>3 DEF Remove
  <1>5. CASE status[s] \in {"inactive", "none"} /\
             UNCHANGED <<trouble, active, warming, status, gen, subs, enough, loads, at>>
    <2>1. LoadsAreNew' /\ \A o \in Symbols : Expects(warming', loads', queue', o, gen'[o], conn')
          BY <1>1, <1>4, <1>5, ExpectationsStay
    <2>2. PoolTypes'
          BY <1>1, <1>2, <1>4, <1>5 DEF PoolTypes, TypeOK, service
    <2>3. PoolAgrees' /\ WorkerAgrees'
          BY <1>1, <1>4, <1>5 DEF Running, PoolAgrees, WorkerAgrees
    <2> QED BY <2>1, <2>2, <2>3 DEF PoolInv, Running
  <1>6. CASE /\ loads' = Uncancelled(s)
             /\ gen' = Renewed({s}) /\ status' = Mark({s}, "inactive")
             /\ active' = active \ {s} /\ warming' = warming \ {s}
             /\ subs' = subs \ {s} /\ enough' = enough \ {s}
             /\ \/ s \in subs /\ Works /\ UNCHANGED at
                \/ s \notin subs /\ UNCHANGED <<at, trouble>>
                \/ s \in subs /\ Fails /\ at' = "reset"
    <2>1. /\ gen' \in [Symbols -> Nat] /\ \A o \in Symbols \ {s} : gen'[o] = gen[o]
          /\ Answering(queue, s, gen'[s], conn) = {}
      <3>1. gen' = Renewed({s}) /\ conn' = conn
            BY <1>4, <1>6
      <3> QED BY <1>1, <1>4, <3>1, RenewalKeeps
    <2>2. \A o : Loading(loads', o) <=> Loading(loads, o) /\ o # s
          BY <1>6 DEF Loading, Uncancelled
    <2>3. \A o \in Symbols : Expects(warming', loads', queue', o, gen'[o], conn')
          BY <1>1, <1>4, <1>6, <2>1, <2>2 DEF Running, Expects
    <2>4. \A l \in loads : l.s \in Symbols
          BY <1>1 DEF PoolTypes, TypeOK, Load
    <2>5. LoadsAreNew'
          BY <1>1, <1>4, <1>6, <2>1, <2>4 DEF Running, LoadsAreNew, Uncancelled
    <2>6. IsFiniteSet(loads') /\ loads' \subseteq Load
          BY <1>1, <1>6, FS_Subset DEF PoolTypes, TypeOK, Uncancelled
    <2>7. status' \in [Symbols -> Statuses] /\ trouble' \in 0 .. MaxTrouble
      <3>1. status \in [Symbols -> Statuses] /\ trouble \in 0 .. MaxTrouble /\ MaxTrouble \in Nat
            BY <1>1, BoundsAssumption DEF PoolTypes, TypeOK
      <3> QED BY <1>6, <3>1 DEF Works, Fails, Trouble, Mark, Statuses
    <2>8. at' \in {"remove", "reset"}
          BY <1>1, <1>6
    <2>9. PoolTypes'
          BY <1>1, <1>2, <1>4, <1>6, <2>1, <2>6, <2>7, <2>8 DEF PoolTypes, TypeOK, service
    <2>10. PoolAgrees'
          BY <1>1, <1>4, <1>6 DEF Running, PoolAgrees, Mark, PoolTypes, TypeOK
    <2>11. WorkerAgrees'
          BY <1>1, <1>4, <2>8 DEF Running, WorkerAgrees
    <2> QED BY <2>3, <2>5, <2>9, <2>10, <2>11 DEF PoolInv, Running
  <1> QED BY <1>3, <1>5, <1>6 DEF Remove

LEMMA ReadyKeeps == ASSUME PoolInv, Ready \/ ReadyFails PROVE PoolInv'
  <1>1. PoolTypes /\ Running /\ at = "ready"
        BY DEF PoolInv, Ready, ReadyFails
  <1>2. UNCHANGED <<service, desired, active, warming, gen, subs, enough, client, queue, joins, removals>>
        BY DEF Ready, ReadyFails, plan
  <1>3. \E M \in SUBSET adds : status' = Mark(M, "warming")
    <2>1. Mark({}, "warming") = status
          BY <1>1 DEF Mark, PoolTypes, TypeOK
    <2>2. {} \in SUBSET adds /\ adds \in SUBSET adds
          OBVIOUS
    <2>3. CASE Ready
          BY <2>1, <2>2, <2>3 DEF Ready
    <2>4. CASE ReadyFails
          BY <2>2, <2>4 DEF ReadyFails
    <2> QED BY <2>3, <2>4
  <1>4. PICK M \in SUBSET adds : status' = Mark(M, "warming")
        BY <1>3
  <1>5. \/ at' = "add" /\ cmd' = cmd /\ adds' = adds
        \/ at' = "idle" /\ cmd' = "none" /\ adds' = {}
        BY DEF Ready, ReadyFails, plan, Finish
  <1>6. LoadsAreNew' /\ \A s \in Symbols : Expects(warming', loads', queue', s, gen'[s], conn')
        BY <1>1, <1>2, ExpectationsStay DEF client
  <1>7. status' \in [Symbols -> Statuses] /\ trouble' \in 0 .. MaxTrouble
    <2>1. status \in [Symbols -> Statuses] /\ trouble \in 0 .. MaxTrouble /\ MaxTrouble \in Nat
          BY <1>1, BoundsAssumption DEF PoolTypes, TypeOK
    <2>2. trouble' \in 0 .. MaxTrouble
          BY <2>1 DEF Ready, ReadyFails, Works, Fails, Trouble
    <2> QED BY <1>4, <2>1, <2>2 DEF Mark, Statuses
  <1>8. PoolTypes'
        BY <1>1, <1>2, <1>5, <1>7 DEF PoolTypes, TypeOK, service, client
  <1>9. PoolAgrees'
        BY <1>1, <1>2, <1>4, <1>5 DEF Running, PoolAgrees, Mark, PoolTypes, TypeOK
  <1>10. WorkerAgrees'
        BY <1>1, <1>2, <1>5 DEF Running, WorkerAgrees
  <1> QED BY <1>6, <1>8, <1>9, <1>10 DEF PoolInv, Running

LEMMA AddKeeps == ASSUME PoolInv, Add PROVE PoolInv'
  <1>1. PoolTypes /\ Running /\ at = "add"
        BY DEF PoolInv, Add
  <1>2. adds \in SUBSET Nat /\ adds # {} /\ adds \subseteq Symbols
        BY <1>1, SymbolsAssumption DEF PoolTypes, TypeOK, Add
  <1>3. PICK s \in adds : s = Least(adds)
        BY <1>2, LeastIs
  <1>4. /\ adds' = adds \ {s} /\ s \in Symbols /\ s \in desired
        /\ UNCHANGED <<service, queue, at, cmd, joins, removals>>
        BY <1>2, <1>3 DEF Add
  <1>5. CASE s \in active \cup warming /\ UNCHANGED <<symbols, client, trouble>>
    <2>1. LoadsAreNew' /\ \A o \in Symbols : Expects(warming', loads', queue', o, gen'[o], conn')
          BY <1>1, <1>4, <1>5, ExpectationsStay DEF symbols, client
    <2>2. PoolTypes'
          BY <1>1, <1>2, <1>4, <1>5 DEF PoolTypes, TypeOK, service, symbols, client
    <2>3. PoolAgrees' /\ WorkerAgrees'
          BY <1>1, <1>4, <1>5 DEF Running, PoolAgrees, WorkerAgrees, symbols, client
    <2> QED BY <2>1, <2>2, <2>3 DEF PoolInv, Running
  <1>6. CASE s \notin active \cup warming /\ AddTarget(s)
    <2>1. /\ gen' \in [Symbols -> Nat] /\ status' \in [Symbols -> Statuses]
          /\ loads' \in SUBSET Load /\ IsFiniteSet(loads') /\ LoadsAreNew'
          /\ \A o \in Symbols : Expects(warming', loads', queue', o, gen'[o], conn')
          BY <1>1, <1>4, <1>6, AddTargetKeeps
    <2>2. /\ warming' = warming \cup {s} /\ subs' = subs \cup {s} /\ status' = Mark({s}, "warming")
          /\ UNCHANGED <<trouble, desired, active, enough, conn, link>>
          BY <1>6 DEF AddTarget, Works
    <2>3. PoolTypes'
          BY <1>1, <1>2, <1>4, <1>6, <2>1, <2>2 DEF PoolTypes, TypeOK, service
    <2>4. PoolAgrees' /\ WorkerAgrees'
          BY <1>1, <1>4, <1>6, <2>2 DEF Running, PoolAgrees, WorkerAgrees, Mark, PoolTypes, TypeOK
    <2> QED BY <2>1, <2>3, <2>4 DEF PoolInv, Running
  <1> QED BY <1>3, <1>5, <1>6 DEF Add

LEMMA AddFailsKeeps == ASSUME PoolInv, AddFails PROVE PoolInv'
  <1>1. PoolTypes /\ Running /\ at = "add"
        BY DEF PoolInv, AddFails
  <1>2. adds \in SUBSET Nat /\ adds # {} /\ adds \subseteq Symbols
        BY <1>1, SymbolsAssumption DEF PoolTypes, TypeOK, AddFails
  <1>3. PICK s \in adds : s = Least(adds)
        BY <1>2, LeastIs
  <1>4. /\ adds' = {} /\ at' = "idle" /\ cmd' = "none" /\ s \in Symbols
        /\ UNCHANGED <<service, desired, active, subs, enough, client, queue, joins, removals>>
        BY <1>2, <1>3 DEF AddFails, Finish
  <1>5. CASE UNCHANGED <<gen, status, warming, trouble>>
    <2>1. LoadsAreNew' /\ \A o \in Symbols : Expects(warming', loads', queue', o, gen'[o], conn')
          BY <1>1, <1>4, <1>5, ExpectationsStay DEF client
    <2>2. PoolTypes'
          BY <1>1, <1>4, <1>5 DEF PoolTypes, TypeOK, service, client
    <2>3. PoolAgrees' /\ WorkerAgrees'
          BY <1>1, <1>4, <1>5 DEF Running, PoolAgrees, WorkerAgrees
    <2> QED BY <2>1, <2>2, <2>3 DEF PoolInv, Running
  <1>6. CASE s \in desired \ (active \cup warming) /\ Refuses(s) /\ gen' = Renewed({s}) /\ AfterError(s)
    <2>1. /\ gen' \in [Symbols -> Nat] /\ \A o \in Symbols \ {s} : gen'[o] = gen[o]
          /\ Answering(queue, s, gen'[s], conn) = {}
          /\ \A o \in Symbols \ {s} : Expects(warming, loads, queue, o, gen'[o], conn)
          BY <1>1, <1>4, <1>6, RenewalKeeps DEF client
    <2>2. /\ warming' = warming /\ status' = Mark({s}, "error")
          /\ loads' = loads /\ conn' = conn /\ queue' = queue
          BY <1>4, <1>6 DEF AfterError, client
    <2>3. ~Loading(loads, s)
          BY <1>1, <1>4, <1>6 DEF Running, Expects
    <2>4. \A o \in Symbols : Expects(warming', loads', queue', o, gen'[o], conn')
          BY <1>6, <2>1, <2>2, <2>3 DEF Expects
    <2>5. LoadsAreNew'
      <3>1. \A l \in loads : l.s \in Symbols \ {s}
            BY <1>1, <2>3 DEF Loading, PoolTypes, TypeOK, Load
      <3> QED BY <1>1, <2>1, <2>2, <3>1 DEF Running, LoadsAreNew
    <2>6. status' \in [Symbols -> Statuses] /\ trouble' \in 0 .. MaxTrouble
      <3>1. status \in [Symbols -> Statuses] /\ trouble \in 0 .. MaxTrouble /\ MaxTrouble \in Nat
            BY <1>1, BoundsAssumption DEF PoolTypes, TypeOK
      <3> QED BY <1>6, <2>2, <3>1 DEF Refuses, Fails, Trouble, Mark, Statuses
    <2>7. PoolTypes'
          BY <1>1, <1>4, <2>1, <2>2, <2>6 DEF PoolTypes, TypeOK, service, client
    <2>8. PoolAgrees' /\ WorkerAgrees'
          BY <1>1, <1>4, <1>6, <2>2 DEF Running, PoolAgrees, WorkerAgrees, Mark, PoolTypes, TypeOK
    <2> QED BY <2>4, <2>5, <2>7, <2>8 DEF PoolInv, Running
  <1> QED BY <1>3, <1>5, <1>6 DEF AddFails

---------------------------------------------------------------------------
(* The other commands.                                                     *)

(* The answer at the head is what its symbol waits for, or nothing waits   *)
(* for it.                                                                 *)
LEMMA CompleteKeeps == ASSUME PoolInv, Complete PROVE PoolInv'
  <1>1. PoolTypes /\ Running /\ at = "idle"
        BY DEF PoolInv, Complete, Take
  <1>2. /\ queue \in Seq(Command) /\ queue # <<>> /\ Head(queue).act = "warmup" /\ queue' = Tail(queue)
        /\ UNCHANGED <<service, trouble, desired, gen, subs, client, at, plan>>
        BY <1>1 DEF PoolTypes, Complete, Take
  <1>3. PICK c : c = Head(queue)
        OBVIOUS
  <1>4. c \in Command /\ c.act = "warmup"
    <2>1. Head(queue) \in Command
          BY <1>2
    <2> QED BY <1>2, <1>3, <2>1
  <1>5. PICK s : s = c.s
        OBVIOUS
  <1>6. s \in Symbols
        BY <1>4, <1>5 DEF Command
  <1> DEFINE A(o) == Answering(queue, o, gen[o], conn)  B(o) == Answering(queue', o, gen[o], conn)
  <1>7. queue' \in Seq(Command)
        BY <1>2, TakenFirst
  <1>8. ASSUME NEW o \in Symbols
        PROVE  /\ A(o) = {} => B(o) = {}
               /\ 1 \in A(o) <=> s = o /\ c.gen = gen[o] /\ c.conn = conn
               /\ A(o) = {1} => B(o) = {}
               /\ \A i : A(o) = {i} /\ i # 1 => B(o) = {i - 1}
        BY <1>2, <1>3, <1>4, <1>5, TakenFirst
  <1>9. \A o \in Symbols : Expects(warming, loads, queue, o, gen[o], conn)
        BY <1>1 DEF Running
  <1>10. removals = {} /\ joins = {} /\ adds = {}
        BY <1>1 DEF Running, WorkerAgrees
  <1>11. CASE /\ c.conn = conn /\ c.gen = gen[s] /\ s \in desired /\ status[s] = "warming"
              /\ \E full \in BOOLEAN : Finalize(s, c.failed, full)
    <2>1. 1 \in A(s)
          BY <1>6, <1>8, <1>11
    <2>2. s \in warming /\ ~Loading(loads, s) /\ A(s) = {1}
          BY <1>6, <1>9, <2>1 DEF Expects
    <2>3. /\ active' = active \cup {s} /\ warming' = warming \ {s}
          /\ enough' \in {enough \cup {s}, enough \ {s}}
          BY <1>11 DEF Finalize
    <2>4. PICK v \in {"error", "active", "insufficient"} : status' = Mark({s}, v)
          BY <1>11 DEF Finalize
    <2>5. Expects(warming', loads', queue', s, gen'[s], conn')
          BY <1>2, <1>6, <1>8, <2>2, <2>3 DEF Expects, client
    <2>6. ASSUME NEW o \in Symbols \ {s}
          PROVE  Expects(warming', loads', queue', o, gen'[o], conn')
      <3>1. 1 \notin A(o)
            BY <1>8
      <3>2. A(o) = {} => B(o) = {}
            BY <1>8
      <3>3. (\E i : A(o) = {i}) => \E i : B(o) = {i}
            BY <1>8, <3>1
      <3> HIDE DEF A, B
      <3>4. /\ o \in warming => \/ Loading(loads, o) /\ A(o) = {}
                                \/ ~Loading(loads, o) /\ \E i : A(o) = {i}
            /\ o \notin warming => ~Loading(loads, o) /\ A(o) = {}
            BY <1>9 DEF Expects, A
      <3>5. /\ o \in warming' => \/ Loading(loads, o) /\ B(o) = {}
                                 \/ ~Loading(loads, o) /\ \E i : B(o) = {i}
            /\ o \notin warming' => ~Loading(loads, o) /\ B(o) = {}
            BY <2>3, <3>2, <3>3, <3>4
      <3> QED BY <1>2, <3>5 DEF Expects, B, client
    <2>7. PoolTypes'
      <3>1. status' \in [Symbols -> Statuses]
            BY <1>1, <2>4 DEF Mark, Statuses, PoolTypes, TypeOK
      <3> QED BY <1>1, <1>2, <1>6, <1>7, <2>3, <3>1 DEF PoolTypes, TypeOK, service, client, plan
    <2>8. PoolAgrees'
          BY <1>1, <1>2, <1>10, <2>2, <2>3, <2>4 DEF Running, PoolAgrees, Mark, PoolTypes, TypeOK, plan
    <2>9. WorkerAgrees' /\ LoadsAreNew'
          BY <1>1, <1>2 DEF Running, WorkerAgrees, LoadsAreNew, client, plan
    <2> QED BY <1>6, <2>5, <2>6, <2>7, <2>8, <2>9 DEF PoolInv, Running
  <1>12. CASE /\ ~(c.conn = conn /\ c.gen = gen[s] /\ s \in desired /\ status[s] = "warming")
              /\ UNCHANGED <<warming, active, enough, status>>
    <2>1. ASSUME NEW o \in Symbols PROVE 1 \notin A(o)
      <3> SUFFICES ASSUME 1 \in A(o) PROVE FALSE
          OBVIOUS
      <3>1. o = s /\ c.gen = gen[o] /\ c.conn = conn
            BY <1>8
      <3>2. o \in warming
            BY <1>9 DEF Expects
      <3>3. o \in desired /\ status[o] = "warming"
            BY <1>1, <1>10, <3>2 DEF Running, PoolAgrees
      <3> QED BY <1>12, <3>1, <3>3
    <2>2. ASSUME NEW o \in Symbols
          PROVE  Expects(warming', loads', queue', o, gen'[o], conn')
      <3>1. A(o) = {} => B(o) = {}
            BY <1>8
      <3>2. (\E i : A(o) = {i}) => \E i : B(o) = {i}
            BY <1>8, <2>1
      <3>3. Expects(warming, loads, queue, o, gen[o], conn)
            BY <1>9
      <3>4. /\ warming' = warming /\ loads' = loads /\ gen' = gen /\ conn' = conn
            BY <1>2, <1>12 DEF client
      <3> QED BY <3>1, <3>2, <3>3, <3>4 DEF Expects
    <2>3. PoolTypes'
          BY <1>1, <1>2, <1>7, <1>12 DEF PoolTypes, TypeOK, service, client, plan
    <2>4. PoolAgrees' /\ WorkerAgrees' /\ LoadsAreNew'
          BY <1>1, <1>2, <1>12 DEF Running, PoolAgrees, WorkerAgrees, LoadsAreNew, client, plan
    <2> QED BY <2>2, <2>3, <2>4 DEF PoolInv, Running
  <1> QED BY <1>3, <1>5, <1>11, <1>12 DEF Complete

LEMMA BarsUpdatedKeeps == ASSUME PoolInv, BarsUpdated PROVE PoolInv'
  <1>1. PoolTypes /\ Running /\ at = "idle"
        BY DEF PoolInv, BarsUpdated, Take
  <1>2. UNCHANGED <<watch, refused, trouble, stopping, desired, warming, gen,
                    subs, enough, client, at, plan>> /\ handling' = {}
        BY DEF BarsUpdated
  <1>3. /\ queue' \in Seq(Command) /\ LoadsAreNew'
        /\ \A s \in Symbols : Expects(warming', loads', queue', s, gen'[s], conn')
        BY <1>1, <1>2, OthersComeAndGo DEF BarsUpdated, Take, client
  <1>4. PICK s : s = Head(queue).s
        OBVIOUS
  <1>5. s \in Symbols
    <2>1. queue \in Seq(Command) /\ queue # <<>> /\ Head(queue).act = "bars"
          BY <1>1 DEF PoolTypes, BarsUpdated, Take
    <2>2. Head(queue) \in Command
          BY <2>1
    <2> QED BY <1>4, <2>1, <2>2 DEF Command
  <1>6. adds = {}
        BY <1>1 DEF Running, WorkerAgrees
  <1>7. CASE UNCHANGED <<status, active>>
    <2>1. PoolTypes'
          BY <1>1, <1>2, <1>3, <1>7 DEF PoolTypes, TypeOK, client, plan
    <2>2. PoolAgrees' /\ WorkerAgrees'
          BY <1>1, <1>2, <1>7 DEF Running, PoolAgrees, WorkerAgrees, client, plan
    <2> QED BY <1>3, <2>1, <2>2 DEF PoolInv, Running
  <1>8. CASE status[s] # "warming" /\ status' = Mark({s}, "active") /\ active' = active \cup {s}
    <2>1. s \notin warming
          BY <1>1, <1>8 DEF Running, PoolAgrees
    <2>2. PoolTypes'
          BY <1>1, <1>2, <1>3, <1>5, <1>8, <2>1 DEF PoolTypes, TypeOK, Mark, Statuses, client, plan
    <2>3. PoolAgrees' /\ WorkerAgrees'
          BY <1>1, <1>2, <1>5, <1>6, <1>8, <2>1 DEF Running, PoolAgrees, WorkerAgrees, Mark, PoolTypes, TypeOK,
             client, plan
    <2> QED BY <1>3, <2>2, <2>3 DEF PoolInv, Running
  <1> QED BY <1>4, <1>7, <1>8 DEF BarsUpdated

LEMMA HealthKeeps == ASSUME PoolInv, Health PROVE PoolInv'
  <1>1. PoolTypes /\ Running /\ at = "idle"
        BY DEF PoolInv, Health, Take
  <1>2. /\ UNCHANGED <<service, symbols, client, joins, removals, adds>>
        /\ \/ at' = "idle" /\ cmd' = cmd
           \/ at' = "reset" /\ cmd' = "health"
    <2>1. CASE Works /\ UNCHANGED <<at, cmd>>
          BY <1>1, <2>1 DEF Health
    <2>2. CASE at' = "reset" /\ cmd' = "health"
          BY <2>2 DEF Health
    <2> QED BY <2>1, <2>2 DEF Health
  <1>3. /\ queue' \in Seq(Command) /\ LoadsAreNew'
        /\ \A s \in Symbols : Expects(warming', loads', queue', s, gen'[s], conn')
        BY <1>1, <1>2, OthersComeAndGo DEF Health, Take, client, symbols
  <1>4. trouble' \in 0 .. MaxTrouble
    <2>1. trouble \in 0 .. MaxTrouble /\ MaxTrouble \in Nat
          BY <1>1, BoundsAssumption DEF PoolTypes, TypeOK
    <2> QED BY <2>1 DEF Health, Works, Fails, Trouble
  <1>5. PoolTypes'
        BY <1>1, <1>2, <1>3, <1>4 DEF PoolTypes, TypeOK, service, symbols, client
  <1>6. PoolAgrees' /\ WorkerAgrees'
        BY <1>1, <1>2 DEF Running, PoolAgrees, WorkerAgrees, symbols
  <1> QED BY <1>3, <1>5, <1>6 DEF PoolInv, Running

LEMMA StopKeeps == ASSUME PoolInv, Stop PROVE PoolInv'
  <1>1. PoolTypes
        BY DEF PoolInv
  <1>2. queue' \in Seq(Command) /\ conn' \in Nat /\ IsFiniteSet(loads') /\ at' = "stopped"
    <2>1. queue \in Seq(Command) /\ queue # <<>> /\ queue' = Tail(queue)
          BY <1>1 DEF PoolTypes, Stop, Take
    <2> QED BY <1>1, <2>1, TakenFirst, NewConnIsNew, FS_EmptySet DEF Stop
  <1>3. PoolTypes'
        BY <1>1, <1>2 DEF PoolTypes, TypeOK, Stop, service, plan
  <1> QED BY <1>2, <1>3 DEF PoolInv

---------------------------------------------------------------------------
(* What runs beside the worker.                                            *)

LEMMA WarmedUpKeeps == ASSUME PoolInv, WarmedUp PROVE PoolInv'
  <1>1. PoolTypes /\ UNCHANGED <<service, trouble, symbols, conn, link, at, plan>>
        BY DEF PoolInv, WarmedUp
  <1>2. PICK l \in loads, failed \in BOOLEAN :
             /\ loads' = loads \ {l}
             /\ Send([act |-> "warmup", s |-> l.s, gen |-> l.gen, conn |-> l.conn, failed |-> failed])
        BY DEF WarmedUp
  <1>3. PICK x : x = [act |-> "warmup", s |-> l.s, gen |-> l.gen, conn |-> l.conn, failed |-> failed]
        OBVIOUS
  <1>4. l \in Load /\ l.s \in Symbols /\ l.gen \in Nat /\ l.conn \in Nat
        BY <1>1 DEF PoolTypes, TypeOK, Load
  <1>5. x \in Command /\ x.act = "warmup" /\ x.s = l.s /\ x.gen = l.gen /\ x.conn = l.conn
        BY <1>3, <1>4 DEF Command
  <1>6. queue \in Seq(Command) /\ queue' = Append(queue, x) /\ queue' \in Seq(Command)
        BY <1>1, <1>2, <1>3, <1>5 DEF PoolTypes, Send
  <1>7. PoolTypes'
    <2>1. IsFiniteSet(loads') /\ loads' \subseteq Load
          BY <1>1, <1>2, FS_Subset DEF PoolTypes, TypeOK
    <2>2. \A i \in DOMAIN queue' : queue'[i] \in Command
          BY <1>6
    <2> QED BY <1>1, <1>6, <2>1, <2>2 DEF PoolTypes, TypeOK, service, symbols, plan
  <1>8. ASSUME at # "stopped" PROVE Running'
    <2>1. Running
          BY <1>8 DEF PoolInv
    <2>2. l.gen = gen[l.s] /\ l.conn = conn /\ Loading(loads, l.s)
          BY <2>1 DEF Running, LoadsAreNew, Loading
    <2>3. ~Loading(loads', l.s)
      <3> SUFFICES ASSUME NEW k \in loads, k # l, k.s = l.s PROVE FALSE
          BY <1>2 DEF Loading
      <3>1. k \in Load /\ k.gen = l.gen /\ k.conn = l.conn
            BY <1>1, <2>1, <2>2 DEF Running, LoadsAreNew, PoolTypes, TypeOK
      <3> QED BY <1>4, <3>1 DEF Load
    <2>4. Answering(queue, l.s, gen[l.s], conn) = {} /\ l.s \in warming
          BY <1>4, <2>1, <2>2 DEF Running, Expects
    <2>5. Answering(queue', l.s, gen[l.s], conn) = {Len(queue) + 1}
      <3> DEFINE g == gen[l.s]  n == Len(queue) + 1
      <3>1. x.s = l.s /\ x.gen = g /\ x.conn = conn
            BY <1>5, <2>2
      <3> HIDE DEF g, n
      <3>2. Answering(Append(queue, x), l.s, g, conn) = Answering(queue, l.s, g, conn) \cup {n}
            BY <1>5, <1>6, <3>1, SentAnswer DEF n
      <3>3. Answering(queue, l.s, g, conn) = {}
            BY <2>4 DEF g
      <3>4. Answering(queue', l.s, g, conn) = {n}
            BY <1>6, <3>2, <3>3
      <3> QED BY <3>4 DEF g, n
    <2>6. Expects(warming', loads', queue', l.s, gen'[l.s], conn')
          BY <1>1, <2>3, <2>4, <2>5 DEF Expects, symbols
    <2>7. ASSUME NEW o \in Symbols \ {l.s}
          PROVE  Expects(warming', loads', queue', o, gen'[o], conn')
      <3>1. Loading(loads', o) <=> Loading(loads, o)
            BY <1>2 DEF Loading
      <3>2. Answering(queue', o, gen[o], conn) = Answering(queue, o, gen[o], conn)
            BY <1>5, <1>6, SentAnswer
      <3>3. Expects(warming, loads, queue, o, gen[o], conn)
            BY <2>1 DEF Running
      <3> QED BY <1>1, <3>1, <3>2, <3>3 DEF Expects, symbols
    <2>8. LoadsAreNew' /\ PoolAgrees' /\ WorkerAgrees'
          BY <1>1, <1>2, <2>1 DEF Running, LoadsAreNew, PoolAgrees, WorkerAgrees, symbols, plan
    <2> QED BY <1>4, <2>6, <2>7, <2>8 DEF Running
  <1> QED BY <1>1, <1>7, <1>8 DEF PoolInv

(* Commands that other tasks send.                                         *)
LEMMA SendersKeep ==
    ASSUME PoolInv, Poll \/ CheckHealth \/ RequestStop \/ CandleHandled
    PROVE  PoolInv'
  <1>1. /\ PoolTypes /\ handling' \subseteq Symbols /\ stopping' \in BOOLEAN
        /\ UNCHANGED <<watch, refused, trouble, symbols, client, at, plan>>
        BY DEF PoolInv, PoolTypes, TypeOK, Poll, CheckHealth, RequestStop, CandleHandled, service
  <1>2. queue' = queue \/ \E x \in Command : x.act # "warmup" /\ Send(x)
    <2>1. CASE Poll
      <3>1. PICK x : x = [act |-> "reconcile", targets |-> watch]
            OBVIOUS
      <3>2. x \in Command /\ x.act # "warmup"
            BY <1>1, <3>1 DEF Command, PoolTypes, TypeOK
      <3> QED BY <2>1, <3>1, <3>2 DEF Poll
    <2>2. CASE CheckHealth
          BY <2>2 DEF CheckHealth, Command
    <2>3. CASE RequestStop
          BY <2>3 DEF RequestStop, Command
    <2>4. CASE CandleHandled
      <3>1. PICK s \in handling : \/ Send([act |-> "bars", s |-> s, gen |-> gen[s]])
                                  \/ queue' = queue
            BY <2>4 DEF CandleHandled
      <3>2. PICK x : x = [act |-> "bars", s |-> s, gen |-> gen[s]]
            OBVIOUS
      <3>3. x \in Command /\ x.act # "warmup"
            BY <1>1, <3>2 DEF Command, PoolTypes, TypeOK
      <3> QED BY <3>1, <3>2, <3>3
    <2> QED BY <2>1, <2>2, <2>3, <2>4
  <1>3. queue' \in Seq(Command)
    <2>1. queue \in Seq(Command)
          BY <1>1 DEF PoolTypes
    <2> QED BY <1>2, <2>1 DEF Send
  <1>4. PoolTypes'
    <2>1. \A i \in DOMAIN queue' : queue'[i] \in Command
          BY <1>3
    <2> QED BY <1>1, <1>3, <2>1 DEF PoolTypes, TypeOK, symbols, client, plan
  <1>5. ASSUME at # "stopped" PROVE Running'
    <2>1. Running
          BY <1>5 DEF PoolInv
    <2>2. LoadsAreNew' /\ \A s \in Symbols : Expects(warming', loads', queue', s, gen'[s], conn')
      <3>1. CASE queue' = queue
            BY <1>1, <2>1, <3>1, ExpectationsStay DEF symbols, client
      <3>2. CASE \E x \in Command : x.act # "warmup" /\ Send(x)
            BY <1>1, <2>1, <3>2, OthersComeAndGo DEF symbols, client
      <3> QED BY <1>2, <3>1, <3>2
    <2>3. PoolAgrees' /\ WorkerAgrees'
          BY <1>1, <2>1 DEF Running, PoolAgrees, WorkerAgrees, symbols, plan
    <2> QED BY <2>2, <2>3 DEF Running
  <1> QED BY <1>1, <1>4, <1>5 DEF PoolInv

(* A candle, a change of the watch list, a lost link.                      *)
LEMMA OutsideKeeps ==
    ASSUME PoolInv, (\E s \in Trading : Candle(s)) \/ Watch \/ Drop
    PROVE  PoolInv'
  <1>1. PoolTypes /\ UNCHANGED <<desired, active, warming, status, gen, subs, conn, loads, queue, at, plan>>
        BY DEF PoolInv, Candle, Watch, Drop, symbols, client
  <1>2. enough \subseteq enough' /\ enough' \subseteq enough \cup subs
        BY DEF Candle, Watch, Drop, symbols
  <1>3. /\ watch' \subseteq Symbols /\ refused' = refused /\ trouble' \in 0 .. MaxTrouble
        /\ handling' \subseteq Symbols /\ stopping' = stopping /\ link' \in {"none", "good", "broken"}
    <2>1. /\ trouble \in 0 .. MaxTrouble /\ MaxTrouble \in Nat /\ watch \subseteq Symbols
          /\ handling \subseteq Symbols /\ link \in {"none", "good", "broken"} /\ subs \subseteq Symbols
          BY <1>1, BoundsAssumption DEF PoolTypes, TypeOK
    <2>2. CASE \E s \in Trading : Candle(s)
          BY <2>1, <2>2 DEF Candle, client
    <2>3. CASE Watch
          BY <2>1, <2>3 DEF Watch, Trouble, client
    <2>4. CASE Drop
          BY <2>1, <2>4 DEF Drop, Trouble, service
    <2> QED BY <2>2, <2>3, <2>4
  <1>4. PoolTypes'
        BY <1>1, <1>2, <1>3 DEF PoolTypes, TypeOK, plan
  <1>5. ASSUME at # "stopped" PROVE Running'
    <2>1. Running
          BY <1>5 DEF PoolInv
    <2>2. LoadsAreNew' /\ \A s \in Symbols : Expects(warming', loads', queue', s, gen'[s], conn')
          BY <1>1, <2>1, ExpectationsStay
    <2>3. enough' \subseteq subs
          BY <1>2, <2>1 DEF Running, PoolAgrees
    <2>4. WorkerAgrees'
      <3>1. enough' # enough => at \notin {"open", "prepare", "join"}
            BY <2>1 DEF Candle, Watch, Drop, symbols, Running, PoolAgrees, WorkerAgrees
      <3> QED BY <1>1, <2>1, <3>1 DEF Running, WorkerAgrees, plan
    <2> QED BY <1>1, <2>1, <2>2, <2>3, <2>4 DEF Running, PoolAgrees, plan
  <1> QED BY <1>1, <1>4, <1>5 DEF PoolInv

---------------------------------------------------------------------------
(* The invariant, and what follows from it.                                *)

LEMMA PoolKept == PoolInv /\ [Next]_vars => PoolInv'
  <1> SUFFICES ASSUME PoolInv, [Next]_vars PROVE PoolInv'
      OBVIOUS
  <1>1. CASE Connecting
        BY <1>1, ConnectKeeps, ResetKeeps, OpenKeeps, FailuresKeep, PrepareKeeps, JoinKeeps, TurnsKeep
           DEF Connecting
  <1>2. CASE Reconciling
        BY <1>2, ReconcileKeeps, RemoveKeeps, ReadyKeeps, AddKeeps, AddFailsKeeps, TurnsKeep
           DEF Reconciling
  <1>3. CASE Complete \/ BarsUpdated \/ Health \/ Stop
        BY <1>3, CompleteKeeps, BarsUpdatedKeeps, HealthKeeps, StopKeeps
  <1>4. CASE WarmedUp
        BY <1>4, WarmedUpKeeps
  <1>5. CASE Poll \/ CheckHealth \/ RequestStop \/ CandleHandled
        BY <1>5, SendersKeep
  <1>6. CASE (\E s \in Trading : Candle(s)) \/ Watch \/ Drop
        BY <1>6, OutsideKeeps
  <1>7. CASE UNCHANGED vars
    <2>1. PoolTypes'
          BY <1>7 DEF PoolInv, PoolTypes, TypeOK, vars, service, symbols, client, plan
    <2>2. ASSUME at # "stopped" PROVE Running'
      <3>1. Running
            BY <2>2 DEF PoolInv
      <3>2. LoadsAreNew' /\ \A s \in Symbols : Expects(warming', loads', queue', s, gen'[s], conn')
            BY <1>7, <3>1, ExpectationsStay DEF vars, symbols, client
      <3>3. PoolAgrees' /\ WorkerAgrees'
            BY <1>7, <3>1 DEF Running, PoolAgrees, WorkerAgrees, vars, symbols, plan
      <3> QED BY <3>2, <3>3 DEF Running
    <2> QED BY <1>7, <2>1, <2>2 DEF PoolInv, vars
  <1> QED BY <1>1, <1>2, <1>3, <1>4, <1>5, <1>6, <1>7 DEF Next, Worker

(* One load or one answer in the queue is one thing awaited.               *)
LEMMA ExpectedIsAwaited ==
    ASSUME PoolTypes, Running, NEW s \in Symbols
    PROVE  /\ s \in warming => \E c : Awaited(s) = {c}
           /\ s \notin warming => Awaited(s) = {}
  <1>1. Expects(warming, loads, queue, s, gen[s], conn)
        BY DEF Running
  <1>2. \A l \in loads : l.s = s => l.gen = gen[s] /\ l.conn = conn /\ l \in Load
        BY DEF Running, LoadsAreNew, PoolTypes, TypeOK
  <1>3. DOMAIN queue = 1 .. Len(queue)
        BY DEF PoolTypes
  <1>4. \A c : c \in Awaited(s) <=> \/ c \in loads /\ c.s = s
                                    \/ \E i \in Answering(queue, s, gen[s], conn) : c = queue[i]
        BY <1>2, <1>3 DEF Awaited, Answers, Queued, Answering
  <1>5. ASSUME s \notin warming PROVE Awaited(s) = {}
        BY <1>1, <1>4, <1>5 DEF Expects, Loading
  <1>6. CASE s \in warming /\ Loading(loads, s)
    <2>1. Answering(queue, s, gen[s], conn) = {}
          BY <1>1, <1>6 DEF Expects
    <2>2. PICK l \in loads : l.s = s
          BY <1>6 DEF Loading
    <2>3. \A k \in loads : k.s = s => k = l
          BY <1>2, <2>2 DEF Load
    <2>4. Awaited(s) = {l}
          BY <1>4, <2>1, <2>2, <2>3
    <2> QED BY <1>6, <2>4
  <1>7. CASE s \in warming /\ ~Loading(loads, s)
    <2>1. PICK i : Answering(queue, s, gen[s], conn) = {i}
          BY <1>1, <1>7 DEF Expects
    <2>2. PICK c : c = queue[i]
          OBVIOUS
    <2>3. Awaited(s) = {c}
          BY <1>4, <1>7, <2>1, <2>2 DEF Loading
    <2> QED BY <1>7, <2>3
  <1> QED BY <1>5, <1>6, <1>7

(* subscription_manager.py: as long as the worker runs, a symbol is        *)
(* warming exactly when one load of its generation on this connection, or  *)
(* its answer in the queue, is still to come, and no older load runs.      *)
THEOREM WarmUpsAreAwaited == Spec => []WarmupMatches
  <1>1. ASSUME PoolInv PROVE WarmupMatches
    <2> SUFFICES ASSUME at # "stopped"
                 PROVE  /\ \A s \in Symbols : Cardinality(Awaited(s)) = IF s \in warming THEN 1 ELSE 0
                        /\ loads \subseteq UNION {Awaited(s) : s \in Symbols}
        BY DEF WarmupMatches
    <2>1. PoolTypes /\ Running
          BY <1>1 DEF PoolInv
    <2>2. \A c : Cardinality({c}) = 1
          BY FS_Singleton
    <2>3. Cardinality({}) = 0
          BY FS_EmptySet
    <2>4. ASSUME NEW s \in Symbols
          PROVE  Cardinality(Awaited(s)) = IF s \in warming THEN 1 ELSE 0
      <3>1. CASE s \in warming
        <4>1. PICK c : Awaited(s) = {c}
              BY <2>1, <3>1, ExpectedIsAwaited
        <4> QED BY <2>2, <3>1, <4>1
      <3>2. CASE s \notin warming
        <4>1. Awaited(s) = {}
              BY <2>1, <3>2, ExpectedIsAwaited
        <4> QED BY <2>3, <3>2, <4>1
      <3> QED BY <3>1, <3>2
    <2>5. ASSUME NEW l \in loads PROVE l.s \in Symbols /\ l \in Awaited(l.s)
          BY <2>1 DEF Running, LoadsAreNew, PoolTypes, TypeOK, Load, Awaited, Answers
    <2> QED BY <2>4, <2>5
  <1> QED BY <1>1, PoolStarts, PoolKept, PTL DEF Spec

(* subscription_manager.py: the pool is well formed at every step, and a   *)
(* symbol reported active with its bars is subscribed on the connection of *)
(* now, through reconnections, removals and failed additions.              *)
THEOREM ActiveIsServed == Spec => []PoolIsSound
  <1>1. PoolInv => PoolIsSound
        BY DEF PoolInv, PoolTypes, Running, PoolAgrees, PoolIsSound, ActiveIsSubscribed, Genuine
  <1> QED BY <1>1, PoolStarts, PoolKept, PTL DEF Spec

-----------------------------------------------------------------------------
(* The stream                                                              *)

LEMMA EachPart == StreamSpec => Spec /\ StoreSpec /\ LeaderSpec
  <1>1. StreamInit => Init /\ StoreInit /\ LeaderInit
        BY DEF StreamInit
  <1>2. [StreamNext]_streamVars => [Next]_vars /\ [StoreNext]_storeVars /\ [LeaderNext]_leaderVars
        BY DEF StreamNext, streamVars
  <1> QED BY <1>1, <1>2, PTL DEF StreamSpec, Spec, StoreSpec, LeaderSpec

(* subscription_manager.py, candle_handler.py, persistence.py,             *)
(* leader_lock.py: the composed state is well formed, and what the pool    *)
(* reports active is subscribed.                                           *)
THEOREM StreamTyping == StreamSpec => []StreamIsSound
  BY EachPart, ActiveIsServed, StoreTyping, LeaderTyping, PTL DEF StreamIsSound
=============================================================================
