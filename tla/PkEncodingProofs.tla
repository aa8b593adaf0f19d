--------------------------- MODULE PkEncodingProofs ---------------------------
(***************************************************************************)
(* What manifests and samples lose on their way from the agent to the      *)
(* client: nothing of their bytes, and of their times what the rounding    *)
(* takes.  From the bottom up: a number that was written is read; so is a  *)
(* field, whatever comes after it; so are fields one after the other, as   *)
(* many as there are; so is a message.  EncodingInv then says of the       *)
(* system that what a client has is what it read of what the agent wrote,  *)
(* and the properties follow from it.                                      *)
(***************************************************************************)
EXTENDS PkEncoding, FiniteSetTheorems, SequenceTheorems,
        WellFoundedInduction, TLAPS

-----------------------------------------------------------------------------
(* Induction, with a set in the place of a predicate.                       *)

\* A set of numbers that has any has a least.
LEMMA LeastNumber ==
  ASSUME NEW T \in SUBSET Nat, T # {}
  PROVE  \E n \in T : \A m \in T : n <= m
<1>. DEFINE R == StrictSubsetOrdering(Nat)
            U == {0..n : n \in T}
<1>1. IsWellFoundedOn(R, FiniteSubsetsOf(Nat))
  BY FS_StrictSubsetOrderingWellFounded
<1>2. U \subseteq FiniteSubsetsOf(Nat) /\ U # {}
  <2>1. ASSUME NEW n \in T  PROVE  0..n \in FiniteSubsetsOf(Nat)
    <3>1. IsFiniteSet(0..n)
      BY FS_Interval
    <3>. QED BY <3>1 DEF FiniteSubsetsOf
  <2>. QED BY <2>1
<1>. HIDE DEF R
<1>3. PICK x \in U : \A y \in U : ~ (<<y, x>> \in R)
  <2>. HIDE DEF U
  <2>. QED BY <1>1, <1>2, WFMin
<1>4. PICK n \in T : x = 0..n
  OBVIOUS
<1>5. ASSUME NEW m \in T  PROVE  n <= m
  <2>1. ~ (<<0..m, 0..n>> \in R)
    BY <1>3, <1>4
  <2>2. SUFFICES ASSUME m < n PROVE FALSE
    OBVIOUS
  <2>3. 0..m \in SUBSET Nat /\ 0..n \in SUBSET Nat /\ 0..m \subseteq 0..n /\ n \in 0..n /\ n \notin 0..m
    BY <2>2
  <2>4. <<0..m, 0..n>> \in R
    BY <2>3 DEF R, StrictSubsetOrdering
  <2>. QED BY <2>1, <2>4
<1>. QED
  BY <1>5

\* From all smaller numbers to a number.
LEMMA StrongInduction ==
  ASSUME NEW S, \A n \in Nat : (\A m \in Nat : m < n => m \in S) => n \in S
  PROVE  Nat \subseteq S
<1>. SUFFICES ASSUME Nat \ S # {} PROVE FALSE
  OBVIOUS
<1>1. PICK n \in Nat \ S : \A m \in Nat \ S : n <= m
  BY LeastNumber
<1>. QED BY <1>1

\* From each number to the next.
LEMMA Descent ==
  ASSUME NEW S, 0 \in S, \A n \in Nat : n \in S => n + 1 \in S
  PROVE  Nat \subseteq S
<1>1. ASSUME NEW n \in Nat, \A m \in Nat : m < n => m \in S
      PROVE  n \in S
  <2>1. CASE n = 0
    BY <2>1
  <2>2. CASE n # 0
    <3>1. n - 1 \in Nat /\ n - 1 < n
      BY <2>2
    <3>. QED BY <1>1, <3>1
  <2>. QED BY <2>1, <2>2
<1>. QED BY <1>1, StrongInduction

\* What is computed in turns, from the number of the turn and what there was
\* before it.
Nexts(V) == [Nat \X V -> V]

\* Whatever is computed in turns is a function of the number of the turn.
LEMMA TurnsExist ==
  ASSUME NEW V, NEW first \in V, NEW next \in Nexts(V)
  PROVE  \E f \in [Nat -> V] :
           f[0] = first /\ \A k \in Nat : f[k + 1] = next[<<k + 1, f[k]>>]
<1>. DEFINE Run(g, n) == /\ g \in [0..n -> V] /\ g[0] = first
                         /\ \A k \in 1..n : g[k] = next[<<k, g[k - 1]>>]
            run[n \in Nat] == CHOOSE g : Run(g, n)
            f == [n \in Nat |-> run[n][n]]
<1>. USE DEF Nexts
<1>. DEFINE Reached == {n \in Nat : \E g : Run(g, n)}
<1>1. Nat \subseteq Reached
  <2>1. Run([k \in 0..0 |-> first], 0)
    OBVIOUS
  <2>2. ASSUME NEW n \in Nat, NEW g, Run(g, n)  PROVE \E h : Run(h, n + 1)
    <3>. DEFINE h == [k \in 0..(n + 1) |->
                        IF k <= n THEN g[k] ELSE next[<<n + 1, g[n]>>]]
    <3>1. n + 1 \in Nat /\ g[n] \in V /\ <<n + 1, g[n]>> \in Nat \X V
      BY <2>2
    <3>2. h \in [0..(n + 1) -> V] /\ h[0] = first
      BY <2>2, <3>1
    <3>3. ASSUME NEW k \in 1..(n + 1) PROVE h[k] = next[<<k, h[k - 1]>>]
      <4>1. CASE k <= n
        BY <2>2, <4>1
      <4>2. CASE k = n + 1
        <5>1. k - 1 = n /\ h[k - 1] = g[n] /\ h[k] = next[<<n + 1, g[n]>>]
          BY <4>2
        <5>. QED BY <4>2, <5>1
      <4>. QED BY <4>1, <4>2
    <3>. QED BY <3>2, <3>3
  <2>. HIDE DEF Run
  <2>3. 0 \in Reached
    BY <2>1
  <2>4. \A n \in Nat : n \in Reached => n + 1 \in Reached
    BY <2>2
  <2>. HIDE DEF Reached
  <2>. QED BY <2>3, <2>4, Descent
<1>2. ASSUME NEW n \in Nat, NEW g, Run(g, n), NEW m \in Nat, NEW h, Run(h, m)
      PROVE  \A k \in 0..n : k <= m => g[k] = h[k]
  <2>. DEFINE S == {k \in Nat : k <= n /\ k <= m => g[k] = h[k]}
  <2>1. 0 \in S
    BY <1>2
  <2>2. ASSUME NEW k \in S PROVE k + 1 \in S
    <3>. SUFFICES ASSUME k + 1 <= n, k + 1 <= m PROVE g[k + 1] = h[k + 1]
      OBVIOUS
    <3>1. (k + 1) - 1 = k /\ k + 1 \in 1..n /\ k + 1 \in 1..m /\ g[k] = h[k]
      OBVIOUS
    <3>2. /\ g[k + 1] = next[<<k + 1, g[(k + 1) - 1]>>]
          /\ h[k + 1] = next[<<k + 1, h[(k + 1) - 1]>>]
      BY <1>2, <3>1
    <3>. QED BY <3>1, <3>2
  <2>. HIDE DEF S
  <2>3. Nat \subseteq S
    BY <2>1, <2>2, Descent
  <2>. QED
    BY <2>3 DEF S
<1>3. ASSUME NEW n \in Nat PROVE Run(run[n], n)
  <2>. HIDE DEF Run
  <2>1. \E g : Run(g, n)
    BY <1>1
  <2>. QED BY <2>1
<1>4. ASSUME NEW n \in Nat PROVE run[n][n] \in V
  <2>. HIDE DEF run
  <2>. QED BY <1>3
<1>. HIDE DEF Run, run
<1>5. f[0] = first
  BY <1>3 DEF Run
<1>6. ASSUME NEW k \in Nat PROVE f[k + 1] = next[<<k + 1, f[k]>>]
  <2>1. k + 1 \in Nat /\ k + 1 \in 1..(k + 1) /\ (k + 1) - 1 = k
    OBVIOUS
  <2>2. run[k + 1][k + 1] = next[<<k + 1, run[k + 1][(k + 1) - 1]>>]
    BY <1>3, <2>1 DEF Run
  <2>3. run[k + 1][k] = run[k][k]
    <3>1. k <= k + 1 /\ k \in 0..k /\ k \in 0..(k + 1)
      OBVIOUS
    <3>2. Run(run[k], k) /\ Run(run[k + 1], k + 1)
      BY <1>3, <2>1
    <3>. QED BY <1>2, <2>1, <3>1, <3>2
  <2>. QED BY <2>1, <2>2, <2>3
<1>7. f \in [Nat -> V]
  BY <1>4
<1>. HIDE DEF f
<1>. QED
  BY <1>5, <1>6, <1>7
-----------------------------------------------------------------------------
(* Numbers, digit by digit.                                                 *)

\* What is left of a number without its lowest digit is a smaller one.
LEMMA Quotient ==
  ASSUME NEW n \in Nat, n >= Base
  PROVE  /\ n \div Base \in Nat \ {0} /\ n \div Base < n
         /\ n % Base \in 0..Base - 1
         /\ n = (n % Base) + Base * (n \div Base)
<1>. DEFINE B == Base
            q == n \div B
            r == n % B
<1>1. B \in Nat /\ B > 1
  BY BufferAssumption
<1>. HIDE DEF B
<1>2. q \in Nat /\ r \in 0..B - 1 /\ n = B * q + r
  BY <1>1
<1>. HIDE DEF q, r
<1>3. q # 0
  <2>. SUFFICES ASSUME q = 0 PROVE FALSE
    OBVIOUS
  <2>1. B * q = 0
    BY <1>1
  <2>. QED BY <1>1, <1>2, <2>1 DEF B
<1>4. B * q >= 2 * q
  BY <1>1, <1>2
<1>5. q < n
  BY <1>1, <1>2, <1>3, <1>4
<1>6. n = r + B * q
  BY <1>1, <1>2
<1>. QED BY <1>2, <1>3, <1>5, <1>6 DEF B, q, r

\* egg_buffer_write_uint: the recursion has a solution, so that its equation may
\* be used.
LEMMA WriteUintDef ==
  ASSUME NEW n \in Nat
  PROVE  WriteUint[n] = IF n < Base THEN <<n>>
                        ELSE <<Base + (n % Base)>> \o WriteUint[n \div Base]
<1>. DEFINE Of(g, m) == IF m < Base THEN <<m>>
                        ELSE <<Base + (m % Base)>> \o g[m \div Base]
            Run(g, k) == DOMAIN g = 0..k /\ \A m \in 0..k : g[m] = Of(g, m)
            run[k \in Nat] == CHOOSE g : Run(g, k)
            f == [k \in Nat |-> run[k][k]]
<1>1. ASSUME NEW m \in Nat, m >= Base
      PROVE  m \div Base \in 0..m - 1
  BY <1>1, Quotient
<1>2. ASSUME NEW g, NEW h, NEW m \in Nat, m >= Base => g[m \div Base] = h[m \div Base]
      PROVE  Of(g, m) = Of(h, m)
  BY <1>2, BufferAssumption
<1>. HIDE DEF Of
<1>. DEFINE Reached == {k \in Nat : \E g : Run(g, k)}
<1>3. Nat \subseteq Reached
  <2>1. 0 \in Reached
    <3>. DEFINE h == [k \in 0..0 |-> Of(<<>>, 0)]
    <3>1. Of(h, 0) = Of(<<>>, 0)
      BY <1>2, BufferAssumption
    <3>2. Run(h, 0)
      BY <3>1
    <3>. QED BY <3>2
  <2>2. ASSUME NEW k \in Nat, NEW g, Run(g, k)  PROVE \E h : Run(h, k + 1)
    <3>. DEFINE h == [m \in 0..(k + 1) |-> IF m <= k THEN g[m] ELSE Of(g, m)]
    <3>1. ASSUME NEW m \in 0..(k + 1) PROVE Of(h, m) = Of(g, m)
      <4>1. m >= Base => m \div Base \in 0..k
        BY <1>1
      <4>2. m >= Base => h[m \div Base] = g[m \div Base]
        BY <4>1
      <4>. HIDE DEF h
      <4>. QED BY <1>2, <4>2
    <3>2. \A m \in 0..(k + 1) : h[m] = Of(g, m)
      BY <2>2
    <3>3. DOMAIN h = 0..(k + 1)
      OBVIOUS
    <3>. HIDE DEF h
    <3>4. Run(h, k + 1)
      BY <3>1, <3>2, <3>3
    <3>. QED BY <3>4
  <2>. HIDE DEF Run
  <2>3. \A k \in Nat : k \in Reached => k + 1 \in Reached
    BY <2>2
  <2>. HIDE DEF Reached
  <2>. QED BY <2>1, <2>3, Descent
<1>4. ASSUME NEW k \in Nat, NEW g, Run(g, k), NEW l \in Nat, NEW h, Run(h, l)
      PROVE  \A m \in Nat : m <= k /\ m <= l => g[m] = h[m]
  <2>. DEFINE S == {m \in Nat : m <= k /\ m <= l => g[m] = h[m]}
  <2>1. ASSUME NEW m \in Nat, \A o \in Nat : o < m => o \in S
        PROVE  m \in S
    <3>. SUFFICES ASSUME m <= k, m <= l PROVE g[m] = h[m]
      OBVIOUS
    <3>1. m >= Base => g[m \div Base] = h[m \div Base]
      BY <1>1, <2>1
    <3>2. Of(g, m) = Of(h, m)
      BY <1>2, <3>1
    <3>. QED BY <1>4, <3>2
  <2>. HIDE DEF S
  <2>2. Nat \subseteq S
    BY <2>1, StrongInduction
  <2>. QED
    BY <2>2 DEF S
<1>5. ASSUME NEW k \in Nat PROVE Run(run[k], k)
  BY <1>3
<1>. HIDE DEF Run, run
<1>6. \A k \in Nat : f[k] = Of(f, k)
  <2>. SUFFICES ASSUME NEW k \in Nat PROVE f[k] = Of(f, k)
    OBVIOUS
  <2>1. f[k] = Of(run[k], k)
    BY <1>5 DEF Run
  <2>2. k >= Base => run[k][k \div Base] = f[k \div Base]
    BY <1>1, <1>4, <1>5
  <2>3. Of(run[k], k) = Of(f, k)
    <3>. HIDE DEF f
    <3>. QED BY <1>2, <2>2
  <2>. HIDE DEF f
  <2>. QED BY <2>1, <2>3
<1>7. DOMAIN f = Nat /\ f = [k \in Nat |-> f[k]]
  OBVIOUS
<1>. HIDE DEF f
<1>8. f = [k \in Nat |-> Of(f, k)]
  BY <1>6, <1>7
<1>9. WriteUint = [k \in Nat |-> Of(WriteUint, k)]
  <2>1. \E g : g = [k \in Nat |-> Of(g, k)]
    BY <1>8
  <2>. QED BY <2>1 DEF WriteUint, Of
<1>. QED
  BY <1>9 DEF Of

\* Division keeps the order of numbers.
LEMMA QuotientGrows ==
  ASSUME NEW m \in Nat, NEW n \in Nat, m <= n
  PROVE  m \div Base <= n \div Base
<1>. DEFINE B == Base
            p == m \div B
            q == n \div B
<1>1. B \in Nat /\ B > 1
  BY BufferAssumption
<1>. HIDE DEF B
<1>2. /\ p \in Nat /\ p * B <= m
      /\ q \in Nat /\ n < q * B + B
  BY <1>1
<1>. HIDE DEF p, q
<1>. SUFFICES ASSUME p >= q + 1 PROVE FALSE
  BY <1>2 DEF p, q, B
<1>4. p * B >= (q + 1) * B /\ (q + 1) * B = q * B + B
  BY <1>1, <1>2
<1>5. p * B \in Nat /\ q * B \in Nat
  BY <1>1, <1>2
<1>. HIDE DEF p, q, B
<1>. QED BY <1>1, <1>2, <1>4, <1>5

\* Only the last byte of a number has its high bit off.
LEMMA WriteUintShape ==
  ASSUME NEW n \in Nat
  PROVE  /\ WriteUint[n] \in Seq(Byte)
         /\ Len(WriteUint[n]) >= 1
         /\ WriteUint[n][Len(WriteUint[n])] < Base
         /\ \A k \in 1..Len(WriteUint[n]) - 1 : WriteUint[n][k] >= Base
<1>. DEFINE Shape(w) == /\ w \in Seq(Byte) /\ Len(w) >= 1 /\ w[Len(w)] < Base
                        /\ \A k \in 1..Len(w) - 1 : w[k] >= Base
            S == {m \in Nat : Shape(WriteUint[m])}
<1>1. ASSUME NEW m \in Nat, \A o \in Nat : o < m => o \in S
      PROVE  m \in S
  <2>1. CASE m < Base
    <3>1. WriteUint[m] = <<m>> /\ m \in Byte
      <4>1. m \in Byte
        BY <2>1, BufferAssumption DEF Byte
      <4>. QED BY <2>1, <4>1, WriteUintDef
    <3>2. /\ <<m>> \in Seq(Byte) /\ Len(<<m>>) = 1 /\ <<m>>[1] = m
      BY <3>1
    <3>3. Shape(<<m>>)
      BY <2>1, <3>2
    <3>. HIDE DEF Shape
    <3>. QED BY <3>1, <3>3
  <2>2. CASE m >= Base
    <3>. DEFINE w == WriteUint[m \div Base]
                b == Base + (m % Base)
    <3>1. m \div Base \in Nat /\ m \div Base < m /\ m % Base \in 0..Base - 1
      BY <2>2, Quotient
    <3>2. Shape(w)
      BY <1>1, <3>1
    <3>3. b \in Byte /\ b >= Base
      BY <3>1, BufferAssumption DEF Byte
    <3>4. WriteUint[m] = <<b>> \o w
      <4>1. ~(m < Base)
        BY <2>2, BufferAssumption
      <4>. QED BY <4>1, WriteUintDef
    <3>. HIDE DEF b, w
    <3>5. Shape(<<b>> \o w)
      <4>1. /\ <<b>> \o w \in Seq(Byte) /\ Len(<<b>> \o w) = Len(w) + 1
            /\ Len(w) \in Nat
            /\ (<<b>> \o w)[1] = b
            /\ \A k \in 1..Len(w) : (<<b>> \o w)[k + 1] = w[k]
        BY <3>2, <3>3
      <4>2. ASSUME NEW k \in 1..Len(w) PROVE (<<b>> \o w)[k] >= Base
        <5>1. CASE k = 1
          BY <3>3, <4>1, <5>1
        <5>2. CASE k # 1
          <6>1. k - 1 \in 1..Len(w) - 1 /\ (k - 1) + 1 = k
            BY <4>1, <5>2
          <6>. QED BY <3>2, <4>1, <6>1
        <5>. QED BY <5>1, <5>2
      <4>3. (<<b>> \o w)[Len(w) + 1] = w[Len(w)]
        BY <3>2, <4>1
      <4>. QED BY <3>2, <4>1, <4>2, <4>3
    <3>. HIDE DEF Shape
    <3>. QED BY <3>4, <3>5
  <2>. QED BY <2>1, <2>2, BufferAssumption
<1>. HIDE DEF S
<1>2. Nat \subseteq S
  BY <1>1, StrongInduction
<1>. QED
  BY <1>2 DEF S

\* The greater a number, the more bytes it has.
LEMMA WriteUintGrows ==
  ASSUME NEW n \in Nat, NEW m \in Nat, m <= n
  PROVE  Len(WriteUint[m]) <= Len(WriteUint[n])
<1>. DEFINE S == {o \in Nat : \A l \in Nat : l <= o =>
                                Len(WriteUint[l]) <= Len(WriteUint[o])}
<1>1. ASSUME NEW o \in Nat, \A p \in Nat : p < o => p \in S,
             NEW l \in Nat, l <= o
      PROVE  Len(WriteUint[l]) <= Len(WriteUint[o])
  <2>1. CASE l < Base
    <3>1. WriteUint[l] = <<l>>
      BY <2>1, WriteUintDef
    <3>. QED BY <3>1, WriteUintShape
  <2>2. CASE l >= Base
    <3>. DEFINE p == o \div Base
                q == l \div Base
    <3>1. p \in Nat /\ p < o /\ q \in Nat /\ q <= p
      BY <1>1, <2>2, Quotient, QuotientGrows, BufferAssumption
    <3>2. Len(WriteUint[q]) <= Len(WriteUint[p])
      BY <1>1, <3>1
    <3>3. ASSUME NEW k \in Nat, k >= Base
          PROVE  Len(WriteUint[k]) = 1 + Len(WriteUint[k \div Base])
      <4>. DEFINE b == Base + (k % Base)
                  w == WriteUint[k \div Base]
      <4>1. k \div Base \in Nat /\ k % Base \in 0..Base - 1
        BY <3>3, Quotient
      <4>2. w \in Seq(Byte) /\ b \in Byte
        <5>1. w \in Seq(Byte)
          BY <4>1, WriteUintShape
        <5>2. b \in Byte
          BY <4>1, BufferAssumption DEF Byte
        <5>. QED BY <5>1, <5>2
      <4>3. WriteUint[k] = <<b>> \o w
        <5>1. ~(k < Base)
          BY <3>3, BufferAssumption
        <5>. QED BY <5>1, WriteUintDef
      <4>. HIDE DEF b, w
      <4>4. Len(<<b>> \o w) = 1 + Len(w)
        BY <4>2
      <4>. QED BY <4>3, <4>4 DEF w
    <3>4. Len(WriteUint[l]) = 1 + Len(WriteUint[q]) /\ Len(WriteUint[o]) = 1 + Len(WriteUint[p])
      <4>1. o >= Base
        BY <1>1, <2>2, BufferAssumption
      <4>2. Len(WriteUint[o]) = 1 + Len(WriteUint[p])
        BY <3>3, <4>1
      <4>3. Len(WriteUint[l]) = 1 + Len(WriteUint[q])
        BY <2>2, <3>3
      <4>. QED BY <4>2, <4>3
    <3>5. Len(WriteUint[q]) \in Nat /\ Len(WriteUint[p]) \in Nat
      <4>1. WriteUint[q] \in Seq(Byte) /\ WriteUint[p] \in Seq(Byte)
        BY <3>1, WriteUintShape
      <4>. QED BY <4>1
    <3>. HIDE DEF p, q
    <3>. QED BY <3>2, <3>4, <3>5
  <2>. QED BY <2>1, <2>2, BufferAssumption
<1>2. \A o \in Nat : (\A p \in Nat : p < o => p \in S) => o \in S
  BY <1>1
<1>. HIDE DEF S
<1>3. Nat \subseteq S
  BY <1>2, StrongInduction
<1>. QED
  BY <1>3 DEF S

\* egg_buffer_read_uint: the values of the last digits, of one after the other.
LEMMA ValueOfDef ==
  ASSUME NEW s \in Seq(Nat)
  PROVE  \E u \in [0..Len(s) -> Nat] :
           /\ u[0] = 0
           /\ \A k \in 1..Len(s) : u[k] = (s[Len(s) - k + 1] % Base) + Base * u[k - 1]
           /\ ValueOf(s) = u[Len(s)]
<1>. DEFINE n == Len(s)
            digit(k) == s[n - k + 1] % Base
            next == [p \in Nat \X Nat |->
                       IF p[1] \in 1..n THEN digit(p[1]) + Base * p[2] ELSE 0]
<1>1. n \in Nat /\ Base \in Nat \ {0}
  BY BufferAssumption
<1>2. ASSUME NEW k \in 1..n PROVE digit(k) \in Nat
  <2>1. n - k + 1 \in 1..n
    BY <1>1
  <2>2. s[n - k + 1] \in Nat
    BY <2>1
  <2>. QED BY <1>1, <2>2
<1>. HIDE DEF digit
<1>3. next \in [Nat \X Nat -> Nat]
  BY <1>1, <1>2
<1>4. PICK f \in [Nat -> Nat] :
        f[0] = 0 /\ \A k \in Nat : f[k + 1] = next[<<k + 1, f[k]>>]
  <2>. DEFINE V == Nat
  <2>1. 0 \in V /\ next \in Nexts(V)
    BY <1>3 DEF Nexts
  <2>. HIDE DEF next, V
  <2>2. \E f \in [Nat -> V] :
          f[0] = 0 /\ \A k \in Nat : f[k + 1] = next[<<k + 1, f[k]>>]
    BY <2>1, TurnsExist
  <2>. QED BY <2>2 DEF V
<1>. DEFINE g == [k \in 0..n |-> f[k]]
<1>5. ASSUME NEW k \in 1..n PROVE g[k] = digit(k) + Base * g[k - 1]
  <2>1. k - 1 \in Nat /\ k = (k - 1) + 1 /\ k - 1 \in 0..n /\ k \in 0..n /\ k \in Nat
    BY <1>1
  <2>2. f[k] = next[<<k, f[k - 1]>>]
    <3>. HIDE DEF next
    <3>. QED BY <1>4, <2>1
  <2>3. f[k - 1] \in Nat
    BY <2>1
  <2>4. next[<<k, f[k - 1]>>] = digit(k) + Base * f[k - 1]
    BY <2>1, <2>3
  <2>. HIDE DEF next
  <2>. QED BY <2>1, <2>2, <2>4
<1>6. g \in [0..n -> Nat] /\ g[0] = 0
  BY <1>1, <1>4
<1>. HIDE DEF g
<1>7. g = [k \in 0..n |-> IF k = 0 THEN 0 ELSE digit(k) + Base * g[k - 1]]
  <2>1. \A k \in 0..n : g[k] = IF k = 0 THEN 0 ELSE digit(k) + Base * g[k - 1]
    <3>1. \A k \in 0..n : k # 0 => k \in 1..n
      BY <1>1
    <3>. QED BY <1>5, <1>6, <3>1
  <2>. QED BY <1>6, <2>1
<1>. DEFINE Upper[k \in 0..n] == IF k = 0 THEN 0 ELSE digit(k) + Base * Upper[k - 1]
<1>8. ValueOf(s) = Upper[n]
  BY DEF ValueOf, digit
<1>9. Upper = [k \in 0..n |-> IF k = 0 THEN 0 ELSE digit(k) + Base * Upper[k - 1]]
  <2>1. \E h : h = [k \in 0..n |-> IF k = 0 THEN 0 ELSE digit(k) + Base * h[k - 1]]
    BY <1>7
  <2>. QED BY <2>1
<1>. HIDE DEF Upper
<1>. DEFINE S == {k \in Nat : k <= n => Upper[k] = g[k]}
<1>10. 0 \in S
  BY <1>6, <1>9, <1>1
<1>11. ASSUME NEW k \in Nat, k \in S PROVE k + 1 \in S
  <2>. SUFFICES ASSUME k + 1 <= n PROVE Upper[k + 1] = g[k + 1]
    OBVIOUS
  <2>0. Upper[k] = g[k]
    <3>1. k <= n
      BY <1>1
    <3>. QED BY <1>11, <3>1
  <2>. HIDE DEF n
  <2>1. k + 1 \in 0..n /\ k + 1 # 0 /\ (k + 1) - 1 = k /\ k + 1 \in 1..n /\ Upper[k] = g[k]
    BY <1>1, <2>0
  <2>2. Upper[k + 1] = digit(k + 1) + Base * Upper[(k + 1) - 1]
    <3>. DEFINE l == k + 1
    <3>1. l \in 0..n /\ l # 0
      BY <2>1
    <3>. HIDE DEF l
    <3>2. Upper[l] = digit(l) + Base * Upper[l - 1]
      BY <1>9, <3>1
    <3>. QED BY <3>2 DEF l
  <2>3. g[k + 1] = digit(k + 1) + Base * g[(k + 1) - 1]
    BY <1>5, <2>1
  <2>. QED BY <2>1, <2>2, <2>3
<1>. HIDE DEF S
<1>12. Nat \subseteq S
  BY <1>10, <1>11, Descent
<1>13. Upper[n] = g[n]
  BY <1>1, <1>12 DEF S
<1>. QED
  BY <1>5, <1>6, <1>8, <1>13 DEF digit
LEMMA BytesAreNumbers ==
  ASSUME NEW s \in Seq(Byte)
  PROVE  s \in Seq(Nat)
<1>1. Len(s) \in Nat /\ s \in [1..Len(s) -> Byte]
  OBVIOUS
<1>2. Byte \subseteq Nat
  BY BufferAssumption DEF Byte
<1>3. s \in [1..Len(s) -> Nat]
  BY <1>1, <1>2
<1>. QED BY <1>1, <1>3, SeqDef

\* A byte is a number of one digit.
LEMMA ValueOfOne ==
  ASSUME NEW d \in Nat, d < Base
  PROVE  ValueOf(<<d>>) = d
<1>. DEFINE s == <<d>>
<1>1. s \in Seq(Nat) /\ Len(s) = 1 /\ s[1] = d
  OBVIOUS
<1>. HIDE DEF s
<1>2. PICK u \in [0..Len(s) -> Nat] :
        /\ u[0] = 0
        /\ \A k \in 1..Len(s) : u[k] = (s[Len(s) - k + 1] % Base) + Base * u[k - 1]
        /\ ValueOf(s) = u[Len(s)]
  BY <1>1, ValueOfDef
<1>3. u[1] = (s[1] % Base) + Base * u[0]
  BY <1>1, <1>2
<1>4. d % Base = d /\ Base * 0 = 0
  BY BufferAssumption
<1>. QED BY <1>1, <1>2, <1>3, <1>4 DEF s

\* A byte more in front of a number is a digit below its lowest.
LEMMA ValueOfMore ==
  ASSUME NEW d \in Nat, NEW s \in Seq(Nat)
  PROVE  /\ ValueOf(s) \in Nat
         /\ ValueOf(<<d>> \o s) = (d % Base) + Base * ValueOf(s)
<1>. DEFINE n == Len(s)
            t == <<d>> \o s
<1>1. /\ n \in Nat /\ t \in Seq(Nat) /\ Len(t) = n + 1 /\ t[1] = d
      /\ \A k \in 1..n : t[k + 1] = s[k]
  OBVIOUS
<1>2. PICK u \in [0..Len(s) -> Nat] :
        /\ u[0] = 0
        /\ \A k \in 1..Len(s) : u[k] = (s[Len(s) - k + 1] % Base) + Base * u[k - 1]
        /\ ValueOf(s) = u[Len(s)]
  BY ValueOfDef
<1>. HIDE DEF t
<1>3. PICK v \in [0..Len(t) -> Nat] :
        /\ v[0] = 0
        /\ \A k \in 1..Len(t) : v[k] = (t[Len(t) - k + 1] % Base) + Base * v[k - 1]
        /\ ValueOf(t) = v[Len(t)]
  BY <1>1, ValueOfDef
<1>. DEFINE S == {k \in Nat : k <= n => v[k] = u[k]}
<1>4. 0 \in S
  BY <1>1, <1>2, <1>3
<1>5. ASSUME NEW k \in Nat, k \in S PROVE k + 1 \in S
  <2>. SUFFICES ASSUME k + 1 <= n PROVE v[k + 1] = u[k + 1]
    OBVIOUS
  <2>1. v[k] = u[k]
    <3>1. k <= n
      BY <1>1
    <3>. QED BY <1>5, <3>1
  <2>. HIDE DEF S
  <2>2. n - k \in 1..n /\ k + 1 \in 1..n /\ k + 1 \in 1..(n + 1) /\ (k + 1) - 1 = k
        /\ n - (k + 1) + 1 = n - k /\ (n + 1) - (k + 1) + 1 = (n - k) + 1
    BY <1>1
  <2>3. u[k + 1] = (s[n - k] % Base) + Base * u[k]
    BY <1>2, <2>2
  <2>4. v[k + 1] = (t[(n - k) + 1] % Base) + Base * v[k]
    BY <1>1, <1>3, <2>2
  <2>5. t[(n - k) + 1] = s[n - k]
    BY <1>1, <2>2
  <2>. QED BY <2>1, <2>3, <2>4, <2>5
<1>. HIDE DEF S
<1>6. Nat \subseteq S
  BY <1>4, <1>5, Descent
<1>7. v[n] = u[n]
  <2>1. n \in S /\ n <= n
    BY <1>1, <1>6
  <2>. QED BY <2>1 DEF S
<1>8. v[n + 1] = (t[1] % Base) + Base * v[n]
  <2>1. n + 1 \in 1..Len(t) /\ Len(t) - (n + 1) + 1 = 1 /\ (n + 1) - 1 = n
    BY <1>1
  <2>. QED BY <1>3, <2>1
<1>9. u[n] \in Nat
  BY <1>1, <1>2
<1>. QED BY <1>1, <1>2, <1>3, <1>7, <1>8, <1>9 DEF t

\* What was written is read.
LEMMA ValueOfWritten ==
  ASSUME NEW n \in Nat
  PROVE  ValueOf(WriteUint[n]) = n
<1>. DEFINE S == {m \in Nat : ValueOf(WriteUint[m]) = m}
<1>1. ASSUME NEW m \in Nat, \A o \in Nat : o < m => o \in S
      PROVE  m \in S
  <2>1. CASE m < Base
    <3>1. WriteUint[m] = <<m>>
      BY <2>1, WriteUintDef
    <3>. QED BY <2>1, <3>1, ValueOfOne
  <2>2. CASE ~(m < Base)
    <3>. DEFINE w == WriteUint[m \div Base]
                b == Base + (m % Base)
    <3>1. /\ m \div Base \in Nat /\ m \div Base < m /\ m % Base \in 0..Base - 1
          /\ m = (m % Base) + Base * (m \div Base)
      BY <2>2, Quotient, BufferAssumption
    <3>2. WriteUint[m] = <<b>> \o w
      BY <2>2, WriteUintDef
    <3>3. ValueOf(w) = m \div Base
      BY <1>1, <3>1
    <3>4. w \in Seq(Nat)
      BY <3>1, WriteUintShape, BytesAreNumbers
    <3>5. b \in Nat /\ b % Base = m % Base
      <4>. DEFINE B == Base
                  r == m % Base
      <4>1. B \in Nat /\ B > 1 /\ r \in 0..B - 1
        BY <3>1, BufferAssumption
      <4>. HIDE DEF B, r
      <4>2. B + r \in Nat /\ (B + r) % B = r
        BY <4>1
      <4>. QED BY <4>2 DEF B, r
    <3>. HIDE DEF b, w
    <3>6. ValueOf(<<b>> \o w) = (b % Base) + Base * ValueOf(w)
      BY <3>4, <3>5, ValueOfMore
    <3>. QED BY <3>1, <3>2, <3>3, <3>5, <3>6
  <2>. QED BY <2>1, <2>2
<1>. HIDE DEF S
<1>2. Nat \subseteq S
  BY <1>1, StrongInduction
<1>. QED
  BY <1>2 DEF S

\* A number that fits in a word is read as it was written, and what was
\* written after it is left.
LEMMA VarintSurvives ==
  ASSUME NEW word \in Nat, NEW n \in Nat, n < word, NEW rest \in Seq(Byte)
  PROVE  /\ WriteUint[n] \o rest \in Seq(Byte)
         /\ ReadVarint(WriteUint[n] \o rest, word) = Got(n, rest)
<1>. DEFINE w == WriteUint[n]
            bytes == w \o rest
            l == Len(w)
            I == {i \in 1..Len(bytes) : bytes[i] < Base}
<1>1. /\ w \in Seq(Byte) /\ l >= 1 /\ w[l] < Base
      /\ \A k \in 1..l - 1 : w[k] >= Base
  BY WriteUintShape
<1>2. l <= Len(WriteUint[word - 1])
  <2>1. word - 1 \in Nat /\ n <= word - 1
    OBVIOUS
  <2>. QED BY <2>1, WriteUintGrows
<1>3. ValueOf(w) = n
  BY ValueOfWritten
<1>. HIDE DEF w
<1>4. /\ bytes \in Seq(Byte) /\ l \in Nat /\ l \in 1..Len(bytes)
      /\ \A k \in 1..l : bytes[k] = w[k]
      /\ SubSeq(bytes, 1, l) = w /\ SubSeq(bytes, l + 1, Len(bytes)) = rest
  BY <1>1
<1>. HIDE DEF bytes
<1>5. l \in I /\ \A i \in I : l <= i
  <2>1. l \in I
    BY <1>1, <1>4
  <2>2. ASSUME NEW i \in I, i < l PROVE FALSE
    <3>1. i \in 1..l - 1 /\ i \in 1..l /\ bytes[i] < Base
      BY <1>4, <2>2
    <3>2. w[i] >= Base /\ w[i] < Base
      BY <1>1, <1>4, <3>1
    <3>3. w[i] \in Nat /\ Base \in Nat
      <4>1. w[i] \in Byte
        BY <1>1, <3>1
      <4>. QED BY <4>1, BufferAssumption DEF Byte
    <3>. QED BY <3>2, <3>3
  <2>. QED BY <2>1, <2>2, <1>4
<1>. HIDE DEF l
<1>6. SelectInSeq(bytes, LAMBDA b : b < Base) = l
  <2>1. I \subseteq Nat
    BY <1>4
  <2>. DEFINE m == CHOOSE x \in I : \A y \in I : x <= y
  <2>. HIDE DEF I
  <2>2. m \in I /\ \A y \in I : m <= y
    BY <1>5
  <2>. HIDE DEF m
  <2>3. m = l
    BY <1>5, <2>1, <2>2
  <2>. QED BY <1>5, <2>3 DEF SelectInSeq, Min, m, I
<1>7. Fits(l, word) /\ l # 0
  BY <1>2, <1>4 DEF Fits
<1>8. n % word = n
  OBVIOUS
<1>9. ReadVarint(bytes, word) = Got(n, rest)
  BY <1>3, <1>4, <1>6, <1>7, <1>8 DEF ReadVarint
<1>. QED
  BY <1>4, <1>9 DEF bytes, w
\* egg_buffer_write_int and egg_buffer_read_int: folding the sign of a number
\* in and out gives the number.
THEOREM SignsAreKept == \A i \in Int : UnZigZag(ZigZag(i)) = i
  BY DEF ZigZag, UnZigZag

\* Folded, what fits in a gint fits in the guint that carries it.
THEOREM FoldedFits == \A i \in Int32 : ZigZag(i) \in Uint
  BY BufferAssumption DEF ZigZag, Int32, Uint

\* egg_buffer_write_tag and egg_buffer_read_tag: a tag is of three bits and
\* does not spill into the field.
THEOREM TagsAreKept ==
  \A field \in Nat, tag \in 0 .. 7 :
    FieldOf(TagOf(field, tag)) = [field |-> field, tag |-> tag]
  BY DEF FieldOf, TagOf

-----------------------------------------------------------------------------
(* Times *)

\* A struct timespec with a nanosecond part that is one.
Times == [sec : Int, nsec : 0 .. NsecPerSec - 1]

LEMMA PerSec == NsecPerSec \in Nat \ {0} /\ NsecPerSec = NsecPerUsec * UsecPerSec
  BY TimeAssumption DEF NsecPerSec

\* egg-time.h: a difference is a time, and as long as what it is taken of.
THEOREM SubtractIsExact ==
  \A x, y \in Times :
    /\ timespec_subtract(x, y) \in Times
    /\ Nsec(timespec_subtract(x, y)) = Nsec(x) - Nsec(y)
<1> SUFFICES ASSUME NEW x \in Times, NEW y \in Times
             PROVE  /\ timespec_subtract(x, y) \in Times
                    /\ Nsec(timespec_subtract(x, y)) = Nsec(x) - Nsec(y)
  OBVIOUS
<1> DEFINE N == NsecPerSec
<1>1. N \in Nat \ {0}
  BY PerSec
<1>2. /\ x = Timespec(x.sec, x.nsec) /\ x.sec \in Int /\ x.nsec \in 0 .. N - 1
      /\ y = Timespec(y.sec, y.nsec) /\ y.sec \in Int /\ y.nsec \in 0 .. N - 1
  BY DEF Times, Timespec
<1> HIDE DEF N
<1>3. CASE x.nsec < y.nsec
  <2>1. timespec_subtract(x, y)
          = [sec |-> x.sec - y.sec - 1, nsec |-> x.nsec - y.nsec + N]
    BY <1>3 DEF timespec_subtract, Timespec, N
  <2>2. x.nsec - y.nsec + N \in 0 .. N - 1
    BY <1>1, <1>2, <1>3
  <2>3. (x.sec - y.sec - 1) * N + (x.nsec - y.nsec + N)
          = (x.sec * N + x.nsec) - (y.sec * N + y.nsec)
    BY <1>1, <1>2
  <2> QED
    BY <2>1, <2>2, <2>3, <1>2 DEF Nsec, Times, N
<1>4. CASE ~(x.nsec < y.nsec)
  <2>1. timespec_subtract(x, y)
          = [sec |-> x.sec - y.sec, nsec |-> x.nsec - y.nsec]
    BY <1>4 DEF timespec_subtract, Timespec
  <2>2. x.nsec - y.nsec \in 0 .. N - 1
    BY <1>1, <1>2, <1>4
  <2>3. (x.sec - y.sec) * N + (x.nsec - y.nsec)
          = (x.sec * N + x.nsec) - (y.sec * N + y.nsec)
    BY <1>1, <1>2
  <2> QED
    BY <2>1, <2>2, <2>3, <1>2 DEF Nsec, Times, N
<1> QED
  BY <1>3, <1>4

\* A sum is as long as its parts, although the carry may leave a whole second
\* of nanoseconds standing.
THEOREM AddIsExact ==
  \A x, y \in Times : Nsec(timespec_add(x, y)) = Nsec(x) + Nsec(y)
<1> SUFFICES ASSUME NEW x \in Times, NEW y \in Times
             PROVE  Nsec(timespec_add(x, y)) = Nsec(x) + Nsec(y)
  OBVIOUS
<1> DEFINE N == NsecPerSec
<1>1. N \in Nat \ {0}
  BY PerSec
<1>2. /\ x.sec \in Int /\ x.nsec \in Int
      /\ y.sec \in Int /\ y.nsec \in Int
  BY <1>1 DEF Times, N
<1> HIDE DEF N
<1>3. /\ (x.sec + y.sec + 1) * N + (x.nsec + y.nsec - N)
           = (x.sec * N + x.nsec) + (y.sec * N + y.nsec)
      /\ (x.sec + y.sec) * N + (x.nsec + y.nsec)
           = (x.sec * N + x.nsec) + (y.sec * N + y.nsec)
  BY <1>1, <1>2
<1> QED
  BY <1>2, <1>3 DEF timespec_add, Timespec, Nsec, N

LEMMA Division ==
  ASSUME NEW a \in Nat, NEW d \in Nat \ {0}
  PROVE  /\ a \div d \in Nat
         /\ (a \div d) * d <= a
         /\ a < (a \div d) * d + d
  OBVIOUS

\* How far what is told, tell, is behind a, if b and c are the two times of the
\* manifest, and exact and sent the distances that a has and that were sent.
LEMMA Behind ==
  ASSUME NEW a \in Int, NEW b \in Int, NEW c \in Int, NEW tell \in Int,
         NEW exact \in Int, NEW sent \in Int, NEW unit \in Int, NEW K \in Nat \ {0},
         tell = sent + c, b - c \in 0 .. K - 1,
         exact <= a - b, a - b < exact + K,
         sent <= exact, exact <= sent + unit - K
  PROVE  a - tell \in 0 .. unit + K - 1
  OBVIOUS

LEMMA Product == \A a, b \in Nat : a * b \in Nat
  OBVIOUS

\* The microseconds of a time that is not before the Epoch, rounded down.
Usec(ts) == ts.sec * UsecPerSec + ts.nsec \div NsecPerUsec

\* timespec_to_usec leaves out less than a microsecond.
LEMMA UsecRoundsDown ==
  ASSUME NEW ts \in Times, Nsec(ts) >= 0
  PROVE  /\ Usec(ts) \in Nat
         /\ Usec(ts) * NsecPerUsec <= Nsec(ts)
         /\ Nsec(ts) < Usec(ts) * NsecPerUsec + NsecPerUsec
<1> DEFINE K == NsecPerUsec
           S == UsecPerSec
           q == ts.nsec \div K
<1>1. K \in Nat \ {0} /\ S \in Nat \ {0} /\ NsecPerSec = K * S
  BY TimeAssumption DEF NsecPerSec
<1>2. ts.sec \in Int /\ ts.nsec \in Nat /\ ts.nsec < K * S
  BY <1>1, PerSec DEF Times
<1>3. q \in Nat /\ q * K <= ts.nsec /\ ts.nsec < q * K + K
  BY <1>1, <1>2, Division
<1>4. Nsec(ts) = ts.sec * (K * S) + ts.nsec
  BY <1>1 DEF Nsec
<1>5. Usec(ts) = ts.sec * S + q
  BY DEF Usec
<1> HIDE DEF K, S, q
<1>6. ts.sec >= 0
  <2> SUFFICES ASSUME ts.sec <= -1 PROVE FALSE
    BY <1>2
  <2>1. ts.sec * (K * S) <= -(K * S)
    BY <1>1, <1>2, Product
  <2> QED
    BY <2>1, <1>1, <1>2, <1>4, Product
<1>7. Usec(ts) \in Nat
  BY <1>1, <1>2, <1>3, <1>5, <1>6
<1>8. Usec(ts) * K = ts.sec * (K * S) + q * K
  BY <1>1, <1>2, <1>3, <1>5
<1>9. ts.sec * (K * S) \in Int /\ q * K \in Int
  BY <1>1, <1>2, <1>3
<1> QED
  BY <1>1, <1>2, <1>3, <1>4, <1>7, <1>8, <1>9 DEF K

\* timespec_from_usec is exact.
LEMMA FromUsec ==
  ASSUME NEW u \in Nat
  PROVE  /\ timespec_from_usec(u) \in Times
         /\ Nsec(timespec_from_usec(u)) = u * NsecPerUsec
<1> DEFINE K == NsecPerUsec
           S == UsecPerSec
           q == u \div S
           r == u % S
<1>1. K \in Nat \ {0} /\ S \in Nat \ {0} /\ NsecPerSec = K * S
  BY TimeAssumption DEF NsecPerSec
<1>2. q \in Nat /\ r \in 0 .. S - 1 /\ u = q * S + r
  BY <1>1
<1>3. timespec_from_usec(u) = [sec |-> q, nsec |-> r * K]
  BY DEF timespec_from_usec, Timespec
<1> HIDE DEF K, S, q, r
<1>4. r * K \in 0 .. K * S - 1
  <2>1. r * K <= (S - 1) * K
    BY <1>1, <1>2
  <2>2. (S - 1) * K = K * S - K
    BY <1>1
  <2> QED
    BY <2>1, <2>2, <1>1, <1>2, Product
<1>5. q * (K * S) + r * K = u * K
  BY <1>1, <1>2
<1> QED
  BY <1>1, <1>2, <1>3, <1>4, <1>5 DEF Times, Nsec, K

-----------------------------------------------------------------------------
(* What a program is told of the time of a sample *)

\* A sample's time and the two of its manifest, the agent's and the client's:
\* the sample is not before the manifest, and its distance fits in the guint64
\* that carries it.
Sound(sts, mts, km) ==
  /\ sts \in Times /\ mts \in Times /\ km.ts \in Times
  /\ km.resolution \in PkaResolution
  /\ Nsec(sts) >= Nsec(mts)
  /\ Nsec(mts) - Nsec(km.ts) \in 0 .. NsecPerUsec - 1
  /\ Usec(timespec_subtract(sts, mts)) < LongWord

Sent(sts, mts, km) ==
  pka_resolution_apply(km.resolution, timespec_subtract(sts, mts))

\* What is sent of a distance is that many whole units of it, and what is told
\* is that many of them after the manifest.
LEMMA SentAndTold ==
  ASSUME NEW sts, NEW mts, NEW km, Sound(sts, mts, km)
  PROVE  LET u == Usec(timespec_subtract(sts, mts))
             unit == Unit[km.resolution]
             n == Sent(sts, mts, km)
         IN  /\ u \in Nat /\ unit \in Nat \ {0} /\ n \in Nat
             /\ n = u \div unit
             /\ n * unit \in Nat /\ n * unit <= u /\ u < n * unit + unit
             /\ Nsec(DecodeTime(n, km))
                  = (n * unit) * NsecPerUsec + Nsec(km.ts)
<1> DEFINE d == timespec_subtract(sts, mts)
           u == Usec(d)
           unit == Unit[km.resolution]
           n == Sent(sts, mts, km)
<1>1. d \in Times /\ Nsec(d) = Nsec(sts) - Nsec(mts)
  BY SubtractIsExact DEF Sound
<1>2. Nsec(sts) \in Int /\ Nsec(mts) \in Int
  BY PerSec DEF Sound, Times, Nsec
<1>3. u \in Nat /\ u < LongWord
  BY <1>1, <1>2, UsecRoundsDown DEF Sound
<1>4. unit \in Nat \ {0}
  BY ResolutionAssumption DEF Sound, PkaResolution
<1>5. LongWord \in Nat \ {0}
  BY BufferAssumption
<1>6. n = u \div unit
  <2>1. timespec_to_usec(d, LongWord) = u % LongWord
    BY DEF timespec_to_usec, Usec
  <2>2. u % LongWord = u
    BY <1>3, <1>5
  <2> QED
    BY <2>1, <2>2 DEF Sent, pka_resolution_apply
<1>7. n \in Nat /\ n * unit <= u /\ u < n * unit + unit
  BY <1>3, <1>4, <1>6, Division
<1>8. n * unit \in Nat /\ (n * unit) % LongWord = n * unit
  <2>1. n * unit \in Nat
    BY <1>4, <1>7, Product
  <2> QED
    BY <2>1, <1>3, <1>5, <1>7
<1>9. Nsec(DecodeTime(n, km)) = (n * unit) * NsecPerUsec + Nsec(km.ts)
  <2>1. DecodeTime(n, km) = timespec_add(timespec_from_usec(n * unit), km.ts)
    BY <1>8 DEF DecodeTime
  <2> QED
    BY <2>1, <1>8, FromUsec, AddIsExact DEF Sound
<1> QED
  BY <1>3, <1>4, <1>6, <1>7, <1>8, <1>9

\* pka-encoder.c:114 and pk-sample.c:118: whatever the resolution, what is told
\* is less than a unit of it and a microsecond early, and never late.
THEOREM ToldTimesAreClose ==
  \A sts, mts, km :
    Sound(sts, mts, km) =>
      Nsec(sts) - Nsec(DecodeTime(Sent(sts, mts, km), km)) \in
        0 .. (Unit[km.resolution] + 1) * NsecPerUsec - 1
<1> SUFFICES ASSUME NEW sts, NEW mts, NEW km, Sound(sts, mts, km)
             PROVE  Nsec(sts) - Nsec(DecodeTime(Sent(sts, mts, km), km)) \in
                      0 .. (Unit[km.resolution] + 1) * NsecPerUsec - 1
  OBVIOUS
<1> DEFINE d == timespec_subtract(sts, mts)
           u == Usec(d)
           unit == Unit[km.resolution]
           n == Sent(sts, mts, km)
           v == n * unit
           K == NsecPerUsec
           a == Nsec(sts)
           b == Nsec(mts)
           c == Nsec(km.ts)
           t == Nsec(DecodeTime(n, km))
<1>1. /\ u \in Nat /\ unit \in Nat \ {0}
      /\ v \in Nat /\ v <= u /\ u < v + unit
      /\ t = v * K + c
  BY SentAndTold
<1>2. d \in Times /\ Nsec(d) = a - b
  BY SubtractIsExact DEF Sound
<1>3. a \in Int /\ b \in Int /\ c \in Int
  BY PerSec DEF Sound, Times, Nsec
<1>4. a >= b /\ b - c \in 0 .. K - 1 /\ K \in Nat \ {0}
  BY TimeAssumption DEF Sound
<1>5. u * K <= a - b /\ a - b < u * K + K
  BY <1>2, <1>3, <1>4, UsecRoundsDown
<1> HIDE DEF d, u, unit, n, v, K, a, b, c, t
<1>6. v * K <= u * K /\ u * K <= (v + unit - 1) * K
  BY <1>1, <1>4
<1>7. (v + unit - 1) * K = v * K + unit * K - K /\ (unit + 1) * K = unit * K + K
  BY <1>1, <1>4
<1>8. v * K \in Int /\ u * K \in Int /\ unit * K \in Int
  BY <1>1, <1>4
<1>9. a - t \in 0 .. unit * K + K - 1
  <2> DEFINE exact == u * K
             sent == v * K
             long == unit * K
  <2>1. exact \in Int /\ sent \in Int /\ long \in Int /\ t = sent + c /\ t \in Int
    BY <1>1, <1>3, <1>8
  <2>2. exact <= a - b /\ a - b < exact + K
    BY <1>5
  <2>3. sent <= exact /\ exact <= sent + long - K
    BY <1>6, <1>7
  <2> HIDE DEF exact, sent, long
  <2>4. a - t \in 0 .. long + K - 1
    BY <2>1, <2>2, <2>3, <1>3, <1>4, Behind
  <2> QED
    BY <2>4 DEF long
<1>10. unit * K + K - 1 = (unit + 1) * K - 1
  BY <1>1, <1>4, <1>7, <1>8
<1>11. a - t \in 0 .. (unit + 1) * K - 1
  BY <1>9, <1>10
<1> QED
  BY <1>11 DEF a, t, unit, K, n

\* Of two samples that the clock dates after their manifest, the one of the later
\* date is not told the earlier one.
THEOREM ToldTimesKeepOrder ==
  \A s1, s2, mts, km :
    Sound(s1, mts, km) /\ Sound(s2, mts, km) /\ Nsec(s1) <= Nsec(s2) =>
      Nsec(DecodeTime(Sent(s1, mts, km), km)) <=
        Nsec(DecodeTime(Sent(s2, mts, km), km))
<1> SUFFICES ASSUME NEW s1, NEW s2, NEW mts, NEW km,
                    Sound(s1, mts, km), Sound(s2, mts, km),
                    Nsec(s1) <= Nsec(s2)
             PROVE  Nsec(DecodeTime(Sent(s1, mts, km), km)) <=
                      Nsec(DecodeTime(Sent(s2, mts, km), km))
  OBVIOUS
<1> DEFINE u1 == Usec(timespec_subtract(s1, mts))
           u2 == Usec(timespec_subtract(s2, mts))
           unit == Unit[km.resolution]
           n1 == Sent(s1, mts, km)
           n2 == Sent(s2, mts, km)
           K == NsecPerUsec
           c == Nsec(km.ts)
           e1 == Nsec(s1) - Nsec(mts)
           e2 == Nsec(s2) - Nsec(mts)
<1>1. /\ u1 \in Nat /\ unit \in Nat \ {0} /\ n1 \in Nat
      /\ n1 * unit <= u1 /\ u1 < n1 * unit + unit
      /\ Nsec(DecodeTime(n1, km)) = (n1 * unit) * K + c
  BY SentAndTold
<1>2. /\ u2 \in Nat /\ n2 \in Nat
      /\ n2 * unit <= u2 /\ u2 < n2 * unit + unit
      /\ Nsec(DecodeTime(n2, km)) = (n2 * unit) * K + c
  BY SentAndTold
<1>3. K \in Nat \ {0}
  BY TimeAssumption
<1>4. c \in Int /\ Nsec(s1) \in Int /\ Nsec(s2) \in Int /\ Nsec(mts) \in Int
  BY PerSec DEF Sound, Times, Nsec
<1>5. e1 <= e2 /\ e1 \in Nat /\ e2 \in Nat
  BY <1>4 DEF Sound
<1>6. u1 * K <= e1 /\ e1 < u1 * K + K /\ u2 * K <= e2 /\ e2 < u2 * K + K
  BY <1>5, SubtractIsExact, UsecRoundsDown DEF Sound
<1> HIDE DEF u1, u2, unit, n1, n2, K, c, e1, e2
<1>7. u1 <= u2
  <2> SUFFICES ASSUME u1 >= u2 + 1 PROVE FALSE
    BY <1>1, <1>2
  <2>1. u1 * K >= (u2 + 1) * K /\ (u2 + 1) * K = u2 * K + K
    BY <1>1, <1>2, <1>3
  <2>2. u1 * K \in Int /\ u2 * K \in Int
    BY <1>1, <1>2, <1>3
  <2> QED
    BY <2>1, <2>2, <1>3, <1>5, <1>6
<1>8. n1 <= n2
  <2> SUFFICES ASSUME n1 >= n2 + 1 PROVE FALSE
    BY <1>1, <1>2
  <2>1. n1 * unit >= (n2 + 1) * unit /\ (n2 + 1) * unit = n2 * unit + unit
    BY <1>1, <1>2
  <2>2. n1 * unit \in Int /\ n2 * unit \in Int
    BY <1>1, <1>2
  <2> QED
    BY <2>1, <2>2, <1>1, <1>2, <1>7
<1>9. n1 * unit <= n2 * unit /\ n1 * unit \in Nat /\ n2 * unit \in Nat
  BY <1>1, <1>2, <1>8, Product
<1>10. (n1 * unit) * K <= (n2 * unit) * K
       /\ (n1 * unit) * K \in Int /\ (n2 * unit) * K \in Int
  BY <1>3, <1>9
<1> QED
  BY <1>1, <1>2, <1>4, <1>10 DEF n1, n2
-----------------------------------------------------------------------------
(* Fields: what one writer appends, its reader takes off.                   *)

\* \o, without what the provers know of it.
Cat(s, t) == s \o t

LEMMA CatBytes ==
  ASSUME NEW s \in Seq(Byte), NEW t \in Seq(Byte)
  PROVE  /\ Cat(s, t) \in Seq(Byte)
         /\ Len(s) \in Nat /\ Len(t) \in Nat
         /\ Len(Cat(s, t)) = Len(s) + Len(t)
BY DEF Cat

LEMMA CatAssociative ==
  ASSUME NEW s \in Seq(Byte), NEW t \in Seq(Byte), NEW u \in Seq(Byte)
  PROVE  Cat(Cat(s, t), u) = Cat(s, Cat(t, u))
BY ConcatAssociative DEF Cat

\* Word has room for the tags of the messages and for the types.
LEMMA WordHolds ==
  /\ Word \in Nat /\ Word > 64 /\ LongWord \in Nat /\ LongWord >= Word
  /\ \A type \in RowTypes : type \in Nat /\ type < Word
<1>1. G_TYPE_STRING \in RowTypes /\ G_TYPE_STRING = 64
  BY DEF RowTypes, G_TYPE_STRING
<1>2. \A type \in RowTypes : type < Word
  BY SizeAssumption
<1>3. \A type \in RowTypes : type \in Nat
  BY DEF RowTypes, G_TYPE_CHAR, G_TYPE_BOOLEAN, G_TYPE_INT, G_TYPE_UINT,
         G_TYPE_LONG, G_TYPE_ULONG, G_TYPE_FLOAT, G_TYPE_DOUBLE, G_TYPE_STRING
<1>. QED BY <1>1, <1>2, <1>3, BufferAssumption

\* A guint is read as it was written, whatever comes after it.
LEMMA UintSurvives ==
  ASSUME NEW n \in Uint, NEW rest \in Seq(Byte)
  PROVE  /\ Cat(WriteUint[n], rest) \in Seq(Byte)
         /\ ReadUint(Cat(WriteUint[n], rest)) = Got(n, rest)
<1>. USE DEF Cat
<1>1. n \in Nat /\ n < Word /\ Word \in Nat
  BY BufferAssumption DEF Uint
<1>. QED BY <1>1, VarintSurvives DEF ReadUint

\* So is a guint64.
LEMMA Uint64Survives ==
  ASSUME NEW n \in Nat, n < LongWord, NEW rest \in Seq(Byte)
  PROVE  /\ Cat(WriteUint[n], rest) \in Seq(Byte)
         /\ ReadUint64(Cat(WriteUint[n], rest)) = Got(n, rest)
<1>. USE DEF Cat
<1>1. LongWord \in Nat
  BY BufferAssumption
<1>. QED BY <1>1, VarintSurvives DEF ReadUint64

\* A tag is read as it was written.
LEMMA TagSurvives ==
  ASSUME NEW field \in Nat, NEW tag \in 0..7, 8 * field + 8 <= Word,
         NEW rest \in Seq(Byte)
  PROVE  /\ Cat(WriteTag(field, tag), rest) \in Seq(Byte)
         /\ ReadTag(Cat(WriteTag(field, tag), rest))
              = Got([field |-> field, tag |-> tag], rest)
<1>. USE DEF Cat
<1>1. TagOf(field, tag) \in Uint
  BY BufferAssumption DEF TagOf, Uint
<1>2. FieldOf(TagOf(field, tag)) = [field |-> field, tag |-> tag]
  BY TagsAreKept
<1>3. /\ WriteTag(field, tag) \o rest \in Seq(Byte)
      /\ ReadUint(WriteTag(field, tag) \o rest) = Got(TagOf(field, tag), rest)
  BY <1>1, UintSurvives DEF WriteTag
<1>. DEFINE s == WriteTag(field, tag) \o rest
            t == TagOf(field, tag)
<1>. HIDE DEF s, t
<1>4. ReadUint(s) = Got(t, rest)
  BY <1>3 DEF s, t
<1>5. ReadTag(s) = Got(FieldOf(t), rest)
  BY <1>4 DEF ReadTag, Then, Got
<1>. QED BY <1>2, <1>3, <1>5 DEF s, t

\* A tag that is expected is let through.
LEMMA TagOfSurvives ==
  ASSUME NEW field \in Nat, NEW tag \in 0..7, 8 * field + 8 <= Word,
         NEW rest \in Seq(Byte)
  PROVE  /\ Cat(WriteTag(field, tag), rest) \in Seq(Byte)
         /\ ReadTagOf(Cat(WriteTag(field, tag), rest), field, tag)
              = Got([field |-> field, tag |-> tag], rest)
<1>. USE DEF Cat
<1>. DEFINE s == WriteTag(field, tag) \o rest
            t == [field |-> field, tag |-> tag]
<1>1. s \in Seq(Byte) /\ ReadTag(s) = Got(t, rest)
  BY TagSurvives
<1>. HIDE DEF s
<1>2. ReadTagOf(s, field, tag) = Got(t, rest)
  BY <1>1 DEF ReadTagOf, Then, Got
<1>. QED BY <1>1, <1>2 DEF s

\* A tag and a guint.
LEMMA UintFieldSurvives ==
  ASSUME NEW field \in Nat, NEW tag \in 0..7, 8 * field + 8 <= Word,
         NEW n \in Uint, NEW rest \in Seq(Byte)
  PROVE  /\ Cat(WriteTag(field, tag), Cat(WriteUint[n], rest)) \in Seq(Byte)
         /\ ReadField(Cat(WriteTag(field, tag), Cat(WriteUint[n], rest)),
                      field, tag, ReadUint) = Got(n, rest)
<1>. USE DEF Cat
<1>1. /\ WriteUint[n] \o rest \in Seq(Byte)
      /\ ReadUint(WriteUint[n] \o rest) = Got(n, rest)
  BY UintSurvives
<1>. DEFINE s == WriteUint[n] \o rest
<1>. HIDE DEF s
<1>2. /\ WriteTag(field, tag) \o s \in Seq(Byte)
      /\ ReadTagOf(WriteTag(field, tag) \o s, field, tag)
           = Got([field |-> field, tag |-> tag], s)
  BY <1>1, TagOfSurvives DEF s
<1>3. ReadField(WriteTag(field, tag) \o s, field, tag, ReadUint) = ReadUint(s)
  BY <1>2 DEF ReadField, Then, Got
<1>. QED BY <1>1, <1>2, <1>3 DEF s

\* A tag and a guint64.
LEMMA Uint64FieldSurvives ==
  ASSUME NEW field \in Nat, NEW tag \in 0..7, 8 * field + 8 <= Word,
         NEW n \in Nat, n < LongWord, NEW rest \in Seq(Byte)
  PROVE  /\ Cat(WriteTag(field, tag), Cat(WriteUint[n], rest)) \in Seq(Byte)
         /\ ReadField(Cat(WriteTag(field, tag), Cat(WriteUint[n], rest)),
                      field, tag, ReadUint64) = Got(n, rest)
<1>. USE DEF Cat
<1>1. /\ WriteUint[n] \o rest \in Seq(Byte)
      /\ ReadUint64(WriteUint[n] \o rest) = Got(n, rest)
  BY Uint64Survives
<1>. DEFINE s == WriteUint[n] \o rest
<1>. HIDE DEF s
<1>2. /\ WriteTag(field, tag) \o s \in Seq(Byte)
      /\ ReadTagOf(WriteTag(field, tag) \o s, field, tag)
           = Got([field |-> field, tag |-> tag], s)
  BY <1>1, TagOfSurvives DEF s
<1>3. ReadField(WriteTag(field, tag) \o s, field, tag, ReadUint64) = ReadUint64(s)
  BY <1>2 DEF ReadField, Then, Got
<1>. QED BY <1>1, <1>2, <1>3 DEF s

\* As many bytes as were written.
LEMMA BytesSurvive ==
  ASSUME NEW data \in Seq(Byte), NEW rest \in Seq(Byte)
  PROVE  /\ Cat(data, rest) \in Seq(Byte)
         /\ ReadBytes(Cat(data, rest), Len(data)) = Got(data, rest)
<1>. USE DEF Cat
<1>1. /\ data \o rest \in Seq(Byte) /\ ~(Len(data \o rest) < Len(data))
      /\ SubSeq(data \o rest, 1, Len(data)) = data
      /\ SubSeq(data \o rest, Len(data) + 1, Len(data \o rest)) = rest
  OBVIOUS
<1>. QED BY <1>1 DEF ReadBytes

\* A string, after its length.
LEMMA TextSurvives ==
  ASSUME NEW data \in Text, NEW rest \in Seq(Byte)
  PROVE  /\ Cat(WriteData(data), rest) \in Seq(Byte)
         /\ ReadString(Cat(WriteData(data), rest)) = Got(data, rest)
<1>. USE DEF Cat
<1>1. data \in Seq(Byte) /\ Len(data) \in Uint
  BY BufferAssumption DEF Text, Uint
<1>2. data \o rest \in Seq(Byte)
  BY <1>1
<1>3. WriteUint[Len(data)] \in Seq(Byte)
  BY <1>1, WriteUintShape, BufferAssumption DEF Uint
<1>4. WriteData(data) \o rest = WriteUint[Len(data)] \o (data \o rest)
  <2>. DEFINE w == WriteUint[Len(data)]
  <2>1. w \in Seq(Byte)
    BY <1>3
  <2>. HIDE DEF w
  <2>2. (w \o data) \o rest = w \o (data \o rest)
    BY <1>1, <2>1, ConcatAssociative
  <2>. QED BY <2>2 DEF w, WriteData
<1>5. /\ WriteUint[Len(data)] \o (data \o rest) \in Seq(Byte)
      /\ ReadUint(WriteUint[Len(data)] \o (data \o rest)) = Got(Len(data), data \o rest)
  BY <1>1, <1>2, UintSurvives
<1>6. ReadBytes(data \o rest, Len(data)) = Got(data, rest)
  BY <1>1, BytesSurvive
<1>. QED BY <1>4, <1>5, <1>6 DEF ReadString, Then, Got

\* A tag and a string.
LEMMA TextFieldSurvives ==
  ASSUME NEW field \in Nat, NEW tag \in 0..7, 8 * field + 8 <= Word,
         NEW data \in Text, NEW rest \in Seq(Byte)
  PROVE  /\ Cat(WriteTag(field, tag), Cat(WriteData(data), rest)) \in Seq(Byte)
         /\ ReadField(Cat(WriteTag(field, tag), Cat(WriteData(data), rest)),
                      field, tag, ReadString) = Got(data, rest)
<1>. USE DEF Cat
<1>1. /\ WriteData(data) \o rest \in Seq(Byte)
      /\ ReadString(WriteData(data) \o rest) = Got(data, rest)
  BY TextSurvives
<1>. DEFINE s == WriteData(data) \o rest
<1>. HIDE DEF s
<1>2. /\ WriteTag(field, tag) \o s \in Seq(Byte)
      /\ ReadTagOf(WriteTag(field, tag) \o s, field, tag)
           = Got([field |-> field, tag |-> tag], s)
  BY <1>1, TagOfSurvives DEF s
<1>3. ReadField(WriteTag(field, tag) \o s, field, tag, ReadString) = ReadString(s)
  BY <1>2 DEF ReadField, Then, Got
<1>. QED BY <1>1, <1>2, <1>3 DEF s

\* Numbers of either sign.
LEMMA IntSurvives ==
  ASSUME NEW i \in Int32, NEW rest \in Seq(Byte)
  PROVE  /\ Cat(WriteInt(i), rest) \in Seq(Byte)
         /\ ReadInt(Cat(WriteInt(i), rest)) = Got(i, rest)
<1>. USE DEF Cat
<1>1. ZigZag(i) \in Uint
  BY FoldedFits
<1>2. UnZigZag(ZigZag(i)) = i
  BY SignsAreKept, BufferAssumption DEF Int32
<1>3. /\ WriteInt(i) \o rest \in Seq(Byte)
      /\ ReadUint(WriteInt(i) \o rest) = Got(ZigZag(i), rest)
  BY <1>1, UintSurvives DEF WriteInt
<1>. QED BY <1>2, <1>3 DEF ReadInt, Then, Got
-----------------------------------------------------------------------------
(* Loops.                                                                   *)

\* Two loops of as many turns, each of which has the same result.
LEMMA LoopIs ==
  ASSUME NEW n \in Nat, NEW T, NEW U, U[0] = T[0],
         \A k \in 1..n : U[k - 1] = T[k - 1] => U[k] = T[k]
  PROVE  U[n] = T[n]
<1>. DEFINE S == {k \in Nat : k <= n => U[k] = T[k]}
<1>1. 0 \in S
  OBVIOUS
<1>2. ASSUME NEW k \in Nat, k \in S PROVE k + 1 \in S
  <2>. SUFFICES ASSUME k + 1 <= n PROVE U[k + 1] = T[k + 1]
    OBVIOUS
  <2>1. U[k] = T[k]
    BY <1>2
  <2>2. k + 1 \in 1..n /\ (k + 1) - 1 = k
    OBVIOUS
  <2>. QED BY <2>1, <2>2
<1>. HIDE DEF S
<1>3. Nat \subseteq S
  BY <1>1, <1>2, Descent
<1>4. n \in S /\ n <= n
  BY <1>3
<1>. QED
  BY <1>4 DEF S

\* Pieces that are put one after the other: e[k] is the first k of them, b[k]
\* what comes after these.
Pieces(n, X, e, b) ==
  /\ \A k \in 1..n : X[k] \in Seq(Byte)
  /\ \A k \in 0..n : e[k] \in Seq(Byte) /\ b[k] \in Seq(Byte)
  /\ e[0] = <<>>
  /\ \A k \in 1..n : e[k] = Cat(e[k - 1], X[k]) /\ b[k - 1] = Cat(X[k], b[k])

\* All of the pieces, and what comes after all of them, are what there is.
LEMMA PiecesMeet ==
  ASSUME NEW n \in Nat, NEW X, NEW e, NEW b, Pieces(n, X, e, b)
  PROVE  b[0] = Cat(e[n], b[n])
<1>. DEFINE T == [k \in 0..n |-> b[0]]
            U == [k \in 0..n |-> Cat(e[k], b[k])]
<1>1. \A k \in 0..n : U[k] = Cat(e[k], b[k]) /\ T[k] = b[0]
  OBVIOUS
<1>. HIDE DEF T, U
<1>2. U[0] = T[0]
  <2>1. b[0] \in Seq(Byte) /\ e[0] = <<>>
    BY DEF Pieces
  <2>2. Cat(<<>>, b[0]) = b[0]
    BY <2>1 DEF Cat
  <2>. QED BY <1>1, <2>1, <2>2
<1>3. ASSUME NEW k \in 1..n, U[k - 1] = T[k - 1] PROVE U[k] = T[k]
  <2>1. k - 1 \in 0..n /\ k \in 0..n
    OBVIOUS
  <2>2. Cat(e[k - 1], b[k - 1]) = b[0]
    BY <1>1, <1>3, <2>1
  <2>3. e[k] = Cat(e[k - 1], X[k]) /\ b[k - 1] = Cat(X[k], b[k])
    BY DEF Pieces
  <2>4. e[k - 1] \in Seq(Byte) /\ X[k] \in Seq(Byte) /\ b[k] \in Seq(Byte)
    BY <2>1 DEF Pieces
  <2>5. Cat(Cat(e[k - 1], X[k]), b[k]) = Cat(e[k - 1], Cat(X[k], b[k]))
    BY <2>4, CatAssociative
  <2>. QED BY <1>1, <2>1, <2>2, <2>3, <2>5
<1>4. U[n] = T[n]
  BY <1>2, <1>3, LoopIs
<1>. QED BY <1>1, <1>4

LEMMA PiecesBefore ==
  ASSUME NEW n \in Nat, NEW X \in [1..n -> Seq(Byte)]
  PROVE  \E e : /\ \A k \in 0..n : e[k] \in Seq(Byte)
                /\ e[0] = <<>>
                /\ \A k \in 1..n : e[k] = Cat(e[k - 1], X[k])
<1>. DEFINE V == Seq(Byte)
            up == [p \in Nat \X V |-> IF p[1] \in 1..n THEN Cat(p[2], X[p[1]]) ELSE <<>>]
<1>1. <<>> \in V /\ up \in Nexts(V)
  BY CatBytes DEF Nexts
<1>2. ASSUME NEW k \in 1..n, NEW s \in V PROVE up[<<k, s>>] = Cat(s, X[k])
  <2>. HIDE DEF V
  <2>1. <<k, s>> \in Nat \X V /\ <<k, s>>[1] = k /\ <<k, s>>[2] = s
    OBVIOUS
  <2>. QED BY <2>1
<1>. HIDE DEF up, V
<1>3. PICK f \in [Nat -> V] :
        f[0] = <<>> /\ \A k \in Nat : f[k + 1] = up[<<k + 1, f[k]>>]
  BY <1>1, TurnsExist
<1>4. ASSUME NEW k \in 1..n PROVE f[k] = Cat(f[k - 1], X[k])
  <2>1. k - 1 \in Nat /\ (k - 1) + 1 = k
    OBVIOUS
  <2>2. f[k - 1] \in V /\ f[k] = up[<<k, f[k - 1]>>]
    BY <1>3, <2>1
  <2>. QED BY <1>2, <2>2
<1>5. \A k \in 0..n : f[k] \in V
  OBVIOUS
<1>. QED
  BY <1>3, <1>4, <1>5 DEF V

LEMMA PiecesAfter ==
  ASSUME NEW n \in Nat, NEW X \in [1..n -> Seq(Byte)], NEW rest \in Seq(Byte)
  PROVE  \E b : /\ \A k \in 0..n : b[k] \in Seq(Byte)
                /\ b[n] = rest
                /\ \A k \in 1..n : b[k - 1] = Cat(X[k], b[k])
<1>. DEFINE V == Seq(Byte)
            down == [p \in Nat \X V |->
                       IF p[1] \in 1..n THEN Cat(X[n + 1 - p[1]], p[2]) ELSE <<>>]
<1>1. down \in Nexts(V)
  <2>1. \A k \in 1..n : n + 1 - k \in 1..n
    OBVIOUS
  <2>2. \A k \in 1..n : \A s \in V : Cat(X[n + 1 - k], s) \in V
    BY <2>1, CatBytes
  <2>. QED BY <2>2 DEF Nexts
<1>2. ASSUME NEW k \in 1..n, NEW s \in V PROVE down[<<k, s>>] = Cat(X[n + 1 - k], s)
  <2>. HIDE DEF V
  <2>1. <<k, s>> \in Nat \X V /\ <<k, s>>[1] = k /\ <<k, s>>[2] = s
    OBVIOUS
  <2>. QED BY <2>1
<1>3. rest \in V
  OBVIOUS
<1>. HIDE DEF down, V
<1>4. PICK f \in [Nat -> V] :
        f[0] = rest /\ \A k \in Nat : f[k + 1] = down[<<k + 1, f[k]>>]
  BY <1>1, <1>3, TurnsExist
<1>. DEFINE b == [k \in 0..n |-> f[n - k]]
<1>5. \A k \in 0..n : b[k] \in V
  <2>1. \A k \in 0..n : n - k \in Nat
    OBVIOUS
  <2>. QED BY <2>1
<1>6. b[n] = rest
  <2>1. n \in 0..n /\ n - n = 0
    OBVIOUS
  <2>2. b[n] = f[n - n]
    BY <2>1
  <2>. HIDE DEF b
  <2>. QED BY <1>4, <2>1, <2>2
<1>7. ASSUME NEW k \in 1..n PROVE b[k - 1] = Cat(X[k], b[k])
  <2>1. /\ n - k \in Nat /\ (n - k) + 1 = n - (k - 1) /\ n + 1 - (n - (k - 1)) = k
        /\ n - (k - 1) \in 1..n /\ k - 1 \in 0..n /\ k \in 0..n
    OBVIOUS
  <2>2. b[k - 1] = f[n - (k - 1)] /\ b[k] = f[n - k]
    BY <2>1
  <2>. HIDE DEF b
  <2>3. f[n - k] \in V /\ f[n - (k - 1)] = down[<<n - (k - 1), f[n - k]>>]
    BY <1>4, <2>1
  <2>4. down[<<n - (k - 1), f[n - k]>>] = Cat(X[k], f[n - k])
    BY <1>2, <2>1, <2>3
  <2>. QED BY <2>2, <2>3, <2>4
<1>. HIDE DEF b
<1>. QED
  BY <1>5, <1>6, <1>7 DEF V

\* Any number of pieces may be put one after the other, in front of anything.
LEMMA Concatenation ==
  ASSUME NEW n \in Nat, NEW X \in [1..n -> Seq(Byte)], NEW rest \in Seq(Byte)
  PROVE  \E e, b : Pieces(n, X, e, b) /\ b[n] = rest /\ b[0] = Cat(e[n], rest)
<1>1. PICK e : /\ \A k \in 0..n : e[k] \in Seq(Byte)
               /\ e[0] = <<>>
               /\ \A k \in 1..n : e[k] = Cat(e[k - 1], X[k])
  BY PiecesBefore
<1>2. PICK b : /\ \A k \in 0..n : b[k] \in Seq(Byte)
               /\ b[n] = rest
               /\ \A k \in 1..n : b[k - 1] = Cat(X[k], b[k])
  BY PiecesAfter
<1>3. Pieces(n, X, e, b)
  BY <1>1, <1>2 DEF Pieces
<1>4. b[0] = Cat(e[n], b[n])
  BY <1>3, PiecesMeet
<1>. QED
  BY <1>2, <1>3, <1>4
-----------------------------------------------------------------------------
(* Rows.                                                                    *)

\* Six pieces and what is after them.
Six(a, b, c, d, e, f) == Cat(Cat(Cat(Cat(Cat(a, b), c), d), e), f)
SixThen(a, b, c, d, e, f, rest) ==
  Cat(a, Cat(b, Cat(c, Cat(d, Cat(e, Cat(f, rest))))))

LEMMA SixBytes ==
  ASSUME NEW a \in Seq(Byte), NEW b \in Seq(Byte), NEW c \in Seq(Byte),
         NEW d \in Seq(Byte), NEW e \in Seq(Byte), NEW f \in Seq(Byte)
  PROVE  /\ Six(a, b, c, d, e, f) \in Seq(Byte)
         /\ Len(Six(a, b, c, d, e, f))
              = Len(a) + Len(b) + Len(c) + Len(d) + Len(e) + Len(f)
<1>. DEFINE ab == Cat(a, b)
            abc == Cat(ab, c)
            abcd == Cat(abc, d)
            abcde == Cat(abcd, e)
<1>1. ab \in Seq(Byte) /\ Len(ab) = Len(a) + Len(b)
  BY CatBytes
<1>2. abc \in Seq(Byte) /\ Len(abc) = Len(ab) + Len(c)
  BY <1>1, CatBytes
<1>3. abcd \in Seq(Byte) /\ Len(abcd) = Len(abc) + Len(d)
  BY <1>2, CatBytes
<1>4. abcde \in Seq(Byte) /\ Len(abcde) = Len(abcd) + Len(e)
  BY <1>3, CatBytes
<1>5. Cat(abcde, f) \in Seq(Byte) /\ Len(Cat(abcde, f)) = Len(abcde) + Len(f)
  BY <1>4, CatBytes
<1>. QED
  BY <1>1, <1>2, <1>3, <1>4, <1>5 DEF Six

\* What is written from the left is read from the left.
LEMMA SixRegroup ==
  \A a, b, c, d, e, f, rest :
    /\ a \in Seq(Byte) /\ b \in Seq(Byte) /\ c \in Seq(Byte)
    /\ d \in Seq(Byte) /\ e \in Seq(Byte) /\ f \in Seq(Byte)
    /\ rest \in Seq(Byte)
    => Cat(Six(a, b, c, d, e, f), rest) = SixThen(a, b, c, d, e, f, rest)
<1>. SUFFICES ASSUME NEW a, NEW b, NEW c, NEW d, NEW e, NEW f, NEW rest,
                     /\ a \in Seq(Byte) /\ b \in Seq(Byte) /\ c \in Seq(Byte)
                     /\ d \in Seq(Byte) /\ e \in Seq(Byte) /\ f \in Seq(Byte)
                     /\ rest \in Seq(Byte)
              PROVE  Cat(Six(a, b, c, d, e, f), rest)
                       = SixThen(a, b, c, d, e, f, rest)
  OBVIOUS
<1>. DEFINE ab == Cat(a, b)
            abc == Cat(ab, c)
            abcd == Cat(abc, d)
            abcde == Cat(abcd, e)
            fr == Cat(f, rest)
            efr == Cat(e, fr)
            defr == Cat(d, efr)
            cdefr == Cat(c, defr)
<1>1. ab \in Seq(Byte) /\ abc \in Seq(Byte) /\ abcd \in Seq(Byte) /\ abcde \in Seq(Byte)
  BY CatBytes
<1>2. fr \in Seq(Byte) /\ efr \in Seq(Byte) /\ defr \in Seq(Byte) /\ cdefr \in Seq(Byte)
  BY CatBytes
<1>3. Cat(Cat(abcde, f), rest) = Cat(abcde, fr)
  BY <1>1, CatAssociative
<1>4. Cat(abcde, fr) = Cat(abcd, efr)
  BY <1>1, <1>2, CatAssociative
<1>5. Cat(abcd, efr) = Cat(abc, defr)
  BY <1>1, <1>2, CatAssociative
<1>6. Cat(abc, defr) = Cat(ab, cdefr)
  BY <1>1, <1>2, CatAssociative
<1>7. Cat(ab, cdefr) = Cat(a, Cat(b, cdefr))
  BY <1>2, CatAssociative
<1>. QED
  BY <1>3, <1>4, <1>5, <1>6, <1>7 DEF Six, SixThen

\* What is read of what was got.
LEMMA GotIs ==
  \A value, rest : /\ Got(value, rest).ok
                   /\ Got(value, rest).value = value
                   /\ Got(value, rest).rest = rest
BY DEF Got

\* How long a number and a tag are.
LEMMA Written1 ==
  /\ \A n \in Uint : WriteUint[n] \in Seq(Byte) /\ Len(WriteUint[n]) >= 1
  /\ \A field \in Nat, tag \in 0..7 :
       8 * field + 8 <= Word =>
         WriteTag(field, tag) \in Seq(Byte) /\ Len(WriteTag(field, tag)) >= 1
<1>1. ASSUME NEW n \in Uint
      PROVE  WriteUint[n] \in Seq(Byte) /\ Len(WriteUint[n]) >= 1
  <2>1. n \in Nat
    BY BufferAssumption DEF Uint
  <2>. QED BY <2>1, WriteUintShape
<1>2. ASSUME NEW field \in Nat, NEW tag \in 0..7, 8 * field + 8 <= Word
      PROVE  WriteTag(field, tag) \in Seq(Byte) /\ Len(WriteTag(field, tag)) >= 1
  <2>1. TagOf(field, tag) \in Uint
    BY <1>2, BufferAssumption DEF TagOf, Uint
  <2>. QED BY <1>1, <2>1 DEF WriteTag
<1>. QED BY <1>1, <1>2

\* A string is written as more bytes than it has.
LEMMA DataWritten ==
  ASSUME NEW data \in Text
  PROVE  /\ data \in Seq(Byte) /\ Len(data) \in Nat
         /\ WriteData(data) \in Seq(Byte)
         /\ Len(WriteData(data)) >= 1 + Len(data)
<1>1. data \in Seq(Byte) /\ Len(data) \in Uint
  BY BufferAssumption DEF Text, Uint
<1>. DEFINE w == WriteUint[Len(data)]
<1>2. w \in Seq(Byte) /\ Len(w) >= 1
  BY <1>1, Written1
<1>. HIDE DEF w
<1>3. Cat(w, data) \in Seq(Byte) /\ Len(Cat(w, data)) = Len(w) + Len(data)
  BY <1>1, <1>2, CatBytes
<1>4. WriteData(data) = Cat(w, data)
  BY DEF WriteData, Cat, w
<1>5. Len(data) \in Nat
  BY <1>1
<1>. QED BY <1>1, <1>2, <1>3, <1>4, <1>5

Rowlike == [type : RowTypes, name : Text]

\* The bytes of a row of a manifest.
LEMMA RowWritten ==
  ASSUME NEW i \in Uint, NEW row \in Rowlike, NEW rest \in Seq(Byte)
  PROVE  /\ EncodeRow(i, row) \in Seq(Byte)
         /\ Len(EncodeRow(i, row)) >= 6
         /\ Cat(EncodeRow(i, row), rest) =
              SixThen(WriteTag(1, NumberTag), WriteUint[i],
                      WriteTag(2, NumberTag), WriteUint[row.type],
                      WriteTag(3, LengthTag), WriteData(row.name), rest)
<1>. DEFINE a == WriteTag(1, NumberTag)
            b == WriteUint[i]
            c == WriteTag(2, NumberTag)
            d == WriteUint[row.type]
            e == WriteTag(3, LengthTag)
            f == WriteData(row.name)
<1>1. Word > 64 /\ Word \in Nat /\ row.type \in Uint /\ row.name \in Text
  BY WordHolds DEF Rowlike, Uint
<1>2. /\ a \in Seq(Byte) /\ Len(a) >= 1
      /\ c \in Seq(Byte) /\ Len(c) >= 1
      /\ e \in Seq(Byte) /\ Len(e) >= 1
  BY <1>1, Written1 DEF NumberTag, LengthTag
<1>3. /\ b \in Seq(Byte) /\ Len(b) >= 1
      /\ d \in Seq(Byte) /\ Len(d) >= 1
  BY <1>1, Written1
<1>4. f \in Seq(Byte) /\ Len(f) >= 1
  <2>1. Len(row.name) \in Nat /\ f \in Seq(Byte) /\ Len(f) >= 1 + Len(row.name)
    BY <1>1, DataWritten
  <2>2. Len(f) \in Nat
    BY <2>1
  <2>. HIDE DEF f
  <2>. QED BY <2>1, <2>2
<1>5. EncodeRow(i, row) = Six(a, b, c, d, e, f)
  BY DEF EncodeRow, Six, Cat
<1>. HIDE DEF a, b, c, d, e, f
<1>6. /\ Six(a, b, c, d, e, f) \in Seq(Byte)
      /\ Len(Six(a, b, c, d, e, f))
           = Len(a) + Len(b) + Len(c) + Len(d) + Len(e) + Len(f)
  BY SMTT(30), <1>2, <1>3, <1>4, SixBytes
<1>9. Cat(Six(a, b, c, d, e, f), rest) = SixThen(a, b, c, d, e, f, rest)
  BY <1>2, <1>3, <1>4, SixRegroup
<1>7. Len(a) + Len(b) + Len(c) + Len(d) + Len(e) + Len(f) >= 6
  <2>1. /\ Len(a) \in Nat /\ Len(b) \in Nat /\ Len(c) \in Nat
        /\ Len(d) \in Nat /\ Len(e) \in Nat /\ Len(f) \in Nat
    BY <1>2, <1>3, <1>4, LenProperties
  <2>. QED BY <1>2, <1>3, <1>4, <2>1
<1>. DEFINE all == EncodeRow(i, row)
<1>8. /\ all \in Seq(Byte) /\ Len(all) >= 6
      /\ Cat(all, rest) = SixThen(a, b, c, d, e, f, rest)
  BY <1>5, <1>6, <1>7, <1>9
<1>. QED
  BY <1>8 DEF a, b, c, d, e, f

\* pk_manifest_decode: a row is read as it was written (pka-encoder.c:226,
\* pk-manifest.c:386).
LEMMA RowSurvives ==
  ASSUME NEW i \in Uint, NEW row \in Rowlike, NEW rest \in Seq(Byte),
         Len(EncodeRow(i, row)) < Word
  PROVE  /\ WriteData(EncodeRow(i, row)) \in Seq(Byte)
         /\ Len(WriteData(EncodeRow(i, row))) >= 7
         /\ DecodeRow(Cat(WriteData(EncodeRow(i, row)), rest))
              = Got([id |-> i, type |-> row.type, name |-> row.name], rest)
<1>. DEFINE all == EncodeRow(i, row)
            r5 == Cat(WriteTag(3, LengthTag), Cat(WriteData(row.name), rest))
            r3 == Cat(WriteTag(2, NumberTag), Cat(WriteUint[row.type], r5))
            r1 == Cat(WriteTag(1, NumberTag), Cat(WriteUint[i], r3))
<1>1. Word > 64 /\ Word \in Nat /\ row.type \in Uint /\ row.name \in Text
  BY WordHolds DEF Rowlike, Uint
<1>2. all \in Seq(Byte) /\ Len(all) >= 6 /\ Cat(all, rest) = r1
  BY RowWritten DEF SixThen
<1>3. all \in Text
  BY <1>2 DEF Text
<1>4. NumberTag \in 0..7 /\ LengthTag \in 0..7
  BY DEF NumberTag, LengthTag
<1>5. r5 \in Seq(Byte) /\ ReadField(r5, 3, LengthTag, ReadString) = Got(row.name, rest)
  <2>1. 3 \in Nat /\ 8 * 3 + 8 <= Word
    BY <1>1
  <2>. QED BY <1>1, <1>4, <2>1, TextFieldSurvives
<1>. HIDE DEF r5
<1>6. r3 \in Seq(Byte) /\ ReadField(r3, 2, NumberTag, ReadUint) = Got(row.type, r5)
  <2>1. 2 \in Nat /\ 8 * 2 + 8 <= Word
    BY <1>1
  <2>. QED BY <1>1, <1>4, <1>5, <2>1, UintFieldSurvives
<1>. HIDE DEF r3
<1>7. r1 \in Seq(Byte) /\ ReadField(r1, 1, NumberTag, ReadUint) = Got(i, r3)
  <2>1. 1 \in Nat /\ 8 * 1 + 8 <= Word
    BY <1>1
  <2>. QED BY <1>1, <1>4, <1>6, <2>1, UintFieldSurvives
<1>. HIDE DEF r1, all
<1>. DEFINE s == Cat(WriteData(all), rest)
<1>8. ReadUint(s) = Got(Len(all), r1)
  <2>. DEFINE w == WriteUint[Len(all)]
  <2>1. Len(all) \in Uint
    <3>1. Len(all) \in Nat /\ Len(all) < Word
      BY <1>1, <1>2, LenProperties DEF all
    <3>. QED BY <1>1, <3>1 DEF Uint
  <2>2. w \in Seq(Byte)
    BY <2>1, Written1
  <2>3. WriteData(all) = Cat(w, all)
    BY DEF WriteData, Cat
  <2>4. Cat(Cat(w, all), rest) = Cat(w, Cat(all, rest))
    BY <1>2, <2>2, CatAssociative
  <2>5. ReadUint(Cat(w, r1)) = Got(Len(all), r1)
    BY <1>7, <2>1, UintSurvives
  <2>. QED BY <1>2, <2>3, <2>4, <2>5
<1>9. WriteData(all) \in Seq(Byte) /\ Len(WriteData(all)) >= 7
  <2>1. /\ WriteData(all) \in Seq(Byte) /\ Len(all) \in Nat
        /\ Len(WriteData(all)) >= 1 + Len(all)
    BY <1>3, DataWritten
  <2>2. Len(WriteData(all)) \in Nat
    BY <2>1, LenProperties
  <2>. QED BY <1>2, <2>1, <2>2
<1>. HIDE DEF s
<1>10. DecodeRow(s) = Got([id |-> i, type |-> row.type, name |-> row.name], rest)
  BY <1>5, <1>6, <1>7, <1>8, GotIs DEF DecodeRow, Then
<1>. QED BY <1>9, <1>10 DEF s, all
\* Pieces of a length: how long they are together, and how much of them is left.
LEMMA PiecesLong ==
  ASSUME NEW n \in Nat, NEW X, NEW e, NEW b, Pieces(n, X, e, b), NEW m \in Nat,
         \A k \in 1..n : Len(X[k]) >= m
  PROVE  /\ m * n <= Len(b[0])
         /\ \A k \in 1..n : /\ Len(X[k]) <= Len(e[n])
                            /\ Len(b[k - 1]) >= Len(b[n]) + m
<1>. DEFINE len(k) == Len(b[k])
<1>1. ASSUME NEW k \in 1..n
      PROVE  /\ len(k) \in Nat /\ len(k - 1) \in Nat /\ Len(X[k]) \in Nat
             /\ len(k - 1) = Len(X[k]) + len(k)
  <2>1. b[k] \in Seq(Byte) /\ X[k] \in Seq(Byte) /\ b[k - 1] = Cat(X[k], b[k])
    BY DEF Pieces
  <2>2. Len(X[k]) \in Nat /\ Len(b[k]) \in Nat
        /\ Len(Cat(X[k], b[k])) = Len(X[k]) + Len(b[k])
    BY <2>1, CatBytes
  <2>3. len(k - 1) = Len(Cat(X[k], b[k]))
    BY <2>1
  <2>4. len(k) = Len(b[k]) /\ len(k) \in Nat
    BY <2>2
  <2>5. len(k - 1) \in Nat
    BY <2>1, CatBytes
  <2>. HIDE DEF len
  <2>6. len(k - 1) = Len(X[k]) + len(k)
    BY <2>2, <2>3, <2>4
  <2>. QED BY <2>2, <2>4, <2>5, <2>6
<1>2. len(n) \in Nat /\ len(0) \in Nat /\ len(0) = Len(e[n]) + len(n) /\ Len(e[n]) \in Nat
  <2>1. b[n] \in Seq(Byte) /\ e[n] \in Seq(Byte) /\ b[0] = Cat(e[n], b[n])
    <3>1. b[n] \in Seq(Byte) /\ e[n] \in Seq(Byte)
      BY DEF Pieces
    <3>. QED BY <3>1, PiecesMeet
  <2>2. Len(e[n]) \in Nat /\ Len(b[n]) \in Nat
        /\ Len(Cat(e[n], b[n])) = Len(e[n]) + Len(b[n])
    BY <2>1, CatBytes
  <2>3. len(0) = Len(Cat(e[n], b[n])) /\ len(n) = Len(b[n])
    BY <2>1
  <2>4. len(0) \in Nat /\ len(n) \in Nat
    BY <2>1, CatBytes
  <2>. HIDE DEF len
  <2>5. len(0) = Len(e[n]) + len(n)
    BY <2>2, <2>3
  <2>. QED BY <2>2, <2>4, <2>5
<1>. HIDE DEF len
<1>. DEFINE S == {k \in Nat : k <= n => len(0) >= len(k) + m * k}
            D == {k \in Nat : k <= n => len(n - k) >= len(n)}
<1>3. Nat \subseteq S
  <2>1. 0 \in S
    BY <1>2
  <2>2. ASSUME NEW k \in Nat, k \in S PROVE k + 1 \in S
    <3>. SUFFICES ASSUME k + 1 <= n PROVE len(0) >= len(k + 1) + m * (k + 1)
      OBVIOUS
    <3>1. len(0) >= len(k) + m * k
      BY <2>2
    <3>2. k + 1 \in 1..n /\ (k + 1) - 1 = k
      OBVIOUS
    <3>3. /\ len(k) = Len(X[k + 1]) + len(k + 1) /\ len(k) \in Nat /\ len(k + 1) \in Nat
          /\ Len(X[k + 1]) \in Nat /\ Len(X[k + 1]) >= m
      <4>1. ASSUME NEW l \in 1..n, l - 1 = k
            PROVE  /\ len(k) = Len(X[l]) + len(l) /\ len(k) \in Nat /\ len(l) \in Nat
                   /\ Len(X[l]) \in Nat /\ Len(X[l]) >= m
        BY <1>1, <4>1
      <4>. QED BY <3>2, <4>1
    <3>4. m * (k + 1) = m * k + m /\ m * k \in Nat
      BY Product
    <3>. HIDE DEF S
    <3>. QED BY <1>2, <3>1, <3>3, <3>4
  <2>. HIDE DEF S
  <2>. QED BY <2>1, <2>2, Descent
<1>4. Nat \subseteq D
  <2>1. 0 \in D
    BY <1>2
  <2>2. ASSUME NEW k \in Nat, k \in D PROVE k + 1 \in D
    <3>. SUFFICES ASSUME k + 1 <= n PROVE len(n - (k + 1)) >= len(n)
      OBVIOUS
    <3>1. len(n - k) >= len(n)
      BY <2>2
    <3>2. n - k \in 1..n /\ n - (k + 1) = (n - k) - 1
      OBVIOUS
    <3>3. /\ len((n - k) - 1) = Len(X[n - k]) + len(n - k)
          /\ len(n - k) \in Nat /\ Len(X[n - k]) \in Nat
      <4>1. ASSUME NEW l \in 1..n
            PROVE  /\ len(l - 1) = Len(X[l]) + len(l) /\ len(l) \in Nat /\ Len(X[l]) \in Nat
        BY <1>1
      <4>. QED BY <3>2, <4>1
    <3>. HIDE DEF D
    <3>. QED BY <1>2, <3>1, <3>2, <3>3
  <2>. HIDE DEF D
  <2>. QED BY <2>1, <2>2, Descent
<1>5. m * n <= len(0)
  <2>1. n \in S /\ n <= n
    BY <1>3
  <2>2. len(0) >= len(n) + m * n
    BY <2>1
  <2>3. m * n \in Nat
    BY Product
  <2>. QED BY <1>2, <2>2, <2>3
<1>6. ASSUME NEW k \in 1..n
      PROVE  Len(X[k]) <= Len(e[n]) /\ len(k - 1) >= len(n) + m
  <2>1. k - 1 \in S /\ k - 1 <= n /\ k - 1 \in Nat
    BY <1>3
  <2>2. len(0) >= len(k - 1) + m * (k - 1)
    BY <2>1
  <2>3. m * (k - 1) \in Nat
    BY <2>1, Product
  <2>6. len(k) >= len(n)
    <3>. DEFINE j == n - k
    <3>1. j \in D /\ j <= n
      <4>1. j \in Nat /\ j <= n
        OBVIOUS
      <4>. HIDE DEF D, j
      <4>. QED BY <1>4, <4>1
    <3>2. n - j = k
      OBVIOUS
    <3>. HIDE DEF j
    <3>3. len(n - j) >= len(n)
      BY <3>1
    <3>. QED BY <3>2, <3>3
  <2>7. /\ len(k) \in Nat /\ len(k - 1) \in Nat /\ Len(X[k]) \in Nat
        /\ len(k - 1) = Len(X[k]) + len(k) /\ Len(X[k]) >= m
    BY <1>1
  <2>. HIDE DEF S, D
  <2>8. len(0) >= len(k - 1)
    <3>. DEFINE before == m * (k - 1)
    <3>1. len(0) >= len(k - 1) + before /\ before \in Nat
      BY <2>2, <2>3
    <3>. HIDE DEF before
    <3>. QED BY <1>2, <2>7, <3>1
  <2>9. Len(X[k]) <= Len(e[n])
    BY <1>2, <2>6, <2>7, <2>8
  <2>10. len(k - 1) >= len(n) + m
    BY <1>2, <2>6, <2>7
  <2>. QED BY <2>9, <2>10
<1>7. m * n <= Len(b[0])
  BY <1>5 DEF len
<1>8. ASSUME NEW k \in 1..n
      PROVE  Len(X[k]) <= Len(e[n]) /\ Len(b[k - 1]) >= Len(b[n]) + m
  BY <1>6 DEF len
<1>. QED BY <1>7, <1>8

\* The bytes of a row of a sequence, and those of all of them.
Piece(rows) == [k \in 1..Len(rows) |-> WriteData(EncodeRow(k, rows[k]))]

LEMMA PieceOfRow ==
  ASSUME NEW rows \in Seq(Rowlike), Len(rows) < Word, NEW k \in 1..Len(rows)
  PROVE  /\ k \in Uint /\ rows[k] \in Rowlike /\ Len(rows) \in Nat
         /\ Piece(rows)[k] = WriteData(EncodeRow(k, rows[k]))
         /\ Piece(rows)[k] \in Seq(Byte)
         /\ EncodeRow(k, rows[k]) \in Seq(Byte)
         /\ Len(Piece(rows)[k]) >= Len(EncodeRow(k, rows[k]))
         /\ Len(EncodeRow(k, rows[k])) \in Nat /\ Len(Piece(rows)[k]) \in Nat
<1>1. Len(rows) \in Nat /\ rows[k] \in Rowlike /\ k \in Uint
  <2>1. Len(rows) \in Nat /\ rows[k] \in Rowlike
    OBVIOUS
  <2>2. k \in Uint
    BY <2>1, WordHolds DEF Uint
  <2>. QED BY <2>1, <2>2
<1>2. Piece(rows)[k] = WriteData(EncodeRow(k, rows[k]))
  BY DEF Piece
<1>. DEFINE all == EncodeRow(k, rows[k])
            w == WriteUint[Len(all)]
<1>3. all \in Seq(Byte) /\ Len(all) \in Nat
  <2>1. <<>> \in Seq(Byte)
    OBVIOUS
  <2>2. all \in Seq(Byte)
    BY <1>1, <2>1, RowWritten
  <2>. QED BY <2>2, LenProperties
<1>. HIDE DEF all
<1>4. w \in Seq(Byte) /\ Len(w) \in Nat
  <2>1. w \in Seq(Byte)
    BY <1>3, WriteUintShape
  <2>. QED BY <2>1, LenProperties
<1>5. WriteData(all) = Cat(w, all)
  BY DEF WriteData, Cat
<1>. HIDE DEF w
<1>6. /\ WriteData(all) \in Seq(Byte)
      /\ Len(WriteData(all)) = Len(w) + Len(all)
  BY <1>3, <1>4, <1>5, CatBytes
<1>7. Len(WriteData(all)) >= Len(all) /\ Len(WriteData(all)) \in Nat
  BY <1>3, <1>4, <1>6
<1>. QED
  BY <1>1, <1>2, <1>3, <1>6, <1>7 DEF all

\* The rows of a manifest are their pieces.
LEMMA RowsWritten ==
  ASSUME NEW rows \in Seq(Rowlike), Len(rows) < Word, NEW e, NEW b,
         Pieces(Len(rows), Piece(rows), e, b)
  PROVE  EncodeRows(rows) = e[Len(rows)]
<1>. DEFINE n == Len(rows)
            put(k, s) == s \o WriteData(EncodeRow(k, rows[k]))
            Upto[k \in 0..n] == IF k = 0 THEN <<>> ELSE put(k, Upto[k - 1])
            h == [k \in 0..n |-> e[k]]
<1>1. n \in Nat
  OBVIOUS
<1>2. EncodeRows(rows) = Upto[n]
  BY DEF EncodeRows
<1>3. ASSUME NEW k \in 1..n PROVE put(k, e[k - 1]) = e[k]
  BY PieceOfRow DEF Pieces, Cat
<1>4. e[0] = <<>>
  BY DEF Pieces
<1>. HIDE DEF put
<1>5. h = [k \in 0..n |-> IF k = 0 THEN <<>> ELSE put(k, h[k - 1])]
  <2>1. ASSUME NEW k \in 0..n, k # 0 PROVE h[k] = put(k, h[k - 1])
    <3>1. k \in 1..n /\ k - 1 \in 0..n
      BY <1>1, <2>1
    <3>. QED BY <1>3, <3>1
  <2>2. h[0] = <<>>
    BY <1>1, <1>4
  <2>. QED BY <2>1, <2>2
<1>6. Upto = [k \in 0..n |-> IF k = 0 THEN <<>> ELSE put(k, Upto[k - 1])]
  <2>. HIDE DEF h
  <2>1. \E f : f = [k \in 0..n |-> IF k = 0 THEN <<>> ELSE put(k, f[k - 1])]
    BY <1>5
  <2>. QED BY <2>1
<1>. HIDE DEF Upto, h, n
<1>7. Upto[0] = h[0]
  BY <1>1, <1>5, <1>6
<1>8. ASSUME NEW k \in 1..n, Upto[k - 1] = h[k - 1] PROVE Upto[k] = h[k]
  <2>1. k \in 0..n /\ k # 0
    BY <1>1
  <2>2. Upto[k] = put(k, Upto[k - 1]) /\ h[k] = put(k, h[k - 1])
    BY <1>5, <1>6, <2>1
  <2>. QED BY <1>8, <2>2
<1>9. Upto[n] = h[n]
  BY <1>1, <1>7, <1>8, LoopIs
<1>10. h[n] = e[n]
  BY <1>1 DEF h
<1>. QED
  BY <1>2, <1>9, <1>10 DEF n

\* A loop that takes m bytes or more in a turn is over in time.
LEMMA TurnsSuffice ==
  ASSUME NEW n \in Nat, NEW len \in Nat, NEW m \in {2, 7}, m * n <= len
  PROVE  len \div m + 1 \in Nat /\ n <= len \div m + 1
<1>1. CASE m = 2
  BY <1>1
<1>2. CASE m = 7
  BY <1>2
<1>. QED BY <1>1, <1>2

\* What is read of rows.
Numbered(rows) ==
  [k \in 1..Len(rows) |-> [id |-> k, type |-> rows[k].type, name |-> rows[k].name]]

\* All rows are read as they were written, in as many turns as there are rows.
LEMMA RowsSurvive ==
  ASSUME NEW rows \in Seq(Rowlike), Len(rows) < Word, Len(EncodeRows(rows)) < Word,
         NEW rest \in Seq(Byte)
  PROVE  /\ EncodeRows(rows) \in Text
         /\ Cat(EncodeRows(rows), rest) \in Seq(Byte)
         /\ DecodeRows(Cat(EncodeRows(rows), rest), Len(rest)) = Got(Numbered(rows), rest)
<1>. DEFINE n == Len(rows)
            X == Piece(rows)
            row(k) == [id |-> k, type |-> rows[k].type, name |-> rows[k].name]
<1>1. n \in Nat /\ X \in [1..n -> Seq(Byte)]
  <2>1. n \in Nat
    OBVIOUS
  <2>2. X = [k \in 1..n |-> X[k]]
    BY DEF Piece
  <2>3. \A k \in 1..n : X[k] \in Seq(Byte)
    BY PieceOfRow
  <2>. HIDE DEF X
  <2>. QED BY <2>1, <2>2, <2>3
<1>. HIDE DEF n, X
<1>2. PICK e, b : Pieces(n, X, e, b) /\ b[n] = rest /\ b[0] = Cat(e[n], rest)
  BY <1>1, Concatenation
<1>3. EncodeRows(rows) = e[n]
  BY <1>2, RowsWritten DEF n, X
<1>4. e[n] \in Seq(Byte) /\ b[0] \in Seq(Byte) /\ \A k \in 0..n : b[k] \in Seq(Byte)
  BY <1>1, <1>2 DEF Pieces
<1>5. \A k \in 1..n : Len(X[k]) <= Len(e[n])
  <2>1. \A k \in 1..n : Len(X[k]) >= 0
    BY PieceOfRow DEF n, X
  <2>. QED BY <1>1, <1>2, <2>1, PiecesLong
<1>6. ASSUME NEW k \in 1..n
      PROVE  /\ Len(X[k]) >= 7
             /\ DecodeRow(b[k - 1]) = Got(row(k), b[k])
  <2>1. /\ k \in Uint /\ rows[k] \in Rowlike
        /\ X[k] = WriteData(EncodeRow(k, rows[k]))
        /\ EncodeRow(k, rows[k]) \in Seq(Byte)
        /\ Len(X[k]) >= Len(EncodeRow(k, rows[k]))
        /\ Len(EncodeRow(k, rows[k])) \in Nat /\ Len(X[k]) \in Nat
    BY PieceOfRow DEF n, X
  <2>2. Len(EncodeRow(k, rows[k])) < Word
    <3>1. Len(e[n]) \in Nat /\ Len(e[n]) < Word /\ Word \in Nat
      BY <1>3, <1>4, WordHolds, LenProperties
    <3>. QED BY <1>5, <2>1, <3>1
  <2>3. b[k] \in Seq(Byte) /\ b[k - 1] = Cat(X[k], b[k])
    BY <1>2 DEF Pieces
  <2>. QED BY <2>1, <2>2, <2>3, RowSurvives
<1>7. /\ 7 * n <= Len(b[0])
      /\ \A k \in 1..n : Len(b[k - 1]) >= Len(rest) + 7
  BY <1>1, <1>2, <1>6, PiecesLong
<1>. DEFINE turns == Len(b[0]) \div 7 + 1
            after == Len(rest)
            next(read) ==
              IF ~read.ok \/ Len(read.rest) <= after THEN read
              ELSE Then(DecodeRow(read.rest), LAMBDA r :
                     Got(Append(read.value, r.value), r.rest))
            Turn[k \in 0..turns] ==
              IF k = 0 THEN Got(<<>>, b[0]) ELSE next(Turn[k - 1])
            least(k) == IF k <= n THEN k ELSE n
            some(k) == [l \in 1..k |-> row(l)]
            h == [k \in 0..turns |-> Got(some(least(k)), b[least(k)])]
<1>8. DecodeRows(b[0], after) = Turn[turns]
  BY DEF DecodeRows
<1>9. turns \in Nat /\ n <= turns /\ after \in Nat
  <2>1. Len(b[0]) \in Nat /\ after \in Nat
    BY <1>4, LenProperties
  <2>. HIDE DEF after
  <2>2. turns \in Nat /\ n <= turns
    <3>. DEFINE len == Len(b[0])
    <3>1. len \in Nat /\ 7 \in {2, 7} /\ 7 * n <= len
      BY <1>7, <2>1
    <3>. HIDE DEF len
    <3>2. len \div 7 + 1 \in Nat /\ n <= len \div 7 + 1
      BY <1>1, <3>1, TurnsSuffice
    <3>. QED BY <3>2 DEF len
  <2>. QED BY <2>1, <2>2
<1>10. ASSUME NEW k \in 1..n
       PROVE  next(Got(some(k - 1), b[k - 1])) = Got(some(k), b[k])
  <2>1. ~(Len(b[k - 1]) <= after)
    <3>1. b[k - 1] \in Seq(Byte)
      <4>1. k - 1 \in 0..n
        BY <1>1
      <4>. QED BY <1>4, <4>1
    <3>2. Len(b[k - 1]) \in Nat /\ Len(b[k - 1]) >= after + 7
      BY <1>7, <3>1, LenProperties
    <3>. QED BY <1>9, <3>2
  <2>2. Append(some(k - 1), row(k)) = some(k)
    <3>. HIDE DEF row
    <3>1. some(k - 1) \in Seq({row(l) : l \in 1..k}) /\ Len(some(k - 1)) = k - 1
      OBVIOUS
    <3>. QED BY <3>1
  <2>. DEFINE read == Got(some(k - 1), b[k - 1])
              got == DecodeRow(read.rest)
  <2>3. read.ok /\ read.rest = b[k - 1] /\ read.value = some(k - 1)
    BY GotIs
  <2>. HIDE DEF read
  <2>4. got = Got(row(k), b[k])
    BY <1>6, <2>3
  <2>5. got.ok /\ got.value = row(k) /\ got.rest = b[k]
    BY <2>4, GotIs
  <2>6. next(read) = Then(got, LAMBDA r : Got(Append(read.value, r.value), r.rest))
    BY <2>1, <2>3
  <2>. HIDE DEF next, got, some, row
  <2>7. next(read) = Got(Append(read.value, got.value), got.rest)
    BY <2>5, <2>6 DEF Then
  <2>. QED BY <2>2, <2>3, <2>5, <2>7 DEF read
<1>11. next(Got(some(n), b[n])) = Got(some(n), b[n])
  <2>1. Len(b[n]) <= after
    BY <1>2, <1>9
  <2>. HIDE DEF some
  <2>. QED BY <2>1, GotIs
<1>. HIDE DEF next
<1>12. /\ h[0] = Got(<<>>, b[0])
       /\ \A k \in 1..turns : h[k] = next(h[k - 1])
  <2>1. h[0] = Got(<<>>, b[0])
    <3>1. least(0) = 0 /\ some(0) = <<>> /\ 0 \in 0..turns
      <4>1. least(0) = 0
        BY <1>1
      <4>2. some(0) = <<>>
        OBVIOUS
      <4>. HIDE DEF some, least, turns
      <4>3. 0 \in 0..turns
        BY <1>9
      <4>. QED BY <4>1, <4>2, <4>3
    <3>. HIDE DEF some, least, turns
    <3>2. h[0] = Got(some(least(0)), b[least(0)])
      BY <3>1
    <3>. HIDE DEF h
    <3>. QED BY <3>1, <3>2
  <2>2. ASSUME NEW k \in 1..turns PROVE h[k] = next(h[k - 1])
    <3>. HIDE DEF some, turns
    <3>1. k \in 0..turns /\ k - 1 \in 0..turns
      BY <1>9
    <3>2. CASE k <= n
      <4>1. k \in 1..n /\ least(k) = k /\ least(k - 1) = k - 1
        BY <1>1, <1>9, <3>2
      <4>. HIDE DEF least
      <4>2. h[k] = Got(some(k), b[k]) /\ h[k - 1] = Got(some(k - 1), b[k - 1])
        BY <3>1, <4>1
      <4>. QED BY <1>10, <4>1, <4>2
    <3>3. CASE ~(k <= n)
      <4>1. least(k) = n /\ least(k - 1) = n
        BY <1>1, <1>9, <3>3
      <4>. HIDE DEF least
      <4>2. h[k] = Got(some(n), b[n]) /\ h[k - 1] = Got(some(n), b[n])
        BY <3>1, <4>1
      <4>. QED BY <1>11, <4>2
    <3>. QED BY <3>2, <3>3
  <2>. QED BY <2>1, <2>2
<1>13. h[turns] = Got(some(n), b[n])
  <2>1. least(turns) = n /\ turns \in 0..turns
    <3>. HIDE DEF turns
    <3>. QED BY <1>1, <1>9
  <2>. HIDE DEF some, least, turns
  <2>2. h[turns] = Got(some(least(turns)), b[least(turns)])
    BY <2>1
  <2>. HIDE DEF h
  <2>. QED BY <2>1, <2>2
<1>14. DOMAIN h = 0..turns /\ h = [k \in 0..turns |-> h[k]]
  OBVIOUS
<1>. HIDE DEF h, turns
<1>15. h = [k \in 0..turns |-> IF k = 0 THEN Got(<<>>, b[0]) ELSE next(h[k - 1])]
  <2>1. \A k \in 0..turns : h[k] = IF k = 0 THEN Got(<<>>, b[0]) ELSE next(h[k - 1])
    <3>1. \A k \in 0..turns : k # 0 => k \in 1..turns
      BY <1>9
    <3>. QED BY <1>12, <3>1
  <2>. QED BY <1>14, <2>1
<1>16. Turn = [k \in 0..turns |-> IF k = 0 THEN Got(<<>>, b[0]) ELSE next(Turn[k - 1])]
  <2>1. \E f : f = [k \in 0..turns |-> IF k = 0 THEN Got(<<>>, b[0]) ELSE next(f[k - 1])]
    BY <1>15
  <2>. QED BY <2>1
<1>. HIDE DEF Turn
<1>17. Turn[0] = h[0]
  BY <1>9, <1>12, <1>16
<1>18. ASSUME NEW k \in 1..turns, Turn[k - 1] = h[k - 1] PROVE Turn[k] = h[k]
  <2>1. k \in 0..turns /\ k # 0
    BY <1>9
  <2>2. Turn[k] = next(Turn[k - 1]) /\ h[k] = next(h[k - 1])
    BY <1>12, <1>16, <2>1
  <2>. QED BY <1>18, <2>2
<1>19. Turn[turns] = h[turns]
  BY <1>9, <1>17, <1>18, LoopIs
<1>20. DecodeRows(b[0], Len(rest)) = Got(Numbered(rows), rest)
  <2>1. some(n) = Numbered(rows)
    BY DEF Numbered, n
  <2>. HIDE DEF some
  <2>. QED BY <1>2, <1>8, <1>13, <1>19, <2>1
<1>21. e[n] \in Text
  BY <1>3, <1>4 DEF Text
<1>. QED
  BY <1>2, <1>3, <1>4, <1>20, <1>21
-----------------------------------------------------------------------------
(* Manifests.                                                               *)

\* What a plugin appends to its manifest.
Declared(rows) == [i \in 1..Len(rows) |-> [type |-> rows[i].type, name |-> rows[i].name]]

\* What SizeAssumption and PluginsAssumption say of a plugin.
LEMMA PluginIs ==
  ASSUME NEW p \in Plugins
  PROVE  /\ Len(p) \in Nat /\ DOMAIN p = 1..Len(p)
         /\ 8 * Len(p) + 8 <= Word /\ Len(p) < Word
         /\ Declared(p) \in Seq(Rowlike) /\ Len(Declared(p)) = Len(p)
         /\ \A i \in 1..Len(p) : p[i].type \in RowTypes /\ p[i].as \in DOMAIN SampleTag
<1>1. /\ Len(p) \in Nat /\ DOMAIN p = 1..Len(p)
      /\ \A i \in 1..Len(p) : p[i].type \in RowTypes /\ p[i].as \in DOMAIN SampleTag
  BY PluginsAssumption
<1>2. 8 * Len(p) + 8 <= Word /\ \A i \in 1..Len(p) : p[i].name \in Text
  BY <1>1, SizeAssumption
<1>3. Len(p) < Word
  BY <1>1, <1>2, WordHolds
<1>. DEFINE n == Len(p)
            d == Declared(p)
<1>4. /\ d = [i \in 1..n |-> d[i]]
      /\ \A i \in 1..n : d[i] \in Rowlike
  BY <1>1, <1>2 DEF Declared, Rowlike
<1>. HIDE DEF d, n
<1>5. d \in Seq(Rowlike) /\ Len(d) = n
  <2>1. n \in Nat
    BY <1>1 DEF n
  <2>2. d \in [1..n -> Rowlike]
    BY <1>4
  <2>3. d \in Seq(Rowlike)
    BY <2>1, <2>2, SeqDef
  <2>. QED BY <2>1, <2>2, <2>3, LenProperties
<1>. QED BY <1>1, <1>2, <1>3, <1>5 DEF d, n

\* A manifest has its plugin's rows, in their order.
LEMMA PopulatedIs ==
  ASSUME NEW p \in Plugins, NEW time, NEW r
  PROVE  Populated(p, time, r) =
           [rows |-> Declared(p), source |-> 0, ts |-> time, resolution |-> r]
<1>. DEFINE n == Len(p)
            first == [pka_manifest_sized_new(time) EXCEPT !.resolution = r]
            put(k, m) == pka_manifest_append(m, p[k].name, p[k].type)
            Upto[k \in 0..n] == IF k = 0 THEN first ELSE put(k, Upto[k - 1])
            row(k) == [type |-> p[k].type, name |-> p[k].name]
            some(k) == [i \in 1..k |-> row(i)]
            made(k) == [rows |-> some(k), source |-> 0, ts |-> time, resolution |-> r]
            h == [k \in 0..n |-> made(k)]
<1>1. n \in Nat
  BY PluginIs
<1>2. Populated(p, time, r) = Upto[n]
  BY DEF Populated
<1>3. made(0) = first
  BY DEF pka_manifest_sized_new
<1>4. ASSUME NEW k \in 1..n PROVE put(k, made(k - 1)) = made(k)
  <2>1. Append(some(k - 1), row(k)) = some(k)
    <3>. HIDE DEF row
    <3>1. some(k - 1) \in Seq({row(l) : l \in 1..k}) /\ Len(some(k - 1)) = k - 1
      OBVIOUS
    <3>. QED BY <3>1
  <2>. HIDE DEF some
  <2>2. put(k, made(k - 1))
          = [rows |-> Append(some(k - 1), row(k)), source |-> 0, ts |-> time, resolution |-> r]
    <3>. DEFINE s == some(k - 1)
                m == [rows |-> s, source |-> 0, ts |-> time, resolution |-> r]
                longer == Append(s, row(k))
    <3>1. put(k, m) = [m EXCEPT !.rows = longer]
      <4>1. m.rows = s
        OBVIOUS
      <4>. HIDE DEF m, s
      <4>. QED BY <4>1 DEF pka_manifest_append
    <3>. HIDE DEF longer, s, put
    <3>2. [m EXCEPT !.rows = longer]
            = [rows |-> longer, source |-> 0, ts |-> time, resolution |-> r]
      OBVIOUS
    <3>. QED BY <3>1, <3>2 DEF longer, s
  <2>. HIDE DEF row, put
  <2>. QED BY <2>1, <2>2
<1>. HIDE DEF put, made, first
<1>5. /\ h[0] = first /\ h[n] = made(n)
      /\ \A k \in 1..n : h[k] = put(k, h[k - 1])
  <2>. HIDE DEF n
  <2>1. h[0] = first /\ h[n] = made(n)
    BY <1>1, <1>3
  <2>2. ASSUME NEW k \in 1..n PROVE h[k] = put(k, h[k - 1])
    <3>1. k - 1 \in 0..n /\ k \in 0..n
      BY <1>1
    <3>2. h[k] = made(k) /\ h[k - 1] = made(k - 1)
      BY <3>1
    <3>. QED BY <1>4, <3>2
  <2>. QED BY <2>1, <2>2
<1>6. DOMAIN h = 0..n /\ h = [k \in 0..n |-> h[k]]
  OBVIOUS
<1>. HIDE DEF h, n
<1>7. h = [k \in 0..n |-> IF k = 0 THEN first ELSE put(k, h[k - 1])]
  <2>1. \A k \in 0..n : h[k] = IF k = 0 THEN first ELSE put(k, h[k - 1])
    <3>1. \A k \in 0..n : k # 0 => k \in 1..n
      BY <1>1
    <3>. QED BY <1>5, <3>1
  <2>. QED BY <1>6, <2>1
<1>8. Upto = [k \in 0..n |-> IF k = 0 THEN first ELSE put(k, Upto[k - 1])]
  <2>1. \E f : f = [k \in 0..n |-> IF k = 0 THEN first ELSE put(k, f[k - 1])]
    BY <1>7
  <2>. QED BY <2>1
<1>. HIDE DEF Upto
<1>9. Upto[0] = h[0]
  BY <1>1, <1>5, <1>8
<1>10. ASSUME NEW k \in 1..n, Upto[k - 1] = h[k - 1] PROVE Upto[k] = h[k]
  <2>1. k \in 0..n /\ k # 0
    BY <1>1
  <2>2. Upto[k] = put(k, Upto[k - 1]) /\ h[k] = put(k, h[k - 1])
    BY <1>5, <1>8, <2>1
  <2>. QED BY <1>10, <2>2
<1>11. Upto[n] = h[n]
  BY <1>1, <1>9, <1>10, LoopIs
<1>12. some(n) = Declared(p)
  BY DEF Declared, n
<1>. QED
  BY <1>2, <1>5, <1>11, <1>12 DEF made

\* Rows that are numbered in order are all there, and sorting leaves them alone.
LEMMA NumberedIsSorted ==
  ASSUME NEW rows
  PROVE  AllThere(Numbered(rows)) /\ Sorted(Numbered(rows)) = Numbered(rows)
<1>. DEFINE N == Numbered(rows)
            D == 1..Len(rows)
<1>1. DOMAIN N = D /\ N = [i \in D |-> N[i]] /\ \A i \in D : N[i].id = i
  BY DEF Numbered
<1>. HIDE DEF N, D
<1>2. \A i \in D : (CHOOSE k \in D : N[k].id = i) = i
  <2>. SUFFICES ASSUME NEW i \in D PROVE (CHOOSE k \in D : N[k].id = i) = i
    OBVIOUS
  <2>. DEFINE c == CHOOSE k \in D : N[k].id = i
  <2>1. c \in D /\ N[c].id = i
    <3>1. \E k \in D : N[k].id = i
      BY <1>1
    <3>. QED BY <3>1
  <2>. HIDE DEF c
  <2>2. c = i
    BY <1>1, <2>1
  <2>. QED BY <2>2 DEF c
<1>3. Sorted(N) = [i \in D |-> N[i]]
  BY <1>1, <1>2 DEF Sorted
<1>4. AllThere(N)
  BY <1>1 DEF AllThere
<1>. QED BY <1>1, <1>3, <1>4 DEF N

\* What a client makes of a manifest.
Kept(rows, src, ts, r) ==
  [rows |-> Numbered(rows), source |-> src, ts |-> timespec_from_usec(Usec(ts)),
   resolution |-> r]

LEMMA ResolutionFits ==
  \A r \in PkaResolution : r \in Uint /\ r \in Nat
BY WordHolds DEF PkaResolution, Uint

\* pk_manifest_decode: a manifest is read as it was written.
LEMMA ManifestDecoded ==
  ASSUME NEW rows \in Seq(Rowlike), Len(rows) < Word, Len(EncodeRows(rows)) < Word,
         NEW src \in Uint, NEW r \in PkaResolution,
         NEW ts, Usec(ts) \in Nat, Usec(ts) < LongWord, NEW m,
         m = [rows |-> rows, source |-> src, ts |-> ts, resolution |-> r]
  PROVE  DecodeManifest(EncodeManifest(m)) = Got(Kept(rows, src, ts, r), <<>>)
<1>. DEFINE all == EncodeRows(rows)
            w == WriteUint[Len(all)]
            u == Usec(ts)
            t1 == WriteTag(1, NumberTag)
            t2 == WriteTag(2, NumberTag)
            t3 == WriteTag(3, NumberTag)
            t4 == WriteTag(4, LengthTag)
            s4 == Cat(t4, Cat(w, all))
            s3 == Cat(t3, Cat(WriteUint[src], s4))
            s2 == Cat(t2, Cat(WriteUint[r], s3))
            s1 == Cat(t1, Cat(WriteUint[u], s2))
<1>1. /\ Word \in Nat /\ Word > 64 /\ r \in Uint
      /\ NumberTag \in 0..7 /\ LengthTag \in 0..7
  BY WordHolds, ResolutionFits DEF NumberTag, LengthTag
<1>2. /\ all \in Text /\ all \in Seq(Byte) /\ Len(all) \in Uint
      /\ DecodeRows(all, 0) = Got(Numbered(rows), <<>>)
  <2>1. <<>> \in Seq(Byte) /\ Len(<<>>) = 0
    OBVIOUS
  <2>2. all \in Text /\ DecodeRows(Cat(all, <<>>), 0) = Got(Numbered(rows), <<>>)
    BY <2>1, RowsSurvive
  <2>3. all \in Seq(Byte) /\ Len(all) \in Nat
    BY <2>2, DataWritten
  <2>. HIDE DEF all
  <2>4. Cat(all, <<>>) = all
    BY <2>3 DEF Cat
  <2>5. Len(all) \in Uint
    BY <1>1, <2>3 DEF Uint, all
  <2>. QED BY <2>2, <2>3, <2>4, <2>5
<1>. HIDE DEF all
<1>3. /\ t1 \in Seq(Byte) /\ t2 \in Seq(Byte) /\ t3 \in Seq(Byte) /\ t4 \in Seq(Byte)
      /\ w \in Seq(Byte) /\ WriteUint[u] \in Seq(Byte)
      /\ WriteUint[r] \in Seq(Byte) /\ WriteUint[src] \in Seq(Byte)
  <2>1. WriteUint[u] \in Seq(Byte)
    BY WriteUintShape
  <2>2. t1 \in Seq(Byte) /\ t2 \in Seq(Byte) /\ t3 \in Seq(Byte) /\ t4 \in Seq(Byte)
    BY <1>1, Written1 DEF NumberTag, LengthTag
  <2>3. w \in Seq(Byte) /\ WriteUint[r] \in Seq(Byte) /\ WriteUint[src] \in Seq(Byte)
    BY <1>1, <1>2, Written1
  <2>. HIDE DEF t1, t2, t3, t4, w, u
  <2>. QED BY <2>1, <2>2, <2>3
<1>4. EncodeManifest(m) = s1
  <2>. DEFINE six == Six(t1, WriteUint[u], t2, WriteUint[r], t3, WriteUint[src])
              d == Cat(w, all)
  <2>1. EncodeManifest(m) = Cat(Cat(six, t4), d)
    <3>1. timespec_to_usec(m.ts, LongWord) = u
      <4>1. timespec_to_usec(m.ts, LongWord) = u % LongWord
        BY DEF timespec_to_usec, Usec
      <4>2. u % LongWord = u
        <5>. HIDE DEF u
        <5>1. u \in Nat /\ u < LongWord /\ LongWord \in Nat
          BY WordHolds DEF u
        <5>. QED BY <5>1
      <4>. QED BY <4>1, <4>2
    <3>2. m.resolution = r /\ m.source = src /\ EncodeRows(m.rows) = all
      BY DEF all
    <3>. HIDE DEF u
    <3>. QED BY <3>1, <3>2 DEF EncodeManifest, WriteData, Six, Cat
  <2>2. d \in Seq(Byte)
    BY <1>2, <1>3, CatBytes
  <2>. HIDE DEF t1, t2, t3, t4, w, u, d
  <2>3. six \in Seq(Byte)
    BY <1>3, SixBytes
  <2>. HIDE DEF six
  <2>4. Cat(Cat(six, t4), d) = Cat(six, Cat(t4, d))
    BY <1>3, <2>2, <2>3, CatAssociative
  <2>5. Cat(t4, d) \in Seq(Byte)
    BY <1>3, <2>2, CatBytes
  <2>6. Cat(six, Cat(t4, d))
          = SixThen(t1, WriteUint[u], t2, WriteUint[r], t3, WriteUint[src], Cat(t4, d))
    BY <1>3, <2>5, SixRegroup DEF six
  <2>. QED BY <2>1, <2>4, <2>6 DEF SixThen, d
<1>5. s4 \in Seq(Byte) /\ ReadField(s4, 4, LengthTag, ReadUint) = Got(Len(all), all)
  <2>1. 4 \in Nat /\ 8 * 4 + 8 <= Word
    BY <1>1
  <2>. QED BY <1>1, <1>2, <2>1, UintFieldSurvives
<1>. HIDE DEF s4
<1>6. s3 \in Seq(Byte) /\ ReadField(s3, 3, NumberTag, ReadUint) = Got(src, s4)
  <2>1. 3 \in Nat /\ 8 * 3 + 8 <= Word
    BY <1>1
  <2>. QED BY <1>1, <1>5, <2>1, UintFieldSurvives
<1>. HIDE DEF s3
<1>7. s2 \in Seq(Byte) /\ ReadField(s2, 2, NumberTag, ReadUint) = Got(r, s3)
  <2>1. 2 \in Nat /\ 8 * 2 + 8 <= Word
    BY <1>1
  <2>. QED BY <1>1, <1>6, <2>1, UintFieldSurvives
<1>. HIDE DEF s2
<1>8. s1 \in Seq(Byte) /\ ReadField(s1, 1, NumberTag, ReadUint64) = Got(u, s2)
  <2>1. 1 \in Nat /\ 8 * 1 + 8 <= Word
    BY <1>1
  <2>. QED BY <1>1, <1>7, <2>1, Uint64FieldSurvives
<1>. HIDE DEF s1
<1>9. Len(all) - Len(all) = 0
  BY <1>2 DEF Uint
<1>10. AllThere(Numbered(rows)) /\ Sorted(Numbered(rows)) = Numbered(rows)
  BY NumberedIsSorted
<1>11. DecodeManifest(s1) = Got(Kept(rows, src, ts, r), <<>>)
  <2>. DEFINE N == Numbered(rows)
              L4 == ReadField(s4, 4, LengthTag, ReadUint)
              L3 == ReadField(s3, 3, NumberTag, ReadUint)
              L2 == ReadField(s2, 2, NumberTag, ReadUint)
              L1 == ReadField(s1, 1, NumberTag, ReadUint64)
  <2>4. /\ L4.ok /\ L4.rest = all /\ L4.value = Len(all)
        /\ L3.ok /\ L3.rest = s4 /\ L3.value = src
        /\ L2.ok /\ L2.rest = s3 /\ L2.value = r
        /\ L1.ok /\ L1.rest = s2 /\ L1.value = u
    BY <1>5, <1>6, <1>7, <1>8, GotIs
  <2>1. DecodeRows(L4.rest, Len(L4.rest) - L4.value) = Got(N, <<>>)
    <3>. HIDE DEF L4
    <3>1. Len(L4.rest) - L4.value = 0
      BY <1>9, <2>4
    <3>. QED BY <1>2, <2>4, <3>1
  <2>2. AllThere(N) /\ Sorted(N) = N
    BY <1>10
  <2>. HIDE DEF N, u
  <2>3. DecodeManifest(s1) =
          Got([rows |-> N, source |-> src, ts |-> timespec_from_usec(u),
               resolution |-> r], <<>>)
    BY SMTT(30), <2>1, <2>2, <2>4, GotIs DEF DecodeManifest, Then
  <2>. QED BY <2>3 DEF Kept, N, u
<1>. QED BY <1>4, <1>11
-----------------------------------------------------------------------------
(* Samples.                                                                 *)

\* The values that are appended as a type.
Kind == [boolean |-> BOOLEAN, int |-> Int32, uint |-> Uint,
         double |-> [1..DoubleSize -> Byte], float |-> [1..FloatSize -> Byte],
         string |-> Text]

\* A value of any type has a byte at least.
LEMMA ValueWritten ==
  ASSUME NEW as \in DOMAIN SampleTag, NEW v \in Kind[as]
  PROVE  /\ Written(as, v) \in Seq(Byte)
         /\ Len(Written(as, v)) >= 1
         /\ SampleTag[as] \in 0..7
<1>1. as \in {"boolean", "int", "uint", "double", "float", "string"}
  BY DEF SampleTag
<1>2. CASE as = "boolean"
  <2>1. Written(as, v) = <<IF v THEN 1 ELSE 0>>
    BY <1>2 DEF Written
  <2>2. (IF v THEN 1 ELSE 0) \in Byte
    BY BufferAssumption DEF Byte
  <2>. DEFINE d == IF v THEN 1 ELSE 0
  <2>3. Written(as, v) = <<d>> /\ d \in Byte
    BY <2>1, <2>2
  <2>4. SampleTag[as] \in 0..7
    BY <1>2 DEF SampleTag, NumberTag
  <2>. HIDE DEF d
  <2>. DEFINE s == <<d>>
  <2>5. Written(as, v) = s /\ s \in Seq(Byte) /\ Len(s) = 1
    BY <2>3
  <2>. HIDE DEF s
  <2>6. Len(Written(as, v)) >= 1 /\ Written(as, v) \in Seq(Byte)
    BY <2>5
  <2>. QED BY <2>4, <2>6
<1>3. CASE as = "int"
  <2>1. Written(as, v) = WriteUint[ZigZag(v)] /\ v \in Int32
    BY <1>3 DEF Written, WriteInt, Kind
  <2>2. SampleTag[as] \in 0..7
    BY <1>3 DEF SampleTag, NumberTag
  <2>. QED BY <2>1, <2>2, FoldedFits, Written1
<1>4. CASE as = "uint"
  <2>1. Written(as, v) = WriteUint[v] /\ v \in Uint
    BY <1>4 DEF Written, Kind
  <2>2. SampleTag[as] \in 0..7
    BY <1>4 DEF SampleTag, NumberTag
  <2>. QED BY <2>1, <2>2, Written1
<1>5. CASE as = "string"
  <2>1. Written(as, v) = WriteData(v) /\ v \in Text
    BY <1>5 DEF Written, Kind
  <2>2. SampleTag[as] \in 0..7
    BY <1>5 DEF SampleTag, LengthTag
  <2>3. Len(v) \in Nat /\ WriteData(v) \in Seq(Byte) /\ Len(WriteData(v)) >= 1 + Len(v)
    BY <2>1, DataWritten
  <2>. DEFINE w == WriteData(v)
  <2>4. Len(w) \in Nat
    BY <2>3, LenProperties
  <2>. HIDE DEF w
  <2>5. Len(w) >= 1
    BY <2>3, <2>4 DEF w
  <2>. QED BY <2>1, <2>2, <2>3, <2>5 DEF w
<1>6. CASE as = "double"
  <2>1. Written(as, v) = v /\ v \in [1..DoubleSize -> Byte]
    BY <1>6 DEF Written, Kind
  <2>2. SampleTag[as] \in 0..7
    BY <1>6 DEF SampleTag, DoubleTag
  <2>3. DoubleSize \in Nat /\ DoubleSize >= 1
    BY BufferAssumption
  <2>4. v \in Seq(Byte) /\ Len(v) = DoubleSize
    BY <2>1, <2>3, SeqDef, LenProperties
  <2>. QED BY <2>1, <2>2, <2>3, <2>4
<1>7. CASE as = "float"
  <2>1. Written(as, v) = v /\ v \in [1..FloatSize -> Byte]
    BY <1>7 DEF Written, Kind
  <2>2. SampleTag[as] \in 0..7
    BY <1>7 DEF SampleTag, FloatTag
  <2>3. FloatSize \in Nat /\ FloatSize >= 1
    BY BufferAssumption
  <2>4. v \in Seq(Byte) /\ Len(v) = FloatSize
    BY <2>1, <2>3, SeqDef, LenProperties
  <2>. QED BY <2>1, <2>2, <2>3, <2>4
<1>. QED BY <1>1, <1>2, <1>3, <1>4, <1>5, <1>6, <1>7

\* The types that pk_sample_decode_data has a case for.
LEMMA ReadableIs ==
  /\ Readable = {G_TYPE_INT, G_TYPE_UINT, G_TYPE_DOUBLE, G_TYPE_FLOAT,
                 G_TYPE_STRING}
  /\ G_TYPE_BOOLEAN \notin Readable
  /\ \A tag, type : <<tag, type>> \in ReadersAgree => type \in Readable
<1>1. Readable = {G_TYPE_INT, G_TYPE_UINT, G_TYPE_DOUBLE, G_TYPE_FLOAT,
                  G_TYPE_STRING}
  BY DEF Readable, ReadersAgree
<1>2. G_TYPE_BOOLEAN \notin Readable
  BY <1>1 DEF G_TYPE_BOOLEAN, G_TYPE_INT, G_TYPE_UINT, G_TYPE_DOUBLE,
     G_TYPE_FLOAT, G_TYPE_STRING
<1>3. ASSUME NEW tag, NEW type, <<tag, type>> \in ReadersAgree
      PROVE  type \in Readable
  <2>1. <<tag, type>>[2] = type
    OBVIOUS
  <2>. QED BY <1>3, <2>1 DEF Readable
<1>. QED BY <1>1, <1>2, <1>3

\* pk_sample_decode_data: a value that is written as its row is declared is
\* read as it was written, if the row's type is one that is read.
LEMMA ValueSurvives ==
  ASSUME NEW type \in Readable, NEW as, <<type, as>> \in WrittenAs,
         as \in DOMAIN SampleTag, NEW v \in Kind[as], NEW rest \in Seq(Byte)
  PROVE  /\ <<SampleTag[as], type>> \in ReadersAgree
         /\ ReadValue(type, Cat(Written(as, v), rest)) = Got(v, rest)
<1>1. \/ type = G_TYPE_INT /\ as = "int"
      \/ type = G_TYPE_UINT /\ as = "uint"
      \/ type = G_TYPE_FLOAT /\ as = "float"
      \/ type = G_TYPE_DOUBLE /\ as = "double"
      \/ type = G_TYPE_STRING /\ as = "string"
  <2>1. \/ type = G_TYPE_BOOLEAN
        \/ type = G_TYPE_INT /\ as = "int"
        \/ type = G_TYPE_UINT /\ as = "uint"
        \/ type = G_TYPE_FLOAT /\ as = "float"
        \/ type = G_TYPE_DOUBLE /\ as = "double"
        \/ type = G_TYPE_STRING /\ as = "string"
    BY DEF WrittenAs
  <2>. QED BY <2>1, ReadableIs
<1>. USE DEF G_TYPE_INT, G_TYPE_UINT, G_TYPE_FLOAT, G_TYPE_DOUBLE, G_TYPE_STRING
<1>2. CASE type = G_TYPE_INT /\ as = "int"
  <2>1. Written(as, v) = WriteInt(v) /\ v \in Int32
    BY <1>2 DEF Written, Kind
  <2>2. <<SampleTag[as], type>> \in ReadersAgree
    BY <1>2 DEF SampleTag, ReadersAgree
  <2>3. \A s : ReadValue(type, s) = ReadInt(s)
    BY <1>2 DEF ReadValue
  <2>. QED BY <2>1, <2>2, <2>3, IntSurvives
<1>3. CASE type = G_TYPE_UINT /\ as = "uint"
  <2>1. Written(as, v) = WriteUint[v] /\ v \in Uint
    BY <1>3 DEF Written, Kind
  <2>2. <<SampleTag[as], type>> \in ReadersAgree
    BY <1>3 DEF SampleTag, ReadersAgree
  <2>3. \A s : ReadValue(type, s) = ReadUint(s)
    BY <1>3 DEF ReadValue
  <2>. QED BY <2>1, <2>2, <2>3, UintSurvives
<1>4. CASE type = G_TYPE_STRING /\ as = "string"
  <2>1. Written(as, v) = WriteData(v) /\ v \in Text
    BY <1>4 DEF Written, Kind
  <2>2. <<SampleTag[as], type>> \in ReadersAgree
    BY <1>4 DEF SampleTag, ReadersAgree
  <2>3. \A s : ReadValue(type, s) = ReadString(s)
    BY <1>4 DEF ReadValue
  <2>. QED BY <2>1, <2>2, <2>3, TextSurvives
<1>5. CASE type = G_TYPE_DOUBLE /\ as = "double"
  <2>1. Written(as, v) = v /\ v \in [1..DoubleSize -> Byte]
    BY <1>5 DEF Written, Kind
  <2>2. <<SampleTag[as], type>> \in ReadersAgree
    BY <1>5 DEF SampleTag, ReadersAgree
  <2>3. \A s : ReadValue(type, s) = ReadBytes(s, DoubleSize)
    BY <1>5 DEF ReadValue
  <2>4. v \in Seq(Byte) /\ Len(v) = DoubleSize
    BY <2>1, SeqDef, LenProperties, BufferAssumption
  <2>5. ReadBytes(Cat(v, rest), Len(v)) = Got(v, rest)
    BY <2>4, BytesSurvive
  <2>. QED BY <2>1, <2>2, <2>3, <2>4, <2>5
<1>6. CASE type = G_TYPE_FLOAT /\ as = "float"
  <2>1. Written(as, v) = v /\ v \in [1..FloatSize -> Byte]
    BY <1>6 DEF Written, Kind
  <2>2. <<SampleTag[as], type>> \in ReadersAgree
    BY <1>6 DEF SampleTag, ReadersAgree
  <2>3. \A s : ReadValue(type, s) = ReadBytes(s, FloatSize)
    BY <1>6 DEF ReadValue
  <2>4. v \in Seq(Byte) /\ Len(v) = FloatSize
    BY <2>1, SeqDef, LenProperties, BufferAssumption
  <2>5. ReadBytes(Cat(v, rest), Len(v)) = Got(v, rest)
    BY <2>4, BytesSurvive
  <2>. QED BY <2>1, <2>2, <2>3, <2>4, <2>5
<1>. QED BY <1>1, <1>2, <1>3, <1>4, <1>5, <1>6

\* What a plugin appends for a row, and the bytes of it.
Field(p, n) ==
  [k \in 1..Len(p) |-> Cat(WriteTag(k, SampleTag[p[k].as]),
                           Written(p[k].as, Reading(p, n)[k]))]

\* A plugin appends values of the types it says.
LEMMA ReadingIs ==
  ASSUME NEW p \in Plugins, NEW n \in Readings, NEW k \in 1..Len(p)
  PROVE  Reading(p, n)[k] \in Kind[p[k].as]
<1>. DEFINE as == p[k].as
            values == Values[as]
            i == 1 + ((n + k) % Len(values))
<1>1. k \in Nat /\ n \in Nat /\ as \in DOMAIN SampleTag
  BY PluginIs DEF Readings
<1>2. Reading(p, n)[k] = values[i]
  BY PluginIs DEF Reading
<1>. HIDE DEF as
<1>3. as \in {"boolean", "int", "uint", "double", "float", "string"}
  BY <1>1 DEF SampleTag
<1>4. values \in Seq(Kind[as])
  <2>1. /\ Kind["boolean"] = BOOLEAN /\ Kind["int"] = Int32 /\ Kind["uint"] = Uint
        /\ Kind["double"] = [1..DoubleSize -> Byte]
        /\ Kind["float"] = [1..FloatSize -> Byte] /\ Kind["string"] = Text
    BY DEF Kind
  <2>. QED BY <1>3, <2>1, SizeAssumption
<1>5. values # <<>>
  BY <1>1, SizeAssumption
<1>. HIDE DEF values
<1>6. Len(values) \in Nat \ {0}
  BY <1>4, <1>5
<1>7. i \in 1..Len(values)
  <2>. DEFINE l == Len(values)
  <2>1. l \in Nat \ {0}
    BY <1>6
  <2>. HIDE DEF l
  <2>2. 1 + ((n + k) % l) \in 1..l
    BY <1>1, <2>1
  <2>. QED BY <2>2 DEF l
<1>. HIDE DEF i
<1>8. values[i] \in Kind[as]
  <2>. DEFINE V == Kind[as]
  <2>1. values \in Seq(V)
    BY <1>4
  <2>. HIDE DEF V
  <2>2. values[i] \in V
    BY <1>7, <2>1, ElementOfSeq
  <2>. QED BY <2>2 DEF V
<1>. QED BY <1>2, <1>8 DEF as

\* What a plugin appends is a tag and a value, of two bytes or more.
LEMMA FieldWritten ==
  ASSUME NEW p \in Plugins, NEW n \in Readings, NEW k \in 1..Len(p)
  PROVE  /\ Field(p, n)[k] = Cat(WriteTag(k, SampleTag[p[k].as]),
                                 Written(p[k].as, Reading(p, n)[k]))
         /\ Field(p, n)[k] \in Seq(Byte)
         /\ Len(Field(p, n)[k]) >= 2 /\ Len(Field(p, n)[k]) \in Nat
         /\ k \in Nat /\ 8 * k + 8 <= Word
         /\ SampleTag[p[k].as] \in 0..7
         /\ WriteTag(k, SampleTag[p[k].as]) \in Seq(Byte)
         /\ Written(p[k].as, Reading(p, n)[k]) \in Seq(Byte)
<1>. DEFINE as == p[k].as
            v == Reading(p, n)[k]
            t == WriteTag(k, SampleTag[as])
            w == Written(as, v)
<1>1. Field(p, n)[k] = Cat(t, w)
  BY DEF Field
<1>2. k \in Nat /\ 8 * k + 8 <= Word /\ as \in DOMAIN SampleTag
  <2>1. /\ Len(p) \in Nat /\ 8 * Len(p) + 8 <= Word /\ as \in DOMAIN SampleTag
    BY PluginIs
  <2>. QED BY <2>1, WordHolds
<1>3. v \in Kind[as]
  BY ReadingIs
<1>4. w \in Seq(Byte) /\ Len(w) >= 1 /\ SampleTag[as] \in 0..7
  BY <1>2, <1>3, ValueWritten
<1>5. t \in Seq(Byte) /\ Len(t) >= 1
  BY <1>2, <1>4, Written1
<1>. HIDE DEF t, w
<1>6. Cat(t, w) \in Seq(Byte) /\ Len(Cat(t, w)) = Len(t) + Len(w)
      /\ Len(t) \in Nat /\ Len(w) \in Nat
  BY <1>4, <1>5, CatBytes
<1>7. Len(Cat(t, w)) >= 2 /\ Len(Cat(t, w)) \in Nat
  BY <1>4, <1>5, <1>6
<1>. QED BY <1>1, <1>2, <1>4, <1>5, <1>6, <1>7 DEF t, w

\* A sample is its fields, one after the other.
LEMMA SampledIs ==
  ASSUME NEW p \in Plugins, NEW time, NEW n \in Readings, NEW e, NEW b,
         Pieces(Len(p), Field(p, n), e, b)
  PROVE  Sampled(p, time, n) = [ts |-> time, source |-> -1, buf |-> e[Len(p)]]
<1>. DEFINE len == Len(p)
            first == pka_sample_new(time)
            put(k, s) == pka_sample_append(p[k].as, s, k, Reading(p, n)[k])
            Upto[k \in 0..len] == IF k = 0 THEN first ELSE put(k, Upto[k - 1])
            made(k) == [ts |-> time, source |-> -1, buf |-> e[k]]
            h == [k \in 0..len |-> made(k)]
<1>1. len \in Nat
  BY PluginIs
<1>2. Sampled(p, time, n) = Upto[len]
  BY DEF Sampled
<1>3. made(0) = first
  BY DEF pka_sample_new, Pieces
<1>4. ASSUME NEW k \in 1..len PROVE put(k, made(k - 1)) = made(k)
  <2>. DEFINE t == WriteTag(k, SampleTag[p[k].as])
              w == Written(p[k].as, Reading(p, n)[k])
              s == e[k - 1]
              m == [ts |-> time, source |-> -1, buf |-> s]
              longer == Cat(Cat(s, t), w)
  <2>1. put(k, m) = [m EXCEPT !.buf = longer]
    <3>1. m.buf = s
      OBVIOUS
    <3>. HIDE DEF m, s
    <3>. QED BY <3>1 DEF pka_sample_append, Cat
  <2>2. longer = e[k]
    <3>1. t \in Seq(Byte) /\ w \in Seq(Byte) /\ Field(p, n)[k] = Cat(t, w)
      BY FieldWritten
    <3>2. s \in Seq(Byte) /\ e[k] = Cat(s, Field(p, n)[k])
      <4>1. k - 1 \in 0..len
        BY <1>1
      <4>. QED BY <4>1 DEF Pieces
    <3>. HIDE DEF t, w, s
    <3>. QED BY <3>1, <3>2, CatAssociative
  <2>. HIDE DEF longer, put
  <2>3. [m EXCEPT !.buf = longer] = [ts |-> time, source |-> -1, buf |-> longer]
    <3>. HIDE DEF s
    <3>. QED OBVIOUS
  <2>. QED BY <2>1, <2>2, <2>3
<1>. HIDE DEF put, made, first
<1>5. /\ h[0] = first /\ h[len] = made(len)
      /\ \A k \in 1..len : h[k] = put(k, h[k - 1])
  <2>. HIDE DEF len
  <2>1. h[0] = first /\ h[len] = made(len)
    BY <1>1, <1>3
  <2>2. ASSUME NEW k \in 1..len PROVE h[k] = put(k, h[k - 1])
    <3>1. k - 1 \in 0..len /\ k \in 0..len
      BY <1>1
    <3>2. h[k] = made(k) /\ h[k - 1] = made(k - 1)
      BY <3>1
    <3>. QED BY <1>4, <3>2
  <2>. QED BY <2>1, <2>2
<1>6. DOMAIN h = 0..len /\ h = [k \in 0..len |-> h[k]]
  OBVIOUS
<1>. HIDE DEF h, len
<1>7. h = [k \in 0..len |-> IF k = 0 THEN first ELSE put(k, h[k - 1])]
  <2>1. \A k \in 0..len : h[k] = IF k = 0 THEN first ELSE put(k, h[k - 1])
    <3>1. \A k \in 0..len : k # 0 => k \in 1..len
      BY <1>1
    <3>. QED BY <1>5, <3>1
  <2>. QED BY <1>6, <2>1
<1>8. Upto = [k \in 0..len |-> IF k = 0 THEN first ELSE put(k, Upto[k - 1])]
  <2>1. \E f : f = [k \in 0..len |-> IF k = 0 THEN first ELSE put(k, f[k - 1])]
    BY <1>7
  <2>. QED BY <2>1
<1>. HIDE DEF Upto
<1>9. Upto[0] = h[0]
  BY <1>1, <1>5, <1>8
<1>10. ASSUME NEW k \in 1..len, Upto[k - 1] = h[k - 1] PROVE Upto[k] = h[k]
  <2>1. k \in 0..len /\ k # 0
    BY <1>1
  <2>2. Upto[k] = put(k, Upto[k - 1]) /\ h[k] = put(k, h[k - 1])
    BY <1>5, <1>8, <2>1
  <2>. QED BY <1>10, <2>2
<1>11. Upto[len] = h[len]
  BY <1>1, <1>9, <1>10, LoopIs
<1>. QED
  BY <1>2, <1>5, <1>11 DEF made, len

\* What is sent of a sample fits in a message.
LEMMA SampledFits ==
  ASSUME NEW p \in Plugins, NEW time \in Clock, NEW n \in Readings
  PROVE  \E e, b : /\ Pieces(Len(p), Field(p, n), e, b)
                   /\ b[Len(p)] = <<>> /\ b[0] = e[Len(p)]
                   /\ e[Len(p)] \in Text
                   /\ Sampled(p, time, n) =
                        [ts |-> time, source |-> -1, buf |-> e[Len(p)]]
<1>. DEFINE len == Len(p)
            X == Field(p, n)
<1>1. len \in Nat /\ <<>> \in Seq(Byte) /\ X \in [1..len -> Seq(Byte)]
  <2>1. X = [k \in 1..len |-> X[k]] /\ \A k \in 1..len : X[k] \in Seq(Byte)
    BY FieldWritten DEF Field
  <2>2. len \in Nat
    BY PluginIs
  <2>. HIDE DEF X, len
  <2>. QED BY <2>1, <2>2
<1>2. PICK e, b : Pieces(len, X, e, b) /\ b[len] = <<>> /\ b[0] = Cat(e[len], <<>>)
  <2>. HIDE DEF X, len
  <2>. QED BY <1>1, Concatenation
<1>3. Sampled(p, time, n) = [ts |-> time, source |-> -1, buf |-> e[len]]
  BY <1>2, SampledIs
<1>4. e[len] \in Seq(Byte)
  BY <1>1, <1>2 DEF Pieces
<1>5. Len(e[len]) < Word
  <2>1. Len(Sampled(p, time, n).buf) < Word
    BY SizeAssumption
  <2>. QED BY <1>3, <2>1
<1>6. b[0] = e[len]
  BY <1>2, <1>4 DEF Cat
<1>. QED BY <1>2, <1>3, <1>4, <1>5, <1>6 DEF Text

\* A field is found by its tag, and so is the row that it is of.
LEMMA FieldFound ==
  ASSUME NEW p \in Plugins, NEW n \in Readings, NEW k \in 1..Len(p),
         NEW rest \in Seq(Byte), NEW m, m.rows = Numbered(Declared(p))
  PROVE  /\ ReadTag(Cat(Field(p, n)[k], rest))
              = Got([field |-> k, tag |-> SampleTag[p[k].as]],
                    Cat(Written(p[k].as, Reading(p, n)[k]), rest))
         /\ k \in DOMAIN m.rows /\ m.rows[k].type = p[k].type
<1>. DEFINE type == p[k].type
            as == p[k].as
            tag == SampleTag[as]
            v == Reading(p, n)[k]
            t == WriteTag(k, tag)
            w == Written(as, v)
            s == Cat(Field(p, n)[k], rest)
            wr == Cat(w, rest)
<1>1. /\ Field(p, n)[k] = Cat(t, w) /\ t \in Seq(Byte) /\ w \in Seq(Byte)
      /\ k \in Nat /\ 8 * k + 8 <= Word /\ tag \in 0..7
  BY FieldWritten
<1>2. s = Cat(t, wr) /\ wr \in Seq(Byte)
  <2>1. Cat(Cat(t, w), rest) = Cat(t, Cat(w, rest))
    <3>. HIDE DEF t, w
    <3>. QED BY <1>1, CatAssociative
  <2>2. wr \in Seq(Byte)
    <3>. HIDE DEF w
    <3>. QED BY <1>1, CatBytes
  <2>. QED BY <1>1, <2>1, <2>2
<1>3. k \in DOMAIN m.rows /\ m.rows[k].type = type
  <2>1. Len(Declared(p)) = Len(p)
    BY PluginIs
  <2>2. k \in DOMAIN Numbered(Declared(p))
    BY <2>1 DEF Numbered
  <2>3. Numbered(Declared(p))[k].type = type
    BY <2>1 DEF Numbered, Declared
  <2>. QED BY <2>2, <2>3
<1>4. ReadTag(s) = Got([field |-> k, tag |-> tag], wr)
  <2>. HIDE DEF wr, tag
  <2>. QED BY <1>1, <1>2, TagSurvives
<1>. QED BY <1>3, <1>4

\* A field of a type that is read is read into its row.
LEMMA FieldSurvives ==
  ASSUME NEW p \in Plugins, NEW n \in Readings, NEW k \in 1..Len(p),
         <<p[k].type, p[k].as>> \in WrittenAs, p[k].type \in Readable,
         NEW rest \in Seq(Byte), NEW m, m.rows = Numbered(Declared(p))
  PROVE  DecodeField(Cat(Field(p, n)[k], rest), m)
           = Got([field |-> k, value |-> Reading(p, n)[k]], rest)
<1>. DEFINE type == p[k].type
            as == p[k].as
            tag == SampleTag[as]
            v == Reading(p, n)[k]
            s == Cat(Field(p, n)[k], rest)
            wr == Cat(Written(as, v), rest)
            T == ReadTag(s)
            V == ReadValue(type, wr)
<1>1. as \in DOMAIN SampleTag /\ v \in Kind[as]
  BY PluginIs, ReadingIs
<1>2. <<tag, type>> \in ReadersAgree /\ V = Got(v, rest)
  BY <1>1, ValueSurvives
<1>3. /\ T = Got([field |-> k, tag |-> tag], wr)
      /\ k \in DOMAIN m.rows /\ m.rows[k].type = type
  BY FieldFound
<1>. HIDE DEF s, wr, v, tag, type
<1>4. T.ok /\ T.rest = wr /\ T.value.field = k /\ T.value.tag = tag
  BY <1>3, GotIs
<1>5. V.ok /\ V.value = v /\ V.rest = rest
  BY <1>2, GotIs
<1>6. DecodeField(s, m) =
        (IF \/ k \notin DOMAIN m.rows
            \/ <<tag, m.rows[k].type>> \notin ReadersAgree
         THEN Failed
         ELSE Then(ReadValue(m.rows[k].type, wr), LAMBDA x :
                Got([field |-> k, value |-> x.value], x.rest)))
  BY <1>4 DEF DecodeField, Then
<1>7. DecodeField(s, m)
        = Then(V, LAMBDA x : Got([field |-> k, value |-> x.value], x.rest))
  BY <1>2, <1>3, <1>6
<1>. HIDE DEF V
<1>8. DecodeField(s, m) = Got([field |-> k, value |-> v], rest)
  BY <1>5, <1>7 DEF Then
<1>. QED BY <1>8 DEF s, v

\* A field of another type ends the reading.
LEMMA FieldRefused ==
  ASSUME NEW p \in Plugins, NEW n \in Readings, NEW k \in 1..Len(p),
         p[k].type \notin Readable,
         NEW rest \in Seq(Byte), NEW m, m.rows = Numbered(Declared(p))
  PROVE  DecodeField(Cat(Field(p, n)[k], rest), m) = Failed
<1>. DEFINE tag == SampleTag[p[k].as]
            s == Cat(Field(p, n)[k], rest)
            wr == Cat(Written(p[k].as, Reading(p, n)[k]), rest)
            T == ReadTag(s)
<1>1. /\ T = Got([field |-> k, tag |-> tag], wr)
      /\ m.rows[k].type = p[k].type
  BY FieldFound
<1>. HIDE DEF s, wr, tag
<1>2. T.ok /\ T.value.field = k /\ T.value.tag = tag
  BY <1>1, GotIs
<1>3. <<tag, m.rows[k].type>> \notin ReadersAgree
  BY <1>1, ReadableIs
<1>4. DecodeField(s, m) = Failed
  BY <1>2, <1>3 DEF DecodeField, Then
<1>. QED BY <1>4 DEF s

\* One more turn of the loop in pk_sample_decode.
Another(read, m) ==
  IF ~read.ok \/ read.rest = <<>> THEN read
  ELSE Then(DecodeField(read.rest, m), LAMBDA f :
         Got(Append(read.value, f.value), f.rest))

\* The first k of the fields, as they were appended.
Firsts(p, n, k) == [l \in 1..k |-> [field |-> l, value |-> Reading(p, n)[l]]]

\* What goes from turn to turn as the loop does.
Turned(h, turns, data, m) ==
  /\ turns \in Nat /\ turns = Len(data) \div 2 + 1
  /\ h = [k \in 0..turns |-> h[k]]
  /\ h[0] = Got(<<>>, data)
  /\ \A k \in 1..turns : h[k] = Another(h[k - 1], m)

LEMMA TurnsAre ==
  ASSUME NEW data, NEW m, NEW turns, NEW h, Turned(h, turns, data, m)
  PROVE  DecodeFields(data, m) = h[turns]
<1>0. /\ turns \in Nat /\ turns = Len(data) \div 2 + 1
      /\ h = [k \in 0..turns |-> h[k]]
      /\ h[0] = Got(<<>>, data)
      /\ \A k \in 1..turns : h[k] = Another(h[k - 1], m)
  BY DEF Turned
<1>. DEFINE next(read) == Another(read, m)
            Turn[k \in 0..turns] ==
              IF k = 0 THEN Got(<<>>, data) ELSE next(Turn[k - 1])
<1>1. DecodeFields(data, m) = Turn[turns]
  BY <1>0 DEF DecodeFields, Another
<1>2. \A k \in 1..turns : h[k] = next(h[k - 1])
  BY <1>0
<1>. HIDE DEF next
<1>3. h = [k \in 0..turns |-> IF k = 0 THEN Got(<<>>, data) ELSE next(h[k - 1])]
  <2>1. \A k \in 0..turns :
          h[k] = IF k = 0 THEN Got(<<>>, data) ELSE next(h[k - 1])
    <3>1. \A k \in 0..turns : k # 0 => k \in 1..turns
      BY <1>0
    <3>. QED BY <1>0, <1>2, <3>1
  <2>. QED BY <1>0, <2>1
<1>4. Turn = [k \in 0..turns |->
                IF k = 0 THEN Got(<<>>, data) ELSE next(Turn[k - 1])]
  <2>1. \E f : f = [k \in 0..turns |->
                      IF k = 0 THEN Got(<<>>, data) ELSE next(f[k - 1])]
    BY <1>3
  <2>. QED BY <2>1
<1>. HIDE DEF Turn
<1>5. Turn[0] = h[0]
  BY <1>0, <1>4
<1>6. ASSUME NEW k \in 1..turns, Turn[k - 1] = h[k - 1] PROVE Turn[k] = h[k]
  <2>1. k \in 0..turns /\ k # 0
    BY <1>0
  <2>2. Turn[k] = next(Turn[k - 1]) /\ h[k] = next(h[k - 1])
    BY <1>2, <1>4, <2>1
  <2>. QED BY <1>6, <2>2
<1>7. Turn[turns] = h[turns]
  BY <1>0, <1>5, <1>6, LoopIs
<1>. QED BY <1>1, <1>7

\* There are turns enough for the fields of a sample, and none is empty.
LEMMA TurnsForFields ==
  ASSUME NEW p \in Plugins, NEW n \in Readings, NEW e, NEW b,
         Pieces(Len(p), Field(p, n), e, b), b[Len(p)] = <<>>
  PROVE  /\ Len(b[0]) \div 2 + 1 \in Nat
         /\ Len(p) \in Nat /\ Len(p) <= Len(b[0]) \div 2 + 1
         /\ \A k \in 1..Len(p) :
              /\ b[k - 1] # <<>> /\ b[k] \in Seq(Byte)
              /\ b[k - 1] = Cat(Field(p, n)[k], b[k])
<1>. DEFINE len == Len(p)
            X == Field(p, n)
<1>1. len \in Nat
  BY PluginIs
<1>2. \A k \in 1..len : Len(X[k]) >= 2
  BY FieldWritten
<1>. HIDE DEF len, X
<1>3. Pieces(len, X, e, b) /\ b[len] = <<>>
  BY DEF len, X
<1>4. \A k \in 0..len : b[k] \in Seq(Byte)
  BY <1>3 DEF Pieces
<1>5. /\ 2 * len <= Len(b[0])
      /\ \A k \in 1..len : Len(b[k - 1]) >= Len(b[len]) + 2
  BY <1>1, <1>2, <1>3, PiecesLong
<1>6. Len(b[0]) \div 2 + 1 \in Nat /\ len <= Len(b[0]) \div 2 + 1
  <2>. DEFINE l == Len(b[0])
  <2>1. l \in Nat /\ 2 \in {2, 7} /\ 2 * len <= l
    <3>1. b[0] \in Seq(Byte)
      BY <1>1, <1>4
    <3>. QED BY <1>5, <3>1, LenProperties
  <2>. HIDE DEF l
  <2>2. l \div 2 + 1 \in Nat /\ len <= l \div 2 + 1
    BY <1>1, <2>1, TurnsSuffice
  <2>. QED BY <2>2 DEF l
<1>7. ASSUME NEW k \in 1..len
      PROVE  /\ b[k - 1] # <<>> /\ b[k] \in Seq(Byte)
             /\ b[k - 1] = Cat(X[k], b[k])
  <2>1. Len(b[len]) = 0 /\ Len(<<>>) = 0
    BY <1>3
  <2>2. Len(b[k - 1]) >= Len(b[len]) + 2
    BY <1>5
  <2>3. b[k] \in Seq(Byte) /\ b[k - 1] = Cat(X[k], b[k])
    BY <1>1, <1>3 DEF Pieces
  <2>. QED BY <2>1, <2>2, <2>3
<1>. QED BY <1>1, <1>6, <1>7 DEF len, X

\* A turn adds the field that it is at, if that is of a type that is read.
LEMMA FieldRead ==
  ASSUME NEW p \in Plugins, NEW n \in Readings, NEW k \in 1..Len(p),
         <<p[k].type, p[k].as>> \in WrittenAs, p[k].type \in Readable,
         NEW e, NEW b, Pieces(Len(p), Field(p, n), e, b), b[Len(p)] = <<>>,
         NEW m, m.rows = Numbered(Declared(p))
  PROVE  Another(Got(Firsts(p, n, k - 1), b[k - 1]), m)
           = Got(Firsts(p, n, k), b[k])
<1>. DEFINE field(l) == [field |-> l, value |-> Reading(p, n)[l]]
            some(l) == Firsts(p, n, l)
            read == Got(some(k - 1), b[k - 1])
            got == DecodeField(read.rest, m)
<1>1. Len(p) \in Nat /\ b[k - 1] # <<>> /\ b[k] \in Seq(Byte)
      /\ b[k - 1] = Cat(Field(p, n)[k], b[k])
  BY TurnsForFields
<1>2. DecodeField(b[k - 1], m) = Got(field(k), b[k])
  BY <1>1, FieldSurvives
<1>3. Append(some(k - 1), field(k)) = some(k)
  <2>. DEFINE list(i) == [l \in 1..i |-> field(l)]
  <2>1. some(k) = list(k) /\ some(k - 1) = list(k - 1)
    BY DEF Firsts
  <2>. HIDE DEF some, field
  <2>. DEFINE F == {field(l) : l \in 1..k}
  <2>2. k \in Nat /\ k - 1 \in Nat
    BY <1>1
  <2>3. list(k - 1) \in [1..k - 1 -> F]
    BY <2>2
  <2>4. list(k - 1) \in Seq(F) /\ Len(list(k - 1)) = k - 1
    <3>. HIDE DEF F, list
    <3>. QED BY <2>2, <2>3, SeqDef, LenProperties
  <2>5. Append(list(k - 1), field(k)) = list(k)
    BY <2>4
  <2>. QED BY <2>1, <2>5
<1>4. read.ok /\ read.rest = b[k - 1] /\ read.value = some(k - 1)
  BY GotIs
<1>. HIDE DEF read
<1>5. got = Got(field(k), b[k])
  BY <1>2, <1>4
<1>6. got.ok /\ got.value = field(k) /\ got.rest = b[k]
  BY <1>5, GotIs
<1>7. Another(read, m)
        = Then(got, LAMBDA f : Got(Append(read.value, f.value), f.rest))
  BY <1>1, <1>4 DEF Another
<1>. HIDE DEF got, some, field
<1>8. Another(read, m) = Got(Append(read.value, got.value), got.rest)
  BY <1>6, <1>7 DEF Then
<1>. QED BY <1>3, <1>4, <1>6, <1>8 DEF read, some

\* Nothing is read before the first field.
LEMMA NothingRead ==
  ASSUME NEW p, NEW n
  PROVE  Firsts(p, n, 0) = <<>>
  BY DEF Firsts

\* All fields of a sample are read, each into its row.
LEMMA FieldsSurvive ==
  ASSUME NEW p \in Plugins, NEW n \in Readings,
         \A i \in 1..Len(p) : /\ <<p[i].type, p[i].as>> \in WrittenAs
                              /\ p[i].type \in Readable,
         NEW e, NEW b, Pieces(Len(p), Field(p, n), e, b), b[Len(p)] = <<>>,
         NEW m, m.rows = Numbered(Declared(p))
  PROVE  DecodeFields(b[0], m) = Got(Firsts(p, n, Len(p)), <<>>)
<1>. DEFINE len == Len(p)
            some(k) == Firsts(p, n, k)
            turns == Len(b[0]) \div 2 + 1
            least(k) == IF k <= len THEN k ELSE len
            h == [k \in 0..turns |-> Got(some(least(k)), b[least(k)])]
<1>1. turns \in Nat /\ len \in Nat /\ len <= turns
  BY TurnsForFields
<1>2. ASSUME NEW k \in 1..len
      PROVE  Another(Got(some(k - 1), b[k - 1]), m) = Got(some(k), b[k])
  BY FieldRead
<1>3. some(0) = <<>>
  BY NothingRead
<1>. HIDE DEF some, len
<1>4. b[len] = <<>>
  BY DEF len
<1>5. Another(Got(some(len), b[len]), m) = Got(some(len), b[len])
  BY <1>4, GotIs DEF Another
<1>6. h[0] = Got(<<>>, b[0])
  <2>. HIDE DEF turns
  <2>1. least(0) = 0 /\ 0 \in 0..turns
    BY <1>1
  <2>. HIDE DEF least
  <2>. QED BY <1>3, <2>1
<1>7. ASSUME NEW k \in 1..turns PROVE h[k] = Another(h[k - 1], m)
  <2>. HIDE DEF turns
  <2>1. k \in 0..turns /\ k - 1 \in 0..turns
    BY <1>1
  <2>2. CASE k <= len
    <3>1. k \in 1..len /\ least(k) = k /\ least(k - 1) = k - 1
      BY <1>1, <2>2
    <3>. HIDE DEF least
    <3>2. h[k] = Got(some(k), b[k]) /\ h[k - 1] = Got(some(k - 1), b[k - 1])
      BY <2>1, <3>1
    <3>. QED BY <1>2, <3>1, <3>2
  <2>3. CASE ~(k <= len)
    <3>1. least(k) = len /\ least(k - 1) = len
      BY <1>1, <2>3
    <3>. HIDE DEF least
    <3>2. h[k] = Got(some(len), b[len]) /\ h[k - 1] = Got(some(len), b[len])
      BY <2>1, <3>1
    <3>. QED BY <1>5, <3>2
  <2>. QED BY <2>2, <2>3
<1>8. h[turns] = Got(some(len), b[len])
  <2>. HIDE DEF turns
  <2>1. least(turns) = len /\ turns \in 0..turns
    BY <1>1
  <2>. HIDE DEF least
  <2>. QED BY <2>1
<1>9. h = [k \in 0..turns |-> h[k]]
  OBVIOUS
<1>. HIDE DEF h
<1>10. DecodeFields(b[0], m) = h[turns]
  <2>1. turns = Len(b[0]) \div 2 + 1
    OBVIOUS
  <2>. HIDE DEF turns
  <2>2. Turned(h, turns, b[0], m)
    BY <1>1, <1>6, <1>7, <1>9, <2>1 DEF Turned
  <2>. QED BY <2>2, TurnsAre
<1>. QED BY <1>4, <1>8, <1>10 DEF len, some

\* The first row of a type that is not read ends the reading: nothing is told
\* of the sample, not what comes before that row either.
LEMMA FieldsRefused ==
  ASSUME NEW p \in Plugins, NEW n \in Readings,
         \A i \in 1..Len(p) : <<p[i].type, p[i].as>> \in WrittenAs,
         \E i \in 1..Len(p) : p[i].type \notin Readable,
         NEW e, NEW b, Pieces(Len(p), Field(p, n), e, b), b[Len(p)] = <<>>,
         NEW m, m.rows = Numbered(Declared(p))
  PROVE  DecodeFields(b[0], m) = Failed
<1>0. /\ Len(b[0]) \div 2 + 1 \in Nat
      /\ Len(p) \in Nat /\ Len(p) <= Len(b[0]) \div 2 + 1
      /\ \A k \in 1..Len(p) :
           /\ b[k - 1] # <<>> /\ b[k] \in Seq(Byte)
           /\ b[k - 1] = Cat(Field(p, n)[k], b[k])
  BY TurnsForFields
<1>. DEFINE len == Len(p)
            some(k) == Firsts(p, n, k)
            turns == Len(b[0]) \div 2 + 1
<1>1. turns \in Nat /\ len \in Nat /\ len <= turns
  BY <1>0
<1>2. PICK j \in 1..len : /\ p[j].type \notin Readable
                          /\ \A i \in 1..len : i < j => p[i].type \in Readable
  <2>. DEFINE T == {i \in 1..len : p[i].type \notin Readable}
  <2>1. T \in SUBSET Nat /\ T # {}
    BY <1>1
  <2>2. PICK j \in T : \A i \in T : j <= i
    <3>. HIDE DEF T
    <3>. QED BY <2>1, LeastNumber
  <2>3. ASSUME NEW i \in 1..len, i < j PROVE p[i].type \in Readable
    BY <1>1, <2>2, <2>3
  <2>. QED BY <2>2, <2>3
<1>3. ASSUME NEW k \in 1..len, k < j
      PROVE  Another(Got(some(k - 1), b[k - 1]), m) = Got(some(k), b[k])
  <2>1. /\ k \in 1..Len(p) /\ <<p[k].type, p[k].as>> \in WrittenAs
        /\ p[k].type \in Readable
    BY <1>2, <1>3
  <2>. QED BY <2>1, FieldRead
<1>4. Another(Got(some(j - 1), b[j - 1]), m) = Failed
  <2>. DEFINE read == Got(some(j - 1), b[j - 1])
  <2>1. /\ b[j - 1] # <<>> /\ b[j] \in Seq(Byte)
        /\ b[j - 1] = Cat(Field(p, n)[j], b[j])
    <3>1. j \in 1..Len(p)
      BY <1>2
    <3>. QED BY <1>0, <3>1
  <2>2. DecodeField(b[j - 1], m) = Failed
    BY <1>2, <2>1, FieldRefused
  <2>3. read.ok /\ read.rest = b[j - 1]
    BY GotIs
  <2>. HIDE DEF read
  <2>4. DecodeField(read.rest, m) = Failed /\ ~Failed.ok
    BY <2>2, <2>3 DEF Failed
  <2>5. read.rest # <<>>
    BY <2>1, <2>3
  <2>6. Another(read, m) = Failed
    BY <2>3, <2>4, <2>5 DEF Another, Then
  <2>. QED BY <2>6 DEF read
<1>5. Another(Failed, m) = Failed
  BY DEF Another, Failed
<1>6. some(0) = <<>>
  BY NothingRead
<1>. DEFINE h == [k \in 0..turns |->
                    IF k < j THEN Got(some(k), b[k]) ELSE Failed]
<1>. HIDE DEF some, len
<1>7. h[0] = Got(<<>>, b[0])
  <2>. HIDE DEF turns
  <2>. QED BY <1>1, <1>6
<1>8. ASSUME NEW k \in 1..turns PROVE h[k] = Another(h[k - 1], m)
  <2>. HIDE DEF turns
  <2>1. k \in 0..turns /\ k - 1 \in 0..turns /\ k \in Nat /\ j \in Nat
    BY <1>1
  <2>2. CASE k < j
    <3>1. k \in 1..len /\ k - 1 < j
      BY <1>1, <2>1, <2>2
    <3>2. h[k] = Got(some(k), b[k]) /\ h[k - 1] = Got(some(k - 1), b[k - 1])
      BY <2>1, <2>2, <3>1
    <3>. QED BY <1>3, <2>2, <3>1, <3>2
  <2>3. CASE k = j
    <3>1. h[k] = Failed /\ h[k - 1] = Got(some(j - 1), b[j - 1])
      BY <2>1, <2>3
    <3>. QED BY <1>4, <3>1
  <2>4. CASE k > j
    <3>1. h[k] = Failed /\ h[k - 1] = Failed
      BY <2>1, <2>4
    <3>. QED BY <1>5, <3>1
  <2>. QED BY <2>1, <2>2, <2>3, <2>4
<1>9. h[turns] = Failed
  <2>. HIDE DEF turns
  <2>1. turns \in 0..turns /\ ~(turns < j)
    BY <1>1
  <2>. QED BY <2>1
<1>10. h = [k \in 0..turns |-> h[k]]
  OBVIOUS
<1>. HIDE DEF h
<1>11. DecodeFields(b[0], m) = h[turns]
  <2>1. turns = Len(b[0]) \div 2 + 1
    OBVIOUS
  <2>. HIDE DEF turns
  <2>2. Turned(h, turns, b[0], m)
    BY <1>1, <1>7, <1>8, <1>10, <2>1 DEF Turned
  <2>. QED BY <2>2, TurnsAre
<1>. QED BY <1>9, <1>11

\* What is sent of a distance fits in a guint64, even of one that is negative.
LEMMA DistanceFits ==
  ASSUME NEW r \in PkaResolution, NEW x \in Times, NEW y \in Times
  PROVE  /\ pka_resolution_apply(r, timespec_subtract(x, y)) \in Nat
         /\ pka_resolution_apply(r, timespec_subtract(x, y)) < LongWord
<1>. DEFINE d == timespec_subtract(x, y)
            i == d.sec * UsecPerSec + d.nsec \div NsecPerUsec
            u == timespec_to_usec(d, LongWord)
            unit == Unit[r]
<1>1. d \in Times
  BY SubtractIsExact
<1>. HIDE DEF d
<1>2. i \in Int
  <2>1. d.sec \in Int /\ d.nsec \in Int
    BY <1>1, PerSec DEF Times
  <2>2. UsecPerSec \in Int /\ NsecPerUsec \in Nat \ {0}
    BY TimeAssumption
  <2>3. d.nsec \div NsecPerUsec \in Int
    BY <2>1, <2>2
  <2>4. d.sec * UsecPerSec \in Int
    BY <2>1, <2>2
  <2>. QED BY <2>3, <2>4
<1>3. u = i % LongWord
  BY DEF timespec_to_usec
<1>. HIDE DEF i
<1>4. u \in Nat /\ u < LongWord
  <2>1. LongWord \in Nat \ {0}
    BY WordHolds
  <2>. HIDE DEF u
  <2>. QED BY <1>2, <1>3, <2>1
<1>5. unit \in Nat \ {0}
  BY ResolutionAssumption DEF PkaResolution
<1>6. pka_resolution_apply(r, d) = u \div unit
  BY DEF pka_resolution_apply
<1>. HIDE DEF u, unit
<1>7. u \div unit \in Nat /\ u \div unit < LongWord
  <2>1. u \div unit <= u /\ u \div unit \in Nat
    BY <1>4, <1>5
  <2>. QED BY <1>4, <2>1, WordHolds
<1>. QED BY <1>6, <1>7 DEF d

\* What a client is told of a sample, whether or not it can read its fields.
Told(buf, src, sts, mts, m) ==
  Then(DecodeFields(buf, m), LAMBDA fields :
    Got([source |-> src, ts |-> DecodeTime(Sent(sts, mts, m), m),
         fields |-> fields.value], fields.rest))

\* A sample, the manifest that the agent has and what the client has kept of it.
Fitting(s, mine, m) ==
  /\ s.source \in Uint /\ s.ts \in Times /\ s.buf \in Text
  /\ mine.ts \in Times /\ mine.resolution \in PkaResolution
  /\ m.source = s.source /\ m.resolution = mine.resolution

\* pk_sample_decode: source, time and the bytes of the fields are read as they
\* were written, whether or not these are what the manifest declares.
LEMMA SampleDecoded ==
  ASSUME NEW s, NEW mine, NEW m, Fitting(s, mine, m)
  PROVE  DecodeSample(EncodeSample(mine, s), m)
           = Told(s.buf, s.source, s.ts, mine.ts, m)
<1>. DEFINE src == s.source
            r == mine.resolution
            sts == s.ts
            mts == mine.ts
            buf == s.buf
<1>a. /\ src \in Uint /\ r \in PkaResolution /\ sts \in Times /\ mts \in Times
      /\ buf \in Text /\ m.source = src /\ m.resolution = r
  BY DEF Fitting
<1>b. /\ mine.ts = mts /\ mine.resolution = r
       /\ s.ts = sts /\ s.source = src /\ s.buf = buf
  OBVIOUS
<1>. HIDE DEF src, r, sts, mts, buf
<1>. DEFINE n == pka_resolution_apply(r, timespec_subtract(sts, mts))
            w == WriteUint[Len(buf)]
            data == WriteData(buf)
            t1 == WriteTag(1, NumberTag)
            t2 == WriteTag(2, NumberTag)
            t3 == WriteTag(3, LengthTag)
            w1 == WriteUint[src]
            w2 == WriteUint[n]
            s3 == Cat(t3, Cat(w, buf))
            s2 == Cat(t2, Cat(w2, s3))
            s1 == Cat(t1, Cat(w1, s2))
            six == Six(t1, w1, t2, w2, t3, data)
<1>1. n \in Nat /\ n < LongWord
  BY <1>a, DistanceFits
<1>2. /\ Word \in Nat /\ Word > 64
      /\ NumberTag \in 0..7 /\ LengthTag \in 0..7
      /\ buf \in Seq(Byte) /\ Len(buf) \in Uint
  <2>1. Len(buf) \in Nat /\ Len(buf) < Word /\ buf \in Seq(Byte)
    BY <1>a, DataWritten DEF Text
  <2>. QED BY <2>1, WordHolds DEF NumberTag, LengthTag, Uint
<1>. HIDE DEF n
<1>3. /\ t1 \in Seq(Byte) /\ t2 \in Seq(Byte) /\ t3 \in Seq(Byte)
      /\ w1 \in Seq(Byte) /\ w2 \in Seq(Byte) /\ w \in Seq(Byte) /\ data \in Seq(Byte)
  <2>1. w2 \in Seq(Byte)
    BY <1>1, WriteUintShape
  <2>2. t1 \in Seq(Byte) /\ t2 \in Seq(Byte) /\ t3 \in Seq(Byte)
    BY <1>2, Written1 DEF NumberTag, LengthTag
  <2>3. w1 \in Seq(Byte) /\ w \in Seq(Byte)
    BY <1>a, <1>2, Written1
  <2>4. data \in Seq(Byte)
    BY <1>a, DataWritten
  <2>. HIDE DEF t1, t2, t3, w1, w2, w, data
  <2>. QED BY <2>1, <2>2, <2>3, <2>4
<1>4. data = Cat(w, buf)
  BY DEF WriteData, Cat
<1>5. EncodeSample(mine, s) = six
  <2>1. s.source % Word = src
    BY <1>a, <1>b, WordHolds DEF Uint
  <2>2. pka_resolution_apply(mine.resolution, timespec_subtract(s.ts, mine.ts)) = n
    BY <1>b DEF n
  <2>. QED BY <1>b, <2>1, <2>2 DEF EncodeSample, Six, Cat
<1>6. six = s1
  <2>. HIDE DEF t1, t2, t3, w1, w2, w, data
  <2>1. <<>> \in Seq(Byte)
    OBVIOUS
  <2>2. Cat(six, <<>>) = SixThen(t1, w1, t2, w2, t3, data, <<>>)
    BY <1>3, <2>1, SixRegroup
  <2>3. six \in Seq(Byte)
    BY <1>3, SixBytes
  <2>4. Cat(data, <<>>) = data
    BY <1>3 DEF Cat
  <2>. HIDE DEF six
  <2>5. Cat(six, <<>>) = six
    BY <2>3 DEF Cat
  <2>. QED BY <1>4, <2>2, <2>4, <2>5 DEF SixThen
<1>7. s3 \in Seq(Byte) /\ ReadField(s3, 3, LengthTag, ReadUint) = Got(Len(buf), buf)
  <2>1. 3 \in Nat /\ 8 * 3 + 8 <= Word
    BY <1>2
  <2>. QED BY <1>a, <1>2, <2>1, UintFieldSurvives
<1>. HIDE DEF s3
<1>8. s2 \in Seq(Byte) /\ ReadField(s2, 2, NumberTag, ReadUint64) = Got(n, s3)
  <2>1. 2 \in Nat /\ 8 * 2 + 8 <= Word
    BY <1>2
  <2>. QED BY <1>1, <1>2, <1>7, <2>1, Uint64FieldSurvives
<1>. HIDE DEF s2
<1>9. s1 \in Seq(Byte) /\ ReadField(s1, 1, NumberTag, ReadUint) = Got(src, s2)
  <2>1. 1 \in Nat /\ 8 * 1 + 8 <= Word
    BY <1>2
  <2>. QED BY <1>a, <1>2, <1>8, <2>1, UintFieldSurvives
<1>. HIDE DEF s1
<1>10. DecodeSample(s1, m)
         = Then(DecodeFields(buf, m), LAMBDA fields :
             Got([source |-> src, ts |-> DecodeTime(n, m),
                  fields |-> fields.value], fields.rest))
  <2>. DEFINE L3 == ReadField(s3, 3, LengthTag, ReadUint)
              L2 == ReadField(s2, 2, NumberTag, ReadUint64)
              L1 == ReadField(s1, 1, NumberTag, ReadUint)
  <2>1. /\ L3.ok /\ L3.rest = buf /\ L3.value = Len(buf)
        /\ L2.ok /\ L2.rest = s3 /\ L2.value = n
        /\ L1.ok /\ L1.rest = s2 /\ L1.value = src
    BY <1>7, <1>8, <1>9, GotIs
  <2>2. ~(L1.value # m.source \/ Len(L3.rest) < L3.value)
    <3>. DEFINE l == Len(buf)
    <3>1. Len(L3.rest) = l /\ L3.value = l /\ L1.value = m.source
      BY <1>a, <2>1
    <3>2. l \in Nat
      BY <1>2
    <3>. HIDE DEF l, L1, L3
    <3>3. ~(l < l)
      BY <3>2
    <3>. QED BY <3>1, <3>3
  <2>3. DecodeSample(s1, m) =
          (IF L1.value # m.source \/ Len(L3.rest) < L3.value THEN Failed
           ELSE Then(DecodeFields(L3.rest, m), LAMBDA fields :
             Got([source |-> L1.value, ts |-> DecodeTime(L2.value, m),
                  fields |-> fields.value], fields.rest)))
    BY <2>1 DEF DecodeSample, Then
  <2>. HIDE DEF L1, L2, L3
  <2>. QED BY <2>1, <2>2, <2>3
<1>. QED BY <1>a, <1>b, <1>5, <1>6, <1>10 DEF Told, Sent, n

-----------------------------------------------------------------------------
(* The system.                                                              *)

ManifestIs ==
  manifest # None =>
    \E time \in Clock, r \in PkaResolution :
      /\ manifest = [rows |-> Declared(plugin), source |-> source, ts |-> time,
                     resolution |-> r]
      /\ kept = Got(Kept(Declared(plugin), source, time, r), <<>>)

SampleIs ==
  sample # None \/ told # None =>
    /\ manifest # None
    /\ \E time \in Clock, n \in Readings :
         /\ sample = [ts |-> time, values |-> Reading(plugin, n)]
         /\ told = Told(Sampled(plugin, time, n).buf, source, time, manifest.ts,
                        kept.value)

EncodingInv ==
  /\ plugin \in Plugins /\ source \in SourceIds /\ now \in Clock
  /\ ManifestIs
  /\ SampleIs

\* What ClockAssumption says of a time.
LEMMA ClockIs ==
  ASSUME NEW time \in Clock
  PROVE  /\ time \in Times /\ Nsec(time) \in Nat
         /\ Usec(time) \in Nat /\ Usec(time) < LongWord
<1>1. time \in [sec : Nat, nsec : 0..NsecPerSec - 1]
  BY ClockAssumption
<1>2. time \in Times
  BY <1>1 DEF Times
<1>3. Nsec(time) \in Nat
  <2>1. time.sec \in Nat /\ time.nsec \in Nat /\ NsecPerSec \in Nat
    BY <1>1, PerSec
  <2>2. time.sec * NsecPerSec \in Nat
    BY <2>1, Product
  <2>. QED BY <2>1, <2>2 DEF Nsec
<1>4. Nsec(time) >= 0
  BY <1>3
<1>5. Usec(time) \in Nat
  BY <1>2, <1>4, UsecRoundsDown
<1>. QED BY <1>2, <1>3, <1>5, ClockAssumption DEF Usec

LEMMA InitHolds == Init => EncodingInv
BY DEF Init, EncodingInv, ManifestIs, SampleIs

\* pka_source_deliver_manifest: the client keeps what the plugin has declared.
LEMMA ManifestDelivered ==
  ASSUME EncodingInv, NEW r \in PkaResolution, deliver_manifest(r)
  PROVE  EncodingInv'
<1>. DEFINE rows == Declared(plugin)
            made == [rows |-> rows, source |-> source, ts |-> now, resolution |-> r]
<1>1. plugin \in Plugins /\ source \in SourceIds /\ now \in Clock
  BY DEF EncodingInv
<1>2. manifest' = made
  <2>. DEFINE D == Declared(plugin)
              made0 == [rows |-> D, source |-> 0, ts |-> now, resolution |-> r]
  <2>1. Populated(plugin, now, r) = made0
    BY <1>1, PopulatedIs
  <2>2. manifest' = [Populated(plugin, now, r) EXCEPT !.source = source]
    BY DEF deliver_manifest
  <2>3. manifest' = [made0 EXCEPT !.source = source]
    BY <2>1, <2>2
  <2>. HIDE DEF D
  <2>4. [made0 EXCEPT !.source = source]
          = [rows |-> D, source |-> source, ts |-> now, resolution |-> r]
    OBVIOUS
  <2>. QED BY <2>3, <2>4 DEF D
<1>3. kept' = Got(Kept(rows, source, now, r), <<>>)
  <2>1. rows \in Seq(Rowlike) /\ Len(rows) < Word
    BY <1>1, PluginIs
  <2>2. Len(EncodeRows(rows)) < Word
    <3>1. Len(EncodeRows(Populated(plugin, now, 0).rows)) < Word
      BY <1>1, SizeAssumption
    <3>2. Populated(plugin, now, 0).rows = rows
      BY <1>1, PopulatedIs
    <3>. QED BY <3>1, <3>2
  <2>3. source \in Uint
    BY <1>1, SizeAssumption
  <2>4. Usec(now) \in Nat /\ Usec(now) < LongWord
    BY <1>1, ClockIs
  <2>5. kept' = DecodeManifest(EncodeManifest(made))
    BY <1>2 DEF deliver_manifest
  <2>. HIDE DEF rows
  <2>6. \A m : m = made => DecodeManifest(EncodeManifest(m)) = Got(Kept(rows, source, now, r), <<>>)
    BY <2>1, <2>2, <2>3, <2>4, ManifestDecoded
  <2>. QED BY <2>5, <2>6
<1>4. sample = None /\ told = None
  BY DEF EncodingInv, SampleIs, deliver_manifest
<1>5. UNCHANGED <<plugin, source, now, sample, told>>
  BY DEF deliver_manifest
<1>6. ManifestIs'
  BY <1>1, <1>2, <1>3, <1>5 DEF ManifestIs
<1>7. SampleIs'
  BY <1>4, <1>5 DEF SampleIs
<1>. QED BY <1>1, <1>5, <1>6, <1>7 DEF EncodingInv

\* pka_source_deliver_sample: the client is told what it reads of the sample with
\* the manifest that it keeps.
LEMMA SampleDelivered ==
  ASSUME EncodingInv, NEW n \in Readings, deliver_sample(n)
  PROVE  EncodingInv'
<1>1. plugin \in Plugins /\ source \in SourceIds /\ now \in Clock /\ manifest # None
  BY DEF EncodingInv, deliver_sample
<1>2. PICK time \in Clock, r \in PkaResolution :
        /\ manifest = [rows |-> Declared(plugin), source |-> source, ts |-> time,
                       resolution |-> r]
        /\ kept = Got(Kept(Declared(plugin), source, time, r), <<>>)
  BY <1>1 DEF EncodingInv, ManifestIs
<1>. DEFINE m == kept.value
            sampled == Sampled(plugin, now, n)
            s == [sampled EXCEPT !.source = source]
<1>3. /\ manifest.ts = time /\ manifest.resolution = r
      /\ m = Kept(Declared(plugin), source, time, r)
      /\ m.source = source /\ m.resolution = r
  BY <1>2, GotIs DEF Kept
<1>4. PICK e, b :
        /\ e[Len(plugin)] \in Text
        /\ sampled = [ts |-> now, source |-> -1, buf |-> e[Len(plugin)]]
  BY <1>1, SampledFits
<1>. DEFINE buf == sampled.buf
<1>5. buf \in Text /\ s.ts = now /\ s.source = source /\ s.buf = buf
  <2>. DEFINE all == e[Len(plugin)]
  <2>1. sampled = [ts |-> now, source |-> -1, buf |-> all] /\ all \in Text
    BY <1>4
  <2>. HIDE DEF all, sampled
  <2>. QED BY <2>1
<1>6. told' = DecodeSample(EncodeSample(manifest, s), m)
  BY DEF deliver_sample
<1>7. /\ sample' = [ts |-> now, values |-> Reading(plugin, n)]
      /\ UNCHANGED <<plugin, source, now, manifest, kept>>
  BY DEF deliver_sample
<1>. HIDE DEF m, s
<1>8. DecodeSample(EncodeSample(manifest, s), m) = Told(buf, source, now, manifest.ts, m)
  <2>1. source \in Uint /\ now \in Times /\ time \in Times
    BY <1>1, SizeAssumption, ClockIs
  <2>. HIDE DEF buf
  <2>2. Fitting(s, manifest, m)
    BY <1>3, <1>5, <2>1 DEF Fitting
  <2>. QED BY <1>5, <2>2, SampleDecoded
<1>9. SampleIs'
  <2>1. told' = Told(buf, source, now, manifest.ts, kept.value)
    BY <1>6, <1>8 DEF m
  <2>2. /\ sample' = [ts |-> now, values |-> Reading(plugin, n)]
        /\ told' = Told(Sampled(plugin, now, n).buf, source, now, manifest.ts, kept.value)
        /\ plugin' = plugin /\ source' = source /\ manifest' = manifest /\ kept' = kept
    BY <1>7, <2>1
  <2>3. now \in Clock /\ n \in Readings /\ manifest' # None
    BY <1>1, <2>2
  <2>. QED BY <2>2, <2>3 DEF SampleIs
<1>10. ManifestIs'
  BY <1>7 DEF EncodingInv, ManifestIs
<1>. QED BY <1>1, <1>7, <1>9, <1>10 DEF EncodingInv

LEMMA StepHolds == EncodingInv /\ [Next]_vars => EncodingInv'
<1>. SUFFICES ASSUME EncodingInv, [Next]_vars PROVE EncodingInv'
  OBVIOUS
<1>1. CASE SetClock
  BY <1>1 DEF SetClock, EncodingInv, ManifestIs, SampleIs
<1>2. ASSUME NEW r \in PkaResolution, deliver_manifest(r) PROVE EncodingInv'
  BY <1>2, ManifestDelivered
<1>3. ASSUME NEW n \in Readings, deliver_sample(n) PROVE EncodingInv'
  BY <1>3, SampleDelivered
<1>4. CASE UNCHANGED vars
  BY <1>4 DEF vars, EncodingInv, ManifestIs, SampleIs
<1>. QED BY <1>1, <1>2, <1>3, <1>4 DEF Next

\* EncodingInv is inductive: what the client keeps and is told is at all times what
\* it has read of the plugin's manifest and of its last sample.
THEOREM EncodingIsKept == Spec => []EncodingInv
<1>. QED BY InitHolds, StepHolds, PTL DEF Spec

\* The rounding of what the client keeps of the time of a manifest.
LEMMA KeptTime ==
  ASSUME NEW time \in Clock
  PROVE  /\ timespec_from_usec(Usec(time)) \in Times
         /\ Nsec(time) - Nsec(timespec_from_usec(Usec(time))) \in 0..NsecPerUsec - 1
<1>. DEFINE u == Usec(time)
            back == timespec_from_usec(u)
<1>1. time \in Times /\ Nsec(time) \in Nat /\ u \in Nat
  BY ClockIs
<1>2. /\ u * NsecPerUsec <= Nsec(time)
      /\ Nsec(time) < u * NsecPerUsec + NsecPerUsec
  BY <1>1, UsecRoundsDown
<1>. HIDE DEF u
<1>3. back \in Times /\ Nsec(back) = u * NsecPerUsec
  BY <1>1, FromUsec
<1>. HIDE DEF back
<1>. DEFINE t == Nsec(time)
            d == u * NsecPerUsec
<1>4. t \in Nat /\ d \in Nat /\ NsecPerUsec \in Nat /\ d <= t /\ t < d + NsecPerUsec
  BY <1>1, <1>2, Product, TimeAssumption
<1>5. Nsec(back) = d
  BY <1>3
<1>. HIDE DEF t, d
<1>6. t - d \in 0..NsecPerUsec - 1
  BY <1>4
<1>. QED BY <1>3, <1>5, <1>6 DEF t, u, back

\* The distance of a time from one before it is not above the time.
LEMMA DistanceIsShort ==
  ASSUME NEW s \in Clock, NEW t \in Clock, Nsec(t) <= Nsec(s)
  PROVE  Usec(timespec_subtract(s, t)) < LongWord
<1>. DEFINE d == timespec_subtract(s, t)
            a == Usec(d)
            c == Usec(s)
            K == NsecPerUsec
<1>1. /\ s \in Times /\ t \in Times /\ Nsec(s) \in Nat /\ Nsec(t) \in Nat
      /\ c \in Nat /\ c < LongWord
  BY ClockIs
<1>2. d \in Times /\ Nsec(d) = Nsec(s) - Nsec(t)
  BY <1>1, SubtractIsExact
<1>. HIDE DEF d
<1>3. Nsec(d) >= 0 /\ Nsec(d) <= Nsec(s)
  BY <1>1, <1>2
<1>4. a \in Nat /\ a * K <= Nsec(d)
  BY <1>2, <1>3, UsecRoundsDown
<1>5. Nsec(s) < c * K + K
  BY <1>1, UsecRoundsDown
<1>6. K \in Nat \ {0} /\ LongWord \in Nat
  BY TimeAssumption, WordHolds
<1>. HIDE DEF a, c, K
<1>7. a <= c
  <2>1. SUFFICES ASSUME a > c PROVE FALSE
    BY <1>1, <1>4
  <2>2. PICK i \in Nat : a = c + 1 + i
    <3>1. a - c - 1 \in Nat /\ a = c + 1 + (a - c - 1)
      BY <1>1, <1>4, <2>1
    <3>. QED BY <3>1
  <2>3. a * K = c * K + K + i * K /\ i * K \in Nat /\ c * K \in Nat /\ a * K \in Nat
    BY <1>1, <1>4, <1>6, <2>2, Product
  <2>4. Nsec(d) \in Int
    BY <1>1, <1>2
  <2>. DEFINE ak == a * K
              ck == c * K
              ik == i * K
  <2>5. /\ ak = ck + K + ik /\ ik \in Nat /\ ck \in Nat
        /\ ak <= Nsec(d) /\ Nsec(s) < ck + K
    BY <1>4, <1>5, <2>3
  <2>. HIDE DEF ak, ck, ik
  <2>. QED BY <1>1, <1>3, <1>6, <2>4, <2>5
<1>8. a < LongWord
  BY <1>1, <1>4, <1>6, <1>7
<1>. QED BY <1>8 DEF a, d

\* What there is of the times of the manifest and of the last sample.
TimesSound ==
  Ahead(sample) /\ told.ok =>
    /\ Sound(sample.ts, manifest.ts, kept.value)
    /\ kept.value.resolution = manifest.resolution
    /\ told.value.ts
         = DecodeTime(Sent(sample.ts, manifest.ts, kept.value), kept.value)

LEMMA TimesAreSound == EncodingInv => TimesSound
<1>. SUFFICES ASSUME EncodingInv, Ahead(sample), told.ok
              PROVE  /\ Sound(sample.ts, manifest.ts, kept.value)
                     /\ kept.value.resolution = manifest.resolution
                     /\ told.value.ts
                          = DecodeTime(Sent(sample.ts, manifest.ts, kept.value), kept.value)
  BY DEF TimesSound
<1>1. sample # None /\ manifest # None
  BY DEF EncodingInv, SampleIs, Ahead
<1>2. PICK made \in Clock, r \in PkaResolution :
        /\ manifest = [rows |-> Declared(plugin), source |-> source, ts |-> made,
                       resolution |-> r]
        /\ kept = Got(Kept(Declared(plugin), source, made, r), <<>>)
  BY <1>1 DEF EncodingInv, ManifestIs
<1>3. PICK time \in Clock, n \in Readings :
        /\ sample = [ts |-> time, values |-> Reading(plugin, n)]
        /\ told = Told(Sampled(plugin, time, n).buf, source, time, manifest.ts,
                       kept.value)
  BY <1>1 DEF EncodingInv, SampleIs
<1>. DEFINE m == kept.value
            buf == Sampled(plugin, time, n).buf
            fields == DecodeFields(buf, m)
<1>4. /\ manifest.ts = made /\ manifest.resolution = r /\ sample.ts = time
      /\ m.ts = timespec_from_usec(Usec(made)) /\ m.resolution = r
  BY <1>2, <1>3, GotIs DEF Kept
<1>5. Sound(time, made, m)
  <2>1. Nsec(time) >= Nsec(made)
    BY <1>4 DEF Ahead
  <2>2. time \in Times /\ made \in Times /\ Nsec(time) \in Nat /\ Nsec(made) \in Nat
    BY ClockIs
  <2>3. Nsec(made) <= Nsec(time)
    BY <2>1, <2>2
  <2>4. Usec(timespec_subtract(time, made)) < LongWord
    BY <2>3, DistanceIsShort
  <2>5. /\ m.ts \in Times
        /\ Nsec(made) - Nsec(m.ts) \in 0..NsecPerUsec - 1
    BY <1>4, KeptTime
  <2>. HIDE DEF m
  <2>. QED BY <1>4, <2>1, <2>2, <2>4, <2>5 DEF Sound
<1>6. told.value.ts = DecodeTime(Sent(time, made, m), m)
  <2>. HIDE DEF buf, m
  <2>. DEFINE all == [source |-> source, ts |-> DecodeTime(Sent(time, made, m), m),
                      fields |-> fields.value]
  <2>1. told = IF fields.ok THEN Got(all, fields.rest) ELSE Failed
    BY <1>3, <1>4 DEF Told, Then, buf, m
  <2>2. fields.ok
    BY <2>1 DEF Failed
  <2>3. told.value = all
    BY <2>1, <2>2, GotIs
  <2>. QED BY <2>3
<1>. QED BY <1>4, <1>5, <1>6

LEMMA TimesAreTold == EncodingInv => TimeWithinResolution
<1>. SUFFICES ASSUME EncodingInv, Ahead(sample), told.ok
              PROVE  Nsec(sample.ts) - Nsec(told.value.ts) \in
                       0 .. (Unit[manifest.resolution] + 1) * NsecPerUsec - 1
  BY DEF TimeWithinResolution
<1>. QED BY TimesAreSound, ToldTimesAreClose DEF TimesSound

LEMMA ManifestArrives == EncodingInv => ManifestSurvives
<1>. SUFFICES ASSUME EncodingInv, manifest # None PROVE ManifestSurvives
  BY DEF ManifestSurvives
<1>1. PICK time \in Clock, r \in PkaResolution :
        /\ manifest = [rows |-> Declared(plugin), source |-> source, ts |-> time,
                       resolution |-> r]
        /\ kept = Got(Kept(Declared(plugin), source, time, r), <<>>)
  BY DEF EncodingInv, ManifestIs
<1>. DEFINE rows == Declared(plugin)
            same == [i \in DOMAIN plugin |->
                       [id |-> i, type |-> plugin[i].type, name |-> plugin[i].name]]
<1>2. /\ kept.ok /\ kept.rest = <<>> /\ kept.value.source = source
      /\ kept.value.resolution = r /\ kept.value.rows = Numbered(rows)
      /\ kept.value.ts = timespec_from_usec(Usec(time))
      /\ manifest.ts = time /\ manifest.resolution = r
  BY <1>1, GotIs DEF Kept
<1>3. Numbered(rows) = same
  <2>1. plugin \in Plugins
    BY DEF EncodingInv
  <2>2. Len(rows) = Len(plugin) /\ DOMAIN plugin = 1..Len(plugin)
    BY <2>1, PluginIs
  <2>3. \A i \in 1..Len(plugin) :
          rows[i].type = plugin[i].type /\ rows[i].name = plugin[i].name
    BY DEF Declared
  <2>. HIDE DEF rows
  <2>. QED BY <2>2, <2>3 DEF Numbered
<1>4. Nsec(time) - Nsec(timespec_from_usec(Usec(time))) \in 0..NsecPerUsec - 1
  BY KeptTime
<1>. HIDE DEF rows
<1>. QED BY <1>2, <1>3, <1>4 DEF ManifestSurvives

LEMMA SampleArrives == EncodingInv => SampleSurvives
<1>. SUFFICES ASSUME EncodingInv, told # None, AsDeclared
              PROVE  IF \A i \in DOMAIN plugin : plugin[i].type \in Readable
                     THEN ToldAll ELSE ~told.ok
  BY DEF SampleSurvives
<1>1. plugin \in Plugins /\ manifest # None
  BY DEF EncodingInv, SampleIs
<1>2. PICK made \in Clock, r \in PkaResolution :
        /\ manifest = [rows |-> Declared(plugin), source |-> source, ts |-> made,
                       resolution |-> r]
        /\ kept = Got(Kept(Declared(plugin), source, made, r), <<>>)
  BY <1>1 DEF EncodingInv, ManifestIs
<1>3. PICK time \in Clock, n \in Readings :
        /\ sample = [ts |-> time, values |-> Reading(plugin, n)]
        /\ told = Told(Sampled(plugin, time, n).buf, source, time, manifest.ts,
                       kept.value)
  BY DEF EncodingInv, SampleIs
<1>. DEFINE m == kept.value
            buf == Sampled(plugin, time, n).buf
            values == Reading(plugin, n)
            all == Firsts(plugin, n, Len(plugin))
            fields == DecodeFields(buf, m)
<1>4. m.rows = Numbered(Declared(plugin))
  BY <1>2, GotIs DEF Kept
<1>5. DOMAIN plugin = 1..Len(plugin)
  BY <1>1, PluginIs
<1>6. \A i \in 1..Len(plugin) : <<plugin[i].type, plugin[i].as>> \in WrittenAs
  BY <1>5 DEF AsDeclared
<1>7. PICK e, b : /\ Pieces(Len(plugin), Field(plugin, n), e, b)
                  /\ b[Len(plugin)] = <<>> /\ b[0] = e[Len(plugin)]
                  /\ Sampled(plugin, time, n) =
                       [ts |-> time, source |-> -1, buf |-> e[Len(plugin)]]
  BY <1>1, SampledFits
<1>8. buf = b[0]
  BY <1>7
<1>. HIDE DEF m, buf
<1>9. ASSUME \A i \in 1..Len(plugin) : plugin[i].type \in Readable
      PROVE  ToldAll
  <2>1. fields = Got(all, <<>>)
    BY <1>1, <1>4, <1>6, <1>7, <1>8, <1>9, FieldsSurvive
  <2>2. fields.ok /\ fields.value = all
    BY <2>1, GotIs
  <2>3. told.ok /\ told.value.source = source /\ told.value.fields = all
    <3>. HIDE DEF fields, all
    <3>. DEFINE ts == DecodeTime(Sent(time, manifest.ts, m), m)
    <3>1. told = Got([source |-> source, ts |-> ts, fields |-> all], fields.rest)
      BY <1>3, <2>2 DEF Told, Then, fields, buf, m
    <3>. QED BY <3>1, GotIs
  <2>4. all = [i \in DOMAIN plugin |-> [field |-> i, value |-> sample.values[i]]]
    BY <1>3, <1>5 DEF Firsts
  <2>. HIDE DEF all
  <2>. QED BY <2>3, <2>4 DEF ToldAll
<1>10. ASSUME \E i \in 1..Len(plugin) : plugin[i].type \notin Readable
       PROVE  ~told.ok
  <2>1. fields = Failed
    BY <1>1, <1>4, <1>6, <1>7, <1>8, <1>10, FieldsRefused
  <2>2. told = Failed
    BY <1>3, <2>1 DEF Told, Then, fields, buf, m, Failed
  <2>. QED BY <2>2 DEF Failed
<1>. QED BY <1>5, <1>9, <1>10

\* The manifest of a sample is that of the next one.
LEMMA OrderStep ==
  EncodingInv /\ TimesSound /\ TimesSound' /\ [Next]_vars =>
    [Ahead(sample) /\ Ahead(sample') /\ told.ok /\ told'.ok
     => /\ Nsec(sample.ts) <= Nsec(sample'.ts)
             => Nsec(told.value.ts) <= Nsec(told'.value.ts)
        /\ Nsec(sample'.ts) <= Nsec(sample.ts)
             => Nsec(told'.value.ts) <= Nsec(told.value.ts)]_vars
<1>. SUFFICES ASSUME EncodingInv, TimesSound, TimesSound', Next,
                     Ahead(sample), Ahead(sample'), told.ok, told'.ok
              PROVE  /\ Nsec(sample.ts) <= Nsec(sample'.ts)
                          => Nsec(told.value.ts) <= Nsec(told'.value.ts)
                     /\ Nsec(sample'.ts) <= Nsec(sample.ts)
                          => Nsec(told'.value.ts) <= Nsec(told.value.ts)
  BY DEF vars
<1>1. manifest # None
  BY DEF EncodingInv, SampleIs, Ahead
<1>2. manifest' = manifest /\ kept' = kept
  BY <1>1 DEF Next, SetClock, deliver_manifest, deliver_sample
<1>3. /\ Sound(sample.ts, manifest.ts, kept.value)
      /\ told.value.ts
           = DecodeTime(Sent(sample.ts, manifest.ts, kept.value), kept.value)
  BY DEF TimesSound
<1>4. /\ Sound(sample'.ts, manifest.ts, kept.value)
      /\ told'.value.ts
           = DecodeTime(Sent(sample'.ts, manifest.ts, kept.value), kept.value)
  BY <1>2 DEF TimesSound, Ahead
<1>. QED BY <1>3, <1>4, ToldTimesKeepOrder

\* A manifest arrives with its rows, its resolution, its source and its time to the
\* microsecond (pka-encoder.c:185, pk-manifest.c:305).
THEOREM ManifestsSurvive == Spec => []ManifestSurvives
BY EncodingIsKept, ManifestArrives, PTL

\* A sample that is written as its manifest declares is read as it was written, each
\* value in its row, if every type of the manifest is one that the client reads, and
\* is refused as a whole otherwise: for every plugin, also one with a BOOLEAN row,
\* which the agent writes and the client refuses (pka-sample.c:266, pk-sample.c:206).
THEOREM SamplesSurvive == Spec => []SampleSurvives
BY EncodingIsKept, SampleArrives, PTL

\* The time a program is told is less than a unit of the resolution and a
\* microsecond early and never late (pka-encoder.c:114, pk-sample.c:118).
THEOREM TimesWithinResolution == Spec => []TimeWithinResolution
BY EncodingIsKept, TimesAreTold, PTL

\* Of two samples that follow one another, the one whose clock showed the later time
\* is not told the earlier one, whichever was taken first.  This is the order of the
\* clock and not that of taking, which a clock set back in between reverses; samples
\* that the clock dates before their manifest are not spoken of (pka-encoder.c:114).
THEOREM RoundingStaysMonotone == Spec => RoundingIsMonotone
BY EncodingIsKept, TimesAreSound, OrderStep, PTL DEF Spec, RoundingIsMonotone
=============================================================================
