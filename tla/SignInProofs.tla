---------------------------- MODULE SignInProofs ----------------------------
(***************************************************************************)
(* What the sign-in throttle promises for any limit, window and number of  *)
(* attempts, and the sessions for any number of sign-ins, changes and      *)
(* administrators.                                                         *)
(***************************************************************************)
EXTENDS Throttle, Sessions, FiniteSetTheorems, NaturalsInduction,
        WellFoundedInduction, TLAPS

(***************************************************************************)
(* The throttle.                                                           *)
(***************************************************************************)

\* No attempt charges with a clock reading from the future.
ReadingsPast == \A a \in Attempts : attempt[a].at <= now

\* The two assignments of the charging statement agree: the row is locked when
\* its count has reached the limit, and only then.
LockMatchesCount ==
    row # NoRow => (row.failures >= MaxFailures <=> row.until # NoTime)

\* The inductive invariant.
IInv == TypeOK /\ ReadingsPast /\ LockMatchesCount

\* The statement keeps the row's type, and its lock in step with its count.
LEMMA ChargedRow ==
    ASSUME NEW r \in Row \cup {NoRow}, NEW at \in Times,
           r # NoRow => (r.failures >= MaxFailures <=> r.until # NoTime)
    PROVE  /\ Charged(r, at) \in Row
           /\ Charged(r, at) # NoRow
           /\ Charged(r, at).failures >= MaxFailures
                <=> Charged(r, at).until # NoTime
<1> USE ThrottleAssumption
<1>0. \A x \in Row : x # NoRow
  BY DEF Row, Times
<1>1. PICK n, u : n = Failures(r, at) /\ u = LockedUntil(r, at)
  OBVIOUS
<1>2. Charged(r, at) = [failures |-> n, until |-> u, last |-> at]
  BY <1>1 DEF Charged
<1>3. /\ n \in Nat \ {0} /\ u \in Nat \cup {NoTime}
      /\ n >= MaxFailures <=> u # NoTime
  <2>1. at \in Nat /\ at + LockFor \in Nat /\ at + LockFor # NoTime
    BY DEF Times
  <2>2. CASE r = NoRow
    <3>1. ~ OpenLock(r, at)
      BY <2>2 DEF OpenLock
    <3>2. /\ n = 1
          /\ u = IF MaxFailures <= 1 THEN at + LockFor ELSE NoTime
      BY <1>1, <2>2, <3>1 DEF Failures, LockedUntil
    <3> QED BY <2>1, <3>2
  <2>3. CASE r # NoRow
    <3>1. PICK k \in Nat \ {0}, l \in Nat \cup {NoTime} :
              k = r.failures /\ l = r.until /\ (k >= MaxFailures <=> l # NoTime)
      BY <2>3 DEF Row
    <3>2. CASE OpenLock(r, at)
      <4>1. n = k + 1 /\ u = l /\ l # NoTime
        BY <1>1, <2>3, <3>1, <3>2 DEF Failures, LockedUntil, OpenLock
      <4> QED BY <3>1, <4>1
    <3>3. CASE ~ OpenLock(r, at) /\ Lapsed(r, at)
      <4>1. n = 1 /\ u = IF MaxFailures <= 1 THEN at + LockFor ELSE NoTime
        BY <1>1, <2>3, <3>3 DEF Failures, LockedUntil
      <4> QED BY <2>1, <4>1
    <3>4. CASE ~ OpenLock(r, at) /\ ~ Lapsed(r, at)
      <4>1. /\ n = k + 1
            /\ u = IF k + 1 >= MaxFailures THEN at + LockFor ELSE NoTime
        BY <1>1, <2>3, <3>1, <3>4 DEF Failures, LockedUntil
      <4> QED BY <2>1, <3>1, <4>1
    <3> QED BY <3>2, <3>3, <3>4
  <2> QED BY <2>2, <2>3
<1>4. Charged(r, at) \in Row
  BY <1>2, <1>3 DEF Row
<1> QED
  BY <1>0, <1>2, <1>3, <1>4

LEMMA InitIInv == Init => IInv
  BY ThrottleAssumption
     DEF Init, IInv, TypeOK, ReadingsPast, LockMatchesCount, Times, Idle

LEMMA StepIInv == IInv /\ [Next]_vars => IInv'
<1> SUFFICES ASSUME IInv, [Next]_vars PROVE IInv'
  OBVIOUS
<1> USE ThrottleAssumption DEF IInv
<1>0. 0 \in Times
  BY DEF Times
<1>1. ASSUME NEW a \in Attempts, Check(a) PROVE IInv'
  BY <1>1 DEF Check, TypeOK, ReadingsPast, LockMatchesCount
<1>2. ASSUME NEW a \in Attempts, ReadClock(a) PROVE IInv'
  BY <1>2 DEF ReadClock, TypeOK, ReadingsPast, LockMatchesCount, Times
<1>3. ASSUME NEW a \in Attempts, Charge(a) PROVE IInv'
  <2> DEFINE at == attempt[a].at
  <2>1. at \in Times /\ row \in Row \cup {NoRow}
    BY DEF TypeOK
  <2>2. row' = Charged(row, at) /\ now' = now
    BY <1>3 DEF Charge
  <2>3. row' \in Row /\ LockMatchesCount'
    BY <2>1, <2>2, ChargedRow DEF LockMatchesCount
  <2>4. admitted' \in [Times -> Nat]
    BY <1>3, <2>1 DEF Charge, TypeOK
  <2>5. \A b \in Attempts : attempt'[b] = attempt[b] \/ attempt'[b].at = 0
    BY <1>3 DEF Charge, TypeOK, Idle
  <2>6. attempt' \in [Attempts -> [pc : {"idle", "checked", "charge",
                                         "verify", "reset"}, at : Times]]
    BY <1>3, <1>0 DEF Charge, TypeOK, Idle
  <2>7. ASSUME NEW b \in Attempts PROVE attempt'[b].at <= now'
    <3>1. now \in Nat /\ 0 <= now /\ now' = now /\ attempt[b].at <= now
      BY <2>2 DEF ReadingsPast, TypeOK, Times
    <3>2. attempt'[b].at = attempt[b].at \/ attempt'[b].at = 0
      BY <2>5
    <3> QED
      BY <3>1, <3>2
  <2> QED
    BY <2>2, <2>3, <2>4, <2>6, <2>7 DEF TypeOK, ReadingsPast
<1>4. ASSUME NEW a \in Attempts, VerifySucceeds(a) PROVE IInv'
  BY <1>4 DEF VerifySucceeds, TypeOK, ReadingsPast, LockMatchesCount
<1>5. ASSUME NEW a \in Attempts, Reset(a) PROVE IInv'
  BY <1>5, <1>0 DEF Reset, TypeOK, ReadingsPast, LockMatchesCount, Idle, Times
<1>6. ASSUME NEW a \in Attempts, AttemptFails(a) PROVE IInv'
  BY <1>6, <1>0
     DEF AttemptFails, TypeOK, ReadingsPast, LockMatchesCount, Idle, Times
<1>7. ASSUME Tick PROVE IInv'
  BY <1>7 DEF Tick, TypeOK, ReadingsPast, LockMatchesCount, Times
<1>8. CASE UNCHANGED vars
  BY <1>8 DEF vars, TypeOK, ReadingsPast, LockMatchesCount
<1> QED
  BY <1>1, <1>2, <1>3, <1>4, <1>5, <1>6, <1>7, <1>8 DEF Next

\* Attempts under an open lock leave its end where it is.
THEOREM LockKeepsItsEnd == Spec => LockNotRenewed
<1>1. IInv /\ [Next]_vars =>
        (OpenLock(row, now) => row' = NoRow \/ row'.until = row.until)
  <2> SUFFICES ASSUME IInv, [Next]_vars, OpenLock(row, now)
               PROVE  row' = NoRow \/ row'.until = row.until
    OBVIOUS
  <2>1. ASSUME NEW a \in Attempts, Charge(a) PROVE row'.until = row.until
    <3>1. OpenLock(row, attempt[a].at) /\ row \in Row
      BY ThrottleAssumption DEF IInv, TypeOK, ReadingsPast, OpenLock, Row, Times
    <3>2. LockedUntil(row, attempt[a].at) = row.until
      BY <3>1 DEF LockedUntil, OpenLock
    <3> QED
      BY <2>1, <3>2 DEF Charge, Charged
  <2>2. CASE UNCHANGED row
    BY <2>2
  <2>3. ASSUME NEW a \in Attempts, Reset(a) PROVE row' = NoRow
    BY <2>3 DEF Reset
  <2> QED
    BY <2>1, <2>2, <2>3
       DEF Next, vars, Check, ReadClock, VerifySucceeds, AttemptFails, Tick
<1> QED
  BY InitIInv, StepIInv, <1>1, PTL DEF Spec, LockNotRenewed
-----------------------------------------------------------------------------
(* Sums of counts.                                                         *)

\* The least of some numbers; the library's induction theorems take their
\* property as an operator, this one serves them with a set.
LEMMA FirstNumber ==
    ASSUME NEW T, T \subseteq Nat, T # {}
    PROVE  \E n \in T : \A m \in T : n <= m
<1> DEFINE below == {p \in Nat \X Nat : p[1] < p[2]}
<1>1. IsWellFoundedOn(below, Nat)
  BY NatLessThanWellFounded, Zenon DEF OpToRel
<1>2. PICK n \in T : \A m \in T : ~ (<<m, n>> \in below)
  <2> HIDE DEF below
  <2> QED BY <1>1, WFMin
<1>3. ASSUME NEW m \in T PROVE n <= m
  <2>1. n \in Nat /\ m \in Nat
    BY <1>2
  <2>2. ~ (m < n)
    BY <1>2, <2>1
  <2> QED BY <2>1, <2>2
<1> QED BY <1>2, <1>3

LEMMA Induction ==
    ASSUME NEW S, NEW i \in Nat, i \in S,
           \A n \in Nat : i <= n /\ n \in S => n + 1 \in S
    PROVE  \A n \in Nat : i <= n => n \in S
<1> SUFFICES ASSUME NEW k \in Nat, i <= k, k \notin S PROVE FALSE
  OBVIOUS
<1> DEFINE T == {n \in Nat : i <= n /\ n \notin S}
<1>1. PICK n \in T : \A m \in T : n <= m
  <2>1. T # {} /\ T \subseteq Nat
    OBVIOUS
  <2> HIDE DEF T
  <2> QED BY <2>1, FirstNumber
<1>2. n \in Nat /\ i <= n /\ n \notin S /\ n # i
  BY <1>1
<1>3. n - 1 \in Nat /\ i <= n - 1 /\ n - 1 + 1 = n
  BY <1>2
<1>4. n - 1 \notin T
  <2>1. ~ (n <= n - 1)
    BY <1>2
  <2> HIDE DEF T
  <2> QED BY <1>1, <2>1
<1> QED BY <1>2, <1>3, <1>4

IsSum(sum, n, f) ==
    sum = [t \in 0 .. n |-> IF t = 0 THEN 0 ELSE sum[t - 1] + f[t - 1]]

LEMMA SumExists ==
    ASSUME NEW f, NEW n \in Nat
    PROVE  \E sum : IsSum(sum, n, f)
<1> DEFINE S == {k \in Nat : \E sum : IsSum(sum, k, f)}
<1>1. 0 \in S
  <2> DEFINE g == [t \in 0 .. 0 |-> 0]
  <2>1. g = [t \in 0 .. 0 |-> IF t = 0 THEN 0 ELSE g[t - 1] + f[t - 1]]
    OBVIOUS
  <2> QED BY <2>1 DEF IsSum
<1>2. ASSUME NEW k \in Nat, k \in S PROVE k + 1 \in S
  <2>1. PICK s : s = [t \in 0 .. k |-> IF t = 0 THEN 0
                                       ELSE s[t - 1] + f[t - 1]]
    BY <1>2 DEF IsSum
  <2> DEFINE D == 0 .. k + 1
             last == s[k] + f[k]
             g == [t \in D |-> IF t <= k THEN s[t] ELSE last]
             h == [t \in D |-> IF t = 0 THEN 0 ELSE g[t - 1] + f[t - 1]]
  <2>2. ASSUME NEW t \in D PROVE g[t] = h[t]
    <3>1. CASE t = 0
      <4>1. s[0] = 0
        BY <2>1
      <4> QED BY <3>1, <4>1
    <3>2. CASE t \in 1 .. k
      <4>1. g[t] = s[t] /\ g[t - 1] = s[t - 1]
        BY <3>2
      <4>2. s[t] = s[t - 1] + f[t - 1]
        BY <2>1, <3>2
      <4>3. h[t] = g[t - 1] + f[t - 1]
        BY <3>2
      <4> HIDE DEF g, h
      <4> QED BY <4>1, <4>2, <4>3
    <3>3. CASE t = k + 1
      <4>1. g[t] = last /\ g[k] = s[k] /\ h[t] = g[t - 1] + f[t - 1]
        BY <3>3
      <4>2. t - 1 = k
        BY <3>3
      <4> HIDE DEF g, h
      <4> QED BY <4>1, <4>2
    <3> QED BY <3>1, <3>2, <3>3
  <2>3. g = h
    <3> HIDE DEF last
    <3>1. g = [t \in D |-> g[t]] /\ h = [t \in D |-> h[t]]
      OBVIOUS
    <3>2. \A t \in D : g[t] = h[t]
      BY <2>2
    <3> HIDE DEF g, h, D
    <3> QED BY <3>1, <3>2
  <2> HIDE DEF g
  <2> QED BY <2>3 DEF IsSum
<1> HIDE DEF S
<1>3. \A k \in Nat : 0 <= k => k \in S
  BY <1>1, <1>2, Induction
<1> QED BY <1>3 DEF S

\* Upto adds one count at a time, and the counts are natural numbers.
LEMMA UptoFacts ==
    ASSUME NEW f \in [Times -> Nat]
    PROVE  /\ Upto(f)[0] = 0
           /\ \A t \in Times : Upto(f)[t + 1] = Upto(f)[t] + f[t]
           /\ \A t \in 0 .. MaxNow + 1 : Upto(f)[t] \in Nat
<1> USE ThrottleAssumption
<1> DEFINE s == Upto(f)
<1>1. IsSum(s, MaxNow + 1, f)
  <2>1. MaxNow + 1 \in Nat
    OBVIOUS
  <2>2. \E sum : IsSum(sum, MaxNow + 1, f)
    BY <2>1, SumExists
  <2>3. s = CHOOSE sum : IsSum(sum, MaxNow + 1, f)
    BY DEF Upto, IsSum
  <2> QED BY <2>2, <2>3
<1> HIDE DEF s
<1>1a. \A t \in 0 .. MaxNow + 1 :
           s[t] = IF t = 0 THEN 0 ELSE s[t - 1] + f[t - 1]
  BY <1>1 DEF IsSum
<1>2. s[0] = 0
  BY <1>1a
<1>3. \A t \in Times : s[t + 1] = s[t] + f[t]
  <2> TAKE t \in Times
  <2>1. PICK u \in 0 .. MaxNow + 1 : u = t + 1 /\ u # 0 /\ u - 1 = t
    BY DEF Times
  <2>2. s[u] = s[u - 1] + f[u - 1]
    BY <1>1a, <2>1, Zenon
  <2>3. s[u - 1] = s[t] /\ f[u - 1] = f[t] /\ s[u] = s[t + 1]
    BY <2>1, Zenon
  <2> QED BY <2>2, <2>3, Zenon
<1> DEFINE S == {t \in Nat : t <= MaxNow + 1 => s[t] \in Nat}
<1>4. 0 \in S
  BY <1>2
<1>5. ASSUME NEW t \in Nat, t \in S PROVE t + 1 \in S
  <2>1. CASE t + 1 <= MaxNow + 1
    <3>1. t \in Times /\ s[t] \in Nat /\ f[t] \in Nat
      BY <1>5, <2>1 DEF Times
    <3> QED BY <1>3, <3>1
  <2> QED BY <2>1
<1> HIDE DEF S
<1>6. \A t \in Nat : 0 <= t => t \in S
  BY <1>4, <1>5, Induction
<1>7. \A t \in 0 .. MaxNow + 1 : s[t] \in Nat
  BY <1>6 DEF S
<1> QED BY <1>2, <1>3, <1>7 DEF s

\* No count is negative, so the sums only grow.
LEMMA UptoGrows ==
    ASSUME NEW f \in [Times -> Nat], NEW i \in 0 .. MaxNow + 1,
           NEW j \in 0 .. MaxNow + 1, i <= j
    PROVE  Upto(f)[i] <= Upto(f)[j]
<1> USE ThrottleAssumption
<1>1. PICK s : s = Upto(f)
  OBVIOUS
<1>2. /\ \A t \in Times : s[t + 1] = s[t] + f[t]
      /\ \A t \in 0 .. MaxNow + 1 : s[t] \in Nat
  BY <1>1, UptoFacts
<1> DEFINE S == {t \in Nat : t <= MaxNow + 1 => s[i] <= s[t]}
<1>3. i \in Nat /\ i \in S
  BY <1>2
<1>4. ASSUME NEW t \in Nat, i <= t, t \in S PROVE t + 1 \in S
  <2>1. CASE t + 1 <= MaxNow + 1
    <3>1. t \in Times /\ s[i] <= s[t] /\ f[t] \in Nat
      BY <1>4, <2>1 DEF Times
    <3>2. s[i] \in Nat /\ s[t] \in Nat /\ s[t + 1] = s[t] + f[t]
      BY <1>2, <3>1 DEF Times
    <3> QED BY <3>1, <3>2
  <2> QED BY <2>1
<1> HIDE DEF S
<1>5. \A t \in Nat : i <= t => t \in S
  BY <1>3, <1>4, Induction
<1> QED BY <1>1, <1>5 DEF S

Empty(f, i, j) == \A t \in Times : i <= t /\ t < j => f[t] = 0
OneMore(f, a) == [f EXCEPT ![a] = @ + 1]

\* Where nothing was counted the sum stands still.
LEMMA UptoFlat ==
    ASSUME NEW f \in [Times -> Nat], NEW i \in 0 .. MaxNow + 1,
           NEW j \in 0 .. MaxNow + 1, i <= j, Empty(f, i, j)
    PROVE  Upto(f)[j] = Upto(f)[i]
<1> USE ThrottleAssumption
<1>1. PICK s : s = Upto(f)
  OBVIOUS
<1>2. /\ \A t \in Times : s[t + 1] = s[t] + f[t]
      /\ \A t \in 0 .. MaxNow + 1 : s[t] \in Nat
  BY <1>1, UptoFacts
<1> DEFINE S == {t \in Nat : t <= j => s[t] = s[i]}
<1>3. i \in Nat /\ i \in S
  OBVIOUS
<1>4. ASSUME NEW t \in Nat, i <= t, t \in S PROVE t + 1 \in S
  <2>1. CASE t + 1 <= j
    <3>1. t \in Times /\ s[t] = s[i] /\ f[t] = 0
      BY <1>4, <2>1 DEF Times, Empty
    <3>2. s[t] \in Nat /\ s[t + 1] = s[t] + f[t]
      BY <1>2, <3>1 DEF Times
    <3> QED BY <3>1, <3>2
  <2> QED BY <2>1
<1> HIDE DEF S
<1>5. \A t \in Nat : i <= t => t \in S
  BY <1>3, <1>4, Induction
<1> QED BY <1>1, <1>5 DEF S

\* One more at `a' is one more in every sum past it.
LEMMA UptoBump ==
    ASSUME NEW f \in [Times -> Nat], NEW a \in Times,
           NEW j \in 0 .. MaxNow + 1
    PROVE  Upto(OneMore(f, a))[j] =
               IF a < j THEN Upto(f)[j] + 1 ELSE Upto(f)[j]
<1> USE ThrottleAssumption
<1>1. PICK g, s, r : g = OneMore(f, a) /\ s = Upto(f) /\ r = Upto(g)
  OBVIOUS
<1>2. /\ g \in [Times -> Nat]
      /\ \A t \in Times : g[t] = IF t = a THEN f[t] + 1 ELSE f[t]
  BY <1>1 DEF OneMore
<1>3. /\ s[0] = 0 /\ r[0] = 0
      /\ \A t \in Times : s[t + 1] = s[t] + f[t] /\ r[t + 1] = r[t] + g[t]
      /\ \A t \in 0 .. MaxNow + 1 : s[t] \in Nat /\ r[t] \in Nat
  BY <1>1, <1>2, UptoFacts
<1> DEFINE S == {t \in Nat : t <= MaxNow + 1 =>
                    r[t] = IF a < t THEN s[t] + 1 ELSE s[t]}
<1>4. 0 \in S
  BY <1>3 DEF Times
<1>5. ASSUME NEW t \in Nat, t \in S PROVE t + 1 \in S
  <2>1. CASE t + 1 <= MaxNow + 1
    <3>1. /\ t \in Times /\ r[t] = IF a < t THEN s[t] + 1 ELSE s[t]
          /\ a \in Nat /\ f[t] \in Nat /\ g[t] = IF t = a THEN f[t] + 1 ELSE f[t]
      BY <1>2, <1>5, <2>1 DEF Times
    <3>2. s[t] \in Nat /\ s[t + 1] = s[t] + f[t] /\ r[t + 1] = r[t] + g[t]
      BY <1>3, <3>1 DEF Times
    <3> QED BY <3>1, <3>2
  <2> QED BY <2>1
<1> HIDE DEF S
<1>6. \A t \in Nat : 0 <= t => t \in S
  BY <1>4, <1>5, Induction
<1>7. r[j] = IF a < j THEN s[j] + 1 ELSE s[j]
  BY <1>6 DEF S
<1> QED BY <1>1, <1>7
-----------------------------------------------------------------------------
(* The guesses of a window.                                                *)

Window == LockFor - 2 * Skew

Bounded(f) ==
    \A start, end \in 0 .. MaxNow + 1 :
        start <= end /\ end <= start + Window =>
            Upto(f)[end] - Upto(f)[start] <= MaxFailures

\* The guesses since first.
Since(f, first) == Upto(f)[MaxNow + 1] - Upto(f)[first]

\* An attempt that charges does so Skew after its clock reading at most.
ReadingsRecent ==
    \A a \in Attempts : attempt[a].pc = "charge" => now <= attempt[a].at + Skew

\* No guess is later than the row allows for.
GuessesBehindRow ==
    \A t \in Times : admitted[t] # 0 =>
        /\ t <= now
        /\ row # NoRow
        /\ t <= row.last + Skew
        /\ row.until # NoTime => t <= row.until - LockFor + Skew

\* The count of the row began at first: the guesses before it are a window
\* old, those since are in the count, and no attempt will add one before it.
CountsFrom(first) ==
    /\ first <= now
    /\ \A a \in Attempts : attempt[a].pc = "charge" => first <= attempt[a].at
    /\ \A t \in Times : t < first /\ admitted[t] # 0 => t + Window <= first
    /\ Since(admitted, first) <= MaxFailures
    /\ row # NoRow => Since(admitted, first) <= row.failures

GuessInv ==
    /\ ReadingsRecent
    /\ GuessesBehindRow
    /\ \E first \in Times : CountsFrom(first)
    /\ Bounded(admitted)

\* Counts at and after first are within the limit, and those before it a
\* window old: then one more after it leaves every window within the limit.
LEMMA NewGuess ==
    ASSUME NEW f \in [Times -> Nat], NEW at \in Times,
           NEW g, g = OneMore(f, at),
           NEW first \in Times, first <= at,
           \A t \in Times : t < first /\ f[t] # 0 => t + Window <= first,
           Since(g, first) <= MaxFailures,
           Bounded(f)
    PROVE  Bounded(g)
<1> USE ThrottleAssumption
<1>0. /\ Window \in Int /\ MaxNow + 1 \in 0 .. MaxNow + 1
      /\ first \in 0 .. MaxNow + 1 /\ first \in Nat /\ at \in Nat
      /\ at <= MaxNow
  BY DEF Window, Times
<1>1. g \in [Times -> Nat] /\ \A t \in Times : t # at => g[t] = f[t]
  BY DEF OneMore
<1> SUFFICES ASSUME NEW start \in 0 .. MaxNow + 1, NEW end \in 0 .. MaxNow + 1,
                    start <= end, end <= start + Window
             PROVE  Upto(g)[end] - Upto(g)[start] <= MaxFailures
  BY DEF Bounded
<1>2. PICK s, r : s = Upto(f) /\ r = Upto(g)
  OBVIOUS
<1>3. \A t \in 0 .. MaxNow + 1 : s[t] \in Nat /\ r[t] \in Nat
  BY <1>1, <1>2, UptoFacts
<1>4. s[end] - s[start] <= MaxFailures
  BY <1>2 DEF Bounded
<1>5. /\ r[end] = IF at < end THEN s[end] + 1 ELSE s[end]
      /\ r[start] = IF at < start THEN s[start] + 1 ELSE s[start]
  <2>1. \A j \in 0 .. MaxNow + 1 :
            Upto(g)[j] = IF at < j THEN Upto(f)[j] + 1 ELSE Upto(f)[j]
    BY UptoBump
  <2> QED BY <1>2, <2>1
<1>6. CASE at < start \/ end <= at
  BY <1>0, <1>2, <1>3, <1>4, <1>5, <1>6
<1>7. CASE start <= at /\ at < end
  <2>1. r[end] <= r[MaxNow + 1]
    <3>1. end <= MaxNow + 1
      OBVIOUS
    <3>2. Upto(g)[end] <= Upto(g)[MaxNow + 1]
      BY <1>0, <1>1, <3>1, UptoGrows
    <3> QED BY <1>2, <3>2
  <2>2. r[MaxNow + 1] - r[first] <= MaxFailures
    BY <1>2 DEF Since
  <2>3. r[first] <= r[start]
    <3>1. CASE first <= start
      BY <1>0, <1>1, <1>2, <3>1, UptoGrows
    <3>2. CASE start < first
      <4>1. ASSUME NEW t \in Times, start <= t, t < first PROVE g[t] = 0
        <5>1. t # at /\ t \in Nat
          BY <1>0, <4>1 DEF Times
        <5>2. ~ (t + Window <= first)
          BY <1>0, <1>7, <4>1, <5>1
        <5> QED BY <1>1, <4>1, <5>1, <5>2
      <4>2. r[first] = r[start]
        <5>1. start <= first
          BY <1>0, <3>2
        <5>2. Empty(g, start, first)
          BY <4>1 DEF Empty
        <5>3. Upto(g)[first] = Upto(g)[start]
          BY <1>0, <1>1, <5>1, <5>2, UptoFlat
        <5> QED BY <1>2, <5>3
      <4> QED BY <1>0, <1>3, <4>2
    <3> QED BY <1>0, <3>1, <3>2
  <2>4. /\ r[end] \in Nat /\ r[MaxNow + 1] \in Nat
        /\ r[first] \in Nat /\ r[start] \in Nat
    BY <1>0, <1>3
  <2>5. r[end] - r[start] <= MaxFailures
    BY <2>1, <2>2, <2>3, <2>4
  <2> QED BY <1>2, <2>5
<1> QED BY <1>0, <1>6, <1>7
\* What the statement does to the count and the lock, by the state of the row.
LEMMA ChargedCases ==
    ASSUME NEW r \in Row \cup {NoRow}, NEW at \in Times,
           r # NoRow => (r.failures >= MaxFailures <=> r.until # NoTime)
    PROVE  /\ Charged(r, at).last = at
           /\ \/ /\ r # NoRow
                 /\ Charged(r, at).failures = r.failures + 1
                 /\ Charged(r, at).failures > MaxFailures
                 /\ Charged(r, at).until = r.until
                 /\ r.until # NoTime
              \/ /\ Charged(r, at).failures = 1
                 /\ Charged(r, at).until \in {NoTime, at + LockFor}
                 /\ r = NoRow \/ Lapsed(r, at)
              \/ /\ r # NoRow
                 /\ Charged(r, at).failures = r.failures + 1
                 /\ Charged(r, at).failures <= MaxFailures
                 /\ Charged(r, at).until \in {NoTime, at + LockFor}
                 /\ r.until = NoTime
                 /\ at < r.last + LockFor
<1> USE ThrottleAssumption
<1>0. PICK n, u : n = Failures(r, at) /\ u = LockedUntil(r, at)
  OBVIOUS
<1>a. Charged(r, at) = [failures |-> n, until |-> u, last |-> at]
  BY <1>0 DEF Charged
<1>b. Charged(r, at).failures = n /\ Charged(r, at).until = u
      /\ Charged(r, at).last = at
  BY <1>a
<1>1. CASE OpenLock(r, at)
  <2>1. /\ r \in Row /\ r # NoRow /\ r.failures >= MaxFailures
        /\ r.failures \in Nat /\ r.until # NoTime
    BY <1>1 DEF OpenLock, Row
  <2>2. n = r.failures + 1 /\ u = r.until
    BY <1>0, <1>1, <2>1 DEF Failures, LockedUntil
  <2>3. r.failures + 1 > MaxFailures
    BY <2>1
  <2> QED BY <1>b, <2>1, <2>2, <2>3
<1>2. CASE ~ OpenLock(r, at) /\ (r = NoRow \/ Lapsed(r, at))
  <2>1. n = 1 /\ u \in {NoTime, at + LockFor}
    BY <1>0, <1>2 DEF Failures, LockedUntil
  <2> QED BY <1>2, <1>b, <2>1
<1>3. CASE ~ OpenLock(r, at) /\ r # NoRow /\ ~ Lapsed(r, at)
  <2>1. /\ r \in Row /\ r.failures \in Nat /\ r.until \in Nat \cup {NoTime}
        /\ r.last \in Nat /\ at \in Nat
    BY <1>3 DEF Row, Times
  <2>2. r.until = NoTime /\ at < r.last + LockFor
    BY <1>3, <2>1 DEF OpenLock, Lapsed
  <2>3. r.failures + 1 <= MaxFailures
    BY <1>3, <2>1, <2>2
  <2>4. n = r.failures + 1 /\ u \in {NoTime, at + LockFor}
    BY <1>0, <1>3 DEF Failures, LockedUntil
  <2> QED BY <1>3, <1>b, <2>2, <2>3, <2>4
<1> QED BY <1>1, <1>2, <1>3

\* No guess counts where none is admitted.
LEMMA NoGuesses ==
    ASSUME NEW f \in [Times -> Nat], NEW first \in Times,
           \A t \in Times : first <= t => f[t] = 0
    PROVE  Since(f, first) = 0
<1> USE ThrottleAssumption
<1>1. /\ MaxNow + 1 \in 0 .. MaxNow + 1 /\ first \in 0 .. MaxNow + 1
      /\ first <= MaxNow + 1 /\ Empty(f, first, MaxNow + 1)
  BY DEF Times, Empty
<1>2. Upto(f)[MaxNow + 1] = Upto(f)[first]
  BY <1>1, UptoFlat
<1>3. Upto(f)[first] \in Nat
  BY <1>1, UptoFacts
<1> QED BY <1>2, <1>3 DEF Since

LEMMA NoGuessBounded ==
    ASSUME NEW f \in [Times -> Nat], \A t \in Times : f[t] = 0
    PROVE  Bounded(f)
<1> USE ThrottleAssumption
<1> SUFFICES ASSUME NEW start \in 0 .. MaxNow + 1, NEW end \in 0 .. MaxNow + 1,
                    start <= end
             PROVE  Upto(f)[end] - Upto(f)[start] <= MaxFailures
  BY DEF Bounded
<1>1. Empty(f, start, end)
  BY DEF Empty
<1>2. Upto(f)[end] = Upto(f)[start]
  BY <1>1, UptoFlat
<1>3. Upto(f)[start] \in Nat
  BY UptoFacts
<1> QED BY <1>2, <1>3

LEMMA InitGuess == Init => GuessInv
<1> SUFFICES ASSUME Init PROVE GuessInv
  OBVIOUS
<1> USE ThrottleAssumption
<1>1. /\ admitted \in [Times -> Nat] /\ \A t \in Times : admitted[t] = 0
      /\ 0 \in Times /\ now = 0 /\ row = NoRow
      /\ \A a \in Attempts : attempt[a].pc # "charge"
  BY DEF Init, Times, Idle
<1>2. Since(admitted, 0) = 0
  BY <1>1, NoGuesses
<1>3. CountsFrom(0)
  BY <1>1, <1>2 DEF CountsFrom, Times
<1>4. Bounded(admitted)
  BY <1>1, NoGuessBounded
<1> QED BY <1>1, <1>3, <1>4 DEF GuessInv, ReadingsRecent, GuessesBehindRow
\* A step that leaves the row and the guesses alone, and starts no charge
\* except with the clock's present reading.
LEMMA QuietGuess ==
    ASSUME IInv, GuessInv, UNCHANGED <<row, admitted>>, now' \in Times,
           now <= now', ReadingsRecent',
           \A a \in Attempts : attempt'[a].pc = "charge" =>
               attempt'[a] = attempt[a] \/ attempt'[a].at = now
    PROVE  GuessInv'
<1> USE ThrottleAssumption
<1>1. now \in Nat /\ now' \in Nat /\ Times \subseteq Nat
  BY DEF IInv, TypeOK, Times
<1>2. PICK first \in Times : CountsFrom(first)
  BY DEF GuessInv
<1>3. CountsFrom(first)'
  <2>1. first <= now'
    BY <1>1, <1>2 DEF CountsFrom
  <2>2. \A a \in Attempts :
            attempt'[a].pc = "charge" => first <= attempt'[a].at
    BY <1>2 DEF CountsFrom
  <2> QED BY <1>2, <2>1, <2>2 DEF CountsFrom
<1>4. GuessesBehindRow'
  BY <1>1 DEF GuessInv, GuessesBehindRow
<1>5. Bounded(admitted)'
  BY DEF GuessInv
<1> QED BY <1>3, <1>4, <1>5 DEF GuessInv

\* A charge: it only counts under an open lock; it starts the count over, and
\* the era with it, in a row that is gone or lapsed; it adds to the era else.
LEMMA ChargeGuess ==
    ASSUME IInv, IInv', GuessInv, NEW a \in Attempts, Charge(a)
    PROVE  GuessInv'
<1> USE ThrottleAssumption
<1>1. PICK at, f, r, n : at = attempt[a].at /\ f = admitted /\ r = row /\ n = now
  OBVIOUS
<1>2. /\ at \in Times /\ at \in Nat /\ at <= n /\ n \in Nat /\ n \in Times
      /\ f \in [Times -> Nat] /\ r \in Row \cup {NoRow}
      /\ r # NoRow => (r.failures >= MaxFailures <=> r.until # NoTime)
      /\ now' = n /\ Times \subseteq Nat
  BY <1>1 DEF IInv, TypeOK, Times, ReadingsPast, LockMatchesCount, Charge
<1>3. n <= at + Skew
  BY <1>1 DEF GuessInv, ReadingsRecent, Charge
<1>4. /\ \A t \in Times : f[t] # 0 =>
             /\ t <= n /\ r # NoRow /\ t <= r.last + Skew
             /\ r.until # NoTime => t <= r.until - LockFor + Skew
      /\ Bounded(f)
  BY <1>1 DEF GuessInv, GuessesBehindRow
<1>5. PICK first \in Times : CountsFrom(first)
  BY DEF GuessInv
<1>6. /\ first \in Nat /\ first <= n /\ first <= at
      /\ \A t \in Times : t < first /\ f[t] # 0 => t + Window <= first
      /\ Since(f, first) <= MaxFailures
      /\ r # NoRow => Since(f, first) <= r.failures
  BY <1>1, <1>2, <1>5 DEF CountsFrom, Charge
<1>7. PICK c : c = Charged(r, at) /\ row' = c /\ c \in Row /\ c # NoRow
  BY <1>1, <1>2, ChargedRow DEF Charge
<1>8. /\ \A b \in Attempts : attempt'[b].pc = "charge" => attempt'[b] = attempt[b]
      /\ ReadingsRecent'
  BY <1>2, <1>1 DEF Charge, IInv, TypeOK, Idle, ReadingsRecent, GuessInv
<1>9. c.last = at
  BY <1>2, <1>7, ChargedCases
<1>10. \A t \in Times : f[t] # 0 => t <= at + Skew
  BY <1>2, <1>3, <1>4
<1>11. \A g \in [Times -> Nat], i \in Times :
          Since(g, i) \in Int
  <2> TAKE g \in [Times -> Nat], i \in Times
  <2>1. i \in 0 .. MaxNow + 1 /\ MaxNow + 1 \in 0 .. MaxNow + 1
    BY DEF Times
  <2>2. Upto(g)[i] \in Nat /\ Upto(g)[MaxNow + 1] \in Nat
    BY <2>1, UptoFacts
  <2> QED BY <2>2 DEF Since
<1>12. /\ c.failures > MaxFailures => admitted' = f
       /\ c.failures <= MaxFailures => admitted' = OneMore(f, at)
  <2>1. c.failures \in Nat
    BY <1>7 DEF Row
  <2> QED BY <1>1, <1>7, <2>1 DEF Charge, OneMore
<1>13. CASE /\ r # NoRow
            /\ c.failures = r.failures + 1
            /\ c.failures > MaxFailures
            /\ c.until = r.until
  <2>1. admitted' = f
    BY <1>12, <1>13
  <2>2. r.failures \in Nat
    BY <1>2, <1>13 DEF Row
  <2>3. GuessesBehindRow'
    BY <1>2, <1>4, <1>7, <1>9, <1>10, <1>13, <2>1 DEF GuessesBehindRow
  <2>4. Since(f, first) <= c.failures
    BY <1>6, <1>11, <1>2, <1>13, <2>2
  <2>5. CountsFrom(first)'
    BY <1>1, <1>2, <1>5, <1>6, <1>7, <1>8, <2>1, <2>4 DEF CountsFrom
  <2> QED BY <1>4, <1>8, <2>1, <2>3, <2>5 DEF GuessInv
<1>14. ASSUME c.failures <= MaxFailures, c.until \in {NoTime, at + LockFor}
       PROVE  /\ admitted' = OneMore(f, at) /\ GuessesBehindRow'
              /\ OneMore(f, at) \in [Times -> Nat]
              /\ \A t \in Times : t # at => OneMore(f, at)[t] = f[t]
  <2>1. admitted' = OneMore(f, at)
    BY <1>12, <1>14
  <2>2. /\ OneMore(f, at) \in [Times -> Nat]
        /\ \A t \in Times : t # at => OneMore(f, at)[t] = f[t]
    BY <1>2 DEF OneMore
  <2>3. ASSUME NEW t \in Times, OneMore(f, at)[t] # 0
        PROVE  /\ t <= n /\ t <= c.last + Skew
               /\ c.until # NoTime => t <= c.until - LockFor + Skew
    <3>1. t \in Nat /\ t <= n /\ t <= at + Skew
      BY <1>2, <1>4, <1>10, <2>2, <2>3
    <3> QED BY <1>2, <1>9, <1>14, <3>1
  <2> QED BY <1>2, <1>7, <2>1, <2>2, <2>3 DEF GuessesBehindRow
<1>15. \A i \in Times : i <= at =>
          Since(OneMore(f, at), i) = Since(f, i) + 1
  <2> SUFFICES ASSUME NEW i \in Times, i <= at
               PROVE  Since(OneMore(f, at), i) = Since(f, i) + 1
    OBVIOUS
  <2>1. /\ i \in 0 .. MaxNow + 1 /\ MaxNow + 1 \in 0 .. MaxNow + 1
        /\ at < MaxNow + 1 /\ ~ (at < i)
    BY <1>2 DEF Times
  <2>2. /\ Upto(OneMore(f, at))[MaxNow + 1] = Upto(f)[MaxNow + 1] + 1
        /\ Upto(OneMore(f, at))[i] = Upto(f)[i]
    BY <1>2, <2>1, UptoBump
  <2>3. Upto(f)[MaxNow + 1] \in Nat /\ Upto(f)[i] \in Nat
    BY <1>2, <2>1, UptoFacts
  <2> QED BY <2>2, <2>3 DEF Since
<1>16. CASE /\ r # NoRow
            /\ c.failures = r.failures + 1
            /\ c.failures <= MaxFailures
            /\ c.until \in {NoTime, at + LockFor}
  <2> DEFINE g == OneMore(f, at)
  <2>1. /\ admitted' = g /\ GuessesBehindRow' /\ g \in [Times -> Nat]
        /\ \A t \in Times : t # at => g[t] = f[t]
    BY <1>14, <1>16
  <2>2. Since(g, first) = Since(f, first) + 1
    BY <1>6, <1>15
  <2>3. r.failures \in Nat
    BY <1>2, <1>16 DEF Row
  <2>4. Since(g, first) <= c.failures /\ Since(g, first) <= MaxFailures
    BY <1>2, <1>6, <1>11, <1>16, <2>2, <2>3
  <2>5. Bounded(g)
    BY <1>2, <1>4, <1>6, <2>4, NewGuess
  <2>6. \A t \in Times : t < first /\ g[t] # 0 => t + Window <= first
    BY <1>2, <1>6, <2>1
  <2>7. CountsFrom(first)'
    <3> HIDE DEF g
    <3> QED BY <1>1, <1>2, <1>5, <1>6, <1>7, <1>8, <2>1, <2>4, <2>6 DEF CountsFrom
  <2> HIDE DEF g
  <2> QED BY <1>8, <2>1, <2>5, <2>7 DEF GuessInv
<1>17. CASE /\ c.failures = 1
            /\ c.until \in {NoTime, at + LockFor}
            /\ r = NoRow \/ Lapsed(r, at)
  <2> DEFINE g == OneMore(f, at)
  <2>1. /\ admitted' = g /\ GuessesBehindRow' /\ g \in [Times -> Nat]
        /\ \A t \in Times : t # at => g[t] = f[t]
    BY <1>14, <1>17
  <2>2. ASSUME NEW t \in Times, f[t] # 0 PROVE t <= at - LockFor + Skew
    <3>1. /\ t \in Nat /\ r \in Row /\ Lapsed(r, at)
          /\ t <= r.last + Skew
          /\ r.until # NoTime => t <= r.until - LockFor + Skew
      BY <1>2, <1>4, <1>17, <2>2
    <3>2. r.last \in Nat /\ r.until \in Nat \cup {NoTime}
      BY <3>1, <1>2 DEF Row
    <3> QED BY <1>2, <3>1, <3>2 DEF Lapsed
  <2>3. PICK e \in Times : e = IF Skew <= at THEN at - Skew ELSE 0
    <3>1. (IF Skew <= at THEN at - Skew ELSE 0) \in Times
      BY <1>2 DEF Times
    <3> QED BY <3>1
  <2>4. e \in Nat /\ e <= at /\ e <= n /\ at - Skew <= e
    BY <1>2, <2>3
  <2>5. ASSUME NEW t \in Times, f[t] # 0 PROVE t + Window <= e /\ t < e
    <3>1. t \in Nat /\ t <= at - LockFor + Skew
      BY <1>2, <2>2, <2>5
    <3> QED BY <1>2, <2>4, <3>1 DEF Window
  <2>6. Since(f, e) = 0
    <3>1. \A t \in Times : e <= t => f[t] = 0
      BY <1>2, <2>4, <2>5
    <3> QED BY <1>2, <3>1, NoGuesses
  <2>7. Since(g, e) = 1
    BY <1>15, <2>4, <2>6
  <2>8. Since(g, e) <= MaxFailures /\ Since(g, e) <= c.failures
    BY <1>17, <2>7
  <2>9. Bounded(g)
    <3>1. \A t \in Times : t < e /\ f[t] # 0 => t + Window <= e
      BY <2>5
    <3> QED BY <1>2, <1>4, <2>4, <2>8, <3>1, NewGuess
  <2>10. \A t \in Times : t < e /\ g[t] # 0 => t + Window <= e
    BY <1>2, <2>1, <2>4, <2>5
  <2>11. \A b \in Attempts :
             attempt'[b].pc = "charge" => e <= attempt'[b].at
    <3> SUFFICES ASSUME NEW b \in Attempts, attempt'[b].pc = "charge"
                 PROVE  e <= attempt'[b].at
      OBVIOUS
    <3>1. attempt'[b] = attempt[b] /\ attempt[b].at \in Nat
      BY <1>2, <1>8 DEF IInv, TypeOK
    <3>2. n <= attempt[b].at + Skew
      BY <1>1, <3>1 DEF GuessInv, ReadingsRecent
    <3> QED BY <1>2, <2>3, <2>4, <3>1, <3>2
  <2> HIDE DEF g
  <2>12. CountsFrom(e)'
    BY <1>2, <1>7, <2>1, <2>4, <2>8, <2>10, <2>11 DEF CountsFrom
  <2> QED BY <1>8, <2>1, <2>9, <2>12 DEF GuessInv
<1> QED BY <1>2, <1>7, <1>13, <1>16, <1>17, ChargedCases

LEMMA StepGuess == IInv /\ IInv' /\ GuessInv /\ [Next]_vars => GuessInv'
<1> SUFFICES ASSUME IInv, IInv', GuessInv, [Next]_vars PROVE GuessInv'
  OBVIOUS
<1> USE ThrottleAssumption
<1>0. /\ now \in Nat /\ now' \in Times /\ now \in Times
      /\ \A a \in Attempts : attempt[a].at \in Nat
  BY DEF IInv, TypeOK, Times
<1>1. ASSUME NEW a \in Attempts,
             Check(a) \/ ReadClock(a) \/ VerifySucceeds(a) \/ AttemptFails(a)
      PROVE  GuessInv'
  <2>1. /\ UNCHANGED <<now, row, admitted>>
        /\ \A b \in Attempts : attempt'[b].pc = "charge" =>
               attempt'[b] = attempt[b] \/ attempt'[b].at = now
    BY <1>1 DEF IInv, TypeOK, Check, ReadClock, VerifySucceeds, AttemptFails,
                Idle
  <2>2. ReadingsRecent'
    BY <1>0, <2>1 DEF ReadingsRecent, GuessInv
  <2> QED BY <1>0, <2>1, <2>2, QuietGuess
<1>2. ASSUME NEW a \in Attempts, Charge(a) PROVE GuessInv'
  BY <1>2, ChargeGuess
<1>3. ASSUME NEW a \in Attempts, Reset(a) PROVE GuessInv'
  <2>1. PICK g : g = [t \in Times |-> 0]
    OBVIOUS
  <2>2. g \in [Times -> Nat] /\ \A t \in Times : g[t] = 0
    BY <2>1
  <2>3. /\ row' = NoRow /\ admitted' = g /\ now' = now
        /\ \A b \in Attempts : attempt'[b].pc = "charge" => attempt'[b] = attempt[b]
    BY <1>3, <2>1 DEF Reset, Idle, IInv, TypeOK
  <2>4. PICK first \in Times : CountsFrom(first)
    BY DEF GuessInv
  <2>5. Since(g, first) = 0
    BY <2>2, NoGuesses
  <2>6. CountsFrom(first)'
    BY <2>2, <2>3, <2>4, <2>5 DEF CountsFrom
  <2>7. Bounded(g)
    BY <2>2, NoGuessBounded
  <2>8. ReadingsRecent' /\ GuessesBehindRow'
    BY <2>2, <2>3 DEF ReadingsRecent, GuessesBehindRow, GuessInv
  <2> QED BY <2>3, <2>6, <2>7, <2>8 DEF GuessInv
<1>4. ASSUME Tick PROVE GuessInv'
  <2>1. UNCHANGED <<row, attempt, admitted>> /\ now' = now + 1
    BY <1>4 DEF Tick
  <2>2. ReadingsRecent'
    BY <1>0, <1>4 DEF Tick, ReadingsRecent
  <2>3. now <= now'
    BY <1>0, <2>1
  <2> QED BY <1>0, <2>1, <2>2, <2>3, QuietGuess
<1>5. CASE UNCHANGED vars
  <2>1. ReadingsRecent'
    BY <1>5 DEF vars, ReadingsRecent, GuessInv
  <2>2. now <= now' /\ UNCHANGED <<row, admitted>> /\ attempt' = attempt
    BY <1>0, <1>5 DEF vars
  <2> QED BY <1>0, <2>1, <2>2, QuietGuess
<1> QED BY <1>1, <1>2, <1>3, <1>4, <1>5 DEF Next

\* However many attempts run in parallel and in whatever order their charging
\* statements run, no window of LockFor, less the Skew of the clock readings
\* on either side, sees more than MaxFailures guesses without a success.
THEOREM GuessesAreBounded == Spec => []GuessesBounded
<1>1. Init => IInv /\ GuessInv
  BY InitIInv, InitGuess
<1>2. IInv /\ GuessInv /\ [Next]_vars => IInv' /\ GuessInv'
  BY StepIInv, StepGuess
<1>3. GuessInv => GuessesBounded
  <2>1. GuessInv => Bounded(admitted)
    BY DEF GuessInv
  <2>2. \A start \in 0 .. MaxNow + 1 :
            start + Window = start + LockFor - 2 * Skew
    BY ThrottleAssumption DEF Window
  <2> QED BY <2>1, <2>2 DEF Bounded, GuessesBounded
<1> QED BY <1>1, <1>2, <1>3, PTL DEF Spec

-----------------------------------------------------------------------------
(* What a lock takes.                                                      *)

Floor(t) == IF t < 0 THEN 0 ELSE t

\* The farthest back the first of n charges can be, each of them less than
\* LockFor after the one before.
Reach(t, n) == Floor(t - (n - 1) * (LockFor - 1))

\* Every failure an unlocked row counts is a guess within its reach, and so
\* were the MaxFailures of them that locked it.
EarnInv ==
    row # NoRow =>
        IF row.until = NoTime
        THEN Since(admitted, Reach(row.last, row.failures)) >= row.failures
        ELSE /\ row.until - LockFor \in Times
             /\ Since(admitted, Reach(row.until - LockFor, MaxFailures))
                    >= MaxFailures

\* Looking farther back finds no fewer guesses.
LEMMA SinceGrows ==
    ASSUME NEW f \in [Times -> Nat], NEW i \in Times, NEW j \in Times, i <= j
    PROVE  /\ Since(f, i) \in Int /\ Since(f, j) \in Int
           /\ Since(f, j) <= Since(f, i) /\ 0 <= Since(f, j)
<1> USE ThrottleAssumption
<1>1. /\ i \in 0 .. MaxNow + 1 /\ j \in 0 .. MaxNow + 1
      /\ MaxNow + 1 \in 0 .. MaxNow + 1 /\ j <= MaxNow + 1
  BY DEF Times
<1>2. Upto(f)[i] <= Upto(f)[j] /\ Upto(f)[j] <= Upto(f)[MaxNow + 1]
  BY <1>1, UptoGrows
<1>3. Upto(f)[i] \in Nat /\ Upto(f)[j] \in Nat /\ Upto(f)[MaxNow + 1] \in Nat
  BY <1>1, UptoFacts
<1> QED BY <1>2, <1>3 DEF Since

\* One charge more reaches no less far back than the charges before it.
LEMMA ReachFalls ==
    ASSUME NEW n \in Nat \ {0}, NEW last \in Times, NEW at \in Times,
           at < last + LockFor
    PROVE  /\ Reach(last, n) \in Times /\ Reach(at, n + 1) \in Times
           /\ Reach(at, n + 1) <= Reach(last, n)
           /\ Reach(at, n + 1) <= at
<1> USE ThrottleAssumption
<1>1. PICK k \in Nat : k = LockFor - 1
  OBVIOUS
<1>2. PICK p \in Nat : p = (n - 1) * k
  <2>1. n - 1 \in Nat
    OBVIOUS
  <2>2. \A x, y \in Nat : x * y \in Nat
    OBVIOUS
  <2> QED BY <2>1, <2>2
<1>3. (n + 1 - 1) * k = p + k
  <2>1. \A x \in Nat : (x + 1) * k = x * k + k
    OBVIOUS
  <2>2. n - 1 \in Nat /\ n + 1 - 1 = (n - 1) + 1
    OBVIOUS
  <2>3. ((n - 1) + 1) * k = (n - 1) * k + k
    BY <2>1, <2>2
  <2> QED BY <1>2, <2>2, <2>3
<1>4. /\ Reach(last, n) = Floor(last - p)
      /\ Reach(at, n + 1) = Floor(at - (p + k))
  <2>1. /\ Reach(last, n) = Floor(last - (n - 1) * k)
        /\ Reach(at, n + 1) = Floor(at - (n + 1 - 1) * k)
    BY <1>1 DEF Reach
  <2> QED BY <1>2, <1>3, <2>1
<1>5. at \in Nat /\ last \in Nat /\ at <= last + k /\ at <= MaxNow /\ last <= MaxNow
  BY <1>1 DEF Times
<1> QED BY <1>4, <1>5 DEF Floor, Times

\* A single charge reaches back to itself.
LEMMA ReachOne ==
    ASSUME NEW at \in Times
    PROVE  Reach(at, 1) = at
<1>1. PICK k \in Nat : k = LockFor - 1
  BY ThrottleAssumption
<1>2. (1 - 1) * k = 0
  OBVIOUS
<1> QED BY <1>1, <1>2 DEF Reach, Floor, Times

LEMMA ChargeEarn ==
    ASSUME IInv, IInv', EarnInv, NEW a \in Attempts, Charge(a)
    PROVE  EarnInv'
<1> USE ThrottleAssumption
<1>1. PICK at, f, r : at = attempt[a].at /\ f = admitted /\ r = row
  OBVIOUS
<1>2. /\ at \in Times /\ f \in [Times -> Nat] /\ r \in Row \cup {NoRow}
      /\ r # NoRow => (r.failures >= MaxFailures <=> r.until # NoTime)
      /\ at \in Nat /\ at + LockFor # NoTime
  <2>1. at \in Times /\ f \in [Times -> Nat] /\ r \in Row \cup {NoRow}
    BY <1>1 DEF IInv, TypeOK
  <2>2. at \in Nat /\ at + LockFor # NoTime
    BY <2>1 DEF Times
  <2> QED BY <1>1, <2>1, <2>2 DEF IInv, LockMatchesCount
<1>3. PICK c : /\ c = Charged(r, at) /\ row' = c /\ c \in Row /\ c # NoRow
               /\ c.failures >= MaxFailures <=> c.until # NoTime
  BY <1>1, <1>2, ChargedRow DEF Charge
<1>4. c.failures \in Nat \ {0} /\ c.last = at
  BY <1>2, <1>3, ChargedCases DEF Row
<1>5. /\ c.failures > MaxFailures => admitted' = f
      /\ c.failures <= MaxFailures => admitted' = OneMore(f, at)
  BY <1>1, <1>3, <1>4 DEF Charge, OneMore
<1>6. ASSUME NEW i \in Times, i <= at
      PROVE  /\ Since(OneMore(f, at), i) = Since(f, i) + 1
             /\ Since(f, i) \in Int /\ 0 <= Since(f, i)
  <2>1. /\ i \in 0 .. MaxNow + 1 /\ MaxNow + 1 \in 0 .. MaxNow + 1
        /\ at < MaxNow + 1 /\ ~ (at < i)
    BY <1>2, <1>6 DEF Times
  <2>2. /\ Upto(OneMore(f, at))[MaxNow + 1] = Upto(f)[MaxNow + 1] + 1
        /\ Upto(OneMore(f, at))[i] = Upto(f)[i]
    BY <1>2, <2>1, UptoBump
  <2>3. Upto(f)[MaxNow + 1] \in Nat /\ Upto(f)[i] \in Nat
    BY <1>2, <2>1, UptoFacts
  <2>4. i <= i
    BY DEF Times
  <2>5. Since(f, i) \in Int /\ 0 <= Since(f, i)
    BY <1>2, <2>4, SinceGrows
  <2> QED BY <2>2, <2>3, <2>5 DEF Since
\* The new failure and those before it are within its reach.
<1>7. ASSUME c.failures <= MaxFailures, c.until \in {NoTime, at + LockFor},
             NEW i \in Times, i = Reach(at, c.failures), i <= at,
             Since(f, i) + 1 >= c.failures
      PROVE  EarnInv'
  <2>1. admitted' = OneMore(f, at) /\ Since(OneMore(f, at), i) >= c.failures
    BY <1>5, <1>6, <1>7
  <2>2. CASE c.until = NoTime
    BY <1>3, <1>4, <1>7, <2>1, <2>2 DEF EarnInv
  <2>3. CASE c.until = at + LockFor
    <3>1. c.until # NoTime /\ c.failures = MaxFailures /\ c.until - LockFor = at
      BY <1>2, <1>3, <1>4, <1>7, <2>3
    <3> QED BY <1>2, <1>3, <1>7, <2>1, <3>1 DEF EarnInv
  <2> QED BY <1>7, <2>2, <2>3
<1>8. CASE /\ r # NoRow
           /\ c.failures > MaxFailures
           /\ c.until = r.until
           /\ r.until # NoTime
  BY <1>1, <1>3, <1>5, <1>8 DEF EarnInv
<1>9. CASE /\ c.failures = 1
           /\ c.until \in {NoTime, at + LockFor}
  <2>1. at = Reach(at, c.failures) /\ at <= at /\ Since(f, at) + 1 >= 1
    BY <1>2, <1>6, <1>9, ReachOne
  <2>2. c.failures <= MaxFailures
    BY <1>9
  <2> QED BY <1>2, <1>7, <1>9, <2>1, <2>2
<1>10. CASE /\ r # NoRow
            /\ c.failures = r.failures + 1
            /\ c.failures <= MaxFailures
            /\ c.until \in {NoTime, at + LockFor}
            /\ r.until = NoTime
            /\ at < r.last + LockFor
  <2>1. PICK n \in Nat \ {0}, l \in Times : n = r.failures /\ l = r.last
    BY <1>2, <1>10 DEF Row
  <2>2. PICK i \in Times, j \in Times :
            i = Reach(at, n + 1) /\ j = Reach(l, n) /\ i <= j /\ i <= at
    BY <1>2, <1>10, <2>1, ReachFalls
  <2>3. Since(f, j) >= n
    BY <1>1, <1>10, <2>1, <2>2 DEF EarnInv
  <2>4. Since(f, i) \in Int /\ Since(f, j) \in Int /\ Since(f, j) <= Since(f, i)
    BY <1>2, <2>2, SinceGrows
  <2>5. Since(f, i) + 1 >= n + 1
    BY <2>1, <2>3, <2>4
  <2>6. c.failures = n + 1
    BY <1>10, <2>1
  <2> QED BY <1>7, <1>10, <2>2, <2>5, <2>6
<1> QED BY <1>2, <1>3, <1>8, <1>9, <1>10, ChargedCases

LEMMA StepEarn == IInv /\ IInv' /\ EarnInv /\ [Next]_vars => EarnInv'
<1> SUFFICES ASSUME IInv, IInv', EarnInv, [Next]_vars PROVE EarnInv'
  OBVIOUS
<1>1. ASSUME NEW a \in Attempts, Charge(a) PROVE EarnInv'
  BY <1>1, ChargeEarn
<1>2. ASSUME NEW a \in Attempts, Reset(a) PROVE EarnInv'
  BY <1>2 DEF Reset, EarnInv
<1>3. CASE UNCHANGED <<row, admitted>>
  BY <1>3 DEF EarnInv
<1> QED
  BY <1>1, <1>2, <1>3
     DEF Next, vars, Check, ReadClock, VerifySucceeds, AttemptFails, Tick

\* Nobody is locked out for fewer than MaxFailures guesses since the last
\* success, each less than LockFor after the one charged before it, for any
\* limit, lock and number of parallel attempts.
THEOREM LocksAreEarned == Spec => []LockEarned
<1>1. Init => IInv /\ EarnInv
  BY InitIInv DEF Init, EarnInv
<1>2. IInv /\ EarnInv /\ [Next]_vars => IInv' /\ EarnInv'
  BY StepIInv, StepEarn
<1>3. EarnInv => LockEarned
  BY DEF EarnInv, LockEarned, Since, Reach, Floor
<1> QED BY <1>1, <1>2, <1>3, PTL DEF Spec

(***************************************************************************)
(* Sessions.                                                               *)
(***************************************************************************)

\* The parts of the type invariant; session ids are drawn in order.
SessionsTyped ==
    /\ SessionsTypeOK
    /\ \A x \in sessions : x.id <= opened

SignInsTyped ==
    signIn \in [SignIns -> [pc : {"idle", "password", "verify", "open",
                                  "record", "undo"},
                            hash : 0 .. MaxPasswords, id : 0 .. MaxSessions]]

\* A sign-in has verified a password that was read, and has a session only
\* from opening one until it is recorded or dropped.
SignInsKnow ==
    \A s \in SignIns :
        /\ signIn[s].pc \in {"verify", "open"} => signIn[s].hash \in Passwords
        /\ signIn[s].pc \notin {"record", "undo"} => signIn[s].id = 0

\* A reset that flagged the account has it restricted, or was crossed; and a
\* change that is about to clear the flag finds its own password there, or a
\* temporary one that was stored over it.
ResetsFlagged ==
    /\ \A a \in Admins : admin[a] = "reset" => account.must \/ a \in crossed
    /\ \A c \in Changers : change[c].pc = "unflag" =>
           ~ password.temporary \/ password.crossed

\* The sessions opened while an earlier password was the account's.
Outlived == {x \in sessions : x.with # password.id /\ ~ x.stale}

\* Until its sessions have ended, a replaced password or a block has somebody
\* about to end them, or has failed there.  A password change only ends the
\* others, so it does not stand for a block.
EndsPending ==
    /\ Replacing \/ unended \/ \A x, y \in Outlived : x = y
    /\ account.blocked =>
          \/ \E a \in Admins : admin[a] = "end"
          \/ unended
          \/ \A x \in sessions : x.late

SessionsInv ==
    /\ SessionsTyped
    /\ SignInsKnow
    /\ ResetsFlagged
    /\ EndsPending
    /\ EverySessionRecorded
    /\ RestrictedUnlessCrossed

LEMMA SessionsBegin ==
    SessionsInit => SessionsInv
<1> SUFFICES ASSUME SessionsInit PROVE SessionsInv
  OBVIOUS
<1>1. 1 \in 1 .. MaxPasswords /\ 0 \in 0 .. MaxPasswords /\ 0 \in 0 .. MaxSessions
  BY SessionsAssumption
<1>2. SessionsTypeOK
  BY <1>1 DEF SessionsInit, SessionsTypeOK, Passwords, IdleSignIn, IdleChange
<1> QED
  BY <1>2 DEF SessionsInit, SessionsInv, SessionsTyped, SignInsKnow, IdleSignIn,
     ResetsFlagged, EndsPending, Outlived, EverySessionRecorded,
     RestrictedUnlessCrossed

\* A step of a sign-in that writes nothing yet.
LEMMA SignInReads ==
    ASSUME SessionsInv, NEW s \in SignIns,
           \/ ResolveAccount(s) \/ ResolvePassword(s)
           \/ \E p \in 1 .. passwords : Verify(s, p)
           \/ SignInFails(s)
    PROVE  SessionsInv'
<1> USE DEF SessionsInv
<1>1. UNCHANGED <<rows, change, admin>>
  BY DEF ResolveAccount, ResolvePassword, Verify, SignInFails
<1>2. /\ SignInsTyped'
      /\ \A t \in SignIns : signIn'[t].id = signIn[t].id
      /\ SignInsKnow'
  <2>1. /\ SignInsTyped /\ password.id \in Passwords
        /\ Passwords \subseteq 0 .. MaxPasswords /\ 0 \in 0 .. MaxSessions
        /\ 0 \in 0 .. MaxPasswords
    BY SessionsAssumption DEF SessionsTyped, SessionsTypeOK, SignInsTyped, Passwords
  <2> QED
    BY <2>1 DEF SignInsTyped, SignInsKnow, ResolveAccount, ResolvePassword,
       Verify, SignInFails, IdleSignIn
<1>3. SessionsTyped' /\ ResetsFlagged' /\ RestrictedUnlessCrossed'
  BY <1>1, <1>2 DEF SessionsTyped, SessionsTypeOK, rows, SignInsTyped,
     ResetsFlagged, RestrictedUnlessCrossed
<1>4. EndsPending'
  BY <1>1 DEF EndsPending, rows, Outlived, Replacing
<1>5. EverySessionRecorded'
  BY <1>1, <1>2 DEF EverySessionRecorded, rows
<1> QED BY <1>2, <1>3, <1>4, <1>5

LEMMA OpensSession ==
    ASSUME SessionsInv, NEW s \in SignIns,
           OpenSession(s)
    PROVE  SessionsInv'
<1> USE DEF SessionsInv
<1>1. UNCHANGED <<account, password, passwords, change, admin, unended, crossed>>
  BY DEF OpenSession
<1>2. PICK new : /\ new = [id |-> opened + 1, with |-> signIn[s].hash,
                           stale |-> signIn[s].hash # password.id,
                           late |-> account.blocked, recorded |-> "no"]
                 /\ sessions' = sessions \cup {new}
                 /\ opened' = opened + 1 /\ opened < MaxSessions
                 /\ signIn[s].pc = "open"
                 /\ signIn' = [signIn EXCEPT ![s].pc = "record",
                                             ![s].id = opened + 1]
  BY DEF OpenSession
<1>3. /\ opened \in 0 .. MaxSessions /\ SignInsTyped
      /\ signIn[s].hash \in Passwords /\ account.blocked \in BOOLEAN
      /\ MaxSessions \in Nat /\ sessions \subseteq Session
      /\ \A x \in sessions : x.id <= opened /\ x.id \in Nat
  BY <1>2, SessionsAssumption DEF SessionsTyped, SessionsTypeOK, SignInsKnow,
     SignInsTyped, Session, SessionIds
<1>4. /\ opened + 1 \in SessionIds /\ opened + 1 \in 0 .. MaxSessions
      /\ new \in Session
  BY <1>2, <1>3 DEF Session, SessionIds
<1>5. new.id = opened + 1 /\ (new.with = password.id \/ new.stale)
      /\ new.late = account.blocked
  BY <1>2
<1>6. SignInsTyped' /\ SignInsKnow'
  BY <1>2, <1>3, <1>4 DEF SignInsTyped, SignInsKnow
<1>7. SessionsTyped'
  <2>1. \A x \in sessions : x.id # new.id
    BY <1>3, <1>5
  <2>2. \A x, y \in sessions' : x.id = y.id => x = y
    BY <1>2, <2>1 DEF SessionsTyped, SessionsTypeOK
  <2>3. \A x \in sessions' : x.id <= opened'
    BY <1>2, <1>3, <1>5
  <2> QED BY <1>1, <1>2, <1>4, <1>6, <2>2, <2>3 DEF SessionsTyped, SessionsTypeOK,
             SignInsTyped
<1>8. ResetsFlagged' /\ RestrictedUnlessCrossed'
  BY <1>1 DEF ResetsFlagged, RestrictedUnlessCrossed
<1>9. EndsPending'
  <2>1. Outlived' = Outlived
    BY <1>1, <1>2, <1>5 DEF Outlived
  <2>2. Replacing' <=> Replacing
    BY <1>1 DEF Replacing
  <2> QED BY <1>1, <1>2, <1>5, <2>1, <2>2 DEF EndsPending
<1>10. EverySessionRecorded'
  <2>1. signIn'[s].id = new.id
    BY <1>2, <1>3, <1>5 DEF SignInsTyped
  <2>2. ASSUME NEW x \in sessions
        PROVE  x.recorded # "no" \/ \E t \in SignIns : signIn'[t].id = x.id
    <3>1. signIn[s].id = 0
      BY <1>2 DEF SignInsKnow
    <3>2. ASSUME NEW t \in SignIns, signIn[t].id = x.id PROVE signIn'[t].id = x.id
      BY <1>2, <1>3, <3>1, <3>2 DEF SignInsTyped, Session, SessionIds
    <3> QED BY <3>2 DEF EverySessionRecorded
  <2> QED BY <1>2, <2>1, <2>2 DEF EverySessionRecorded
<1> QED BY <1>6, <1>7, <1>8, <1>9, <1>10

\* Marking a session changes nothing else about it.
LEMMA MarkedFacts ==
    ASSUME SessionsTyped, NEW id, NEW mark \in {"yes", "left"}
    PROVE  /\ Marked(id, mark) \subseteq Session
           /\ \A y \in Marked(id, mark) : \E x \in sessions :
                 /\ y.id = x.id /\ y.with = x.with /\ y.stale = x.stale
                 /\ y.late = x.late
                 /\ IF x.id = id THEN y.recorded = mark ELSE y = x
           /\ \A y, z \in Marked(id, mark) : y.id = z.id => y = z
<1>1. /\ sessions \subseteq Session
      /\ \A x, y \in sessions : x.id = y.id => x = y
  BY DEF SessionsTyped, SessionsTypeOK
<1>2. ASSUME NEW y \in Marked(id, mark)
      PROVE  \E x \in sessions :
                y = IF x.id = id THEN [x EXCEPT !.recorded = mark] ELSE x
  BY DEF Marked
<1>3. ASSUME NEW x \in sessions
      PROVE  /\ [x EXCEPT !.recorded = mark] \in Session
             /\ [x EXCEPT !.recorded = mark].id = x.id
             /\ [x EXCEPT !.recorded = mark].with = x.with
             /\ [x EXCEPT !.recorded = mark].stale = x.stale
             /\ [x EXCEPT !.recorded = mark].late = x.late
             /\ [x EXCEPT !.recorded = mark].recorded = mark
  BY <1>1 DEF Session
<1>4. Marked(id, mark) \subseteq Session
  BY <1>1, <1>2, <1>3
<1>5. \A y \in Marked(id, mark) : \E x \in sessions :
          /\ y.id = x.id /\ y.with = x.with /\ y.stale = x.stale
          /\ y.late = x.late
          /\ IF x.id = id THEN y.recorded = mark ELSE y = x
  <2> TAKE y \in Marked(id, mark)
  <2>1. PICK x \in sessions :
            y = IF x.id = id THEN [x EXCEPT !.recorded = mark] ELSE x
    BY <1>2
  <2> WITNESS x \in sessions
  <2>2. CASE x.id = id
    BY <1>3, <2>1, <2>2
  <2>3. CASE x.id # id
    BY <2>1, <2>3
  <2> QED BY <2>2, <2>3
<1>6. ASSUME NEW y \in Marked(id, mark), NEW z \in Marked(id, mark), y.id = z.id
      PROVE  y = z
  <2>1. PICK x \in sessions :
            y = IF x.id = id THEN [x EXCEPT !.recorded = mark] ELSE x
    BY <1>2
  <2>2. PICK w \in sessions :
            z = IF w.id = id THEN [w EXCEPT !.recorded = mark] ELSE w
    BY <1>2
  <2>3. y.id = x.id /\ z.id = w.id
    BY <1>3, <2>1, <2>2
  <2>4. x = w
    BY <1>1, <1>6, <2>3
  <2> QED BY <2>1, <2>2, <2>4
<1> QED BY <1>4, <1>5, <1>6

\* The sessions of the table are, perhaps fewer, the ones they were, and what
\* a sign-in is about to record is still its own.
LEMMA SessionsDwindle ==
    ASSUME SessionsInv,
           UNCHANGED <<account, password, passwords, opened, change, admin,
                       unended, crossed>>,
           SignInsTyped', SignInsKnow',
           sessions' \subseteq Session,
           \A y, z \in sessions' : y.id = z.id => y = z,
           \A y \in sessions' : \E x \in sessions :
              /\ y.id = x.id /\ y.with = x.with /\ y.stale = x.stale
              /\ y.late = x.late,
           EverySessionRecorded'
    PROVE  SessionsInv'
<1> USE DEF SessionsInv
<1>1. SessionsTyped'
  BY DEF SessionsTyped, SessionsTypeOK, SignInsTyped
<1>2. ResetsFlagged' /\ RestrictedUnlessCrossed'
  BY DEF ResetsFlagged, RestrictedUnlessCrossed
<1>3. EndsPending'
  <2>1. ASSUME \A x, y \in Outlived : x = y PROVE \A x, y \in Outlived' : x = y
    <3> SUFFICES ASSUME NEW y \in Outlived', NEW z \in Outlived' PROVE y = z
      OBVIOUS
    <3>1. PICK x \in Outlived : y.id = x.id
      BY DEF Outlived
    <3>2. PICK w \in Outlived : z.id = w.id
      BY DEF Outlived
    <3>3. y.id = z.id
      BY <2>1, <3>1, <3>2
    <3> QED BY <3>3 DEF Outlived
  <2>2. Replacing' <=> Replacing
    BY DEF Replacing
  <2>3. (\A x \in sessions : x.late) => \A x \in sessions' : x.late
    OBVIOUS
  <2> QED BY <2>1, <2>2, <2>3 DEF EndsPending
<1> QED BY <1>1, <1>2, <1>3

LEMMA RecordsSession ==
    ASSUME SessionsInv, NEW s \in SignIns,
           RecordSession(s) \/ DropSession(s)
    PROVE  SessionsInv'
<1>0. /\ SessionsTyped /\ SignInsTyped /\ 0 \in 0 .. MaxPasswords
      /\ 0 \in 0 .. MaxSessions /\ EverySessionRecorded /\ SignInsKnow
      /\ sessions \subseteq Session
      /\ \A x, y \in sessions : x.id = y.id => x = y
  BY SessionsAssumption DEF SessionsInv, SessionsTyped, SessionsTypeOK, SignInsTyped
<1>1. /\ UNCHANGED <<account, password, passwords, opened, change, admin,
                     unended, crossed>>
      /\ signIn[s].pc \in {"record", "undo"}
  BY DEF RecordSession, DropSession
<1>2. CASE signIn' = [signIn EXCEPT ![s].pc = "undo"] /\ UNCHANGED sessions
  <2>1. SignInsTyped' /\ SignInsKnow'
        /\ \A t \in SignIns : signIn'[t].id = signIn[t].id
    BY <1>0, <1>1, <1>2 DEF SignInsTyped, SignInsKnow
  <2>2. EverySessionRecorded'
    BY <1>0, <1>2, <2>1 DEF EverySessionRecorded
  <2> QED BY <1>0, <1>1, <1>2, <2>1, <2>2, SessionsDwindle
<1>3. ASSUME signIn' = [signIn EXCEPT ![s] = IdleSignIn]
      PROVE  /\ SignInsTyped' /\ SignInsKnow'
             /\ \A t \in SignIns : t # s => signIn'[t].id = signIn[t].id
  BY <1>0, <1>3 DEF SignInsTyped, SignInsKnow, IdleSignIn
<1>4. ASSUME signIn' = [signIn EXCEPT ![s] = IdleSignIn],
             NEW mark \in {"yes", "left"},
             sessions' = Marked(signIn[s].id, mark)
      PROVE  SessionsInv'
  <2>1. PICK i, m : i = signIn[s].id /\ m = Marked(i, mark) /\ sessions' = m
    BY <1>4
  <2>2. /\ m \subseteq Session
        /\ \A y \in m : \E x \in sessions :
              /\ y.id = x.id /\ y.with = x.with /\ y.stale = x.stale
              /\ y.late = x.late
              /\ IF x.id = i THEN y.recorded = mark ELSE y = x
        /\ \A y, z \in m : y.id = z.id => y = z
    BY <1>0, <2>1, MarkedFacts
  <2>3. EverySessionRecorded'
    <3> SUFFICES ASSUME NEW y \in m
                 PROVE  y.recorded # "no" \/ \E t \in SignIns : signIn'[t].id = y.id
      BY <2>1 DEF EverySessionRecorded
    <3>1. PICK x \in sessions :
              y.id = x.id /\ IF x.id = i THEN y.recorded = mark ELSE y = x
      BY <2>2
    <3>2. CASE x.id = i
      BY <3>1, <3>2
    <3>3. CASE x.id # i
      BY <1>0, <1>3, <1>4, <2>1, <3>1, <3>3 DEF EverySessionRecorded
    <3> QED BY <3>2, <3>3
  <2> QED BY <1>1, <1>3, <1>4, <2>1, <2>2, <2>3, SessionsDwindle
<1>5. CASE /\ signIn' = [signIn EXCEPT ![s] = IdleSignIn]
           /\ sessions' = {x \in sessions : x.id # signIn[s].id}
  <2>1. EverySessionRecorded'
    BY <1>0, <1>3, <1>5 DEF EverySessionRecorded
  <2> QED BY <1>0, <1>1, <1>3, <1>5, <2>1, SessionsDwindle
<1> QED BY <1>2, <1>4, <1>5 DEF RecordSession, DropSession

LEMMA SignsOut ==
    ASSUME SessionsInv, NEW x \in sessions, SignOut(x)
    PROVE  SessionsInv'
<1>1. /\ SignInsTyped' /\ SignInsKnow' /\ sessions \subseteq Session
      /\ \A y, z \in sessions : y.id = z.id => y = z
  BY DEF SessionsInv, SessionsTyped, SessionsTypeOK, SignInsTyped, SignInsKnow,
     SignOut
<1>2. EverySessionRecorded'
  BY DEF SessionsInv, EverySessionRecorded, SignOut
<1>3. /\ sessions' \subseteq sessions
      /\ UNCHANGED <<account, password, passwords, opened, change, admin,
                     unended, crossed>>
  BY DEF SignOut
<1> QED BY <1>1, <1>2, <1>3, SessionsDwindle

\* A step that leaves the sessions and the sign-ins alone.
LEMMA SessionsStand ==
    ASSUME SessionsInv, UNCHANGED <<sessions, opened, signIn>>,
           SessionsTypeOK', ResetsFlagged', EndsPending', RestrictedUnlessCrossed'
    PROVE  SessionsInv'
  BY DEF SessionsInv, SessionsTyped, SignInsKnow, EverySessionRecorded

LEMMA ChangesPassword ==
    ASSUME SessionsInv, NEW c \in Changers,
           \/ \E x \in sessions : ChangePassword(c, x)
           \/ ShowCurrent(c) \/ SetPassword(c) \/ ClearMustChange(c)
           \/ ChangeFails(c)
    PROVE  SessionsInv'
<1> USE DEF SessionsInv
<1>0. /\ SessionsTypeOK /\ ResetsFlagged /\ EndsPending /\ RestrictedUnlessCrossed
      /\ 0 \in 0 .. MaxSessions
  BY SessionsAssumption DEF SessionsTyped
<1>1. ASSUME NEW x \in sessions, ChangePassword(c, x) PROVE SessionsInv'
  <2>1. x.id \in 0 .. MaxSessions /\ account.must \in BOOLEAN
    BY <1>0 DEF SessionsTypeOK, Session, SessionIds
  <2>2. SessionsTypeOK'
    BY <1>0, <1>1, <2>1 DEF ChangePassword, rows, SessionsTypeOK
  <2>3. Replacing' <=> Replacing
    BY <1>0, <1>1 DEF ChangePassword, rows, SessionsTypeOK, Replacing
  <2>4. EndsPending'
    BY <1>0, <1>1, <2>3 DEF ChangePassword, rows, EndsPending, Outlived
  <2>5. \A d \in Changers : change'[d].pc = "unflag" => change[d].pc = "unflag"
    BY <1>0, <1>1 DEF ChangePassword, SessionsTypeOK
  <2>6. ResetsFlagged' /\ RestrictedUnlessCrossed'
    BY <1>0, <1>1, <2>5
       DEF ChangePassword, rows, ResetsFlagged, RestrictedUnlessCrossed
  <2> QED BY <1>0, <1>1, <2>2, <2>4, <2>6, SessionsStand DEF ChangePassword, rows
<1>2. CASE ShowCurrent(c)
  <2>2. SessionsTypeOK'
    BY <1>0, <1>2 DEF ShowCurrent, rows, SessionsTypeOK
  <2>3. Replacing' <=> Replacing
    BY <1>0, <1>2 DEF ShowCurrent, rows, SessionsTypeOK, Replacing
  <2>4. EndsPending'
    BY <1>0, <1>2, <2>3 DEF ShowCurrent, rows, EndsPending, Outlived
  <2>5. \A d \in Changers : change'[d].pc = "unflag" => change[d].pc = "unflag"
    BY <1>0, <1>2 DEF ShowCurrent, SessionsTypeOK
  <2>6. ResetsFlagged' /\ RestrictedUnlessCrossed'
    BY <1>0, <1>2, <2>5
       DEF ShowCurrent, rows, ResetsFlagged, RestrictedUnlessCrossed
  <2> QED BY <1>0, <1>2, <2>2, <2>4, <2>6, SessionsStand DEF ShowCurrent, rows
<1>3. CASE SetPassword(c)
  <2>1. passwords + 1 \in Passwords
    BY <1>0, <1>3, SessionsAssumption DEF SetPassword, SessionsTypeOK, Passwords
  <2>2. SessionsTypeOK'
    BY <1>0, <1>3, <2>1 DEF SetPassword, SessionsTypeOK
  <2>3. Replacing'
    BY <1>0, <1>3 DEF SetPassword, SessionsTypeOK, Replacing
  <2>4. EndsPending'
    BY <1>0, <1>3, <2>3 DEF SetPassword, EndsPending
  <2>5. ResetsFlagged' /\ RestrictedUnlessCrossed'
    BY <1>0, <1>3 DEF SetPassword, ResetsFlagged, RestrictedUnlessCrossed
  <2> QED BY <1>0, <1>3, <2>2, <2>4, <2>5, SessionsStand DEF SetPassword
<1>4. CASE ClearMustChange(c)
  <2>1. /\ crossed' \subseteq Admins
        /\ \A a \in Admins : admin[a] = "reset" => a \in crossed'
    BY <1>0, <1>4 DEF ClearMustChange, SessionsTypeOK
  <2>6. ~ password.temporary \/ password.crossed
    BY <1>0, <1>4 DEF ClearMustChange, ResetsFlagged
  <2>7. \A d \in Changers : change'[d].pc = "unflag" => change[d].pc = "unflag"
    BY <1>0, <1>4 DEF ClearMustChange, SessionsTypeOK
  <2>8. ResetsFlagged' /\ RestrictedUnlessCrossed'
    BY <1>0, <1>4, <2>1, <2>6, <2>7
       DEF ClearMustChange, ResetsFlagged, RestrictedUnlessCrossed
  <2>2. SessionsTypeOK'
    BY <1>0, <1>4, <2>1 DEF ClearMustChange, SessionsTypeOK
  <2>3. Replacing'
    BY <1>0, <1>4 DEF ClearMustChange, SessionsTypeOK, Replacing
  <2>4. account'.blocked = account.blocked
    BY <1>0, <1>4 DEF ClearMustChange, SessionsTypeOK
  <2>5. EndsPending'
    BY <1>0, <1>4, <2>3, <2>4 DEF ClearMustChange, EndsPending
  <2> QED BY <1>0, <1>4, <2>2, <2>5, <2>8, SessionsStand
      DEF ClearMustChange
<1>5. CASE ChangeFails(c)
  <2>1. /\ unended' \in BOOLEAN /\ unended => unended'
        /\ change[c].pc \in {"unflag", "end"} => unended'
    BY <1>0, <1>5 DEF ChangeFails, SessionsTypeOK
  <2>2. SessionsTypeOK'
    BY <1>0, <1>5, <2>1 DEF ChangeFails, SessionsTypeOK, IdleChange
  <2>3. Replacing => Replacing' \/ unended'
    BY <1>0, <1>5, <2>1 DEF ChangeFails, SessionsTypeOK, Replacing
  <2>5. EndsPending'
    BY <1>0, <1>5, <2>1, <2>3 DEF ChangeFails, EndsPending, Outlived
  <2>6. \A d \in Changers : change'[d].pc = "unflag" => change[d].pc = "unflag"
    BY <1>0, <1>5 DEF ChangeFails, SessionsTypeOK, IdleChange
  <2>7. ResetsFlagged' /\ RestrictedUnlessCrossed'
    BY <1>0, <1>5, <2>6 DEF ChangeFails, ResetsFlagged, RestrictedUnlessCrossed
  <2> QED BY <1>0, <1>5, <2>2, <2>5, <2>7, SessionsStand DEF ChangeFails
<1> QED BY <1>1, <1>2, <1>3, <1>4, <1>5

LEMMA EndsOthers ==
    ASSUME SessionsInv, NEW c \in Changers, EndOthers(c)
    PROVE  SessionsInv'
<1> USE DEF SessionsInv
<1>0. /\ SessionsTypeOK /\ ResetsFlagged /\ EndsPending /\ RestrictedUnlessCrossed
      /\ 0 \in 0 .. MaxSessions /\ SessionsTyped
  BY SessionsAssumption DEF SessionsTyped
<1>1. /\ sessions' \subseteq sessions
      /\ \A x, y \in sessions' : x = y
      /\ UNCHANGED <<account, password, passwords, opened, signIn, admin, unended,
                     crossed>>
  BY <1>0 DEF EndOthers, SessionsTypeOK
<1>2. SessionsTypeOK'
  BY <1>0, <1>1 DEF EndOthers, SessionsTypeOK, IdleChange
<1>3. SessionsTyped'
  BY <1>0, <1>1, <1>2 DEF SessionsTyped
<1>4. EndsPending'
  BY <1>0, <1>1 DEF EndsPending, Outlived
<1>5. \A d \in Changers : change'[d].pc = "unflag" => change[d].pc = "unflag"
  BY <1>0 DEF EndOthers, SessionsTypeOK, IdleChange
<1>6. ResetsFlagged' /\ RestrictedUnlessCrossed'
  BY <1>0, <1>1, <1>5 DEF ResetsFlagged, RestrictedUnlessCrossed
<1> QED BY <1>1, <1>3, <1>4, <1>6 DEF SignInsKnow, EverySessionRecorded

LEMMA AdminsStep ==
    ASSUME SessionsInv, NEW a \in Admins,
           \/ ResetPassword(a) \/ SetMustChange(a) \/ SetTemporary(a)
           \/ Block(a) \/ AdminFails(a)
    PROVE  SessionsInv'
<1> USE DEF SessionsInv
<1>0. /\ SessionsTypeOK /\ ResetsFlagged /\ EndsPending /\ RestrictedUnlessCrossed
      /\ account \in [blocked : BOOLEAN, must : BOOLEAN]
      /\ admin \in [Admins -> {"idle", "flag", "reset", "end"}]
  BY DEF SessionsTyped, SessionsTypeOK
<1>1. CASE ResetPassword(a)
  <2>1. SessionsTypeOK'
    BY <1>0, <1>1 DEF ResetPassword, rows, SessionsTypeOK
  <2>2. \A b \in Admins : (admin'[b] = "end" <=> admin[b] = "end")
                          /\ (admin'[b] = "reset" <=> admin[b] = "reset")
    BY <1>0, <1>1 DEF ResetPassword
  <2>3. EndsPending'
    BY <1>0, <1>1, <2>2 DEF ResetPassword, rows, EndsPending, Outlived,
       Replacing
  <2> QED BY <1>0, <1>1, <2>1, <2>2, <2>3, SessionsStand
      DEF ResetPassword, rows, ResetsFlagged, RestrictedUnlessCrossed
<1>2. CASE SetMustChange(a)
  <2>0. account'.must /\ account'.blocked = account.blocked
    BY <1>0, <1>2 DEF SetMustChange
  <2>1. SessionsTypeOK'
    BY <1>0, <1>2 DEF SetMustChange, SessionsTypeOK
  <2>2. \A b \in Admins : admin'[b] = "end" <=> admin[b] = "end"
    BY <1>0, <1>2 DEF SetMustChange
  <2>3. EndsPending'
    BY <1>0, <1>2, <2>0, <2>2 DEF SetMustChange, EndsPending, Outlived,
       Replacing
  <2> QED BY <1>0, <1>2, <2>0, <2>1, <2>3, SessionsStand
      DEF SetMustChange, ResetsFlagged, RestrictedUnlessCrossed
<1>3. CASE SetTemporary(a)
  <2>0. passwords + 1 \in Passwords
    BY <1>0, <1>3, SessionsAssumption DEF SetTemporary, SessionsTypeOK, Passwords
  <2> DEFINE over == a \in crossed \/ \E c \in Changers : change[c].pc = "unflag"
  <2>5. PICK cr \in BOOLEAN : cr = over
    OBVIOUS
  <2>6. password' = [id |-> passwords + 1, temporary |-> TRUE,
                     expired |-> FALSE, crossed |-> cr]
    BY <1>3, <2>5 DEF SetTemporary
  <2>7. password' \in [id : Passwords, temporary : BOOLEAN, expired : BOOLEAN,
                       crossed : BOOLEAN]
    BY <2>0, <2>5, <2>6
  <2>1. SessionsTypeOK'
    BY <1>0, <1>3, <2>0, <2>7 DEF SetTemporary, SessionsTypeOK
  <2>2. /\ admin'[a] = "end" /\ admin[a] = "reset"
        /\ \A b \in Admins : b # a => admin'[b] = admin[b]
    BY <1>0, <1>3 DEF SetTemporary
  <2>3. EndsPending'
    BY <1>0, <1>3, <2>2 DEF SetTemporary, EndsPending, Replacing
  <2>8. /\ password'.crossed = cr
        /\ a \in crossed => cr
        /\ \A c \in Changers : change[c].pc = "unflag" => cr
    BY <2>5, <2>6
  <2>4. ResetsFlagged' /\ RestrictedUnlessCrossed'
    <3>1. \A b \in Admins : admin'[b] = "reset" =>
                            b # a /\ (account.must \/ b \in crossed)
      BY <1>0, <2>2 DEF ResetsFlagged
    <3>2. account' = account /\ change' = change /\ crossed' = crossed \ {a}
      BY <1>3 DEF SetTemporary
    <3>3. account.must \/ password'.crossed
      BY <1>0, <2>2, <2>8 DEF ResetsFlagged
    <3> QED BY <2>8, <3>1, <3>2, <3>3 DEF ResetsFlagged, RestrictedUnlessCrossed
  <2> QED BY <1>3, <2>1, <2>3, <2>4, SessionsStand DEF SetTemporary
<1>4. CASE Block(a)
  <2>0. account'.must = account.must
    BY <1>0, <1>4 DEF Block
  <2>1. SessionsTypeOK'
    BY <1>0, <1>4 DEF Block, SessionsTypeOK
  <2>2. /\ admin'[a] = "end"
        /\ \A b \in Admins : b # a => admin'[b] = admin[b]
    BY <1>0, <1>4 DEF Block
  <2>3. EndsPending'
    BY <2>2 DEF EndsPending, Replacing
  <2>4. ResetsFlagged' /\ RestrictedUnlessCrossed'
    BY <1>0, <1>4, <2>0, <2>2
       DEF Block, ResetsFlagged, RestrictedUnlessCrossed
  <2> QED BY <1>4, <2>1, <2>3, <2>4, SessionsStand DEF Block
<1>5. CASE AdminFails(a)
  <2>0. /\ unended' \in BOOLEAN /\ unended => unended'
        /\ admin[a] = "end" => unended'
    BY <1>0, <1>5 DEF AdminFails, SessionsTypeOK
  <2>1. SessionsTypeOK'
    BY <1>0, <1>5, <2>0 DEF AdminFails, SessionsTypeOK
  <2>2. /\ admin'[a] = "idle"
        /\ \A b \in Admins : b # a => admin'[b] = admin[b]
    BY <1>0, <1>5 DEF AdminFails
  <2>3. EndsPending'
    BY <1>0, <1>5, <2>0, <2>2 DEF AdminFails, EndsPending, Replacing, Outlived
  <2>4. ResetsFlagged' /\ RestrictedUnlessCrossed'
    BY <1>0, <1>5, <2>2
       DEF AdminFails, ResetsFlagged, RestrictedUnlessCrossed
  <2> QED BY <1>5, <2>1, <2>3, <2>4, SessionsStand DEF AdminFails
<1> QED BY <1>1, <1>2, <1>3, <1>4, <1>5

LEMMA EndsAll ==
    ASSUME SessionsInv, NEW a \in Admins, EndAll(a)
    PROVE  SessionsInv'
<1> USE DEF SessionsInv
<1>1. SessionsTypeOK'
  BY DEF SessionsTyped, EndAll, SessionsTypeOK
<1>2. ResetsFlagged' /\ RestrictedUnlessCrossed'
  BY DEF SessionsTyped, SessionsTypeOK, EndAll, ResetsFlagged,
     RestrictedUnlessCrossed
<1>3. sessions' = {} /\ UNCHANGED signIn
  BY DEF EndAll
<1> QED BY <1>1, <1>2, <1>3 DEF SessionsTyped, SignInsKnow, EndsPending,
     Outlived, EverySessionRecorded

LEMMA ByItself ==
    ASSUME SessionsInv,
           TemporaryExpires \/ Unblock \/ UNCHANGED sessionsVars
    PROVE  SessionsInv'
<1> USE DEF SessionsInv
<1>0. /\ SessionsTypeOK /\ ResetsFlagged /\ EndsPending /\ RestrictedUnlessCrossed
  BY DEF SessionsTyped
<1>1. CASE TemporaryExpires
  <2>1. SessionsTypeOK' /\ password'.id = password.id
    BY <1>0, <1>1 DEF TemporaryExpires, SessionsTypeOK
  <2>2. EndsPending'
    BY <1>0, <1>1, <2>1 DEF TemporaryExpires, EndsPending, Replacing, Outlived
  <2> QED BY <1>0, <1>1, <2>1, <2>2, SessionsStand
      DEF TemporaryExpires, ResetsFlagged, RestrictedUnlessCrossed
<1>2. CASE Unblock
  <2>1. SessionsTypeOK' /\ account'.must = account.must /\ ~ account'.blocked
    BY <1>0, <1>2 DEF Unblock, SessionsTypeOK
  <2>2. EndsPending'
    BY <1>0, <1>2, <2>1 DEF Unblock, EndsPending, Replacing, Outlived
  <2> QED BY <1>0, <1>2, <2>1, <2>2, SessionsStand
      DEF Unblock, ResetsFlagged, RestrictedUnlessCrossed
<1>3. CASE UNCHANGED sessionsVars
  <2>1. EndsPending'
    BY <1>0, <1>3 DEF sessionsVars, EndsPending, Replacing, Outlived
  <2> QED BY <1>0, <1>3, <2>1, SessionsStand
      DEF sessionsVars, SessionsTypeOK, ResetsFlagged, RestrictedUnlessCrossed
<1> QED BY <1>1, <1>2, <1>3

LEMMA SessionsStay ==
    SessionsInv /\ [SessionsNext]_sessionsVars => SessionsInv'
<1> SUFFICES ASSUME SessionsInv, [SessionsNext]_sessionsVars PROVE SessionsInv'
  OBVIOUS
<1>1. ASSUME NEW s \in SignIns,
             \/ ResolveAccount(s) \/ ResolvePassword(s)
             \/ \E p \in 1 .. passwords : Verify(s, p)
             \/ OpenSession(s) \/ RecordSession(s) \/ DropSession(s)
             \/ SignInFails(s)
      PROVE  SessionsInv'
  BY <1>1, SignInReads, OpensSession, RecordsSession
<1>2. ASSUME NEW c \in Changers,
             \/ \E x \in sessions : ChangePassword(c, x)
             \/ ShowCurrent(c) \/ SetPassword(c) \/ ClearMustChange(c)
             \/ EndOthers(c) \/ ChangeFails(c)
      PROVE  SessionsInv'
  BY <1>2, ChangesPassword, EndsOthers
<1>3. ASSUME NEW a \in Admins,
             \/ ResetPassword(a) \/ SetMustChange(a) \/ SetTemporary(a)
             \/ Block(a) \/ EndAll(a) \/ AdminFails(a)
      PROVE  SessionsInv'
  BY <1>3, AdminsStep, EndsAll
<1> QED BY <1>1, <1>2, <1>3, SignsOut, ByItself DEF SessionsNext

LEMMA SessionsHold ==
    SessionsSpec => []SessionsInv
  BY SessionsBegin, SessionsStay, PTL DEF SessionsSpec

LEMMA AtMostOne ==
    ASSUME NEW T, \A x, y \in T : x = y PROVE Cardinality(T) <= 1
<1>1. CASE T = {}
  BY <1>1, FS_EmptySet
<1>2. CASE T # {}
  <2>1. PICK x : x \in T
    BY <1>2
  <2>2. T = {x}
    BY <2>1
  <2>3. Cardinality({x}) = 1
    BY FS_Singleton, Zenon
  <2> QED BY <2>2, <2>3
<1> QED BY <1>1, <1>2

\* Whatever takes an account's access away ends the sessions it had, for any
\* number of sign-ins, password changes and administrators at a time: only a
\* failure between the two writes, or the session a password was changed
\* under, leaves one.
THEOREM RevocationsSignOut == SessionsSpec => []RevocationSignsOut
<1>1. SessionsInv => RevocationSignsOut
  <2> SUFFICES ASSUME SessionsInv PROVE RevocationSignsOut
    OBVIOUS
  <2>1. EndsPending
    BY DEF SessionsInv
  <2>2. BlockSignsOut
    BY <2>1 DEF EndsPending, BlockSignsOut, Replacing
  <2>3. ReplacedPasswordSignsOut
    <3> SUFFICES ASSUME ~ Replacing, ~ unended
                 PROVE  Cardinality(Outlived) <= 1
      BY DEF ReplacedPasswordSignsOut, Outlived
    <3>1. \A x, y \in Outlived : x = y
      BY <2>1 DEF EndsPending
    <3> QED BY <3>1, AtMostOne
  <2> QED BY <2>2, <2>3 DEF RevocationSignsOut
<1> QED BY <1>1, SessionsHold, PTL

\* Every session somebody can use is in the audit log, is being recorded or
\* dropped, or was reported as left open.
THEOREM SessionsRecorded == SessionsSpec => []EverySessionRecorded
<1>1. SessionsInv => EverySessionRecorded
  BY DEF SessionsInv
<1> QED BY <1>1, SessionsHold, PTL

\* A temporary password is restricted, for any number of resets and changes at
\* a time and whichever of their statements fails, unless a change that had
\* already replaced the password was yet to clear the flag as the reset that
\* set it flagged the account or stored it.
THEOREM TemporaryIsRestricted == SessionsSpec => []RestrictedUnlessCrossed
<1>1. SessionsInv => RestrictedUnlessCrossed
  BY DEF SessionsInv
<1> QED BY <1>1, SessionsHold, PTL

=============================================================================
