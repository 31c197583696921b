------------------------- MODULE SysTimeoutsProofs -------------------------
(***************************************************************************)
(* lwIP's timers for every width of the clock, list of cyclic timers and   *)
(* pool: no cyclic timer is lost, and the list, whose times wrap round,    *)
(* implements the abstract list of module Timers.                          *)
(***************************************************************************)
EXTENDS SysTimeouts, SequenceTheorems, FiniteSetTheorems, TLAPS

Q == W \div 4

\* How far ahead of now the timers in the list are due, and how long
\* sys_check_timeouts has been running.
Rel(i)  == Ahead(now, list[i].time)
Elapsed == (now - started) % W

\* A timer that runs has left the list, and nothing else counts as running.
Runs ==
  /\ pc = "run" => running \in Entry
  /\ pc \in {"init", "idle", "check"} => running = Nobody

\* The timers are in the order in which they are due, so near to now and to each other
\* that comparing their times modulo W tells which.  A rebased timer may be further
\* ahead than W / 4, by as much as the first one was late.
DueList ==
  /\ \A i \in 1 .. Len(list) : -Late <= Rel(i) /\ Rel(i) <= Q + Late
  /\ \A i, j \in 1 .. Len(list) : i < j => Rel(i) <= Rel(j)
  /\ \A i, j \in 1 .. Len(list) : Rel(j) - Rel(i) <= Q + Late

\* They are near to the time sys_check_timeouts began as well, and the timer that runs
\* was due then.
Checked ==
  /\ pc \in {"check", "run"} => \A i \in 1 .. Len(list) : Rel(i) + Elapsed <= Q + Late
  /\ pc = "run" => -Late <= Ahead(now, running.time)
                    /\ Ahead(now, running.time) + Elapsed <= 0

\* A timer that is not in the list, and one that is there once.
Absent(t) == \A i \in 1 .. Len(list) : list[i].id # t
Once(t)   == \E i \in 1 .. Len(list) : \A j \in 1 .. Len(list) : list[j].id = t <=> j = i

\* A timer that is running, off, or still to be set by sys_timeouts_init.
Missing(t) ==
  \/ running.id = t
  \/ t = "tcp" /\ ~active
  \/ pc = "init" /\ t \in Cyclic /\ \A k \in 1 .. Len(list) : CyclicTimers[k].id # t

Known(t) == (Missing(t) => Absent(t)) /\ (~Missing(t) => Once(t))

Kept ==
  pc # "abort" =>
    /\ \A t \in Cyclic \cup {"tcp"} : Known(t)
    /\ running.id = "tcp" => active

\* The abstract list.
AEntry == [id : Id, rel : Int]

-----------------------------------------------------------------------------
(* The clock: times modulo W.                                                *)

LEMMA Width == Q \in Nat /\ W = 4 * Q /\ W \div 2 = 2 * Q /\ Late \in Nat /\ Late < Q
<1>1. W \in Nat /\ W % 4 = 0 /\ Late \in Nat /\ Late + W \div 4 < W \div 2
  BY TimeoutsAssumption
<1> QED BY <1>1 DEF Q

\* What a difference of times, or a time and a delay, is modulo W.
LEMMA Modulo ==
  ASSUME NEW x \in Int, -W <= x, x < 2 * W
  PROVE  x % W \in Time /\ x % W = IF x < 0 THEN x + W ELSE IF x < W THEN x ELSE x - W
<1>1. W \in Nat \ {0}
  BY Width
<1>2. CASE x < 0
  BY <1>1, <1>2 DEF Time
<1>3. CASE 0 <= x /\ x < W
  BY <1>1, <1>3 DEF Time
<1>4. CASE W <= x
  BY <1>1, <1>4 DEF Time
<1> QED BY <1>1, <1>2, <1>3, <1>4

LEMMA Differ ==
  ASSUME NEW t \in Time, NEW u \in Time
  PROVE  /\ (t - u) % W \in Time /\ (t - u) % W \in Int
         /\ 0 <= (t - u) % W /\ (t - u) % W < W
         /\ (t - u) % W \in {t - u, t - u + W}
<1>1. PICK x \in Int : x = t - u /\ -W <= x /\ x < W
  BY Width DEF Time
<1>2. x % W \in Time /\ x % W \in {x, x + W}
  BY <1>1, Modulo, Width
<1>3. PICK d \in Time : d = x % W
  BY <1>2
<1>4. d \in Int /\ 0 <= d /\ d < W
  BY Width DEF Time
<1> QED BY <1>1, <1>2, <1>3, <1>4

LEMMA AheadRange ==
  ASSUME NEW c \in Time, NEW t \in Time
  PROVE  /\ Ahead(c, t) \in Int /\ -(2 * Q) <= Ahead(c, t) /\ Ahead(c, t) < 2 * Q
         /\ t \in {c + Ahead(c, t), c + Ahead(c, t) + W, c + Ahead(c, t) - W}
<1>1. c \in Int /\ t \in Int /\ 0 <= c /\ c < W /\ 0 <= t /\ t < W /\ W \in Nat
  BY Width DEF Time
<1>2. t - c \in Int /\ -W <= t - c /\ t - c < 2 * W
  BY <1>1
<1>3. PICK d \in Int : d = (t - c) % W
  BY <1>2, Modulo DEF Time
<1>4. d = IF t - c < 0 THEN t - c + W ELSE t - c
  BY <1>1, <1>2, <1>3, Modulo
<1>5. Ahead(c, t) = IF d < 2 * Q THEN d ELSE d - W
  BY <1>3, Width DEF Ahead
<1> QED BY <1>1, <1>4, <1>5, Width

\* The range and the difference determine Ahead.
LEMMA AheadIs ==
  ASSUME NEW c \in Time, NEW t \in Time, NEW x \in Int, -(2 * Q) <= x, x < 2 * Q,
         t \in {c + x, c + x + W, c + x - W}
  PROVE  Ahead(c, t) = x
<1>1. c \in Int /\ t \in Int /\ 0 <= c /\ c < W /\ 0 <= t /\ t < W
  BY Width DEF Time
<1>2. PICK a \in Int : a = Ahead(c, t)
  BY AheadRange
<1>3. -(2 * Q) <= a /\ a < 2 * Q /\ t \in {c + a, c + a + W, c + a - W}
  BY <1>2, AheadRange
<1>4. a = x
  BY <1>1, <1>3, Width
<1> QED BY <1>2, <1>4

\* Comparing two times is right while they are less than W / 2 apart.
LEMMA Less ==
  ASSUME NEW c \in Time, NEW t \in Time, NEW u \in Time,
         -(2 * Q) < Ahead(c, t) - Ahead(c, u), Ahead(c, t) - Ahead(c, u) < 2 * Q
  PROVE  TIME_LESS_THAN(t, u) <=> Ahead(c, t) < Ahead(c, u)
<1>1. /\ c \in Int /\ t \in Int /\ u \in Int /\ 0 <= c /\ c < W
      /\ 0 <= t /\ t < W /\ 0 <= u /\ u < W
  BY Width DEF Time
<1>2. PICK a \in Int, b \in Int : a = Ahead(c, t) /\ b = Ahead(c, u)
  BY AheadRange
<1>3. /\ t \in {c + a, c + a + W, c + a - W} /\ u \in {c + b, c + b + W, c + b - W}
      /\ -(2 * Q) < a - b /\ a - b < 2 * Q
  BY <1>2, AheadRange
<1>4. PICK d \in Int : d = (t - u) % W /\ d \in {t - u, t - u + W} /\ 0 <= d /\ d < W
  BY <1>1, Differ
<1>6. d > 2 * Q - 1 <=> a < b
  <2>1. t - u \in {a - b, a - b + W, a - b - W}
    BY <1>1, <1>3, Width
  <2> QED BY <1>1, <1>3, <1>4, <2>1, Width
<1> QED BY <1>2, <1>4, <1>6, Width DEF TIME_LESS_THAN

\* A time a delay behind t.
LEMMA Later ==
  ASSUME NEW c \in Time, NEW t \in Time, NEW d \in 0 .. Q, Ahead(c, t) + d < 2 * Q
  PROVE  (t + d) % W \in Time /\ Ahead(c, (t + d) % W) = Ahead(c, t) + d
<1>1. c \in Int /\ t \in Int /\ 0 <= c /\ c < W /\ 0 <= t /\ t < W /\ d \in Int
  BY Width DEF Time
<1>2. PICK a \in Int : a = Ahead(c, t)
  BY AheadRange
<1>3. -(2 * Q) <= a /\ a + d < 2 * Q /\ t \in {c + a, c + a + W, c + a - W}
  BY <1>2, AheadRange
<1>4. t + d \in Int /\ -W <= t + d /\ t + d < 2 * W
  BY <1>1, Width
<1>5. PICK u \in Time : u = (t + d) % W /\ u \in {t + d, t + d - W}
  <2>1. PICK x \in Int : x = t + d /\ 0 <= x /\ x < 2 * W /\ -W <= x
    BY <1>1, <1>4
  <2>2. x % W \in Time /\ x % W \in {x, x - W}
    BY <2>1, Modulo
  <2>3. PICK m \in Time : m = x % W
    BY <2>2
  <2>4. m \in {t + d, t + d - W}
    BY <1>1, <2>1, <2>2, <2>3, Width
  <2>5. m = (t + d) % W
    BY <2>1, <2>3, Zenon
  <2> QED BY <2>4, <2>5, Zenon
<1>6. u \in {c + (a + d), c + (a + d) + W, c + (a + d) - W}
  BY <1>1, <1>3, <1>5, Width DEF Time
<1>7. a + d \in Int /\ -(2 * Q) <= a + d
  BY <1>1, <1>3, Width
<1>8. Ahead(c, u) = a + d
  BY <1>3, <1>6, <1>7, AheadIs
<1> QED BY <1>2, <1>5, <1>8

LEMMA FromNow ==
  ASSUME NEW c \in Time, NEW d \in 0 .. Q
  PROVE  (c + d) % W \in Time /\ Ahead(c, (c + d) % W) = d
<1>1. c \in {c + 0, c + 0 + W, c + 0 - W} /\ -(2 * Q) <= 0 /\ 0 < 2 * Q
  BY Width DEF Time
<1>2. Ahead(c, c) = 0
  BY <1>1, AheadIs
<1>3. d < 2 * Q /\ d \in Int
  BY Width
<1> QED BY <1>2, <1>3, Later

\* A millisecond.
LEMMA Ticked ==
  ASSUME NEW c \in Time, NEW t \in Time, -(2 * Q) < Ahead(c, t)
  PROVE  (c + 1) % W \in Time /\ Ahead((c + 1) % W, t) = Ahead(c, t) - 1
<1>1. c \in Int /\ t \in Int /\ 0 <= c /\ c < W /\ 0 <= t /\ t < W
  BY Width DEF Time
<1>2. PICK a \in Int : a = Ahead(c, t)
  BY AheadRange
<1>3. -(2 * Q) < a /\ a < 2 * Q /\ t \in {c + a, c + a + W, c + a - W}
  BY <1>2, AheadRange
<1>4. PICK n \in Time : n = (c + 1) % W /\ n \in {c + 1, c + 1 - W}
  <2>1. PICK x \in Int : x = c + 1 /\ 0 <= x /\ x < 2 * W /\ -W <= x
    BY <1>1, Width
  <2>2. x % W \in Time /\ x % W \in {x, x - W}
    BY <2>1, Modulo
  <2>3. PICK m \in Time : m = x % W
    BY <2>2
  <2>4. m \in {c + 1, c + 1 - W}
    BY <1>1, <2>1, <2>2, <2>3, Width
  <2>5. m = (c + 1) % W
    BY <2>1, <2>3, Zenon
  <2> QED BY <2>4, <2>5, Zenon
<1>5. t \in {n + (a - 1), n + (a - 1) + W, n + (a - 1) - W}
  BY <1>1, <1>3, <1>4, Width DEF Time
<1>6. a - 1 \in Int /\ -(2 * Q) <= a - 1 /\ a - 1 < 2 * Q
  BY <1>3, Width
<1>7. Ahead(n, t) = a - 1
  BY <1>5, <1>6, AheadIs
<1> QED BY <1>2, <1>4, <1>7

\* A time read again from another reading of the clock.
LEMMA Rebased ==
  ASSUME NEW c \in Time, NEW t \in Time, NEW h \in Time, NEW n \in Time,
         -(2 * Q) <= Ahead(c, t) - Ahead(c, h), Ahead(c, t) - Ahead(c, h) < 2 * Q
  PROVE  (t - h + n) % W \in Time /\ Ahead(n, (t - h + n) % W) = Ahead(c, t) - Ahead(c, h)
<1>1. /\ c \in Int /\ t \in Int /\ h \in Int /\ n \in Int /\ 0 <= c /\ c < W
      /\ 0 <= t /\ t < W /\ 0 <= h /\ h < W /\ 0 <= n /\ n < W
  BY Width DEF Time
<1>2. PICK a \in Int, b \in Int : a = Ahead(c, t) /\ b = Ahead(c, h)
  BY AheadRange
<1>3. /\ t \in {c + a, c + a + W, c + a - W} /\ h \in {c + b, c + b + W, c + b - W}
      /\ -(2 * Q) <= a - b /\ a - b < 2 * Q
  BY <1>2, AheadRange
<1>4. PICK u \in Time : u = (t - h + n) % W /\ u \in {t - h + n, t - h + n + W, t - h + n - W}
  <2>1. PICK x \in Int : x = t - h + n /\ -W <= x /\ x < 2 * W
    BY <1>1, Width
  <2>2. x % W \in Time /\ x % W \in {x, x + W, x - W}
    BY <2>1, Modulo
  <2>3. PICK m \in Time : m = x % W
    BY <2>2
  <2>4. m \in {t - h + n, t - h + n + W, t - h + n - W}
    BY <1>1, <2>1, <2>2, <2>3, Width
  <2>5. m = (t - h + n) % W
    BY <2>1, <2>3, Zenon
  <2> QED BY <2>4, <2>5, Zenon
<1>5. u \in {n + (a - b), n + (a - b) + W, n + (a - b) - W}
  BY <1>1, <1>3, <1>4, Width DEF Time
<1>6. Ahead(n, u) = a - b
  BY <1>3, <1>5, AheadIs
<1> QED BY <1>2, <1>4, <1>6

\* A time read from an earlier reading of the clock.
LEMMA Earlier ==
  ASSUME NEW c \in Time, NEW s \in Time, NEW t \in Time, NEW e,
         e = (c - s) % W, Ahead(c, t) + e < 2 * Q
  PROVE  e \in Time /\ Ahead(s, t) = Ahead(c, t) + e
<1>1. /\ c \in Int /\ t \in Int /\ s \in Int /\ 0 <= c /\ c < W
      /\ 0 <= t /\ t < W /\ 0 <= s /\ s < W
  BY Width DEF Time
<1>2. PICK a \in Int : a = Ahead(c, t)
  BY AheadRange
<1>3. e \in Time /\ e \in {c - s, c - s + W}
  BY <1>1, Differ
<1>4. e \in Int /\ 0 <= e
  BY <1>3, Width DEF Time
<1>5. -(2 * Q) <= a /\ a < 2 * Q /\ t \in {c + a, c + a + W, c + a - W}
  BY <1>2, AheadRange
<1>6. a + e < 2 * Q
  BY <1>2, <1>3
<1>7. t \in {s + (a + e), s + (a + e) + W, s + (a + e) - W}
  <2>1. a + e >= 2 * Q - W
    BY <1>4, <1>5, Width
  <2> QED BY <1>1, <1>3, <1>4, <1>5, <1>6, <2>1, Width
<1>8. a + e \in Int /\ -(2 * Q) <= a + e
  BY <1>4, <1>5, Width
<1>9. Ahead(s, t) = a + e
  BY <1>6, <1>7, <1>8, AheadIs
<1> QED BY <1>2, <1>3, <1>9

-----------------------------------------------------------------------------
(* Sequences.                                                                *)

LEMMA Inserted ==
  ASSUME NEW S, NEW s \in Seq(S), NEW k \in 1 .. Len(s) + 1, NEW e \in S
  PROVE  /\ InsertAt(s, k, e) \in Seq(S) /\ Len(InsertAt(s, k, e)) = Len(s) + 1
         /\ \A i \in 1 .. Len(s) + 1 :
              InsertAt(s, k, e)[i] = IF i < k THEN s[i] ELSE IF i = k THEN e ELSE s[i - 1]
<1>1. PICK n \in Nat : n = Len(s)
  BY LenProperties
<1>2. \A i \in 1 .. n : s[i] \in S
  BY <1>1, ElementOfSeq
<1>3. PICK a : a = SubSeq(s, 1, k - 1)
  OBVIOUS
<1>4. PICK b : b = SubSeq(s, k, n)
  OBVIOUS
<1>5. k \in Int /\ k - 1 \in Int /\ 1 <= k /\ k <= n + 1
  BY <1>1
<1>6. a \in Seq(S) /\ Len(a) = k - 1 /\ \A i \in 1 .. k - 1 : a[i] = s[i]
  <2>1. \A i \in 1 .. k - 1 : s[i] \in S
    BY <1>2, <1>5
  <2>2. /\ SubSeq(s, 1, k - 1) \in Seq(S)
        /\ Len(SubSeq(s, 1, k - 1)) = IF 1 <= k - 1 THEN (k - 1) - 1 + 1 ELSE 0
        /\ \A i \in 1 .. (k - 1) - 1 + 1 : SubSeq(s, 1, k - 1)[i] = s[1 + i - 1]
    BY <1>5, <2>1, SubSeqProperties
  <2> QED BY <1>3, <1>5, <2>2
<1>7. b \in Seq(S) /\ Len(b) = n - k + 1 /\ \A i \in 1 .. n - k + 1 : b[i] = s[k + i - 1]
  <2>1. \A i \in k .. n : s[i] \in S
    BY <1>2, <1>5
  <2>2. /\ SubSeq(s, k, n) \in Seq(S)
        /\ Len(SubSeq(s, k, n)) = IF k <= n THEN n - k + 1 ELSE 0
        /\ \A i \in 1 .. n - k + 1 : SubSeq(s, k, n)[i] = s[k + i - 1]
    BY <1>1, <1>5, <2>1, SubSeqProperties
  <2> QED BY <1>4, <1>5, <2>2
<1>8. PICK c \in Seq(S) : c = << e >> /\ Len(c) = 1 /\ c[1] = e
  <2>1. << e >> \in Seq(S)
    OBVIOUS
  <2>2. Len(<< e >>) = 1 /\ << e >>[1] = e
    OBVIOUS
  <2> QED BY <2>1, <2>2, Zenon
<1>9. PICK ac : ac = a \o c
  OBVIOUS
<1>10. /\ ac \in Seq(S) /\ Len(ac) = k
       /\ \A i \in 1 .. k : ac[i] = IF i <= k - 1 THEN a[i] ELSE c[i - (k - 1)]
  BY <1>5, <1>6, <1>8, <1>9, ConcatProperties
<1>11. /\ ac \o b \in Seq(S) /\ Len(ac \o b) = n + 1
       /\ \A i \in 1 .. n + 1 : (ac \o b)[i] = IF i <= k THEN ac[i] ELSE b[i - k]
  <2>1. /\ ac \o b \in Seq(S) /\ Len(ac \o b) = Len(ac) + Len(b)
        /\ \A i \in 1 .. Len(ac) + Len(b) :
             (ac \o b)[i] = IF i <= Len(ac) THEN ac[i] ELSE b[i - Len(ac)]
    BY <1>7, <1>10, ConcatProperties
  <2>2. Len(ac) + Len(b) = n + 1
    BY <1>5, <1>7, <1>10
  <2> QED BY <2>1, <2>2, <1>7, <1>10
<1>12. InsertAt(s, k, e) = ac \o b
  BY <1>1, <1>3, <1>4, <1>8, <1>9 DEF InsertAt
<1>13. ASSUME NEW i \in 1 .. n + 1
       PROVE  (ac \o b)[i] = IF i < k THEN s[i] ELSE IF i = k THEN e ELSE s[i - 1]
  <2>1. CASE i < k
    BY <1>5, <1>6, <1>10, <1>11, <2>1
  <2>2. CASE i = k
    <3>1. i - (k - 1) = 1 /\ ~(i <= k - 1) /\ i \in 1 .. k
      BY <1>5, <2>2
    <3> QED BY <1>8, <1>10, <1>11, <2>2, <3>1
  <2>3. CASE i > k
    <3>1. PICK j \in 1 .. n - k + 1 : j = i - k
      BY <1>5, <2>3
    <3>2. k + j - 1 = i - 1
      BY <1>5, <3>1
    <3> QED BY <1>5, <1>7, <1>11, <2>3, <3>1, <3>2
  <2>4. i < k \/ i = k \/ i > k
    BY <1>5
  <2> QED BY <2>1, <2>2, <2>3, <2>4, Zenon
<1> QED BY <1>1, <1>11, <1>12, <1>13

LEMMA Removed ==
  ASSUME NEW S, NEW s \in Seq(S), NEW k \in 1 .. Len(s)
  PROVE  /\ RemoveAt(s, k) \in Seq(S) /\ Len(RemoveAt(s, k)) = Len(s) - 1
         /\ \A i \in 1 .. Len(s) - 1 : RemoveAt(s, k)[i] = IF i < k THEN s[i] ELSE s[i + 1]
<1>1. PICK n \in Nat : n = Len(s)
  BY LenProperties
<1>2. \A i \in 1 .. n : s[i] \in S
  BY <1>1, ElementOfSeq
<1>3. PICK a : a = SubSeq(s, 1, k - 1)
  OBVIOUS
<1>4. PICK b : b = SubSeq(s, k + 1, n)
  OBVIOUS
<1>5. k \in Int /\ k - 1 \in Int /\ k + 1 \in Int /\ 1 <= k /\ k <= n
  BY <1>1
<1>6. a \in Seq(S) /\ Len(a) = k - 1 /\ \A i \in 1 .. k - 1 : a[i] = s[i]
  <2>1. \A i \in 1 .. k - 1 : s[i] \in S
    BY <1>2, <1>5
  <2>2. /\ SubSeq(s, 1, k - 1) \in Seq(S)
        /\ Len(SubSeq(s, 1, k - 1)) = IF 1 <= k - 1 THEN (k - 1) - 1 + 1 ELSE 0
        /\ \A i \in 1 .. (k - 1) - 1 + 1 : SubSeq(s, 1, k - 1)[i] = s[1 + i - 1]
    BY <1>5, <2>1, SubSeqProperties
  <2> QED BY <1>3, <1>5, <2>2
<1>7. b \in Seq(S) /\ Len(b) = n - k /\ \A i \in 1 .. n - k : b[i] = s[k + i]
  <2>1. \A i \in k + 1 .. n : s[i] \in S
    BY <1>2, <1>5
  <2>2. /\ SubSeq(s, k + 1, n) \in Seq(S)
        /\ Len(SubSeq(s, k + 1, n)) = IF k + 1 <= n THEN n - (k + 1) + 1 ELSE 0
        /\ \A i \in 1 .. n - (k + 1) + 1 : SubSeq(s, k + 1, n)[i] = s[(k + 1) + i - 1]
    BY <1>1, <1>5, <2>1, SubSeqProperties
  <2> QED BY <1>4, <1>5, <2>2
<1>8. /\ a \o b \in Seq(S) /\ Len(a \o b) = n - 1
      /\ \A i \in 1 .. n - 1 : (a \o b)[i] = IF i <= k - 1 THEN a[i] ELSE b[i - (k - 1)]
  <2>1. /\ a \o b \in Seq(S) /\ Len(a \o b) = Len(a) + Len(b)
        /\ \A i \in 1 .. Len(a) + Len(b) :
             (a \o b)[i] = IF i <= Len(a) THEN a[i] ELSE b[i - Len(a)]
    BY <1>6, <1>7, ConcatProperties
  <2>2. Len(a) + Len(b) = n - 1
    BY <1>5, <1>6, <1>7
  <2> QED BY <2>1, <2>2, <1>6, <1>7
<1>9. RemoveAt(s, k) = a \o b
  BY <1>1, <1>3, <1>4 DEF RemoveAt
<1>10. ASSUME NEW i \in 1 .. n - 1
       PROVE  (a \o b)[i] = IF i < k THEN s[i] ELSE s[i + 1]
  <2>1. CASE i < k
    BY <1>5, <1>6, <1>8, <2>1
  <2>2. CASE i >= k
    <3>1. PICK j \in 1 .. n - k : j = i - (k - 1)
      BY <1>5, <2>2
    <3>2. k + j = i + 1
      BY <1>5, <3>1
    <3> QED BY <1>5, <1>7, <1>8, <2>2, <3>1, <3>2
  <2>3. i < k \/ i >= k
    BY <1>5
  <2> QED BY <2>1, <2>2, <2>3, Zenon
<1> QED BY <1>1, <1>8, <1>9, <1>10

LEMMA Least ==
  ASSUME NEW S, S \subseteq Nat, S # {}
  PROVE  \E x \in S : \A y \in S : x <= y
<1>1. PICK x \in S : \A y \in S : ~(<< y, x >> \in OpToRel(<, Nat))
  BY WFMin, NatLessThanWellFounded
<1>2. \A y \in S : ~(y < x)
  BY <1>1 DEF OpToRel
<1> QED BY <1>2

\* The place where sys_timeout_abs puts a timer.
LEMMA Place ==
  ASSUME NEW l \in Seq(Entry), NEW e
  PROVE  \E k \in 1 .. Len(l) + 1 :
           /\ Insert(l, e) = InsertAt(l, k, e)
           /\ \A j \in 1 .. k - 1 : ~TIME_LESS_THAN(e.time, l[j].time)
           /\ k <= Len(l) => TIME_LESS_THAN(e.time, l[k].time)
<1>1. Len(l) \in Nat /\ DOMAIN l = 1 .. Len(l)
  BY LenProperties
<1> DEFINE later == {i \in DOMAIN l : TIME_LESS_THAN(e.time, l[i].time)}
<1>2. CASE later = {}
  <2>1. Insert(l, e) = InsertAt(l, Len(l) + 1, e)
    BY <1>2 DEF Insert
  <2>2. Len(l) + 1 \in 1 .. Len(l) + 1 /\ ~(Len(l) + 1 <= Len(l))
    BY <1>1
  <2>3. \A j \in 1 .. Len(l) + 1 - 1 : j \in DOMAIN l
    BY <1>1
  <2>4. \A j \in 1 .. Len(l) + 1 - 1 : ~TIME_LESS_THAN(e.time, l[j].time)
    BY <1>2, <2>3, Zenon
  <2> QED BY <2>1, <2>2, <2>4
<1>3. CASE later # {}
  <2> DEFINE at == CHOOSE i \in later : \A j \in later : i <= j
  <2>1. at \in later /\ \A j \in later : at <= j
    <3>1. later \subseteq Nat
      BY <1>1
    <3>2. \E i \in later : \A j \in later : i <= j
      BY <1>3, <3>1, Least
    <3> QED BY <3>2, Zenon
  <2>2. Insert(l, e) = InsertAt(l, at, e)
    BY <1>3 DEF Insert
  <2> HIDE DEF at
  <2>3. at \in 1 .. Len(l) /\ TIME_LESS_THAN(e.time, l[at].time)
    BY <1>1, <2>1
  <2>4. ASSUME NEW j \in 1 .. at - 1 PROVE ~TIME_LESS_THAN(e.time, l[j].time)
    <3>1. j \in DOMAIN l /\ ~(at <= j)
      BY <1>1, <2>3
    <3> QED BY <2>1, <3>1
  <2>5. at \in 1 .. Len(l) + 1
    BY <1>1, <2>3
  <2> QED BY <2>2, <2>3, <2>4, <2>5
<1> QED BY <1>2, <1>3

-----------------------------------------------------------------------------
(* The list and the abstract list.                                           *)

LEMMA Rels ==
  ASSUME TypeOK
  PROVE  /\ Len(list) \in Nat /\ DOMAIN list = 1 .. Len(list)
         /\ \A i \in 1 .. Len(list) :
              list[i] \in Entry /\ list[i].id \in Id /\ list[i].time \in Time /\ Rel(i) \in Int
<1>1. list \in Seq(Entry) /\ now \in Time
  BY DEF TypeOK
<1>2. Len(list) \in Nat /\ DOMAIN list = 1 .. Len(list)
  BY <1>1, LenProperties
<1>3. ASSUME NEW i \in 1 .. Len(list)
      PROVE  list[i] \in Entry /\ list[i].id \in Id /\ list[i].time \in Time /\ Rel(i) \in Int
  <2>1. list[i] \in Entry
    BY <1>1, ElementOfSeq
  <2>2. list[i].id \in Id /\ list[i].time \in Time
    BY <2>1 DEF Entry
  <2> QED BY <1>1, <2>1, <2>2, AheadRange DEF Rel
<1> QED BY <1>2, <1>3

\* A function on 1 .. n is a sequence of length n.
LEMMA Listed ==
  ASSUME NEW S, NEW n \in Nat, NEW f \in [1 .. n -> S]
  PROVE  f \in Seq(S) /\ Len(f) = n
<1>1. f \in Seq(S)
  BY SeqDef
<1>2. Len(f) \in Nat /\ DOMAIN f = 1 .. Len(f)
  BY <1>1, LenProperties
<1>3. 1 .. Len(f) = 1 .. n
  BY <1>2
<1>4. \A m \in Nat : 1 .. m = 1 .. n => m = n
  <2> SUFFICES ASSUME NEW m \in Nat, 1 .. m = 1 .. n PROVE m = n
    OBVIOUS
  <2>1. m > 0 => m \in 1 .. n
    OBVIOUS
  <2>2. n > 0 => n \in 1 .. m
    OBVIOUS
  <2> QED BY <2>1, <2>2
<1> QED BY <1>1, <1>2, <1>3, <1>4

LEMMA Pend ==
  ASSUME NEW l \in Seq(Entry), NEW c \in Time
  PROVE  /\ Pending(l, c) \in Seq(AEntry) /\ Len(Pending(l, c)) = Len(l) /\ Len(l) \in Nat
         /\ DOMAIN Pending(l, c) = 1 .. Len(l)
         /\ \A i \in 1 .. Len(l) :
              /\ Pending(l, c)[i] = [id |-> l[i].id, rel |-> Ahead(c, l[i].time)]
              /\ Pending(l, c)[i].id = l[i].id /\ Pending(l, c)[i].rel = Ahead(c, l[i].time)
<1>1. PICK n \in Nat : n = Len(l) /\ DOMAIN l = 1 .. n
  BY LenProperties
<1>2. Pending(l, c) = [i \in 1 .. n |-> [id |-> l[i].id, rel |-> Ahead(c, l[i].time)]]
  BY <1>1 DEF Pending
<1>3. ASSUME NEW i \in 1 .. n
      PROVE  [id |-> l[i].id, rel |-> Ahead(c, l[i].time)] \in AEntry
  <2>1. l[i] \in Entry
    BY <1>1, ElementOfSeq
  <2>2. l[i].id \in Id /\ l[i].time \in Time
    BY <2>1 DEF Entry
  <2> QED BY <2>2, AheadRange DEF AEntry
<1>4. Pending(l, c) \in [1 .. n -> AEntry]
  BY <1>2, <1>3
<1>5. Pending(l, c) \in Seq(AEntry) /\ Len(Pending(l, c)) = n
  BY <1>4, Listed
<1> QED BY <1>1, <1>2, <1>5

\* A list of timers that are due where l's are, but for the timer put in at k.
Extends(k, e) ==
  /\ k \in 1 .. Len(list) + 1
  /\ Len(list') = Len(list) + 1
  /\ \A i \in 1 .. Len(list) + 1 :
       list'[i] = IF i < k THEN list[i] ELSE IF i = k THEN e ELSE list[i - 1]

\* sys_timeout_abs puts a timer that is due within W / 4 behind those due no later.
LEMMA AddPlace ==
  ASSUME TypeOK, DueList, NEW e \in Entry, Ahead(now, e.time) \in 0 .. Q, list' = Insert(list, e)
  PROVE  /\ list' \in Seq(Entry)
         /\ \E k \in 1 .. Len(list) + 1 :
              /\ list' = InsertAt(list, k, e) /\ Extends(k, e)
              /\ \A j \in 1 .. Len(list) : IF j < k THEN Rel(j) <= Ahead(now, e.time)
                                           ELSE Ahead(now, e.time) < Rel(j)
<1>1. PICK n \in Nat : n = Len(list)
  BY Rels
<1>2. list \in Seq(Entry) /\ now \in Time /\ e.time \in Time
  BY DEF TypeOK, Entry
<1>3. PICK d \in 0 .. Q : d = Ahead(now, e.time)
  OBVIOUS
<1>4. PICK k \in 1 .. n + 1 :
        /\ Insert(list, e) = InsertAt(list, k, e)
        /\ \A j \in 1 .. k - 1 : ~TIME_LESS_THAN(e.time, list[j].time)
        /\ k <= n => TIME_LESS_THAN(e.time, list[k].time)
  BY <1>1, <1>2, Place
<1>5. ASSUME NEW j \in 1 .. n
      PROVE  Rel(j) \in Int /\ (TIME_LESS_THAN(e.time, list[j].time) <=> d < Rel(j))
  <2>1. list[j].time \in Time /\ Rel(j) \in Int
    BY <1>1, Rels
  <2>2. -Late <= Rel(j) /\ Rel(j) <= Q + Late
    BY <1>1 DEF DueList
  <2>3. PICK r \in Int : r = Rel(j)
    BY <2>1
  <2>4. -(2 * Q) < d - r /\ d - r < 2 * Q
    BY <2>2, <2>3, Width
  <2>5. r = Ahead(now, list[j].time)
    BY <2>3 DEF Rel
  <2>6. TIME_LESS_THAN(e.time, list[j].time) <=> d < r
    BY <1>2, <1>3, <2>1, <2>4, <2>5, Less
  <2> QED BY <2>1, <2>3, <2>6
<1>6. ASSUME NEW j \in 1 .. n PROVE IF j < k THEN Rel(j) <= d ELSE d < Rel(j)
  <2>1. CASE j < k
    <3>1. j \in 1 .. k - 1
      BY <2>1
    <3> QED BY <1>4, <1>5, <2>1, <3>1
  <2>2. CASE j >= k
    <3>1. k \in 1 .. n
      BY <2>2
    <3>2. d < Rel(k) /\ Rel(k) \in Int /\ Rel(j) \in Int
      BY <1>4, <1>5, <3>1
    <3>3. j = k \/ Rel(k) <= Rel(j)
      BY <1>1, <2>2, <3>1 DEF DueList
    <3>4. d < Rel(j)
      BY <3>2, <3>3
    <3> QED BY <2>2, <3>4
  <2>3. j < k \/ j >= k
    OBVIOUS
  <2> QED BY <2>1, <2>2, <2>3, Zenon
<1>7. /\ InsertAt(list, k, e) \in Seq(Entry) /\ Len(InsertAt(list, k, e)) = n + 1
      /\ \A i \in 1 .. n + 1 : InsertAt(list, k, e)[i] =
           IF i < k THEN list[i] ELSE IF i = k THEN e ELSE list[i - 1]
  BY <1>1, <1>2, <1>4, Inserted
<1>8. list' = InsertAt(list, k, e)
  BY <1>4
<1>9. Extends(k, e)
  BY <1>1, <1>7, <1>8 DEF Extends
<1> QED BY <1>1, <1>3, <1>6, <1>7, <1>8, <1>9

\* What an insertion in order does to numbers in order and less than m apart.
LEMMA InOrder ==
  ASSUME NEW n \in Nat, NEW k \in 1 .. n + 1, NEW d \in Int, NEW m \in Int,
         NEW f \in [1 .. n -> Int], NEW g \in [1 .. n + 1 -> Int],
         \A i \in 1 .. n + 1 : g[i] = IF i < k THEN f[i] ELSE IF i = k THEN d ELSE f[i - 1],
         \A i, j \in 1 .. n : i < j => f[i] <= f[j],
         \A i, j \in 1 .. n : f[j] - f[i] <= m,
         \A i \in 1 .. n : d - f[i] <= m /\ f[i] - d <= m,
         0 <= m,
         \A j \in 1 .. n : IF j < k THEN f[j] <= d ELSE d < f[j]
  PROVE  /\ \A i, j \in 1 .. n + 1 : i < j => g[i] <= g[j]
         /\ \A i, j \in 1 .. n + 1 : g[j] - g[i] <= m
<1>1. ASSUME NEW i \in 1 .. n + 1
      PROVE  \/ i < k /\ i \in 1 .. n /\ g[i] = f[i]
             \/ i = k /\ g[i] = d
             \/ i > k /\ i - 1 \in 1 .. n /\ g[i] = f[i - 1]
  OBVIOUS
<1>2. ASSUME NEW i \in 1 .. n + 1, NEW j \in 1 .. n + 1, i < j PROVE g[i] <= g[j]
  <2>1. CASE i < k
    <3>1. i \in 1 .. n /\ g[i] = f[i] /\ f[i] <= d /\ f[i] \in Int
      BY <2>1
    <3>2. CASE j < k
      BY <1>1, <1>2, <3>1, <3>2
    <3>3. CASE j = k
      BY <1>1, <3>1, <3>3
    <3>4. CASE j > k
      <4>1. j - 1 \in 1 .. n /\ g[j] = f[j - 1] /\ d < f[j - 1] /\ f[j - 1] \in Int
        BY <1>1, <3>4
      <4> QED BY <3>1, <4>1
    <3> QED BY <3>2, <3>3, <3>4
  <2>2. CASE i = k
    <3>1. j - 1 \in 1 .. n /\ ~(j - 1 < k) /\ g[j] = f[j - 1] /\ g[i] = d
      BY <1>1, <1>2, <2>2
    <3> QED BY <3>1
  <2>3. CASE i > k
    <3>1. i - 1 \in 1 .. n /\ j - 1 \in 1 .. n /\ i - 1 < j - 1
          /\ g[i] = f[i - 1] /\ g[j] = f[j - 1]
      BY <1>1, <1>2, <2>3
    <3> QED BY <3>1
  <2> QED BY <2>1, <2>2, <2>3
<1>3. ASSUME NEW i \in 1 .. n + 1, NEW j \in 1 .. n + 1 PROVE g[j] - g[i] <= m
  <2>1. (\E a \in 1 .. n : g[i] = f[a]) \/ g[i] = d
    BY <1>1
  <2>2. (\E b \in 1 .. n : g[j] = f[b]) \/ g[j] = d
    BY <1>1
  <2> QED BY <2>1, <2>2
<1> QED BY <1>2, <1>3

\* It keeps the list in order, and is the abstract list's Set.
LEMMA AddDue ==
  ASSUME TypeOK, DueList, NEW e \in Entry, Ahead(now, e.time) \in 0 .. Q,
         list' = Insert(list, e), now' = now
  PROVE  /\ list' \in Seq(Entry) /\ DueList'
         /\ Abstract!Set([id |-> e.id, rel |-> Ahead(now, e.time)])
         /\ Len(Pending(list', now')) = Len(Pending(list, now)) + 1
         /\ \A i \in 1 .. Len(list') :
              Rel(i)' = Ahead(now, e.time) \/ \E j \in 1 .. Len(list) : Rel(i)' = Rel(j)
<1>1. PICK n \in Nat : n = Len(list)
  BY Rels
<1>2. PICK d \in 0 .. Q : d = Ahead(now, e.time)
  OBVIOUS
<1>3. PICK k \in 1 .. n + 1 :
        /\ list' = InsertAt(list, k, e) /\ Extends(k, e)
        /\ \A j \in 1 .. n : IF j < k THEN Rel(j) <= d ELSE d < Rel(j)
  BY <1>1, <1>2, AddPlace
<1>4. list' \in Seq(Entry) /\ Len(list') = n + 1
  BY <1>1, <1>3, AddPlace DEF Extends
<1>5. ASSUME NEW i \in 1 .. n + 1
      PROVE  Rel(i)' = IF i < k THEN Rel(i) ELSE IF i = k THEN d ELSE Rel(i - 1)
  <2>1. list'[i] = IF i < k THEN list[i] ELSE IF i = k THEN e ELSE list[i - 1]
    BY <1>1, <1>3 DEF Extends
  <2> QED BY <1>2, <2>1 DEF Rel
<1>6. \A i \in 1 .. n : Rel(i) \in Int /\ -Late <= Rel(i) /\ Rel(i) <= Q + Late
  BY <1>1, Rels DEF DueList
<1>7. ASSUME NEW i \in 1 .. n + 1
      PROVE  /\ i < k => i \in 1 .. n
             /\ i > k => i - 1 \in 1 .. n
  OBVIOUS
<1>8. ASSUME NEW i \in 1 .. n + 1
      PROVE  \/ i < k /\ i \in 1 .. n /\ Rel(i)' = Rel(i)
             \/ i = k /\ Rel(i)' = d
             \/ i > k /\ i - 1 \in 1 .. n /\ Rel(i)' = Rel(i - 1)
  BY <1>5, <1>7
<1>9. DueList'
  <2>1. ASSUME NEW i \in 1 .. n + 1
        PROVE  Rel(i)' \in Int /\ -Late <= Rel(i)' /\ Rel(i)' <= Q + Late
    BY <1>6, <1>8, Width
  <2>2. PICK f \in [1 .. n -> Int] : \A i \in 1 .. n : f[i] = Rel(i)
    <3>1. [i \in 1 .. n |-> Rel(i)] \in [1 .. n -> Int]
      BY <1>6
    <3> QED BY <3>1
  <2>3. PICK g \in [1 .. n + 1 -> Int] : \A i \in 1 .. n + 1 : g[i] = Rel(i)'
    <3>1. [i \in 1 .. n + 1 |-> Rel(i)'] \in [1 .. n + 1 -> Int]
      BY <2>1
    <3> QED BY <3>1
  <2>4. \A i \in 1 .. n + 1 : g[i] = IF i < k THEN f[i] ELSE IF i = k THEN d ELSE f[i - 1]
    BY <1>8, <2>2, <2>3
  <2>5. /\ \A i, j \in 1 .. n : i < j => f[i] <= f[j]
        /\ \A i, j \in 1 .. n : f[j] - f[i] <= Q + Late
    BY <1>1, <2>2 DEF DueList
  <2>6. \A i \in 1 .. n : d - f[i] <= Q + Late /\ f[i] - d <= Q + Late
    BY <1>6, <2>2, Width
  <2>7. \A j \in 1 .. n : IF j < k THEN f[j] <= d ELSE d < f[j]
    BY <1>3, <2>2
  <2>8. Q + Late \in Int /\ 0 <= Q + Late /\ d \in Int
    BY Width
  <2>9. /\ \A i, j \in 1 .. n + 1 : i < j => g[i] <= g[j]
        /\ \A i, j \in 1 .. n + 1 : g[j] - g[i] <= Q + Late
    BY <2>4, <2>5, <2>6, <2>7, <2>8, InOrder
  <2>10. \A i, j \in 1 .. n + 1 : i < j => Rel(i)' <= Rel(j)'
    BY <2>3, <2>9
  <2>11. \A i, j \in 1 .. n + 1 : Rel(j)' - Rel(i)' <= Q + Late
    BY <2>3, <2>9
  <2> QED BY <1>4, <2>1, <2>10, <2>11 DEF DueList
<1>10. \A i \in 1 .. Len(list') : Rel(i)' = d \/ \E j \in 1 .. Len(list) : Rel(i)' = Rel(j)
  BY <1>1, <1>4, <1>8
<1>11. PICK p \in Seq(AEntry) :
        /\ p = Pending(list, now) /\ Len(p) = n /\ DOMAIN p = 1 .. n
        /\ \A i \in 1 .. n : p[i] = [id |-> list[i].id, rel |-> Rel(i)] /\ p[i].rel = Rel(i)
  BY <1>1, Pend DEF TypeOK, Rel
<1>12. PICK q \in Seq(AEntry) :
        /\ q = Pending(list', now') /\ Len(q) = n + 1
        /\ \A i \in 1 .. n + 1 : q[i] = [id |-> list'[i].id, rel |-> Rel(i)']
  BY <1>4, Pend DEF TypeOK, Rel
<1>13. Abstract!Set([id |-> e.id, rel |-> d])
  <2>1. \A j \in 1 .. n : p[j].rel <= d <=> j < k
    BY <1>3, <1>6, <1>11
  <2>2. PICK t \in AEntry : t = [id |-> e.id, rel |-> d]
    <3>1. e.id \in Id /\ d \in Int
      BY DEF Entry
    <3>2. [id |-> e.id, rel |-> d] \in AEntry
      BY <3>1 DEF AEntry
    <3> QED BY <3>2
  <2>3. t.rel = d
    BY <2>2
  <2>4. /\ InsertAt(p, k, t) \in Seq(AEntry) /\ Len(InsertAt(p, k, t)) = n + 1
        /\ \A i \in 1 .. n + 1 :
             InsertAt(p, k, t)[i] = IF i < k THEN p[i] ELSE IF i = k THEN t ELSE p[i - 1]
    <3>1. k \in 1 .. Len(p) + 1
      BY <1>11
    <3>2. /\ InsertAt(p, k, t) \in Seq(AEntry) /\ Len(InsertAt(p, k, t)) = Len(p) + 1
          /\ \A i \in 1 .. Len(p) + 1 :
               InsertAt(p, k, t)[i] = IF i < k THEN p[i] ELSE IF i = k THEN t ELSE p[i - 1]
      BY <3>1, Inserted
    <3> QED BY <1>11, <3>2
  <2>5. ASSUME NEW i \in 1 .. n + 1 PROVE q[i] = InsertAt(p, k, t)[i]
    <3>1. list'[i] = IF i < k THEN list[i] ELSE IF i = k THEN e ELSE list[i - 1]
      BY <1>1, <1>3 DEF Extends
    <3>2. CASE i < k
      <4>1. i \in 1 .. n /\ Rel(i)' = Rel(i) /\ list'[i] = list[i]
        BY <1>8, <3>1, <3>2
      <4>2. InsertAt(p, k, t)[i] = p[i]
        BY <2>4, <3>2
      <4> QED BY <1>11, <1>12, <4>1, <4>2
    <3>3. CASE i = k
      BY <1>8, <1>12, <2>2, <2>4, <3>1, <3>3
    <3>4. CASE i > k
      <4>1. i - 1 \in 1 .. n /\ Rel(i)' = Rel(i - 1) /\ list'[i] = list[i - 1]
        BY <1>8, <3>1, <3>4
      <4>2. InsertAt(p, k, t)[i] = p[i - 1]
        BY <2>4, <3>4
      <4> QED BY <1>11, <1>12, <4>1, <4>2
    <3> QED BY <3>2, <3>3, <3>4
  <2>6. q = InsertAt(p, k, t)
    BY <1>12, <2>4, <2>5, SeqEqual
  <2>7. k \in 1 .. Len(p) + 1 /\ \A j \in DOMAIN p : p[j].rel <= t.rel <=> j < k
    BY <1>11, <2>1, <2>3
  <2> QED BY <1>11, <1>12, <2>2, <2>6, <2>7 DEF Abstract!Set, Abstract!InsertAt, InsertAt
<1>14. Len(Pending(list', now')) = Len(Pending(list, now)) + 1
  BY <1>11, <1>12
<1> QED BY <1>2, <1>4, <1>9, <1>10, <1>13, <1>14

\* The abstract list as a sequence, before a step and after it.
LEMMA PendNow ==
  ASSUME TypeOK
  PROVE  \E p \in Seq(AEntry) :
           /\ p = Pending(list, now) /\ Len(p) = Len(list) /\ DOMAIN p = 1 .. Len(list)
           /\ \A i \in 1 .. Len(list) :
                p[i] = [id |-> list[i].id, rel |-> Rel(i)] /\ p[i].id = list[i].id /\ p[i].rel = Rel(i)
BY Pend DEF TypeOK, Rel

LEMMA PendNext ==
  ASSUME list' \in Seq(Entry), now' \in Time
  PROVE  \E q \in Seq(AEntry) :
           /\ q = Pending(list', now') /\ Len(q) = Len(list') /\ DOMAIN q = 1 .. Len(list')
           /\ \A i \in 1 .. Len(list') : q[i] = [id |-> list'[i].id, rel |-> Rel(i)']
BY Pend DEF Rel

\* Timers that leave the list leave the others in order.
LEMMA LeaveDue ==
  ASSUME TypeOK, DueList, list' \in Seq(Entry), now' = now,
         NEW h \in [1 .. Len(list') -> 1 .. Len(list)],
         \A i, j \in 1 .. Len(list') : i < j => h[i] < h[j],
         \A i \in 1 .. Len(list') : list'[i] = list[h[i]]
  PROVE  DueList' /\ \A i \in 1 .. Len(list') : Rel(i)' = Rel(h[i])
<1>1. \A i \in 1 .. Len(list') : h[i] \in 1 .. Len(list) /\ Rel(i)' = Rel(h[i])
  BY DEF Rel
<1> QED BY <1>1 DEF DueList

\* sys_untimeout is the abstract list's Cancel.
LEMMA CancelDue ==
  ASSUME TypeOK, DueList, NEW k \in 1 .. Len(list), list' = RemoveAt(list, k), now' = now
  PROVE  /\ list' \in Seq(Entry) /\ DueList'
         /\ \A i \in 1 .. Len(list') : \E j \in 1 .. Len(list) : Rel(i)' = Rel(j)
         /\ (\A j \in 1 .. k - 1 : list[j].id # list[k].id) => Abstract!Cancel(list[k].id)
<1>1. PICK n \in Nat : n = Len(list)
  BY Rels
<1>2. /\ list' \in Seq(Entry) /\ Len(list') = n - 1
      /\ \A i \in 1 .. n - 1 : list'[i] = IF i < k THEN list[i] ELSE list[i + 1]
  BY <1>1, Removed DEF TypeOK
<1>3. PICK h \in [1 .. n - 1 -> 1 .. n] : \A i \in 1 .. n - 1 : h[i] = IF i < k THEN i ELSE i + 1
  <2>1. [i \in 1 .. n - 1 |-> IF i < k THEN i ELSE i + 1] \in [1 .. n - 1 -> 1 .. n]
    BY <1>1
  <2> QED BY <2>1
<1>4. \A i, j \in 1 .. n - 1 : i < j => h[i] < h[j]
  BY <1>1, <1>3
<1>5. \A i \in 1 .. n - 1 : list'[i] = list[h[i]]
  BY <1>2, <1>3
<1>6. DueList' /\ \A i \in 1 .. n - 1 : Rel(i)' = Rel(h[i])
  BY <1>1, <1>2, <1>3, <1>4, <1>5, LeaveDue
<1>7. \A i \in 1 .. Len(list') : \E j \in 1 .. Len(list) : Rel(i)' = Rel(j)
  BY <1>1, <1>2, <1>3, <1>6
<1>8. ASSUME \A j \in 1 .. k - 1 : list[j].id # list[k].id PROVE Abstract!Cancel(list[k].id)
  <2>1. PICK p \in Seq(AEntry) :
          /\ p = Pending(list, now) /\ Len(p) = n /\ DOMAIN p = 1 .. n
          /\ \A i \in 1 .. n : p[i] = [id |-> list[i].id, rel |-> Rel(i)] /\ p[i].id = list[i].id
    BY <1>1, PendNow
  <2>2. PICK q \in Seq(AEntry) :
          /\ q = Pending(list', now') /\ Len(q) = n - 1
          /\ \A i \in 1 .. n - 1 : q[i] = [id |-> list'[i].id, rel |-> Rel(i)']
    BY <1>2, PendNext DEF TypeOK
  <2>3. k \in 1 .. Len(p)
    BY <1>1, <2>1
  <2>4. /\ RemoveAt(p, k) \in Seq(AEntry) /\ Len(RemoveAt(p, k)) = Len(p) - 1
        /\ \A i \in 1 .. Len(p) - 1 : RemoveAt(p, k)[i] = IF i < k THEN p[i] ELSE p[i + 1]
    BY <2>3, Removed
  <2>5. ASSUME NEW i \in 1 .. n - 1 PROVE q[i] = RemoveAt(p, k)[i]
    <3>1. h[i] \in 1 .. n /\ q[i] = [id |-> list[h[i]].id, rel |-> Rel(h[i])]
      BY <1>3, <1>5, <1>6, <2>2
    <3>2. q[i] = p[h[i]]
      BY <2>1, <3>1
    <3>3. RemoveAt(p, k)[i] = p[h[i]]
      BY <1>3, <2>1, <2>4
    <3> QED BY <3>2, <3>3
  <2>6. q = RemoveAt(p, k)
    BY <2>1, <2>2, <2>4, <2>5, SeqEqual
  <2>7. \A j \in 1 .. k - 1 : p[j].id # list[k].id
    BY <1>1, <1>8, <2>1
  <2>8. k \in DOMAIN p /\ p[k].id = list[k].id
    BY <1>1, <2>1
  <2> QED BY <2>1, <2>2, <2>6, <2>7, <2>8 DEF Abstract!Cancel, Abstract!RemoveAt, RemoveAt
<1> QED BY <1>2, <1>6, <1>7, <1>8

\* Taking the first timer, which is due, is the abstract list's Fire.
LEMMA FireDue ==
  ASSUME TypeOK, DueList, list # << >>, list' = Tail(list), now' = now
  PROVE  /\ list' \in Seq(Entry) /\ DueList'
         /\ \A i \in 1 .. Len(list') : \E j \in 1 .. Len(list) : Rel(i)' = Rel(j)
         /\ Rel(1) <= 0 => Abstract!Fire
<1>1. PICK n \in Nat : n = Len(list)
  BY Rels
<1>2. /\ list' \in Seq(Entry) /\ Len(list') = n - 1 /\ 1 <= n
      /\ \A i \in 1 .. n - 1 : list'[i] = list[i + 1]
  BY <1>1, HeadTailProperties, EmptySeq DEF TypeOK
<1>3. PICK h \in [1 .. n - 1 -> 1 .. n] : \A i \in 1 .. n - 1 : h[i] = i + 1
  <2>1. [i \in 1 .. n - 1 |-> i + 1] \in [1 .. n - 1 -> 1 .. n]
    BY <1>1
  <2> QED BY <2>1
<1>4. \A i, j \in 1 .. n - 1 : i < j => h[i] < h[j]
  BY <1>1, <1>3
<1>5. \A i \in 1 .. n - 1 : list'[i] = list[h[i]]
  BY <1>2, <1>3
<1>6. DueList' /\ \A i \in 1 .. n - 1 : Rel(i)' = Rel(h[i])
  BY <1>1, <1>2, <1>3, <1>4, <1>5, LeaveDue
<1>7. \A i \in 1 .. Len(list') : \E j \in 1 .. Len(list) : Rel(i)' = Rel(j)
  BY <1>1, <1>2, <1>3, <1>6
<1>8. ASSUME Rel(1) <= 0 PROVE Abstract!Fire
  <2>1. PICK p \in Seq(AEntry) :
          /\ p = Pending(list, now) /\ Len(p) = n
          /\ \A i \in 1 .. n : p[i] = [id |-> list[i].id, rel |-> Rel(i)] /\ p[i].rel = Rel(i)
    BY <1>1, PendNow
  <2>2. PICK q \in Seq(AEntry) :
          /\ q = Pending(list', now') /\ Len(q) = n - 1
          /\ \A i \in 1 .. n - 1 : q[i] = [id |-> list'[i].id, rel |-> Rel(i)']
    BY <1>2, PendNext DEF TypeOK
  <2>3. p # << >>
    BY <1>2, <2>1, EmptySeq
  <2>4. /\ Tail(p) \in Seq(AEntry) /\ Len(Tail(p)) = n - 1
        /\ \A i \in 1 .. n - 1 : Tail(p)[i] = p[i + 1]
    BY <2>1, <2>3, HeadTailProperties
  <2>5. ASSUME NEW i \in 1 .. n - 1 PROVE q[i] = Tail(p)[i]
    <3>1. i + 1 \in 1 .. n /\ q[i] = [id |-> list[i + 1].id, rel |-> Rel(i + 1)]
      BY <1>3, <1>5, <1>6, <2>2
    <3> QED BY <2>1, <2>4, <3>1
  <2>6. q = Tail(p)
    BY <2>2, <2>4, <2>5, SeqEqual
  <2>7. Head(p).rel <= 0
    <3>1. Head(p) = p[1]
      OBVIOUS
    <3>2. p[1].rel = Rel(1)
      BY <1>2, <2>1
    <3> QED BY <1>8, <3>1, <3>2
  <2> QED BY <2>1, <2>2, <2>3, <2>6, <2>7 DEF Abstract!Fire
<1> QED BY <1>2, <1>6, <1>7, <1>8

\* A millisecond passes only while no timer waits for Late milliseconds already.
LEMMA NotLate ==
  ASSUME NEW c \in Time, NEW t \in Time, (c - t) % W # Late
  PROVE  Ahead(c, t) # -Late
<1>1. /\ c \in Int /\ t \in Int /\ 0 <= c /\ c < W /\ 0 <= t /\ t < W
  BY Width DEF Time
<1>2. PICK a \in Int : a = Ahead(c, t) /\ t \in {c + a, c + a + W, c + a - W}
  BY AheadRange
<1>3. PICK d \in Int : d = (c - t) % W /\ d \in {c - t, c - t + W} /\ 0 <= d /\ d < W
  BY Differ
<1>4. d # Late
  BY <1>3
<1>5. a = -Late => d = Late
  BY <1>1, <1>2, <1>3, Width
<1> QED BY <1>2, <1>4, <1>5

LEMMA TickDue ==
  ASSUME TypeOK, DueList, Tick
  PROVE  /\ now' \in Time /\ list' = list /\ DueList' /\ Abstract!Tick
         /\ \A i \in 1 .. Len(list) : Rel(i)' = Rel(i) - 1
<1>1. PICK n \in Nat : n = Len(list) /\ DOMAIN list = 1 .. n
  BY Rels
<1>2. /\ now \in Time /\ list' = list /\ now' = (now + 1) % W
      /\ \A i \in 1 .. n : (now - list[i].time) % W # Late
  BY <1>1 DEF TypeOK, Tick
<1>3. ASSUME NEW i \in 1 .. n
      PROVE  /\ Rel(i) \in Int /\ Rel(i)' = Rel(i) - 1
             /\ -Late <= Rel(i)' /\ Rel(i)' <= Q + Late
  <2>1. list[i].time \in Time /\ Rel(i) \in Int /\ -Late <= Rel(i) /\ Rel(i) <= Q + Late
    BY <1>1, Rels DEF DueList
  <2>2. Rel(i) # -Late
    BY <1>2, <2>1, NotLate DEF Rel
  <2>3. -(2 * Q) < Rel(i)
    BY <2>1, Width
  <2>4. Rel(i)' = Rel(i) - 1
    BY <1>2, <2>1, <2>3, Ticked DEF Rel
  <2> QED BY <2>1, <2>2, <2>4, Width
<1>4. now' \in Time
  <2>1. now + 1 \in Int /\ -W <= now + 1 /\ now + 1 < 2 * W
    BY <1>2, Width DEF Time
  <2>2. PICK x \in Int : x = now + 1 /\ -W <= x /\ x < 2 * W
    BY <2>1
  <2>3. x % W \in Time
    BY <2>2, Modulo
  <2>4. now' = x % W
    BY <1>2, <2>2, Zenon
  <2> QED BY <2>3, <2>4
<1>5. DueList'
  <2>1. /\ \A i, j \in 1 .. n : i < j => Rel(i) <= Rel(j)
        /\ \A i, j \in 1 .. n : Rel(j) - Rel(i) <= Q + Late
    BY <1>1 DEF DueList
  <2>2. \A i, j \in 1 .. n : i < j => Rel(i)' <= Rel(j)'
    BY <1>3, <2>1
  <2>3. \A i, j \in 1 .. n : Rel(j)' - Rel(i)' <= Q + Late
    BY <1>3, <2>1
  <2> QED BY <1>1, <1>2, <1>3, <2>2, <2>3 DEF DueList
<1>6. Abstract!Tick
  <2>1. PICK p \in Seq(AEntry) :
          /\ p = Pending(list, now) /\ Len(p) = n /\ DOMAIN p = 1 .. n
          /\ \A i \in 1 .. n : p[i] = [id |-> list[i].id, rel |-> Rel(i)]
    BY <1>1, PendNow
  <2>2. Pending(list', now') = [i \in 1 .. n |-> [id |-> list[i].id, rel |-> Rel(i)']]
    BY <1>1, <1>2 DEF Pending, Rel
  <2>3. ASSUME NEW i \in 1 .. n
        PROVE  [p[i] EXCEPT !.rel = @ - 1] = [id |-> list[i].id, rel |-> Rel(i)']
    <3>1. p[i] = [id |-> list[i].id, rel |-> Rel(i)]
      BY <2>1
    <3> QED BY <1>3, <3>1
  <2>4. Pending(list', now') = [i \in DOMAIN p |-> [p[i] EXCEPT !.rel = @ - 1]]
    BY <2>1, <2>2, <2>3
  <2> QED BY <2>1, <2>4 DEF Abstract!Tick
<1> QED BY <1>1, <1>2, <1>3, <1>4, <1>5, <1>6

LEMMA RebaseDue ==
  ASSUME TypeOK, DueList, SysRestartTimeouts
  PROVE  now' \in Time /\ list' \in Seq(Entry) /\ DueList' /\ Abstract!Rebase
<1>1. PICK n \in Nat : n = Len(list) /\ DOMAIN list = 1 .. n
  BY Rels
<1>2. /\ now \in Time /\ now' \in Time /\ list # << >> /\ list \in Seq(Entry)
      /\ list' = [i \in 1 .. n |-> [list[i] EXCEPT !.time = (@ - Head(list).time + now') % W]]
  BY <1>1 DEF TypeOK, SysRestartTimeouts, Time
<1>3. 1 \in 1 .. n
  BY <1>1, <1>2, EmptySeq
<1>4. PICK h \in Time : h = list[1].time /\ h = Head(list).time /\ Rel(1) = Ahead(now, h)
  BY <1>1, <1>3, Rels DEF Rel
<1>5. ASSUME NEW i \in 1 .. n
      PROVE  Rel(i) \in Int /\ Rel(1) <= Rel(i) /\ Rel(i) - Rel(1) <= Q + Late
  <2>1. Rel(i) \in Int /\ Rel(1) \in Int
    BY <1>1, <1>3, Rels
  <2>2. 1 < i => Rel(1) <= Rel(i)
    BY <1>1, <1>3 DEF DueList
  <2>3. Rel(i) - Rel(1) <= Q + Late
    BY <1>1, <1>3 DEF DueList
  <2>4. i = 1 \/ 1 < i
    OBVIOUS
  <2>5. Rel(1) <= Rel(i)
    BY <2>1, <2>2, <2>4
  <2> QED BY <2>1, <2>3, <2>5
<1>6. ASSUME NEW i \in 1 .. n
      PROVE  /\ list'[i] \in Entry /\ list'[i].id = list[i].id
             /\ Rel(i)' = Rel(i) - Rel(1)
  <2>1. list[i] \in Entry /\ list[i].time \in Time
    BY <1>1, Rels
  <2>2. PICK t \in Time : t = list[i].time /\ Rel(i) = Ahead(now, t)
    BY <2>1 DEF Rel
  <2>3. -(2 * Q) <= Ahead(now, t) - Ahead(now, h) /\ Ahead(now, t) - Ahead(now, h) < 2 * Q
    <3>1. PICK a \in Int, b \in Int : a = Rel(i) /\ b = Rel(1) /\ b <= a /\ a - b <= Q + Late
      BY <1>3, <1>5
    <3>2. -(2 * Q) <= a - b /\ a - b < 2 * Q
      BY <3>1, Width
    <3> QED BY <1>4, <2>2, <3>1, <3>2
  <2>4. (t - h + now') % W \in Time /\ Ahead(now', (t - h + now') % W) = Ahead(now, t) - Ahead(now, h)
    BY <1>2, <2>3, Rebased
  <2>5. PICK u \in Time : u = (t - h + now') % W
    BY <2>4
  <2>6. list'[i] = [list[i] EXCEPT !.time = u]
    BY <1>2, <1>4, <2>2, <2>5
  <2>7. list'[i] \in Entry /\ list'[i].id = list[i].id /\ list'[i].time = u
    BY <2>1, <2>6 DEF Entry
  <2> QED BY <1>4, <2>2, <2>4, <2>5, <2>7 DEF Rel
<1>7. list' \in Seq(Entry) /\ Len(list') = n
  <2>1. list' \in [1 .. n -> Entry]
    <3>1. list' = [i \in 1 .. n |-> list'[i]]
      BY <1>2
    <3> QED BY <1>6, <3>1
  <2> QED BY <2>1, Listed
<1>8. DueList'
  <2>1. /\ \A i, j \in 1 .. n : i < j => Rel(i) <= Rel(j)
        /\ \A i, j \in 1 .. n : Rel(j) - Rel(i) <= Q + Late
    BY <1>1 DEF DueList
  <2>2. \A i, j \in 1 .. n : i < j => Rel(i)' <= Rel(j)'
    BY <1>3, <1>5, <1>6, <2>1
  <2>3. \A i, j \in 1 .. n : Rel(j)' - Rel(i)' <= Q + Late
    BY <1>3, <1>5, <1>6, <2>1
  <2>4. \A i \in 1 .. n : -Late <= Rel(i)' /\ Rel(i)' <= Q + Late
    BY <1>3, <1>5, <1>6, Width
  <2> QED BY <1>7, <2>2, <2>3, <2>4 DEF DueList
<1>9. Abstract!Rebase
  <2>1. PICK p \in Seq(AEntry) :
          /\ p = Pending(list, now) /\ Len(p) = n /\ DOMAIN p = 1 .. n
          /\ \A i \in 1 .. n : p[i] = [id |-> list[i].id, rel |-> Rel(i)] /\ p[i].rel = Rel(i)
    BY <1>1, PendNow
  <2>2. PICK q \in Seq(AEntry) :
          /\ q = Pending(list', now') /\ Len(q) = n /\ DOMAIN q = 1 .. n
          /\ \A i \in 1 .. n : q[i] = [id |-> list'[i].id, rel |-> Rel(i)']
    BY <1>2, <1>7, PendNext
  <2>3. ASSUME NEW i \in 1 .. n
        PROVE  [p[i] EXCEPT !.rel = @ - p[1].rel] = q[i]
    <3>1. p[i] = [id |-> list[i].id, rel |-> Rel(i)] /\ p[1].rel = Rel(1)
      BY <1>3, <2>1
    <3>2. q[i] = [id |-> list[i].id, rel |-> Rel(i) - Rel(1)]
      BY <1>6, <2>2
    <3> QED BY <3>1, <3>2
  <2>4. q = [i \in 1 .. n |-> q[i]]
    BY <2>2
  <2>5. q = [i \in DOMAIN p |-> [p[i] EXCEPT !.rel = @ - p[1].rel]]
    BY <2>1, <2>3, <2>4
  <2>6. p # << >>
    BY <1>3, <2>1, EmptySeq
  <2> QED BY <2>1, <2>2, <2>5, <2>6 DEF Abstract!Rebase
<1> QED BY <1>2, <1>7, <1>8, <1>9

-----------------------------------------------------------------------------
(* The handlers.                                                             *)

LEMMA IntervalRange == \A c \in Cyclic : Interval(c) \in 0 .. Q
BY TimeoutsAssumption DEF AllDelays, Q

\* The entry of lwip_cyclic_timers with the identity c is the one Interval finds.
LEMMA CyclicEntry ==
  ASSUME NEW k \in 1 .. Len(CyclicTimers)
  PROVE  /\ CyclicTimers[k].id \in Cyclic
         /\ CyclicTimers[k].interval_ms = Interval(CyclicTimers[k].id)
<1>1. DOMAIN CyclicTimers = 1 .. Len(CyclicTimers)
  BY TimeoutsAssumption, LenProperties
<1>2. k \in DOMAIN CyclicTimers
  BY <1>1
<1>3. CyclicTimers[k].id \in Cyclic
  BY <1>2 DEF Cyclic
<1>4. \A i, j \in DOMAIN CyclicTimers : CyclicTimers[i].id = CyclicTimers[j].id => i = j
  BY TimeoutsAssumption
<1>5. k = CHOOSE i \in DOMAIN CyclicTimers : CyclicTimers[i].id = CyclicTimers[k].id
  <2> DEFINE P(i) == CyclicTimers[i].id = CyclicTimers[k].id
  <2>1. \E i \in DOMAIN CyclicTimers : P(i)
    BY <1>2
  <2>2. PICK c : c = CHOOSE i \in DOMAIN CyclicTimers : P(i)
    OBVIOUS
  <2>3. c \in DOMAIN CyclicTimers /\ P(c)
    BY <2>1, <2>2, Zenon
  <2>4. c = k
    BY <1>2, <1>4, <2>3
  <2> QED BY <2>2, <2>4
<1> QED BY <1>3, <1>5 DEF Interval

\* What a timer that is added does: nothing when the pool is empty, else AddDue.
Added(next) ==
  /\ list' \in Seq(Entry) /\ DueList'
  /\ \/ pc' = "abort" /\ list' = list
     \/ pc' = next /\ Abstract!Next
  /\ \A i \in 1 .. Len(list') : Rel(i)' <= Q \/ \E j \in 1 .. Len(list) : Rel(i)' = Rel(j)

LEMMA AddStep ==
  ASSUME TypeOK, DueList, NEW x \in Id, NEW u, u % W \in Time, Ahead(now, u % W) \in 0 .. Q,
         NEW next, Add(x, u, next), now' = now
  PROVE  Added(next)
<1>1. PICK e \in Entry : e = [id |-> x, time |-> u % W]
  BY DEF Entry
<1>2. e.time = u % W /\ e.id = x
  BY <1>1
<1>3. PICK d \in 0 .. Q : d = Ahead(now, e.time)
  BY <1>2
<1>4. CASE pc' = "abort" /\ list' = list
  <2>1. \A i \in 1 .. Len(list') : Rel(i)' = Rel(i)
    BY <1>4 DEF Rel
  <2>2. list' \in Seq(Entry)
    BY <1>4 DEF TypeOK
  <2>3. DueList'
    BY <1>4 DEF DueList, Rel
  <2>4. \A i \in 1 .. Len(list') : \E j \in 1 .. Len(list) : Rel(i)' = Rel(j)
    BY <1>4, <2>1
  <2>5. \A i \in 1 .. Len(list') : Rel(i)' <= Q \/ \E j \in 1 .. Len(list) : Rel(i)' = Rel(j)
    BY <2>4, Zenon
  <2> QED BY <1>4, <2>2, <2>3, <2>5, Zenon DEF Added
<1>5. CASE pc' = next /\ list' = Insert(list, e)
  <2>1. /\ list' \in Seq(Entry) /\ DueList' /\ Abstract!Set([id |-> e.id, rel |-> d])
        /\ Len(Pending(list', now')) = Len(Pending(list, now)) + 1
        /\ \A i \in 1 .. Len(list') : Rel(i)' = d \/ \E j \in 1 .. Len(list) : Rel(i)' = Rel(j)
    BY <1>2, <1>3, <1>5, AddDue
  <2>2. [id |-> e.id, rel |-> d] \in [id : Id, rel : 0 .. W \div 4]
    BY <1>2 DEF Q
  <2>3. Abstract!Next
    BY <2>1, <2>2 DEF Abstract!Next, Abstract!SetSome
  <2>4. d <= Q
    BY Width
  <2> QED BY <1>5, <2>1, <2>3, <2>4 DEF Added
<1> QED BY <1>1, <1>4, <1>5 DEF Add

\* sys_timeout adds a timer a delay ahead of now.
LEMMA AddFromNow ==
  ASSUME TypeOK, DueList, NEW x \in Id, NEW d \in 0 .. Q, NEW next,
         Add(x, now + d, next), now' = now
  PROVE  Added(next)
<1>1. now \in Time
  BY DEF TypeOK
<1>2. (now + d) % W \in Time /\ Ahead(now, (now + d) % W) = d
  BY <1>1, FromNow
<1> QED BY <1>2, AddStep

\* lwip_cyclic_timer adds its timer an interval behind the time it was due, or ahead of
\* now when that has passed.
LEMMA AddCyclic ==
  ASSUME TypeOK, Runs, DueList, Checked, CyclicEnd
  PROVE  Added("check")
<1>1. /\ pc = "run" /\ running \in Entry /\ running.id \in Cyclic /\ now' = now /\ now \in Time
  BY DEF CyclicEnd, Runs, TypeOK
<1>2. PICK t \in Time : t = running.time
  BY <1>1 DEF Entry
<1>3. PICK d \in 0 .. Q : d = Interval(running.id)
  BY <1>1, IntervalRange
<1>4. PICK a \in Int : a = Ahead(now, t) /\ -Late <= a /\ a <= 0
  <2>1. Ahead(now, t) \in Int /\ -Late <= Ahead(now, t) /\ Ahead(now, t) + Elapsed <= 0
    BY <1>1, <1>2, AheadRange DEF Checked
  <2>2. Elapsed \in Int /\ 0 <= Elapsed
    BY Differ DEF TypeOK, Elapsed
  <2> QED BY <2>1, <2>2
<1>5. PICK n \in Time : n = (t + d) % W /\ Ahead(now, n) = a + d
  <2>1. a + d < 2 * Q
    BY <1>4, Width
  <2> QED BY <1>1, <1>4, <2>1, Later
<1>6. Ahead(now, now) = 0
  <2>1. now \in {now + 0, now + 0 + W, now + 0 - W} /\ -(2 * Q) <= 0 /\ 0 < 2 * Q
    BY <1>1, Width DEF Time
  <2> QED BY <1>1, <2>1, AheadIs
<1>7. TIME_LESS_THAN(n, now) <=> a + d < 0
  <2>1. -(2 * Q) < (a + d) - 0 /\ (a + d) - 0 < 2 * Q
    BY <1>4, Width
  <2>2. -(2 * Q) < Ahead(now, n) - Ahead(now, now) /\ Ahead(now, n) - Ahead(now, now) < 2 * Q
    BY <1>5, <1>6, <2>1
  <2>3. TIME_LESS_THAN(n, now) <=> Ahead(now, n) < Ahead(now, now)
    BY <1>1, <2>2, Less
  <2> QED BY <1>5, <1>6, <2>3
<1>8. Add(running.id, IF TIME_LESS_THAN(n, now) THEN now + d ELSE n, "check")
  BY <1>2, <1>3, <1>5 DEF CyclicEnd
<1>9. running.id \in Id
  BY <1>1 DEF Entry
<1>10. CASE TIME_LESS_THAN(n, now)
  <2>1. Add(running.id, now + d, "check")
    BY <1>8, <1>10
  <2> QED BY <1>1, <1>9, <2>1, AddFromNow
<1>11. CASE ~TIME_LESS_THAN(n, now)
  <2>1. Add(running.id, n, "check")
    BY <1>8, <1>11
  <2>2. n % W = n
    <3>1. n \in Int /\ -W <= n /\ n < W /\ 0 <= n /\ n < 2 * W
      BY Width DEF Time
    <3> QED BY <3>1, Modulo
  <2>3. Ahead(now, n % W) \in 0 .. Q
    <3>1. a + d \in 0 .. Q
      BY <1>4, <1>7, <1>11, Width
    <3> QED BY <1>5, <2>2, <3>1
  <2>4. n % W \in Time
    BY <2>2
  <2> QED BY <1>1, <1>9, <2>1, <2>3, <2>4, AddStep
<1> QED BY <1>10, <1>11

-----------------------------------------------------------------------------
(* The list stays in order and implements the abstract list.                 *)

Good   == TypeOK /\ Runs /\ DueList /\ Checked
Linked == Abstract!Next \/ Pending(list', now') = Pending(list, now)

\* While a handler runs, sys_check_timeouts has been running for Late milliseconds at
\* most, so that what is added is near to the time it began.
LEMMA AddedChecked ==
  ASSUME Good, NEW next, Added(next), UNCHANGED << now, started >>,
         pc = "run" \/ next \notin {"check", "run"},
         next = "run" => running' = running
  PROVE  Checked'
<1>1. /\ pc' = next \/ pc' = "abort"
      /\ \A i \in 1 .. Len(list') : Rel(i)' <= Q \/ \E j \in 1 .. Len(list) : Rel(i)' = Rel(j)
  BY DEF Added
<1>2. CASE pc' \notin {"check", "run"}
  BY <1>2 DEF Checked
<1>3. CASE pc' = next /\ pc = "run"
  <2>1. running \in Entry /\ now \in Time /\ started \in Time /\ running.time \in Time
    BY <1>3 DEF Good, Runs, TypeOK, Entry
  <2>2. PICK e \in Int : e = Elapsed /\ 0 <= e
    BY <2>1, Differ DEF Elapsed
  <2>3. PICK r \in Int : r = Ahead(now, running.time)
    BY <2>1, AheadRange
  <2>4. -Late <= r /\ r + e <= 0 /\ \A j \in 1 .. Len(list) : Rel(j) + e <= Q + Late
    BY <1>3, <2>2, <2>3 DEF Good, Checked
  <2>5. Elapsed' = e
    BY <2>2 DEF Elapsed
  <2>6. ASSUME NEW i \in 1 .. Len(list') PROVE Rel(i)' + e <= Q + Late
    <3>1. CASE Rel(i)' <= Q
      <4>1. list' \in Seq(Entry)
        BY DEF Added
      <4>2. list'[i] \in Entry
        BY <4>1, ElementOfSeq
      <4>3. Rel(i)' \in Int
        BY <2>1, <4>2, AheadRange DEF Rel, Entry
      <4> QED BY <2>2, <2>4, <3>1, <4>3, Width
    <3>2. CASE \E j \in 1 .. Len(list) : Rel(i)' = Rel(j)
      BY <2>4, <3>2
    <3> QED BY <1>1, <3>1, <3>2
  <2>7. \A i \in 1 .. Len(list') : Rel(i)' + Elapsed' <= Q + Late
    BY <2>5, <2>6
  <2>8. pc' = "run" => -Late <= Ahead(now', running'.time)
                       /\ Ahead(now', running'.time) + Elapsed' <= 0
    BY <1>3, <2>3, <2>4, <2>5
  <2> QED BY <2>7, <2>8 DEF Checked
<1> QED BY <1>1, <1>2, <1>3

\* The steps that add a timer.
LEMMA AddsStep ==
  ASSUME Good,
         \/ \E x \in Shots, d \in Delays : SysTimeout(x, d)
         \/ TcpReg /\ ~active
         \/ InitCyclic \/ CyclicEnd \/ (TcpEnd /\ pcbs)
  PROVE  Good' /\ Linked
<1>1. TypeOK /\ DueList /\ Runs /\ Checked
  BY DEF Good
<1>0. TcpInterval \in 0 .. Q /\ Delays \subseteq 0 .. Q
  BY TimeoutsAssumption DEF AllDelays, Q
<1>2. ASSUME NEW next \in {"init", "idle", "check", "run"}, Added(next),
             UNCHANGED << now, started >>, pcbs' \in BOOLEAN, active' \in BOOLEAN,
             pc = "run" \/ next \notin {"check", "run"},
             \/ running' = running /\ next = pc
             \/ running' = Nobody /\ next = "check"
      PROVE  Good' /\ Linked
  <2>1. list' \in Seq(Entry) /\ DueList' /\ pc' \in {"abort", next} /\ (pc' = "abort" => list' = list)
        /\ (pc' = next => pc' = "abort" \/ Abstract!Next)
    BY <1>2 DEF Added
  <2>2. TypeOK'
    BY <1>1, <1>2, <2>1 DEF TypeOK
  <2>3. Runs'
    BY <1>1, <1>2, <2>1 DEF Runs
  <2>4. Checked'
    <3>1. next = "run" => running' = running
      BY <1>2
    <3> QED BY <1>2, <3>1, AddedChecked
  <2>5. Linked
    BY <1>2, <2>1 DEF Linked
  <2> QED BY <2>1, <2>2, <2>3, <2>4, <2>5 DEF Good
<1>3. ASSUME NEW x \in Shots, NEW d \in Delays, SysTimeout(x, d) PROVE Good' /\ Linked
  <2>1. /\ pc \in {"idle", "run"} /\ Add(x, now + d, pc)
        /\ UNCHANGED << now, started, running, active, pcbs >>
    BY <1>3 DEF SysTimeout, MaySet
  <2>2. Added(pc)
    BY <1>0, <1>1, <2>1, AddFromNow DEF Id
  <2> QED BY <1>1, <1>2, <2>1, <2>2 DEF TypeOK
<1>4. CASE TcpReg /\ ~active
  <2>1. /\ pc \in {"idle", "run"} /\ Add("tcp", now + TcpInterval, pc)
        /\ UNCHANGED << now, started, running >> /\ pcbs' = TRUE /\ active' = TRUE
    BY <1>4 DEF TcpReg, MaySet
  <2>2. Added(pc)
    BY <1>0, <1>1, <2>1, AddFromNow DEF Id
  <2> QED BY <1>1, <1>2, <2>1, <2>2 DEF TypeOK
<1>5. CASE InitCyclic
  <2>1. PICK k \in 1 .. Len(CyclicTimers) : k = Len(list) + 1
    BY <1>1, <1>5, Rels, TimeoutsAssumption, LenProperties DEF InitCyclic
  <2>2. /\ pc = "init" /\ UNCHANGED << now, started, running, active, pcbs >>
        /\ Add(CyclicTimers[k].id, now + CyclicTimers[k].interval_ms, "init")
    BY <1>5, <2>1 DEF InitCyclic
  <2>3. CyclicTimers[k].id \in Id /\ CyclicTimers[k].interval_ms \in 0 .. Q
    BY CyclicEntry, IntervalRange DEF Id
  <2>4. Added("init")
    BY <1>1, <2>2, <2>3, AddFromNow
  <2> QED BY <1>1, <1>2, <2>2, <2>4 DEF TypeOK
<1>6. CASE CyclicEnd
  <2>1. pc = "run" /\ running' = Nobody /\ UNCHANGED << now, started, active, pcbs >>
    BY <1>6 DEF CyclicEnd
  <2>2. Added("check")
    BY <1>1, <1>6, AddCyclic
  <2> QED BY <1>1, <1>2, <2>1, <2>2 DEF TypeOK
<1>7. CASE TcpEnd /\ pcbs
  <2>1. /\ pc = "run" /\ running' = Nobody /\ UNCHANGED << now, started, pcbs >>
        /\ active' = pcbs /\ Add("tcp", now + TcpInterval, "check")
    BY <1>7 DEF TcpEnd
  <2>2. Added("check")
    BY <1>0, <1>1, <2>1, AddFromNow DEF Id
  <2> QED BY <1>1, <1>2, <1>7, <2>1, <2>2 DEF TypeOK
<1> QED BY <1>3, <1>4, <1>5, <1>6, <1>7

LEMMA Self == ASSUME NEW c \in Time PROVE Ahead(c, c) = 0
<1>1. c \in {c + 0, c + 0 + W, c + 0 - W} /\ -(2 * Q) <= 0 /\ 0 < 2 * Q
  BY Width DEF Time
<1> QED BY <1>1, AheadIs

LEMMA ElapsedTick ==
  ASSUME NEW c \in Time, NEW n \in Time, NEW s \in Time, n = (c + 1) % W
  PROVE  (n - s) % W = ((c - s) % W) + 1 \/ (n - s) % W = 0
<1>1. /\ c \in Int /\ n \in Int /\ s \in Int
      /\ 0 <= c /\ c < W /\ 0 <= n /\ n < W /\ 0 <= s /\ s < W
  BY Width DEF Time
<1>2. n \in {c + 1, c + 1 - W}
  <2>1. PICK x \in Int : x = c + 1 /\ 0 <= x /\ x < 2 * W /\ -W <= x
    BY <1>1, Width
  <2>2. x % W \in {x, x - W}
    BY <2>1, Modulo
  <2>3. n = x % W
    BY <2>1, Zenon
  <2>4. n \in {x, x - W}
    BY <2>2, <2>3, Zenon
  <2> QED BY <1>1, <2>1, <2>4, Width
<1>3. PICK d \in Int : d = (n - s) % W /\ d \in {n - s, n - s + W} /\ 0 <= d /\ d < W
  BY Differ
<1>4. PICK e \in Int : e = (c - s) % W /\ e \in {c - s, c - s + W} /\ 0 <= e /\ e < W
  BY Differ
<1>5. d = e + 1 \/ d = 0
  BY <1>1, <1>2, <1>3, <1>4, Width
<1> QED BY <1>3, <1>4, <1>5

\* Steps that leave the list and the clock as they are.
LEMMA SameStep ==
  ASSUME Good, UNCHANGED << now, list >>, TypeOK', Runs',
         \/ pc' \notin {"check", "run"}
         \/ pc' = "check" /\ started' = now
         \/ pc \in {"check", "run"} /\ started' = started /\ (pc' = "run" => UNCHANGED << pc, running >>)
  PROVE  Good' /\ Linked
<1>1. DueList' /\ Linked
  BY DEF Good, DueList, Linked, Rel
<1>2. CASE pc' \notin {"check", "run"}
  BY <1>1, <1>2 DEF Good, Checked
<1>3. CASE pc' = "check" /\ started' = now
  <2>1. Elapsed' = 0
    <3>1. now \in Time
      BY DEF Good, TypeOK
    <3>2. PICK d \in Int : d = (now - now) % W /\ d \in {now - now, now - now + W} /\ 0 <= d /\ d < W
      BY <3>1, Differ
    <3>3. d = 0
      BY <3>1, <3>2, Width DEF Time
    <3> QED BY <1>3, <3>2, <3>3 DEF Elapsed
  <2>2. ASSUME NEW i \in 1 .. Len(list') PROVE Rel(i)' + Elapsed' <= Q + Late
    <3>1. Rel(i)' = Rel(i) /\ Rel(i) \in Int /\ Rel(i) <= Q + Late
      BY Rels DEF Rel, Good, DueList
    <3> QED BY <2>1, <3>1
  <2>3. Checked'
    BY <1>3, <2>2 DEF Checked
  <2> QED BY <1>1, <2>3 DEF Good
<1>4. CASE pc \in {"check", "run"} /\ started' = started /\ (pc' = "run" => UNCHANGED << pc, running >>)
  <2>1. Checked'
    BY <1>4 DEF Good, Checked, Elapsed, Rel
  <2> QED BY <1>1, <2>1 DEF Good
<1> QED BY <1>2, <1>3, <1>4

\* Steps that take a timer out of the list.
LEMMA LeaveStep ==
  ASSUME Good, UNCHANGED << now, started >>, TypeOK', Runs', DueList', Abstract!Next,
         \A i \in 1 .. Len(list') : \E j \in 1 .. Len(list) : Rel(i)' = Rel(j),
         pc' = "check" => pc = "check",
         pc' = "run" => /\ pc \in {"check", "run"}
                        /\ \/ pc = "run" /\ running' = running
                           \/ /\ -Late <= Ahead(now, running'.time)
                              /\ Ahead(now, running'.time) + Elapsed <= 0
  PROVE  Good' /\ Linked
<1>1. Elapsed' = Elapsed
  BY DEF Elapsed
<1>2. pc' \in {"check", "run"} => \A i \in 1 .. Len(list') : Rel(i)' + Elapsed' <= Q + Late
  BY <1>1 DEF Good, Checked
<1>3. pc' = "run" => -Late <= Ahead(now', running'.time) /\ Ahead(now', running'.time) + Elapsed' <= 0
  BY <1>1 DEF Good, Checked
<1> QED BY <1>2, <1>3 DEF Good, Checked, Linked

LEMMA CancelStep ==
  ASSUME Good, NEW x \in Shots, SysUntimeout(x)
  PROVE  Good' /\ Linked
<1>1. TypeOK /\ Runs /\ DueList /\ DOMAIN list = 1 .. Len(list)
  BY Rels DEF Good
<1>2. PICK k \in 1 .. Len(list) :
        /\ list[k].id = x /\ list' = RemoveAt(list, k)
        /\ \A j \in 1 .. k - 1 : list[j].id # x
  BY <1>1 DEF SysUntimeout
<1>3. UNCHANGED << now, pc, started, running, active, pcbs >> /\ pc \in {"idle", "run"}
  BY DEF SysUntimeout, MaySet
<1>4. /\ list' \in Seq(Entry) /\ DueList' /\ Abstract!Cancel(x)
      /\ \A i \in 1 .. Len(list') : \E j \in 1 .. Len(list) : Rel(i)' = Rel(j)
  BY <1>1, <1>2, <1>3, CancelDue
<1>5. Abstract!Next
  BY <1>4 DEF Abstract!Next, Id
<1>6. TypeOK' /\ Runs'
  BY <1>1, <1>3, <1>4 DEF TypeOK, Runs
<1> QED BY <1>3, <1>4, <1>5, <1>6, LeaveStep

LEMMA PopStep ==
  ASSUME Good, CheckPop
  PROVE  Good' /\ Linked
<1>1. TypeOK /\ Runs /\ DueList /\ Checked
  BY DEF Good
<1>2. /\ pc = "check" /\ pc' = "run" /\ list # << >> /\ list' = Tail(list) /\ running' = Head(list)
      /\ ~TIME_LESS_THAN(started, Head(list).time) /\ UNCHANGED << now, started, active, pcbs >>
  BY DEF CheckPop, Expired
<1>3. 1 \in 1 .. Len(list) /\ Head(list) = list[1] /\ list[1] \in Entry
  <2>1. Len(list) \in Nat \ {0}
    BY <1>1, <1>2, EmptySeq DEF TypeOK
  <2>2. 1 \in 1 .. Len(list)
    BY <2>1
  <2>3. Head(list) = list[1]
    OBVIOUS
  <2> QED BY <1>1, <2>2, <2>3, Rels
<1>4. PICK t \in Time : t = list[1].time /\ t = Head(list).time /\ Rel(1) = Ahead(now, t)
  BY <1>3 DEF Entry, Rel
<1>5. now \in Time /\ started \in Time
  BY <1>1 DEF TypeOK
<1>6. PICK a \in Int : a = Ahead(now, t) /\ -Late <= a /\ a + Elapsed <= Q + Late
  BY <1>1, <1>2, <1>3, <1>4, <1>5, AheadRange DEF DueList, Checked
<1>7. PICK e \in Int : e = Elapsed /\ e = (now - started) % W /\ 0 <= e
  BY <1>5, Differ DEF Elapsed
<1>8. Ahead(started, t) = a + e
  <2>1. Ahead(now, t) + e < 2 * Q
    BY <1>6, <1>7, Width
  <2> QED BY <1>5, <1>6, <1>7, <2>1, Earlier
<1>9. a + e <= 0
  <2>1. Ahead(started, started) = 0
    BY <1>5, Self
  <2>2. -(2 * Q) < 0 - (a + e) /\ 0 - (a + e) < 2 * Q
    BY <1>6, <1>7, Width
  <2>3. /\ -(2 * Q) < Ahead(started, started) - Ahead(started, t)
        /\ Ahead(started, started) - Ahead(started, t) < 2 * Q
    BY <1>8, <2>1, <2>2
  <2>4. TIME_LESS_THAN(started, t) <=> Ahead(started, started) < Ahead(started, t)
    BY <1>5, <2>3, Less
  <2>5. ~(0 < a + e)
    BY <1>2, <1>4, <1>8, <2>1, <2>4
  <2> QED BY <1>6, <1>7, <2>5
<1>10. Rel(1) <= 0
  BY <1>4, <1>6, <1>7, <1>9
<1>11. /\ list' \in Seq(Entry) /\ DueList' /\ Abstract!Fire
       /\ \A i \in 1 .. Len(list') : \E j \in 1 .. Len(list) : Rel(i)' = Rel(j)
  BY <1>1, <1>2, <1>10, FireDue
<1>12. TypeOK' /\ Runs'
  BY <1>1, <1>2, <1>3, <1>11 DEF TypeOK, Runs
<1>13. -Late <= Ahead(now, running'.time) /\ Ahead(now, running'.time) + Elapsed <= 0
  BY <1>2, <1>4, <1>6, <1>7, <1>9
<1>14. Abstract!Next
  BY <1>11 DEF Abstract!Next
<1> QED BY <1>2, <1>11, <1>12, <1>13, <1>14, LeaveStep

LEMMA TickStep ==
  ASSUME Good, Tick
  PROVE  Good' /\ Linked
<1>1. TypeOK /\ Runs /\ DueList /\ Checked
  BY DEF Good
<1>2. /\ now' \in Time /\ list' = list /\ DueList' /\ Abstract!Tick
      /\ \A i \in 1 .. Len(list) : Rel(i)' = Rel(i) - 1
  BY <1>1, TickDue
<1>3. /\ now' = (now + 1) % W /\ UNCHANGED << pc, started, running, active, pcbs >>
      /\ now \in Time /\ started \in Time
  BY <1>1 DEF Tick, TypeOK
<1>4. TypeOK' /\ Runs'
  BY <1>1, <1>2, <1>3 DEF TypeOK, Runs
<1>5. PICK e \in Int : e = Elapsed /\ 0 <= e
  BY <1>3, Differ DEF Elapsed
<1>6. PICK f \in Int : f = Elapsed' /\ (f = e + 1 \/ f = 0) /\ f < W
  <2>1. PICK n \in Time : n = now' /\ n = (now + 1) % W
    BY <1>2, <1>3
  <2>2. Elapsed' = (n - started) % W /\ e = (now - started) % W
    BY <1>3, <1>5, <2>1 DEF Elapsed
  <2>3. PICK f \in Int : f = (n - started) % W /\ f < W
    BY <1>3, Differ
  <2>4. (n - started) % W = ((now - started) % W) + 1 \/ (n - started) % W = 0
    BY <1>3, <2>1, ElapsedTick
  <2>5. f = e + 1 \/ f = 0
    BY <2>2, <2>3, <2>4
  <2> QED BY <2>2, <2>3, <2>5
<1>7. ASSUME NEW i \in 1 .. Len(list), pc \in {"check", "run"}
      PROVE  Rel(i)' + f <= Q + Late
  <2>1. Rel(i) \in Int /\ Rel(i)' = Rel(i) - 1 /\ Rel(i) + e <= Q + Late
    BY <1>1, <1>2, <1>5, <1>7, Rels DEF Checked
  <2> QED BY <1>5, <1>6, <2>1, Width
<1>8. ASSUME pc = "run"
      PROVE  -Late <= Ahead(now', running.time) /\ Ahead(now', running.time) + f <= 0
  <2>1. running \in Entry /\ running.time \in Time /\ running # Nobody
    <3>1. running \in Entry /\ running.id \in Id
      BY <1>1, <1>8 DEF Runs, Entry
    <3>2. running.id # "none"
      BY <3>1, TimeoutsAssumption
    <3> QED BY <3>1, <3>2 DEF Entry, Nobody
  <2>2. PICK r \in Int : r = Ahead(now, running.time) /\ -Late <= r /\ r + e <= 0
    BY <1>1, <1>3, <1>5, <1>8, <2>1, AheadRange DEF Checked
  <2>3. (now - running.time) % W # Late
    BY <2>1 DEF Tick
  <2>4. r # -Late
    BY <1>3, <2>1, <2>2, <2>3, NotLate
  <2>5. Ahead(now', running.time) = r - 1
    <3>1. -(2 * Q) < r
      BY <2>2, Width
    <3> QED BY <1>3, <2>1, <2>2, <3>1, Ticked
  <2> QED BY <1>5, <1>6, <2>2, <2>4, <2>5, Width
<1>9. Checked'
  BY <1>2, <1>3, <1>6, <1>7, <1>8 DEF Checked
<1> QED BY <1>2, <1>4, <1>9 DEF Good, Linked, Abstract!Next

LEMMA GoodInit == Init => Good /\ Abstract!Init
<1> SUFFICES ASSUME Init PROVE Good /\ Abstract!Init
  OBVIOUS
<1>1. /\ now \in Time /\ list = << >> /\ pc = "init" /\ started = 0 /\ running = Nobody
      /\ active = FALSE /\ pcbs = FALSE
  BY DEF Init, Time
<1>2. list \in Seq(Entry) /\ Len(list) = 0 /\ 0 \in Time
  BY <1>1, EmptySeq, Width DEF Time
<1>3. TypeOK /\ Runs
  BY <1>1, <1>2 DEF TypeOK, Runs
<1>4. DueList /\ Checked
  BY <1>1, <1>2 DEF DueList, Checked
<1>5. Pending(list, now) = << >>
  BY <1>1, <1>2, Pend, EmptySeq
<1> QED BY <1>3, <1>4, <1>5 DEF Good, Abstract!Init

LEMMA GoodStep == Good /\ [Next]_vars => Good' /\ Linked
<1> SUFFICES ASSUME Good, [Next]_vars PROVE Good' /\ Linked
  OBVIOUS
<1>1. TypeOK /\ Runs /\ DueList
  BY DEF Good
<1>2. CASE \/ \E x \in Shots, d \in Delays : SysTimeout(x, d)
           \/ TcpReg /\ ~active
           \/ InitCyclic \/ CyclicEnd \/ (TcpEnd /\ pcbs)
  BY <1>2, AddsStep
<1>3. CASE TcpReg /\ active
  <2>1. UNCHANGED << now, list, pc, started, running >> /\ pcbs' \in BOOLEAN /\ active' \in BOOLEAN
    BY <1>3 DEF TcpReg
  <2>2. TypeOK' /\ Runs'
    BY <1>1, <2>1 DEF TypeOK, Runs
  <2> QED BY <2>1, <2>2, SameStep
<1>4. CASE TcpRmv \/ UNCHANGED vars
  <2>1. UNCHANGED << now, list, pc, started, running, active >> /\ pcbs' \in BOOLEAN
    BY <1>1, <1>4 DEF TcpRmv, vars, TypeOK
  <2>2. TypeOK' /\ Runs'
    BY <1>1, <2>1 DEF TypeOK, Runs
  <2> QED BY <2>1, <2>2, SameStep
<1>5. CASE InitEnd
  <2>1. pc = "init" /\ pc' = "idle" /\ UNCHANGED << now, list, started, running, active, pcbs >>
    BY <1>5 DEF InitEnd
  <2>2. TypeOK' /\ Runs'
    BY <1>1, <2>1 DEF TypeOK, Runs
  <2> QED BY <2>1, <2>2, SameStep
<1>6. CASE CheckBegin
  <2>1. /\ pc = "idle" /\ pc' = "check" /\ started' = now
        /\ UNCHANGED << now, list, running, active, pcbs >>
    BY <1>6 DEF CheckBegin
  <2>2. TypeOK' /\ Runs'
    BY <1>1, <2>1 DEF TypeOK, Runs
  <2> QED BY <2>1, <2>2, SameStep
<1>7. CASE CheckEnd
  <2>1. /\ pc = "check" /\ pc' = "idle" /\ started' = 0 /\ 0 \in Time
        /\ UNCHANGED << now, list, running, active, pcbs >>
    BY <1>7, Width DEF CheckEnd, Time
  <2>2. TypeOK' /\ Runs'
    BY <1>1, <2>1 DEF TypeOK, Runs
  <2> QED BY <2>1, <2>2, SameStep
<1>8. CASE ShotEnd \/ (TcpEnd /\ ~pcbs)
  <2>1. /\ pc = "run" /\ pc' = "check" /\ running' = Nobody /\ active' \in BOOLEAN
        /\ UNCHANGED << now, list, started, pcbs >>
    BY <1>1, <1>8 DEF ShotEnd, TcpEnd, TypeOK
  <2>2. TypeOK' /\ Runs'
    BY <1>1, <2>1 DEF TypeOK, Runs
  <2> QED BY <2>1, <2>2, SameStep
<1>9. CASE CheckPop
  BY <1>9, PopStep
<1>10. CASE \E x \in Shots : SysUntimeout(x)
  BY <1>10, CancelStep
<1>11. CASE Tick
  BY <1>11, TickStep
<1>12. CASE SysRestartTimeouts
  <2>1. now' \in Time /\ list' \in Seq(Entry) /\ DueList' /\ Abstract!Rebase
    BY <1>1, <1>12, RebaseDue
  <2>2. pc = "idle" /\ UNCHANGED << pc, started, running, active, pcbs >>
    BY <1>12 DEF SysRestartTimeouts
  <2>3. TypeOK' /\ Runs' /\ Checked'
    BY <1>1, <2>1, <2>2 DEF TypeOK, Runs, Checked
  <2> QED BY <2>1, <2>3 DEF Good, Linked, Abstract!Next
<1>13. CASE TcpReg
  BY <1>1, <1>2, <1>3, <1>13 DEF TypeOK
<1>14. CASE TcpEnd
  BY <1>1, <1>2, <1>8, <1>14 DEF TypeOK
<1>15. CASE \E x \in Shots, d \in Delays : SysTimeout(x, d)
  BY <1>2, <1>15
<1>16. CASE InitCyclic \/ CyclicEnd
  BY <1>2, <1>16
<1>17. CASE ShotEnd
  BY <1>8, <1>17
<1> QED
  <2>1. \/ \E x \in Shots, d \in Delays : SysTimeout(x, d)
        \/ \E x \in Shots : SysUntimeout(x)
        \/ TcpReg \/ TcpRmv \/ InitCyclic \/ InitEnd \/ CheckBegin \/ CheckPop \/ CheckEnd
        \/ ShotEnd \/ CyclicEnd \/ TcpEnd \/ SysRestartTimeouts \/ Tick \/ UNCHANGED vars
    BY DEF Next
  <2>2. CASE \/ \E x \in Shots, d \in Delays : SysTimeout(x, d)
             \/ \E x \in Shots : SysUntimeout(x)
    BY <1>10, <1>15, <2>2
  <2>3. CASE TcpReg \/ TcpRmv \/ InitCyclic \/ InitEnd \/ CheckBegin \/ CheckPop \/ CheckEnd
    BY <1>4, <1>5, <1>6, <1>7, <1>9, <1>13, <1>16, <2>3
  <2>4. CASE ShotEnd \/ CyclicEnd \/ TcpEnd \/ SysRestartTimeouts \/ Tick \/ UNCHANGED vars
    BY <1>4, <1>11, <1>12, <1>14, <1>16, <1>17, <2>4
  <2> QED BY <2>1, <2>2, <2>3, <2>4

-----------------------------------------------------------------------------
(* No timer is lost.                                                         *)

\* A timer that is set: every other one is in the list as often as it was.
Grows(x) ==
  /\ Len(list') = Len(list) + 1
  /\ Absent(x) => Once(x)'
  /\ \A t : t # x => (Absent(t) => Absent(t)') /\ (Once(t) => Once(t)')

LEMMA AddKeeps ==
  ASSUME TypeOK, NEW x \in Id, NEW u \in Int, NEW next, Add(x, u, next), pc' # "abort"
  PROVE  pc' = next /\ Grows(x)
<1>1. PICK e \in Entry : e = [id |-> x, time |-> u % W]
  <2>1. u % W \in Time
    BY Width DEF Time
  <2> QED BY <2>1 DEF Entry
<1>2. e.id = x /\ pc' = next /\ list' = Insert(list, e)
  BY <1>1 DEF Add
<1>3. PICK n \in Nat : n = Len(list) /\ list \in Seq(Entry)
  BY LenProperties DEF TypeOK
<1>4. PICK k \in 1 .. n + 1 : Insert(list, e) = InsertAt(list, k, e)
  BY <1>3, Place
<1>5. /\ Len(list') = n + 1
      /\ \A i \in 1 .. n + 1 :
           list'[i] = IF i < k THEN list[i] ELSE IF i = k THEN e ELSE list[i - 1]
  BY <1>2, <1>3, <1>4, Inserted
<1>6. /\ list'[k].id = x
      /\ \A i \in 1 .. n : IF i < k THEN list'[i].id = list[i].id ELSE list'[i + 1].id = list[i].id
      /\ \A i \in 1 .. n + 1 : \/ i = k
                               \/ i < k /\ i \in 1 .. n /\ list'[i].id = list[i].id
                               \/ i > k /\ i - 1 \in 1 .. n /\ list'[i].id = list[i - 1].id
  BY <1>2, <1>5
<1>7. ASSUME Absent(x) PROVE Once(x)'
  <2>1. \A j \in 1 .. n + 1 : list'[j].id = x <=> j = k
    BY <1>3, <1>6, <1>7 DEF Absent
  <2> QED BY <1>3, <1>5, <2>1 DEF Once
<1>8. ASSUME NEW t, t # x, Absent(t) PROVE Absent(t)'
  <2>1. \A j \in 1 .. n + 1 : list'[j].id # t
    BY <1>3, <1>6, <1>8 DEF Absent
  <2> QED BY <1>5, <2>1 DEF Absent
<1>9. ASSUME NEW t, t # x, Once(t) PROVE Once(t)'
  <2>1. PICK i \in 1 .. n : \A j \in 1 .. n : list[j].id = t <=> j = i
    BY <1>3, <1>9 DEF Once
  <2>2. PICK m \in 1 .. n + 1 : m = IF i < k THEN i ELSE i + 1
    BY <2>1
  <2>3. \A j \in 1 .. n + 1 : list'[j].id = t <=> j = m
    BY <1>6, <1>9, <2>1, <2>2
  <2> QED BY <1>5, <2>3 DEF Once
<1> QED BY <1>2, <1>3, <1>5, <1>7, <1>8, <1>9 DEF Grows

\* A timer that leaves the list.
Shrinks(x) ==
  /\ Once(x) => Absent(x)'
  /\ \A t : t # x => (Absent(t) => Absent(t)') /\ (Once(t) => Once(t)')

LEMMA RemoveKeeps ==
  ASSUME TypeOK, NEW k \in 1 .. Len(list), NEW x, x = list[k].id, Len(list') = Len(list) - 1,
         \A i \in 1 .. Len(list) - 1 : list'[i] = IF i < k THEN list[i] ELSE list[i + 1]
  PROVE  Shrinks(x)
<1>1. PICK n \in Nat : n = Len(list)
  BY LenProperties DEF TypeOK
<1>2. /\ \A i \in 1 .. n - 1 : \/ i < k /\ i \in 1 .. n /\ list'[i].id = list[i].id
                               \/ i >= k /\ i + 1 \in 1 .. n /\ list'[i].id = list[i + 1].id
      /\ list[k].id = x /\ Len(list') = n - 1 /\ k \in 1 .. n
  BY <1>1
<1>3. ASSUME Once(x) PROVE Absent(x)'
  <2>1. PICK i \in 1 .. n : \A j \in 1 .. n : list[j].id = x <=> j = i
    BY <1>1, <1>3 DEF Once
  <2>2. \A j \in 1 .. n - 1 : list'[j].id # x
    BY <1>2, <2>1
  <2> QED BY <1>2, <2>2 DEF Absent
<1>4. ASSUME NEW t, t # x, Absent(t) PROVE Absent(t)'
  <2>1. \A j \in 1 .. n - 1 : list'[j].id # t
    BY <1>1, <1>2, <1>4 DEF Absent
  <2> QED BY <1>2, <2>1 DEF Absent
<1>5. ASSUME NEW t, t # x, Once(t) PROVE Once(t)'
  <2>1. PICK i \in 1 .. n : \A j \in 1 .. n : list[j].id = t <=> j = i
    BY <1>1, <1>5 DEF Once
  <2>2. i # k
    BY <1>2, <1>5, <2>1
  <2>3. PICK m \in 1 .. n - 1 : m = IF i < k THEN i ELSE i - 1
    BY <1>2, <2>1, <2>2
  <2>4. ASSUME NEW j \in 1 .. n - 1 PROVE list'[j].id = t <=> j = m
    <3>1. CASE j < k
      <4>1. j \in 1 .. n /\ list'[j].id = list[j].id
        BY <1>2, <3>1
      <4> QED BY <2>1, <2>2, <2>3, <3>1, <4>1
    <3>2. CASE j >= k
      <4>1. j + 1 \in 1 .. n /\ list'[j].id = list[j + 1].id
        BY <1>2, <3>2
      <4>2. list'[j].id = t <=> j + 1 = i
        BY <2>1, <4>1
      <4> QED BY <2>1, <2>2, <2>3, <3>2, <4>2
    <3>3. j < k \/ j >= k
      OBVIOUS
    <3> QED BY <3>1, <3>2, <3>3, Zenon
  <2>5. PICK p \in Int : p = n - 1 /\ Len(list') = p
    BY <1>2
  <2>6. m \in 1 .. p /\ \A j \in 1 .. p : list'[j].id = t <=> j = m
    BY <2>4, <2>5
  <2>7. m \in 1 .. Len(list') /\ \A j \in 1 .. Len(list') : list'[j].id = t <=> j = m
    BY <2>5, <2>6
  <2> QED BY <2>7 DEF Once
<1> QED BY <1>3, <1>4, <1>5 DEF Shrinks

\* What is known of a timer that a step does not touch.
LEMMA Untouched ==
  ASSUME NEW t, Known(t), Missing(t)' <=> Missing(t),
         (Absent(t) => Absent(t)') /\ (Once(t) => Once(t)')
  PROVE  Known(t)'
BY DEF Known

\* A list with the same timers in the same places.
LEMMA SameIds ==
  ASSUME Len(list') = Len(list), \A i \in 1 .. Len(list) : list'[i].id = list[i].id, NEW t
  PROVE  (Absent(t) => Absent(t)') /\ (Once(t) => Once(t)')
<1>1. PICK n : n = Len(list) /\ n = Len(list')
  OBVIOUS
<1>2. \A i \in 1 .. n : list'[i].id = list[i].id
  BY <1>1
<1>3. ASSUME Absent(t) PROVE Absent(t)'
  <2>1. \A i \in 1 .. n : list'[i].id # t
    BY <1>1, <1>2, <1>3 DEF Absent
  <2> QED BY <1>1, <2>1 DEF Absent
<1>4. ASSUME Once(t) PROVE Once(t)'
  <2>1. PICK m \in 1 .. n : \A j \in 1 .. n : list[j].id = t <=> j = m
    BY <1>1, <1>4 DEF Once
  <2>2. \A j \in 1 .. n : list'[j].id = t <=> j = m
    BY <1>2, <2>1
  <2> QED BY <1>1, <2>2 DEF Once
<1> QED BY <1>3, <1>4

LEMMA Names ==
  ASSUME NEW t \in Cyclic \cup {"tcp"}
  PROVE  t \in Id /\ t \notin Shots /\ t # "none" /\ Nobody.id = "none" /\ "tcp" \notin Cyclic
BY TimeoutsAssumption DEF Id, Nobody

\* A one-shot timer is set or removed.
LEMMA KeptShot ==
  ASSUME Good, pc' # "abort", NEW t \in Cyclic \cup {"tcp"}, Known(t),
         \/ \E x \in Shots, d \in Delays : SysTimeout(x, d)
         \/ \E x \in Shots : SysUntimeout(x)
  PROVE  Known(t)' /\ UNCHANGED << running, active >>
<1>1. TypeOK
  BY DEF Good
<1>2. ASSUME NEW x \in Shots, Grows(x) \/ Shrinks(x), pc \in {"idle", "run"},
             UNCHANGED << running, active, pc >>
      PROVE  Known(t)'
  <2>1. Missing(t)' <=> Missing(t)
    BY <1>2 DEF Missing
  <2>2. t # x
    BY Names
  <2>3. (Absent(t) => Absent(t)') /\ (Once(t) => Once(t)')
    BY <1>2, <2>2 DEF Grows, Shrinks
  <2> QED BY <2>1, <2>3, Untouched
<1>3. CASE \E x \in Shots, d \in Delays : SysTimeout(x, d)
  <2>1. PICK x \in Shots, d \in Delays : SysTimeout(x, d)
    BY <1>3
  <2>2. /\ pc \in {"idle", "run"} /\ Add(x, now + d, pc) /\ UNCHANGED << running, active >>
    BY <2>1 DEF SysTimeout, MaySet
  <2>3. now + d \in Int
    BY <1>1, Width, TimeoutsAssumption DEF TypeOK, Time, AllDelays
  <2>4. x \in Id
    BY DEF Id
  <2>5. pc' = pc /\ Grows(x)
    BY <1>1, <2>2, <2>3, <2>4, AddKeeps
  <2> QED BY <1>2, <2>2, <2>5
<1>4. CASE \E x \in Shots : SysUntimeout(x)
  <2>1. PICK x \in Shots : SysUntimeout(x)
    BY <1>4
  <2>2. PICK k \in DOMAIN list : list[k].id = x /\ list' = RemoveAt(list, k)
    BY <2>1 DEF SysUntimeout
  <2>3. pc \in {"idle", "run"} /\ UNCHANGED << running, active, pc >>
    BY <2>1 DEF SysUntimeout, MaySet
  <2>4. k \in 1 .. Len(list) /\ list \in Seq(Entry)
    BY <1>1, Rels DEF TypeOK
  <2>5. /\ Len(list') = Len(list) - 1
        /\ \A i \in 1 .. Len(list) - 1 : list'[i] = IF i < k THEN list[i] ELSE list[i + 1]
    BY <2>2, <2>4, Removed
  <2>6. Shrinks(x)
    BY <1>1, <2>2, <2>4, <2>5, RemoveKeeps
  <2> QED BY <1>2, <2>3, <2>6
<1> QED BY <1>3, <1>4 DEF SysTimeout, SysUntimeout

\* The first control block of TCP is registered.
LEMMA KeptTcpReg ==
  ASSUME Good, Kept, pc' # "abort", TcpReg, ~active, NEW t \in Cyclic \cup {"tcp"}
  PROVE  Known(t)'
<1>1. /\ pc \in {"idle", "run"} /\ Add("tcp", now + TcpInterval, pc) /\ active' = TRUE
      /\ running' = running
  BY DEF TcpReg, MaySet
<1>2. TypeOK /\ now + TcpInterval \in Int /\ "tcp" \in Id
  <2>1. TcpInterval \in 0 .. Q
    BY TimeoutsAssumption DEF AllDelays, Q
  <2> QED BY <2>1, Width DEF Good, TypeOK, Time, Id
<1>3. pc' = pc /\ Grows("tcp")
  BY <1>1, <1>2, AddKeeps
<1>4. Known(t) /\ running.id # "tcp"
  BY <1>1 DEF Kept
<1>5. CASE t = "tcp"
  <2>1. Absent(t)
    BY <1>4, <1>5 DEF Known, Missing
  <2>2. Once(t)'
    BY <1>3, <1>5, <2>1 DEF Grows
  <2>3. ~Missing(t)'
    BY <1>1, <1>3, <1>4, <1>5 DEF Missing
  <2> QED BY <2>2, <2>3 DEF Known
<1>6. CASE t # "tcp"
  <2>1. Missing(t)' <=> Missing(t)
    BY <1>1, <1>3, <1>6 DEF Missing
  <2> QED BY <1>3, <1>4, <1>6, <2>1, Untouched DEF Grows
<1> QED BY <1>5, <1>6

\* A round of the loop of sys_timeouts_init: the timer it sets was still to be set.
LEMMA KeptInitCyclic ==
  ASSUME Good, Kept, pc' # "abort", InitCyclic, NEW t \in Cyclic \cup {"tcp"}
  PROVE  Known(t)'
<1>1. PICK n \in Nat : n = Len(list) /\ TypeOK /\ Runs
  BY Rels DEF Good
<1>2. /\ pc = "init" /\ n < Len(CyclicTimers) /\ UNCHANGED << running, active >>
      /\ Add(CyclicTimers[n + 1].id, now + CyclicTimers[n + 1].interval_ms, "init")
  BY <1>1 DEF InitCyclic
<1>3. n + 1 \in 1 .. Len(CyclicTimers) /\ DOMAIN CyclicTimers = 1 .. Len(CyclicTimers)
  BY <1>2, TimeoutsAssumption, LenProperties
<1>4. PICK c \in Cyclic : c = CyclicTimers[n + 1].id /\ CyclicTimers[n + 1].interval_ms \in 0 .. Q
  BY <1>3, CyclicEntry, IntervalRange
<1>5. PICK u \in Int : u = now + CyclicTimers[n + 1].interval_ms
  BY <1>1, <1>4, Width DEF TypeOK, Time
<1>6. pc' = "init" /\ Grows(c)
  <2>1. c \in Id /\ Add(c, u, "init")
    BY <1>2, <1>4, <1>5 DEF Id
  <2> QED BY <1>1, <2>1, AddKeeps
<1>7. Known(t) /\ running.id = "none"
  BY <1>1, <1>2 DEF Kept, Runs, Nobody
<1>8. \A k \in 1 .. n : CyclicTimers[k].id # c
  <2> SUFFICES ASSUME NEW k \in 1 .. n PROVE CyclicTimers[k].id # c
    OBVIOUS
  <2>1. k \in DOMAIN CyclicTimers /\ n + 1 \in DOMAIN CyclicTimers /\ k # n + 1
    BY <1>3
  <2> QED BY <1>4, <2>1, TimeoutsAssumption
<1>9. Len(list') = n + 1
  BY <1>1, <1>6 DEF Grows
<1>10. CASE t = c
  <2>1. Absent(t)
    BY <1>1, <1>2, <1>7, <1>8, <1>10 DEF Known, Missing
  <2>2. Once(t)'
    BY <1>6, <1>10, <2>1 DEF Grows
  <2>3. ~(\A k \in 1 .. Len(list') : CyclicTimers[k].id # t)
    BY <1>4, <1>9, <1>10
  <2>4. ~Missing(t)'
    BY <1>2, <1>7, <1>10, <2>3, Names DEF Missing
  <2> QED BY <2>2, <2>4 DEF Known
<1>11. CASE t # c
  <2>1. (\A k \in 1 .. n + 1 : CyclicTimers[k].id # t) <=> (\A k \in 1 .. n : CyclicTimers[k].id # t)
    BY <1>4, <1>11
  <2>2. Missing(t)' <=> Missing(t)
    BY <1>1, <1>2, <1>6, <1>9, <2>1 DEF Missing
  <2> QED BY <1>6, <1>7, <1>11, <2>2, Untouched DEF Grows
<1> QED BY <1>10, <1>11

\* sys_timeouts_init has set every timer.
LEMMA KeptInitEnd ==
  ASSUME Good, Kept, InitEnd, NEW t \in Cyclic \cup {"tcp"}
  PROVE  Known(t)'
<1>1. /\ pc = "init" /\ Len(list) = Len(CyclicTimers) /\ pc' = "idle"
      /\ UNCHANGED << list, running, active >>
  BY DEF InitEnd
<1>2. t \in Cyclic => ~(\A k \in 1 .. Len(list) : CyclicTimers[k].id # t)
  <2>1. DOMAIN CyclicTimers = 1 .. Len(CyclicTimers)
    BY TimeoutsAssumption, LenProperties
  <2> QED BY <1>1, <2>1 DEF Cyclic
<1>3. Missing(t)' <=> Missing(t)
  BY <1>1, <1>2 DEF Missing
<1>4. (Absent(t) => Absent(t)') /\ (Once(t) => Once(t)')
  BY <1>1, SameIds
<1> QED BY <1>1, <1>3, <1>4, Untouched DEF Kept

\* A timer fires: it leaves the list and runs.
LEMMA KeptPop ==
  ASSUME Good, Kept, CheckPop
  PROVE  Kept'
<1>1. TypeOK /\ Runs
  BY DEF Good
<1>2. /\ pc = "check" /\ pc' = "run" /\ list # << >> /\ list' = Tail(list)
      /\ running' = Head(list) /\ active' = active /\ running.id = "none"
  BY <1>1 DEF CheckPop, Expired, Runs, Nobody
<1>3. list \in Seq(Entry) /\ Len(list) \in Nat \ {0}
  BY <1>1, <1>2, EmptySeq DEF TypeOK
<1>4. PICK x \in Id : x = list[1].id /\ x = running'.id
  BY <1>1, <1>2, <1>3, Rels
<1>5. Shrinks(x)
  <2>1. 1 \in 1 .. Len(list)
    BY <1>3
  <2>2. Len(list') = Len(list) - 1 /\ \A i \in 1 .. Len(list) - 1 : list'[i] = list[i + 1]
    BY <1>2, <1>3, HeadTailProperties
  <2>3. \A i \in 1 .. Len(list) - 1 : list'[i] = IF i < 1 THEN list[i] ELSE list[i + 1]
    BY <2>2
  <2> QED BY <1>1, <1>4, <2>1, <2>2, <2>3, RemoveKeeps
<1>6. ~Absent(x)
  <2>1. 1 \in 1 .. Len(list)
    BY <1>3
  <2> QED BY <1>4, <2>1 DEF Absent
<1>7. ASSUME NEW t \in Cyclic \cup {"tcp"} PROVE Known(t)'
  <2>1. Known(t)
    BY <1>2, <1>7 DEF Kept
  <2>2. CASE t = x
    BY <1>4, <1>5, <1>6, <2>1, <2>2 DEF Known, Missing, Shrinks
  <2>3. CASE t # x
    <3>1. Missing(t)' <=> Missing(t)
      BY <1>2, <1>4, <2>3, Names DEF Missing
    <3> QED BY <1>5, <2>1, <2>3, <3>1, Untouched DEF Shrinks
  <2> QED BY <2>2, <2>3
<1>8. running'.id = "tcp" => active'
  <2>1. Known("tcp")
    BY <1>2 DEF Kept
  <2>2. ASSUME x = "tcp" PROVE active
    BY <1>6, <2>1, <2>2 DEF Known, Missing
  <2> QED BY <1>2, <1>4, <2>2
<1> QED BY <1>7, <1>8 DEF Kept

\* A handler that sets its timer again.
LEMMA KeptAgain ==
  ASSUME Good, Kept, pc' # "abort", CyclicEnd \/ (TcpEnd /\ pcbs), NEW t \in Cyclic \cup {"tcp"}
  PROVE  Known(t)'
<1>1. TypeOK /\ Runs
  BY DEF Good
<1>2. PICK x \in Cyclic \cup {"tcp"} : x = running.id
  BY DEF CyclicEnd, TcpEnd
<1>3. pc = "run" /\ running' = Nobody /\ now \in Int
  BY <1>1, Width DEF CyclicEnd, TcpEnd, TypeOK, Time
<1>4. \E u \in Int : Add(x, u, "check")
  <2>1. CASE CyclicEnd
    <3>1. running \in Entry /\ running.time \in Int
      BY <1>1, <1>3, Width DEF Runs, Entry, Time
    <3>2. PICK d \in Int : d = Interval(running.id)
      BY <2>1, IntervalRange DEF CyclicEnd
    <3>3. PICK n \in Int : n = (running.time + d) % W
      BY <3>1, Width
    <3>4. Add(running.id, IF TIME_LESS_THAN(n, now) THEN now + d ELSE n, "check")
      BY <2>1, <3>2, <3>3 DEF CyclicEnd
    <3>5. (IF TIME_LESS_THAN(n, now) THEN now + d ELSE n) \in Int
      BY <1>3
    <3> QED BY <1>2, <3>4, <3>5
  <2>2. CASE TcpEnd /\ pcbs
    <3>1. TcpInterval \in Int
      BY TimeoutsAssumption DEF AllDelays
    <3>2. x = "tcp" /\ Add(x, now + TcpInterval, "check")
      BY <1>2, <2>2 DEF TcpEnd
    <3> QED BY <1>3, <3>1, <3>2
  <2> QED BY <2>1, <2>2
<1>5. pc' = "check" /\ Grows(x)
  <2>1. x \in Id
    BY DEF Id
  <2> QED BY <1>1, <1>4, <2>1, AddKeeps
<1>6. active' = active
  BY <1>1, <1>2, <1>3 DEF CyclicEnd, TcpEnd, Kept
<1>7. Known(t)
  BY <1>3 DEF Kept
<1>8. CASE t = x
  <2>1. Once(t)'
    BY <1>2, <1>5, <1>7, <1>8 DEF Known, Missing, Grows
  <2>2. ~Missing(t)'
    BY <1>2, <1>3, <1>5, <1>6, <1>8, Names DEF Missing, Kept
  <2> QED BY <2>1, <2>2 DEF Known
<1>9. CASE t # x
  <2>1. Missing(t)' <=> Missing(t)
    BY <1>2, <1>3, <1>5, <1>6, <1>9, Names DEF Missing
  <2> QED BY <1>5, <1>7, <1>9, <2>1, Untouched DEF Grows
<1> QED BY <1>8, <1>9

\* A handler that does not.
LEMMA KeptOut ==
  ASSUME Good, Kept, ShotEnd \/ (TcpEnd /\ ~pcbs), NEW t \in Cyclic \cup {"tcp"}
  PROVE  Known(t)'
<1>1. pc = "run" /\ pc' = "check" /\ running' = Nobody /\ list' = list
  BY DEF ShotEnd, TcpEnd
<1>2. Known(t)
  BY <1>1 DEF Kept
<1>3. (Absent(t) => Absent(t)') /\ (Once(t) => Once(t)')
  BY <1>1, SameIds
<1>4. Missing(t)' <=> Missing(t)
  <2>1. CASE ShotEnd
    BY <1>1, <2>1, Names DEF ShotEnd, Missing
  <2>2. CASE TcpEnd /\ ~pcbs
    BY <1>1, <2>2, Names DEF TcpEnd, Missing
  <2> QED BY <2>1, <2>2
<1> QED BY <1>2, <1>3, <1>4, Untouched

LEMMA KeptStep == Good /\ Kept /\ [Next]_vars => Kept'
<1> SUFFICES ASSUME Good, Kept, [Next]_vars, pc' # "abort" PROVE Kept'
  BY DEF Kept
<1>1. TypeOK /\ Runs
  BY DEF Good
<1>2. ASSUME pc # "abort", \A t \in Cyclic \cup {"tcp"} : Known(t)', running'.id = "tcp" => active'
      PROVE  Kept'
  BY <1>2 DEF Kept
<1>3. pc # "abort" => \A t \in Cyclic \cup {"tcp"} : Known(t) /\ (running.id = "tcp" => active)
  BY DEF Kept
\* The steps that leave the timers in the list alone.
<1>4. ASSUME pc # "abort", pc' # "init" \/ pc = "init", pc = "init" => pc' = "init",
             Len(list') = Len(list), \A i \in 1 .. Len(list) : list'[i].id = list[i].id,
             UNCHANGED << running, active >>
      PROVE  Kept'
  <2>1. ASSUME NEW t \in Cyclic \cup {"tcp"} PROVE Known(t)'
    <3>1. Missing(t)' <=> Missing(t)
      BY <1>4 DEF Missing
    <3>2. (Absent(t) => Absent(t)') /\ (Once(t) => Once(t)')
      BY <1>4, SameIds
    <3> QED BY <1>3, <1>4, <3>1, <3>2, Untouched
  <2> QED BY <1>4, <2>1 DEF Kept
<1>5. CASE \/ \E x \in Shots, d \in Delays : SysTimeout(x, d)
           \/ \E x \in Shots : SysUntimeout(x)
  <2>1. pc # "abort" /\ UNCHANGED << running, active >>
    BY <1>5 DEF SysTimeout, SysUntimeout, MaySet
  <2>2. \A t \in Cyclic \cup {"tcp"} : Known(t)'
    BY <1>3, <1>5, <2>1, KeptShot
  <2> QED BY <2>1, <2>2 DEF Kept
<1>6. CASE TcpReg
  <2>1. CASE active
    <3>1. pc # "abort" /\ UNCHANGED << running, active, list, pc >>
      BY <1>6, <2>1 DEF TcpReg, MaySet
    <3> QED BY <1>4, <3>1
  <2>2. CASE ~active
    <3>1. pc # "abort" /\ active' = TRUE
      BY <1>6 DEF TcpReg, MaySet
    <3> QED BY <1>2, <1>6, <2>2, <3>1, KeptTcpReg
  <2> QED BY <2>1, <2>2
<1>7. CASE TcpRmv \/ CheckBegin \/ CheckEnd \/ Tick
  <2>1. /\ pc \notin {"abort", "init"} \/ (pc = "init" /\ pc' = "init")
        /\ (pc' # "init" \/ pc = "init") /\ UNCHANGED << running, active, list >>
    BY <1>7 DEF TcpRmv, CheckBegin, CheckEnd, Tick, MaySet
  <2> QED BY <1>4, <2>1
<1>8. CASE UNCHANGED vars
  BY <1>4, <1>8 DEF vars
<1>9. CASE InitCyclic
  <2>1. pc # "abort" /\ UNCHANGED << running, active >>
    BY <1>9 DEF InitCyclic
  <2>2. \A t \in Cyclic \cup {"tcp"} : Known(t)'
    BY <1>9, KeptInitCyclic
  <2> QED BY <2>1, <2>2 DEF Kept
<1>10. CASE InitEnd
  <2>1. pc # "abort" /\ UNCHANGED << running, active >>
    BY <1>10 DEF InitEnd
  <2>2. \A t \in Cyclic \cup {"tcp"} : Known(t)'
    BY <1>10, KeptInitEnd
  <2> QED BY <2>1, <2>2 DEF Kept
<1>11. CASE CheckPop
  BY <1>11, KeptPop
<1>12. CASE CyclicEnd
  <2>1. pc # "abort" /\ running' = Nobody
    BY <1>12 DEF CyclicEnd
  <2>2. \A t \in Cyclic \cup {"tcp"} : Known(t)'
    BY <1>12, KeptAgain
  <2> QED BY <1>2, <2>1, <2>2 DEF Nobody
<1>13. CASE TcpEnd \/ ShotEnd
  <2>1. pc # "abort" /\ running' = Nobody
    BY <1>13 DEF TcpEnd, ShotEnd
  <2>2. \/ TcpEnd /\ pcbs
        \/ ShotEnd \/ (TcpEnd /\ ~pcbs)
    BY <1>1, <1>13 DEF TypeOK
  <2>3. \A t \in Cyclic \cup {"tcp"} : Known(t)'
    BY <2>2, KeptAgain, KeptOut
  <2> QED BY <1>2, <2>1, <2>3 DEF Nobody
<1>14. CASE SysRestartTimeouts
  <2>1. /\ pc = "idle" /\ UNCHANGED << pc, running, active >>
        /\ list' = [i \in DOMAIN list |->
                      [list[i] EXCEPT !.time = (@ - Head(list).time + now') % W]]
    BY <1>14 DEF SysRestartTimeouts
  <2>2. DOMAIN list = 1 .. Len(list) /\ Len(list) \in Nat /\ \A i \in 1 .. Len(list) : list[i] \in Entry
    BY <1>1, Rels
  <2>3. \A i \in 1 .. Len(list) : list'[i].id = list[i].id
    BY <2>1, <2>2 DEF Entry
  <2>4. DOMAIN list' = 1 .. Len(list) /\ list' \in Seq(Entry)
    BY <1>1, <1>14, <2>1, <2>2, RebaseDue DEF Good
  <2>5. Len(list') = Len(list)
    BY <2>2, <2>4, LenProperties
  <2> QED BY <1>4, <2>1, <2>3, <2>5
<1> QED
  <2>1. \/ \E x \in Shots, d \in Delays : SysTimeout(x, d)
        \/ \E x \in Shots : SysUntimeout(x)
        \/ TcpReg \/ TcpRmv \/ InitCyclic \/ InitEnd \/ CheckBegin \/ CheckPop \/ CheckEnd
        \/ ShotEnd \/ CyclicEnd \/ TcpEnd \/ SysRestartTimeouts \/ Tick \/ UNCHANGED vars
    BY DEF Next
  <2> QED BY <1>5, <1>6, <1>7, <1>8, <1>9, <1>10, <1>11, <1>12, <1>13, <1>14, <2>1

\* Every variable of timeouts.c keeps its type, for every width of the clock.
THEOREM TypeCorrect == Spec => []TypeOK
<1>1. Good => TypeOK
  BY DEF Good
<1> QED BY <1>1, GoodInit, GoodStep, PTL DEF Spec

\* For every width of the clock, list of cyclic timers and lateness below W / 4 the list,
\* whose times wrap round, implements the abstract list: nothing fires early, the first
\* due is the first to fire, and a timer is set behind those due no later.
THEOREM DueOrder == Spec => InDueOrder
<1>1. Init => Abstract!Init
  BY GoodInit
<1>2. Good /\ [Next]_vars => [Abstract!Next]_(Pending(list, now))
  BY GoodStep DEF Linked
<1> QED BY <1>1, <1>2, GoodInit, GoodStep, PTL DEF Spec, InDueOrder, Abstract!Spec

\* No cyclic timer is lost or doubled, and the TCP timer is in the list, or being run,
\* exactly while it is marked as active, for every list of cyclic timers with a name each
\* and every pool with room for them.
THEOREM TimersNeverLost == Spec => []TimersKept
<1>1. Init => Kept
  <2>1. Init => list = << >> /\ pc = "init" /\ running.id = "none" /\ ~active
    BY DEF Init, Nobody
  <2>2. Len(<< >>) = 0
    OBVIOUS
  <2>3. ASSUME Init, NEW t \in Cyclic \cup {"tcp"} PROVE Missing(t) /\ Absent(t)
    BY <2>1, <2>2, <2>3 DEF Missing, Absent
  <2> QED BY <2>1, <2>3 DEF Kept, Known
<1>2. Good /\ Kept => TimersKept
  <2> SUFFICES ASSUME Good, Kept, pc \notin {"init", "abort"}, NEW t \in Cyclic \cup {"tcp"}
               PROVE  IF running.id = t \/ (t = "tcp" /\ ~active) THEN Held(t) = {}
                      ELSE Cardinality(Held(t)) = 1
    BY DEF TimersKept
  <2>1. DOMAIN list = 1 .. Len(list)
    BY Rels DEF Good
  <2>2. Known(t) /\ (Missing(t) <=> running.id = t \/ (t = "tcp" /\ ~active))
    BY DEF Kept, Missing
  <2>3. CASE Missing(t)
    <3>1. Held(t) = {}
      BY <2>1, <2>2, <2>3 DEF Known, Absent, Held
    <3> QED BY <2>2, <2>3, <3>1
  <2>4. CASE ~Missing(t)
    <3>1. PICK i \in 1 .. Len(list) : \A j \in 1 .. Len(list) : list[j].id = t <=> j = i
      BY <2>2, <2>4 DEF Known, Once
    <3>2. Held(t) = {i}
      BY <2>1, <3>1 DEF Held
    <3>3. Cardinality(Held(t)) = 1
      BY <3>2, FS_Singleton
    <3> QED BY <2>2, <2>4, <3>3
  <2> QED BY <2>3, <2>4
<1> QED BY <1>1, <1>2, GoodInit, GoodStep, KeptStep, PTL DEF Spec

=============================================================================
