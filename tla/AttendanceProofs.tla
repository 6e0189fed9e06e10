--------------------------- MODULE AttendanceProofs ---------------------------
(***************************************************************************)
(* Proofs about Attendance, for any clock, shift, windows and number of    *)
(* breaks.                                                                 *)
(***************************************************************************)
EXTENDS Attendance, FiniteSetTheorems, TLAPS

LEMMA Constants ==
    /\ DayLength \in Nat \ {0} /\ MaxClock \in Nat /\ MaxBreaks \in Nat
    /\ Times \subseteq Nat /\ Dates \subseteq Int /\ BreakIds \subseteq 1 .. MaxBreaks
    /\ EditTimes \subseteq Nat
    BY TimeAssumption DEF Times, Dates, BreakIds, DateOf

\* Days follow each other as their ticks do.
LEMMA DatesInOrder ==
    ASSUME NEW t \in Times
    PROVE  DateOf(t) \in Int /\ 0 <= DateOf(t) /\ DateOf(t) <= DateOf(MaxClock)
<1> DEFINE n == DayLength
           q == DateOf(t)
           m == DateOf(MaxClock)
<1>1. t \in Nat /\ t <= MaxClock /\ MaxClock \in Nat /\ n \in Nat /\ n > 0
    BY TimeAssumption DEF Times
<1>2. q \in Int /\ n * q <= t /\ t < n * q + n
    BY <1>1 DEF DateOf
<1>3. m \in Int /\ n * m <= MaxClock /\ MaxClock < n * m + n
    BY <1>1 DEF DateOf
<1> HIDE DEF n, q, m
<1>4. ASSUME q < 0 PROVE FALSE
  <2>1. q + 1 <= 0
      BY <1>2, <1>4
  <2>2. n * (q + 1) <= 0
      BY <1>1, <1>2, <2>1
  <2> QED
      BY <1>1, <1>2, <2>2
<1>5. ASSUME m < q PROVE FALSE
  <2>1. m + 1 <= q
      BY <1>2, <1>3, <1>5
  <2>2. n * (m + 1) <= n * q
      BY <1>1, <1>2, <1>3, <2>1
  <2> QED
      BY <1>1, <1>2, <1>3, <2>2
<1> QED
    BY <1>2, <1>3, <1>4, <1>5 DEF q, m

\* The rows of the calendar cover every date a punch is booked under.
LEMMA DatesAreKnown ==
    ASSUME NEW t \in Times, clock \in Times
    PROVE  DateOf(t) \in Dates /\ BusinessDate(t) \in Dates
<1> DEFINE n == DateOf(t)
           hits == {d \in n - 1 .. n + 1 : InWindow(t, d)}
<1>0. DateOf(MaxClock) \in Int
    BY Constants DEF DateOf
<1>1. n \in Int /\ n \in Dates /\ n - 1 .. n + 1 \subseteq Dates
    BY <1>0, DatesInOrder DEF Dates
<1> HIDE DEF n
<1>2. CASE hits = {}
  <2>1. BusinessDate(t) = DateOf(clock)
      BY <1>2 DEF BusinessDate, n
  <2>2. DateOf(clock) \in Dates
      BY <1>0, DatesInOrder DEF Dates
  <2> QED
      BY <1>1, <2>1, <2>2 DEF n
<1>3. CASE hits # {}
  <2>1. hits \subseteq Dates /\ \A e \in hits : e = n - 1 \/ e = n \/ e = n + 1
      BY <1>1
  <2> DEFINE First(d) == \A e \in hits : d <= e
  <2>2. BusinessDate(t) = CHOOSE d \in hits : First(d)
      BY <1>3 DEF BusinessDate, n
  <2> HIDE DEF hits
  <2>3. \E d \in hits : First(d)
    <3>1. CASE n - 1 \in hits
        BY <1>1, <2>1, <3>1
    <3>2. CASE n - 1 \notin hits /\ n \in hits
        BY <1>1, <2>1, <3>2
    <3>3. CASE n - 1 \notin hits /\ n \notin hits
      <4>1. PICK e \in hits : TRUE
          BY <1>3
      <4> QED
          BY <1>1, <2>1, <3>3, <4>1
    <3> QED
        BY <3>1, <3>2, <3>3
  <2> HIDE DEF First
  <2>4. (CHOOSE d \in hits : First(d)) \in hits
      BY <2>3, Zenon
  <2> QED
      BY <1>1, <2>1, <2>2, <2>4 DEF n
<1> QED
    BY <1>2, <1>3

LEMMA MaxIs ==
    ASSUME NEW n \in Int
    PROVE  Max({0, n}) = IF n > 0 THEN n ELSE 0
<1> DEFINE m == IF n > 0 THEN n ELSE 0
<1>1. m \in {0, n} /\ \A y \in {0, n} : m >= y
    OBVIOUS
<1>2. \A x \in {0, n} : (\A y \in {0, n} : x >= y) => x = m
    OBVIOUS
<1> HIDE DEF m
<1>3. (CHOOSE x \in {0, n} : \A y \in {0, n} : x >= y) = m
    BY <1>1, <1>2
<1> QED
    BY <1>3 DEF Max, m

LEMMA WorkedHoursIsInt ==
    ASSUME NEW d, NEW in \in Int, NEW out \in Int, NEW logged \in Int
    PROVE  WorkedHours(d, in, out, logged) \in Int
<1> DEFINE gross   == Max({0, out - in})
           allowed == IF logged > 0 THEN logged
                      ELSE IF gross >= AutoBreakMin /\ ~rec[d].snapshot THEN ShiftBreak ELSE 0
<1>1. gross \in Int
    BY MaxIs
<1>2. allowed \in Int
    BY TimeAssumption
<1>3. WorkedHours(d, in, out, logged) \in {gross, Max({0, gross - allowed})}
    BY DEF WorkedHours
<1> HIDE DEF gross, allowed
<1>4. gross - allowed \in Int
    BY <1>1, <1>2
<1>5. Max({0, gross - allowed}) \in Int
    BY <1>4, MaxIs
<1> QED
    BY <1>1, <1>3, <1>5

-----------------------------------------------------------------------------
\* The ticks of the breaks in B when the break rows are F, which may be those of
\* this state or of the next.
Ticks(F, B) ==
    {x \in B \X Times : F[x[1]].start <= x[2] /\ x[2] < F[x[1]].start + F[x[1]].duration}

LEMMA TicksFinite ==
    ASSUME NEW F, NEW B, B \subseteq BreakIds
    PROVE  IsFiniteSet(Ticks(F, B)) /\ Cardinality(Ticks(F, B)) \in Nat
<1>1. IsFiniteSet(BreakIds) /\ IsFiniteSet(Times)
    BY Constants, FS_Interval DEF BreakIds, Times
<1>2. IsFiniteSet(BreakIds \X Times)
    BY <1>1, FS_Product
<1>3. Ticks(F, B) \in SUBSET (BreakIds \X Times)
    BY DEF Ticks
<1>4. IsFiniteSet(Ticks(F, B))
    BY <1>2, <1>3, FS_Subset
<1> QED
    BY <1>4, FS_CardinalityType

\* A break that ends by the last tick has as many ticks as its duration says.
LEMMA TicksOfOne ==
    ASSUME NEW F, NEW b \in BreakIds, F[b].start \in Nat, F[b].duration \in Nat,
           F[b].start + F[b].duration <= MaxClock
    PROVE  Cardinality(Ticks(F, {b})) = F[b].duration
<1> DEFINE lo == F[b].start
           hi == F[b].start + F[b].duration - 1
           f  == [t \in lo .. hi |-> <<b, t>>]
<1>1. lo \in Int /\ hi \in Int /\ lo .. hi \subseteq Times
    BY Constants DEF Times
<1>2. Ticks(F, {b}) = {<<b, t>> : t \in lo .. hi}
  <2>1. ASSUME NEW t \in lo .. hi PROVE <<b, t>> \in Ticks(F, {b})
      BY <1>1 DEF Ticks
  <2>2. ASSUME NEW x \in Ticks(F, {b}) PROVE \E t \in lo .. hi : x = <<b, t>>
    <3>1. PICK t \in Times : x = <<b, t>>
        BY DEF Ticks
    <3>2. lo <= t /\ t < F[b].start + F[b].duration
        BY <3>1 DEF Ticks
    <3>3. t \in lo .. hi
        BY <1>1, <3>2, Constants
    <3> QED
        BY <3>1, <3>3
  <2> QED
      BY <2>1, <2>2
<1>3. f \in Bijection(lo .. hi, Ticks(F, {b}))
  <2>1. f \in [lo .. hi -> Ticks(F, {b})]
      BY <1>2
  <2>2. \A t, u \in lo .. hi : f[t] = f[u] => t = u
      OBVIOUS
  <2>3. \A x \in Ticks(F, {b}) : \E t \in lo .. hi : f[t] = x
      BY <1>2
  <2> QED
      BY <2>1, <2>2, <2>3 DEF Bijection, Injection, Surjection, IsInjective
<1>4. ExistsBijection(lo .. hi, Ticks(F, {b}))
    BY <1>3 DEF ExistsBijection
<1>5. IsFiniteSet(lo .. hi) /\ Cardinality(lo .. hi) = IF lo > hi THEN 0 ELSE hi - lo + 1
    BY <1>1, FS_Interval
<1>6. Cardinality(Ticks(F, {b})) = Cardinality(lo .. hi)
    BY <1>4, <1>5, FS_Bijection
<1> QED
    BY <1>5, <1>6

\* The ticks of some breaks are those of one of them and of the others.
LEMMA TicksSplit ==
    ASSUME NEW F, NEW B, B \subseteq BreakIds, NEW b \in BreakIds, b \notin B,
           F[b].start \in Nat, F[b].duration \in Nat,
           F[b].start + F[b].duration <= MaxClock
    PROVE  Cardinality(Ticks(F, B \cup {b})) = Cardinality(Ticks(F, B)) + F[b].duration
<1>1. Ticks(F, B \cup {b}) = Ticks(F, B) \cup Ticks(F, {b})
    BY DEF Ticks
<1>2. Ticks(F, B) \cap Ticks(F, {b}) = {}
    BY DEF Ticks
<1>3. /\ IsFiniteSet(Ticks(F, B)) /\ IsFiniteSet(Ticks(F, {b}))
      /\ Cardinality(Ticks(F, B)) \in Nat
    BY TicksFinite
<1>4. Cardinality(Ticks(F, {b})) = F[b].duration
    BY TicksOfOne
<1>5. Cardinality(Ticks(F, B) \cup Ticks(F, {b}))
          = Cardinality(Ticks(F, B)) + Cardinality(Ticks(F, {b}))
                - Cardinality(Ticks(F, B) \cap Ticks(F, {b}))
    BY <1>3, FS_Union
<1>6. Cardinality(Ticks(F, B) \cap Ticks(F, {b})) = 0
    BY <1>2, FS_EmptySet
<1>7. Cardinality(Ticks(F, B \cup {b})) = Cardinality(Ticks(F, B) \cup Ticks(F, {b}))
    BY <1>1
<1> QED
    BY <1>3, <1>4, <1>5, <1>6, <1>7

LEMMA TicksSame ==
    ASSUME NEW F, NEW G, NEW B, \A b \in B : F[b] = G[b]
    PROVE  Ticks(F, B) = Ticks(G, B)
    BY DEF Ticks

\* Breaks that lie apart in a session are no longer together than the session.
LEMMA TicksWithin ==
    ASSUME NEW F, NEW B, B \subseteq BreakIds, NEW lo \in Int, NEW hi \in Int, lo <= hi,
           \A b \in B : /\ F[b].start \in Int /\ F[b].duration \in Int
                        /\ lo <= F[b].start /\ F[b].start + F[b].duration <= hi,
           \A b, c \in B : b = c \/ F[b].start + F[b].duration <= F[c].start
                                 \/ F[c].start + F[c].duration <= F[b].start
    PROVE  Cardinality(Ticks(F, B)) <= hi - lo
<1> DEFINE f == [x \in Ticks(F, B) |-> x[2]]
<1>1. ASSUME NEW x \in Ticks(F, B)
      PROVE  /\ x = <<x[1], x[2]>> /\ x[1] \in B /\ x[2] \in Int
             /\ F[x[1]].start <= x[2] /\ x[2] < F[x[1]].start + F[x[1]].duration
  <2>1. PICK b \in B, t \in Times : x = <<b, t>>
      BY DEF Ticks
  <2>2. F[x[1]].start <= x[2] /\ x[2] < F[x[1]].start + F[x[1]].duration
      BY DEF Ticks
  <2>3. x[1] = b /\ x[2] = t /\ t \in Int
      BY <2>1, Constants
  <2> QED
      BY <2>1, <2>2, <2>3
<1>2. f \in [Ticks(F, B) -> lo .. hi - 1]
  <2>1. ASSUME NEW x \in Ticks(F, B) PROVE x[2] \in lo .. hi - 1
      BY <1>1
  <2> QED
      BY <2>1
<1>3. ASSUME NEW x \in Ticks(F, B), NEW y \in Ticks(F, B), x[2] = y[2] PROVE x = y
  <2>1. x[1] = y[1]
      BY <1>1, <1>3
  <2> QED
      BY <1>1, <1>3, <2>1
<1>4. f \in Injection(Ticks(F, B), lo .. hi - 1)
    BY <1>2, <1>3 DEF Injection, IsInjective
<1>5. /\ IsFiniteSet(lo .. hi - 1)
      /\ Cardinality(lo .. hi - 1) = IF lo > hi - 1 THEN 0 ELSE (hi - 1) - lo + 1
    BY FS_Interval
<1>6. Cardinality(Ticks(F, B)) <= Cardinality(lo .. hi - 1)
    BY <1>4, <1>5, FS_Injection
<1>7. Cardinality(Ticks(F, B)) \in Nat
    BY TicksFinite
<1> QED
    BY <1>5, <1>6, <1>7

LEMMA SumIs ==
    ASSUME NEW B, B \subseteq BreakIds
    PROVE  /\ SumOfDurations(B) = Cardinality(Ticks(breaks, B))
           /\ SumOfDurations(B) \in Nat
<1>1. SumOfDurations(B) = Cardinality(Ticks(breaks, B))
    BY DEF SumOfDurations, TicksOf, Ticks
<1> QED
    BY <1>1, TicksFinite

-----------------------------------------------------------------------------
LEMMA BreaksOfIds ==
    ASSUME NEW d
    PROVE  BreaksOf(d) \subseteq BreakIds /\ ActiveBreaks(d) \subseteq BreakIds
    BY DEF BreaksOf, ActiveBreaks

LEMMA EmptyTypes ==
    Idle \in Requests /\ Idle.op = "none" /\ NoRow \in Rows /\ NoBreak \in Breaks
<1>1. 0 \in Dates /\ 0 \in 0 .. MaxBreaks
  <2>1. 0 \in Times
      BY Constants DEF Times
  <2> QED
      BY <2>1, DatesInOrder, Constants DEF Dates, DateOf
<1> QED
    BY <1>1 DEF Idle, Requests, NoRow, Rows, NoBreak, Breaks

LEMMA BreakTotalIsInt ==
    ASSUME TypeOK, NEW d, NEW b \in BreakIds
    PROVE  BreakTotal(d, b) \in Int
<1>1. SumOfDurations(BreaksOf(d) \ {b}) \in Nat
    BY BreaksOfIds, SumIs
<1>2. clock \in Int /\ breaks[b].start \in Int
    BY Constants DEF TypeOK, Breaks
<1> QED
    BY <1>1, <1>2 DEF BreakTotal

\* An update outside a table changes nothing, one inside it keeps its type.
LEMMA Replaced ==
    ASSUME NEW S, NEW T, NEW f \in [S -> T], NEW x, NEW v, x \in S => v \in T
    PROVE  [f EXCEPT ![x] = v] \in [S -> T]
    OBVIOUS

\* A request that ends a break has its id, as long as the row is there.
EndIsActive ==
    req.op = "end" /\ rec[req.date].state # "absent" => req.brk \in ActiveBreaks(req.date)

LEMMA TypeStep ==
    ASSUME TypeOK, EndIsActive, [Next]_vars
    PROVE  TypeOK'
<1> USE DEF TypeOK
<1>0. clock \in Times /\ clock \in Nat
    BY Constants
<1>1. \A t \in Nat, x \in BOOLEAN : NewRow(t, x) \in Rows
    BY EmptyTypes DEF NewRow, Rows
<1>2. \A b \in BreakIds : Ended(b) \in Breaks
  <2>1. SUFFICES ASSUME NEW b \in BreakIds PROVE Ended(b) \in Breaks
      OBVIOUS
  <2>2. breaks[b] \in Breaks /\ clock - breaks[b].start \in Int
      BY <1>0 DEF Breaks
  <2> QED
      BY <2>2 DEF Ended, Breaks
<1>3. DateOf(clock) \in Dates /\ BusinessDate(clock) \in Dates
    BY DatesAreKnown
<1>4. CASE UNCHANGED vars
    BY <1>4 DEF vars
<1>5. CASE CheckInBegin \/ CheckInFindsStale \/ RequestRefused \/ RowHasGone
  <2>1. req' \in Requests
      BY <1>5, <1>0, <1>3, EmptyTypes
         DEF CheckInBegin, CheckInFindsStale, RequestRefused, RowHasGone, Requests
  <2>2. req'.op = "checkin" => req'.t \in Times
      BY <1>5, <1>0, EmptyTypes
         DEF CheckInBegin, CheckInFindsStale, RequestRefused, RowHasGone, Idle
  <2> QED
      BY <1>5, <2>1, <2>2 DEF CheckInBegin, CheckInFindsStale, RequestRefused, RowHasGone
<1>6. CASE CheckInCommit
  <2> DEFINE d == BusinessDate(req.t)
  <2>0. d \in Dates
      BY <1>6, DatesAreKnown DEF CheckInCommit
  <2>1. NewRow(req.t, TRUE) \in Rows
      BY <1>1 DEF Requests
  <2>2. /\ [rec EXCEPT ![d] = NewRow(req.t, TRUE)] \in [Dates -> Rows]
        /\ [brk EXCEPT ![d] = 0] \in [Dates -> Int]
        /\ [hours EXCEPT ![d] = 0] \in [Dates -> Int]
    <3> DEFINE n == NewRow(req.t, TRUE)
    <3> HIDE DEF n, d
    <3>1. n \in Rows
        BY <2>1 DEF n
    <3>2. [rec EXCEPT ![d] = n] \in [Dates -> Rows]
        BY <2>0, <3>1, Replaced
    <3>3. [brk EXCEPT ![d] = 0] \in [Dates -> Int]
        BY <2>0, Replaced
    <3>4. [hours EXCEPT ![d] = 0] \in [Dates -> Int]
        BY <2>0, Replaced
    <3> QED
        BY <3>2, <3>3, <3>4 DEF n
  <2>3. rec' \in [Dates -> Rows] /\ brk' \in [Dates -> Int] /\ hours' \in [Dates -> Int]
      BY <1>6, <2>2 DEF CheckInCommit
  <2> QED
      BY <1>6, <2>3, EmptyTypes DEF CheckInCommit
<1>7. CASE CheckOutBegin
    BY <1>7, EmptyTypes DEF CheckOutBegin, ActiveSession, Open, Requests, Rows
<1>8. CASE CheckOutCommit
  <2> DEFINE d == req.date
             active == ActiveBreaks(d)
             b == CHOOSE b \in active : TRUE
             total == IF active = {} THEN brk[d] ELSE BreakTotal(d, b)
  <2>1. d \in Dates /\ req.t \in Int /\ rec[d] \in Rows
      BY DEF Requests
  <2>2. total \in Int
    <3>1. CASE active = {}
        BY <2>1, <3>1
    <3>2. CASE active # {}
      <4>1. b \in active
          BY <3>2
      <4>2. b \in BreakIds
          BY <4>1, BreaksOfIds
      <4> HIDE DEF b, active
      <4> QED
          BY <3>2, <4>2, BreakTotalIsInt
    <3> QED
        BY <3>1, <3>2
  <2>3. brk' = [brk EXCEPT ![d] = total]
      BY <1>8 DEF CheckOutCommit
  <2> HIDE DEF total
  <2>4. brk' \in [Dates -> Int] /\ brk'[d] = total
      BY <2>1, <2>2, <2>3
  <2>5. WorkedHours(d, req.t, clock, brk'[d]) \in Int
      BY <1>0, <2>1, <2>2, <2>4, WorkedHoursIsInt
  <2>6. hours' \in [Dates -> Int]
      BY <1>8, <2>5 DEF CheckOutCommit
  <2>7. breaks' \in [BreakIds -> Breaks]
      BY <1>2, <1>8 DEF CheckOutCommit
  <2>8. rec' \in [Dates -> Rows]
    <3> DEFINE n == [rec[d] EXCEPT !.state = "closed", !.out = clock]
    <3>1. n \in Rows
        BY <1>0, <2>1 DEF Rows
    <3>2. rec' = [rec EXCEPT ![d] = n]
        BY <1>8 DEF CheckOutCommit
    <3> HIDE DEF n
    <3> QED
        BY <3>1, <3>2
  <2> QED
      BY <1>8, <2>4, <2>6, <2>7, <2>8, EmptyTypes DEF CheckOutCommit
<1>9. CASE StartBreakBegin
    BY <1>9, <1>3, EmptyTypes DEF StartBreakBegin, Requests
<1>10. CASE EndBreakBegin
  <2>1. ActiveBreaks(DateOf(clock)) \subseteq 0 .. MaxBreaks
    <3>1. BreakIds \subseteq 0 .. MaxBreaks
        BY Constants DEF BreakIds
    <3> QED
        BY <3>1, BreaksOfIds
  <2> QED
      BY <1>3, <1>10, <2>1, EmptyTypes DEF EndBreakBegin, Requests
<1>11. CASE StartBreakCommit
  <2>1. PICK b \in BreakIds :
            breaks' = [breaks EXCEPT ![b] = [status |-> "ACTIVE", date |-> req.date,
                                             start |-> clock, duration |-> 0]]
      BY <1>11 DEF StartBreakCommit
  <2>2. [status |-> "ACTIVE", date |-> req.date, start |-> clock, duration |-> 0] \in Breaks
      BY <1>0 DEF Requests, Breaks
  <2>3. breaks' \in [BreakIds -> Breaks]
      BY <2>1, <2>2
  <2> QED
      BY <1>11, <2>3, EmptyTypes DEF StartBreakCommit
<1>12. CASE EndBreakCommit
  <2>1. req.brk \in BreakIds
      BY <1>12, BreaksOfIds DEF EndBreakCommit, EndIsActive
  <2>2. breaks' \in [BreakIds -> Breaks]
      BY <1>2, <1>12, <2>1 DEF EndBreakCommit
  <2>3. BreakTotal(req.date, req.brk) \in Int
      BY <2>1, BreakTotalIsInt
  <2>4. brk' \in [Dates -> Int]
      BY <1>12, <2>3, Replaced DEF EndBreakCommit
  <2> QED
      BY <1>12, <2>2, <2>4, EmptyTypes DEF EndBreakCommit
<1>13. CASE CoreCheckIn
  <2>1. NewRow(clock, FALSE) \in Rows
      BY <1>0, <1>1
  <2> DEFINE d == DateOf(clock)
             n == NewRow(clock, FALSE)
  <2>3. /\ rec' = [rec EXCEPT ![d] = n] /\ brk' = [brk EXCEPT ![d] = 0]
        /\ hours' = [hours EXCEPT ![d] = 0]
      BY <1>13 DEF CoreCheckIn
  <2> HIDE DEF d, n
  <2>4. rec' \in [Dates -> Rows]
    <3>1. n \in Rows
        BY <2>1 DEF n
    <3> QED
        BY <2>3, <3>1, Replaced
  <2>5. brk' \in [Dates -> Int]
      BY <2>3, Replaced
  <2>6. hours' \in [Dates -> Int]
      BY <2>3, Replaced
  <2> QED
      BY <1>13, <2>4, <2>5, <2>6 DEF CoreCheckIn
<1>14. CASE CoreCheckOut
  <2> DEFINE d == DateOf(clock)
             in == IF rec[d].state = "absent" THEN clock ELSE rec[d].in
             r == IF rec[d].state = "absent" THEN NewRow(clock, FALSE) ELSE rec[d]
             n == [r EXCEPT !.state = "closed", !.out = clock, !.punch = "OUT"]
  <2>1. /\ rec' = [rec EXCEPT ![d] = n] /\ hours' = [hours EXCEPT ![d] = clock - in]
        /\ brk' = [brk EXCEPT ![d] = IF rec[d].state = "absent" THEN 0 ELSE @]
        /\ UNCHANGED <<clock, breaks, req, edits>>
      BY <1>14 DEF CoreCheckOut
  <2>2. n \in Rows
    <3>1. r \in Rows
        BY <1>0, <1>1, <1>3
    <3> HIDE DEF r
    <3> QED
        BY <1>0, <3>1 DEF Rows
  <2>3. clock - in \in Int
      BY <1>0, <1>3 DEF Rows
  <2>4. brk' \in [Dates -> Int]
      BY <1>3, <2>1
  <2> HIDE DEF n, in
  <2> QED
      BY <2>1, <2>2, <2>3, <2>4
<1>15. ASSUME NEW d \in Dates, UpdateAttendance(d) PROVE TypeOK'
  <2>1. PICK in \in EditTimes \cup {rec[d].in} :
            \/ /\ rec' = [rec EXCEPT ![d].in = in, ![d].edited = TRUE]
               /\ UNCHANGED hours
            \/ \E out \in EditTimes :
                  /\ rec' = [rec EXCEPT ![d].state = "closed", ![d].in = in,
                                        ![d].out = out, ![d].edited = TRUE]
                  /\ hours' = [hours EXCEPT ![d] = out - in]
      BY <1>15 DEF UpdateAttendance
  <2>2. rec[d] \in Rows /\ in \in Nat
      BY Constants DEF Rows
  <2>5. /\ clock' \in Times /\ brk' \in [Dates -> Int] /\ breaks' \in [BreakIds -> Breaks]
        /\ req' \in Requests /\ (req'.op = "checkin" => req'.t \in Times)
      BY <1>15 DEF UpdateAttendance
  <2>6. edits' \in 0 .. MaxEdits
    <3>1. edits < MaxEdits /\ edits' = edits + 1
        BY <1>15 DEF UpdateAttendance
    <3> QED
        BY <3>1, TimeAssumption
  <2>3. CASE rec' = [rec EXCEPT ![d].in = in, ![d].edited = TRUE] /\ UNCHANGED hours
    <3> DEFINE n == [rec[d] EXCEPT !.in = in, !.edited = TRUE]
    <3>1. n \in Rows
        BY <2>2 DEF Rows
    <3>2. rec' = [rec EXCEPT ![d] = n]
        BY <2>3
    <3> HIDE DEF n
    <3>3. rec' \in [Dates -> Rows] /\ hours' \in [Dates -> Int]
        BY <2>3, <3>1, <3>2
    <3> QED
        BY <2>5, <2>6, <3>3
  <2>4. ASSUME NEW out \in EditTimes,
               rec' = [rec EXCEPT ![d].state = "closed", ![d].in = in,
                                  ![d].out = out, ![d].edited = TRUE],
               hours' = [hours EXCEPT ![d] = out - in]
        PROVE  TypeOK'
    <3> DEFINE n == [rec[d] EXCEPT !.state = "closed", !.in = in, !.out = out,
                                   !.edited = TRUE]
    <3>0. out \in Nat
        BY Constants
    <3>1. n \in Rows
        BY <2>2, <3>0 DEF Rows
    <3>4. out - in \in Int
        BY <2>2, <3>0
    <3>2. rec' = [rec EXCEPT ![d] = n]
        BY <2>4
    <3> HIDE DEF n
    <3>3. rec' \in [Dates -> Rows]
        BY <3>1, <3>2, Replaced
    <3>5. hours' \in [Dates -> Int]
        BY <2>4, <3>4, Replaced
    <3> QED
        BY <2>5, <2>6, <3>3, <3>5
  <2> QED
      BY <2>1, <2>3, <2>4
<1>16. ASSUME NEW d \in Dates, DeleteAttendance(d) PROVE TypeOK'
    BY <1>16, TimeAssumption, EmptyTypes DEF DeleteAttendance
<1>17. CASE Tick
    BY <1>17, Constants DEF Tick, Times
<1> QED
    BY <1>4, <1>5, <1>6, <1>7, <1>8, <1>9, <1>10, <1>11, <1>12, <1>13, <1>14, <1>15, <1>16,
       <1>17 DEF Next

\* No second break is active on a row, in terms of the breaks themselves.
AtMostOne == \A d \in Dates : \A b, c \in ActiveBreaks(d) : b = c

\* The two facts that a request in progress relies on stay true until it
\* commits: nobody else opens a session or starts a break.
StartIsFirst == req.op = "start" => ActiveBreaks(req.date) = {}

CheckInIsAlone == req.op = "checkin" => Open = {}

Inv == TypeOK /\ EndIsActive /\ AtMostOne /\ StartIsFirst /\ CheckInIsAlone

-----------------------------------------------------------------------------
\* Only a break that is started becomes active.
LEMMA BreaksOnlyEnd ==
    ASSUME TypeOK, [Next]_vars, ~StartBreakCommit, NEW d \in Dates
    PROVE  ActiveBreaks(d)' \subseteq ActiveBreaks(d)
<1> USE DEF ActiveBreaks, BreaksOf
<1>1. CASE UNCHANGED breaks
    BY <1>1
<1>2. CASE CheckOutCommit
  <2>1. \A b \in BreakIds : Ended(b).status = "COMPLETED"
      BY DEF Ended, TypeOK, Breaks
  <2>2. \A b \in BreakIds : breaks'[b] = breaks[b] \/ breaks'[b].status = "COMPLETED"
      BY <1>2, <2>1 DEF CheckOutCommit
  <2> QED
      BY <2>2
<1>3. CASE EndBreakCommit
  <2>1. \A b \in BreakIds : Ended(b).status = "COMPLETED"
      BY DEF Ended, TypeOK, Breaks
  <2>2. \A b \in BreakIds : breaks'[b] = breaks[b] \/ breaks'[b].status = "COMPLETED"
      BY <1>3, <2>1 DEF EndBreakCommit, TypeOK
  <2> QED
      BY <2>2
<1>4. ASSUME NEW e \in Dates, DeleteAttendance(e) PROVE ActiveBreaks(d)' \subseteq ActiveBreaks(d)
  <2>1. \A b \in BreakIds : breaks'[b] = breaks[b] \/ breaks'[b].status = "NONE"
      BY <1>4 DEF DeleteAttendance, NoBreak
  <2> QED
      BY <2>1
<1>5. UNCHANGED breaks \/ CheckOutCommit \/ EndBreakCommit \/ \E e \in Dates : DeleteAttendance(e)
    BY DEF Next, vars, CheckInBegin, CheckInFindsStale, CheckInCommit, CheckOutBegin,
           StartBreakBegin, EndBreakBegin, RequestRefused, RowHasGone, CoreCheckIn,
           CoreCheckOut, UpdateAttendance, Tick
<1> QED
    BY <1>1, <1>2, <1>3, <1>4, <1>5

\* Only the two check-ins open a session.
LEMMA SessionsOnlyEnd ==
    ASSUME TypeOK, [Next]_vars, ~CheckInCommit, ~CoreCheckIn
    PROVE  Open' \subseteq Open
<1> USE DEF Open
<1>1. CASE UNCHANGED rec
    BY <1>1
<1>2. CASE CheckOutCommit
    BY <1>2 DEF CheckOutCommit, TypeOK, Rows
<1>3. CASE CoreCheckOut
  <2>1. \A d \in Dates : rec'[d] = rec[d] \/ rec'[d].state = "closed"
      BY <1>3 DEF CoreCheckOut, TypeOK, Rows, NewRow, NoRow
  <2> QED
      BY <2>1
<1>4. ASSUME NEW e \in Dates, UpdateAttendance(e) PROVE Open' \subseteq Open
  <2>1. rec[e] \in Rows
      BY DEF TypeOK
  <2>2. rec'[e].state = rec[e].state \/ rec'[e].state = "closed"
    <3>1. PICK in \in EditTimes \cup {rec[e].in} :
              \/ rec' = [rec EXCEPT ![e].in = in, ![e].edited = TRUE]
              \/ \E out \in EditTimes :
                    rec' = [rec EXCEPT ![e].state = "closed", ![e].in = in,
                                       ![e].out = out, ![e].edited = TRUE]
        BY <1>4 DEF UpdateAttendance
    <3>2. \/ rec'[e] = [rec[e] EXCEPT !.in = in, !.edited = TRUE]
          \/ \E out \in EditTimes :
                rec'[e] = [rec[e] EXCEPT !.state = "closed", !.in = in, !.out = out,
                                         !.edited = TRUE]
        BY <3>1 DEF TypeOK
    <3> QED
        BY <2>1, <3>2 DEF Rows
  <2>3. \A d \in Dates : d # e => rec'[d] = rec[d]
      BY <1>4 DEF UpdateAttendance, TypeOK
  <2> QED
      BY <2>2, <2>3
<1>5. ASSUME NEW e \in Dates, DeleteAttendance(e) PROVE Open' \subseteq Open
    BY <1>5 DEF DeleteAttendance, NoRow, TypeOK
<1>6. UNCHANGED rec \/ CheckOutCommit \/ CoreCheckOut
          \/ \E e \in Dates : UpdateAttendance(e) \/ DeleteAttendance(e)
    BY DEF Next, vars, CheckInBegin, CheckInFindsStale, CheckOutBegin, StartBreakBegin,
           StartBreakCommit, EndBreakBegin, EndBreakCommit, RequestRefused, RowHasGone, Tick
<1> QED
    BY <1>1, <1>2, <1>3, <1>4, <1>5, <1>6

\* A request is new, or over, or it waits while the clock moves and HR works.
LEMMA RequestStep ==
    ASSUME [Next]_vars, req'.op \notin {"none", "failed"}
    PROVE  \/ CheckInBegin \/ CheckOutBegin \/ StartBreakBegin \/ EndBreakBegin
           \/ /\ req' = req
              /\ UNCHANGED vars \/ Tick \/ \E d \in Dates : UpdateAttendance(d) \/ DeleteAttendance(d)
<1>1. Idle.op = "none" /\ [Idle EXCEPT !.op = "failed"].op = "failed"
    BY DEF Idle
<1>2. ~(CheckInFindsStale \/ CheckInCommit \/ CheckOutCommit \/ StartBreakCommit
          \/ EndBreakCommit \/ RequestRefused \/ RowHasGone \/ CoreCheckIn \/ CoreCheckOut)
    BY <1>1 DEF CheckInFindsStale, CheckInCommit, CheckOutCommit, StartBreakCommit,
       EndBreakCommit, RequestRefused, RowHasGone, CoreCheckIn, CoreCheckOut
<1>3. UNCHANGED vars \/ Tick \/ (\E d \in Dates : UpdateAttendance(d) \/ DeleteAttendance(d))
          => req' = req
    BY DEF vars, Tick, UpdateAttendance, DeleteAttendance
<1> QED
    BY <1>2, <1>3 DEF Next

\* The operation of a request that has just begun.
LEMMA RequestBegins ==
    /\ CheckInBegin => req'.op = "checkin"
    /\ CheckOutBegin => req'.op = "checkout"
    /\ StartBreakBegin => req'.op = "start"
    /\ EndBreakBegin => req'.op = "end"
    BY DEF CheckInBegin, CheckOutBegin, StartBreakBegin, EndBreakBegin, Idle

\* HR's work on a row other than d leaves d and its breaks alone.
LEMMA OtherRowsStay ==
    ASSUME TypeOK, NEW e \in Dates, UpdateAttendance(e) \/ DeleteAttendance(e),
           NEW d \in Dates, d # e
    PROVE  /\ rec'[d] = rec[d] /\ brk'[d] = brk[d] /\ hours'[d] = hours[d]
           /\ BreaksOf(d)' = BreaksOf(d)
           /\ \A b \in BreaksOf(d) : breaks'[b] = breaks[b]
<1>1. CASE UpdateAttendance(e)
  <2>1. rec'[d] = rec[d] /\ hours'[d] = hours[d]
      BY <1>1 DEF UpdateAttendance, TypeOK
  <2>2. UNCHANGED <<brk, breaks>>
      BY <1>1 DEF UpdateAttendance
  <2> QED
      BY <2>1, <2>2 DEF BreaksOf
<1>2. CASE DeleteAttendance(e)
  <2>1. rec'[d] = rec[d] /\ brk'[d] = brk[d] /\ hours'[d] = hours[d]
      BY <1>2 DEF DeleteAttendance, TypeOK
  <2>2. breaks' = [b \in BreakIds |-> IF b \in BreaksOf(e) THEN NoBreak ELSE breaks[b]]
      BY <1>2 DEF DeleteAttendance
  <2>3. \A b \in BreakIds : b \notin BreaksOf(e) => breaks'[b] = breaks[b]
      BY <2>2
  <2>4. \A b \in BreakIds : b \in BreaksOf(e) => breaks'[b].status = "NONE"
      BY <2>2 DEF NoBreak
  <2>5. BreaksOf(d) \cap BreaksOf(e) = {}
      BY DEF BreaksOf
  <2>6. \A b \in BreaksOf(d) : breaks'[b] = breaks[b]
      BY <2>3, <2>5 DEF BreaksOf
  <2>7. BreaksOf(d)' = BreaksOf(d)
      BY <2>3, <2>4, <2>6 DEF BreaksOf
  <2> QED
      BY <2>1, <2>6, <2>7
<1> QED
    BY <1>1, <1>2

\* HR's edit keeps the row and marks it; a deletion takes its breaks along.
LEMMA EditedRow ==
    ASSUME TypeOK, NEW d \in Dates, UpdateAttendance(d)
    PROVE  /\ rec[d].state # "absent" /\ rec'[d].state # "absent" /\ rec'[d].edited
           /\ UNCHANGED <<brk, breaks>>
<1>1. rec[d] \in Rows
    BY DEF TypeOK
<1>2. PICK in \in EditTimes \cup {rec[d].in} :
          \/ rec' = [rec EXCEPT ![d].in = in, ![d].edited = TRUE]
          \/ \E out \in EditTimes :
                rec' = [rec EXCEPT ![d].state = "closed", ![d].in = in,
                                   ![d].out = out, ![d].edited = TRUE]
    BY DEF UpdateAttendance
<1>3. \/ rec'[d] = [rec[d] EXCEPT !.in = in, !.edited = TRUE]
      \/ \E out \in EditTimes :
            rec'[d] = [rec[d] EXCEPT !.state = "closed", !.in = in, !.out = out, !.edited = TRUE]
    BY <1>2 DEF TypeOK
<1>4. rec[d].state # "absent" /\ UNCHANGED <<brk, breaks>>
    BY DEF UpdateAttendance
<1>5. rec'[d].edited /\ rec'[d].state \in {rec[d].state, "closed"}
    BY <1>1, <1>3 DEF Rows
<1> QED
    BY <1>4, <1>5

LEMMA DeletedRow ==
    ASSUME TypeOK, NEW d \in Dates, DeleteAttendance(d)
    PROVE  rec'[d] = NoRow /\ brk'[d] = 0 /\ hours'[d] = 0 /\ BreaksOf(d)' = {}
<1>1. rec'[d] = NoRow /\ brk'[d] = 0 /\ hours'[d] = 0
    BY DEF DeleteAttendance, TypeOK
<1>2. \A b \in BreakIds : breaks'[b] = IF b \in BreaksOf(d) THEN NoBreak ELSE breaks[b]
    BY DEF DeleteAttendance
<1>3. \A b \in BreakIds : breaks'[b].status = "NONE" \/ breaks'[b].date # d
    BY <1>2 DEF BreaksOf, NoBreak
<1> QED
    BY <1>1, <1>3 DEF BreaksOf

LEMMA EndStaysActive ==
    ASSUME TypeOK, EndIsActive, [Next]_vars
    PROVE  EndIsActive'
<1> SUFFICES ASSUME req'.op = "end", rec'[req'.date].state # "absent"
             PROVE  (req.brk \in ActiveBreaks(req.date))'
    BY DEF EndIsActive
<1>1. CASE EndBreakBegin
  <2>1. PICK b \in ActiveBreaks(DateOf(clock)) :
            req' = [Idle EXCEPT !.op = "end", !.date = DateOf(clock), !.brk = b]
      BY <1>1 DEF EndBreakBegin
  <2>2. req'.date = DateOf(clock) /\ req'.brk = b
      BY <2>1 DEF Idle
  <2>3. UNCHANGED breaks
      BY <1>1 DEF EndBreakBegin
  <2> QED
      BY <2>2, <2>3 DEF ActiveBreaks, BreaksOf
<1>2. CASE req' = req /\ (UNCHANGED vars \/ Tick)
    BY <1>2 DEF vars, Tick, EndIsActive, ActiveBreaks, BreaksOf
<1>3. ASSUME req' = req, NEW e \in Dates, UpdateAttendance(e) \/ DeleteAttendance(e)
      PROVE  (req.brk \in ActiveBreaks(req.date))'
  <2>0. req.date \in Dates
      BY DEF TypeOK, Requests
  <2>1. CASE e # req.date
    <3>1. /\ rec'[req.date] = rec[req.date] /\ BreaksOf(req.date)' = BreaksOf(req.date)
          /\ \A b \in BreaksOf(req.date) : breaks'[b] = breaks[b]
        BY <1>3, <2>0, <2>1, OtherRowsStay
    <3>2. req.brk \in ActiveBreaks(req.date)
        BY <1>3, <3>1 DEF EndIsActive
    <3> QED
        BY <1>3, <3>1, <3>2 DEF ActiveBreaks
  <2>2. CASE e = req.date
    <3>1. ~DeleteAttendance(e)
        BY <1>3, <2>2, DeletedRow DEF NoRow
    <3>2. rec[req.date].state # "absent" /\ UNCHANGED breaks
        BY <1>3, <2>2, <3>1, EditedRow
    <3> QED
        BY <1>3, <3>2 DEF EndIsActive, ActiveBreaks, BreaksOf
  <2> QED
      BY <2>1, <2>2
<1> QED
    BY <1>1, <1>2, <1>3, RequestStep, RequestBegins

LEMMA InvStep ==
    ASSUME Inv, [Next]_vars
    PROVE  Inv'
<1>1. TypeOK'
    BY TypeStep DEF Inv
<1>4. EndIsActive'
    BY EndStaysActive DEF Inv
<1>2. CASE StartBreakCommit
  <2>1. PICK b \in BreakIds :
            breaks' = [breaks EXCEPT ![b] = [status |-> "ACTIVE", date |-> req.date,
                                             start |-> clock, duration |-> 0]]
      BY <1>2 DEF StartBreakCommit
  <2>2. \A d \in Dates : ActiveBreaks(d)' \subseteq
            ActiveBreaks(d) \cup (IF d = req.date THEN {b} ELSE {})
      BY <2>1 DEF ActiveBreaks, BreaksOf, Inv, TypeOK
  <2>3. ActiveBreaks(req.date) = {} /\ req.date \in Dates
      BY <1>2 DEF StartBreakCommit, Inv, StartIsFirst, TypeOK, Requests
  <2>4. AtMostOne'
    <3>1. SUFFICES ASSUME NEW d \in Dates
                   PROVE  \A c, e \in ActiveBreaks(d)' : c = e
        BY DEF AtMostOne
    <3>2. CASE d = req.date
        BY <2>2, <2>3, <3>2
    <3>3. CASE d # req.date
        BY <2>2, <3>1, <3>3 DEF Inv, AtMostOne
    <3> QED
        BY <3>2, <3>3
  <2>5. req'.op = "none"
      BY <1>2 DEF StartBreakCommit, Idle
  <2> QED
      BY <1>1, <1>4, <2>4, <2>5 DEF Inv, StartIsFirst, CheckInIsAlone
<1>3. CASE ~StartBreakCommit
  <2>1. \A d \in Dates : ActiveBreaks(d)' \subseteq ActiveBreaks(d)
      BY <1>3, BreaksOnlyEnd DEF Inv
  <2>2. AtMostOne'
      BY <2>1 DEF Inv, AtMostOne
  <2>3. StartIsFirst'
    <3>1. CASE StartBreakBegin
      <4>1. req'.date = DateOf(clock) /\ ActiveBreaks(DateOf(clock)) = {} /\ DateOf(clock) \in Dates
          BY <3>1, DatesAreKnown DEF StartBreakBegin, Idle, Inv, TypeOK
      <4> QED
          BY <2>1, <4>1 DEF StartIsFirst
    <3>3. CASE req' = req
      <4>1. req.date \in Dates
          BY DEF Inv, TypeOK, Requests
      <4> QED
          BY <2>1, <3>3, <4>1 DEF Inv, StartIsFirst
    <3>4. CASE req'.op # "start"
        BY <3>4 DEF StartIsFirst
    <3> QED
        BY <3>1, <3>3, <3>4, RequestStep, RequestBegins
  <2>4. CheckInIsAlone'
    <3>1. CASE CheckInCommit
        BY <3>1 DEF CheckInCommit, Idle, CheckInIsAlone
    <3>2. CASE CoreCheckIn
        BY <3>2 DEF CoreCheckIn, CheckInIsAlone
    <3>3. CASE ~CheckInCommit /\ ~CoreCheckIn
      <4>1. Open' \subseteq Open
          BY <3>3, SessionsOnlyEnd DEF Inv
      <4>3. CASE CheckInBegin
          BY <4>1, <4>3 DEF CheckInBegin, CheckInIsAlone
      <4>4. CASE req' = req
          BY <4>1, <4>4 DEF Inv, CheckInIsAlone
      <4>5. CASE req'.op # "checkin"
          BY <4>5 DEF CheckInIsAlone
      <4> QED
          BY <4>3, <4>4, <4>5, RequestStep, RequestBegins
    <3> QED
        BY <3>1, <3>2, <3>3
  <2> QED
      BY <1>1, <1>4, <2>2, <2>3, <2>4 DEF Inv
<1> QED
    BY <1>2, <1>3

LEMMA InvInit == Init => Inv
<1>2. Init => TypeOK
    BY EmptyTypes, TimeAssumption DEF Init, TypeOK, Times
<1>3. Init => \A d \in Dates : ActiveBreaks(d) = {}
    BY DEF Init, ActiveBreaks, BreaksOf, NoBreak
<1>4. Init => req.op = "none"
    BY DEF Init, Idle
<1> QED
    BY <1>2, <1>3, <1>4 DEF Inv, EndIsActive, AtMostOne, StartIsFirst, CheckInIsAlone

\* The inductive invariant holds.
THEOREM InvHolds == Spec => []Inv
    BY InvInit, InvStep, PTL DEF Spec

\* However long its face check takes and whatever HR does meanwhile, a request
\* never gives a row a second active break.
THEOREM BreaksAreSingle == Spec => []OneActiveBreak
<1>1. Inv => OneActiveBreak
  <2>1. SUFFICES ASSUME Inv, NEW d \in Dates PROVE Cardinality(ActiveBreaks(d)) <= 1
      BY DEF OneActiveBreak
  <2>2. \A b, c \in ActiveBreaks(d) : b = c
      BY <2>1, Constants DEF Inv, AtMostOne
  <2>3. CASE ActiveBreaks(d) = {}
      BY <2>3, FS_EmptySet
  <2>4. CASE ActiveBreaks(d) # {}
    <3>1. PICK b : ActiveBreaks(d) = {b}
        BY <2>2, <2>4
    <3> QED
        BY <3>1, FS_Singleton
  <2> QED
      BY <2>3, <2>4
<1> QED
    BY <1>1, InvHolds, PTL

\* A face check-in opens a session only when no other is open, for any clock
\* and any edits of HR between its checks and its insert.
THEOREM SessionsOpenAlone == Spec => OpensAlone
<1>1. Inv /\ [Next]_vars => [\A d \in Dates :
          rec[d].state = "absent" /\ rec'[d].state = "open" /\ rec'[d].snapshot
              => Open = {}]_vars
  <2>1. SUFFICES ASSUME Inv, [Next]_vars, NEW d \in Dates,
                        rec[d].state = "absent", rec'[d].state = "open", rec'[d].snapshot
                 PROVE  Open = {}
      OBVIOUS
  <2>2. d \notin Open /\ d \in Open'
      BY <2>1 DEF Open
  <2>3. CheckInCommit \/ CoreCheckIn
      BY <2>1, <2>2, SessionsOnlyEnd DEF Inv
  <2>4. CASE CheckInCommit
      BY <2>1, <2>4 DEF CheckInCommit, Inv, CheckInIsAlone
  <2>5. CASE CoreCheckIn
    <3>1. rec'[d] = rec[d] \/ rec'[d] = NewRow(clock, FALSE)
        BY <2>1, <2>5 DEF CoreCheckIn, Inv, TypeOK
    <3>2. ~NewRow(clock, FALSE).snapshot
        BY DEF NewRow, NoRow
    <3> QED
        BY <2>1, <3>1, <3>2
  <2> QED
      BY <2>3, <2>4, <2>5
<1> QED
    BY <1>1, InvHolds, PTL DEF Spec, OpensAlone

\* Every variable keeps its type: a row or a break is always booked under a date
\* of the calendar, also a punch after midnight, and an ended break is one of
\* the rows of attendance_breaks.
THEOREM AttendanceTypeCorrect == Spec => []TypeOK
<1>1. Inv => TypeOK
    BY DEF Inv
<1> QED
    BY <1>1, InvHolds, PTL

(***************************************************************************)
(* Hours and breaks.  The sum of the breaks fits into the session because  *)
(* they lie one after the other in it, and that needs what a request has   *)
(* read to be true when it commits.                                        *)
(***************************************************************************)
Taken(b) == breaks[b].status # "NONE"

EndOf(b) == breaks[b].start + breaks[b].duration

BreaksPast ==
    \A b \in BreakIds : Taken(b) =>
        /\ 0 <= breaks[b].duration /\ EndOf(b) <= clock
        /\ breaks[b].status = "ACTIVE" => breaks[b].duration = 0

\* Breaks of one date follow each other, the active one last.
BreaksApart ==
    \A b, c \in BreakIds :
        b # c /\ Taken(b) /\ Taken(c) /\ breaks[b].date = breaks[c].date =>
            /\ EndOf(b) <= breaks[c].start \/ EndOf(c) <= breaks[b].start
            /\ breaks[b].status = "ACTIVE" => EndOf(c) <= breaks[b].start

NoOrphans == \A d \in Dates : rec[d].state = "absent" => BreaksOf(d) = {}

InPast ==
    /\ \A d \in Dates : Untouched(d) => rec[d].in <= clock
    /\ req.op = "checkin" => req.t <= clock

\* A row that a request has loaded is still as it was, gone, or marked by HR.
RequestHolds ==
    req.op \in {"start", "end", "checkout"} /\ rec[req.date].state # "absent" /\ Untouched(req.date)
        => rec[req.date].state = "open" /\ (req.op = "checkout" => req.t = rec[req.date].in)

BreakInv == BreaksPast /\ BreaksApart /\ NoOrphans

RowInv == InPast /\ RequestHolds

LEMMA BreakTypes ==
    ASSUME TypeOK, NEW b \in BreakIds
    PROVE  /\ breaks[b].start \in Nat /\ breaks[b].duration \in Int /\ EndOf(b) \in Int
           /\ breaks[b].status \in {"NONE", "ACTIVE", "COMPLETED"} /\ breaks[b].date \in Dates
           /\ clock \in Nat /\ clock <= MaxClock
<1>1. breaks[b] \in Breaks /\ clock \in Times
    BY DEF TypeOK
<1>2. breaks[b].start \in Nat /\ breaks[b].duration \in Int
    BY <1>1 DEF Breaks
<1> QED
    BY <1>1, <1>2, Constants DEF Breaks, EndOf, Times

LEMMA EndedIs ==
    ASSUME TypeOK, NEW b \in BreakIds
    PROVE  /\ Ended(b).status = "COMPLETED" /\ Ended(b).date = breaks[b].date
           /\ Ended(b).start = breaks[b].start /\ Ended(b).duration = clock - breaks[b].start
<1>1. breaks[b] \in Breaks
    BY DEF TypeOK
<1> QED
    BY <1>1 DEF Ended, Breaks

\* end_break and check_out both end the one active break of their row.
LEMMA EndsBreak ==
    ASSUME Inv, CheckOutCommit \/ EndBreakCommit
    PROVE  /\ req.date \in Dates /\ rec[req.date].state # "absent" /\ UNCHANGED clock
           /\ \A b \in BreakIds :
                breaks'[b] = IF b \in ActiveBreaks(req.date) THEN Ended(b) ELSE breaks[b]
           /\ \A d \in Dates : d # req.date => brk'[d] = brk[d]
           /\ ActiveBreaks(req.date) = {} => brk'[req.date] = brk[req.date]
           /\ \A b \in ActiveBreaks(req.date) : brk'[req.date] = BreakTotal(req.date, b)
<1> DEFINE d == req.date
           A == ActiveBreaks(d)
<1>0. d \in Dates /\ brk \in [Dates -> Int] /\ breaks \in [BreakIds -> Breaks]
    BY DEF Inv, TypeOK, Requests
<1>1. \A b, c \in A : b = c
    BY <1>0 DEF Inv, AtMostOne
<1>2. CASE CheckOutCommit
  <2> DEFINE x == CHOOSE b \in A : TRUE
  <2>1. /\ rec[d].state # "absent" /\ UNCHANGED clock
        /\ brk' = [brk EXCEPT ![d] = IF A = {} THEN @ ELSE BreakTotal(d, x)]
        /\ breaks' = [b \in BreakIds |-> IF b \in A THEN Ended(b) ELSE breaks[b]]
      BY <1>2 DEF CheckOutCommit
  <2>2. \A b \in A : x = b
    <3>1. A # {} => x \in A
        OBVIOUS
    <3> HIDE DEF x, A
    <3> QED
        BY <1>1, <3>1
  <2> HIDE DEF x, A
  <2>3. brk'[d] = (IF A = {} THEN brk[d] ELSE BreakTotal(d, x)) /\ \A e \in Dates \ {d} : brk'[e] = brk[e]
      BY <1>0, <2>1
  <2> QED
      BY <1>0, <2>1, <2>2, <2>3 DEF A
<1>3. CASE EndBreakCommit
  <2>1. /\ rec[d].state # "absent" /\ UNCHANGED clock
        /\ brk' = [brk EXCEPT ![d] = BreakTotal(d, req.brk)]
        /\ breaks' = [breaks EXCEPT ![req.brk] = Ended(req.brk)]
      BY <1>3 DEF EndBreakCommit
  <2>2. req.brk \in A
      BY <1>3, <2>1 DEF Inv, EndIsActive, EndBreakCommit
  <2>3. A = {req.brk} /\ A \subseteq BreakIds
      BY <1>1, <2>2, BreaksOfIds
  <2> HIDE DEF A
  <2>4. \A b \in BreakIds : breaks'[b] = IF b \in A THEN Ended(b) ELSE breaks[b]
      BY <1>0, <2>1, <2>3
  <2>5. brk'[d] = BreakTotal(d, req.brk) /\ \A e \in Dates \ {d} : brk'[e] = brk[e]
      BY <1>0, <2>1
  <2> QED
      BY <1>0, <2>1, <2>3, <2>4, <2>5 DEF A
<1> QED
    BY <1>2, <1>3

\* start_break takes a row of attendance_breaks that is free.
LEMMA StartsBreak ==
    ASSUME Inv, StartBreakCommit
    PROVE  \E b \in BreakIds :
             /\ ~Taken(b) /\ UNCHANGED <<clock, rec, brk, hours>>
             /\ req.date \in Dates /\ rec[req.date].state # "absent"
             /\ breaks'[b] = [status |-> "ACTIVE", date |-> req.date, start |-> clock, duration |-> 0]
             /\ \A c \in BreakIds \ {b} : breaks'[c] = breaks[c]
<1>1. PICK b \in BreakIds :
          /\ breaks[b].status = "NONE"
          /\ breaks' = [breaks EXCEPT ![b] = [status |-> "ACTIVE", date |-> req.date,
                                              start |-> clock, duration |-> 0]]
    BY DEF StartBreakCommit
<1>2. /\ UNCHANGED <<clock, rec, brk, hours>> /\ rec[req.date].state # "absent"
      /\ req.date \in Dates
    BY DEF StartBreakCommit, Inv, TypeOK, Requests
<1>3. /\ breaks'[b] = [status |-> "ACTIVE", date |-> req.date, start |-> clock, duration |-> 0]
      /\ \A c \in BreakIds \ {b} : breaks'[c] = breaks[c]
    BY <1>1 DEF Inv, TypeOK
<1> QED
    BY <1>1, <1>2, <1>3 DEF Taken

\* The steps that write attendance_breaks.
LEMMA BreaksStep ==
    ASSUME [Next]_vars
    PROVE  \/ UNCHANGED breaks
           \/ StartBreakCommit \/ CheckOutCommit \/ EndBreakCommit
           \/ \E e \in Dates : DeleteAttendance(e)
    BY DEF Next, vars, CheckInBegin, CheckInFindsStale, CheckInCommit, CheckOutBegin,
           StartBreakBegin, EndBreakBegin, RequestRefused, RowHasGone, CoreCheckIn,
           CoreCheckOut, UpdateAttendance, Tick

LEMMA DeletesBreaks ==
    ASSUME NEW e \in Dates, DeleteAttendance(e), NEW b \in BreakIds
    PROVE  breaks'[b] = breaks[b] \/ breaks'[b].status = "NONE"
    BY DEF DeleteAttendance, NoBreak

LEMMA ClockStep ==
    ASSUME TypeOK, [Next]_vars
    PROVE  clock \in Nat /\ clock' \in Nat /\ clock <= clock'
<1>1. clock \in Nat
    BY Constants DEF TypeOK
<1>2. clock' = clock \/ clock' = clock + 1
    BY DEF Next, vars, CheckInBegin, CheckInFindsStale, CheckInCommit, CheckOutBegin,
           CheckOutCommit, StartBreakBegin, StartBreakCommit, EndBreakBegin, EndBreakCommit,
           RequestRefused, RowHasGone, CoreCheckIn, CoreCheckOut, UpdateAttendance,
           DeleteAttendance, Tick
<1> QED
    BY <1>1, <1>2

LEMMA PastStep ==
    ASSUME Inv, BreaksPast, [Next]_vars
    PROVE  BreaksPast'
<1> DEFINE Past(b) == Taken(b) => /\ 0 <= breaks[b].duration /\ EndOf(b) <= clock
                                  /\ breaks[b].status = "ACTIVE" => breaks[b].duration = 0
<1>0. TypeOK
    BY DEF Inv
<1> SUFFICES ASSUME NEW b \in BreakIds PROVE Past(b)'
    BY DEF BreaksPast
<1>1. clock \in Nat /\ clock' \in Nat /\ clock <= clock'
    BY <1>0, ClockStep
<1>2. Past(b) /\ breaks[b].start \in Nat /\ breaks[b].duration \in Int
    BY <1>0, BreakTypes DEF BreaksPast
<1>3. CASE breaks'[b] = breaks[b]
    BY <1>1, <1>2, <1>3 DEF Taken, EndOf
<1>4. CASE breaks'[b].status = "NONE"
    BY <1>4 DEF Taken
<1>5. CASE StartBreakCommit
  <2>1. PICK n \in BreakIds :
          /\ breaks'[n] = [status |-> "ACTIVE", date |-> req.date, start |-> clock, duration |-> 0]
          /\ \A c \in BreakIds \ {n} : breaks'[c] = breaks[c]
      BY <1>5, StartsBreak
  <2>2. CASE b = n
      BY <1>1, <2>1, <2>2 DEF Taken, EndOf
  <2> QED
      BY <1>3, <2>1, <2>2
<1>6. CASE CheckOutCommit \/ EndBreakCommit
  <2>1. breaks'[b] = IF b \in ActiveBreaks(req.date) THEN Ended(b) ELSE breaks[b]
      BY <1>6, EndsBreak
  <2>2. CASE b \in ActiveBreaks(req.date)
    <3>1. Taken(b)
        BY <2>2 DEF ActiveBreaks, BreaksOf, Taken
    <3>2. /\ breaks'[b].status = "COMPLETED" /\ breaks'[b].start = breaks[b].start
          /\ breaks'[b].duration = clock - breaks[b].start
        BY <1>0, <2>1, <2>2, EndedIs
    <3> QED
        BY <1>1, <1>2, <3>1, <3>2 DEF EndOf
  <2> QED
      BY <1>3, <2>1, <2>2
<1> QED
    BY <1>3, <1>4, <1>5, <1>6, BreaksStep, DeletesBreaks

LEMMA ApartStep ==
    ASSUME Inv, BreaksPast, BreaksApart, [Next]_vars
    PROVE  BreaksApart'
<1> DEFINE Apart(b, c) ==
             b # c /\ Taken(b) /\ Taken(c) /\ breaks[b].date = breaks[c].date =>
               /\ EndOf(b) <= breaks[c].start \/ EndOf(c) <= breaks[b].start
               /\ breaks[b].status = "ACTIVE" => EndOf(c) <= breaks[b].start
<1>0. TypeOK
    BY DEF Inv
<1> SUFFICES ASSUME NEW b \in BreakIds, NEW c \in BreakIds, b # c PROVE Apart(b, c)'
    BY DEF BreaksApart
<1>1. Apart(b, c) /\ Apart(c, b)
    BY DEF BreaksApart
<1>2. CASE breaks'[b] = breaks[b] /\ breaks'[c] = breaks[c]
    BY <1>1, <1>2 DEF Taken, EndOf
<1>3. CASE breaks'[b].status = "NONE" \/ breaks'[c].status = "NONE"
    BY <1>3 DEF Taken
<1>4. CASE StartBreakCommit
  <2>1. PICK n \in BreakIds :
          /\ breaks'[n] = [status |-> "ACTIVE", date |-> req.date, start |-> clock, duration |-> 0]
          /\ \A x \in BreakIds \ {n} : breaks'[x] = breaks[x]
      BY <1>4, StartsBreak
  <2>2. CASE b = n
    <3>1. breaks'[c] = breaks[c] /\ breaks'[b].start = clock /\ breaks'[b].status = "ACTIVE"
        BY <2>1, <2>2
    <3>2. Taken(c) => EndOf(c) <= clock
        BY DEF BreaksPast
    <3> QED
        BY <3>1, <3>2 DEF Taken, EndOf
  <2>3. CASE c = n
    <3>1. breaks'[b] = breaks[b] /\ breaks'[c].start = clock /\ breaks'[c].date = req.date
        BY <2>1, <2>3
    <3>2. Taken(b) => EndOf(b) <= clock
        BY DEF BreaksPast
    <3>3. Taken(b) /\ breaks[b].date = req.date => breaks[b].status # "ACTIVE"
        BY <1>4 DEF Inv, StartIsFirst, StartBreakCommit, ActiveBreaks, BreaksOf, Taken
    <3> QED
        BY <3>1, <3>2, <3>3 DEF Taken, EndOf
  <2> QED
      BY <1>2, <2>1, <2>2, <2>3
<1>5. CASE CheckOutCommit \/ EndBreakCommit
  <2> DEFINE A == ActiveBreaks(req.date)
  <2>1. /\ breaks'[b] = IF b \in A THEN Ended(b) ELSE breaks[b]
        /\ breaks'[c] = IF c \in A THEN Ended(c) ELSE breaks[c]
        /\ req.date \in Dates
      BY <1>5, EndsBreak
  <2>2. ~(b \in A /\ c \in A)
      BY <2>1 DEF Inv, AtMostOne
  <2>3. \A x \in A : Taken(x) /\ breaks[x].date = req.date /\ breaks[x].status = "ACTIVE"
      BY DEF ActiveBreaks, BreaksOf, Taken
  <2>4. \A x \in BreakIds :
          Taken(x) /\ breaks[x].date = req.date /\ breaks[x].status = "ACTIVE" => x \in A
      BY DEF ActiveBreaks, BreaksOf, Taken
  <2> HIDE DEF A
  <2>5. CASE b \in A
    <3>1. breaks'[c] = breaks[c]
        BY <2>1, <2>2, <2>5
    <3>2. /\ breaks'[b].status = "COMPLETED" /\ breaks'[b].start = breaks[b].start
          /\ breaks'[b].date = breaks[b].date
        BY <1>0, <2>1, <2>5, EndedIs
    <3> QED
        BY <1>1, <2>3, <2>5, <3>1, <3>2 DEF Taken, EndOf
  <2>6. CASE c \in A
    <3>1. breaks'[b] = breaks[b] /\ b \notin A
        BY <2>1, <2>2, <2>6
    <3>2. /\ breaks'[c].status = "COMPLETED" /\ breaks'[c].start = breaks[c].start
          /\ breaks'[c].date = breaks[c].date
        BY <1>0, <2>1, <2>6, EndedIs
    <3>3. Taken(b) /\ breaks[b].date = breaks[c].date =>
              breaks[b].status # "ACTIVE" /\ EndOf(b) <= breaks[c].start
        BY <1>1, <2>3, <2>4, <2>6, <3>1
    <3> QED
        BY <3>1, <3>2, <3>3 DEF Taken, EndOf
  <2> QED
      BY <1>2, <2>1, <2>5, <2>6
<1> QED
    BY <1>2, <1>3, <1>4, <1>5, BreaksStep, DeletesBreaks

\* What a step makes of a row: nothing, a mark that others have written to it, a
\* new session, a deletion, or the check-out of the request.
LEMMA RowStep ==
    ASSUME Inv, [Next]_vars, NEW d \in Dates
    PROVE  \/ rec'[d] = rec[d] /\ hours'[d] = hours[d]
           \/ rec'[d].state # "absent" /\ (rec'[d].edited \/ rec'[d].punch = "OUT")
           \/ /\ rec[d].state = "absent" /\ rec'[d].state = "open"
              /\ rec'[d].in = clock \/ (req.op = "checkin" /\ rec'[d].in = req.t)
           \/ DeleteAttendance(d)
           \/ CheckOutCommit /\ req.date = d
<1> DEFINE Same == rec'[d] = rec[d] /\ hours'[d] = hours[d]
           Marked == rec'[d].state # "absent" /\ (rec'[d].edited \/ rec'[d].punch = "OUT")
           New == /\ rec[d].state = "absent" /\ rec'[d].state = "open"
                  /\ rec'[d].in = clock \/ (req.op = "checkin" /\ rec'[d].in = req.t)
<1>0. TypeOK /\ rec \in [Dates -> Rows] /\ hours \in [Dates -> Int]
    BY DEF Inv, TypeOK
<1>2. CASE CheckInCommit
  <2>1. CASE rec[BusinessDate(req.t)].state = "absent" /\ d = BusinessDate(req.t)
    <3>1. rec'[d] = NewRow(req.t, TRUE)
        BY <1>0, <1>2, <2>1 DEF CheckInCommit
    <3>2. NewRow(req.t, TRUE).state = "open" /\ NewRow(req.t, TRUE).in = req.t
        BY DEF NewRow, NoRow
    <3>3. New
        BY <1>2, <2>1, <3>1, <3>2 DEF CheckInCommit
    <3> QED
        BY <3>3
  <2>2. CASE ~(rec[BusinessDate(req.t)].state = "absent" /\ d = BusinessDate(req.t))
    <3>1. Same
        BY <1>0, <1>2, <2>2 DEF CheckInCommit
    <3> QED
        BY <3>1
  <2> QED
      BY <2>1, <2>2
<1>3. CASE CoreCheckIn
  <2>1. CASE d = DateOf(clock)
    <3>1. rec[d].state = "absent" /\ rec'[d] = NewRow(clock, FALSE)
        BY <1>0, <1>3, <2>1 DEF CoreCheckIn
    <3>2. NewRow(clock, FALSE).state = "open" /\ NewRow(clock, FALSE).in = clock
        BY DEF NewRow, NoRow
    <3>3. New
        BY <3>1, <3>2
    <3> QED
        BY <3>3
  <2>2. CASE d # DateOf(clock)
    <3>1. Same
        BY <1>0, <1>3, <2>2 DEF CoreCheckIn
    <3> QED
        BY <3>1
  <2> QED
      BY <2>1, <2>2
<1>4. CASE CoreCheckOut
  <2>1. CASE d = DateOf(clock)
    <3> DEFINE r == IF rec[d].state = "absent" THEN NewRow(clock, FALSE) ELSE rec[d]
    <3>1. rec'[d] = [r EXCEPT !.state = "closed", !.out = clock, !.punch = "OUT"]
        BY <1>0, <1>4, <2>1 DEF CoreCheckOut
    <3>2. r \in Rows
      <4>1. NewRow(clock, FALSE) \in Rows
          BY <1>0, EmptyTypes, Constants DEF NewRow, Rows, TypeOK
      <4> QED
          BY <1>0, <4>1
    <3> HIDE DEF r
    <3>3. Marked
        BY <3>1, <3>2 DEF Rows
    <3> QED
        BY <3>3
  <2>2. CASE d # DateOf(clock)
    <3>1. Same
        BY <1>0, <1>4, <2>2 DEF CoreCheckOut
    <3> QED
        BY <3>1
  <2> QED
      BY <2>1, <2>2
<1>5. CASE CheckOutCommit
  <2>1. d # req.date => Same
      BY <1>0, <1>5 DEF CheckOutCommit
  <2> QED
      BY <1>5, <2>1
<1>6. ASSUME NEW e \in Dates, UpdateAttendance(e) \/ DeleteAttendance(e)
      PROVE  Same \/ Marked \/ DeleteAttendance(d)
  <2>1. CASE d # e
      BY <1>0, <1>6, <2>1, OtherRowsStay
  <2>2. CASE d = e /\ UpdateAttendance(e)
      BY <1>0, <2>2, EditedRow
  <2> QED
      BY <1>6, <2>1, <2>2
<1>7. CASE UNCHANGED <<rec, hours>>
    BY <1>7
<1>8. \/ UNCHANGED <<rec, hours>>
      \/ CheckInCommit \/ CoreCheckIn \/ CoreCheckOut \/ CheckOutCommit
      \/ \E e \in Dates : UpdateAttendance(e) \/ DeleteAttendance(e)
    BY DEF Next, vars, CheckInBegin, CheckInFindsStale, CheckOutBegin, StartBreakBegin,
           StartBreakCommit, EndBreakBegin, EndBreakCommit, RequestRefused, RowHasGone, Tick
<1> QED
    BY <1>2, <1>3, <1>4, <1>5, <1>6, <1>7, <1>8

\* Only start_break adds a break to a row, and the row is there.
LEMMA BreaksOfStep ==
    ASSUME Inv, [Next]_vars, NEW d \in Dates
    PROVE  \/ BreaksOf(d)' \subseteq BreaksOf(d)
           \/ StartBreakCommit /\ d = req.date /\ rec[d].state # "absent" /\ UNCHANGED rec
<1>0. TypeOK
    BY DEF Inv
<1>1. CASE StartBreakCommit
  <2>1. PICK n \in BreakIds :
          /\ UNCHANGED rec /\ rec[req.date].state # "absent"
          /\ breaks'[n] = [status |-> "ACTIVE", date |-> req.date, start |-> clock, duration |-> 0]
          /\ \A c \in BreakIds \ {n} : breaks'[c] = breaks[c]
      BY <1>1, StartsBreak
  <2>2. d # req.date => BreaksOf(d)' \subseteq BreaksOf(d)
      BY <2>1 DEF BreaksOf
  <2> QED
      BY <1>1, <2>1, <2>2
<1>2. CASE CheckOutCommit \/ EndBreakCommit
  <2>1. \A b \in BreakIds :
          breaks'[b] = IF b \in ActiveBreaks(req.date) THEN Ended(b) ELSE breaks[b]
      BY <1>2, EndsBreak
  <2>2. \A b \in ActiveBreaks(req.date) : b \in BreakIds /\ breaks[b].status = "ACTIVE"
      BY DEF ActiveBreaks, BreaksOf
  <2>3. \A b \in BreakIds : Ended(b).date = breaks[b].date
      BY <1>0, EndedIs
  <2>4. BreaksOf(d)' \subseteq BreaksOf(d)
      BY <2>1, <2>2, <2>3 DEF BreaksOf
  <2> QED
      BY <2>4
<1>3. ASSUME NEW e \in Dates, DeleteAttendance(e) PROVE BreaksOf(d)' \subseteq BreaksOf(d)
  <2>1. \A b \in BreakIds : breaks'[b] = breaks[b] \/ breaks'[b].status = "NONE"
      BY <1>3, DeletesBreaks
  <2> QED
      BY <2>1 DEF BreaksOf
<1>4. CASE UNCHANGED breaks
    BY <1>4 DEF BreaksOf
<1> QED
    BY <1>1, <1>2, <1>3, <1>4, BreaksStep

LEMMA OrphansStep ==
    ASSUME Inv, NoOrphans, [Next]_vars
    PROVE  NoOrphans'
<1>0. TypeOK
    BY DEF Inv
<1> SUFFICES ASSUME NEW d \in Dates, rec'[d].state = "absent" PROVE BreaksOf(d)' = {}
    BY DEF NoOrphans
<1>1. CASE DeleteAttendance(d)
    BY <1>0, <1>1, DeletedRow
<1>2. CASE CheckOutCommit /\ req.date = d
  <2>1. rec'[d].state = "closed"
      BY <1>0, <1>2 DEF CheckOutCommit, TypeOK, Rows
  <2> QED
      BY <2>1
<1>3. CASE rec'[d] = rec[d]
    BY <1>3, BreaksOfStep DEF NoOrphans
<1> QED
    BY <1>1, <1>2, <1>3, RowStep

\* check_out writes the state and the time of the row it has loaded.
LEMMA CheckedOutRow ==
    ASSUME Inv, CheckOutCommit, NEW d \in Dates, d = req.date
    PROVE  /\ rec'[d].state = "closed" /\ rec'[d].out = clock
           /\ rec'[d].in = rec[d].in /\ rec'[d].snapshot = rec[d].snapshot
           /\ Untouched(d)' => Untouched(d)
           /\ rec[d].state # "absent"
           /\ hours'[d] = WorkedHours(d, req.t, clock, brk'[d])
<1>1. rec \in [Dates -> Rows] /\ hours \in [Dates -> Int] /\ rec[d] \in Rows
    BY DEF Inv, TypeOK, Requests
<1>2. rec' = [rec EXCEPT ![d].state = "closed", ![d].out = clock]
    BY DEF CheckOutCommit
<1>3. rec'[d] = [rec[d] EXCEPT !.state = "closed", !.out = clock]
    BY <1>1, <1>2
<1>4. /\ rec'[d].state = "closed" /\ rec'[d].out = clock /\ rec'[d].in = rec[d].in
      /\ rec'[d].snapshot = rec[d].snapshot /\ rec'[d].punch = rec[d].punch
      /\ rec'[d].edited = rec[d].edited
    BY <1>1, <1>3 DEF Rows
<1>5. hours'[d] = WorkedHours(d, req.t, clock, brk'[d]) /\ rec[d].state # "absent"
    BY <1>1 DEF CheckOutCommit
<1>6. Untouched(d)' => Untouched(d)
    BY <1>4 DEF Untouched
<1> QED
    BY <1>4, <1>5, <1>6

LEMMA InPastStep ==
    ASSUME Inv, InPast, [Next]_vars
    PROVE  InPast'
<1>0. TypeOK
    BY DEF Inv
<1>1. clock \in Nat /\ clock' \in Nat /\ clock <= clock'
    BY <1>0, ClockStep
<1>2. ASSUME NEW d \in Dates, Untouched(d)' PROVE rec'[d].in <= clock'
  <2>1. CASE rec'[d] = rec[d]
    <3>1. Untouched(d) /\ rec[d].in \in Nat
        BY <1>0, <1>2, <2>1 DEF Untouched, TypeOK, Rows
    <3>2. rec[d].in <= clock
        BY <3>1 DEF InPast
    <3> QED
        BY <1>1, <2>1, <3>1, <3>2
  <2>2. CASE rec'[d].in = clock \/ (req.op = "checkin" /\ rec'[d].in = req.t)
    <3>1. req.t \in Nat
        BY <1>0 DEF TypeOK, Requests
    <3> QED
        BY <1>1, <2>2, <3>1 DEF InPast
  <2>3. CASE DeleteAttendance(d)
    <3>1. rec'[d].in = 0
        BY <1>0, <2>3, DeletedRow DEF NoRow
    <3> QED
        BY <1>1, <3>1
  <2>4. CASE CheckOutCommit /\ req.date = d
    <3>1. rec'[d].in = rec[d].in /\ Untouched(d)
        BY <1>2, <2>4, CheckedOutRow
    <3>2. rec[d].in <= clock /\ rec[d].in \in Nat
        BY <1>0, <3>1 DEF InPast, TypeOK, Rows
    <3> QED
        BY <1>1, <3>1, <3>2
  <2>5. ~(rec'[d].edited \/ rec'[d].punch = "OUT")
      BY <1>2 DEF Untouched
  <2> QED
      BY <2>1, <2>2, <2>3, <2>4, <2>5, RowStep
<1>3. ASSUME req'.op = "checkin" PROVE req'.t <= clock'
  <2>1. CASE CheckInBegin
      BY <1>1, <2>1 DEF CheckInBegin, Idle
  <2>2. CASE req' = req
    <3>1. req.t \in Nat /\ req.t <= clock
        BY <1>0, <1>3, <2>2 DEF InPast, TypeOK, Requests
    <3> QED
        BY <1>1, <2>2, <3>1
  <2> QED
      BY <1>3, <2>1, <2>2, RequestStep, RequestBegins
<1> QED
    BY <1>2, <1>3 DEF InPast

LEMMA HoldsStep ==
    ASSUME Inv, RequestHolds, [Next]_vars
    PROVE  RequestHolds'
<1>0. TypeOK
    BY DEF Inv
<1> DEFINE Holds == rec[req.date].state = "open" /\ (req.op = "checkout" => req.t = rec[req.date].in)
<1> SUFFICES ASSUME req'.op \in {"start", "end", "checkout"},
                    rec'[req'.date].state # "absent", Untouched(req.date)'
             PROVE  Holds'
    BY DEF RequestHolds
<1>1. CASE CheckOutBegin
  <2>1. PICK d \in ActiveSession :
            req' = [Idle EXCEPT !.op = "checkout", !.date = d, !.t = rec[d].in] /\ UNCHANGED rec
      BY <1>1 DEF CheckOutBegin
  <2>2. rec[d].state = "open"
      BY DEF ActiveSession, Open
  <2>3. req'.date = d /\ req'.t = rec[d].in
      BY <2>1 DEF Idle
  <2> QED
      BY <2>1, <2>2, <2>3
<1>2. CASE StartBreakBegin
    BY <1>2 DEF StartBreakBegin, Idle
<1>3. CASE EndBreakBegin
  <2>1. PICK b \in ActiveBreaks(DateOf(clock)) :
            req' = [Idle EXCEPT !.op = "end", !.date = DateOf(clock), !.brk = b]
      BY <1>3 DEF EndBreakBegin
  <2>2. req'.date = DateOf(clock) /\ req'.op = "end"
      BY <2>1 DEF Idle
  <2> QED
      BY <1>3, <2>2 DEF EndBreakBegin
<1>4. CASE req' = req /\ rec'[req.date] = rec[req.date]
    BY <1>4 DEF RequestHolds, Untouched
<1>5. ASSUME req' = req, NEW e \in Dates, UpdateAttendance(e) \/ DeleteAttendance(e)
      PROVE  Holds'
  <2>1. req.date \in Dates
      BY <1>0 DEF TypeOK, Requests
  <2>2. CASE e # req.date
    <3>1. rec'[req.date] = rec[req.date]
        BY <1>0, <1>5, <2>1, <2>2, OtherRowsStay
    <3> QED
        BY <1>4, <1>5, <3>1
  <2>3. CASE e = req.date
    <3>1. ~DeleteAttendance(e)
        BY <1>0, <1>5, <2>3, DeletedRow DEF NoRow
    <3>2. rec'[req.date].edited
        BY <1>0, <1>5, <2>3, <3>1, EditedRow
    <3> QED
        BY <1>5, <3>2 DEF Untouched
  <2> QED
      BY <2>2, <2>3
<1>6. CASE req' = req /\ (UNCHANGED vars \/ Tick)
    BY <1>4, <1>6 DEF vars, Tick
<1> HIDE DEF Holds
<1> QED
    BY <1>1, <1>2, <1>3, <1>5, <1>6, RequestStep, RequestBegins

-----------------------------------------------------------------------------
LEMMA SessionStep ==
    ASSUME Inv, BreakInv, RowInv, BreaksWithinSession, [Next]_vars
    PROVE  BreaksWithinSession'
<1>0. TypeOK /\ BreaksPast /\ NoOrphans /\ InPast /\ RequestHolds
    BY DEF Inv, BreakInv, RowInv
<1> DEFINE Within(d, b) ==
             /\ rec[d].in <= breaks[b].start
             /\ rec[d].state = "closed" =>
                  /\ breaks[b].status = "COMPLETED"
                  /\ breaks[b].start + breaks[b].duration <= rec[d].out
<1> SUFFICES ASSUME NEW d \in Dates, Untouched(d)', NEW b \in BreaksOf(d)'
             PROVE  Within(d, b)'
    BY DEF BreaksWithinSession
<1>1. b \in BreakIds /\ breaks'[b].status # "NONE" /\ breaks'[b].date = d
    BY DEF BreaksOf
<1>2. CASE rec'[d] = rec[d]
  <2>1. Untouched(d) /\ \A c \in BreaksOf(d) : Within(d, c)
      BY <1>2 DEF Untouched, BreaksWithinSession
  <2>2. CASE breaks'[b] = breaks[b]
    <3>1. b \in BreaksOf(d)
        BY <1>1, <2>2 DEF BreaksOf
    <3> QED
        BY <1>2, <2>1, <2>2, <3>1
  <2>3. CASE StartBreakCommit
    <3>1. PICK n \in BreakIds :
            /\ rec[req.date].state # "absent"
            /\ breaks'[n] = [status |-> "ACTIVE", date |-> req.date, start |-> clock, duration |-> 0]
            /\ \A c \in BreakIds \ {n} : breaks'[c] = breaks[c]
        BY <2>3, StartsBreak
    <3>2. CASE b = n
      <4>1. req.date = d /\ breaks'[b].start = clock
          BY <1>1, <3>1, <3>2
      <4>2. rec[d].state = "open"
          BY <1>0, <2>1, <2>3, <3>1, <4>1 DEF RequestHolds, StartBreakCommit
      <4>3. rec[d].in <= clock
          BY <1>0, <2>1 DEF InPast
      <4> QED
          BY <1>2, <4>1, <4>2, <4>3
    <3> QED
        BY <1>1, <2>2, <3>1, <3>2
  <2>4. CASE CheckOutCommit \/ EndBreakCommit
    <3>1. /\ breaks'[b] = IF b \in ActiveBreaks(req.date) THEN Ended(b) ELSE breaks[b]
          /\ rec[req.date].state # "absent"
        BY <1>1, <2>4, EndsBreak
    <3>2. CASE b \in ActiveBreaks(req.date)
      <4>1. breaks'[b].start = breaks[b].start /\ breaks'[b].date = breaks[b].date
          BY <1>0, <1>1, <3>1, <3>2, EndedIs
      <4>2. req.date = d /\ b \in BreaksOf(d)
          BY <1>1, <3>2, <4>1 DEF ActiveBreaks, BreaksOf
      <4>3. rec[d].state = "open"
          BY <1>0, <2>1, <2>4, <3>1, <4>2 DEF RequestHolds, CheckOutCommit, EndBreakCommit
      <4> QED
          BY <1>2, <2>1, <4>1, <4>2, <4>3
    <3> QED
        BY <2>2, <3>1, <3>2
  <2> QED
      BY <1>1, <2>2, <2>3, <2>4, BreaksStep, DeletesBreaks
<1>3. CASE rec[d].state = "absent"
  <2>1. BreaksOf(d) = {}
      BY <1>0, <1>3 DEF NoOrphans
  <2> QED
      BY <1>3, <2>1, BreaksOfStep
<1>4. CASE DeleteAttendance(d)
    BY <1>0, <1>4, DeletedRow
<1>5. CASE CheckOutCommit /\ req.date = d
  <2>1. /\ rec'[d].in = rec[d].in /\ rec'[d].out = clock /\ Untouched(d)
      BY <1>5, CheckedOutRow
  <2>2. breaks'[b] = IF b \in ActiveBreaks(d) THEN Ended(b) ELSE breaks[b]
      BY <1>1, <1>5, EndsBreak
  <2>3. breaks[b].start \in Nat /\ clock \in Nat
      BY <1>0, <1>1, BreakTypes
  <2>4. CASE b \in ActiveBreaks(d)
    <3>1. /\ breaks'[b].status = "COMPLETED" /\ breaks'[b].start = breaks[b].start
          /\ breaks'[b].duration = clock - breaks[b].start
        BY <1>0, <1>1, <2>2, <2>4, EndedIs
    <3>2. rec[d].in <= breaks[b].start
        BY <2>1, <2>4 DEF BreaksWithinSession, ActiveBreaks
    <3> QED
        BY <2>1, <2>3, <3>1, <3>2
  <2>5. CASE b \notin ActiveBreaks(d)
    <3>1. breaks'[b] = breaks[b] /\ b \in BreaksOf(d)
        BY <1>1, <2>2, <2>5 DEF BreaksOf
    <3>2. breaks[b].status = "COMPLETED"
        BY <1>0, <1>1, <2>5, <3>1, BreakTypes DEF ActiveBreaks
    <3>3. rec[d].in <= breaks[b].start /\ breaks[b].start + breaks[b].duration <= clock
        BY <1>0, <1>1, <2>1, <3>1 DEF BreaksWithinSession, BreaksPast, Taken, EndOf
    <3> QED
        BY <2>1, <3>1, <3>2, <3>3
  <2> QED
      BY <2>4, <2>5
<1>6. ~(rec'[d].edited \/ rec'[d].punch = "OUT")
    BY DEF Untouched
<1> QED
    BY <1>2, <1>3, <1>4, <1>5, <1>6, RowStep

-----------------------------------------------------------------------------
\* The steps that write break_duration.
LEMMA BrkStep ==
    ASSUME Inv, [Next]_vars, NEW d \in Dates
    PROVE  \/ brk'[d] = brk[d]
           \/ rec[d].state = "absent" /\ brk'[d] = 0 /\ UNCHANGED breaks
           \/ DeleteAttendance(d)
           \/ (CheckOutCommit \/ EndBreakCommit) /\ req.date = d
<1>0. TypeOK /\ brk \in [Dates -> Int]
    BY DEF Inv, TypeOK
<1>1. CASE CheckInCommit
    BY <1>0, <1>1 DEF CheckInCommit
<1>2. CASE CoreCheckIn
    BY <1>0, <1>2 DEF CoreCheckIn
<1>3. CASE CoreCheckOut
    BY <1>0, <1>3 DEF CoreCheckOut
<1>4. CASE CheckOutCommit \/ EndBreakCommit
    BY <1>4, EndsBreak
<1>5. ASSUME NEW e \in Dates, UpdateAttendance(e) \/ DeleteAttendance(e)
      PROVE  brk'[d] = brk[d] \/ DeleteAttendance(d)
  <2>1. CASE e # d
      BY <1>0, <1>5, <2>1, OtherRowsStay
  <2>2. CASE e = d /\ UpdateAttendance(e)
      BY <2>2 DEF UpdateAttendance
  <2> QED
      BY <1>5, <2>1, <2>2
<1>6. CASE UNCHANGED brk
    BY <1>6
<1>7. \/ UNCHANGED brk
      \/ CheckInCommit \/ CoreCheckIn \/ CoreCheckOut \/ CheckOutCommit \/ EndBreakCommit
      \/ \E e \in Dates : UpdateAttendance(e) \/ DeleteAttendance(e)
    BY DEF Next, vars, CheckInBegin, CheckInFindsStale, CheckOutBegin, StartBreakBegin,
           StartBreakCommit, EndBreakBegin, RequestRefused, RowHasGone, Tick
<1> QED
    BY <1>1, <1>2, <1>3, <1>4, <1>5, <1>6, <1>7

LEMMA NextSum ==
    ASSUME NEW d
    PROVE  SumOfDurations(BreaksOf(d))' = Cardinality(Ticks(breaks', BreaksOf(d)'))
    BY DEF SumOfDurations, TicksOf, Ticks

LEMMA SameSum ==
    ASSUME NEW d, BreaksOf(d)' = BreaksOf(d), \A b \in BreaksOf(d) : breaks'[b] = breaks[b]
    PROVE  SumOfDurations(BreaksOf(d))' = SumOfDurations(BreaksOf(d))
<1>1. Ticks(breaks', BreaksOf(d)) = Ticks(breaks, BreaksOf(d))
    BY TicksSame
<1>2. SumOfDurations(BreaksOf(d)) = Cardinality(Ticks(breaks, BreaksOf(d)))
    BY BreaksOfIds, SumIs
<1> QED
    BY <1>1, <1>2, NextSum

\* No break, no duration.
LEMMA EmptySum ==
    ASSUME NEW d
    PROVE  /\ BreaksOf(d) = {} => SumOfDurations(BreaksOf(d)) = 0
           /\ BreaksOf(d)' = {} => SumOfDurations(BreaksOf(d))' = 0
<1>1. \A F : Ticks(F, {}) = {}
    BY DEF Ticks
<1>2. Cardinality(Ticks(breaks, {})) = 0 /\ Cardinality(Ticks(breaks', {})) = 0
    BY <1>1, FS_EmptySet
<1>3. SumOfDurations(BreaksOf(d)) = Cardinality(Ticks(breaks, BreaksOf(d)))
    BY BreaksOfIds, SumIs
<1> QED
    BY <1>2, <1>3, NextSum

LEMMA AddUpStep ==
    ASSUME Inv, BreakInv, BreaksAddUp, [Next]_vars
    PROVE  BreaksAddUp'
<1>0. TypeOK /\ BreaksPast /\ NoOrphans
    BY DEF Inv, BreakInv
<1> SUFFICES ASSUME NEW d \in Dates PROVE brk'[d] = SumOfDurations(BreaksOf(d))'
    BY DEF BreaksAddUp
<1> DEFINE B == BreaksOf(d)
<1>1. brk[d] = SumOfDurations(B) /\ SumOfDurations(B) = Cardinality(Ticks(breaks, B))
    BY BreaksOfIds, SumIs DEF BreaksAddUp
<1>2. CASE StartBreakCommit
  <2>1. PICK n \in BreakIds :
          /\ ~Taken(n) /\ UNCHANGED brk
          /\ breaks'[n] = [status |-> "ACTIVE", date |-> req.date, start |-> clock, duration |-> 0]
          /\ \A c \in BreakIds \ {n} : breaks'[c] = breaks[c]
      BY <1>2, StartsBreak
  <2>2. n \notin B /\ B \subseteq BreakIds /\ \A c \in B : breaks'[c] = breaks[c]
      BY <2>1 DEF BreaksOf, Taken
  <2>3. CASE d # req.date
    <3>1. BreaksOf(d)' = B
        BY <2>1, <2>3 DEF BreaksOf, Taken
    <3> QED
        BY <1>1, <2>1, <2>2, <3>1, SameSum
  <2>4. CASE d = req.date
    <3>1. BreaksOf(d)' = B \cup {n}
        BY <2>1, <2>4 DEF BreaksOf, Taken
    <3>2. /\ breaks'[n].start = clock /\ breaks'[n].duration = 0
          /\ clock \in Nat /\ clock <= MaxClock
        BY <1>0, <2>1, BreakTypes
    <3> HIDE DEF B
    <3>3. Cardinality(Ticks(breaks', B \cup {n})) = Cardinality(Ticks(breaks', B)) + 0
      <4>1. /\ breaks'[n].start \in Nat /\ breaks'[n].duration \in Nat
            /\ breaks'[n].start + breaks'[n].duration <= MaxClock
          BY <3>2
      <4>2. Cardinality(Ticks(breaks', B \cup {n}))
                = Cardinality(Ticks(breaks', B)) + breaks'[n].duration
          BY <2>2, <4>1, TicksSplit
      <4> QED
          BY <3>2, <4>2
    <3>4. Ticks(breaks', B) = Ticks(breaks, B) /\ Cardinality(Ticks(breaks, B)) \in Nat
        BY <2>2, TicksSame, TicksFinite
    <3>5. SumOfDurations(BreaksOf(d))' = Cardinality(Ticks(breaks', B \cup {n}))
        BY <3>1, NextSum
    <3>6. brk'[d] = Cardinality(Ticks(breaks, B))
        BY <1>1, <2>1
    <3> QED
        BY <3>3, <3>4, <3>5, <3>6
  <2> QED
      BY <2>3, <2>4
<1>3. CASE CheckOutCommit \/ EndBreakCommit
  <2> DEFINE A == ActiveBreaks(req.date)
  <2>1. /\ \A b \in BreakIds : breaks'[b] = IF b \in A THEN Ended(b) ELSE breaks[b]
        /\ d # req.date => brk'[d] = brk[d]
        /\ A = {} => brk'[req.date] = brk[req.date]
        /\ \A b \in A : brk'[req.date] = BreakTotal(req.date, b)
        /\ req.date \in Dates
      BY <1>3, EndsBreak
  <2>2. /\ A \subseteq BreaksOf(req.date) /\ A \subseteq BreakIds
        /\ \A b, c \in A : b = c
      BY <2>1, BreaksOfIds DEF ActiveBreaks, Inv, AtMostOne
  <2>3. BreaksOf(d)' = B
    <3>1. \A b \in A : /\ breaks'[b].status = "COMPLETED" /\ breaks'[b].date = breaks[b].date
                       /\ breaks[b].status = "ACTIVE"
      <4>1. \A b \in A : breaks[b].status = "ACTIVE"
          BY DEF ActiveBreaks
      <4> QED
          BY <1>0, <2>1, <2>2, <4>1, EndedIs
    <3>2. \A b \in BreakIds \ A : breaks'[b] = breaks[b]
        BY <2>1
    <3> HIDE DEF A
    <3> QED
        BY <3>1, <3>2 DEF BreaksOf
  <2>4. CASE d # req.date \/ A = {}
    <3>1. B \cap A = {} /\ B \subseteq BreakIds
        BY <2>2, <2>4 DEF BreaksOf
    <3>2. \A b \in B : breaks'[b] = breaks[b]
        BY <2>1, <3>1
    <3>3. brk'[d] = brk[d]
        BY <2>1, <2>4
    <3> QED
        BY <1>1, <2>3, <3>2, <3>3, SameSum
  <2>5. CASE d = req.date /\ A # {}
    <3>1. PICK x \in A : A = {x}
        BY <2>2, <2>5
    <3> DEFINE R == B \ {x}
    <3>2. /\ x \in BreakIds /\ x \in B /\ R \subseteq BreakIds /\ x \notin R /\ B = R \cup {x}
      <4>1. x \in BreakIds /\ x \in B
          BY <2>2, <2>5, <3>1
      <4> QED
          BY <4>1, BreaksOfIds
    <3>3. \A b \in R : breaks'[b] = breaks[b]
        BY <2>1, <3>1, <3>2
    <3>4. /\ breaks'[x].start = breaks[x].start /\ breaks'[x].duration = clock - breaks[x].start
        BY <1>0, <2>1, <3>1, <3>2, EndedIs
    <3>5. /\ breaks[x].start \in Nat /\ clock \in Nat /\ clock <= MaxClock
          /\ breaks[x].duration \in Int
        BY <1>0, <3>2, BreakTypes
    <3>6. breaks[x].start <= clock
      <4>1. 0 <= breaks[x].duration /\ breaks[x].start + breaks[x].duration <= clock
          BY <1>0, <3>2 DEF BreaksPast, Taken, EndOf, BreaksOf
      <4> QED
          BY <3>5, <4>1
    <3> HIDE DEF R, A, B
    <3>7. Cardinality(Ticks(breaks', R \cup {x})) = Cardinality(Ticks(breaks', R)) + (clock - breaks[x].start)
      <4>1. /\ breaks'[x].start \in Nat /\ breaks'[x].duration \in Nat
            /\ breaks'[x].start + breaks'[x].duration <= MaxClock
          BY <3>4, <3>5, <3>6
      <4>2. Cardinality(Ticks(breaks', R \cup {x}))
                = Cardinality(Ticks(breaks', R)) + breaks'[x].duration
          BY <3>2, <4>1, TicksSplit
      <4> QED
          BY <3>4, <4>2
    <3>8. Ticks(breaks', R) = Ticks(breaks, R) /\ SumOfDurations(R) = Cardinality(Ticks(breaks, R))
        BY <3>2, <3>3, TicksSame, SumIs
    <3>9. brk'[d] = SumOfDurations(R) + (clock - breaks[x].start)
      <4>1. brk'[d] = BreakTotal(d, x)
          BY <2>1, <2>5, <3>1
      <4> QED
          BY <4>1 DEF BreakTotal, R, B
    <3>10. SumOfDurations(BreaksOf(d))' = Cardinality(Ticks(breaks', R \cup {x}))
        BY <2>3, <3>2, NextSum
    <3> QED
        BY <3>7, <3>8, <3>9, <3>10
  <2> QED
      BY <2>4, <2>5
<1>4. ASSUME NEW e \in Dates, DeleteAttendance(e) PROVE brk'[d] = SumOfDurations(BreaksOf(d))'
  <2>1. CASE e = d
      BY <1>0, <1>4, <2>1, DeletedRow, EmptySum
  <2>2. CASE e # d
      BY <1>0, <1>1, <1>4, <2>2, OtherRowsStay, SameSum
  <2> QED
      BY <2>1, <2>2
<1>5. CASE /\ UNCHANGED breaks /\ ~CheckOutCommit /\ ~EndBreakCommit /\ ~DeleteAttendance(d)
  <2>1. BreaksOf(d)' = B /\ \A b \in B : breaks'[b] = breaks[b]
      BY <1>5 DEF BreaksOf
  <2>2. SumOfDurations(BreaksOf(d))' = SumOfDurations(B)
      BY <2>1, SameSum
  <2>3. CASE rec[d].state = "absent" /\ brk'[d] = 0
    <3>1. SumOfDurations(B) = 0
        BY <1>0, <2>3, EmptySum DEF NoOrphans
    <3> QED
        BY <2>2, <2>3, <3>1
  <2> QED
      BY <1>1, <1>5, <2>2, <2>3, BrkStep
<1> QED
    BY <1>2, <1>3, <1>4, <1>5, BreaksStep

-----------------------------------------------------------------------------
\* Of a session with the snapshot of a face check-in, evaluate_checkout leaves
\* what the breaks do not take.
LEMMA WorkedHoursIs ==
    ASSUME NEW d, rec[d].snapshot, d \notin OffDates, NEW in \in Int, NEW out \in Int,
           in <= out, NEW logged \in Nat, logged <= out - in
    PROVE  WorkedHours(d, in, out, logged) = (out - in) - logged
<1>1. Max({0, out - in}) = out - in
    BY MaxIs
<1>2. WorkedHours(d, in, out, logged)
          = Max({0, (out - in) - (IF logged > 0 THEN logged ELSE 0)})
    BY <1>1 DEF WorkedHours
<1>3. Max({0, (out - in) - logged}) = (out - in) - logged
    BY MaxIs
<1>4. (IF logged > 0 THEN logged ELSE 0) = logged
    OBVIOUS
<1> QED
    BY <1>2, <1>3, <1>4

\* After a step, too, the breaks of a session are no longer than it.
LEMMA BreaksFit ==
    ASSUME TypeOK', BreaksApart', BreaksWithinSession', NEW d \in Dates, Untouched(d)',
           rec'[d].state = "closed", rec'[d].in <= rec'[d].out
    PROVE  SumOfDurations(BreaksOf(d))' <= rec'[d].out - rec'[d].in
<1> DEFINE B == BreaksOf(d)'
           lo == rec'[d].in
           hi == rec'[d].out
<1>1. lo \in Int /\ hi \in Int /\ lo <= hi /\ B \subseteq BreakIds
    BY DEF TypeOK, Rows, BreaksOf
<1>2. \A b \in B : /\ lo <= breaks'[b].start /\ breaks'[b].start + breaks'[b].duration <= hi
    BY DEF BreaksWithinSession
<1>3. \A b \in B : breaks'[b].start \in Int /\ breaks'[b].duration \in Int
  <2>1. \A b \in BreakIds : breaks'[b] \in Breaks
      BY DEF TypeOK
  <2> QED
      BY <1>1, <2>1 DEF Breaks
<1>4. \A b, c \in B : b = c \/ breaks'[b].start + breaks'[b].duration <= breaks'[c].start
                            \/ breaks'[c].start + breaks'[c].duration <= breaks'[b].start
    BY DEF BreaksApart, BreaksOf, Taken, EndOf
<1>5. SumOfDurations(BreaksOf(d))' = Cardinality(Ticks(breaks', B))
    BY NextSum
<1> HIDE DEF B, lo, hi
<1>6. Cardinality(Ticks(breaks', B)) <= hi - lo
    BY <1>1, <1>2, <1>3, <1>4, TicksWithin
<1> QED
    BY <1>5, <1>6 DEF lo, hi

LEMMA HoursStep ==
    ASSUME Inv, BreakInv, RowInv, HoursAddUp, [Next]_vars,
           TypeOK', BreakInv', BreaksWithinSession', BreaksAddUp'
    PROVE  HoursAddUp'
<1>0. TypeOK /\ RequestHolds /\ InPast
    BY DEF Inv, RowInv
<1> SUFFICES ASSUME NEW d \in Dates \ OffDates, rec'[d].state = "closed", rec'[d].snapshot,
                    Untouched(d)'
             PROVE  hours'[d] + brk'[d] = rec'[d].out - rec'[d].in
    BY DEF HoursAddUp
<1>1. CASE rec'[d] = rec[d] /\ hours'[d] = hours[d]
  <2>1. hours[d] + brk[d] = rec[d].out - rec[d].in /\ Untouched(d)
      BY <1>1 DEF HoursAddUp, Untouched
  <2>2. ~DeleteAttendance(d)
      BY <1>0, DeletedRow DEF NoRow
  <2>3. ~((CheckOutCommit \/ EndBreakCommit) /\ req.date = d)
      BY <1>0, <1>1, <2>1, EndsBreak DEF RequestHolds, CheckOutCommit, EndBreakCommit
  <2>4. brk'[d] = brk[d]
      BY <1>1, <2>2, <2>3, BrkStep
  <2> QED
      BY <1>1, <2>1, <2>4
<1>2. CASE CheckOutCommit /\ req.date = d
  <2> DEFINE in == rec[d].in
  <2>1. /\ rec'[d].out = clock /\ rec'[d].in = in /\ rec[d].snapshot /\ Untouched(d)
        /\ rec[d].state # "absent" /\ hours'[d] = WorkedHours(d, req.t, clock, brk'[d])
      BY <1>2, CheckedOutRow
  <2>2. req.t = in
      BY <1>0, <1>2, <2>1 DEF RequestHolds, CheckOutCommit
  <2>3. in \in Nat /\ clock \in Nat /\ in <= clock
      BY <1>0, <2>1, Constants DEF InPast, TypeOK, Rows
  <2>4. brk'[d] = SumOfDurations(BreaksOf(d))'
      BY DEF BreaksAddUp
  <2>5. brk'[d] <= clock - in
    <3>1. SumOfDurations(BreaksOf(d))' <= rec'[d].out - rec'[d].in
      <4>1. rec'[d].in <= rec'[d].out
          BY <2>1, <2>3
      <4>2. BreaksApart'
          BY DEF BreakInv
      <4> QED
          BY <4>1, <4>2, BreaksFit
    <3> QED
        BY <2>1, <2>4, <3>1
  <2>6. brk'[d] \in Nat
    <3>1. BreaksOf(d)' \subseteq BreakIds
        BY DEF BreaksOf
    <3>2. Cardinality(Ticks(breaks', BreaksOf(d)')) \in Nat
        BY <3>1, TicksFinite
    <3> QED
        BY <2>4, <3>2, NextSum
  <2> HIDE DEF in
  <2>7. WorkedHours(d, in, clock, brk'[d]) = (clock - in) - brk'[d]
      BY <2>1, <2>3, <2>5, <2>6, WorkedHoursIs
  <2> QED
      BY <2>1, <2>2, <2>3, <2>6, <2>7
<1>3. ~DeleteAttendance(d)
    BY <1>0, DeletedRow DEF NoRow
<1>4. ~(rec'[d].edited \/ rec'[d].punch = "OUT")
    BY DEF Untouched
<1> QED
    BY <1>1, <1>2, <1>3, <1>4, RowStep

-----------------------------------------------------------------------------
\* What the attendance table says of a day, with what it rests on: breaks lie
\* in the past and apart from each other, a break has its row, and a check-out
\* still knows the check-in it has loaded.
DayInv ==
    /\ Inv /\ BreakInv /\ RowInv
    /\ BreaksAddUp /\ BreaksWithinSession /\ HoursAddUp

LEMMA DayInit == Init => DayInv
<1> SUFFICES ASSUME Init PROVE DayInv
    OBVIOUS
<1>1. Inv
    BY InvInit
<1>2. /\ \A d \in Dates : rec[d] = NoRow /\ brk[d] = 0 /\ BreaksOf(d) = {}
      /\ \A b \in BreakIds : ~Taken(b)
      /\ req.op = "none"
    BY DEF Init, BreaksOf, Taken, NoBreak, Idle
<1>3. \A d \in Dates : rec[d].state = "absent" /\ rec[d].in = 0
    BY <1>2 DEF NoRow
<1>4. BreakInv
    BY <1>2 DEF BreakInv, BreaksPast, BreaksApart, NoOrphans
<1>5. RowInv
  <2>1. clock = 0
      BY DEF Init
  <2> QED
      BY <1>2, <1>3, <2>1 DEF RowInv, InPast, RequestHolds
<1>6. BreaksAddUp
    BY <1>2, EmptySum DEF BreaksAddUp
<1>7. BreaksWithinSession
    BY <1>2 DEF BreaksWithinSession
<1>8. HoursAddUp
    BY <1>3 DEF HoursAddUp
<1> QED
    BY <1>1, <1>4, <1>5, <1>6, <1>7, <1>8 DEF DayInv

LEMMA DayStep ==
    ASSUME DayInv, [Next]_vars
    PROVE  DayInv'
<1>0. /\ Inv /\ BreakInv /\ RowInv
      /\ BreaksAddUp /\ BreaksWithinSession /\ HoursAddUp
    BY DEF DayInv
<1>1. Inv'
    BY <1>0, InvStep
<1>2. BreakInv'
    BY <1>0, PastStep, ApartStep, OrphansStep DEF BreakInv
<1>3. RowInv'
    BY <1>0, InPastStep, HoldsStep DEF RowInv
<1>4. BreaksWithinSession' /\ BreaksAddUp'
    BY <1>0, SessionStep, AddUpStep
<1>5. HoursAddUp'
  <2>1. TypeOK'
      BY <1>1 DEF Inv
  <2> QED
      BY <1>0, <1>2, <1>4, <2>1, HoursStep
<1> QED
    BY <1>1, <1>2, <1>3, <1>4, <1>5 DEF DayInv

\* The inductive invariant of the day holds.
THEOREM DayInvHolds == Spec => []DayInv
    BY DayInit, DayStep, PTL DEF Spec

\* break_duration of a row is at all times the sum of the durations in its
\* break rows, whether end_break or check_out has ended the last one and
\* whatever HR edited or deleted between a request's read and its commit.
THEOREM BreakDurationsAddUp == Spec => []BreaksAddUp
<1>1. DayInv => BreaksAddUp
    BY DEF DayInv
<1> QED
    BY <1>1, DayInvHolds, PTL

\* In a session that only the face routes have written no break starts before
\* the check-in, and check_out leaves none active or ending after it, also when
\* the clock moved between the read and the commit.
THEOREM BreaksStayInSession == Spec => []BreaksWithinSession
<1>1. DayInv => BreaksWithinSession
    BY DEF DayInv
<1> QED
    BY <1>1, DayInvHolds, PTL

\* Of a session that the face routes opened and closed on a working day, hours
\* worked and hours of break make up the time between the punches, for every
\* shift, window and number of breaks.
THEOREM WorkedAndBreakMakeTheDay == Spec => []HoursAddUp
<1>1. DayInv => HoursAddUp
    BY DEF DayInv
<1> QED
    BY <1>1, DayInvHolds, PTL

=============================================================================
