------------------------- MODULE RateLimiterProofs -------------------------
(* Proofs about RateLimiter, for every host table and every number of calls. *)
EXTENDS RateLimiter, TLAPS

\* The burst is a whole number of ticks and at least one interval.
LEMMA BurstType == ASSUME NEW h \in Host
                   PROVE  Burst(h) \in Nat /\ Burst(h) >= Interval[h]
<1>1. Interval[h] \in Nat /\ MAX_BURST_TOKENS * Interval[h] \in Nat
  BY LimiterAssumption
<1> DEFINE b == MAX_BURST_TOKENS * Interval[h]
<1>2. b \in Nat
  BY <1>1
<1> HIDE DEF b
<1>3. AtMost(b, BURST_SECONDS) \in Nat
  BY <1>2, LimiterAssumption DEF AtMost
<1>4. QED
  BY <1>1, <1>3 DEF Burst, AtLeast, b

\* One more interval, without multiplying out: what the SMT solver is told of
\* the only product in the proof.
LEMMA OneMore == ASSUME NEW k \in Int, NEW m \in Int
                 PROVE  /\ k * m \in Int
                        /\ (k + 1) * m = k * m + m
                        /\ 1 * m = m
OBVIOUS

\* Every reachable state is well typed.
THEOREM TypeCorrect == Spec => []TypeOK
<1> USE LimiterAssumption
<1>1. Init => TypeOK
  BY DEF Init, TypeOK
<1>2. TypeOK /\ [Next]_vars => TypeOK'
  <2> SUFFICES ASSUME TypeOK, [Next]_vars PROVE TypeOK'
    OBVIOUS
  <2> USE DEF TypeOK
  <2>1. ASSUME NEW c \in Caller, NEW h \in Host, Reserve(c, h)
        PROVE  TypeOK'
    <3>1. Arrival(h) \in Nat /\ Granted(h) \in Nat
      BY BurstType DEF Arrival, Granted, AtLeast
    <3>2. QED
      BY <2>1, <3>1 DEF Reserve
  <2>2. ASSUME NEW c \in Caller, Send(c)
        PROVE  TypeOK'
    BY <2>2 DEF Send
  <2>3. CASE Tick
    BY <2>3 DEF Tick
  <2>4. CASE UNCHANGED vars
    BY <2>4 DEF vars
  <2>5. QED
    BY <2>1, <2>2, <2>3, <2>4 DEF Next
<1>3. QED
  BY <1>1, <1>2, PTL DEF Spec

------------------------------------------------------------------------------
(* Spacing.  The theoretical arrival time `tat` remembers every slot granted  *)
(* so far: it lies at least one interval per later grant beyond each of them. *)

TatCoversSlots ==
    \A h \in Host : \A i \in DOMAIN slots[h] :
        tat[h] >= slots[h][i] + (Len(slots[h]) - i + 1) * Interval[h]

SpacingInv == Spacing /\ TatCoversSlots

\* A host is never asked for more than one burst plus one request per interval
\* over any run of slots, for every rate, burst and interleaving of callers.
THEOREM SpacingHolds == Spec => []Spacing
<1> USE LimiterAssumption
<1>1. Init => SpacingInv
  BY DEF Init, SpacingInv, Spacing, TatCoversSlots
<1>2. TypeOK /\ SpacingInv /\ [Next]_vars => SpacingInv'
  <2> SUFFICES ASSUME TypeOK, SpacingInv, [Next]_vars
               PROVE  SpacingInv'
    OBVIOUS
  <2> USE DEF TypeOK
  <2>1. ASSUME NEW c \in Caller, NEW h \in Host, Reserve(c, h)
        PROVE  SpacingInv'
    <3> DEFINE s == slots[h]
               n == Len(s)
               a == Arrival(h)
               g == Granted(h)
               I == Interval[h]
               B == Burst(h)
    <3>1. s \in Seq(Nat) /\ n \in Nat /\ I \in Nat /\ B \in Nat
      BY BurstType
    <3>2. a \in Nat /\ g \in Nat /\ tat[h] \in Nat /\ a >= tat[h] /\ a >= now /\ g >= a - B /\ g <= a
      BY BurstType DEF Arrival, Granted, AtLeast
    <3>3. slots' = [slots EXCEPT ![h] = Append(s, g)] /\ tat' = [tat EXCEPT ![h] = a + I]
      BY <2>1 DEF Reserve
    <3>4. /\ slots'[h] = Append(s, g)
          /\ tat'[h] = a + I
          /\ \A k \in Host : k # h => slots'[k] = slots[k] /\ tat'[k] = tat[k]
      BY <3>3
    <3>5. /\ Len(slots'[h]) = n + 1
          /\ DOMAIN slots'[h] = 1 .. (n + 1)
          /\ DOMAIN s = 1 .. n
          /\ \A i \in 1 .. n : slots'[h][i] = s[i] /\ s[i] \in Nat
          /\ slots'[h][n + 1] = g
      BY <3>1, <3>2, <3>4
    <3>6. \A i \in 1 .. n : tat[h] >= s[i] + (n - i + 1) * I
      BY <3>5 DEF SpacingInv, TatCoversSlots
    <3>7. \A i, j \in 1 .. n : i < j => s[j] >= s[i] + (j - i) * I - B
      BY <3>5 DEF SpacingInv, Spacing
    <3> HIDE DEF s, n, a, g, I, B
    <3>8. ASSUME NEW i \in 1 .. (n + 1)
          PROVE  tat'[h] >= slots'[h][i] + ((n + 1) - i + 1) * I
      <4>1. CASE i = n + 1
        <5>1. ((n + 1) - i + 1) * I = I
          BY <3>1, <4>1, OneMore
        <5>2. QED
          BY <3>1, <3>2, <3>4, <3>5, <4>1, <5>1
      <4>2. CASE i \in 1 .. n
        <5> DEFINE k == n - i + 1
                   room == k * I
                   longer == (k + 1) * I
        <5>1. k \in Int /\ (n + 1) - i + 1 = k + 1
          BY <3>1, <4>2
        <5>2. room \in Int
          BY <3>1, <5>1, OneMore
        <5>3. s[i] \in Nat /\ slots'[h][i] = s[i]
          BY <3>5, <4>2
        <5>4. tat[h] >= s[i] + room
          BY <3>6, <4>2
        <5>5. longer = room + I
          BY <3>1, <5>1, OneMore
        <5> HIDE DEF room, longer
        <5>6. a + I >= s[i] + longer
          BY <3>1, <3>2, <5>2, <5>3, <5>4, <5>5
        <5>7. ((n + 1) - i + 1) * I = longer
          BY <5>1 DEF longer
        <5>8. QED
          BY <3>4, <5>3, <5>6, <5>7
      <4>3. QED
        BY <3>1, <4>1, <4>2
    <3>9. ASSUME NEW i \in 1 .. (n + 1), NEW j \in 1 .. (n + 1), i < j
          PROVE  slots'[h][j] >= slots'[h][i] + (j - i) * I - B
      <4>1. i \in 1 .. n
        BY <3>1, <3>9
      <4>2. CASE j \in 1 .. n
        BY <3>5, <3>7, <3>9, <4>1, <4>2
      <4>3. CASE j = n + 1
        <5> DEFINE k == n - i + 1
                   room == k * I
        <5>1. k \in Int /\ j - i = k
          BY <3>1, <4>1, <4>3
        <5>2. room \in Int
          BY <3>1, <5>1, OneMore
        <5>3. s[i] \in Nat /\ slots'[h][i] = s[i] /\ slots'[h][j] = g
          BY <3>5, <4>1, <4>3
        <5>4. tat[h] >= s[i] + room
          BY <3>6, <4>1
        <5> HIDE DEF k, room
        <5>5. g >= s[i] + room - B
          BY <3>1, <3>2, <5>2, <5>3, <5>4
        <5>6. (j - i) * I = room
          BY <5>1 DEF room
        <5>7. QED
          BY <5>3, <5>5, <5>6
      <4>4. QED
        BY <3>1, <4>2, <4>3
    <3>10. \A k \in Host : k # h =>
             /\ \A i \in DOMAIN slots'[k] :
                  tat'[k] >= slots'[k][i] + (Len(slots'[k]) - i + 1) * Interval[k]
             /\ \A i, j \in DOMAIN slots'[k] :
                  i < j => slots'[k][j] >= slots'[k][i] + (j - i) * Interval[k] - Burst(k)
      BY <3>4 DEF SpacingInv, Spacing, TatCoversSlots
    <3>11. TatCoversSlots'
      BY <3>5, <3>8, <3>10 DEF TatCoversSlots, I
    <3>12. Spacing'
      BY <3>5, <3>9, <3>10 DEF Spacing, I, B
    <3>13. QED
      BY <3>11, <3>12 DEF SpacingInv
  <2>2. ASSUME UNCHANGED <<slots, tat>>
        PROVE  SpacingInv'
    BY <2>2 DEF SpacingInv, Spacing, TatCoversSlots
  <2>3. QED
    BY <2>1, <2>2 DEF Next, Send, Tick, vars
<1>3. SpacingInv => Spacing
  BY DEF SpacingInv
<1>4. QED
  BY <1>1, <1>2, <1>3, TypeCorrect, PTL DEF Spec

------------------------------------------------------------------------------
(* Order and promptness                                                      *)

\* No slot lies beyond the earliest one the bucket could grant next.
NoSlotAhead ==
    \A h \in Host : \A i \in DOMAIN slots[h] :
        slots[h][i] <= AtLeast(tat[h] - Interval[h] - Burst(h), now)

OrderInv == FirstComeFirstServed /\ NoSlotAhead

\* Whoever reserves later is never sent earlier, for every rate, burst and number of
\* callers: the bucket has no memory but the theoretical arrival time.
THEOREM FirstComeHolds == Spec => []FirstComeFirstServed
<1> USE LimiterAssumption
<1>1. Init => OrderInv
  BY DEF Init, OrderInv, FirstComeFirstServed, NoSlotAhead
<1>2. TypeOK /\ OrderInv /\ [Next]_vars => OrderInv'
  <2> SUFFICES ASSUME TypeOK, OrderInv, [Next]_vars
               PROVE  OrderInv'
    OBVIOUS
  <2> USE DEF TypeOK
  <2>1. ASSUME NEW c \in Caller, NEW h \in Host, Reserve(c, h)
        PROVE  OrderInv'
    <3> DEFINE n == Len(slots[h])
               g == Granted(h)
    <3>1. /\ n \in Nat /\ Interval[h] \in Nat /\ Burst(h) \in Nat
          /\ tat[h] \in Nat /\ now \in Nat /\ Arrival(h) \in Nat /\ g \in Nat
      BY BurstType DEF Arrival, Granted, AtLeast
    <3>2. /\ tat'[h] = Arrival(h) + Interval[h] /\ now' = now
          /\ slots'[h] = Append(slots[h], g)
          /\ \A k \in Host : k # h => slots'[k] = slots[k] /\ tat'[k] = tat[k]
      BY <2>1 DEF Reserve
    <3>3. /\ DOMAIN slots[h] = 1 .. n /\ DOMAIN slots'[h] = 1 .. (n + 1)
          /\ \A i \in 1 .. n : slots'[h][i] = slots[h][i] /\ slots[h][i] \in Nat
          /\ slots'[h][n + 1] = g
      BY <3>1, <3>2
    <3>4. \A i \in 1 .. n : slots[h][i] <= AtLeast(tat[h] - Interval[h] - Burst(h), now)
      BY <3>3 DEF OrderInv, NoSlotAhead
    <3>5. \A i \in 1 .. n : slots[h][i] <= g
      BY <3>1, <3>3, <3>4 DEF Arrival, Granted, AtLeast
    <3>6. g = AtLeast(tat'[h] - Interval[h] - Burst(h), now')
      BY <3>1, <3>2 DEF Granted, AtLeast
    <3>7. \A i, j \in 1 .. n : i < j => slots[h][i] <= slots[h][j]
      BY <3>3 DEF OrderInv, FirstComeFirstServed
    <3> HIDE DEF n, g
    <3>8. ASSUME NEW i \in 1 .. (n + 1), NEW j \in 1 .. (n + 1), i < j
          PROVE  slots'[h][i] <= slots'[h][j]
      <4>1. i \in 1 .. n
        BY <3>1, <3>8
      <4>2. CASE j \in 1 .. n
        BY <3>3, <3>7, <3>8, <4>1, <4>2
      <4>3. CASE j = n + 1
        BY <3>3, <3>5, <4>1, <4>3
      <4>4. QED
        BY <3>1, <4>2, <4>3
    <3>9. \A i \in 1 .. (n + 1) : slots'[h][i] <= g
      BY <3>1, <3>3, <3>5
    <3>10. \A k \in Host : k # h =>
             /\ \A i, j \in DOMAIN slots'[k] : i < j => slots'[k][i] <= slots'[k][j]
             /\ \A i \in DOMAIN slots'[k] :
                  slots'[k][i] <= AtLeast(tat'[k] - Interval[k] - Burst(k), now')
      BY <3>2 DEF OrderInv, FirstComeFirstServed, NoSlotAhead
    <3>11. FirstComeFirstServed'
      BY <3>3, <3>8, <3>10 DEF FirstComeFirstServed
    <3>12. NoSlotAhead'
      BY <3>3, <3>6, <3>9, <3>10 DEF NoSlotAhead
    <3>13. QED
      BY <3>11, <3>12 DEF OrderInv
  <2>2. CASE Tick
    <3>1. UNCHANGED <<slots, tat>> /\ now' = now + 1
      BY <2>2 DEF Tick
    <3>2. FirstComeFirstServed'
      BY <3>1 DEF OrderInv, FirstComeFirstServed
    <3>3. ASSUME NEW h \in Host, NEW i \in DOMAIN slots[h]
          PROVE  slots[h][i] <= AtLeast(tat[h] - Interval[h] - Burst(h), now + 1)
      <4>1. /\ slots[h][i] \in Nat /\ tat[h] \in Nat /\ now \in Nat
            /\ Interval[h] \in Nat /\ Burst(h) \in Nat
        BY BurstType
      <4>2. slots[h][i] <= AtLeast(tat[h] - Interval[h] - Burst(h), now)
        BY DEF OrderInv, NoSlotAhead
      <4>3. QED
        BY <4>1, <4>2 DEF AtLeast
    <3>4. QED
      BY <3>1, <3>2, <3>3 DEF OrderInv, NoSlotAhead
  <2>3. ASSUME UNCHANGED <<slots, tat, now>>
        PROVE  OrderInv'
    BY <2>3 DEF OrderInv, FirstComeFirstServed, NoSlotAhead
  <2>4. QED
    BY <2>1, <2>2, <2>3 DEF Next, Send, vars
<1>3. OrderInv => FirstComeFirstServed
  BY DEF OrderInv
<1>4. QED
  BY <1>1, <1>2, <1>3, TypeCorrect, PTL DEF Spec

\* The theoretical arrival time is some slot and an interval for every grant since:
\* the first of the run of requests that is still being worked off.
RunIsWorkedOff ==
    \A h \in Host :
        tat[h] = 0 \/ \E i \in DOMAIN slots[h] :
                          tat[h] = slots[h][i] + (Len(slots[h]) - i + 1) * Interval[h]

\* A request waits only because a run of earlier ones has used up the burst and one
\* request per interval since, for every rate, burst and number of callers.
THEOREM NobodyWaitsIdly == Spec => NoIdleWaiting
<1> USE LimiterAssumption
<1>1. Init => RunIsWorkedOff
  BY DEF Init, RunIsWorkedOff
<1>2. ASSUME TypeOK, RunIsWorkedOff, NEW c \in Caller, NEW h \in Host, Reserve(c, h)
      PROVE  /\ RunIsWorkedOff'
             /\ slots'[h][Len(slots'[h])] > now =>
                   \E i \in DOMAIN slots[h] :
                       slots'[h][Len(slots'[h])] =
                           slots[h][i] + (Len(slots'[h]) - i) * Interval[h] - Burst(h)
             /\ \A k \in Host : k # h => slots'[k] = slots[k]
  <2> DEFINE n == Len(slots[h])
             g == Granted(h)
             I == Interval[h]
             B == Burst(h)
  <2>1. /\ n \in Nat /\ I \in Nat /\ B \in Nat
        /\ tat[h] \in Nat /\ now \in Nat /\ Arrival(h) \in Nat /\ g \in Nat
    BY <1>2, BurstType DEF Arrival, Granted, AtLeast, TypeOK
  <2>2. /\ tat'[h] = Arrival(h) + I
        /\ slots'[h] = Append(slots[h], g)
        /\ \A k \in Host : k # h => slots'[k] = slots[k] /\ tat'[k] = tat[k]
    BY <1>2 DEF Reserve, TypeOK
  <2>3. /\ DOMAIN slots[h] = 1 .. n /\ DOMAIN slots'[h] = 1 .. (n + 1) /\ Len(slots'[h]) = n + 1
        /\ \A i \in 1 .. n : slots'[h][i] = slots[h][i] /\ slots[h][i] \in Nat
        /\ slots'[h][n + 1] = g
    BY <1>2, <2>1, <2>2 DEF TypeOK
  <2>4. tat[h] = 0 \/ \E i \in 1 .. n : tat[h] = slots[h][i] + (n - i + 1) * I
    BY <1>2, <2>3 DEF RunIsWorkedOff
  <2>5. CASE tat[h] <= now
    <3>1. Arrival(h) = now /\ g = now
      BY <2>1, <2>5 DEF Arrival, Granted, AtLeast
    <3> HIDE DEF n, g, I, B
    <3>2. ((n + 1) - (n + 1) + 1) * I = I
      BY <2>1, OneMore
    <3>3. tat'[h] = slots'[h][n + 1] + ((n + 1) - (n + 1) + 1) * I
      BY <2>2, <2>3, <3>1, <3>2
    <3>4. n + 1 \in DOMAIN slots'[h]
      BY <2>1, <2>3
    <3>5. RunIsWorkedOff'
      BY <1>2, <2>2, <2>3, <3>3, <3>4 DEF RunIsWorkedOff, I
    <3>6. QED
      BY <2>1, <2>2, <2>3, <3>1, <3>5
  <2>6. CASE tat[h] > now
    <3>1. Arrival(h) = tat[h] /\ (g > now => g = tat[h] - B) /\ tat[h] # 0
      BY <2>1, <2>6 DEF Arrival, Granted, AtLeast
    <3> HIDE DEF n, g, I, B
    <3>2. PICK i \in 1 .. n : tat[h] = slots[h][i] + (n - i + 1) * I
      BY <2>4, <3>1, Zenon
    <3> DEFINE k == n - i + 1
               room == k * I
               longer == (k + 1) * I
    <3>3. k \in Int /\ (n + 1) - i = k /\ (n + 1) - i + 1 = k + 1 /\ i \in 1 .. (n + 1)
      BY <2>1
    <3> HIDE DEF k
    <3>4. room \in Int /\ longer = room + I
      BY <2>1, <3>3, OneMore
    <3>5. tat[h] = slots[h][i] + room /\ slots[h][i] \in Nat /\ slots'[h][i] = slots[h][i]
      BY <2>3, <3>2 DEF k
    <3> HIDE DEF room, longer
    <3>6. tat'[h] = slots'[h][i] + longer
      BY <2>1, <2>2, <3>1, <3>4, <3>5
    <3>7. (Len(slots'[h]) - i + 1) * I = longer /\ (Len(slots'[h]) - i) * I = room
      BY <2>3, <3>3 DEF room, longer
    <3>8. RunIsWorkedOff'
      BY <1>2, <2>2, <2>3, <3>3, <3>6, <3>7 DEF RunIsWorkedOff, I
    <3>9. g > now => g = slots[h][i] + room - B
      <4>1. g > now => g = tat[h] - B
        BY <3>1, Zenon
      <4>2. tat[h] = slots[h][i] + room
        BY <3>5, Zenon
      <4>3. slots[h][i] \in Int /\ room \in Int /\ B \in Int /\ g \in Int /\ now \in Int
        BY <2>1, <3>4, <3>5
      <4>4. QED
        BY <4>1, <4>2, <4>3, SMT
    <3>10. g > now => g = slots[h][i] + (Len(slots'[h]) - i) * I - B
      BY <3>7, <3>9, Zenon
    <3>11. slots'[h][Len(slots'[h])] = g /\ i \in DOMAIN slots[h]
      BY <2>3
    <3>12. QED
      BY <2>2, <3>8, <3>10, <3>11, Zenon DEF I, B
  <2>7. QED
    BY <2>1, <2>5, <2>6
<1>3. TypeOK /\ RunIsWorkedOff /\ [Next]_vars => RunIsWorkedOff'
  <2>1. UNCHANGED <<slots, tat>> /\ RunIsWorkedOff => RunIsWorkedOff'
    BY DEF RunIsWorkedOff
  <2>2. QED
    BY <1>2, <2>1 DEF Next, Send, Tick, vars
<1>4. TypeOK /\ RunIsWorkedOff /\ [Next]_vars =>
        \A h \in Host, c \in Caller :
            slots'[h] # slots[h] /\ slots'[h][Len(slots'[h])] > now =>
                \E i \in DOMAIN slots[h] :
                    slots'[h][Len(slots'[h])] =
                        slots[h][i] + (Len(slots'[h]) - i) * Interval[h] - Burst(h)
  <2> SUFFICES ASSUME TypeOK, RunIsWorkedOff, [Next]_vars, NEW h \in Host,
                      slots'[h] # slots[h], slots'[h][Len(slots'[h])] > now
               PROVE  \E i \in DOMAIN slots[h] :
                          slots'[h][Len(slots'[h])] =
                              slots[h][i] + (Len(slots'[h]) - i) * Interval[h] - Burst(h)
    OBVIOUS
  <2>1. PICK d \in Caller, k \in Host : Reserve(d, k)
    BY DEF Next, Send, Tick, vars
  <2>2. k = h
    BY <1>2, <2>1
  <2>3. QED
    BY <1>2, <2>1, <2>2
<1>5. QED
  BY <1>1, <1>3, <1>4, TypeCorrect, PTL DEF Spec, NoIdleWaiting
=============================================================================
