---------------------------- MODULE RateLimiter ----------------------------
(***************************************************************************)
(* arrival.http.ratelimit: one GCRA bucket per host, shared by every       *)
(* coroutine of the process.  Time is counted in ticks fine enough that    *)
(* every interval is a whole number of them.                               *)
(*                                                                         *)
(* `reserve` runs between two awaits and is one step; the sleep it answers *)
(* with is a second step, which the event loop may take late, never early. *)
(***************************************************************************)
EXTENDS Integers, Sequences

CONSTANTS
    Host,
    Caller,              \* calls of acquire()
    Interval,            \* 1 / rate_for_host, in ticks
    BURST_SECONDS,       \* _BURST_SECONDS, in ticks
    MAX_BURST_TOKENS,    \* _MAX_BURST_TOKENS
    MaxNow               \* bound: the last tick TLC explores

ASSUME LimiterAssumption ==
    /\ Interval \in [Host -> Nat \ {0}]
    /\ BURST_SECONDS \in Nat
    /\ MAX_BURST_TOKENS \in Nat \ {0}
    /\ MaxNow \in Nat

VARIABLES
    now,                 \* time.monotonic()
    tat,                 \* _Bucket.tat, per host; a fresh bucket has 0
    pc,                  \* per caller: "idle", "sleeping" or "sent"
    slot,                \* per caller: when its sleep ends
    slots                \* observer: per host, the slots granted, in order

vars == <<now, tat, pc, slot, slots>>

AtLeast(a, b) == IF a > b THEN a ELSE b
AtMost(a, b) == IF a < b THEN a ELSE b

\* _bucket: capacity = max(1, min(8, rate * 2)) tokens, as the time it takes
\* to refill them.
Burst(h) ==
    AtLeast(Interval[h], AtMost(MAX_BURST_TOKENS * Interval[h], BURST_SECONDS))

Init ==
    /\ now = 0
    /\ tat = [h \in Host |-> 0]
    /\ pc = [c \in Caller |-> "idle"]
    /\ slot = [c \in Caller |-> 0]
    /\ slots = [h \in Host |-> <<>>]

\* reserve(): the theoretical arrival, and the instant the caller may go.
\* (`seen` only detects a clock that ran backwards, which a monotonic one
\* does not: a test that swaps the clock is not modelled.)
\* Mutants of Arrival: the queue forgotten; and the reset for a clock that ran
\* backwards misfiring on a long queue.
ArrivalNow(h) == now
ArrivalReset(h) ==
    IF tat[h] > now + Burst(h) + Interval[h] THEN now ELSE AtLeast(tat[h], now)
Arrival(h) == AtLeast(tat[h], now)

\* Mutant: no burst allowance.
GrantedOnArrival(h) == Arrival(h)
Granted(h) == AtLeast(Arrival(h) - Burst(h), now)

Reserve(c, h) ==
    /\ pc[c] = "idle"
    /\ Granted(h) <= MaxNow          \* bound: only slots the clock reaches
    /\ tat' = [tat EXCEPT ![h] = Arrival(h) + Interval[h]]
    /\ slot' = [slot EXCEPT ![c] = Granted(h)]
    /\ slots' = [slots EXCEPT ![h] = Append(@, Granted(h))]
    /\ pc' = [pc EXCEPT ![c] = "sleeping"]
    /\ UNCHANGED now

\* Mutant: a wake-up that is lost when the event loop is late.
SendOnTheDot(c) ==
    /\ pc[c] = "sleeping"
    /\ slot[c] = now
    /\ pc' = [pc EXCEPT ![c] = "sent"]
    /\ UNCHANGED <<now, tat, slot, slots>>

\* The sleep is over (at once when the wait is 0): the request goes out.
Send(c) ==
    /\ pc[c] = "sleeping"
    /\ slot[c] <= now
    /\ pc' = [pc EXCEPT ![c] = "sent"]
    /\ UNCHANGED <<now, tat, slot, slots>>

Tick ==
    /\ now < MaxNow
    /\ now' = now + 1
    /\ UNCHANGED <<tat, pc, slot, slots>>

Next ==
    \/ \E c \in Caller, h \in Host : Reserve(c, h)
    \/ \E c \in Caller : Send(c)
    \/ Tick

\* The clock runs, and the event loop wakes every sleeper whose time has come.
Fairness == WF_vars(Tick) /\ \A c \in Caller : WF_vars(Send(c))

Spec == Init /\ [][Next]_vars /\ Fairness

------------------------------------------------------------------------------
TypeOK ==
    /\ now \in Nat
    /\ tat \in [Host -> Nat]
    /\ pc \in [Caller -> {"idle", "sleeping", "sent"}]
    /\ slot \in [Caller -> Nat]
    /\ slots \in [Host -> Seq(Nat)]

\* However the callers race, the n-th next slot of a host is never closer than
\* n intervals less the burst allowance: no window ever gets more requests than
\* its length allows plus one burst.
Spacing ==
    \A h \in Host : \A i, j \in DOMAIN slots[h] :
        i < j => slots[h][j] >= slots[h][i] + (j - i) * Interval[h] - Burst(h)

\* Slots are granted first come, first served: a later caller never overtakes.
FirstComeFirstServed ==
    \A h \in Host : \A i, j \in DOMAIN slots[h] :
        i < j => slots[h][i] <= slots[h][j]

\* The limiter never makes a caller wait for nothing: it delays a request only
\* when some run of requests before it leaves no room for an earlier slot.
NoIdleWaiting ==
    [][\A h \in Host, c \in Caller :
        slots'[h] # slots[h] /\ slots'[h][Len(slots'[h])] > now =>
            \E i \in DOMAIN slots[h] :
                slots'[h][Len(slots'[h])] =
                    slots[h][i] + (Len(slots'[h]) - i) * Interval[h] - Burst(h)]_vars

\* Every caller that reserved a slot gets to send.
EverySleeperSends == \A c \in Caller : pc[c] = "sleeping" ~> pc[c] = "sent"

\* ratelimit.py's comment on _MAX_BURST_TOKENS, "Never let the burst exceed
\* this": no more than that many requests are let go at the same instant.
BurstNeverExceedsMax ==
    \A h \in Host, t \in 0 .. MaxNow :
        Len(SelectSeq(slots[h], LAMBDA s : s = t)) <= MAX_BURST_TOKENS
=============================================================================
