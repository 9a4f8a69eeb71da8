----------------------------- MODULE TimerWheel -----------------------------
(***************************************************************************)
(* src/core/qd_timer.c: the hierarchical timer wheel, on the intrusive     *)
(* lists of src/util/qd_list.h.  The lists are kept as the next and prev   *)
(* pointers of their nodes, because qd_list_splice does not reinitialise   *)
(* the head it empties, and a timer is one node whatever list it is on.    *)
(* The wheel has Levels levels of 2^Bits slots (4 and 8 in the code).      *)
(***************************************************************************)
EXTENDS Integers, FiniteSets

CONSTANTS
  Timers,    \* the timers of the application
  Repeating, \* those it starts with start_periodic, the others with start
  Bits,      \* QD_TIMER_WHEEL_BITS
  Levels,    \* QD_TIMER_WHEEL_LEVELS
  Delays,    \* delays, in ticks, the application asks for
  MaxJump,   \* bound: ticks that pass between two calls of tick
  MaxTick    \* bound: last tick

ASSUME TWAssumption == /\ Bits \in Nat \ {0} /\ Levels \in Nat \ {0}
                       /\ Delays \subseteq Nat

VARIABLES
  tick,      \* wheel->current_tick
  links,     \* next (n) and prev (p) of every list node
  expires, interval, periodic, tstate,   \* fields of qd_timer_t
  slot,      \* <<wheel_level, slot>>, or Unscheduled
  num,       \* wheel->num_timers
  tpc, target, timer,   \* qd_timer_wheel_tick: control, target_tick, timer
  fires,     \* history: callbacks of a timer since it was last started
  stale,     \* history: heads a splice has emptied without resetting them
  misuse     \* history: what has been done to the lists that they cannot take

twVars == <<tick, links, expires, interval, periodic, tstate, slot, num,
            tpc, target, timer, fires, stale, misuse>>
appVars == <<tpc, target, timer, tick, stale>>

Size        == 2 ^ Bits
Unscheduled == <<-1, -1>>
Slots       == (0 .. Levels - 1) \X (0 .. Size - 1)
Heads       == Slots \cup {<<"expired">>, <<"batch">>, <<"tmp">>}
Nodes       == Heads \cup Timers

-----------------------------------------------------------------------------
(* qd_list.h on the links L *)

ListEmpty(L, h) == L.n[h] = h

ListInit(L, x) == [n |-> [L.n EXCEPT ![x] = x], p |-> [L.p EXCEPT ![x] = x]]

ListAddTail(L, x, h) ==
  [n |-> [L.n EXCEPT ![x] = h, ![L.p[h]] = x],
   p |-> [L.p EXCEPT ![h] = x, ![x] = L.p[h]]]

ListDelInit(L, x) ==
  ListInit([n |-> [L.n EXCEPT ![L.p[x]] = L.n[x]],
            p |-> [L.p EXCEPT ![L.n[x]] = L.p[x]]], x)

ListSplice(L, list, h) ==
  IF ListEmpty(L, list) THEN L
  ELSE [n |-> [L.n EXCEPT ![h] = L.n[list], ![L.p[list]] = L.n[h]],
        p |-> [L.p EXCEPT ![L.n[list]] = h, ![L.n[h]] = L.p[list]]]

-----------------------------------------------------------------------------

\* Defect: a level takes in the first tick of the next one.
CalculateSlotWide(c, e) ==
  LET fits  == {l \in 0 .. Levels - 2 : e - c <= Size ^ (l + 1)}
      level == IF fits = {} THEN Levels - 1
               ELSE CHOOSE l \in fits : \A m \in fits : l <= m
  IN <<level, (e \div Size ^ level) % Size>>

\* The level and slot of a timer that expires at tick e, seen from tick c.
CalculateSlot(c, e) ==
  LET fits  == {l \in 0 .. Levels - 2 : e - c < Size ^ (l + 1)}
      level == IF fits = {} THEN Levels - 1
               ELSE CHOOSE l \in fits : \A m \in fits : l <= m
  IN <<level, (e \div Size ^ level) % Size>>

\* add_timer_internal; a node that is still on another list, or a head that a
\* splice has left behind, breaks the lists.
AddTimer(L, t, e, c) ==
  /\ links' = ListAddTail(L, t, CalculateSlot(c, e))
  /\ slot' = [slot EXCEPT ![t] = CalculateSlot(c, e)]
  /\ misuse' = misuse \cup
                 (IF L.n[t] # t THEN {"linked"} ELSE {}) \cup
                 (IF CalculateSlot(c, e) \in stale THEN {"stale head"} ELSE {})

\* remove_timer_internal, on the links
Removed(t) == IF slot[t] = Unscheduled THEN links ELSE ListDelInit(links, t)

TWInit ==
  /\ tick = 0 /\ num = 0
  /\ links = [n |-> [x \in Nodes |-> x], p |-> [x \in Nodes |-> x]]
  /\ expires = [t \in Timers |-> 0] /\ interval = [t \in Timers |-> 1]
  /\ periodic = [t \in Timers |-> FALSE]
  /\ tstate = [t \in Timers |-> "IDLE"]
  /\ slot = [t \in Timers |-> Unscheduled]
  /\ tpc = "out" /\ target = 0 /\ timer = <<"tmp">>
  /\ stale = {} /\ misuse = {}
  /\ fires = [t \in Timers |-> 0]

-----------------------------------------------------------------------------
(* Calls of the application.  The lock is free unless a tick is moving     *)
(* timers; callbacks run outside it, so these actions are also what a      *)
(* callback, or another thread during one, does.                           *)

LockFree == tpc \in {"out", "fire", "callback"}
Alive(t) == tstate[t] # "FREED"

\* qd_timer_start and qd_timer_start_periodic (and start_at, restart), with
\* the delay in ticks
Start(t, d, isPeriodic) ==
  LET ticks == IF d = 0 THEN 1 ELSE d IN
  /\ LockFree /\ Alive(t)
  /\ AddTimer(Removed(t), t, tick + ticks, tick)
  /\ expires' = [expires EXCEPT ![t] = tick + ticks]
  /\ interval' = [interval EXCEPT ![t] = ticks]
  /\ periodic' = [periodic EXCEPT ![t] = isPeriodic]
  /\ tstate' = [tstate EXCEPT ![t] = "SCHEDULED"]
  /\ num' = num + 1
  /\ fires' = [fires EXCEPT ![t] = 0]
  /\ UNCHANGED appVars

\* qd_timer_set_delay: a scheduled timer is restarted with the new interval.
SetDelay(t, d) ==
  \/ /\ tstate[t] = "SCHEDULED" /\ Start(t, d, periodic[t])
  \/ /\ LockFree /\ tstate[t] \notin {"SCHEDULED", "FREED"}
     /\ interval' = [interval EXCEPT ![t] = IF d = 0 THEN 1 ELSE d]
     /\ UNCHANGED <<appVars, links, expires, periodic, tstate, slot, num,
                    fires, misuse>>

Stop(t, newState) ==
  /\ LockFree /\ Alive(t)
  /\ links' = Removed(t)
  /\ slot' = [slot EXCEPT ![t] = Unscheduled]
  /\ num' = IF slot[t] = Unscheduled THEN num ELSE num - 1
  /\ tstate' = [tstate EXCEPT ![t] = newState]
  /\ UNCHANGED <<appVars, expires, interval, periodic, fires>>

TimerStop(t) == Stop(t, "CANCELLED") /\ UNCHANGED misuse

\* qd_timer_destroy stops the timer and frees it; a timer that is on the batch
\* of a tick is freed while it is linked there.
TimerDestroy(t) ==
  /\ Stop(t, "FREED")
  /\ misuse' = IF Removed(t).n[t] # t \/ (tpc = "callback" /\ timer = t)
                 \/ \E h \in stale : links.n[h] = t \/ links.p[h] = t
               THEN misuse \cup {"freed"} ELSE misuse

\* qd_event_defer_timeout creates and starts a one-shot timer whose callback,
\* deferred_timeout_cb, destroys the timer it runs for.
DeferTimeout(t, d) == tstate[t] = "IDLE" /\ Start(t, d, FALSE)

DeferredTimeoutCb == tpc = "callback" /\ timer \in Timers /\ TimerDestroy(timer)

-----------------------------------------------------------------------------
(* qd_timer_wheel_tick (and tick_to, which moves base_time and calls it):   *)
(* n ticks have passed.  From "slots" to "cascade" the lock is held.        *)

tickFrame == <<expires, interval, periodic, num, fires>>

TickCall(n) ==
  /\ tpc = "out" /\ n > 0 /\ tick + n <= MaxTick
  /\ target' = tick + n /\ tpc' = "slots"
  /\ UNCHANGED <<tickFrame, tick, links, tstate, slot, timer, stale, misuse>>

\* The first node of list h, when it is a timer; anything else is a list head
\* read as a timer, and the program's behaviour is undefined from there on.
Crash(h) ==
  /\ links.n[h] \notin Timers
  /\ tpc' = "crashed" /\ misuse' = misuse \cup {"head read as timer"}
  /\ UNCHANGED <<tickFrame, tick, links, tstate, slot, timer, target, stale>>

\* One timer of the current slot goes to the expired list, or back to the wheel.
SlotStep ==
  LET h == <<0, tick % Size>>
      t == links.n[h]
      L == ListDelInit(links, t)
  IN
  /\ tpc = "slots" /\ tick < target /\ ~ListEmpty(links, h)
  /\ \/ Crash(h)
     \/ /\ t \in Timers
        /\ \/ /\ expires[t] <= tick
              /\ links' = ListAddTail(L, t, <<"expired">>)
              /\ slot' = [slot EXCEPT ![t] = Unscheduled]
              /\ misuse' = IF <<"expired">> \in stale
                           THEN misuse \cup {"stale head"} ELSE misuse
           \/ /\ expires[t] > tick
              /\ AddTimer(L, t, expires[t], tick)
        /\ UNCHANGED <<tickFrame, tick, tpc, tstate, timer, target, stale>>

\* cascade_timers(level): the slot of the level goes to the local list tmp; the
\* head of the slot keeps its pointers.
CascadeStart(level, L) ==
  LET h == <<level, (tick' \div Size ^ level) % Size>>
      M == ListSplice(ListInit(L, <<"tmp">>), h, <<"tmp">>)
  IN
  /\ links' = M
  /\ misuse' = IF h \in stale THEN misuse \cup {"stale head"} ELSE misuse
  /\ stale' = IF ListEmpty(L, h) THEN stale ELSE stale \cup {h}
  /\ tpc' = "cascade" /\ timer' = h

\* The slot is empty: the next tick, with a cascade at the end of a turn.
SlotDone ==
  /\ tpc = "slots" /\ tick < target /\ ListEmpty(links, <<0, tick % Size>>)
  /\ tick' = tick + 1
  /\ \/ /\ (tick + 1) % Size = 0 /\ Levels > 1
        /\ CascadeStart(1, links)
     \/ /\ (tick + 1) % Size # 0 \/ Levels = 1
        /\ UNCHANGED <<links, misuse, stale, tpc, timer>>
  /\ UNCHANGED <<tickFrame, tstate, slot, target>>

CascadeStep ==
  LET t == links.n[<<"tmp">>] IN
  /\ tpc = "cascade" /\ ~ListEmpty(links, <<"tmp">>)
  /\ \/ Crash(<<"tmp">>)
     \/ /\ t \in Timers
        /\ AddTimer(ListDelInit(links, t), t, expires[t], tick)
        /\ UNCHANGED <<tickFrame, tick, tpc, tstate, timer, target, stale>>

\* Defect: level 2 and above are never emptied.
CascadeDoneShallow ==
  /\ tpc = "cascade" /\ ListEmpty(links, <<"tmp">>)
  /\ tpc' = "slots"
  /\ UNCHANGED <<tickFrame, tick, tstate, slot, target, links, misuse, stale, timer>>

\* timer[1] is the level that has just been emptied.
CascadeDone ==
  LET level == timer[1] IN
  /\ tpc = "cascade" /\ ListEmpty(links, <<"tmp">>)
  /\ UNCHANGED <<tickFrame, tick, tstate, slot, target>>
  /\ \/ /\ level + 1 < Levels /\ tick % Size ^ (level + 1) = 0
        /\ CascadeStart(level + 1, links)
     \/ /\ level + 1 = Levels \/ tick % Size ^ (level + 1) # 0
        /\ tpc' = "slots" /\ UNCHANGED <<links, misuse, stale, timer>>

\* The expired list goes to the local list batch and the lock is released.
SpliceExpired ==
  LET h == <<"expired">> IN
  /\ tpc = "slots" /\ tick = target
  /\ links' = ListSplice(ListInit(links, <<"batch">>), h, <<"batch">>)
  /\ misuse' = IF h \in stale THEN misuse \cup {"stale head"} ELSE misuse
  /\ stale' = IF ListEmpty(links, h) THEN stale ELSE stale \cup {h}
  /\ tpc' = "fire"
  /\ UNCHANGED <<tickFrame, tick, tstate, slot, timer, target>>

Fire ==
  LET t == links.n[<<"batch">>] IN
  /\ tpc = "fire" /\ ~ListEmpty(links, <<"batch">>)
  /\ \/ Crash(<<"batch">>)
     \/ /\ t \in Timers
        /\ links' = ListDelInit(links, t)
        /\ tstate' = [tstate EXCEPT ![t] = IF @ = "FREED" THEN @ ELSE "RUNNING"]
        /\ fires' = [fires EXCEPT ![t] = @ + 1]
        /\ timer' = t /\ tpc' = "callback"
        /\ misuse' = IF tstate[t] = "FREED" THEN misuse \cup {"freed"} ELSE misuse
        /\ UNCHANGED <<expires, interval, periodic, num, tick, slot, target, stale>>

\* The callback has returned: a periodic timer is linked again, whatever the
\* callback or another thread has done with it.
FireDone ==
  LET t == timer IN
  /\ tpc = "callback" /\ tpc' = "fire"
  /\ \/ /\ periodic[t]
        /\ expires' = [expires EXCEPT ![t] = tick + interval[t]]
        /\ AddTimer(links, t, tick + interval[t], tick)
        /\ tstate' = [tstate EXCEPT ![t] = IF @ = "FREED" THEN @ ELSE "SCHEDULED"]
        /\ fires' = [fires EXCEPT ![t] = 0]
        /\ UNCHANGED num
     \/ /\ ~periodic[t]
        /\ tstate' = [tstate EXCEPT ![t] = IF @ = "FREED" THEN @ ELSE "IDLE"]
        /\ num' = num - 1
        /\ UNCHANGED <<expires, links, slot, misuse, fires>>
  /\ UNCHANGED <<interval, periodic, tick, target, timer, stale>>

TickDone ==
  /\ tpc = "fire" /\ ListEmpty(links, <<"batch">>)
  /\ tpc' = "out" /\ target' = 0 /\ timer' = <<"tmp">>
  /\ UNCHANGED <<tickFrame, tick, links, tstate, slot, stale, misuse>>

TickStep == \/ SlotStep \/ SlotDone \/ CascadeStep \/ CascadeDone
            \/ SpliceExpired \/ Fire \/ FireDone \/ TickDone

\* num_timers counts every start; the application is bounded by it.
MaxStarts == Cardinality(Timers)

AppStep ==
  \/ /\ num < MaxStarts
     /\ \E t \in Timers, d \in Delays :
          \/ Start(t, d, t \in Repeating)
          \/ SetDelay(t, d)
          \/ t \notin Repeating /\ DeferTimeout(t, d)
  \/ \E t \in Timers : TimerStop(t) \/ TimerDestroy(t)
  \/ DeferredTimeoutCb

TWNext == AppStep \/ TickStep \/ \E n \in 1 .. MaxJump : TickCall(n)

TWSpec     == TWInit /\ [][TWNext]_twVars

\* The wheel up to its first misused list.
TWSound == misuse = {} /\ TWNext

-----------------------------------------------------------------------------
(* Properties.  Until the lists are misused the wheel keeps its promises.   *)

TWTypeOK ==
  /\ tick \in 0 .. MaxTick /\ target \in 0 .. MaxTick
  /\ links.n \in [Nodes -> Nodes] /\ links.p \in [Nodes -> Nodes]
  /\ slot \in [Timers -> Slots \cup {Unscheduled}]
  /\ tstate \in [Timers -> {"IDLE", "SCHEDULED", "RUNNING", "CANCELLED", "FREED"}]
  /\ tpc \in {"out", "slots", "cascade", "fire", "callback", "crashed"}

Wheeled == {t \in Timers : slot[t] # Unscheduled}

\* next_timeout, in ticks: the distance to the first slot of level 0 in use
NextTimeout ==
  LET used == {i \in 0 .. Size - 1 : ~ListEmpty(links, <<0, (tick + i) % Size>>)}
  IN IF num = 0 THEN -1
     ELSE IF used = {} THEN 1 ELSE CHOOSE i \in used : \A j \in used : i <= j

\* No timer is left behind: between two ticks every timer in the wheel is still
\* to come, and it sits where add_timer_internal would put it now or at a level
\* the wheel empties before the timer is due (calculate_slot, cascade_timers).
NoTimerOverslept ==
  (misuse = {} /\ LockFree) =>
    \A t \in Wheeled :
      /\ expires[t] >= tick
      /\ LET l == slot[t][1] IN
           /\ slot[t][2] = (expires[t] \div Size ^ l) % Size
           /\ expires[t] \div Size ^ l - tick \div Size ^ l <= Size
           /\ l > 0 => expires[t] \div Size ^ l > tick \div Size ^ l

\* The loop polls with qd_timer_wheel_next_timeout: it never sleeps for ever
\* (-1, when num_timers is 0) while a timer is in the wheel.
NoEndlessPoll == (misuse = {} /\ Wheeled # {}) => NextTimeout >= 0

\* The number of nodes of the list at h
Count(h) ==
  LET N == Cardinality(Timers)
      walk[k \in 0 .. N] == IF k = 0 THEN h ELSE links.n[walk[k - 1]]
  IN Cardinality({k \in 1 .. N : \A j \in 1 .. k : walk[j] # h})

\* What a tick has still to do: slots to empty, levels to cascade, nodes in the
\* list at hand, callbacks to run.
Work ==
  LET N == Cardinality(Timers) + 1
      Big == 4 * N * (Levels + 3)
  IN CASE tpc = "slots"    -> (target - tick + 1) * Big + Count(<<0, tick % Size>>)
       [] tpc = "cascade"  -> (target - tick + 1) * Big + (Levels + 1 - timer[1]) * N
                                + Count(<<"tmp">>)
       [] tpc = "fire"     -> 2 * Count(<<"batch">>)
       [] tpc = "callback" -> 2 * Count(<<"batch">>) + 1
       [] OTHER            -> -1

\* A tick returns: each of its steps leaves it less to do, whatever callbacks
\* and other threads start, stop and destroy between two of them.
TickReturns ==
  [][(misuse' = {} /\ tpc # "out") =>
       IF tpc' = tpc /\ tpc \in {"fire", "callback"} THEN Work' = Work ELSE Work' < Work]_twVars

\* "One-shot timer (default)": its callback runs once for each start.
OneShotFiresOnce ==
  "freed" \in misuse \/ "linked" \in misuse
    \/ \A t \in Timers : ~periodic[t] => fires[t] <= 1

\* No timer of the wheel is missed: it is where a tick will find it, and the
\* loop does not sleep past it for ever.
WheelInTime == TWTypeOK /\ NoTimerOverslept /\ NoEndlessPoll
=============================================================================
